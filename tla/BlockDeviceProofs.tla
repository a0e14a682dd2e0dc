-------------------------- MODULE BlockDeviceProofs --------------------------
(***************************************************************************)
(* Proofs about the request queues, the split of a request over threads    *)
(* and the block device agent on top of them, for every number of cores,   *)
(* hardware queues, tags and requests, every size of a request, every      *)
(* limit on its threads and every error a sector may end with.             *)
(***************************************************************************)
EXTENDS BlockDevice, FiniteSetTheorems, SequenceTheorems, TLAPS

-----------------------------------------------------------------------------
(* The invariants *)

(* Some queue has an entry for request r. *)
Queued(r) == \E c \in Cores : \E i \in 1..Len(reqs[c]) : reqs[c][i] = r

(* Two entries of the queues are for two requests. *)
NoTwins ==
    \A c, d \in Cores : \A i \in 1..Len(reqs[c]), j \in 1..Len(reqs[d]) :
        reqs[c][i] = reqs[d][j] => c = d /\ i = j

(* A request is in one place, and nowhere while it is idle. *)
PlacesInv ==
    /\ NoTwins
    /\ \A r \in Requests :
          /\ Queued(r) => r \notin running /\ r \notin completed
          /\ r \in running => r \notin completed
          /\ caller[r] = "idle" <=> ~Queued(r) /\ r \notin running /\ r \notin completed

(* A request of the kernel is in the disk while its tag is issued, and the *)
(* dispatcher's while it allocates a batch.                                *)
CallInv ==
    /\ op[Alloc] = "allocate"
    /\ \A t \in Tags : caller[t] # "idle" <=> tag[t] = "issued"
    /\ caller[Alloc] # "idle" => main = "allocate" /\ batches > 0

(* The completion queue of core c for hardware queue q; 0: what q has swapped out. *)
Slot(c, q) == IF c = 0 THEN inactive[q] ELSE active[c][q]
Slots == 0..NumCores

(* Some completion queue for q has an entry of tag t. *)
Answered(t, q) == \E c \in Slots : \E k \in 1..Len(Slot(c, q)) : Slot(c, q)[k].tag = t

(* A tag whose outcome is on the way has one answer, in its own queue. *)
AnswersInv ==
    /\ \A q \in Queues : \A c, d \in Slots :
          \A k \in 1..Len(Slot(c, q)), l \in 1..Len(Slot(d, q)) :
              Slot(c, q)[k].tag = Slot(d, q)[l].tag => c = d /\ k = l
    /\ \A t \in Tags, q \in Queues :
          Answered(t, q) <=> tag[t] = "pushed" /\ q = QueueOf[t]

(* The first sector of thread tid. *)
First(o, n, tid) == tid * SectorsPerThread(o, n)

(* Some thread has processed sector s. *)
Processed(p, s) ==
    \E tid \in Tids(p.op, p.n) :
        First(p.op, p.n, tid) <= s /\ s < First(p.op, p.n, tid) + p.i[tid]

Codes == ErrorCodes \cup {0}

ShardedType(o, n) ==
    [op : {o}, n : {n}, i : [Tids(o, n) -> Nat], times : [0..(n - 1) -> {0, 1}],
     codes : SUBSET Codes, res : Nat, err_code : Codes]

(* The processing of a request of n sectors: a thread does its own sectors in *)
(* order and no others, and the two atomics sum up what was done.            *)
ShardedOK(p, o, n) ==
    /\ p \in ShardedType(o, n)
    /\ \A tid \in Tids(o, n) : p.i[tid] <= ThreadSectors(o, n, tid)
    /\ \A s \in 0..(n - 1) : p.times[s] = 1 <=> Processed(p, s)
    /\ p.err_code = 0 => p.codes \subseteq {0}
    /\ p.err_code # 0 => p.err_code \in p.codes
    /\ p.codes \subseteq {0} =>
           p.res = Length(o) * Cardinality({s \in 0..(n - 1) : p.times[s] = 1})

(* All requests are processed so, and the called back ones completely. *)
ShardsInv ==
    /\ io = [r \in Requests |-> io[r]]
    /\ \A r \in Requests : /\ ShardedOK(io[r], op[r], Sectors[r])
                           /\ r \in completed => Joined(io[r])

(* The inductive invariant of the agent. *)
DevInv ==
    /\ TypeOK /\ DevTypeOK /\ PlacesInv /\ CallInv /\ AnswersInv /\ ShardsInv
    /\ UblkReleased

-----------------------------------------------------------------------------
(* The request queues *)

(* Waking a worker changes no other worker and leaves none parked at c. *)
LEMMA WakeType ==
  ASSUME worker \in [Cores -> WorkerStates], NEW c \in Cores, Wake(c)
  PROVE  /\ worker' \in [Cores -> WorkerStates]
         /\ \A d \in Cores : worker'[d] = IF d = c /\ worker[c] = "parked"
                                          THEN "runnable" ELSE worker[d]
BY Zenon DEF Wake, WorkerStates

(* Every step of the queues, the workers and Stop() keeps QueueInv. *)
LEMMA QueueInvNext == QueueInv /\ [Next]_vars => QueueInv'
<1> SUFFICES ASSUME QueueInv, [Next]_vars PROVE QueueInv'
  BY Zenon
<1> USE WorkQueueAssumption
<1>0. TypeOK /\ worker \in [Cores -> WorkerStates] /\ stopping \in 0..(NumCores + 1)
  BY Zenon DEF QueueInv, TypeOK
<1>1. ASSUME NEW r \in Requests, NEW c \in Cores, Submit(r, c) PROVE QueueInv'
  <2>1. /\ worker' \in [Cores -> WorkerStates]
        /\ \A d \in Cores : worker'[d] = IF d = c /\ worker[c] = "parked"
                                         THEN "runnable" ELSE worker[d]
    BY Zenon, <1>0, <1>1, WakeType DEF Submit
  <2>2. caller' \in [Requests -> CallerStates]
    BY Zenon, <1>0, <1>1 DEF Submit, TypeOK, CallerStates
  <2>3. reqs' \in [Cores -> Seq(Requests)]
    BY <1>0, <1>1 DEF Submit, TypeOK
  <2>4. TypeOK'
    BY Zenon, <1>0, <1>1, <2>1, <2>2, <2>3 DEF Submit, TypeOK
  <2>5. stopping = 0 /\ stopping' = 0 /\ stop' = stop /\ ~stop
    BY Zenon, <1>1 DEF Submit, QueueInv
  <2>6. \A d \in Cores : worker[d] # "exited"
    BY Zenon, <2>5 DEF QueueInv
  <2>7. worker'[c] = "runnable"
    BY Zenon, <2>1, <2>6, <1>0 DEF WorkerStates
  <2>8. \A d \in Cores : d # c => reqs'[d] = reqs[d] /\ worker'[d] = worker[d]
    BY Zenon, <1>0, <1>1, <2>1 DEF Submit, TypeOK
  <2>9. NoStrandedRequest'
    BY Zenon, <2>5, <2>7, <2>8 DEF NoStrandedRequest, QueueInv
  <2> QED
    BY Zenon, <2>1, <2>4, <2>5, <2>6, <2>9 DEF QueueInv
<1>2. ASSUME NEW r \in Requests, Park(r) \/ Complete(r) \/ Retire(r) PROVE QueueInv'
  <2>1. caller' \in [Requests -> CallerStates]
    BY Zenon, <1>0, <1>2 DEF Park, Complete, Retire, TypeOK, CallerStates
  <2>2. running' \subseteq Requests /\ completed' \subseteq Requests
    BY Zenon, <1>0, <1>2 DEF Park, Complete, Retire, TypeOK
  <2>3. UNCHANGED <<reqs, worker, stop, stopping>>
    BY Zenon, <1>2 DEF Park, Complete, Retire
  <2> QED
    BY Zenon, <2>1, <2>2, <2>3 DEF QueueInv, TypeOK, NoStrandedRequest
<1>3. ASSUME NEW c \in Cores, WorkerStep(c) PROVE QueueInv'
  <2>1. \A i \in 1..Len(reqs[c]) : reqs[c][i] \in Requests
    BY <1>0 DEF TypeOK
  <2>2. running' \subseteq Requests
    BY Zenon, <1>0, <1>3, <2>1 DEF WorkerStep, TypeOK
  <2>3. reqs' \in [Cores -> Seq(Requests)] /\ reqs'[c] = <<>>
    BY <1>0, <1>3 DEF WorkerStep, TypeOK
  <2>4. worker' \in [Cores -> WorkerStates]
    BY Zenon, <1>0, <1>3 DEF WorkerStep, WorkerStates
  <2>5. UNCHANGED <<caller, completed, stop, stopping>>
    BY Zenon, <1>3 DEF WorkerStep
  <2>6. TypeOK'
    BY Zenon, <1>0, <2>2, <2>3, <2>4, <2>5 DEF TypeOK
  <2>7. \A d \in Cores : d # c => reqs'[d] = reqs[d] /\ worker'[d] = worker[d]
    BY Zenon, <1>0, <1>3 DEF WorkerStep, TypeOK
  <2>8. /\ worker'[c] = "exited" => stop
        /\ worker'[c] = "parked" => ~stop
    BY Zenon, <1>0, <1>3 DEF WorkerStep
  <2>9. worker'[c] = "parked" => c > stopping
    BY <1>0, <2>8 DEF QueueInv, Cores
  <2>10. NoStrandedRequest'
    BY Zenon, <2>3, <2>5, <2>7, <2>9 DEF NoStrandedRequest, QueueInv
  <2> QED
    BY Zenon, <2>5, <2>6, <2>7, <2>8, <2>10 DEF QueueInv
<1>4. ASSUME StopBegin PROVE QueueInv'
  <2>1. 1 \in Cores /\ 1 \in 0..(NumCores + 1)
    BY DEF Cores
  <2>2. /\ worker' \in [Cores -> WorkerStates]
        /\ \A d \in Cores : worker'[d] = IF d = 1 /\ worker[1] = "parked"
                                         THEN "runnable" ELSE worker[d]
    BY Zenon, <1>0, <1>4, <2>1, WakeType DEF StopBegin
  <2>3. /\ stopping' = 1 /\ stop' = TRUE /\ stopping = 0
        /\ UNCHANGED <<caller, reqs, running, completed>>
    BY Zenon, <1>4 DEF StopBegin
  <2>4. TypeOK'
    BY Zenon, <1>0, <2>1, <2>2, <2>3 DEF TypeOK
  <2>5. \A d \in Cores : worker[d] # "exited"
    BY Zenon, <2>3 DEF QueueInv
  <2>6. NoStrandedRequest'
    <3> SUFFICES ASSUME NEW d \in Cores
                 PROVE  /\ worker'[d] # "runnable" => reqs'[d] = <<>>
                        /\ worker'[d] = "parked" => d > stopping'
      BY Zenon DEF NoStrandedRequest
    <3>1. worker'[d] # "runnable" => worker[d] # "runnable"
      BY Zenon, <2>2
    <3>2. worker'[d] = "parked" => d # 1
      BY Zenon, <2>2
    <3> QED
      BY <2>3, <3>1, <3>2 DEF QueueInv, NoStrandedRequest, Cores
  <2> QED
    BY <2>3, <2>4, <2>6 DEF QueueInv
<1>5. ASSUME StopNext PROVE QueueInv'
  <2>1. /\ stopping \in Cores /\ stopping' = stopping + 1 /\ worker[stopping] = "exited"
        /\ UNCHANGED <<caller, reqs, running, completed, stop>>
    BY Zenon, <1>5 DEF StopNext
  <2>2. /\ worker' \in [Cores -> WorkerStates]
        /\ \A d \in Cores : /\ worker'[d] = worker[d] \/ worker'[d] = "runnable"
                            /\ d = stopping + 1 => worker'[d] # "parked"
    <3>1. CASE stopping = NumCores
      BY <1>0, <1>5, <3>1 DEF StopNext, Cores
    <3>2. CASE stopping # NumCores
      <4>1. stopping + 1 \in Cores
        BY <2>1, <3>2 DEF Cores
      <4>2. Wake(stopping + 1)
        BY Zenon, <1>5, <3>2 DEF StopNext
      <4>3. /\ worker' \in [Cores -> WorkerStates]
            /\ \A d \in Cores :
                   worker'[d] = IF d = stopping + 1 /\ worker[stopping + 1] = "parked"
                                THEN "runnable" ELSE worker[d]
        BY Zenon, <1>0, <4>1, <4>2, WakeType
      <4> QED
        BY Zenon, <4>3
    <3> QED
      BY Zenon, <3>1, <3>2
  <2>3. TypeOK'
    BY <1>0, <2>1, <2>2 DEF TypeOK, Cores
  <2>4. NoStrandedRequest'
    <3> SUFFICES ASSUME NEW d \in Cores
                 PROVE  /\ worker'[d] # "runnable" => reqs'[d] = <<>>
                        /\ worker'[d] = "parked" => d > stopping'
      BY Zenon DEF NoStrandedRequest
    <3>1. worker'[d] # "runnable" => worker[d] # "runnable" /\ reqs[d] = <<>>
      BY Zenon, <2>2 DEF QueueInv, NoStrandedRequest
    <3>2. worker'[d] = "parked" => d > stopping /\ d # stopping + 1
      BY Zenon, <2>2 DEF QueueInv, NoStrandedRequest
    <3> QED
      BY <2>1, <3>1, <3>2 DEF Cores
  <2>5. stop /\ stop'
    BY Zenon, <2>1 DEF QueueInv
  <2>6. stopping' # 0
    BY <2>1 DEF Cores
  <2> QED
    BY Zenon, <2>3, <2>4, <2>5, <2>6 DEF QueueInv
<1>6. ASSUME UNCHANGED vars PROVE QueueInv'
  BY Zenon, <1>6 DEF vars, QueueInv, TypeOK, NoStrandedRequest
<1> QED
  BY Zenon, <1>1, <1>2, <1>3, <1>4, <1>5, <1>6 DEF Next

(* The queues start in QueueInv. *)
LEMMA QueueInvInit == Init => QueueInv
<1> SUFFICES ASSUME Init PROVE QueueInv
  BY Zenon
<1>1. reqs \in [Cores -> Seq(Requests)]
  BY DEF Init
<1>2. TypeOK
  <2>1. caller \in [Requests -> CallerStates] /\ worker \in [Cores -> WorkerStates]
    BY Zenon DEF Init, CallerStates, WorkerStates
  <2>2. stopping \in 0..(NumCores + 1)
    BY WorkQueueAssumption DEF Init
  <2>3. stop \in BOOLEAN /\ running \subseteq Requests /\ completed \subseteq Requests
    BY Zenon DEF Init
  <2> QED
    BY Zenon, <1>1, <2>1, <2>2, <2>3 DEF TypeOK
<1>3. \A c \in Cores : worker[c] = "runnable"
  BY Zenon DEF Init
<1>4. ~stop /\ stopping = 0
  BY Zenon DEF Init
<1> QED
  BY Zenon, <1>2, <1>3, <1>4 DEF QueueInv, NoStrandedRequest

(* Types are kept and QueueInv holds in every reachable state. *)
THEOREM QueueInvariance == Spec => []QueueInv
BY QueueInvInit, QueueInvNext, PTL DEF Spec

(* A parked worker has an empty queue and an exited one left nothing behind: *)
(* SubmitRequestAndPark, RequestWorker and Stop lose no wakeup.              *)
THEOREM NoWakeupLost == Spec => []NoStrandedRequest
BY QueueInvariance, PTL DEF QueueInv

(* Every step keeps a request in one place. *)
LEMMA PlacesInvNext ==
  ASSUME TypeOK, PlacesInv, [Next]_vars
  PROVE  PlacesInv'
<1>1. ASSUME NEW r \in Requests, NEW c \in Cores, Submit(r, c) PROVE PlacesInv'
  <2>1. /\ caller[r] = "idle" /\ UNCHANGED <<running, completed>>
        /\ reqs' = [reqs EXCEPT ![c] = Append(@, r)]
        /\ \A x \in Requests : caller'[x] = IF x = r THEN IF r \in Sync THEN "submitted"
                                                                     ELSE "returned"
                                             ELSE caller[x]
    BY Zenon, <1>1 DEF Submit, TypeOK
  <2>2. ~Queued(r) /\ r \notin running /\ r \notin completed
    BY Zenon, <2>1 DEF PlacesInv
  <2>3. reqs[c] \in Seq(Requests) /\ Len(reqs[c]) \in Nat
    BY DEF TypeOK
  <2>4. /\ Len(reqs'[c]) = Len(reqs[c]) + 1 /\ reqs'[c][Len(reqs[c]) + 1] = r
        /\ \A i \in 1..Len(reqs[c]) : reqs'[c][i] = reqs[c][i]
        /\ \A d \in Cores : d # c => reqs'[d] = reqs[d]
    BY <2>1, <2>3, AppendProperties DEF TypeOK
  <2>5. ASSUME NEW d \in Cores, NEW i \in 1..Len(reqs'[d])
        PROVE  \/ i \in 1..Len(reqs[d]) /\ reqs'[d][i] = reqs[d][i] /\ reqs[d][i] # r
               \/ d = c /\ i = Len(reqs[c]) + 1 /\ reqs'[d][i] = r
    BY <2>2, <2>3, <2>4 DEF Queued
  <2>6. \A d \in Cores : \A i \in 1..Len(reqs[d]) : i \in 1..Len(reqs'[d])
                                                   /\ reqs'[d][i] = reqs[d][i]
    BY <2>3, <2>4
  <2>7. NoTwins'
    BY <2>5 DEF NoTwins, PlacesInv
  <2>8. Queued(r)' /\ \A x \in Requests : x # r => (Queued(x)' <=> Queued(x))
    <3>1. Len(reqs[c]) + 1 \in 1..Len(reqs'[c])
      BY <2>3, <2>4
    <3>2. Queued(r)'
      BY Zenon, <2>4, <3>1 DEF Queued
    <3>3. ASSUME NEW x \in Requests, x # r, Queued(x)' PROVE Queued(x)
      BY Zenon, <2>5, <3>3 DEF Queued
    <3>4. ASSUME NEW x \in Requests, Queued(x) PROVE Queued(x)'
      BY Zenon, <2>6, <3>4 DEF Queued
    <3> QED
      BY Zenon, <3>2, <3>3, <3>4
  <2>9. caller'[r] # "idle"
    BY Zenon, <2>1
  <2> QED
    BY Zenon, <2>1, <2>2, <2>7, <2>8, <2>9 DEF PlacesInv
<1>2. ASSUME NEW r \in Requests, Park(r) \/ Complete(r) \/ Retire(r) PROVE PlacesInv'
  <2>1. reqs' = reqs /\ \A x \in Requests : Queued(x)' <=> Queued(x)
    BY Zenon, <1>2 DEF Park, Complete, Retire, Queued
  <2>2. NoTwins'
    BY <2>1 DEF PlacesInv, NoTwins
  <2>3. CASE Park(r)
    BY Zenon, <2>1, <2>2, <2>3 DEF PlacesInv, Park, TypeOK
  <2>4. CASE Complete(r)
    BY Zenon, <2>1, <2>2, <2>4 DEF PlacesInv, Complete, TypeOK
  <2>5. CASE Retire(r)
    BY Zenon, <2>1, <2>2, <2>5 DEF PlacesInv, Retire, TypeOK
  <2> QED
    BY Zenon, <1>2, <2>3, <2>4, <2>5
<1>3. ASSUME NEW c \in Cores, WorkerStep(c) PROVE PlacesInv'
  <2>1. /\ running' = running \cup {reqs[c][i] : i \in 1..Len(reqs[c])}
        /\ reqs'[c] = <<>> /\ \A d \in Cores : d # c => reqs'[d] = reqs[d]
        /\ UNCHANGED <<caller, completed>>
    BY Zenon, <1>3 DEF WorkerStep, TypeOK
  <2>2. Len(reqs'[c]) = 0
    BY <2>1
  <2>3. \A d \in Cores : \A i \in 1..Len(reqs'[d]) : d # c /\ reqs'[d] = reqs[d]
    BY <2>1, <2>2
  <2>4. NoTwins'
    BY <2>3 DEF NoTwins, PlacesInv
  <2>5. ASSUME NEW x \in Requests
        PROVE  /\ Queued(x) <=> Queued(x)' \/ \E i \in 1..Len(reqs[c]) : reqs[c][i] = x
               /\ ~(Queued(x)' /\ \E i \in 1..Len(reqs[c]) : reqs[c][i] = x)
    <3>1. Queued(x)' => Queued(x)
      BY Zenon, <2>3 DEF Queued
    <3>2. (\E i \in 1..Len(reqs[c]) : reqs[c][i] = x) => Queued(x)
      BY Zenon DEF Queued
    <3>3. Queued(x) => Queued(x)' \/ \E i \in 1..Len(reqs[c]) : reqs[c][i] = x
      BY Zenon, <2>1 DEF Queued
    <3>4. ~(Queued(x)' /\ \E i \in 1..Len(reqs[c]) : reqs[c][i] = x)
      <4> SUFFICES ASSUME Queued(x)', NEW i \in 1..Len(reqs[c]), reqs[c][i] = x
                   PROVE  FALSE
        BY Zenon
      <4>1. PICK d \in Cores : \E j \in 1..Len(reqs'[d]) : reqs'[d][j] = x
        BY Zenon DEF Queued
      <4>2. PICK j \in 1..Len(reqs'[d]) : reqs'[d][j] = x
        BY Zenon, <4>1
      <4>3. d # c /\ reqs'[d] = reqs[d]
        BY Zenon, <2>3, <4>2
      <4>4. j \in 1..Len(reqs[d]) /\ reqs[d][j] = reqs[c][i]
        BY Zenon, <4>2, <4>3
      <4> QED
        BY Zenon, <4>3, <4>4 DEF NoTwins, PlacesInv
    <3> QED
      BY Zenon, <3>1, <3>2, <3>3, <3>4
  <2>6. \A x \in Requests :
           x \in running' <=> x \in running \/ \E i \in 1..Len(reqs[c]) : reqs[c][i] = x
    BY Zenon, <2>1
  <2> QED
    BY Zenon, <2>1, <2>4, <2>5, <2>6 DEF PlacesInv
<1>4. ASSUME StopBegin \/ StopNext \/ UNCHANGED vars PROVE PlacesInv'
  <2>1. UNCHANGED <<caller, reqs, running, completed>>
    BY Zenon, <1>4 DEF StopBegin, StopNext, vars
  <2> QED
    BY <2>1 DEF PlacesInv, NoTwins, Queued
<1> QED
  BY Zenon, <1>1, <1>2, <1>3, <1>4 DEF Next

(* One place means that the counts add up to one. *)
LEMMA PlacesCount ==
  ASSUME TypeOK, PlacesInv
  PROVE  OncePerRequest
<1> SUFFICES ASSUME NEW r \in Requests
             PROVE  Places(r) = IF caller[r] = "idle" THEN 0 ELSE 1
  BY Zenon DEF OncePerRequest
<1>1. Cardinality(QueueEntries(r)) = IF Queued(r) THEN 1 ELSE 0
  <2>1. ASSUME NEW x \in QueueEntries(r)
        PROVE  \E c \in Cores : \E i \in 1..Len(reqs[c]) : x = <<c, i>> /\ reqs[c][i] = r
    BY DEF QueueEntries
  <2>2. CASE Queued(r)
    <3>1. PICK c \in Cores : \E i \in 1..Len(reqs[c]) : reqs[c][i] = r
      BY Zenon, <2>2 DEF Queued
    <3>2. PICK i \in 1..Len(reqs[c]) : reqs[c][i] = r
      BY Zenon, <3>1
    <3>3. <<c, i>> \in QueueEntries(r)
      BY <3>2 DEF QueueEntries
    <3>4. \A x \in QueueEntries(r) : x = <<c, i>>
      BY <2>1, <3>2 DEF PlacesInv, NoTwins
    <3>5. QueueEntries(r) = {<<c, i>>}
      BY Zenon, <3>3, <3>4
    <3> QED
      BY Zenon, <2>2, <3>5, FS_Singleton
  <2>3. CASE ~Queued(r)
    <3>1. QueueEntries(r) = {}
      BY Zenon, <2>1, <2>3 DEF Queued
    <3> QED
      BY Zenon, <2>3, <3>1, FS_EmptySet
  <2> QED
    BY Zenon, <2>2, <2>3
<1>2. Cardinality({r} \cap running) = IF r \in running THEN 1 ELSE 0
  <2>1. {r} \cap running = IF r \in running THEN {r} ELSE {}
    BY Zenon
  <2> QED
    BY Zenon, <2>1, FS_Singleton, FS_EmptySet
<1>3. Cardinality({r} \cap completed) = IF r \in completed THEN 1 ELSE 0
  <2>1. {r} \cap completed = IF r \in completed THEN {r} ELSE {}
    BY Zenon
  <2> QED
    BY Zenon, <2>1, FS_Singleton, FS_EmptySet
<1> QED
  BY <1>1, <1>2, <1>3 DEF Places, PlacesInv

(* No request is in any place at first. *)
LEMMA PlacesInit == Init => PlacesInv
BY DEF Init, PlacesInv, NoTwins, Queued

(* A request is never lost and never processed twice between the callers, *)
(* RequestWorker, ProcessRequestAsync and Stop.                           *)
THEOREM RequestsAreInOnePlace == Spec => []OncePerRequest
<1>1. TypeOK /\ PlacesInv /\ [Next]_vars => PlacesInv'
  BY Zenon, PlacesInvNext
<1>2. QueueInv => TypeOK
  BY Zenon DEF QueueInv
<1>3. TypeOK /\ PlacesInv => OncePerRequest
  BY Zenon, PlacesCount
<1> QED
  BY <1>1, <1>2, <1>3, PlacesInit, QueueInvariance, PTL DEF Spec

-----------------------------------------------------------------------------
(* The agent and the dispatcher *)

(* The requests of the agent are those of the tags and of Allocate. *)
LEMMA AgentRequests == Tags \subseteq Requests /\ Alloc \in Requests /\ Requests = Tags \cup {Alloc}
BY Zenon, BlockDeviceAssumption DEF Requests

(* Every step of the agent is a step of the queues or leaves them alone. *)
LEMMA AgentStepIsQueueStep == [DevNext]_allVars => [Next]_vars
<1> SUFFICES ASSUME [DevNext]_allVars PROVE [Next]_vars
  BY Zenon
<1> USE AgentRequests
<1>1. CASE \/ Construct \/ InitDevice \/ StartQueues \/ StartDevice
           \/ SignalHandler \/ JoinQueues
           \/ \E q \in Queues : \/ StartQueue(q) \/ ExitQueue(q) \/ CompleteIO(q)
                                \/ \E c \in Cores : ConsumerAcquire(q, c)
  BY Zenon, <1>1 DEF Construct, InitDevice, StartQueues, StartDevice, SignalHandler, JoinQueues,
     StartQueue, ExitQueue, CompleteIO, ConsumerAcquire
<1>2. CASE AllocateReturns \/ \E c \in Cores : AllocateBatch(c)
  BY Zenon, <1>2 DEF AllocateReturns, AllocateBatch, Next
<1>3. CASE \E t \in Tags : \/ \E o \in Ops : HandleIOAsync(t, o)
                          \/ \E c \in Cores : \/ CallDisk(t, c)
                                              \/ PushResult(t, c) \/ PushUnknown(t, c)
  BY Zenon, <1>3 DEF HandleIOAsync, CallDisk, PushResult, PushUnknown, Next
<1>4. CASE \E r \in Requests :
              \/ ProcessCompletion(r)
              \/ \E tid \in Tids(op[r], Sectors[r]), e \in ErrorCodes \cup {0} :
                     ProcessRequest(r, tid, e)
  BY Zenon, <1>4 DEF ProcessCompletion, ProcessRequest, Next
<1>5. CASE DiskStep \/ StopBegin
  BY Zenon, <1>5 DEF DiskStep, Next
<1>6. CASE UNCHANGED allVars
  BY Zenon, <1>6 DEF allVars
<1> QED
  BY Zenon, <1>1, <1>2, <1>3, <1>4, <1>5, <1>6 DEF DevNext

(* The agent uses the queues as VirtualDiskBase has them: what holds of the *)
(* queues holds under the agent's callers.                                   *)
THEOREM AgentUsesQueues == DevSpec => Spec
<1>1. DevInit => Init
  BY Zenon DEF DevInit
<1> QED
  BY <1>1, AgentStepIsQueueStep, PTL DEF DevSpec, Spec

(* What Push does. *)
LEMMA PushIs ==
  ASSUME DevTypeOK, NEW t \in Tags, NEW c \in Cores, Push(t, c)
  PROVE  /\ tag' = [tag EXCEPT ![t] = "pushed"] /\ inactive' = inactive
         /\ active' \in [Cores -> [Queues -> Seq(Completion)]]
         /\ QueueOf[t] \in Queues
         /\ \A d \in Cores, q \in Queues :
               active'[d][q] = IF d = c /\ q = QueueOf[t]
                               THEN Append(active[d][q],
                                           [tag |-> t, res |-> Sectors[t] * SectorSize])
                               ELSE active[d][q]
<1>1. QueueOf[t] \in Queues /\ Sectors[t] \in Nat
  BY Zenon, BlockDeviceAssumption, AgentRequests
<1>2. Sectors[t] * SectorSize \in Nat
  BY <1>1, ShardedAssumption
<1> DEFINE e == [tag |-> t, res |-> Sectors[t] * SectorSize]
<1>3. e \in Completion
  BY Zenon, <1>2 DEF Completion
<1> HIDE DEF e
<1>4. active' = [active EXCEPT ![c][QueueOf[t]] = Append(@, e)]
  BY Zenon DEF Push, e
<1>5. \A d \in Cores, q \in Queues : active'[d][q] = IF d = c /\ q = QueueOf[t]
                                                     THEN Append(active[d][q], e)
                                                     ELSE active[d][q]
  BY Zenon, <1>1, <1>4 DEF DevTypeOK
<1>6. active[c][QueueOf[t]] \in Seq(Completion)
  BY Zenon, <1>1 DEF DevTypeOK
<1>7. Append(active[c][QueueOf[t]], e) \in Seq(Completion)
  BY Zenon, <1>3, <1>6, AppendProperties
<1>8. active' \in [Cores -> [Queues -> Seq(Completion)]]
  BY Zenon, <1>1, <1>4, <1>7 DEF DevTypeOK
<1> QED
  BY Zenon, <1>1, <1>5, <1>8 DEF Push, e

(* The slots are sequences of completions. *)
LEMMA SlotTypes ==
  ASSUME DevTypeOK
  PROVE  \A c \in Slots, q \in Queues :
            /\ Slot(c, q) \in Seq(Completion) /\ Len(Slot(c, q)) \in Nat
            /\ \A k \in 1..Len(Slot(c, q)) : Slot(c, q)[k].tag \in Tags
<1> SUFFICES ASSUME NEW c \in Slots, NEW q \in Queues
             PROVE  /\ Slot(c, q) \in Seq(Completion) /\ Len(Slot(c, q)) \in Nat
                    /\ \A k \in 1..Len(Slot(c, q)) : Slot(c, q)[k].tag \in Tags
  BY Zenon
<1>1. c # 0 => c \in Cores
  BY WorkQueueAssumption DEF Slots, Cores
<1>2. Slot(c, q) \in Seq(Completion)
  BY Zenon, <1>1 DEF Slot, DevTypeOK
<1>3. Len(Slot(c, q)) \in Nat /\ \A k \in 1..Len(Slot(c, q)) : Slot(c, q)[k] \in Completion
  BY Zenon, <1>2, ElementOfSeq, LenProperties
<1> QED
  BY Zenon, <1>2, <1>3 DEF Completion

(* A pushed completion is the only one of its tag. *)
LEMMA PushAnswers ==
  ASSUME DevTypeOK, AnswersInv, NEW t \in Tags, NEW c \in Cores, Push(t, c),
         tag[t] # "pushed"
  PROVE  AnswersInv'
<1> DEFINE p == QueueOf[t]
           n == Len(Slot(c, p))
<1>0. c \in Slots /\ c # 0 /\ p \in Queues
  <2>1. c \in Slots /\ c # 0
    BY WorkQueueAssumption DEF Slots, Cores
  <2> QED
    BY Zenon, <2>1, BlockDeviceAssumption
<1>1. n \in Nat /\ Slot(c, p) \in Seq(Completion)
  BY Zenon, <1>0, SlotTypes
<1>2. /\ Slot(c, p)' = Append(Slot(c, p), [tag |-> t, res |-> Sectors[t] * SectorSize])
      /\ \A d \in Slots, q \in Queues : (d # c \/ q # p) => Slot(d, q)' = Slot(d, q)
  <2>1. \A d \in Slots : d # 0 => d \in Cores
    BY WorkQueueAssumption DEF Slots, Cores
  <2>2. /\ inactive' = inactive
        /\ \A d \in Cores, q \in Queues :
              active'[d][q] = IF d = c /\ q = p
                              THEN Append(active[d][q],
                                          [tag |-> t, res |-> Sectors[t] * SectorSize])
                              ELSE active[d][q]
    BY PushIs
  <2>3. active'[c][p] = Append(active[c][p], [tag |-> t, res |-> Sectors[t] * SectorSize])
    BY Zenon, <1>0, <2>2
  <2>4. \A d \in Cores, q \in Queues : (d # c \/ q # p) => active'[d][q] = active[d][q]
    BY Zenon, <2>2
  <2>5. Slot(c, p)' = active'[c][p] /\ Slot(c, p) = active[c][p]
    BY Zenon, <1>0 DEF Slot
  <2> QED
    BY Zenon, <2>1, <2>2, <2>3, <2>4, <2>5 DEF Slot
<1>3. /\ Len(Slot(c, p)') = n + 1 /\ Slot(c, p)'[n + 1].tag = t
      /\ \A k \in 1..n : Slot(c, p)'[k] = Slot(c, p)[k]
  <2> DEFINE e == [tag |-> t, res |-> Sectors[t] * SectorSize]
  <2>1. e.tag = t
    BY Zenon
  <2> HIDE DEF e
  <2>2. Slot(c, p)' = Append(Slot(c, p), e)
    BY Zenon, <1>2 DEF e
  <2>3. /\ Len(Append(Slot(c, p), e)) = n + 1 /\ Append(Slot(c, p), e)[n + 1] = e
        /\ \A k \in 1..n : Append(Slot(c, p), e)[k] = Slot(c, p)[k]
    BY <1>1
  <2> QED
    BY Zenon, <2>1, <2>2, <2>3
<1> HIDE DEF p, n
<1>4. \A q \in Queues : ~Answered(t, q)
  BY Zenon DEF AnswersInv
<1>5. ASSUME NEW d \in Slots, NEW q \in Queues, NEW k \in 1..Len(Slot(d, q)')
      PROVE  \/ /\ k \in 1..Len(Slot(d, q)) /\ Slot(d, q)'[k] = Slot(d, q)[k]
                /\ Slot(d, q)[k].tag # t
             \/ d = c /\ q = p /\ k = n + 1 /\ Slot(d, q)'[k].tag = t
  BY <1>1, <1>2, <1>3, <1>4 DEF Answered, n
<1>6. \A d \in Slots, q \in Queues : \A k \in 1..Len(Slot(d, q)) :
          k \in 1..Len(Slot(d, q)') /\ Slot(d, q)'[k] = Slot(d, q)[k]
  BY <1>1, <1>2, <1>3 DEF n
<1>7. ASSUME NEW q \in Queues, NEW d \in Slots, NEW b \in Slots,
             NEW k \in 1..Len(Slot(d, q)'), NEW l \in 1..Len(Slot(b, q)'),
             Slot(d, q)'[k].tag = Slot(b, q)'[l].tag
      PROVE  d = b /\ k = l
  BY <1>5, <1>7 DEF AnswersInv
<1>8. ASSUME NEW u \in Tags, NEW q \in Queues
      PROVE  Answered(u, q)' <=> tag'[u] = "pushed" /\ q = QueueOf[u]
  <2>1. tag' = [tag EXCEPT ![t] = "pushed"]
    BY Zenon, PushIs
  <2>2. CASE u = t
    <3>1. tag'[u] = "pushed"
      BY Zenon, <2>1, <2>2 DEF DevTypeOK
    <3>2. Answered(u, q)' => q = p
      BY Zenon, <1>5, <2>2 DEF Answered
    <3>3. n + 1 \in 1..Len(Slot(c, p)')
      BY <1>1, <1>3
    <3>4. Answered(t, p)'
      BY Zenon, <1>0, <1>3, <3>3 DEF Answered
    <3> QED
      BY Zenon, <2>2, <3>1, <3>2, <3>4 DEF p
  <2>3. CASE u # t
    <3>1. tag'[u] = tag[u]
      BY Zenon, <2>1, <2>3 DEF DevTypeOK
    <3>2. Answered(u, q)' => Answered(u, q)
      BY Zenon, <1>5, <2>3 DEF Answered
    <3>3. Answered(u, q) => Answered(u, q)'
      BY Zenon, <1>6 DEF Answered
    <3> QED
      BY Zenon, <3>1, <3>2, <3>3 DEF AnswersInv
  <2> QED
    BY Zenon, <2>2, <2>3
<1> QED
  BY Zenon, <1>7, <1>8 DEF AnswersInv

(* consumer_acquire moves a queue's completions as they are. *)
LEMMA AcquireAnswers ==
  ASSUME DevTypeOK, AnswersInv, NEW p \in Queues, NEW c \in Cores, ConsumerAcquire(p, c)
  PROVE  AnswersInv'
<1>0. c \in Slots /\ 0 \in Slots /\ c # 0 /\ \A d \in Slots : d # 0 => d \in Cores
  BY WorkQueueAssumption DEF Slots, Cores
<1>1. /\ Slot(0, p) = <<>> /\ Slot(0, p)' = Slot(c, p) /\ Slot(c, p)' = <<>>
      /\ \A d \in Slots, q \in Queues : (q # p \/ d \notin {0, c}) => Slot(d, q)' = Slot(d, q)
      /\ tag' = tag
  BY Zenon, <1>0 DEF ConsumerAcquire, Slot, DevTypeOK
<1>2. Len(Slot(0, p)) = 0 /\ Len(Slot(c, p)') = 0
  BY Zenon, <1>1
<1> DEFINE From(d, q) == IF d = 0 /\ q = p THEN c ELSE d
<1>3. ASSUME NEW d \in Slots, NEW q \in Queues, NEW k \in 1..Len(Slot(d, q)')
      PROVE  /\ From(d, q) \in Slots /\ k \in 1..Len(Slot(From(d, q), q))
             /\ Slot(d, q)' = Slot(From(d, q), q) /\ ~(q = p /\ d = c)
  BY <1>0, <1>1, <1>2
<1>4. ASSUME NEW q \in Queues, NEW d \in Slots, NEW b \in Slots,
             NEW k \in 1..Len(Slot(d, q)'), NEW l \in 1..Len(Slot(b, q)'),
             Slot(d, q)'[k].tag = Slot(b, q)'[l].tag
      PROVE  d = b /\ k = l
  <2>1. From(d, q) = From(b, q) /\ k = l
    <3> HIDE DEF From
    <3> QED
      BY <1>3, <1>4 DEF AnswersInv
  <2> QED
    BY Zenon, <1>3, <2>1
<1>5. ASSUME NEW t \in Tags, NEW q \in Queues PROVE Answered(t, q)' <=> Answered(t, q)
  <2>1. Answered(t, q)' => Answered(t, q)
    <3> HIDE DEF From
    <3> QED
      BY <1>3 DEF Answered
  <2>2. ASSUME NEW d \in Slots, NEW k \in 1..Len(Slot(d, q)), Slot(d, q)[k].tag = t
        PROVE  Answered(t, q)'
    <3>1. CASE q = p /\ d = c
      BY Zenon, <1>0, <1>1, <2>2, <3>1 DEF Answered
    <3>2. CASE ~(q = p /\ d = c)
      BY Zenon, <1>0, <1>1, <1>2, <2>2, <3>2 DEF Answered
    <3> QED
      BY Zenon, <3>1, <3>2
  <2> QED
    BY Zenon, <2>1, <2>2 DEF Answered
<1> QED
  BY Zenon, <1>1, <1>4, <1>5 DEF AnswersInv

(* ublksrv_complete_io takes the only completion of its tag. *)
LEMMA CompleteAnswers ==
  ASSUME DevTypeOK, AnswersInv, NEW p \in Queues, CompleteIO(p)
  PROVE  /\ AnswersInv' /\ Head(inactive[p]).tag \in Tags
         /\ tag[Head(inactive[p]).tag] = "pushed"
<1>0. 0 \in Slots /\ \A d \in Slots : d # 0 => d \in Cores
  BY WorkQueueAssumption DEF Slots, Cores
<1>1. /\ Slot(0, p) # <<>> /\ Slot(0, p)' = Tail(Slot(0, p))
      /\ \A d \in Slots, q \in Queues : (q # p \/ d # 0) => Slot(d, q)' = Slot(d, q)
  BY Zenon, <1>0 DEF CompleteIO, Slot, DevTypeOK
<1>h. PICK h : h = Head(inactive[p]).tag
  BY Zenon
<1>2. tag' = [tag EXCEPT ![h] = "free"]
  BY Zenon, <1>h DEF CompleteIO
<1>n. PICK n : n = Len(Slot(0, p))
  BY Zenon
<1>3. /\ n \in Nat /\ n > 0 /\ Slot(0, p) \in Seq(Completion)
      /\ Len(Slot(0, p)') = n - 1
      /\ \A k \in 1..(n - 1) : Slot(0, p)'[k] = Slot(0, p)[k + 1]
  BY <1>0, <1>1, <1>n, SlotTypes, HeadTailProperties, EmptySeq
<1>4. h = Slot(0, p)[1].tag /\ 1 \in 1..n
  BY <1>h, <1>1, <1>3 DEF Slot
<1>5. h \in Tags /\ Answered(h, p)
  BY Zenon, <1>0, <1>n, <1>4, SlotTypes DEF Answered
<1>6. tag[h] = "pushed" /\ QueueOf[h] = p
  BY Zenon, <1>5 DEF AnswersInv
<1> DEFINE Was(d, q, k) == IF d = 0 /\ q = p THEN k + 1 ELSE k
<1>7. ASSUME NEW d \in Slots, NEW q \in Queues, NEW k \in 1..Len(Slot(d, q)')
      PROVE  /\ Was(d, q, k) \in 1..Len(Slot(d, q)) /\ k \in Nat
             /\ Slot(d, q)'[k] = Slot(d, q)[Was(d, q, k)]
             /\ q = p => ~(d = 0 /\ Was(d, q, k) = 1)
  <2>1. CASE d = 0 /\ q = p
    BY <1>n, <1>3, <2>1
  <2>2. CASE ~(d = 0 /\ q = p)
    BY <1>1, <2>2
  <2> QED
    BY Zenon, <2>1, <2>2
<1>8. ASSUME NEW q \in Queues, NEW d \in Slots, NEW b \in Slots,
             NEW k \in 1..Len(Slot(d, q)'), NEW l \in 1..Len(Slot(b, q)'),
             Slot(d, q)'[k].tag = Slot(b, q)'[l].tag
      PROVE  d = b /\ k = l
  <2>1. d = b /\ Was(d, q, k) = Was(b, q, l)
    <3> HIDE DEF Was
    <3> QED
      BY <1>7, <1>8 DEF AnswersInv
  <2>2. k \in Nat /\ l \in Nat
    BY Zenon, <1>7
  <2> QED
    BY <2>1, <2>2
<1>9. ASSUME NEW t \in Tags, NEW q \in Queues
      PROVE  Answered(t, q)' <=> tag'[t] = "pushed" /\ q = QueueOf[t]
  <2>1. Answered(t, q)' => Answered(t, q)
    <3> HIDE DEF Was
    <3> QED
      BY Zenon, <1>7 DEF Answered
  <2>2. Answered(t, q)' => t # h
    <3> SUFFICES ASSUME NEW d \in Slots, NEW k \in 1..Len(Slot(d, q)'),
                        Slot(d, q)'[k].tag = h
                 PROVE  FALSE
      BY Zenon DEF Answered
    <3>1. /\ Was(d, q, k) \in 1..Len(Slot(d, q)) /\ Slot(d, q)[Was(d, q, k)].tag = h
          /\ q = p => ~(d = 0 /\ Was(d, q, k) = 1)
      BY Zenon, <1>7
    <3> HIDE DEF Was
    <3>2. Answered(h, q)
      BY Zenon, <3>1 DEF Answered
    <3>3. q = p
      BY Zenon, <1>5, <1>6, <3>2 DEF AnswersInv
    <3>4. d = 0 /\ Was(d, q, k) = 1
      BY <1>0, <1>n, <1>4, <3>1, <3>3 DEF AnswersInv
    <3> QED
      BY Zenon, <3>1, <3>3, <3>4
  <2>3. ASSUME t # h, NEW d \in Slots, NEW k \in 1..Len(Slot(d, q)), Slot(d, q)[k].tag = t
        PROVE  Answered(t, q)'
    <3>1. CASE d = 0 /\ q = p
      <4>1. k # 1
        BY Zenon, <1>4, <2>3, <3>1
      <4>2. k - 1 \in 1..(n - 1) /\ (k - 1) + 1 = k
        BY <1>n, <1>3, <3>1, <4>1
      <4> QED
        BY Zenon, <1>3, <2>3, <3>1, <4>2 DEF Answered
    <3>2. CASE ~(d = 0 /\ q = p)
      BY Zenon, <1>1, <2>3, <3>2 DEF Answered
    <3> QED
      BY Zenon, <3>1, <3>2
  <2>4. tag'[t] = IF t = h THEN "free" ELSE tag[t]
    BY Zenon, <1>2, <1>5 DEF DevTypeOK
  <2>5. t # h => (Answered(t, q) => Answered(t, q)')
    BY Zenon, <2>3 DEF Answered
  <2> QED
    BY Zenon, <2>1, <2>2, <2>4, <2>5 DEF AnswersInv
<1> QED
  BY Zenon, <1>h, <1>5, <1>6, <1>8, <1>9 DEF AnswersInv

-----------------------------------------------------------------------------
(* The split of a request over threads *)

(* The multiples of k are k apart. *)
LEMMA Multiples ==
  ASSUME NEW a \in Nat, NEW b \in Nat, NEW k \in Nat, a < b
  PROVE  a * k + k <= b * k /\ a * k \in Nat /\ b * k \in Nat
<1>1. PICK d \in Nat : b = a + 1 + d
  <2>1. b - a - 1 \in Nat /\ b = a + 1 + (b - a - 1)
    OBVIOUS
  <2> QED
    BY Zenon, <2>1
<1>2. (a + 1 + d) * k = a * k + k + d * k
  OBVIOUS
<1>3. d * k \in Nat /\ a * k \in Nat /\ b * k \in Nat
  OBVIOUS
<1> QED
  BY <1>1, <1>2, <1>3

(* Division rounds down. *)
LEMMA Quotient ==
  ASSUME NEW a \in Nat, NEW k \in Nat \ {0}
  PROVE  a \div k \in Nat /\ (a \div k) * k <= a /\ a < (a \div k) * k + k
OBVIOUS

(* The number of threads and of sectors each has. *)
LEMMA ThreadCounts ==
  ASSUME NEW o, NEW n \in Nat
  PROVE  /\ NThreads(o, n) \in Nat /\ (n > 0 => NThreads(o, n) > 0)
         /\ SectorsPerThread(o, n) \in Nat \ {0}
         /\ NThreads(o, n) * SectorsPerThread(o, n) <= n
         /\ Remaining(o, n) = n - NThreads(o, n) * SectorsPerThread(o, n)
         /\ Remaining(o, n) \in Nat
<1> DEFINE M == MaxConcurrency(o)
           T == NThreads(o, n)
           k == SectorsPerThread(o, n)
<1>1. M \in Nat \ {0}
  BY Zenon, ShardedAssumption DEF MaxConcurrency
<1>2. T = IF n <= M THEN n ELSE M
  <2> HIDE DEF M
  <2>1. \E x \in {n, M} : \A y \in {n, M} : x <= y
    BY <1>1
  <2>2. Min({n, M}) \in {n, M} /\ \A y \in {n, M} : Min({n, M}) <= y
    BY Zenon, <2>1 DEF Min
  <2>3. Min({n, M}) = IF n <= M THEN n ELSE M
    BY <1>1, <2>2
  <2> QED
    BY Zenon, <2>3 DEF NThreads, M
<1>3. k = IF T = n THEN 1 ELSE n \div T
  BY Zenon DEF SectorsPerThread
<1>4. Remaining(o, n) = n - k * T
  BY Zenon DEF Remaining
<1> HIDE DEF M, T, k
<1>5. T \in Nat /\ (n > 0 => T > 0)
  BY <1>1, <1>2
<1>6. k \in Nat \ {0} /\ T * k <= n /\ k * T = T * k
  <2>1. CASE T = n
    BY <1>3, <2>1
  <2>2. CASE T # n
    <3>1. T \in Nat \ {0} /\ T < n
      BY <1>1, <1>2, <2>2
    <3>2. k \in Nat /\ k * T <= n /\ n < k * T + T
      BY Zenon, <1>3, <2>2, <3>1, Quotient
    <3>3. k # 0
      BY <3>1, <3>2
    <3>4. k * T = T * k
      BY <3>1, <3>2
    <3> QED
      BY Zenon, <3>2, <3>3, <3>4
  <2> QED
    BY Zenon, <2>1, <2>2
<1>7. T * k \in Nat
  BY <1>5, <1>6
<1>8. n - T * k \in Nat
  BY <1>6, <1>7
<1> QED
  BY Zenon, <1>4, <1>5, <1>6, <1>8 DEF T, k

(* The threads' parts of a request of n sectors: one after the other, the last one *)
(* up to the end. *)
LEMMA Parts ==
  ASSUME NEW o, NEW n \in Nat, NEW tid \in Tids(o, n)
  PROVE  /\ First(o, n, tid) \in Nat /\ ThreadSectors(o, n, tid) \in Nat
         /\ First(o, n, tid) + ThreadSectors(o, n, tid) <= n
         /\ tid = NThreads(o, n) - 1 => First(o, n, tid) + ThreadSectors(o, n, tid) = n
         /\ tid # NThreads(o, n) - 1 => ThreadSectors(o, n, tid) = SectorsPerThread(o, n)
         /\ \A u \in Tids(o, n) :
               tid < u => First(o, n, tid) + ThreadSectors(o, n, tid) <= First(o, n, u)
<1> DEFINE T == NThreads(o, n)
           k == SectorsPerThread(o, n)
<1>1. /\ T \in Nat /\ k \in Nat \ {0} /\ T * k <= n /\ n - T * k \in Nat
      /\ Remaining(o, n) = n - T * k
  BY Zenon, ThreadCounts
<1>2. First(o, n, tid) = tid * k
  BY Zenon DEF First
<1>3. ThreadSectors(o, n, tid) = k + (IF tid = T - 1 THEN n - T * k ELSE 0)
  BY Zenon, <1>1 DEF ThreadSectors
<1>4. tid \in 0..(T - 1)
  BY Zenon DEF Tids
<1>u. \A u \in Tids(o, n) : u \in 0..(T - 1) /\ First(o, n, u) = u * k
  BY Zenon DEF Tids, First
<1> HIDE DEF T, k
<1>5. tid \in Nat /\ tid < T
  BY <1>1, <1>4
<1>6. tid * k + k <= T * k /\ tid * k \in Nat /\ T * k \in Nat
  BY Zenon, <1>1, <1>5, Multiples
<1>7. CASE tid = T - 1
  <2>1. tid + 1 = T
    BY <1>1, <1>5, <1>7
  <2>2. (tid + 1) * k = tid * k + k
    BY <1>1, <1>5
  <2>3. tid * k + k = T * k
    BY Zenon, <2>1, <2>2
  <2>4. First(o, n, tid) + ThreadSectors(o, n, tid) = n
    BY <1>1, <1>2, <1>3, <1>6, <1>7, <2>3
  <2>5. \A u \in Tids(o, n) : ~(tid < u)
    BY <1>1, <1>7, <1>u
  <2> QED
    BY <1>1, <1>2, <1>3, <1>6, <1>7, <2>4, <2>5 DEF T
<1>8. CASE tid # T - 1
  <2>1. ThreadSectors(o, n, tid) = k
    BY <1>1, <1>3, <1>8
  <2>2. ASSUME NEW u \in Tids(o, n), tid < u PROVE tid * k + k <= First(o, n, u)
    <3>1. u \in Nat /\ First(o, n, u) = u * k
      BY <1>1, <1>u
    <3> QED
      BY <1>1, <1>5, <2>2, <3>1, Multiples
  <2> QED
    BY <1>1, <1>2, <1>6, <1>8, <2>1, <2>2 DEF T, k
<1> QED
  BY Zenon, <1>7, <1>8

(* Every sector is in the part of a thread. *)
LEMMA PartsCover ==
  ASSUME NEW o, NEW n \in Nat, NEW s \in 0..(n - 1)
  PROVE  \E tid \in Tids(o, n) :
            First(o, n, tid) <= s /\ s < First(o, n, tid) + ThreadSectors(o, n, tid)
<1> DEFINE T == NThreads(o, n)
           k == SectorsPerThread(o, n)
           d == s \div k
<1>1. T \in Nat /\ T > 0 /\ k \in Nat \ {0} /\ s \in Nat /\ s < n
  BY ThreadCounts
<1>2. \A u \in 0..(T - 1) : u \in Tids(o, n) /\ First(o, n, u) = u * k
  BY Zenon DEF Tids, First
<1>3. \A u \in Tids(o, n) : u = T - 1 => First(o, n, u) + ThreadSectors(o, n, u) = n
  BY Zenon, Parts
<1>4. \A u \in Tids(o, n) : u # T - 1 => ThreadSectors(o, n, u) = k
  BY Zenon, Parts
<1> HIDE DEF T, k
<1>5. d \in Nat /\ d * k <= s /\ s < d * k + k
  BY Zenon, <1>1, Quotient
<1> HIDE DEF d
<1>6. CASE d < T - 1
  <2>1. d \in Tids(o, n) /\ First(o, n, d) = d * k /\ ThreadSectors(o, n, d) = k
    BY <1>1, <1>2, <1>4, <1>5, <1>6
  <2> QED
    BY Zenon, <1>5, <2>1
<1>7. CASE d >= T - 1
  <2> DEFINE u == T - 1
  <2>1. u \in Nat /\ u \in Tids(o, n) /\ First(o, n, u) = u * k
    BY <1>1, <1>2
  <2>2. First(o, n, u) + ThreadSectors(o, n, u) = n
    BY Zenon, <1>3, <2>1
  <2>3. u <= d
    BY Zenon, <1>7
  <2> HIDE DEF u
  <2>4. u * k <= d * k
    <3>1. CASE u = d
      BY <1>1, <1>5, <3>1
    <3>2. CASE u < d
      BY <1>1, <1>5, <2>1, <3>2, Multiples
    <3> QED
      BY <1>5, <2>1, <2>3, <3>1, <3>2
  <2>5. First(o, n, u) <= s
    <3>1. u * k \in Nat /\ d * k \in Nat
      BY <1>1, <1>5, <2>1
    <3> QED
      BY <1>1, <1>5, <2>1, <2>4, <3>1
  <2> QED
    BY Zenon, <1>1, <2>1, <2>2, <2>5
<1> QED
  BY <1>1, <1>5, <1>6, <1>7

(* A request that starts. *)
LEMMA ShardedStarts ==
  ASSUME NEW o, NEW n \in Nat
  PROVE  ShardedOK(Sharded(o, n), o, n)
<1> DEFINE p == Sharded(o, n)
<1>1. /\ p.op = o /\ p.n = n /\ p.i = [tid \in Tids(o, n) |-> 0]
      /\ p.times = [s \in 0..(n - 1) |-> 0] /\ p.codes = {} /\ p.res = 0 /\ p.err_code = 0
  BY Zenon DEF Sharded
<1>2. p \in ShardedType(o, n)
  BY Zenon DEF Sharded, ShardedType, Codes
<1> HIDE DEF p
<1>3. \A tid \in Tids(o, n) : p.i[tid] = 0 /\ p.i[tid] <= ThreadSectors(o, n, tid)
  BY <1>1, Parts
<1>4. ASSUME NEW s \in 0..(n - 1) PROVE p.times[s] = 0 /\ ~Processed(p, s)
  <2>1. p.times[s] = 0
    BY Zenon, <1>1
  <2>2. ASSUME NEW tid \in Tids(o, n), First(o, n, tid) <= s, s < First(o, n, tid) + p.i[tid]
        PROVE  FALSE
    BY <1>3, <2>2, Parts
  <2> QED
    BY Zenon, <1>1, <2>1, <2>2 DEF Processed
<1>5. Length(o) * Cardinality({s \in 0..(n - 1) : p.times[s] = 1}) = 0
  <2>1. {s \in 0..(n - 1) : p.times[s] = 1} = {}
    BY <1>4
  <2> QED
    BY <2>1, FS_EmptySet, ShardedAssumption DEF Length
<1> QED
  BY <1>1, <1>2, <1>3, <1>4, <1>5 DEF ShardedOK, p

(* The fields of a request as a record of them. *)
Fields(p, o, n) ==
    p = [op |-> o, n |-> n, i |-> p.i, times |-> p.times, codes |-> p.codes,
         res |-> p.res, err_code |-> p.err_code]

(* q is request p after a turn of thread tid on sector s, which ended with e. *)
Turn(p, q, o, n, tid, s, e) ==
    /\ Fields(q, o, n) /\ q.op = o /\ q.n = n /\ q.i = [p.i EXCEPT ![tid] = @ + 1]
    /\ q.times = [p.times EXCEPT ![s] = @ + 1] /\ q.codes = p.codes \cup {e}
    /\ q.res = (IF e = 0 THEN p.res + Length(o) ELSE p.res)
    /\ q.err_code = (IF e # 0 THEN e ELSE p.err_code)

(* What a turn of a thread's loop does to the record of the request. *)
LEMMA ProcessSectorIs ==
  ASSUME NEW o, NEW n, NEW tid, NEW e, NEW p, Fields(p, o, n)
  PROVE  Turn(p, ProcessSector(p, tid, e), o, n, tid, First(o, n, tid) + p.i[tid], e)
<1>i. PICK i, times, codes, res, err :
         /\ i = p.i /\ times = p.times /\ codes = p.codes /\ res = p.res /\ err = p.err_code
  BY Zenon
<1>p. p = [op |-> o, n |-> n, i |-> i, times |-> times, codes |-> codes,
           res |-> res, err_code |-> err]
  BY ONLY Zenon, <1>i, Fields(p, o, n) DEF Fields
<1>s. PICK s : s = First(o, n, tid) + i[tid]
  BY Zenon
<1>q. PICK q : q = ProcessSector(p, tid, e)
  BY Zenon
<1>0. p.op = o /\ p.n = n /\ p.i = i
  BY ONLY Zenon, <1>p
<1>1. q = [p EXCEPT !.i[tid] = @ + 1, !.times[s] = @ + 1,
                    !.codes = @ \cup {e},
                    !.err_code = IF e # 0 THEN e ELSE @,
                    !.res = IF e = 0 THEN @ + Length(o) ELSE @]
  BY ONLY Zenon, <1>0, <1>s, <1>q DEF ProcessSector, First
<1>2. q.op = o
  BY ONLY Zenon, <1>1, <1>p
<1>3. q.n = n
  BY ONLY Zenon, <1>1, <1>p
<1>4. q.i = [i EXCEPT ![tid] = @ + 1]
  BY ONLY Zenon, <1>1, <1>p
<1>5. q.times = [times EXCEPT ![s] = @ + 1]
  BY ONLY Zenon, <1>1, <1>p
<1>6. q.codes = codes \cup {e}
  BY ONLY Zenon, <1>1, <1>p
<1>7. q.err_code = IF e # 0 THEN e ELSE err
  BY ONLY Zenon, <1>1, <1>p
<1>8. q.res = IF e = 0 THEN res + Length(o) ELSE res
  BY ONLY Zenon, <1>1, <1>p
<1>9. Fields(q, o, n)
  <2>1. DOMAIN p = {"op", "n", "i", "times", "codes", "res", "err_code"}
    BY ONLY Zenon, <1>p
  <2>2. DOMAIN q = DOMAIN p /\ q = [x \in DOMAIN q |-> q[x]]
    BY ONLY Zenon, <1>1
  <2> QED
    BY ONLY Zenon, <1>2, <1>3, <2>1, <2>2 DEF Fields
<1>10. Turn(p, q, o, n, tid, s, e)
  BY ONLY Zenon, <1>i, <1>2, <1>3, <1>4, <1>5, <1>6, <1>7, <1>8, <1>9 DEF Turn
<1> QED
  BY ONLY <1>10, <1>i, <1>s, <1>q, Zenon

(* A turn of a thread's loop processes a sector nobody has processed. *)
LEMMA ShardedProceeds ==
  ASSUME NEW o, NEW n \in Nat, NEW p, ShardedOK(p, o, n), NEW tid \in Tids(o, n),
         ~Finished(p, tid), NEW e \in Codes
  PROVE  ShardedOK(ProcessSector(p, tid, e), o, n)
<1> DEFINE s == First(o, n, tid) + p.i[tid]
           q == ProcessSector(p, tid, e)
           done(x) == {a \in 0..(n - 1) : x.times[a] = 1}
<1>1. /\ p \in ShardedType(o, n) /\ p.op = o /\ p.n = n /\ p.i \in [Tids(o, n) -> Nat]
      /\ p.times \in [0..(n - 1) -> {0, 1}] /\ p.codes \in SUBSET Codes
      /\ p.res \in Nat /\ p.err_code \in Codes
  BY Zenon DEF ShardedOK, ShardedType
<1>2. Fields(p, o, n)
  BY ONLY Zenon, <1>1 DEF ShardedType, Fields
<1>t. Turn(p, q, o, n, tid, s, e)
  BY ONLY <1>2, ProcessSectorIs, Zenon
<1>3. /\ q.op = o /\ q.n = n /\ q.i = [p.i EXCEPT ![tid] = @ + 1]
      /\ q.times = [p.times EXCEPT ![s] = @ + 1] /\ q.codes = p.codes \cup {e}
      /\ q.res = (IF e = 0 THEN p.res + Length(o) ELSE p.res)
      /\ q.err_code = (IF e # 0 THEN e ELSE p.err_code)
      /\ q = [op |-> o, n |-> n, i |-> q.i, times |-> q.times, codes |-> q.codes,
              res |-> q.res, err_code |-> q.err_code]
  <2> HIDE DEF s, q
  <2> QED
    BY ONLY Zenon, <1>t DEF Turn, Fields
<1>4. p.i[tid] < ThreadSectors(o, n, tid) /\ p.i[tid] \in Nat
  <2>1. p.i[tid] <= ThreadSectors(o, n, tid) /\ p.i[tid] # ThreadSectors(o, n, tid)
    BY Zenon, <1>1 DEF ShardedOK, Finished
  <2> QED
    BY <1>1, <2>1, Parts
<1>5. s \in 0..(n - 1)
  BY <1>4, Parts
<1>6. ~Processed(p, s)
  <2> SUFFICES ASSUME NEW u \in Tids(o, n), First(o, n, u) <= s, s < First(o, n, u) + p.i[u]
               PROVE  FALSE
    BY Zenon, <1>1 DEF Processed
  <2>1. /\ p.i[u] <= ThreadSectors(o, n, u) /\ p.i[u] \in Nat
        /\ tid \in Nat /\ u \in Nat
    <3>1. NThreads(o, n) \in Nat
      BY Zenon, ThreadCounts
    <3>2. tid \in Nat /\ u \in Nat
      BY ONLY <3>1, u \in Tids(o, n), tid \in Tids(o, n) DEF Tids
    <3>3. p.i[u] \in Nat
      BY Zenon, <1>1
    <3>4. p.i[u] <= ThreadSectors(o, n, u)
      BY Zenon DEF ShardedOK
    <3> QED
      BY ONLY Zenon, <3>2, <3>3, <3>4
  <2>2. CASE u = tid
    BY <1>4, <2>2, Parts
  <2>3. CASE u < tid
    <3>1. First(o, n, u) + ThreadSectors(o, n, u) <= First(o, n, tid)
      BY Zenon, <2>3, Parts
    <3>2. /\ First(o, n, u) \in Nat /\ ThreadSectors(o, n, u) \in Nat
          /\ First(o, n, tid) \in Nat
      BY Zenon, Parts
    <3> QED
      BY <1>4, <2>1, <3>1, <3>2
  <2>4. CASE tid < u
    <3>1. First(o, n, tid) + ThreadSectors(o, n, tid) <= First(o, n, u)
      BY Zenon, <2>4, Parts
    <3>2. /\ First(o, n, u) \in Nat /\ ThreadSectors(o, n, tid) \in Nat
          /\ First(o, n, tid) \in Nat
      BY Zenon, Parts
    <3> QED
      BY <1>4, <3>1, <3>2
  <2> QED
    BY <2>1, <2>2, <2>3, <2>4
<1>7. p.times[s] = 0
  BY Zenon, <1>1, <1>5, <1>6 DEF ShardedOK
<1>8. /\ q.times \in [0..(n - 1) -> {0, 1}] /\ q.times[s] = 1
      /\ \A a \in 0..(n - 1) : a # s => q.times[a] = p.times[a]
  BY <1>1, <1>3, <1>5, <1>7
<1>9. /\ q.i \in [Tids(o, n) -> Nat] /\ q.i[tid] = p.i[tid] + 1
      /\ \A u \in Tids(o, n) : u # tid => q.i[u] = p.i[u]
  BY <1>1, <1>3, <1>4
<1>10. Length(o) \in Nat
  BY Zenon, ShardedAssumption DEF Length
<1>11. q \in ShardedType(o, n)
  <2>1. q.codes \in SUBSET Codes /\ q.res \in Nat /\ q.err_code \in Codes
    BY <1>1, <1>3, <1>10
  <2>2. q = [op |-> o, n |-> n, i |-> q.i, times |-> q.times, codes |-> q.codes,
             res |-> q.res, err_code |-> q.err_code]
    BY Zenon, <1>3
  <2> HIDE DEF q
  <2> QED
    BY <1>8, <1>9, <2>1, <2>2 DEF ShardedType
<1>s. s = First(o, n, tid) + p.i[tid] /\ First(o, n, tid) \in Nat
  BY Zenon, Parts
<1> HIDE DEF q, s
<1>12. \A u \in Tids(o, n) : q.i[u] <= ThreadSectors(o, n, u)
  <2>1. ThreadSectors(o, n, tid) \in Nat
    BY Zenon, Parts
  <2>2. q.i[tid] <= ThreadSectors(o, n, tid)
    BY <1>4, <1>9, <2>1
  <2>3. \A u \in Tids(o, n) : u # tid => q.i[u] <= ThreadSectors(o, n, u)
    BY Zenon, <1>9 DEF ShardedOK
  <2> QED
    BY Zenon, <2>2, <2>3
<1>13. ASSUME NEW a \in 0..(n - 1) PROVE q.times[a] = 1 <=> Processed(q, a)
  <2>1. Processed(q, a) <=> Processed(p, a) \/ a = s
    <3>1. ASSUME NEW u \in Tids(o, n), u # tid
          PROVE  First(o, n, u) <= a /\ a < First(o, n, u) + q.i[u]
                   <=> First(o, n, u) <= a /\ a < First(o, n, u) + p.i[u]
      BY Zenon, <1>9, <3>1
    <3>2. First(o, n, tid) <= a /\ a < First(o, n, tid) + q.i[tid]
            <=> (First(o, n, tid) <= a /\ a < First(o, n, tid) + p.i[tid]) \/ a = s
      BY <1>4, <1>5, <1>9, <1>s
    <3>3. ASSUME Processed(q, a) PROVE Processed(p, a) \/ a = s
      BY Zenon, <1>1, <1>3, <3>1, <3>2, <3>3 DEF Processed
    <3>4. ASSUME Processed(p, a) PROVE Processed(q, a)
      BY Zenon, <1>1, <1>3, <3>1, <3>2, <3>4 DEF Processed
    <3>5. ASSUME a = s PROVE Processed(q, a)
      BY Zenon, <1>3, <3>2, <3>5 DEF Processed
    <3> QED
      BY Zenon, <3>3, <3>4, <3>5
  <2> QED
    BY Zenon, <1>8, <2>1 DEF ShardedOK
<1>14. /\ q.err_code = 0 => q.codes \subseteq {0}
       /\ q.err_code # 0 => q.err_code \in q.codes
  BY Zenon, <1>3 DEF ShardedOK
<1>15. ASSUME q.codes \subseteq {0} PROVE q.res = Length(o) * Cardinality(done(q))
  <2>1. e = 0 /\ p.codes \subseteq {0}
    BY Zenon, <1>3, <1>15
  <2>2. p.res = Length(o) * Cardinality(done(p)) /\ q.res = p.res + Length(o)
    BY Zenon, <1>3, <2>1 DEF ShardedOK
  <2>3. done(q) = done(p) \cup {s} /\ s \notin done(p)
    BY <1>5, <1>7, <1>8
  <2>4. IsFiniteSet(done(p))
    <3>1. IsFiniteSet(0..(n - 1)) /\ done(p) \in SUBSET (0..(n - 1))
      BY FS_Interval
    <3> HIDE DEF done
    <3> QED
      BY Zenon, <3>1, FS_Subset
  <2> HIDE DEF done
  <2>5. Cardinality(done(q)) = Cardinality(done(p)) + 1 /\ Cardinality(done(p)) \in Nat
    BY Zenon, <2>3, <2>4, FS_AddElement, FS_CardinalityType
  <2> QED
    BY <1>10, <2>2, <2>5
<1> QED
  BY Zenon, <1>11, <1>12, <1>13, <1>14, <1>15 DEF ShardedOK, q

(* When the threads are joined all sectors are processed, and counted. *)
LEMMA ShardedEnds ==
  ASSUME NEW o, NEW n \in Nat, NEW p, ShardedOK(p, o, n), Joined(p)
  PROVE  /\ \A s \in 0..(n - 1) : p.times[s] = 1
         /\ IF p.codes \subseteq {0}
            THEN ShardedResult(p) = [status |-> "kOk", res |-> n * Length(o)]
            ELSE /\ ShardedResult(p).status = "kFailed"
                 /\ ShardedResult(p).res \in p.codes \ {0}
<1>1. p.op = o /\ p.n = n
  BY Zenon DEF ShardedOK, ShardedType
<1>2. ASSUME NEW s \in 0..(n - 1) PROVE p.times[s] = 1
  <2>1. PICK tid \in Tids(o, n) :
           First(o, n, tid) <= s /\ s < First(o, n, tid) + ThreadSectors(o, n, tid)
    BY Zenon, PartsCover
  <2>2. p.i[tid] = ThreadSectors(o, n, tid)
    BY Zenon, <1>1 DEF Joined, Finished
  <2>3. Processed(p, s)
    BY Zenon, <1>1, <2>1, <2>2 DEF Processed
  <2> QED
    BY Zenon, <2>3 DEF ShardedOK
<1>3. CASE p.codes \subseteq {0}
  <2>1. p.err_code = 0
    BY Zenon, <1>3 DEF ShardedOK
  <2>2. {s \in 0..(n - 1) : p.times[s] = 1} = 0..(n - 1)
    BY Zenon, <1>2
  <2>3. Cardinality(0..(n - 1)) = n
    BY FS_Interval
  <2>4. p.res = Length(o) * n
    BY Zenon, <1>3, <2>2, <2>3 DEF ShardedOK
  <2>5. Length(o) * n = n * Length(o)
    BY ShardedAssumption DEF Length
  <2> QED
    BY Zenon, <1>2, <1>3, <2>1, <2>4, <2>5 DEF ShardedResult
<1>4. CASE ~(p.codes \subseteq {0})
  <2>1. p.err_code # 0 /\ p.err_code \in p.codes
    BY Zenon, <1>4 DEF ShardedOK
  <2> QED
    BY Zenon, <1>2, <1>4, <2>1 DEF ShardedResult
<1> QED
  BY Zenon, <1>3, <1>4

-----------------------------------------------------------------------------
(* The agent keeps its invariant *)

(* Steps that push and answer nothing keep the answers. *)
LEMMA AnswersKept ==
  ASSUME AnswersInv, active' = active, inactive' = inactive,
         \A t \in Tags : tag'[t] = "pushed" <=> tag[t] = "pushed"
  PROVE  AnswersInv'
<1>1. \A c, q : Slot(c, q)' = Slot(c, q)
  BY Zenon DEF Slot
<1>2. \A t, q : Answered(t, q)' <=> Answered(t, q)
  BY Zenon, <1>1 DEF Answered
<1>3. \A q \in Queues : \A c, d \in Slots :
          \A k \in 1..Len(Slot(c, q)'), l \in 1..Len(Slot(d, q)') :
             Slot(c, q)'[k].tag = Slot(d, q)'[l].tag => c = d /\ k = l
  <2> SUFFICES ASSUME NEW q \in Queues, NEW c \in Slots, NEW d \in Slots,
                      NEW k \in 1..Len(Slot(c, q)'), NEW l \in 1..Len(Slot(d, q)'),
                      Slot(c, q)'[k].tag = Slot(d, q)'[l].tag
               PROVE  c = d /\ k = l
    BY Zenon
  <2>1. Slot(c, q)' = Slot(c, q) /\ Slot(d, q)' = Slot(d, q)
    BY Zenon, <1>1
  <2>2. k \in 1..Len(Slot(c, q)) /\ l \in 1..Len(Slot(d, q))
    BY Zenon, <2>1
  <2>3. Slot(c, q)[k].tag = Slot(d, q)[l].tag
    BY Zenon, <2>1
  <2>4. \A i \in 1..Len(Slot(c, q)), j \in 1..Len(Slot(d, q)) :
           Slot(c, q)[i].tag = Slot(d, q)[j].tag => c = d /\ i = j
    BY Zenon DEF AnswersInv
  <2> QED
    BY Zenon, <2>2, <2>3, <2>4
<1>4. \A t \in Tags, q \in Queues :
          Answered(t, q)' <=> tag'[t] = "pushed" /\ q = QueueOf[t]
  BY Zenon, <1>2 DEF AnswersInv
<1> QED
  BY Zenon, <1>3, <1>4 DEF AnswersInv, Slots

(* Steps that process nothing keep the processing. *)
LEMMA ShardsKept ==
  ASSUME ShardsInv, io' = io, op' = op, completed' \subseteq completed
  PROVE  ShardsInv'
BY Zenon DEF ShardsInv

(* A request that is set up anew may not be one that is called back. *)
LEMMA ShardsReset ==
  ASSUME ShardsInv, DevTypeOK, NEW r \in Requests, NEW o,
         io' = [io EXCEPT ![r] = Sharded(o, Sectors[r])],
         op' = [op EXCEPT ![r] = o],
         completed' \subseteq completed, r \notin completed'
  PROVE  ShardsInv'
<1>1. /\ io' = [x \in Requests |-> io'[x]]
      /\ \A x \in Requests : io'[x] = IF x = r THEN Sharded(o, Sectors[r]) ELSE io[x]
  BY Zenon DEF ShardsInv
<1>2. \A x \in Requests : op'[x] = IF x = r THEN o ELSE op[x]
  BY Zenon DEF DevTypeOK
<1>3. ShardedOK(Sharded(o, Sectors[r]), o, Sectors[r])
  BY Zenon, ShardedStarts, BlockDeviceAssumption
<1> QED
  BY Zenon, <1>1, <1>2, <1>3 DEF ShardsInv

(* The thread of a request that is being processed takes a turn. *)
LEMMA ShardsProceed ==
  ASSUME ShardsInv, PlacesInv, NEW r \in Requests, NEW tid \in Tids(op[r], Sectors[r]),
         NEW e \in Codes, ProcessRequest(r, tid, e)
  PROVE  ShardsInv'
<1>1. /\ io' = [x \in Requests |-> io'[x]]
      /\ \A x \in Requests : io'[x] = IF x = r THEN ProcessSector(io[r], tid, e) ELSE io[x]
  BY Zenon DEF ShardsInv, ProcessRequest
<1>2. op' = op /\ completed' = completed /\ r \notin completed
  BY Zenon DEF ProcessRequest, PlacesInv, vars
<1>3. ShardedOK(ProcessSector(io[r], tid, e), op[r], Sectors[r])
  BY Zenon, ShardedProceeds, BlockDeviceAssumption DEF ShardsInv, ProcessRequest
<1> QED
  BY Zenon, <1>1, <1>2, <1>3 DEF ShardsInv

(* The part of the invariant that a step of the agent alone can disturb. *)
AgentInv == DevTypeOK /\ CallInv /\ AnswersInv /\ ShardsInv /\ UblkReleased

(* The thread of the agent sets the device up and takes it down. *)
LEMMA MainSteps ==
  ASSUME DevInv,
         \/ Construct \/ InitDevice \/ StartQueues \/ StartDevice
         \/ SignalHandler \/ JoinQueues \/ \E q \in Queues : StartQueue(q) \/ ExitQueue(q)
  PROVE  AgentInv'
<1> USE DEF Construct, InitDevice, StartQueues, StartDevice, SignalHandler, JoinQueues,
        StartQueue, ExitQueue, Destruct
<1>1. UNCHANGED <<vars, tagVars, batches>>
  BY Zenon
<1>2. DevTypeOK'
  BY Zenon DEF DevInv, DevTypeOK, tagVars, MainStates, QueueThreads
<1>3. CallInv'
  <2>1. main = "allocate" /\ batches > 0 => main' = main
    BY DEF DevInv, DevTypeOK
  <2>2. UNCHANGED <<caller, op, tag, batches>>
    BY ONLY Zenon, <1>1 DEF vars, tagVars
  <2> QED
    BY ONLY Zenon, DevInv, <2>1, <2>2 DEF DevInv, CallInv
<1>4. AnswersInv'
  BY Zenon, <1>1, AnswersKept DEF DevInv, tagVars
<1>5. ShardsInv'
  BY Zenon, <1>1, ShardsKept DEF DevInv, vars, tagVars
<1>6. UblkReleased'
  BY Zenon DEF DevInv, UblkReleased
<1> QED
  BY Zenon, <1>2, <1>3, <1>4, <1>5, <1>6 DEF AgentInv

(* The dispatcher allocates the device batch by batch. *)
LEMMA AllocateSteps ==
  ASSUME DevInv, AllocateReturns \/ \E c \in Cores : AllocateBatch(c)
  PROVE  AgentInv'
<1> USE AgentRequests
<1>1. CASE AllocateReturns
  <2>1. batches > 0 /\ op[Alloc] = "allocate"
    BY Zenon, <1>1 DEF AllocateReturns, Retire, DevInv, CallInv
  <2>2. DevTypeOK'
    BY <1>1, <2>1, BlockDeviceAssumption DEF AllocateReturns, DevInv, DevTypeOK
  <2>3. CallInv'
    BY Zenon, <1>1, BlockDeviceAssumption DEF AllocateReturns, Retire, DevInv, CallInv, TypeOK
  <2>4. AnswersInv'
    BY Zenon, <1>1, AnswersKept DEF AllocateReturns, DevInv
  <2>5. ShardsInv'
    <3>1. op' = [op EXCEPT ![Alloc] = "allocate"]
      BY Zenon, <1>1, <2>1 DEF AllocateReturns, DevInv, DevTypeOK
    <3>2. completed' \subseteq completed /\ Alloc \notin completed'
      BY Zenon, <1>1 DEF AllocateReturns, Retire
    <3> QED
      BY Zenon, <1>1, <3>1, <3>2, ShardsReset DEF AllocateReturns, DevInv
  <2>6. UblkReleased'
    BY Zenon, <1>1 DEF AllocateReturns, DevInv, UblkReleased
  <2> QED
    BY Zenon, <2>2, <2>3, <2>4, <2>5, <2>6 DEF AgentInv
<1>2. CASE \E c \in Cores : AllocateBatch(c)
  <2>1. UNCHANGED devVars /\ completed' = completed /\ main = "allocate" /\ batches > 0
    BY Zenon, <1>2 DEF AllocateBatch, Submit
  <2>2. caller' = [caller EXCEPT ![Alloc] = "submitted"]
    BY Zenon, <1>2, BlockDeviceAssumption DEF AllocateBatch, Submit
  <2>3. DevTypeOK' /\ UblkReleased'
    BY Zenon, <2>1 DEF DevInv, DevTypeOK, UblkReleased, devVars, setupVars, tagVars
  <2>4. CallInv'
    BY Zenon, <2>1, <2>2, BlockDeviceAssumption DEF DevInv, CallInv, TypeOK, devVars, setupVars, tagVars
  <2>5. AnswersInv'
    BY Zenon, <2>1, AnswersKept DEF DevInv, devVars, tagVars
  <2>6. ShardsInv'
    BY Zenon, <2>1, ShardsKept DEF DevInv, devVars, tagVars
  <2> QED
    BY Zenon, <2>3, <2>4, <2>5, <2>6 DEF AgentInv
<1> QED
  BY Zenon, <1>1, <1>2

(* The kernel's request goes to the disk and its outcome to the queue. *)
LEMMA TagSteps ==
  ASSUME DevInv, NEW t \in Tags
  PROVE  /\ \A o \in Ops : HandleIOAsync(t, o) => AgentInv'
         /\ \A c \in Cores : CallDisk(t, c) => AgentInv'
         /\ \A c \in Cores : PushResult(t, c) => AgentInv'
         /\ \A c \in Cores : PushUnknown(t, c) => AgentInv'
<1> USE AgentRequests
<1>0. t # Alloc
  BY Zenon, BlockDeviceAssumption
<1>1. ASSUME NEW o \in Ops, HandleIOAsync(t, o) PROVE AgentInv'
  <2>1. /\ UNCHANGED <<vars, setupVars, active, inactive>> /\ tag[t] = "free"
        /\ tag' = [tag EXCEPT ![t] = "spawned"] /\ op' = [op EXCEPT ![t] = o]
        /\ io' = [io EXCEPT ![t] = Sharded(o, Sectors[t])]
    BY Zenon, <1>1 DEF HandleIOAsync
  <2>2. DevTypeOK' /\ UblkReleased'
    BY Zenon, <2>1 DEF DevInv, DevTypeOK, UblkReleased, setupVars, TagStates
  <2>3. CallInv'
    BY Zenon, <1>0, <2>1 DEF DevInv, CallInv, DevTypeOK, vars, setupVars
  <2>4. AnswersInv'
    BY Zenon, <2>1, AnswersKept DEF DevInv, DevTypeOK
  <2>5. ShardsInv'
    <3>1. caller[t] = "idle" /\ t \notin completed
      BY Zenon, <2>1 DEF DevInv, CallInv, PlacesInv
    <3>2. completed' = completed
      BY Zenon, <2>1 DEF vars
    <3> QED
      BY Zenon, <2>1, <3>1, <3>2, ShardsReset DEF DevInv
  <2> QED
    BY Zenon, <2>2, <2>3, <2>4, <2>5 DEF AgentInv
<1>2. ASSUME NEW c \in Cores, CallDisk(t, c) PROVE AgentInv'
  <2>1. /\ UNCHANGED <<setupVars, op, io, active, inactive, completed>> /\ tag[t] = "spawned"
        /\ tag' = [tag EXCEPT ![t] = "issued"] /\ caller' = [caller EXCEPT ![t] = "submitted"]
    BY Zenon, <1>2, BlockDeviceAssumption DEF CallDisk, Submit
  <2>2. DevTypeOK' /\ UblkReleased'
    BY Zenon, <2>1 DEF DevInv, DevTypeOK, UblkReleased, setupVars, TagStates
  <2>3. CallInv'
    BY Zenon, <1>0, <2>1 DEF DevInv, CallInv, DevTypeOK, TypeOK, setupVars
  <2>4. AnswersInv'
    BY Zenon, <2>1, AnswersKept DEF DevInv, DevTypeOK
  <2>5. ShardsInv'
    BY Zenon, <2>1, ShardsKept DEF DevInv
  <2> QED
    BY Zenon, <2>2, <2>3, <2>4, <2>5 DEF AgentInv
<1>3. ASSUME NEW c \in Cores, Push(t, c), tag[t] # "pushed", completed' \subseteq completed,
             t \notin completed', CallInv'
      PROVE  AgentInv'
  <2>1. /\ tag' = [tag EXCEPT ![t] = "pushed"] /\ UNCHANGED <<setupVars, inactive>>
        /\ op' = [op EXCEPT ![t] = "read"]
        /\ io' = [io EXCEPT ![t] = Sharded("read", Sectors[t])]
    BY Zenon, <1>3 DEF Push
  <2>2. DevTypeOK' /\ UblkReleased'
    BY Zenon, <1>3, <2>1, PushIs DEF DevInv, DevTypeOK, UblkReleased, setupVars, TagStates, Ops
  <2>3. AnswersInv'
    BY Zenon, <1>3, PushAnswers DEF DevInv
  <2>4. ShardsInv'
    BY Zenon, <1>3, <2>1, ShardsReset DEF DevInv
  <2> QED
    BY Zenon, <1>3, <2>2, <2>3, <2>4 DEF AgentInv
<1>4. ASSUME NEW c \in Cores, PushResult(t, c) PROVE AgentInv'
  <2>1. Push(t, c) /\ tag[t] = "issued" /\ completed' = completed \ {t}
    BY Zenon, <1>4 DEF PushResult, Retire
  <2>2. CallInv'
    BY Zenon, <1>0, <1>4 DEF PushResult, Retire, Push, DevInv, CallInv, DevTypeOK, TypeOK,
       setupVars
  <2> QED
    BY Zenon, <1>3, <2>1, <2>2
<1>5. ASSUME NEW c \in Cores, PushUnknown(t, c) PROVE AgentInv'
  <2>1. Push(t, c) /\ tag[t] = "spawned" /\ completed' = completed
    BY Zenon, <1>5 DEF PushUnknown, vars
  <2>2. t \notin completed
    BY Zenon, <2>1 DEF DevInv, CallInv, PlacesInv
  <2>3. CallInv'
    BY Zenon, <1>0, <1>5 DEF PushUnknown, Push, DevInv, CallInv, DevTypeOK, TypeOK, vars,
       setupVars
  <2> QED
    BY Zenon, <1>3, <2>1, <2>2, <2>3
<1> QED
  BY Zenon, <1>1, <1>2, <1>4, <1>5

(* The thread of a hardware queue takes over a completion queue and answers. *)
LEMMA QueueSteps ==
  ASSUME DevInv, NEW q \in Queues
  PROVE  /\ \A c \in Cores : ConsumerAcquire(q, c) => AgentInv'
         /\ CompleteIO(q) => AgentInv'
<1>1. ASSUME NEW c \in Cores, ConsumerAcquire(q, c) PROVE AgentInv'
  <2>1. UNCHANGED <<vars, setupVars, tag, op, io>>
    BY Zenon, <1>1 DEF ConsumerAcquire
  <2>2. DevTypeOK' /\ UblkReleased'
    BY Zenon, <1>1 DEF ConsumerAcquire, DevInv, DevTypeOK, UblkReleased, setupVars
  <2>3. CallInv' /\ ShardsInv'
    BY Zenon, <2>1, ShardsKept DEF DevInv, CallInv, vars, setupVars
  <2>4. AnswersInv'
    BY Zenon, <1>1, AcquireAnswers DEF DevInv
  <2> QED
    BY Zenon, <2>2, <2>3, <2>4 DEF AgentInv
<1>2. ASSUME CompleteIO(q) PROVE AgentInv'
  <2>h. PICK h : h = Head(inactive[q]).tag
    BY Zenon
  <2>1. /\ UNCHANGED <<vars, setupVars, op, io, active>>
        /\ tag' = [tag EXCEPT ![h] = "free"]
        /\ inactive[q] # <<>> /\ inactive' = [inactive EXCEPT ![q] = Tail(@)]
    BY Zenon, <1>2, <2>h DEF CompleteIO
  <2>2. AnswersInv' /\ h \in Tags /\ tag[h] = "pushed"
    BY Zenon, <1>2, <2>h, CompleteAnswers DEF DevInv
  <2>3. Tail(inactive[q]) \in Seq(Completion)
    BY Zenon, <2>1, HeadTailProperties DEF DevInv, DevTypeOK
  <2>4. DevTypeOK' /\ UblkReleased'
    BY Zenon, <2>1, <2>2, <2>3 DEF DevInv, DevTypeOK, UblkReleased, setupVars, TagStates
  <2>5. CallInv'
    BY Zenon, <2>1, <2>2 DEF DevInv, CallInv, DevTypeOK, vars, setupVars
  <2>6. ShardsInv'
    BY Zenon, <2>1, ShardsKept DEF DevInv, vars
  <2> QED
    BY Zenon, <2>2, <2>4, <2>5, <2>6 DEF AgentInv
<1> QED
  BY Zenon, <1>1, <1>2

(* The disk processes a request and calls back. *)
LEMMA RequestSteps ==
  ASSUME DevInv, NEW r \in Requests
  PROVE  /\ ProcessCompletion(r) => AgentInv'
         /\ \A tid \in Tids(op[r], Sectors[r]), e \in Codes :
               ProcessRequest(r, tid, e) => AgentInv'
<1> USE AgentRequests
<1>1. ASSUME ProcessCompletion(r) PROVE AgentInv'
  <2>1. /\ UNCHANGED <<setupVars, tagVars>> /\ Joined(io[r]) /\ completed' = completed \cup {r}
        /\ caller' = [caller EXCEPT ![r] = IF @ = "parked" THEN "returned" ELSE @]
    BY Zenon, <1>1 DEF ProcessCompletion, Complete
  <2>2. DevTypeOK' /\ UblkReleased'
    BY Zenon, <2>1 DEF DevInv, DevTypeOK, UblkReleased, setupVars, tagVars
  <2>3. \A x \in Requests : caller'[x] = "idle" <=> caller[x] = "idle"
    BY Zenon, <2>1 DEF DevInv, TypeOK
  <2>4. CallInv'
    BY Zenon, <2>1, <2>3 DEF DevInv, CallInv, setupVars, tagVars
  <2>5. AnswersInv'
    BY Zenon, <2>1, AnswersKept DEF DevInv, tagVars
  <2>6. ShardsInv'
    BY Zenon, <2>1 DEF DevInv, ShardsInv, tagVars
  <2> QED
    BY Zenon, <2>2, <2>4, <2>5, <2>6 DEF AgentInv
<1>2. ASSUME NEW tid \in Tids(op[r], Sectors[r]), NEW e \in Codes, ProcessRequest(r, tid, e)
      PROVE  AgentInv'
  <2>1. UNCHANGED <<vars, setupVars, tag, op, active, inactive>>
    BY Zenon, <1>2 DEF ProcessRequest
  <2>2. DevTypeOK' /\ UblkReleased' /\ CallInv'
    BY Zenon, <2>1 DEF DevInv, DevTypeOK, UblkReleased, CallInv, setupVars, vars
  <2>3. AnswersInv'
    BY Zenon, <2>1, AnswersKept DEF DevInv
  <2>4. ShardsInv'
    BY Zenon, <1>2, ShardsProceed DEF DevInv
  <2> QED
    BY Zenon, <2>2, <2>3, <2>4 DEF AgentInv
<1> QED
  BY Zenon, <1>1, <1>2

(* The other steps of the disk are hidden from the agent. *)
LEMMA DiskSteps ==
  ASSUME DevInv, UNCHANGED devVars, DiskStep \/ StopBegin \/ UNCHANGED vars
  PROVE  AgentInv'
<1> USE AgentRequests
<1>1. completed' = completed
  BY Zenon DEF DiskStep, Park, WorkerStep, StopNext, StopBegin, vars
<1>2. \A x \in Requests : caller'[x] = "idle" <=> caller[x] = "idle"
  BY Zenon DEF DiskStep, Park, WorkerStep, StopNext, StopBegin, vars, DevInv, TypeOK
<1>3. DevTypeOK' /\ UblkReleased'
  BY Zenon DEF DevInv, DevTypeOK, UblkReleased, devVars, setupVars, tagVars
<1>4. CallInv'
  BY Zenon, <1>2 DEF DevInv, CallInv, devVars, setupVars, tagVars
<1>5. AnswersInv'
  BY Zenon, AnswersKept DEF DevInv, devVars, tagVars
<1>6. ShardsInv'
  BY Zenon, <1>1, ShardsKept DEF DevInv, devVars, tagVars
<1> QED
  BY Zenon, <1>3, <1>4, <1>5, <1>6 DEF AgentInv

(* Every step of the agent, the kernel and the disk keeps DevInv. *)
LEMMA DevInvNext == QueueInv /\ DevInv /\ [DevNext]_allVars => DevInv'
<1> SUFFICES ASSUME QueueInv, DevInv, [DevNext]_allVars PROVE DevInv'
  BY Zenon
<1>1. [Next]_vars
  BY Zenon, AgentStepIsQueueStep
<1>2. TypeOK'
  BY Zenon, <1>1, QueueInvNext DEF QueueInv
<1>3. PlacesInv'
  BY Zenon, <1>1, PlacesInvNext DEF DevInv
<1>4. AgentInv'
  <2>1. CASE \/ Construct \/ InitDevice \/ StartQueues \/ StartDevice
             \/ SignalHandler \/ JoinQueues \/ \E q \in Queues : StartQueue(q) \/ ExitQueue(q)
    BY Zenon, <2>1, MainSteps
  <2>2. CASE AllocateReturns \/ \E c \in Cores : AllocateBatch(c)
    BY Zenon, <2>2, AllocateSteps
  <2>3. CASE \E q \in Queues : CompleteIO(q) \/ \E c \in Cores : ConsumerAcquire(q, c)
    BY Zenon, <2>3, QueueSteps
  <2>4. CASE \E t \in Tags : \/ \E o \in Ops : HandleIOAsync(t, o)
                            \/ \E c \in Cores : \/ CallDisk(t, c)
                                                \/ PushResult(t, c) \/ PushUnknown(t, c)
    BY Zenon, <2>4, TagSteps
  <2>5. CASE \E r \in Requests :
                \/ ProcessCompletion(r)
                \/ \E tid \in Tids(op[r], Sectors[r]), e \in Codes : ProcessRequest(r, tid, e)
    BY Zenon, <2>5, RequestSteps
  <2>6. CASE UNCHANGED devVars /\ (DiskStep \/ StopBegin \/ UNCHANGED vars)
    BY Zenon, <2>6, DiskSteps
  <2> QED
    BY Zenon, <2>1, <2>2, <2>3, <2>4, <2>5, <2>6 DEF DevNext, allVars, Codes
<1> QED
  BY Zenon, <1>2, <1>3, <1>4 DEF AgentInv, DevInv

(* The agent starts in DevInv. *)
LEMMA DevInvInit == DevInit => DevInv
<1> SUFFICES ASSUME DevInit PROVE DevInv
  BY Zenon
<1> USE AgentRequests, BlockDeviceAssumption
<1>1. TypeOK
  BY Zenon, QueueInvInit DEF DevInit, QueueInv
<1>2. PlacesInv
  BY Zenon, PlacesInit DEF DevInit
<1>3. DevTypeOK
  <2>1. /\ main \in MainStates /\ held \subseteq {"ctrl_dev", "added", "dev"}
        /\ stopped \in BOOLEAN
    BY Zenon DEF DevInit, MainStates
  <2>5. batches \in 0..NumBatches
    BY DEF DevInit
  <2>2. queue \in [Queues -> QueueThreads] /\ tag \in [Tags -> TagStates]
    BY Zenon DEF DevInit, QueueThreads, TagStates
  <2>3. op \in [Requests -> Ops \cup {"allocate"}]
    BY Zenon DEF DevInit, Ops
  <2>4. /\ active \in [Cores -> [Queues -> Seq(Completion)]]
        /\ inactive \in [Queues -> Seq(Completion)]
    BY Zenon, EmptySeq DEF DevInit
  <2> QED
    BY Zenon, <2>1, <2>2, <2>3, <2>4, <2>5 DEF DevTypeOK
<1>4. CallInv /\ UblkReleased
  BY Zenon DEF DevInit, Init, CallInv, UblkReleased
<1>5. AnswersInv
  <2>1. \A c \in Slots, q \in Queues : Slot(c, q) = <<>>
    BY WorkQueueAssumption DEF DevInit, Slot, Slots, Cores
  <2> QED
    BY <2>1 DEF DevInit, AnswersInv, Answered
<1>6. ShardsInv
  <2>1. \A r \in Requests : ShardedOK(Sharded(op[r], Sectors[r]), op[r], Sectors[r])
    BY Zenon, ShardedStarts
  <2> QED
    BY Zenon, <2>1 DEF DevInit, Init, ShardsInv
<1> QED
  BY Zenon, <1>1, <1>2, <1>3, <1>4, <1>5, <1>6 DEF DevInv

(* DevInv is an invariant of the block device. *)
THEOREM DeviceInvariance == DevSpec => []DevInv
BY DevInvInit, DevInvNext, AgentUsesQueues, QueueInvariance, PTL DEF DevSpec

(* One answer means that there is one entry. *)
LEMMA AnswersCount ==
  ASSUME DevTypeOK, AnswersInv
  PROVE  TagAnsweredOnce
<1> SUFFICES ASSUME NEW t \in Tags, NEW q \in Queues
             PROVE  Cardinality(Answers(t, q))
                      = IF tag[t] = "pushed" /\ q = QueueOf[t] THEN 1 ELSE 0
  BY Zenon DEF TagAnsweredOnce
<1>1. ASSUME NEW x \in Answers(t, q)
      PROVE  \E c \in Slots : \E k \in 1..Len(Slot(c, q)) : x = <<c, k>> /\ Slot(c, q)[k].tag = t
  <2>1. CASE x \in {0} \X Completions(t, inactive[q])
    <3>1. PICK k \in 1..Len(inactive[q]) : x = <<0, k>> /\ inactive[q][k].tag = t
      BY <2>1 DEF Completions
    <3>2. 0 \in Slots /\ Slot(0, q) = inactive[q]
      BY WorkQueueAssumption DEF Slots, Slot
    <3> QED
      BY Zenon, <3>1, <3>2
  <2>2. CASE \E c \in Cores : x \in {c} \X Completions(t, active[c][q])
    <3>1. PICK c \in Cores : x \in {c} \X Completions(t, active[c][q])
      BY Zenon, <2>2
    <3>2. PICK k \in 1..Len(active[c][q]) : x = <<c, k>> /\ active[c][q][k].tag = t
      BY <3>1 DEF Completions
    <3>3. c \in Slots /\ Slot(c, q) = active[c][q]
      BY WorkQueueAssumption DEF Slots, Slot, Cores
    <3> QED
      BY Zenon, <3>2, <3>3
  <2> QED
    BY Zenon, <2>1, <2>2 DEF Answers
<1>2. ASSUME NEW c \in Slots, NEW k \in 1..Len(Slot(c, q)), Slot(c, q)[k].tag = t
      PROVE  <<c, k>> \in Answers(t, q)
  <2>1. k \in Completions(t, Slot(c, q))
    BY Zenon, <1>2 DEF Completions
  <2>2. CASE c = 0
    BY Zenon, <2>1, <2>2 DEF Answers, Slot
  <2>3. CASE c # 0
    <3>1. c \in Cores /\ Slot(c, q) = active[c][q]
      BY <2>3, WorkQueueAssumption DEF Slots, Slot, Cores
    <3> QED
      BY <2>1, <3>1 DEF Answers
  <2> QED
    BY Zenon, <2>2, <2>3
<1>3. CASE Answered(t, q)
  <2>1. PICK c \in Slots : \E k \in 1..Len(Slot(c, q)) : Slot(c, q)[k].tag = t
    BY Zenon, <1>3 DEF Answered
  <2>2. PICK k \in 1..Len(Slot(c, q)) : Slot(c, q)[k].tag = t
    BY Zenon, <2>1
  <2>3. Answers(t, q) = {<<c, k>>}
    BY <1>1, <1>2, <2>2 DEF AnswersInv
  <2>4. Cardinality({<<c, k>>}) = 1
    BY Zenon, FS_Singleton
  <2> QED
    BY Zenon, <1>3, <2>3, <2>4 DEF AnswersInv
<1>4. CASE ~Answered(t, q)
  <2>1. Answers(t, q) = {}
    BY Zenon, <1>1, <1>4 DEF Answered
  <2> QED
    BY Zenon, <1>4, <2>1, FS_EmptySet DEF AnswersInv
<1> QED
  BY Zenon, <1>3, <1>4

(***************************************************************************)
(* Every request of the kernel is answered once and by its own queue's     *)
(* thread, however the threads of tags, cores and queues interleave.       *)
(***************************************************************************)
THEOREM TagsAreAnsweredOnce == DevSpec => []TagAnsweredOnce
<1>1. DevInv => TagAnsweredOnce
  BY Zenon, AnswersCount DEF DevInv
<1> QED
  BY <1>1, DeviceInvariance, PTL

(* A request that is called back is done, and its result says how it went. *)
LEMMA CalledBackIsDone ==
  ASSUME DevInv, NEW r \in completed
  PROVE  /\ \A s \in 0..(Sectors[r] - 1) : io[r].times[s] = 1
         /\ IF io[r].codes \subseteq {0}
            THEN ShardedResult(io[r]) = [status |-> "kOk",
                                         res |-> Sectors[r] * Length(op[r])]
            ELSE /\ ShardedResult(io[r]).status = "kFailed"
                 /\ ShardedResult(io[r]).res \in io[r].codes \ {0}
<1>1. r \in Requests /\ Sectors[r] \in Nat
  BY Zenon, BlockDeviceAssumption DEF DevInv, TypeOK
<1>2. ShardedOK(io[r], op[r], Sectors[r]) /\ Joined(io[r])
  BY Zenon, <1>1 DEF DevInv, ShardsInv
<1>3. PICK p, o, n : p = io[r] /\ o = op[r] /\ n = Sectors[r]
  BY Zenon
<1>4. ShardedOK(p, o, n) /\ Joined(p) /\ n \in Nat
  BY Zenon, <1>1, <1>2, <1>3
<1>5. /\ \A s \in 0..(n - 1) : p.times[s] = 1
      /\ IF p.codes \subseteq {0}
         THEN ShardedResult(p) = [status |-> "kOk", res |-> n * Length(o)]
         ELSE /\ ShardedResult(p).status = "kFailed"
              /\ ShardedResult(p).res \in p.codes \ {0}
  BY ONLY Zenon, <1>4, ShardedEnds
<1> QED
  BY ONLY Zenon, <1>3, <1>5

(* A request that is called back has had every sector processed once, by the *)
(* threads of ProcessShardedRequests.                                        *)
THEOREM SectorsAreProcessedOnce == DevSpec => []EverySectorOnce
<1>1. DevInv => EverySectorOnce
  BY Zenon, CalledBackIsDone DEF EverySectorOnce
<1> QED
  BY <1>1, DeviceInvariance, PTL

(* What ProcessShardedRequests returns counts all bytes of the request or is *)
(* the error of one of its sectors.                                          *)
THEOREM ResultsAreExact == DevSpec => []ResultExact
<1>1. DevInv => ResultExact
  BY Zenon, CalledBackIsDone DEF ResultExact
<1> QED
  BY <1>1, DeviceInvariance, PTL

(* The agent holds nothing of ublk once it has ended, whichever step of its *)
(* start-up failed (BlkDevAgent and its destructor).                        *)
THEOREM UblkIsReleased == DevSpec => []UblkReleased
<1>1. DevInv => UblkReleased
  BY Zenon DEF DevInv
<1> QED
  BY <1>1, DeviceInvariance, PTL

(* Under the agent, no request is stranded in a work queue, lost or run twice. *)
THEOREM AgentLosesNoRequest == DevSpec => [](NoStrandedRequest /\ OncePerRequest)
BY AgentUsesQueues, NoWakeupLost, RequestsAreInOnePlace, PTL

=============================================================================
