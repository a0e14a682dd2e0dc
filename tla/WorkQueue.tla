------------------------------ MODULE WorkQueue ------------------------------
(***************************************************************************)
(* The request queues of a virtual disk (VirtualDiskBase).                 *)
(*                                                                         *)
(* Every core has a queue and a worker thread.  A caller pushes its        *)
(* request on the queue of the core it runs on, wakes that worker and, if  *)
(* the request is synchronous, parks until the request's callback wakes it *)
(* up.  A worker moves requests from its queue to threads of their own,    *)
(* which process them, call the callback and end.  Stop() ends the workers *)
(* one after the other.                                                    *)
(*                                                                         *)
(* Every critical section under a queue's spin lock is one action.  The    *)
(* pointer inside a ThreadWaker is set exactly while its thread is parked  *)
(* (Arm and parking are one step for whoever wakes it: the runtime makes   *)
(* thread_ready wait for the park), so Wake() is: if parked, make runnable.*)
(***************************************************************************)
EXTENDS Naturals, Sequences, FiniteSets

CONSTANTS
    Sync,       \* requests submitted by Read, Write and Allocate
    Async,      \* requests submitted by SubmitRequest
    NumCores    \* rt::RuntimeMaxCores()

ASSUME WorkQueueAssumption ==
    /\ Sync \cap Async = {}
    /\ NumCores \in Nat \ {0}

Requests == Sync \cup Async
Cores == 1..NumCores

VARIABLES
    caller,     \* caller[r]: the thread that submits r
    reqs,       \* reqs[c]: the queue of core c
    worker,     \* worker[c]: the worker thread of core c
    running,    \* requests that have a thread processing them
    completed,  \* requests whose callback has been called
    stop,       \* stop_
    stopping    \* the core Stop() is at; NumCores + 1: Stop() has returned

vars == <<caller, reqs, worker, running, completed, stop, stopping>>

CallerStates == {"idle", "submitted", "parked", "returned"}
WorkerStates == {"runnable", "parked", "exited"}

(* Types of the queues, the workers and the callers (VirtualDiskBase). *)
TypeOK ==
    /\ caller \in [Requests -> CallerStates]
    /\ reqs \in [Cores -> Seq(Requests)]
    /\ worker \in [Cores -> WorkerStates]
    /\ running \subseteq Requests
    /\ completed \subseteq Requests
    /\ stop \in BOOLEAN
    /\ stopping \in 0..(NumCores + 1)

Init ==
    /\ caller = [r \in Requests |-> "idle"]
    /\ reqs = [c \in Cores |-> <<>>]
    /\ worker = [c \in Cores |-> "runnable"]
    /\ running = {}
    /\ completed = {}
    /\ stop = FALSE
    /\ stopping = 0

-----------------------------------------------------------------------------

(* ThreadWaker::Wake on the worker of core c. *)
Wake(c) ==
    worker' = [worker EXCEPT ![c] = IF @ = "parked" THEN "runnable" ELSE @]

(* Mutant of Submit: the worker is not woken. *)
SubmitQuietly(r, c) ==
    /\ stopping = 0
    /\ caller[r] = "idle"
    /\ reqs' = [reqs EXCEPT ![c] = Append(@, r)]
    /\ caller' = [caller EXCEPT ![r] = IF r \in Sync THEN "submitted"
                                                     ELSE "returned"]
    /\ UNCHANGED <<worker, running, completed, stop, stopping>>

(***************************************************************************)
(* SubmitRequestAndPark up to the end of the critical section; a caller    *)
(* without a waker returns.  No request is submitted to a disk that is     *)
(* being destroyed.                                                        *)
(***************************************************************************)
Submit(r, c) ==
    /\ stopping = 0
    /\ caller[r] = "idle"
    /\ reqs' = [reqs EXCEPT ![c] = Append(@, r)]
    /\ Wake(c)
    /\ caller' = [caller EXCEPT ![r] = IF r \in Sync THEN "submitted"
                                                     ELSE "returned"]
    /\ UNCHANGED <<running, completed, stop, stopping>>

(* The rest of SubmitRequestAndPark: arm the waker and park. *)
Park(r) ==
    /\ caller[r] = "submitted"
    /\ caller' = [caller EXCEPT ![r] = "parked"]
    /\ UNCHANGED <<reqs, worker, running, completed, stop, stopping>>

(* Mutant of WorkerStep: takes the front of the queue and does not pop it. *)
WorkerKeepsQueue(c) ==
    /\ worker[c] = "runnable"
    /\ running' = running \cup {reqs[c][i] : i \in 1..Len(reqs[c])}
    /\ worker' = [worker EXCEPT ![c] = IF stop THEN "exited"
                                       ELSE IF reqs[c] = <<>> THEN "parked"
                                       ELSE "runnable"]
    /\ UNCHANGED <<caller, reqs, completed, stop, stopping>>

(***************************************************************************)
(* RequestWorker with the lock: park if there is nothing to do, otherwise  *)
(* hand every queued request to a thread and exit if told to stop.         *)
(***************************************************************************)
WorkerStep(c) ==
    /\ worker[c] = "runnable"
    /\ running' = running \cup {reqs[c][i] : i \in 1..Len(reqs[c])}
    /\ reqs' = [reqs EXCEPT ![c] = <<>>]
    /\ worker' = [worker EXCEPT ![c] = IF stop THEN "exited"
                                       ELSE IF reqs[c] = <<>> THEN "parked"
                                       ELSE "runnable"]
    /\ UNCHANGED <<caller, completed, stop, stopping>>

(***************************************************************************)
(* The thread of r has processed it: ProcessCompletion calls the callback, *)
(* IOCallback for a synchronous request, which wakes the caller.           *)
(***************************************************************************)
Complete(r) ==
    /\ r \in running
    /\ running' = running \ {r}
    /\ completed' = completed \cup {r}
    /\ caller' = [caller EXCEPT ![r] = IF @ = "parked" THEN "returned" ELSE @]
    /\ UNCHANGED <<reqs, worker, stop, stopping>>

(* The caller is done with r, and r may stand for its next request. *)
Retire(r) ==
    /\ r \in completed
    /\ caller[r] = "returned"
    /\ caller' = [caller EXCEPT ![r] = "idle"]
    /\ completed' = completed \ {r}
    /\ UNCHANGED <<reqs, worker, running, stop, stopping>>

(***************************************************************************)
(* Stop(), called by the destructor once no synchronous caller is left:    *)
(* for one core after the other set stop_, wake its worker and join it.    *)
(***************************************************************************)
StopBegin ==
    /\ stopping = 0
    /\ \A r \in Sync : caller[r] \in {"idle", "returned"}
    /\ stopping' = 1
    /\ stop' = TRUE
    /\ Wake(1)
    /\ UNCHANGED <<caller, reqs, running, completed>>

(* Mutant of StopNext: joins all workers before it wakes the next. *)
StopJoinsAll ==
    /\ stopping \in Cores
    /\ \A c \in Cores : worker[c] = "exited"
    /\ stopping' = stopping + 1
    /\ IF stopping = NumCores THEN UNCHANGED worker ELSE Wake(stopping + 1)
    /\ UNCHANGED <<caller, reqs, running, completed, stop>>

(* The worker was joined: on to the next core, or return. *)
StopNext ==
    /\ stopping \in Cores
    /\ worker[stopping] = "exited"
    /\ stopping' = stopping + 1
    /\ IF stopping = NumCores THEN UNCHANGED worker ELSE Wake(stopping + 1)
    /\ UNCHANGED <<caller, reqs, running, completed, stop>>

Next ==
    \/ \E r \in Requests : \/ \E c \in Cores : Submit(r, c)
                          \/ Park(r) \/ Complete(r) \/ Retire(r)
    \/ \E c \in Cores : WorkerStep(c)
    \/ StopBegin
    \/ StopNext

Spec == Init /\ [][Next]_vars

-----------------------------------------------------------------------------

(***************************************************************************)
(* No request is stranded: a worker that is parked has an empty queue and  *)
(* is not one Stop() waits for; one that has exited left nothing behind    *)
(* (SubmitRequestAndPark, RequestWorker and Stop).                         *)
(***************************************************************************)
NoStrandedRequest ==
    \A c \in Cores :
        /\ worker[c] # "runnable" => reqs[c] = <<>>
        /\ worker[c] = "parked" => c > stopping

(* Its inductive form: workers exit for Stop() only, and stop_ says so. *)
QueueInv ==
    /\ TypeOK
    /\ NoStrandedRequest
    /\ stop <=> stopping # 0
    /\ \A c \in Cores : worker[c] = "exited" => stop

(* The entries of the queues that are for request r: the core, the position. *)
QueueEntries(r) == UNION {{c} \X {i \in 1..Len(reqs[c]) : reqs[c][i] = r} : c \in Cores}

(* Where request r is: how many queue entries, threads and callbacks. *)
Places(r) ==
    Cardinality(QueueEntries(r))
      + Cardinality({r} \cap running) + Cardinality({r} \cap completed)

(***************************************************************************)
(* Every submitted request is in exactly one place: it is not lost and not *)
(* processed twice, whatever the callers, workers and Stop() interleave.   *)
(***************************************************************************)
OncePerRequest ==
    /\ TypeOK
    /\ \A r \in Requests : Places(r) = IF caller[r] = "idle" THEN 0 ELSE 1

(* Stop() returns: no join waits for a worker that nobody wakes (Stop). *)
StopReturns == stopping = 1 ~> stopping = NumCores + 1

(***************************************************************************)
(* What the comment of ThreadWaker::Wake demands: it is called after the   *)
(* thread to wake has armed the waker.  So no request is called back while *)
(* its caller has submitted it and not parked yet.                         *)
(***************************************************************************)
WakeFollowsArm == \A r \in Sync \cap completed : caller[r] # "submitted"

=============================================================================
