---------------------------- MODULE BlockDevice ----------------------------
(***************************************************************************)
(* The block device agent: a ublk device whose requests the dispatcher     *)
(* turns into synchronous calls of a virtual disk (WorkQueue), which       *)
(* splits them over threads (ShardedRequest).                              *)
(*                                                                         *)
(* The kernel hands the thread of a hardware queue the request of a free   *)
(* tag.  A spawned thread calls Read() or Write() and pushes the outcome   *)
(* on the completion queue of the core it is then on; the queue's thread   *)
(* swaps that queue out, answers its entries, and the tag is free again.   *)
(*                                                                         *)
(* Every step is a step of WorkQueue or leaves its variables unchanged.    *)
(***************************************************************************)
EXTENDS WorkQueue, ShardedRequest

CONSTANTS
    Tags,           \* the tags of the hardware queues, each with its request
    Alloc,          \* the request of the dispatcher's current Allocate call
    Queues,         \* hardware queues
    QueueOf,        \* QueueOf[t]: the hardware queue of tag t
    Sectors,        \* Sectors[r]: the sectors of request r
    NumBatches,     \* batches in which the dispatcher allocates the device
    ErrorCodes      \* errno values a sector may fail with

ASSUME BlockDeviceAssumption ==
    /\ Alloc \notin Tags /\ Sync = Tags \cup {Alloc} /\ Async = {}
    /\ QueueOf \in [Tags -> Queues]
    /\ Sectors \in [Requests -> Nat]
    /\ NumBatches \in Nat

VARIABLES
    main,       \* where the thread of BlkDevAgent and its Run() is
    held,       \* what it holds of ublk: the control device, the added
                \* device, the initialised device
    batches,    \* batches still to allocate
    queue,      \* queue[q]: the thread of hardware queue q
    stopped,    \* ublksrv_ctrl_stop_dev was called
    tag,        \* tag[t]: where the request of tag t is
    op,         \* op[r]: its operation
    io,         \* io[r]: its processing by the virtual disk
    active,     \* active[c][q]: active_q_ of the completion queue
    inactive    \* inactive[q]: what the thread of queue q has swapped out

setupVars == <<main, held, batches, queue, stopped>>
tagVars == <<tag, op, io, active, inactive>>
devVars == <<setupVars, tagVars>>
allVars == <<vars, devVars>>

Ops == {"read", "write", "other"}
QueueThreads == {"none", "starting", "running", "exited"}
MainStates == {"ctor", "run", "allocate", "params", "join", "exited"}
TagStates == {"free", "spawned", "issued", "pushed"}
Completion == [tag : Tags, res : Nat]

DevInit ==
    /\ Init
    /\ main = "ctor" /\ held = {} /\ batches = NumBatches
    /\ queue = [q \in Queues |-> "none"] /\ stopped = FALSE
    /\ tag = [t \in Tags |-> "free"]
    /\ op = [r \in Requests |-> IF r = Alloc THEN "allocate" ELSE "read"]
    /\ io = [r \in Requests |-> Sharded(op[r], Sectors[r])]
    /\ active = [c \in Cores |-> [q \in Queues |-> <<>>]]
    /\ inactive = [q \in Queues |-> <<>>]

-----------------------------------------------------------------------------

(* Mutant of Construct: a device that cannot be added keeps the control device. *)
ConstructLeaks ==
    /\ main = "ctor"
    /\ \/ main' = "exited" /\ held' = {}
       \/ main' = "exited" /\ held' = {"ctrl_dev"}
       \/ main' = "run" /\ held' = {"ctrl_dev", "added"}
    /\ UNCHANGED <<vars, batches, queue, stopped, tagVars>>

(***************************************************************************)
(* The constructor: the control device cannot be made, or the device not   *)
(* added, which gives the control device back; both throw.                 *)
(***************************************************************************)
Construct ==
    /\ main = "ctor"
    /\ \/ main' = "exited" /\ held' = {}
       \/ main' = "run" /\ held' = {"ctrl_dev", "added"}
    /\ UNCHANGED <<vars, batches, queue, stopped, tagVars>>

(* The destructor gives back what the agent's flags say it holds. *)
Destruct == main' = "exited" /\ held' = {}

(* Run() up to the dispatcher: InitTarget runs inside ublksrv_dev_init. *)
InitDevice ==
    /\ main = "run"
    /\ \/ Destruct
       \/ main' = "allocate" /\ held' = held \cup {"dev"}
    /\ UNCHANGED <<vars, batches, queue, stopped, tagVars>>

(* RequestDispatcher's AllocateBlocks: one Allocate call per batch. *)
AllocateBatch(c) ==
    /\ main = "allocate" /\ batches > 0
    /\ Submit(Alloc, c)
    /\ UNCHANGED devVars

AllocateReturns ==
    /\ main = "allocate"
    /\ Retire(Alloc)
    /\ io' = [io EXCEPT ![Alloc] = Sharded("allocate", Sectors[Alloc])]
    /\ batches' = batches - 1
    /\ UNCHANGED <<main, held, queue, stopped, tag, op, active, inactive>>

(* The device is allocated: Run() starts a thread for every queue. *)
StartQueues ==
    /\ main = "allocate" /\ batches = 0
    /\ queue' = [q \in Queues |-> "starting"]
    /\ main' = "params"
    /\ UNCHANGED <<vars, held, batches, stopped, tagVars>>

(* The rest of Run() before it waits: parameters set and device started. *)
StartDevice ==
    /\ main = "params"
    /\ \/ Destruct
       \/ main' = "join" /\ UNCHANGED held
    /\ UNCHANGED <<vars, batches, queue, stopped, tagVars>>

(* ProcessBlockDevRequests before its loop; either call may fail. *)
StartQueue(q) ==
    /\ queue[q] = "starting"
    /\ \E s \in {"running", "exited"} : queue' = [queue EXCEPT ![q] = s]
    /\ UNCHANGED <<vars, main, held, batches, stopped, tagVars>>

(* SIGTERM or SIGINT: SignalHandler stops the device. *)
SignalHandler ==
    /\ main = "join" /\ ~stopped
    /\ stopped' = TRUE
    /\ UNCHANGED <<vars, main, held, batches, queue, tagVars>>

(* ublksrv_process_io fails on a stopped device: the queue's thread ends. *)
ExitQueue(q) ==
    /\ queue[q] = "running" /\ stopped /\ inactive[q] = <<>>
    /\ queue' = [queue EXCEPT ![q] = "exited"]
    /\ UNCHANGED <<vars, main, held, batches, stopped, tagVars>>

(* All queue threads are joined and Run() returns. *)
JoinQueues ==
    /\ main = "join"
    /\ \A q \in Queues : queue[q] = "exited"
    /\ Destruct
    /\ UNCHANGED <<vars, batches, queue, stopped, tagVars>>

-----------------------------------------------------------------------------

(* ublksrv_process_io finds a request: HandleIOAsync has a thread spawned. *)
HandleIOAsync(t, o) ==
    /\ main = "join" /\ ~stopped
    /\ queue[QueueOf[t]] = "running" /\ inactive[QueueOf[t]] = <<>>
    /\ tag[t] = "free"
    /\ tag' = [tag EXCEPT ![t] = "spawned"]
    /\ op' = [op EXCEPT ![t] = o]
    /\ io' = [io EXCEPT ![t] = Sharded(o, Sectors[t])]
    /\ UNCHANGED <<vars, setupVars, active, inactive>>

(* The spawned thread of SubmitRequest calls Read() or Write(). *)
CallDisk(t, c) ==
    /\ tag[t] = "spawned" /\ op[t] \in {"read", "write"}
    /\ Submit(t, c)
    /\ tag' = [tag EXCEPT ![t] = "issued"]
    /\ UNCHANGED <<setupVars, op, io, active, inactive>>

(***************************************************************************)
(* The rest of that thread.  Read() and Write() return what their callback *)
(* stored as a value, and an unknown operation leaves io_ret at its        *)
(* initial value: io_ret is never an error and the full length is pushed.  *)
(***************************************************************************)
Push(t, c) ==
    /\ tag' = [tag EXCEPT ![t] = "pushed"]
    /\ active' = [active EXCEPT ![c][QueueOf[t]] =
                      Append(@, [tag |-> t, res |-> Sectors[t] * SectorSize])]
    /\ op' = [op EXCEPT ![t] = "read"]
    /\ io' = [io EXCEPT ![t] = Sharded("read", Sectors[t])]
    /\ UNCHANGED <<setupVars, inactive>>

PushResult(t, c) == tag[t] = "issued" /\ Retire(t) /\ Push(t, c)

PushUnknown(t, c) ==
    /\ tag[t] = "spawned" /\ op[t] = "other"
    /\ Push(t, c)
    /\ UNCHANGED vars

(* Mutant of ConsumerAcquire: the queue is copied and not swapped. *)
ConsumerCopies(q, c) ==
    /\ queue[q] = "running" /\ inactive[q] = <<>> /\ active[c][q] # <<>>
    /\ inactive' = [inactive EXCEPT ![q] = active[c][q]]
    /\ UNCHANGED <<vars, setupVars, tag, op, io, active>>

(* Mutant of ConsumerAcquire: only the first core's queue is looked at. *)
ConsumerStays(q, c) ==
    /\ queue[q] = "running" /\ inactive[q] = <<>> /\ active[c][q] # <<>>
    /\ c = 1
    /\ inactive' = [inactive EXCEPT ![q] = active[c][q]]
    /\ active' = [active EXCEPT ![c][q] = <<>>]
    /\ UNCHANGED <<vars, setupVars, tag, op, io>>

(* consumer_acquire, once is_empty has seen an entry. *)
ConsumerAcquire(q, c) ==
    /\ queue[q] = "running" /\ inactive[q] = <<>> /\ active[c][q] # <<>>
    /\ inactive' = [inactive EXCEPT ![q] = active[c][q]]
    /\ active' = [active EXCEPT ![c][q] = <<>>]
    /\ UNCHANGED <<vars, setupVars, tag, op, io>>

(* ublksrv_complete_io for the front of the queue that was swapped out. *)
CompleteIO(q) ==
    /\ inactive[q] # <<>>
    /\ tag' = [tag EXCEPT ![Head(inactive[q]).tag] = "free"]
    /\ inactive' = [inactive EXCEPT ![q] = Tail(@)]
    /\ UNCHANGED <<vars, setupVars, op, io, active>>

-----------------------------------------------------------------------------

(* A thread of request r processes its next sector. *)
ProcessRequest(r, tid, e) ==
    /\ r \in running
    /\ ~Finished(io[r], tid)
    /\ io' = [io EXCEPT ![r] = ProcessSector(@, tid, e)]
    /\ UNCHANGED <<vars, setupVars, tag, op, active, inactive>>

(* ProcessRequestAsync joins the threads of r and calls IOCallback. *)
ProcessCompletion(r) ==
    /\ Joined(io[r])
    /\ Complete(r)
    /\ UNCHANGED <<setupVars, tagVars>>

DiskStep ==
    \/ \E r \in Requests : Park(r)
    \/ \E c \in Cores : WorkerStep(c)
    \/ StopNext

DevNext ==
    \/ Construct \/ InitDevice \/ AllocateReturns \/ StartQueues \/ StartDevice
    \/ SignalHandler \/ JoinQueues
    \/ \E c \in Cores : AllocateBatch(c)
    \/ \E q \in Queues : \/ StartQueue(q) \/ ExitQueue(q) \/ CompleteIO(q)
                         \/ \E c \in Cores : ConsumerAcquire(q, c)
    \/ \E t \in Tags : \/ \E o \in Ops : HandleIOAsync(t, o)
                       \/ \E c \in Cores : \/ CallDisk(t, c)
                                           \/ PushResult(t, c) \/ PushUnknown(t, c)
    \/ \E r \in Requests :
           \/ ProcessCompletion(r)
           \/ \E tid \in Tids(op[r], Sectors[r]), e \in ErrorCodes \cup {0} :
                  ProcessRequest(r, tid, e)
    \/ DiskStep /\ UNCHANGED devVars
    \/ main = "exited" /\ StopBegin /\ UNCHANGED devVars

DevSpec == DevInit /\ [][DevNext]_allVars

(* A step of the caller of r or of a thread that processes r. *)
RequestStep(r) ==
    \/ Park(r) /\ UNCHANGED devVars
    \/ ProcessCompletion(r)
    \/ \E tid \in Tids(op[r], Sectors[r]), e \in ErrorCodes \cup {0} :
           ProcessRequest(r, tid, e)
    \/ /\ r \in Tags
       /\ \E c \in Cores : CallDisk(r, c) \/ PushResult(r, c) \/ PushUnknown(r, c)

(***************************************************************************)
(* Runnable threads run: the workers, the threads of requests and of tags, *)
(* and the threads of queues, which go round the cores.  Processing a      *)
(* sector takes finite time.  Nothing obliges the kernel to send a request *)
(* or anyone to stop the device.                                           *)
(***************************************************************************)
DevFairness ==
    /\ \A r \in Requests : WF_allVars(RequestStep(r))
    /\ \A c \in Cores : WF_allVars(WorkerStep(c) /\ UNCHANGED devVars)
    /\ \A q \in Queues : /\ WF_allVars(CompleteIO(q))
                         /\ \A c \in Cores : SF_allVars(ConsumerAcquire(q, c))
    /\ WF_allVars(StopNext /\ UNCHANGED devVars)

DevFairSpec == DevSpec /\ DevFairness

-----------------------------------------------------------------------------

(* Types of the agent's and the dispatcher's state. *)
DevTypeOK ==
    /\ main \in MainStates /\ held \subseteq {"ctrl_dev", "added", "dev"}
    /\ batches \in 0..NumBatches /\ stopped \in BOOLEAN
    /\ queue \in [Queues -> QueueThreads] /\ tag \in [Tags -> TagStates]
    /\ op \in [Requests -> Ops \cup {"allocate"}]
    /\ active \in [Cores -> [Queues -> Seq(Completion)]]
    /\ inactive \in [Queues -> Seq(Completion)]

(* The positions of the completions of tag t in a sequence of them. *)
Completions(t, s) == {k \in 1..Len(s) : s[k].tag = t}

(* The completions of tag t on the way to hardware queue q: the core, or 0 *)
(* for what the queue's thread has swapped out, and the position.          *)
Answers(t, q) ==
    ({0} \X Completions(t, inactive[q]))
        \cup UNION {{c} \X Completions(t, active[c][q]) : c \in Cores}

(***************************************************************************)
(* A request of the kernel is answered exactly once, by the thread of its  *)
(* own queue: while its outcome is on the way there is one entry for it in *)
(* the completion queues of that hardware queue, over all cores, and none  *)
(* before or after (SubmitRequest, CompletionQueue).                       *)
(***************************************************************************)
TagAnsweredOnce ==
    /\ DevTypeOK
    /\ \A t \in Tags, q \in Queues :
          Cardinality(Answers(t, q))
            = IF tag[t] = "pushed" /\ q = QueueOf[t] THEN 1 ELSE 0

(***************************************************************************)
(* When a request is called back, every sector of it has been processed,   *)
(* each once, whatever the division leaves, also for a request of no       *)
(* sectors (the split in ProcessShardedRequests).                          *)
(***************************************************************************)
EverySectorOnce ==
    \A r \in completed : \A s \in 0..(Sectors[r] - 1) : io[r].times[s] = 1

(***************************************************************************)
(* The result a callback gets counts every sector's bytes when all         *)
(* succeeded, and is one of their errors when some failed, however the     *)
(* threads' updates of the two atomics interleave.                         *)
(***************************************************************************)
ResultExact ==
    \A r \in completed :
        IF io[r].codes \subseteq {0}
        THEN ShardedResult(io[r]) = [status |-> "kOk",
                                     res |-> Sectors[r] * Length(op[r])]
        ELSE /\ ShardedResult(io[r]).status = "kFailed"
             /\ ShardedResult(io[r]).res \in io[r].codes \ {0}

(* Whatever start-up step failed, the agent has given back all it held of  *)
(* ublk when it ends, as its three flags tell the destructor.              *)
UblkReleased == main = "exited" => held = {}

(* The callback of t came before its caller had armed the waker. *)
WakeLost(t) == t \in completed /\ caller[t] = "parked"

(***************************************************************************)
(* Every request of the kernel is answered, unless the wakeup of the       *)
(* thread that called the disk was lost or the queue's thread has ended:   *)
(* no request is stuck in a work queue, in a completion queue of a core    *)
(* its thread has left, or behind another tag.                             *)
(***************************************************************************)
IOEnds ==
    \A t \in Tags :
        tag[t] = "spawned" ~>
            \/ tag[t] = "free" \/ WakeLost(t) \/ queue[QueueOf[t]] = "exited"

=============================================================================
