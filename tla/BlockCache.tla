----------------------------- MODULE BlockCache -----------------------------
(***************************************************************************)
(* Where the data path gets its fresh blocks from: for one disk server,    *)
(* the CoreLocalCache of every volume and the controller's BlockAllocator  *)
(* behind them.                                                            *)
(*                                                                         *)
(* A cache has a stack per core, used without a lock by whatever thread    *)
(* runs on that core with preemption disabled, and a global stack under a  *)
(* spin lock.  A thread that finds its core's stack empty refills it from  *)
(* the global stack; if that is empty too it calls the controller, which   *)
(* hands out the next addresses of the server to whichever volume asks.    *)
(* Between these steps the thread may be preempted and move to another     *)
(* core, and other threads may take what it brought.                       *)
(*                                                                         *)
(* Each section with preemption disabled is one action; the core it runs   *)
(* on is arbitrary.  A call to the controller is three: the request, the   *)
(* controller's handler and the reply.  Handlers of several calls run      *)
(* concurrently and have one atomic step, the fetch_add of the counter.    *)
(***************************************************************************)
EXTENDS Naturals, Sequences, FiniteSets, Functions, Messages

CONSTANTS
    Threads,            \* threads that get and put blocks
    NumVolumes,         \* volumes that use the server
    VolumeOf,           \* VolumeOf[t]: the volume thread t works for
    Cores,
    PerCoreCapacity,    \* per_core_capacity_
    AllocationBatch,    \* kAllocationBatch
    MaxGets             \* bound: blocks a thread takes

Volumes == 1..NumVolumes

ASSUME BlockCacheAssumption ==
    /\ NumVolumes \in Nat \ {0}
    /\ VolumeOf \in [Threads -> Volumes]
    /\ IsFiniteSet(Cores)
    /\ PerCoreCapacity \in Nat \ {0}
    /\ AllocationBatch \in Nat \ {0}
    /\ MaxGets \in Nat

VARIABLES
    next_allocation,    \* the controller's counter for the server
    locals,             \* locals[v][c]: the stack of core c, top last
    global,             \* global[v]: the global stack
    pc,                 \* pc[t]: where in get() thread t is
    link,               \* link[t]: the message of t's call to the controller
    items,              \* items[t]: what reserve() has got so far
    held,               \* held[t]: the blocks t took and did not put back
    gets,               \* gets[t]: how many t has taken
    live,               \* volumes whose cache has not been destroyed
    deleted             \* the blocks that destroyed caches have deleted

vars == <<next_allocation, locals, global, pc, link, items, held, gets, live,
          deleted>>
cacheVars == <<live, deleted>>

(* The addresses the controller has handed out. *)
Blocks == 0..(next_allocation - 1)

(***************************************************************************)
(* reserve(n) calls the controller until it has n blocks: so many calls,   *)
(* so many blocks.                                                         *)
(***************************************************************************)
Calls(n) == (n + AllocationBatch - 1) \div AllocationBatch
Reserved(n) == Calls(n) * AllocationBatch

(* n addresses from first on. *)
Addresses(first, n) == [i \in 1..n |-> first + i - 1]

(* The stacks hold addresses that have been handed out (CoreLocalCache,    *)
(* BlockAllocator).                                                        *)
TypeOK ==
    /\ next_allocation \in Nat
    /\ locals \in [Volumes -> [Cores -> Seq(Blocks)]]
    /\ \A v \in Volumes, c \in Cores : Len(locals[v][c]) <= PerCoreCapacity
    /\ global \in [Volumes -> Seq(Blocks)]
    /\ pc \in [Threads -> {"idle", "slow", "reserve", "call"}]
    /\ \A t \in Threads :
          \/ link[t] \in {NoMsg, AllocateBlocksMsg(VolumeOf[t])}
          \/ \E first \in Blocks :
                link[t] = AllocateBlocksReplyMsg(Addresses(first, AllocationBatch))
    /\ items \in [Threads -> Seq(Blocks)]
    /\ held \in [Threads -> Seq(Blocks)]
    /\ gets \in [Threads -> 0..MaxGets]
    /\ live \subseteq Volumes /\ deleted \subseteq Blocks

(* Every volume has been constructed: reserve() for all cores is over. *)
Init ==
    LET n == Reserved(Cardinality(Cores) * PerCoreCapacity)
    IN  /\ next_allocation = NumVolumes * n
        /\ global = [v \in Volumes |-> Addresses((v - 1) * n, n)]
        /\ locals = [v \in Volumes |-> [c \in Cores |-> <<>>]]
        /\ pc = [t \in Threads |-> "idle"]
        /\ link = [t \in Threads |-> NoMsg]
        /\ items = [t \in Threads |-> <<>>]
        /\ held = [t \in Threads |-> <<>>]
        /\ gets = [t \in Threads |-> 0]
        /\ live = Volumes /\ deleted = {}

-----------------------------------------------------------------------------

(* The stacks: the top is the last element. *)
Top(stack) == stack[Len(stack)]
Pop(stack) == SubSeq(stack, 1, Len(stack) - 1)

(* A loop that pops one stack until it has keep blocks left and pushes     *)
(* what it pops on another one.                                            *)
Behind(to, from, keep) ==
    to \o [i \in 1..(Len(from) - keep) |-> from[Len(from) + 1 - i]]

(* Thread t takes block b. *)
Take(t, b) ==
    /\ held' = [held EXCEPT ![t] = Append(@, b)]
    /\ gets' = [gets EXCEPT ![t] = @ + 1]

(* get() on core c, with something on the core's stack. *)
Get(t, c) ==
    LET stack == locals[VolumeOf[t]][c]
    IN  /\ pc[t] = "idle" /\ gets[t] < MaxGets /\ VolumeOf[t] \in live
        /\ stack # <<>>
        /\ Take(t, Top(stack))
        /\ locals' = [locals EXCEPT ![VolumeOf[t]][c] = Pop(stack)]
        /\ UNCHANGED <<next_allocation, global, pc, link, items, cacheVars>>

(* get() finds the core's stack empty. *)
GetMiss(t, c) ==
    /\ pc[t] = "idle" /\ gets[t] < MaxGets /\ VolumeOf[t] \in live
    /\ locals[VolumeOf[t]][c] = <<>>
    /\ pc' = [pc EXCEPT ![t] = "slow"]
    /\ UNCHANGED <<next_allocation, locals, global, link, items, held, gets, cacheVars>>

(* How many blocks are moved to a core's stack that has n. *)
Room(n, available) ==
    IF n >= PerCoreCapacity THEN 0
    ELSE IF available < PerCoreCapacity - n THEN available
    ELSE PerCoreCapacity - n

(***************************************************************************)
(* get_slow_path: refill the stack of the core the thread is on now, and   *)
(* take a block from it; reserve more if it is still empty.                *)
(***************************************************************************)
GetSlowPath(t, c) ==
    LET v == VolumeOf[t]
        n == Room(Len(locals[v][c]), Len(global[v]))
        keep == Len(global[v]) - n
        stack == Behind(locals[v][c], global[v], keep)
    IN  /\ pc[t] = "slow"
        /\ global' = [global EXCEPT ![v] = SubSeq(@, 1, keep)]
        /\ IF stack # <<>>
           THEN /\ Take(t, Top(stack))
                /\ locals' = [locals EXCEPT ![v][c] = Pop(stack)]
                /\ pc' = [pc EXCEPT ![t] = "idle"]
           ELSE /\ pc' = [pc EXCEPT ![t] = "reserve"]
                /\ UNCHANGED <<locals, held, gets>>
        /\ UNCHANGED <<next_allocation, link, items, cacheVars>>

(* reserve() needs more: AllocateBlocks sends the controller a request. *)
AllocateBlocks(t) ==
    /\ pc[t] = "reserve" /\ Len(items[t]) < PerCoreCapacity
    /\ pc' = [pc EXCEPT ![t] = "call"]
    /\ link' = [link EXCEPT ![t] = AllocateBlocksMsg(VolumeOf[t])]
    /\ UNCHANGED <<next_allocation, locals, global, items, held, gets, cacheVars>>

(* Mutant of ControllerAllocates: the counter of the server stays. *)
ControllerAllocatesSame(n) ==
    [next |-> next_allocation, blks |-> Addresses(next_allocation, n)]

(* BlockAllocator::AllocateBlocks: the counter goes up by n, whatever the  *)
(* size of the server, and the n addresses from its old value are new.     *)
ControllerAllocates(n) ==
    [next |-> next_allocation + n, blks |-> Addresses(next_allocation, n)]

(* ControllerAgent::AllocateBlocks: as many blocks as a reply has room for. *)
AgentAllocates == ControllerAllocates(AllocationBatch)

(* The controller's handler of the request of t: a batch for the reply.    *)
HandleAllocateBlocks(t) ==
    /\ link[t].type = "kAllocateBlocks"
    /\ next_allocation' = AgentAllocates.next
    /\ link' = [link EXCEPT ![t] = AllocateBlocksReplyMsg(AgentAllocates.blks)]
    /\ UNCHANGED <<locals, global, pc, items, held, gets, cacheVars>>

(* reserve() has the reply. *)
HandleAllocateBlocksReply(t) ==
    /\ link[t].type = "kAllocateBlocksReply"
    /\ items' = [items EXCEPT ![t] = @ \o link[t].server_blks]
    /\ link' = [link EXCEPT ![t] = NoMsg]
    /\ pc' = [pc EXCEPT ![t] = "reserve"]
    /\ UNCHANGED <<next_allocation, locals, global, held, gets, cacheVars>>

(* Mutant of Reserve: the blocks stay in the thread's vector. *)
ReserveForgets(t) ==
    /\ pc[t] = "reserve" /\ Len(items[t]) >= PerCoreCapacity
    /\ pc' = [pc EXCEPT ![t] = "slow"]
    /\ UNCHANGED <<next_allocation, locals, global, link, items, held, gets, cacheVars>>

(* reserve() pushes the blocks on the global stack, and get() tries again. *)
Reserve(t) ==
    /\ pc[t] = "reserve" /\ Len(items[t]) >= PerCoreCapacity
    /\ global' = [global EXCEPT ![VolumeOf[t]] = @ \o items[t]]
    /\ items' = [items EXCEPT ![t] = <<>>]
    /\ pc' = [pc EXCEPT ![t] = "slow"]
    /\ UNCHANGED <<next_allocation, locals, link, held, gets, cacheVars>>

(* What put_slow_path leaves on a stack of n blocks. *)
Kept(n) ==
    LET half == PerCoreCapacity \div 2
    IN  IF n <= PerCoreCapacity THEN n ELSE IF half > 1 THEN half ELSE 1

(***************************************************************************)
(* put() of the block t took last, on core c, with put_slow_path.  The     *)
(* data path never puts a block back; the load generator's request         *)
(* contexts, kept in the same caches, are.                                 *)
(***************************************************************************)
Put(t, c) ==
    LET v == VolumeOf[t]
        stack == Append(locals[v][c], Top(held[t]))
        keep == Kept(Len(stack))
    IN  /\ pc[t] = "idle" /\ held[t] # <<>> /\ v \in live
        /\ held' = [held EXCEPT ![t] = Pop(@)]
        /\ locals' = [locals EXCEPT ![v][c] = SubSeq(stack, 1, keep)]
        /\ global' = [global EXCEPT ![v] = Behind(@, stack, keep)]
        /\ UNCHANGED <<next_allocation, pc, link, items, gets, cacheVars>>

(* The cache is destroyed when no thread is inside it: what is on its      *)
(* stacks is deleted, and no volume gets those addresses again.            *)
Destroy(v) ==
    /\ v \in live /\ \A t \in Threads : VolumeOf[t] = v => pc[t] = "idle"
    /\ deleted' = deleted \cup Range(global[v]) \cup UNION {Range(locals[v][c]) : c \in Cores}
    /\ locals' = [locals EXCEPT ![v] = [c \in Cores |-> <<>>]]
    /\ global' = [global EXCEPT ![v] = <<>>]
    /\ live' = live \ {v}
    /\ UNCHANGED <<next_allocation, pc, link, items, held, gets>>

Next ==
    \/ \E t \in Threads, c \in Cores :
           Get(t, c) \/ GetMiss(t, c) \/ GetSlowPath(t, c) \/ Put(t, c)
    \/ \E t \in Threads :
           \/ AllocateBlocks(t) \/ HandleAllocateBlocks(t)
           \/ HandleAllocateBlocksReply(t) \/ Reserve(t)
    \/ \E v \in Volumes : Destroy(v)

Spec == Init /\ [][Next]_vars

(* A thread that is inside get() keeps running, on some core, and a call   *)
(* of the controller is handled and returns.                               *)
Fairness ==
    \A t \in Threads :
        WF_vars(\/ \E c \in Cores : GetSlowPath(t, c)
                \/ AllocateBlocks(t) \/ HandleAllocateBlocks(t)
                \/ HandleAllocateBlocksReply(t) \/ Reserve(t))

FairSpec == Spec /\ Fairness

-----------------------------------------------------------------------------

Places ==
    {<<"local", v, c>> : v \in Volumes, c \in Cores}
      \cup {<<"global", v, 0>> : v \in Volumes}
      \cup {<<p, t, 0>> : p \in {"link", "items", "held"}, t \in Threads}

Content(p) ==
    CASE p[1] = "local" -> locals[p[2]][p[3]]
      [] p[1] = "global" -> global[p[2]]
      [] p[1] = "link" -> IF link[p[2]].type = "kAllocateBlocksReply"
                          THEN link[p[2]].server_blks ELSE <<>>
      [] p[1] = "items" -> items[p[2]]
      [] p[1] = "held" -> held[p[2]]

(***************************************************************************)
(* Every address the controller has handed out is in exactly one place: on *)
(* one stack of one volume, on its way there, with the one thread that     *)
(* took it, or deleted with its cache.  So no block is given to two        *)
(* writes, of one volume or of two, and none is lost before the cache is   *)
(* (get, put, reserve, ~CoreLocalCache, BlockAllocator::AllocateBlocks).   *)
(***************************************************************************)
EachBlockOnce ==
    /\ TypeOK
    /\ deleted \cup UNION {Range(Content(p)) : p \in Places} = Blocks
    /\ \A p, q \in Places :
          \A i \in 1..Len(Content(p)), j \in 1..Len(Content(q)) :
              Content(p)[i] = Content(q)[j] => p = q /\ i = j
    /\ \A p \in Places : Range(Content(p)) \cap deleted = {}

(***************************************************************************)
(* get() returns, although another thread may take all the blocks a thread *)
(* has just reserved (the goto of get_slow_path).                          *)
(***************************************************************************)
GetReturns == \A t \in Threads : pc[t] # "idle" ~> pc[t] = "idle"

=============================================================================
