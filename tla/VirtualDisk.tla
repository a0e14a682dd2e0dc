----------------------------- MODULE VirtualDisk -----------------------------
(***************************************************************************)
(* The data path of the remote virtual disk: VirtualDiskRemote together    *)
(* with its BlockResolver and the blocks of the disk servers it writes to. *)
(*                                                                         *)
(* Sandook is log structured.  A write never overwrites in place: it takes *)
(* one fresh block on each of kNumReplicas servers, publishes the pair as  *)
(* the sector's mapping, and only then sends the data, one thread per      *)
(* replica.  A server may refuse (it is in read mode, it is busy, its      *)
(* device failed); the first refused thread of the attempt runs the whole  *)
(* request again with new blocks while its sibling may still be writing.   *)
(* The superseded mapping goes to the discard list, which the garbage      *)
(* collector trims on the servers.                                         *)
(*                                                                         *)
(* A request here is one sector of a user request: ProcessShardedRequests  *)
(* hands ProcessRequest one sector at a time.  The data a write carries is *)
(* represented by the write's own identity, so that every two writes can   *)
(* be told apart.                                                          *)
(***************************************************************************)
EXTENDS Naturals, FiniteSets

CONSTANTS
    Writers, Readers, Allocators,
                        \* the single-sector requests that are submitted
    Sectors,            \* sectors of the volume
    Servers,            \* disk servers the volume is connected to
    kInvalidServerID,   \* the server id that names no server
    Affinity,           \* Config::kVirtualDiskServerAffinity
    WriteReplicas,      \* the lists of servers SelectWriteReplicas may return
    FailedServers,      \* servers whose device fails every operation
    MaxAttempts,        \* bound: attempts one write may need
    MaxRefusals,        \* bound: replica writes refused in a behaviour
    MaxBlocks,          \* bound: blocks the volume gets on one server
    GCEnabled,          \* kGarbageCollectionIntervalUs # 0
    Blank, Trimmed,     \* contents of a block never written, and trimmed
    ENOENT              \* result of reading a sector that has no mapping

ASSUME ConstantsAssumption ==
    /\ Sectors # {}
    /\ kInvalidServerID \notin Servers
    /\ Affinity \in Servers \cup {kInvalidServerID}
    /\ WriteReplicas \subseteq [1..2 -> Servers]
    /\ FailedServers \subseteq Servers
    /\ MaxAttempts \in Nat \ {0}
    /\ MaxRefusals \in Nat
    /\ MaxBlocks \in Nat
    /\ GCEnabled \in BOOLEAN
    /\ Blank \notin Writers \cup Readers \cup Allocators
    /\ Trimmed \notin Writers \cup Readers \cup Allocators
    /\ ENOENT \notin Writers \cup Readers \cup Allocators
    /\ Blank # Trimmed

Requests == Writers \cup Readers \cup Allocators
kNumReplicas == 2
Replicas == 1..kNumReplicas
Attempts == 1..MaxAttempts
Addrs == 0..MaxBlocks
Block == Servers \X Addrs
Content == Requests \cup {Blank, Trimmed}
NoBlock == <<kInvalidServerID, 0>>
Unmapped == [req |-> kInvalidServerID, att |-> 0]

VARIABLES
    op,          \* op[r]: what the request does
    sector,      \* sector[r]: the sector it does it to
    pc,          \* pc[r]: where the innermost ProcessRequest of r is
    att,         \* att[r]: number of ProcessRequest activations of a write
    blks,        \* blks[r][k]: the blocks GetBlocks returned to attempt k
    rep,         \* rep[r][k][i]: the thread writing replica i of attempt k
    snap,        \* snap[r]: the mapping a read has resolved
    cand,        \* cand[r]: the servers a read may still try
    result,      \* result[r]: what a read returned
    blkMap,      \* blk_map_: the attempt whose block list the sector points to
    discards,    \* discards[r][k]: entries of discard_list_ for that list
    gcWork,      \* blocks the running garbage collection still has to trim
    next,        \* next[s]: first address of server s not handed out yet
    disk,        \* contents of the blocks on the servers
    overlapped   \* history: the reads that ran concurrently with a write

vars == <<op, sector, pc, att, blks, rep, snap, cand, result, blkMap,
          discards, gcWork, next, disk, overlapped>>

reqVars == <<op, sector>>
readVars == <<snap, cand, result>>

OpTypes == {"none", "read", "write", "allocate"}
Mutators == {"write", "allocate"}
PCs == {"idle", "discard", "publish", "write", "retry",
        "resolve", "select", "done"}
RepStates == {"none", "sent", "ok", "retrying", "aborted"}
Mapping == [req : Requests, att : Attempts] \cup {Unmapped}

(* Types of the requests, the block map, the discard list and the servers' *)
(* blocks; an address handed out is below MaxBlocks (VirtualDiskRemote,    *)
(* BlockResolver).                                                         *)
TypeOK ==
    /\ op \in [Requests -> OpTypes]
    /\ sector \in [Requests -> Sectors]
    /\ pc \in [Requests -> PCs]
    /\ att \in [Requests -> 0..MaxAttempts]
    /\ blks \in [Requests -> [Attempts -> [Replicas -> Block \cup {NoBlock}]]]
    /\ rep \in [Requests -> [Attempts -> [Replicas -> RepStates]]]
    /\ snap \in [Requests -> Mapping]
    /\ cand \in [Requests -> SUBSET Servers]
    /\ result \in [Requests -> Content \cup {ENOENT}]
    /\ blkMap \in [Sectors -> Mapping]
    /\ discards \in [Requests -> [Attempts -> Nat]]
    /\ gcWork \in [Requests -> [Attempts -> [Replicas -> Nat]]]
    /\ next \in [Servers -> 0..MaxBlocks]
    /\ disk \in [Block -> Content]
    /\ overlapped \subseteq Requests

Init ==
    /\ op = [r \in Requests |-> "none"]
    /\ sector = [r \in Requests |-> CHOOSE s \in Sectors : TRUE]
    /\ pc = [r \in Requests |-> "idle"]
    /\ att = [r \in Requests |-> 0]
    /\ blks = [r \in Requests |-> [k \in Attempts |->
                  [i \in Replicas |-> NoBlock]]]
    /\ rep = [r \in Requests |-> [k \in Attempts |->
                  [i \in Replicas |-> "none"]]]
    /\ snap = [r \in Requests |-> Unmapped]
    /\ cand = [r \in Requests |-> {}]
    /\ result = [r \in Requests |-> Blank]
    /\ blkMap = [s \in Sectors |-> Unmapped]
    /\ discards = [r \in Requests |-> [k \in Attempts |-> 0]]
    /\ gcWork = [r \in Requests |-> [k \in Attempts |->
                  [i \in Replicas |-> 0]]]
    /\ next = [s \in Servers |-> 0]
    /\ disk = [b \in Block |-> Blank]
    /\ overlapped = {}

Active(r) == pc[r] \notin {"idle", "done"}
Writing(r, s) == op[r] \in Mutators /\ sector[r] = s /\ Active(r)
Reading(r, s) == op[r] = "read" /\ sector[r] = s /\ Active(r)
Quiescent(s) == \A r \in Requests : ~Writing(r, s)

-----------------------------------------------------------------------------
(* Block allocation *)

(***************************************************************************)
(* The servers GetBlocks takes blocks from: all replicas on the affinity   *)
(* server if there is one, otherwise SelectWriteReplicas' choice.          *)
(***************************************************************************)
ReplicaServers ==
    IF Affinity # kInvalidServerID
    THEN {[i \in Replicas |-> Affinity]}
    ELSE WriteReplicas

(* Mutant of FreshAddr: both replicas get the block the cache has on top. *)
SameAddr(f, i) == next[f[i]]

(* Address of the block replica i gets: one get() per replica, in order. *)
FreshAddr(f, i) ==
    next[f[i]] + (IF i = 2 /\ f[1] = f[2] THEN 1 ELSE 0)

(***************************************************************************)
(* GetBlocks for attempt k of request r: one block of each chosen server's *)
(* block cache.  That a cache never hands out a block twice is what        *)
(* CoreLocalCache and the controller's BlockAllocator provide.             *)
(***************************************************************************)
GetBlocks(r, k) ==
    \E f \in ReplicaServers :
        /\ \A i \in Replicas : FreshAddr(f, i) < MaxBlocks
        /\ blks' = [blks EXCEPT ![r][k] =
                        [i \in Replicas |-> <<f[i], FreshAddr(f, i)>>]]
        /\ next' = [s \in Servers |->
                        next[s] + (IF f[1] = s THEN 1 ELSE 0)
                                + (IF f[2] = s THEN 1 ELSE 0)]

-----------------------------------------------------------------------------
(* Writes and allocations *)

(* ProcessRequest of a write or an allocation starts: GetBlocks. *)
StartMutation(r, s, o) ==
    /\ pc[r] = "idle"
    /\ op' = [op EXCEPT ![r] = o]
    /\ sector' = [sector EXCEPT ![r] = s]
    /\ pc' = [pc EXCEPT ![r] = "discard"]
    /\ att' = [att EXCEPT ![r] = 1]
    /\ GetBlocks(r, 1)
    /\ overlapped' = overlapped \cup {x \in Requests : Reading(x, s)}
    /\ UNCHANGED <<rep, snap, cand, result, blkMap, discards, gcWork, disk>>

StartWrite(r, s) == StartMutation(r, s, "write")
StartAllocate(r, s) == StartMutation(r, s, "allocate")

(* The first half of AddMapping: load the mapping, mark it for trimming. *)
DiscardExistingBlocks(r) ==
    LET m == blkMap[sector[r]]
    IN  /\ pc[r] = "discard"
        /\ pc' = [pc EXCEPT ![r] = "publish"]
        /\ discards' = IF m # Unmapped /\ op[m.req] = "write"
                       THEN [discards EXCEPT ![m.req][m.att] = @ + 1]
                       ELSE discards
        /\ UNCHANGED <<reqVars, att, blks, rep, readVars, blkMap, gcWork,
                       next, disk, overlapped>>

(* Mutant of AddMapping: discards the mapping found after the store. *)
AddThenDiscard(r) ==
    /\ pc[r] = "publish"
    /\ blkMap' = [blkMap EXCEPT ![sector[r]] =
                      [req |-> r, att |-> att[r]]]
    /\ discards' = [discards EXCEPT ![r][att[r]] = @ + 1]
    /\ \/ /\ op[r] = "write"
          /\ pc' = [pc EXCEPT ![r] = "write"]
          /\ rep' = [rep EXCEPT ![r][att[r]] = [i \in Replicas |-> "sent"]]
       \/ /\ op[r] = "allocate"
          /\ pc' = [pc EXCEPT ![r] = "done"]
          /\ UNCHANGED rep
    /\ UNCHANGED <<reqVars, att, blks, readVars, gcWork, next, disk,
                   overlapped>>

(***************************************************************************)
(* The second half of AddMapping: store the new mapping.  A write then     *)
(* starts one thread per replica, an allocation is finished.               *)
(***************************************************************************)
AddMapping(r) ==
    /\ pc[r] = "publish"
    /\ blkMap' = [blkMap EXCEPT ![sector[r]] =
                      [req |-> r, att |-> att[r]]]
    /\ \/ /\ op[r] = "write"
          /\ pc' = [pc EXCEPT ![r] = "write"]
          /\ rep' = [rep EXCEPT ![r][att[r]] = [i \in Replicas |-> "sent"]]
       \/ /\ op[r] = "allocate"
          /\ pc' = [pc EXCEPT ![r] = "done"]
          /\ UNCHANGED rep
    /\ UNCHANGED <<reqVars, att, blks, readVars, discards, gcWork, next, disk,
                   overlapped>>

(* The bounds on refusals: a write is retried only so often in the model. *)
MayRefuse(k) ==
    /\ k < MaxAttempts
    /\ MaxRefusals > Cardinality({t \in Requests \X Attempts \X Replicas :
                         rep[t[1]][t[2]][t[3]] \in {"retrying", "aborted"}})

(* Mutant of HandleRefusal: is_retrying is already set, nobody retries. *)
DropRefusal(r, k, i) ==
    /\ rep' = [rep EXCEPT ![r][k][i] = "aborted"]
    /\ UNCHANGED pc

(***************************************************************************)
(* The reply of replica i says the write was not done.  is_retrying lets   *)
(* only the first such thread of an attempt run the request again.         *)
(***************************************************************************)
HandleRefusal(r, k, i) ==
    IF \E j \in Replicas : rep[r][k][j] = "retrying"
    THEN /\ rep' = [rep EXCEPT ![r][k][i] = "aborted"]
         /\ UNCHANGED pc
    ELSE /\ rep' = [rep EXCEPT ![r][k][i] = "retrying"]
         /\ pc' = [pc EXCEPT ![r] = "retry"]

(* The server is in read mode: kRejectModeMismatch, before the device. *)
RejectWrite(r, k, i) ==
    /\ rep[r][k][i] = "sent"
    /\ Affinity = kInvalidServerID
    /\ MayRefuse(k)
    /\ HandleRefusal(r, k, i)
    /\ UNCHANGED <<reqVars, att, blks, readVars, blkMap, discards, gcWork,
                   next, disk, overlapped>>

(* The device has the data: kSuccess or kSuccessCongested. *)
CompleteWrite(r, k, i) ==
    /\ rep[r][k][i] = "sent"
    /\ blks[r][k][i][1] \notin FailedServers
    /\ rep' = [rep EXCEPT ![r][k][i] = "ok"]
    /\ disk' = [disk EXCEPT ![blks[r][k][i]] = r]
    /\ UNCHANGED <<reqVars, pc, att, blks, readVars, blkMap, discards, gcWork,
                   next, overlapped>>

(* The device fails; the block may or may not have been written. *)
FailWrite(r, k, i) ==
    /\ rep[r][k][i] = "sent"
    /\ MayRefuse(k)
    /\ HandleRefusal(r, k, i)
    /\ \/ disk' = [disk EXCEPT ![blks[r][k][i]] = r]
       \/ UNCHANGED disk
    /\ UNCHANGED <<reqVars, att, blks, readVars, blkMap, discards, gcWork,
                   next, overlapped>>

(* Mutant of RetryWrite: the retry keeps the blocks of the refused attempt. *)
RetrySameBlocks(r) ==
    /\ pc[r] = "retry"
    /\ pc' = [pc EXCEPT ![r] = "discard"]
    /\ att' = [att EXCEPT ![r] = @ + 1]
    /\ blks' = [blks EXCEPT ![r][att[r] + 1] = blks[r][att[r]]]
    /\ UNCHANGED <<reqVars, rep, readVars, blkMap, discards, gcWork, next, disk,
                   overlapped>>

(* The refused thread calls ProcessRequest again: GetBlocks of the retry. *)
RetryWrite(r) ==
    /\ pc[r] = "retry"
    /\ pc' = [pc EXCEPT ![r] = "discard"]
    /\ att' = [att EXCEPT ![r] = @ + 1]
    /\ GetBlocks(r, att[r] + 1)
    /\ UNCHANGED <<reqVars, rep, readVars, blkMap, discards, gcWork, disk,
                   overlapped>>

(* Mutant of JoinWrite: joins the thread of the first replica only. *)
JoinFirst(r) ==
    /\ pc[r] = "write"
    /\ \A k \in 1..att[r] : rep[r][k][1] # "sent"
    /\ pc' = [pc EXCEPT ![r] = "done"]
    /\ UNCHANGED <<reqVars, att, blks, rep, readVars, blkMap, discards, gcWork,
                   next, disk, overlapped>>

(* Mutant of JoinWrite: waits until every thread has written its replica. *)
JoinWritten(r) ==
    /\ pc[r] = "write"
    /\ \A k \in 1..att[r], i \in Replicas : rep[r][k][i] = "ok"
    /\ pc' = [pc EXCEPT ![r] = "done"]
    /\ UNCHANGED <<reqVars, att, blks, rep, readVars, blkMap, discards, gcWork,
                   next, disk, overlapped>>

(***************************************************************************)
(* Every attempt joins its threads, the innermost first, and the request   *)
(* returns.                                                                *)
(***************************************************************************)
JoinWrite(r) ==
    /\ pc[r] = "write"
    /\ \A k \in 1..att[r], i \in Replicas :
           rep[r][k][i] # "sent"
    /\ pc' = [pc EXCEPT ![r] = "done"]
    /\ UNCHANGED <<reqVars, att, blks, rep, readVars, blkMap, discards, gcWork,
                   next, disk, overlapped>>

-----------------------------------------------------------------------------
(* Reads *)

StartRead(r, s) ==
    /\ pc[r] = "idle"
    /\ op' = [op EXCEPT ![r] = "read"]
    /\ sector' = [sector EXCEPT ![r] = s]
    /\ pc' = [pc EXCEPT ![r] = "resolve"]
    /\ overlapped' = IF Quiescent(s) THEN overlapped ELSE overlapped \cup {r}
    /\ UNCHANGED <<att, blks, rep, readVars, blkMap, discards, gcWork, next,
                   disk>>

ServersOf(m) == {blks[m.req][m.att][i][1] : i \in Replicas}

(* The block of list m on server s: the first entry that names s. *)
BlockOn(m, s) ==
    LET bs == blks[m.req][m.att]
    IN  IF bs[1][1] = s THEN bs[1] ELSE bs[2]

(* ResolveBlock, and ProcessReadOp's set of servers. *)
ResolveBlock(r) ==
    LET m == blkMap[sector[r]]
    IN  /\ pc[r] = "resolve"
        /\ \/ /\ m = Unmapped
              /\ pc' = [pc EXCEPT ![r] = "done"]
              /\ result' = [result EXCEPT ![r] = ENOENT]
              /\ UNCHANGED <<snap, cand>>
           \/ /\ m # Unmapped
              /\ pc' = [pc EXCEPT ![r] = "select"]
              /\ snap' = [snap EXCEPT ![r] = m]
              /\ cand' = [cand EXCEPT ![r] = ServersOf(m)]
              /\ UNCHANGED result
        /\ UNCHANGED <<reqVars, att, blks, rep, blkMap, discards, gcWork, next,
                       disk, overlapped>>

(* A server is selected and answers with the block's contents. *)
ReadFrom(r, s) ==
    /\ pc[r] = "select"
    /\ s \in cand[r] \ FailedServers
    /\ pc' = [pc EXCEPT ![r] = "done"]
    /\ result' = [result EXCEPT ![r] = disk[BlockOn(snap[r], s)]]
    /\ UNCHANGED <<reqVars, att, blks, rep, snap, cand, blkMap, discards,
                   gcWork, next, disk, overlapped>>

(***************************************************************************)
(* The selected server refuses or fails: it is not tried again in this     *)
(* round.  When no server is left the next round starts over, on the same  *)
(* resolved list.                                                          *)
(***************************************************************************)
ReadRefused(r, s) ==
    /\ pc[r] = "select"
    /\ s \in cand[r]
    /\ cand' = [cand EXCEPT ![r] = IF @ = {s} THEN ServersOf(snap[r])
                                             ELSE @ \ {s}]
    /\ UNCHANGED <<reqVars, pc, att, blks, rep, snap, result, blkMap, discards,
                   gcWork, next, disk, overlapped>>

(* SelectReadServer finds no valid server: ProcessRequest from the start. *)
NoReadServer(r) ==
    /\ pc[r] = "select"
    /\ pc' = [pc EXCEPT ![r] = "resolve"]
    /\ UNCHANGED <<reqVars, att, blks, rep, readVars, blkMap, discards, gcWork,
                   next, disk, overlapped>>

-----------------------------------------------------------------------------
(* Garbage collection *)

(* A cycle starts: GetAndResetDiscardedBlocks, one trim per replica. *)
RunGarbageCollector ==
    /\ GCEnabled
    /\ \A r \in Requests, k \in Attempts, i \in Replicas : gcWork[r][k][i] = 0
    /\ \E r \in Requests, k \in Attempts : discards[r][k] > 0
    /\ gcWork' = [r \in Requests |-> [k \in Attempts |->
                      [i \in Replicas |-> discards[r][k]]]]
    /\ discards' = [r \in Requests |-> [k \in Attempts |-> 0]]
    /\ UNCHANGED <<reqVars, pc, att, blks, rep, readVars, blkMap, next, disk,
                   overlapped>>

(* A server trims one block of a kDiscardBlocks message. *)
HandleDiscardBlocks(r, k, i) ==
    /\ gcWork[r][k][i] > 0
    /\ gcWork' = [gcWork EXCEPT ![r][k][i] = @ - 1]
    /\ disk' = [disk EXCEPT ![blks[r][k][i]] = Trimmed]
    /\ UNCHANGED <<reqVars, pc, att, blks, rep, readVars, blkMap, discards,
                   next, overlapped>>

-----------------------------------------------------------------------------

WriteStep(r) ==
    \/ DiscardExistingBlocks(r)
    \/ AddMapping(r)
    \/ RetryWrite(r)
    \/ JoinWrite(r)

ReplicaStep(r, k, i) ==
    \/ RejectWrite(r, k, i)
    \/ CompleteWrite(r, k, i)
    \/ FailWrite(r, k, i)

ReadStep(r) ==
    \/ ResolveBlock(r)
    \/ NoReadServer(r)
    \/ \E s \in Servers : ReadFrom(r, s) \/ ReadRefused(r, s)

Next ==
    \/ \E r \in Writers, s \in Sectors : StartWrite(r, s)
    \/ \E r \in Allocators, s \in Sectors : StartAllocate(r, s)
    \/ \E r \in Readers, s \in Sectors : StartRead(r, s)
    \/ \E r \in Requests : WriteStep(r) \/ ReadStep(r)
    \/ \E r \in Requests, k \in Attempts, i \in Replicas :
           ReplicaStep(r, k, i) \/ HandleDiscardBlocks(r, k, i)
    \/ RunGarbageCollector

Spec == Init /\ [][Next]_vars

(***************************************************************************)
(* Fairness.  Threads of the runtime are never starved and a server that   *)
(* received a write answers it (weak fairness).  A server that is asked    *)
(* again and again by a read, and whose device works, serves it sooner or  *)
(* later (strong fairness): nothing weaker lets an unbounded retry loop    *)
(* end.  Nothing is assumed of the arrival of requests, of refusals, of    *)
(* the scheduler's view or of the garbage collector.                       *)
(***************************************************************************)
Fairness ==
    /\ \A r \in Requests : WF_vars(WriteStep(r)) /\ WF_vars(ResolveBlock(r))
    /\ \A r \in Requests, s \in Servers : SF_vars(ReadFrom(r, s))
    /\ \A r \in Requests, s \in Servers : WF_vars(ReadRefused(r, s))
    /\ \A r \in Requests, k \in Attempts, i \in Replicas :
           WF_vars(ReplicaStep(r, k, i))

FairSpec == Spec /\ Fairness

-----------------------------------------------------------------------------
(* Correctness *)

(* The data a request leaves in the blocks of its mapping. *)
Data(r) == IF op[r] = "write" THEN r ELSE Blank

(***************************************************************************)
(* Durability.  When no write or allocation of a sector is in progress,    *)
(* every replica of the sector's mapping holds the data of the request     *)
(* that published it: no interleaving of retries, of late writes of        *)
(* abandoned attempts, of concurrent writers or of trims leaves a replica  *)
(* of a finished write without its data (ProcessWriteOp).                  *)
(***************************************************************************)
Durable ==
    \A s \in Sectors :
        LET m == blkMap[s]
        IN  Quiescent(s) /\ m # Unmapped =>
                \A i \in Replicas : disk[blks[m.req][m.att][i]] = Data(m.req)

(***************************************************************************)
(* A trim never hits live data: while no write or allocation of a sector   *)
(* is in progress its mapping is neither on the discard list nor among the *)
(* blocks being trimmed, although AddMapping puts a mapping on the list    *)
(* before it replaces it (DiscardExistingBlocks, RunGarbageCollector).     *)
(***************************************************************************)
LiveNotDiscarded ==
    \A s \in Sectors :
        LET m == blkMap[s]
        IN  Quiescent(s) /\ m # Unmapped =>
                /\ discards[m.req][m.att] = 0
                /\ \A i \in Replicas : gcWork[m.req][m.att][i] = 0

(***************************************************************************)
(* No block is shared: two block lists handed out by GetBlocks, to two     *)
(* requests or to two attempts of one, have no block in common, and the    *)
(* replicas of one list are two different blocks.                          *)
(***************************************************************************)
NoSharedBlock ==
    \A r1, r2 \in Requests : \A k1 \in 1..att[r1], k2 \in 1..att[r2] :
        \A i1, i2 \in Replicas :
            blks[r1][k1][i1] = blks[r2][k2][i2] =>
                r1 = r2 /\ k1 = k2 /\ i1 = i2

(***************************************************************************)
(* Every request that is started returns: no join waits for a thread that  *)
(* never ends and no retry is lost (ProcessWriteOp, ProcessReadOp).        *)
(***************************************************************************)
RequestsReturn == \A r \in Requests : Active(r) ~> pc[r] = "done"

(***************************************************************************)
(* What the comment in ProcessReadOp says of a read that was rejected: it  *)
(* resolves the block again, to a different server.  So once the sector    *)
(* stays mapped to servers that work, the read returns.                    *)
(***************************************************************************)
OnWorkingServers(s) ==
    blkMap[s] # Unmapped /\ ServersOf(blkMap[s]) \cap FailedServers = {}

RejectedReadsResolveAgain ==
    \A r \in Readers, s \in Sectors :
        <>[]OnWorkingServers(s) => (Reading(r, s) ~> pc[r] = "done")

(***************************************************************************)
(* What the volume promises its user, as a specification of its own: a     *)
(* sector is a register, and a read that overlaps no write of its sector   *)
(* returns the data of the write that took effect last.                    *)
(***************************************************************************)
Register(s) ==
    IF blkMap[s] = Unmapped THEN ENOENT ELSE Data(blkMap[s].req)

Status == [r \in Requests |-> IF Active(r) THEN "active" ELSE pc[r]]
Applied == {r \in Requests :
               \/ att[r] > 1
               \/ att[r] = 1 /\ pc[r] \in {"write", "retry", "done"}}

Store == INSTANCE SectorStore WITH
    status <- Status, applied <- Applied, reg <- [s \in Sectors |-> Register(s)]

(* The data path implements the register (all of VirtualDiskRemote). *)
ImplementsStore == Store!Spec

-----------------------------------------------------------------------------
(* Why it is correct: the inductive invariant *)

(* The mapping of attempt k of r has been stored (its AddMapping is over). *)
Published(r, k) ==
    \/ k < att[r]
    \/ k = att[r] /\ pc[r] \in {"write", "retry", "done"}

(* Where a request of each kind can be, and how many attempts it has made. *)
PcInv ==
    \A r \in Requests :
        /\ op[r] = "none" => pc[r] = "idle" /\ att[r] = 0
        /\ op[r] = "read" => pc[r] \in {"resolve", "select", "done"} /\ att[r] = 0
        /\ op[r] = "write" =>
               /\ pc[r] \in {"discard", "publish", "write", "retry", "done"}
               /\ att[r] >= 1
        /\ op[r] = "allocate" =>
               pc[r] \in {"discard", "publish", "done"} /\ att[r] = 1
        /\ pc[r] = "retry" => att[r] < MaxAttempts

(* Threads run for published attempts only; an attempt was given up if and *)
(* only if one of its threads has been refused and is running the retry.   *)
ThreadsOK(r, k) ==
    /\ \A i \in Replicas :
          /\ rep[r][k][i] # "none" <=> op[r] = "write" /\ Published(r, k)
          /\ pc[r] = "done" => rep[r][k][i] # "sent"
          /\ rep[r][k][i] \in {"retrying", "aborted"} =>
                 k < att[r] \/ pc[r] = "retry"
    /\ k < att[r] \/ (k = att[r] /\ pc[r] = "retry") =>
          \E j \in Replicas : rep[r][k][j] = "retrying"

RepInv == \A r \in Requests, k \in Attempts : ThreadsOK(r, k)

(* Every block of an attempt was handed out by its server, and once only. *)
BlockInv ==
    /\ \A r \in Requests, k \in Attempts : k <= att[r] =>
           \A i \in Replicas :
               /\ blks[r][k][i] \in Block
               /\ blks[r][k][i][2] < next[blks[r][k][i][1]]
    /\ NoSharedBlock

(* What is on the servers' blocks. *)
BlockOK(r, k, i) ==
    /\ rep[r][k][i] = "ok" => disk[blks[r][k][i]] \in {r, Trimmed}
    /\ op[r] = "allocate" => disk[blks[r][k][i]] = Blank

DiskInv ==
    /\ \A b \in Block : b[2] >= next[b[1]] => disk[b] = Blank
    /\ \A r \in Requests, k \in Attempts, i \in Replicas :
           k <= att[r] => BlockOK(r, k, i)

(* The list of attempt k of r is waiting to be trimmed, or is trimmed. *)
Doomed(r, k) ==
    \/ discards[r][k] > 0
    \/ \E i \in Replicas : gcWork[r][k][i] > 0
    \/ k <= att[r] /\ \E i \in Replicas : disk[blks[r][k][i]] = Trimmed

(* Only written lists are trimmed, and while one still is the mapping of   *)
(* its sector some request is about to replace it.                         *)
Replaced(r, k) ==
    /\ op[r] = "write" /\ Published(r, k)
    /\ blkMap[sector[r]] = [req |-> r, att |-> k] =>
           \E x \in Requests : Writing(x, sector[r]) /\ pc[x] = "publish"

DiscardInv ==
    \A r \in Requests, k \in Attempts : Doomed(r, k) => Replaced(r, k)

(* A mapping is the last one its request has published. *)
MapOK(m, s) ==
    /\ op[m.req] \in Mutators
    /\ sector[m.req] = s
    /\ Published(m.req, m.att)
    /\ m.att < att[m.req] =>
           m.att + 1 = att[m.req] /\ pc[m.req] \in {"discard", "publish"}

MapInv == \A s \in Sectors : blkMap[s] # Unmapped => MapOK(blkMap[s], s)

(* A read that overlaps no write has resolved the current mapping. *)
ReadOK(r) ==
    /\ op[r] = "read" /\ Active(r) /\ r \notin overlapped => Quiescent(sector[r])
    /\ pc[r] = "select" =>
          /\ snap[r] # Unmapped
          /\ snap[r].att <= att[snap[r].req]
          /\ cand[r] \subseteq ServersOf(snap[r])
          /\ r \notin overlapped => snap[r] = blkMap[sector[r]]

ReadInv == \A r \in Requests : ReadOK(r)

(***************************************************************************)
(* The inductive invariant: what every interleaving of ProcessWriteOp's    *)
(* threads, of AddMapping's two steps, of reads and of the collector       *)
(* keeps, and from which the properties above follow.                      *)
(***************************************************************************)
IInv ==
    /\ TypeOK
    /\ PcInv
    /\ RepInv
    /\ BlockInv
    /\ DiskInv
    /\ DiscardInv
    /\ MapInv
    /\ ReadInv

=============================================================================
