----------------------------- MODULE DiskServer -----------------------------
(***************************************************************************)
(* A disk server: handler threads take storage operations, reject writes   *)
(* in read mode, have the backend perform the others, and account for them *)
(* in the counters of DiskMonitor, from which a thread reports to the      *)
(* controller (the load thread reads counters of its own the same way).    *)
(*                                                                         *)
(* A ThreadSafeCounter is one number per core and a common delta.  A       *)
(* handler moves between cores, so it may count the start of an operation  *)
(* on one and its end on another.  A reader adds the cores up one by one   *)
(* while the handlers count on, and "resets" by moving the delta.  Reads   *)
(* and writes have counters of their own that work alike; here they share  *)
(* one per kind.  The latency samples are left to Congestion.              *)
(***************************************************************************)
EXTENDS Integers, FiniteSets, Functions, TLC, Messages

CONSTANTS
    Backends,   \* subset of {"blk", "mem", "spdk"}
    Threads,    \* handler threads
    NumCores,
    MaxOps,     \* bound: reads and writes handled
    MaxSwitches \* bound: changes of mode

ASSUME DiskServerAssumption ==
    /\ Backends \subseteq {"blk", "mem", "spdk"}
    /\ NumCores \in Nat \ {0} /\ MaxOps \in Nat /\ MaxSwitches \in Nat
    /\ IsFiniteSet(Threads)

Cores == 1..NumCores
Ops == {"kRead", "kWrite", "kDiscard", "kFlush", "kWriteZeroes"}
ServerMode == {"kMix", "kRead", "kWrite"}

(* The counters of DiskMonitor, and the ones UpdateStats reads. *)
Kinds == {"inflight", "completed", "failed", "rejected"}
Reported == {"inflight", "completed", "rejected"}

VARIABLES
    backend,    \* which server it is
    mode,       \* mode_
    grace,      \* IsModeSwitchGracePeriod()
    switches,   \* changes of mode so far
    thread,     \* thread[t]: a handler and how its operation ended
    handled,    \* reads and writes taken so far
    cnt, delta, \* cnt[k][c] and delta[k] of the counter of kind k
    reader,     \* the statistics thread in get_sum
    reported    \* reported[k]: the sum of all reports of kind k

dsVars ==
    <<backend, mode, grace, switches, thread, handled, cnt, delta, reader, reported>>
modeVars == <<mode, grace, switches>>
sumVars == <<delta, reader, reported>>

(* What an operation's client is told; nothing if it failed. *)
Codes == StorageOpReplyCode \cup {"none"}
ReplyMsg(code) == IF code = "none" THEN NoMsg ELSE StorageOpReplyMsg(code)

Idle == [pc |-> "idle", ok |-> TRUE, reply |-> NoMsg]
Sent(code) == [Idle EXCEPT !.pc = "sent", !.reply = ReplyMsg(code)]
NotReading == [core |-> 0, kind |-> "completed", sum |-> 0, before |-> 0]

DSInit ==
    /\ backend \in Backends
    /\ mode = "kMix" /\ grace = FALSE /\ switches = 0
    /\ thread = [t \in Threads |-> Idle] /\ handled = 0
    /\ cnt = [k \in Kinds |-> [c \in Cores |-> 0]]
    /\ delta = [k \in Kinds |-> 0]
    /\ reader = NotReading
    /\ reported = [k \in Kinds |-> 0]

-----------------------------------------------------------------------------

(* inc_local and dec_local on core c. *)
Inc(k, n, c) == cnt' = [cnt EXCEPT ![k][c] = @ + n]

(* DiskMonitor::IsAllowingWrites. *)
IsAllowingWrites == mode # "kRead" \/ grace

(* What each server performs; the rest ends with EINVAL. *)
Performs ==
    [blk |-> Ops, mem |-> {"kRead", "kWrite"},
     spdk |-> {"kRead", "kWrite", "kDiscard"}]

(* The operations that the servers bracket with the monitor's hooks. *)
Monitored == {"kRead", "kWrite"}

Requests == {StorageOpMsg(op, a) : op \in Ops, a \in {"none", "this"}}

(* A write without affinity meets a server that is in read mode. *)
Mismatch(msg) ==
    msg.affinity = "none" /\ msg.iod = "kWrite" /\ ~IsAllowingWrites

(* HandleMsg has a StorageOpMsg that RejectStorageOp counts and refuses. *)
RejectStorageOp(t, msg, c) ==
    /\ thread[t].pc = "idle" /\ handled < MaxOps
    /\ Mismatch(msg)
    /\ Inc("rejected", 1, c)
    /\ thread' = [thread EXCEPT ![t] = Sent("kRejectModeMismatch")]
    /\ handled' = handled + 1
    /\ UNCHANGED <<backend, modeVars, sumVars>>

(* An operation without hooks, or one the server does not know. *)
HandleUnmonitored(t, msg, ok) ==
    /\ thread[t].pc = "idle"
    /\ msg.iod \notin Monitored
    /\ ok => msg.iod \in Performs[backend]
    /\ thread' = [thread EXCEPT ![t] = Sent(IF ok THEN "kSuccess" ELSE "none")]
    /\ UNCHANGED <<backend, modeVars, handled, cnt, sumVars>>

(***************************************************************************)
(* A DiscardBlocksMsg: only the SPDK server knows how, and stops at the    *)
(* first block that fails; nothing is replied in any case.                 *)
(***************************************************************************)
HandleDiscardBlocks(t, msg) ==
    /\ thread[t].pc = "idle"
    /\ msg.type = "kDiscardBlocks"
    /\ thread' = [thread EXCEPT ![t] = Sent("none")]
    /\ UNCHANGED <<backend, modeVars, handled, cnt, sumVars>>

(* Mutant of StartStorageOp: a rejected write is performed all the same. *)
StartAnyStorageOp(t, msg, c) ==
    /\ thread[t].pc = "idle" /\ handled < MaxOps
    /\ msg.iod \in Monitored
    /\ cnt' = [cnt EXCEPT !["inflight"][c] = @ + 1,
                          !["rejected"][c] = IF Mismatch(msg) THEN @ + 1 ELSE @]
    /\ thread' = [thread EXCEPT ![t] = [Idle EXCEPT !.pc = "io"]]
    /\ handled' = handled + 1
    /\ UNCHANGED <<backend, modeVars, sumVars>>

(* A read or write is let through: hook_read_started, hook_write_started. *)
StartStorageOp(t, msg, c) ==
    /\ thread[t].pc = "idle" /\ handled < MaxOps
    /\ msg.iod \in Monitored /\ ~Mismatch(msg)
    /\ Inc("inflight", 1, c)
    /\ thread' = [thread EXCEPT ![t] = [Idle EXCEPT !.pc = "io"]]
    /\ handled' = handled + 1
    /\ UNCHANGED <<backend, modeVars, sumVars>>

(* The operation has ended, well or with an error. *)
Ended(t, ok) ==
    /\ thread[t].pc = "io"
    /\ thread' = [thread EXCEPT ![t].pc = "ended", ![t].ok = ok]
    /\ UNCHANGED <<backend, modeVars, handled, cnt, sumVars>>

(* A file or device takes it, or the system call fails. *)
BlkIO(t, ok) == backend = "blk" /\ Ended(t, ok)

(* A copy in memory does not fail. *)
MemIO(t) == backend = "mem" /\ Ended(t, TRUE)

(* The NVMe queue takes it, or answers with an error. *)
SPDKIO(t, ok) == backend = "spdk" /\ Ended(t, ok)

(* ReadCompleted and WriteCompleted: no longer in flight ... *)
EndStorageOp(t, c) ==
    /\ thread[t].pc = "ended"
    /\ Inc("inflight", -1, c)
    /\ thread' = [thread EXCEPT ![t].pc = "count"]
    /\ UNCHANGED <<backend, modeVars, handled, sumVars>>

(* ... and completed or failed. *)
CountStorageOp(t, c) ==
    /\ thread[t].pc = "count"
    /\ Inc(IF thread[t].ok THEN "completed" ELSE "failed", 1, c)
    /\ thread' = [thread EXCEPT ![t].pc = "reply"]
    /\ UNCHANGED <<backend, modeVars, handled, sumVars>>

(***************************************************************************)
(* The reply of HandleStorageOp, which also says whether the server is     *)
(* congested by now; an error makes HandleMsg reply nothing.               *)
(***************************************************************************)
Reply(t, code) ==
    /\ thread[t].pc = "reply"
    /\ code \in IF thread[t].ok THEN {"kSuccess", "kSuccessCongested"} ELSE {"none"}
    /\ thread' = [thread EXCEPT ![t] = Sent(code)]
    /\ UNCHANGED <<backend, modeVars, handled, cnt, sumVars>>

(* The reply is on its way and the handler takes the next message. *)
NextMsg(t) ==
    /\ thread[t].pc = "sent"
    /\ thread' = [thread EXCEPT ![t] = Idle]
    /\ UNCHANGED <<backend, modeVars, handled, cnt, sumVars>>

-----------------------------------------------------------------------------

(* SetModeAndWeights with the controller's answer. *)
SetModeAndWeights(m) ==
    /\ switches < MaxSwitches /\ m # mode
    /\ mode' = m /\ grace' = TRUE /\ switches' = switches + 1
    /\ UNCHANGED <<backend, thread, handled, cnt, sumVars>>

GracePeriodEnds ==
    /\ grace
    /\ grace' = FALSE
    /\ UNCHANGED <<backend, mode, switches, thread, handled, cnt, sumVars>>

Total(k) == SumFunction(cnt[k])

(* UpdateStats enters get_sum of one of its counters. *)
SumBegin(k) ==
    /\ reader.core = 0
    /\ reader' = [core |-> 1, kind |-> k, sum |-> 0,
                  before |-> Total(k) - reported[k]]
    /\ UNCHANGED <<backend, modeVars, thread, handled, cnt, delta, reported>>

(* One turn of the loop of get_sum. *)
SumCore ==
    /\ reader.core \in Cores
    /\ reader' = [reader EXCEPT !.core = @ + 1,
                                !.sum = @ + cnt[reader.kind][reader.core]]
    /\ UNCHANGED <<backend, modeVars, thread, handled, cnt, delta, reported>>

(* What get_sum returns. *)
Sum == reader.sum + delta[reader.kind]

(* Mutant of SumEnd: the delta is replaced and not moved. *)
SumEndReplaces ==
    /\ reader.core = NumCores + 1
    /\ IF reader.kind = "inflight"
       THEN UNCHANGED <<delta, reported>>
       ELSE /\ delta' = [delta EXCEPT ![reader.kind] = -Sum]
            /\ reported' = [reported EXCEPT ![reader.kind] = @ + Sum]
    /\ reader' = NotReading
    /\ UNCHANGED <<backend, modeVars, thread, handled, cnt>>

(* get_sum_and_reset, used for all but "inflight", moves the delta. *)
SumEnd ==
    /\ reader.core = NumCores + 1
    /\ IF reader.kind = "inflight"
       THEN UNCHANGED <<delta, reported>>
       ELSE /\ delta' = [delta EXCEPT ![reader.kind] = @ - Sum]
            /\ reported' = [reported EXCEPT ![reader.kind] = @ + Sum]
    /\ reader' = NotReading
    /\ UNCHANGED <<backend, modeVars, thread, handled, cnt>>

DSNext ==
    \/ \E t \in Threads :
          \/ \E msg \in Requests :
                \/ \E c \in Cores : RejectStorageOp(t, msg, c) \/ StartStorageOp(t, msg, c)
                \/ \E ok \in BOOLEAN : HandleUnmonitored(t, msg, ok)
          \/ HandleDiscardBlocks(t, DiscardBlocksMsg({}))
          \/ MemIO(t)
          \/ \E ok \in BOOLEAN : BlkIO(t, ok) \/ SPDKIO(t, ok)
          \/ \E c \in Cores : EndStorageOp(t, c) \/ CountStorageOp(t, c)
          \/ \E code \in Codes : Reply(t, code)
          \/ NextMsg(t)
    \/ \E m \in ServerMode : SetModeAndWeights(m)
    \/ GracePeriodEnds
    \/ \E k \in Reported : SumBegin(k)
    \/ SumCore
    \/ SumEnd

DSSpec == DSInit /\ [][DSNext]_dsVars

-----------------------------------------------------------------------------

(* Types of the server's handlers, counters and reader. *)
DSTypeOK ==
    /\ backend \in Backends /\ mode \in ServerMode /\ grace \in BOOLEAN
    /\ \A t \in Threads :
           /\ thread[t].pc \in {"idle", "io", "ended", "count", "reply", "sent"}
           /\ thread[t].ok \in BOOLEAN /\ thread[t].reply \in {ReplyMsg(code) : code \in Codes}
    /\ handled \in 0..MaxOps
    /\ cnt \in [Kinds -> [Cores -> Int]] /\ delta \in [Kinds -> Int]
    /\ reported \in [Kinds -> Int]
    /\ reader.core \in 0..(NumCores + 1) /\ reader.kind \in Kinds

At(pcs) == Cardinality({t \in Threads : thread[t].pc \in pcs})

(***************************************************************************)
(* A report counts every operation that ended before the reader began to   *)
(* add up and none that had not ended when it was done, and none a second  *)
(* time, though the cores are read one by one while handlers count on and  *)
(* nothing is reset (get_sum_and_reset).                                   *)
(***************************************************************************)
ReportsAreExact ==
    reader.core = NumCores + 1 /\ reader.kind # "inflight" =>
        Sum \in reader.before..(Total(reader.kind) - reported[reader.kind])

(***************************************************************************)
(* Every read and write is accounted for in exactly one way, as in flight  *)
(* until it ends, and then as completed, failed or rejected: a rejected    *)
(* write is not performed, an error is counted, and a quiet server reports *)
(* nothing in flight, though start and end may be counted on two cores     *)
(* (HandleStorageOp and the hooks of the backends).                        *)
(***************************************************************************)
AccountedOnce ==
    /\ DSTypeOK
    /\ Total("inflight") = At({"io", "ended"})
    /\ Total("completed") + Total("failed") + Total("rejected")
          = handled - At({"io", "ended", "count"})

ThreadSymmetry == Permutations(Threads)

=============================================================================
