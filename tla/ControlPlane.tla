---------------------------- MODULE ControlPlane ----------------------------
(***************************************************************************)
(* The control plane: the controller's record of every disk server, the    *)
(* threads that rewrite it, and the servers that follow it.                *)
(*                                                                         *)
(*   - a disk server registers, then reports its counters, takes the mode  *)
(*     the reply has, and commits the mode it is in (StorageServer);       *)
(*   - a handler of the controller stores a report in two critical         *)
(*     sections: it copies the parameters a report must not change, then   *)
(*     stores the whole record (ServerStatsManager::UpdateServerStats);    *)
(*   - the updater reads all records, lets the policy decide modes and     *)
(*     weights, and rewrites the records one at a time, each with a read   *)
(*     and a store (Scheduler::Update);                                    *)
(*   - the load calculator takes what the reports have added up.           *)
(*                                                                         *)
(* What the policy decides is left open here (Scheduling has the           *)
(* policies): all servers mixed, no change, or a split into readers and    *)
(* writers of as many servers as it saw.  The other entries of the array   *)
(* it returns are uninitialised, a value of its own here.  The mode stands *)
(* for all that the policy decides: the weights of a record are copied,    *)
(* restored, computed and sent together with it.                           *)
(***************************************************************************)
EXTENDS Naturals, FiniteSets, Messages

CONSTANTS
    NumServers,     \* disk servers that will register, with IDs 1..NumServers
    Reporters,      \* those that stay up; the others stop once registered
    kNumReplicas,   \* replicas of a block (constants.h)
    MaxOps,         \* bound on the operations the reports carry
    MaxFailures     \* bound on the calls of servers that fail

ASSUME ControlPlaneAssumption ==
    /\ NumServers \in Nat \ {0} /\ Reporters \subseteq 1..NumServers
    /\ kNumReplicas \in Nat /\ MaxOps \in Nat /\ MaxFailures \in Nat

VARIABLES
    reg,        \* how far a server's registration has got in the controller
    rec,        \* stats_map_: a record, or Null
    sysOps,     \* stats_system_reads_ + stats_system_writes_
    upd,        \* the updater thread and its locals
    handler,    \* the handler thread of a server's call and its local copy
    server,     \* a disk server: its stats thread and its mode
    link,       \* the message between a server and the controller
    ops,        \* ghost: operations reported, without those lost or taken
    held,       \* ghost: the modes a server has been in
    failures    \* calls that have failed

vars == <<reg, rec, sysOps, upd, handler, server, link, ops,
          held, failures>>

Servers == 1..NumServers
Modes == {"kMix", "kRead", "kWrite", "uninitialised"}
Null == [mode |-> "null"]
Records == [mode : Modes, committed : Modes]

RegStages == {"none", "policy", "stats", "counted", "done"}
ServerPCs == {"off", "register", "report", "reply", "commit", "committed"}

(* servers_ of the stats manager, and num_servers_ of the scheduler. *)
StatsServers == {s \in Servers : reg[s] \in {"stats", "counted", "done"}}
num_servers == Cardinality({s \in Servers : reg[s] \in {"counted", "done"}})

(* The messages between a server and the controller; a report that has     *)
(* been stored is yet to be answered.                                       *)
Stored == [type |-> "stored"]
Reports == [mode : Modes, committed : {"kMix"}, ops : 0..1]
Links ==
    {NoMsg, Stored}
      \cup {RegisterServerMsg(s) : s \in Servers}
      \cup {RegisterServerReplyMsg(s) : s \in Servers}
      \cup {UpdateServerStatsMsg(s, stats) : s \in Servers, stats \in Reports}
      \cup {UpdateServerStatsReplyMsg(s, mode) : s \in Servers, mode \in Modes}
      \cup {CommitServerModeMsg(s, mode) : s \in Servers, mode \in Modes}

(***************************************************************************)
(* The variables hold what their types say.                                *)
(***************************************************************************)
TypeOK ==
    /\ reg \in [Servers -> RegStages]
    /\ rec \in [Servers -> Records \cup {Null}]
    /\ sysOps \in 0..MaxOps
    /\ upd.pc \in {"idle", "get", "put"}
    /\ server \in [Servers -> [pc : ServerPCs, mode : Modes]]
    /\ handler \in [Servers -> Records \cup {Null}]
    /\ link \in [Servers -> Links]
    /\ held \in [Servers -> SUBSET Modes]
    /\ ops \in 0..MaxOps /\ failures \in 0..MaxFailures

Idle == [pc |-> "idle"]

Init ==
    /\ reg = [s \in Servers |-> "none"]
    /\ rec = [s \in Servers |-> Null]
    /\ sysOps = 0
    /\ upd = Idle
    /\ handler = [s \in Servers |-> Null]
    /\ server = [s \in Servers |-> [pc |-> "off", mode |-> "kMix"]]
    /\ link = [s \in Servers |-> NoMsg]
    /\ ops = 0 /\ failures = 0
    /\ held = [s \in Servers |-> {"kMix"}]

-----------------------------------------------------------------------------
(* Registration *)

(* The server's constructor calls the controller.  Servers are started one  *)
(* after the other, so the ID fetch_add hands out is the server's index.    *)
StartServer(s) ==
    /\ server[s].pc = "off"
    /\ \A t \in Servers : t < s => reg[t] = "done"
    /\ server' = [server EXCEPT ![s].pc = "register"]
    /\ link' = [link EXCEPT ![s] = RegisterServerMsg(s)]
    /\ UNCHANGED <<reg, rec, sysOps, upd, handler, ops, held,
                   failures>>

(* The agent adds the server to the block allocator and to the policy... *)
RegisterPolicy(s) ==
    /\ link[s].type = "kRegisterServer" /\ reg[s] = "none"
    /\ reg' = [reg EXCEPT ![s] = "policy"]
    /\ UNCHANGED <<rec, sysOps, upd, handler, server, link, ops, held,
                   failures>>

(* Mutant of RegisterStats: the record is made when the server is counted. *)
RegisterStatsLate(s) ==
    /\ reg[s] = "policy"
    /\ reg' = [reg EXCEPT ![s] = "stats"]
    /\ UNCHANGED <<rec, sysOps, upd, handler, server, link, ops, held,
                   failures>>

(* ... to the stats manager, with the default record ... *)
RegisterStats(s) ==
    /\ reg[s] = "policy"
    /\ reg' = [reg EXCEPT ![s] = "stats"]
    /\ rec' = [rec EXCEPT ![s] = [mode |-> "kMix", committed |-> "kMix"]]
    /\ UNCHANGED <<sysOps, upd, handler, server, link, ops, held,
                   failures>>

(* ... to the scheduler's count ... *)
RegisterCount(s) ==
    /\ reg[s] = "stats"
    /\ reg' = [reg EXCEPT ![s] = "counted"]
    /\ UNCHANGED <<rec, sysOps, upd, handler, server, link, ops, held,
                   failures>>

(* ... and to its own table; the reply starts the server's stats thread. *)
RegisterReply(s) ==
    /\ reg[s] = "counted"
    /\ reg' = [reg EXCEPT ![s] = "done"]
    /\ link' = [link EXCEPT ![s] = RegisterServerReplyMsg(s)]
    /\ UNCHANGED <<rec, sysOps, upd, handler, server, ops, held,
                   failures>>

HandleRegisterServerReply(s) ==
    /\ link[s].type = "kRegisterServerReply"
    /\ server' = [server EXCEPT ![s].pc = "report"]
    /\ link' = [link EXCEPT ![s] = NoMsg]
    /\ UNCHANGED <<reg, rec, sysOps, upd, handler, ops, held,
                   failures>>

-----------------------------------------------------------------------------
(* The stats thread of a server and the handlers of its calls *)

(* DiskMonitor::GetServerStats names no committed mode: the field is zero. *)
GetServerStats(s, n) == [mode |-> server[s].mode, committed |-> "kMix",
                         ops |-> n]

SendReport(s) ==
    /\ server[s].pc = "report" /\ s \in Reporters
    /\ \E n \in 0..1 :
          /\ ops + n <= MaxOps
          /\ ops' = ops + n
          /\ link' = [link EXCEPT ![s] = UpdateServerStatsMsg(s, GetServerStats(s, n))]
    /\ server' = [server EXCEPT ![s].pc = "reply"]
    /\ UNCHANGED <<reg, rec, sysOps, upd, handler, held,
                   failures>>

(* UpdateServerStats with is_override false: the first critical section     *)
(* restores the parameters the report is not to modify.                     *)
CopyParameters(s) ==
    /\ link[s].type = "kUpdateServerStats" /\ handler[s] = Null
    /\ handler' = [handler EXCEPT ![s] =
                      [mode |-> rec[s].mode, committed |-> link[s].stats.committed]]
    /\ UNCHANGED <<reg, rec, sysOps, upd, server, link, ops, held,
                   failures>>

(* The second one adds the report's operations to the load and stores the   *)
(* record; the reply is made of a record read after that.                   *)
StoreReport(s) ==
    /\ link[s].type = "kUpdateServerStats" /\ handler[s] # Null
    /\ sysOps' = sysOps + link[s].stats.ops
    /\ rec' = [rec EXCEPT ![s] = handler[s]]
    /\ handler' = [handler EXCEPT ![s] = Null]
    /\ link' = [link EXCEPT ![s] = Stored]
    /\ UNCHANGED <<reg, upd, server, ops, held, failures>>

ReplyReport(s) ==
    /\ link[s].type = "stored"
    /\ link' = [link EXCEPT ![s] =
                   UpdateServerStatsReplyMsg(s, rec[s].mode)]
    /\ UNCHANGED <<reg, rec, sysOps, upd, handler, server, ops, held,
                   failures>>

(* Mutant of HandleUpdateServerStatsReply: the reply's mode is dropped. *)
IgnoreReply(s) ==
    /\ link[s].type = "kUpdateServerStatsReply"
    /\ server' = [server EXCEPT ![s].pc = "commit"]
    /\ link' = [link EXCEPT ![s] = NoMsg]
    /\ UNCHANGED <<reg, rec, sysOps, upd, handler, ops, held,
                   failures>>

(* SetModeAndWeights: the server is in the mode of the reply from now on. *)
HandleUpdateServerStatsReply(s) ==
    /\ link[s].type = "kUpdateServerStatsReply"
    /\ server' = [server EXCEPT ![s] = [pc |-> "commit", mode |-> link[s].mode]]
    /\ held' = [held EXCEPT ![s] = @ \cup {link[s].mode}]
    /\ link' = [link EXCEPT ![s] = NoMsg]
    /\ UNCHANGED <<reg, rec, sysOps, upd, handler, ops,
                   failures>>

(* A call fails: its request never arrives, or its reply is lost.  The     *)
(* server logs an error and goes on with the mode it is in; the counters of *)
(* a report that never arrives are gone.                                    *)
FailCall(s) ==
    /\ failures < MaxFailures
    /\ handler[s] = Null
    /\ \/ /\ link[s].type \in {"kUpdateServerStats", "kUpdateServerStatsReply"}
          /\ server' = [server EXCEPT ![s].pc = "commit"]
       \/ /\ link[s].type = "kCommitServerMode"
          /\ server' = [server EXCEPT ![s].pc = "report"]
    /\ link' = [link EXCEPT ![s] = NoMsg]
    /\ ops' = IF link[s].type = "kUpdateServerStats" THEN ops - link[s].stats.ops
                                                     ELSE ops
    /\ failures' = failures + 1
    /\ UNCHANGED <<reg, rec, sysOps, upd, handler, held>>

SendCommit(s) ==
    /\ server[s].pc = "commit"
    /\ link' = [link EXCEPT ![s] = CommitServerModeMsg(s, server[s].mode)]
    /\ server' = [server EXCEPT ![s].pc = "committed"]
    /\ UNCHANGED <<reg, rec, sysOps, upd, handler, ops, held,
                   failures>>

CommitServerMode(s) ==
    /\ link[s].type = "kCommitServerMode"
    /\ rec' = [rec EXCEPT ![s].committed = link[s].mode]
    /\ link' = [link EXCEPT ![s] = NoMsg]
    /\ server' = [server EXCEPT ![s].pc = "report"]
    /\ UNCHANGED <<reg, sysOps, upd, handler, ops, held,
                   failures>>

-----------------------------------------------------------------------------
(* The threads of the scheduler *)

(* What ComputeModes may return when it saw n servers: an error; all mixed  *)
(* (the whole array) when n is too small for isolation; else modes of n     *)
(* servers among those the policy has, which are more while a registration  *)
(* is under way.  (All mixed is never the answer then: with traffic,        *)
(* GetAllocation hands out all n servers.)                                  *)
Unchanged == [s \in Servers |-> "EAGAIN"]
PolicyServers == {s \in Servers : reg[s] # "none"}
Split(writers, chosen) ==
    [s \in Servers |-> IF s \in writers THEN "kWrite"
                       ELSE IF s \in chosen THEN "kRead" ELSE "uninitialised"]
Decisions(n) ==
    IF n <= kNumReplicas THEN {[s \in Servers |-> "kMix"], Unchanged}
    ELSE {Unchanged} \cup
         UNION {{Split(writers, chosen) : writers \in SUBSET chosen} :
                   chosen \in {S \in SUBSET PolicyServers : Cardinality(S) = n}}

(* GetServerStats, GetSystemLoad, ComputeModes and ComputeWeights: what the *)
(* update will write, from the servers seen by now.                         *)
UpdateBegin ==
    /\ upd.pc = "idle"
    /\ \E d \in Decisions(Cardinality(StatsServers)) :
          upd' = [pc |-> "get", modes |-> d, i |-> 1]
    /\ UNCHANGED <<reg, rec, sysOps, handler, server, link, ops, held,
                   failures>>

(* One turn of the loop, whose bound is read on every turn: the record is   *)
(* read under the lock ...                                                  *)
UpdateGet ==
    /\ upd.pc = "get" /\ upd.i <= num_servers
    /\ upd' = [pc |-> "put", modes |-> upd.modes, i |-> upd.i, got |-> rec[upd.i]]
    /\ UNCHANGED <<reg, rec, sysOps, handler, server, link, ops, held,
                   failures>>

UpdateEnd ==
    /\ upd.pc = "get" /\ upd.i > num_servers
    /\ upd' = Idle
    /\ UNCHANGED <<reg, rec, sysOps, handler, server, link, ops, held,
                   failures>>

(* Mutant of NewRecord: the decision is taken for committed at once. *)
NewRecordCommitted ==
    [mode |-> IF upd.modes = Unchanged THEN upd.got.mode ELSE upd.modes[upd.i],
     committed |-> IF upd.modes = Unchanged THEN upd.got.mode ELSE upd.modes[upd.i]]

NewRecord ==
    [mode |-> IF upd.modes = Unchanged THEN upd.got.mode ELSE upd.modes[upd.i],
     committed |-> upd.got.committed]

(* Mutant of UpdatePut: is_update_load is left at its default. *)
UpdatePutAddsLoad ==
    /\ upd.pc = "put"
    /\ rec' = [rec EXCEPT ![upd.i] = NewRecord]
    /\ upd' = [pc |-> "get", modes |-> upd.modes, i |-> upd.i + 1]
    /\ sysOps' = sysOps + (IF sysOps = 0 THEN 1 ELSE 0)
    /\ UNCHANGED <<reg, handler, server, link, ops, held,
                   failures>>

(* ... and stored, changed, under the lock again. *)
UpdatePut ==
    /\ upd.pc = "put"
    /\ rec' = [rec EXCEPT ![upd.i] = NewRecord]
    /\ upd' = [pc |-> "get", modes |-> upd.modes, i |-> upd.i + 1]
    /\ UNCHANGED <<reg, sysOps, handler, server, link, ops, held,
                   failures>>

(* LoadCalculator: the operations added up become the load. *)
CalculateLoad ==
    /\ sysOps > 0
    /\ sysOps' = 0
    /\ ops' = ops - sysOps
    /\ UNCHANGED <<reg, rec, upd, handler, server, link, held, failures>>

-----------------------------------------------------------------------------

ServerStep(s) ==
    \/ StartServer(s) \/ RegisterPolicy(s) \/ RegisterStats(s) \/ RegisterCount(s)
    \/ RegisterReply(s) \/ HandleRegisterServerReply(s)
    \/ SendReport(s) \/ CopyParameters(s) \/ StoreReport(s) \/ ReplyReport(s)
    \/ HandleUpdateServerStatsReply(s) \/ SendCommit(s) \/ CommitServerMode(s)

UpdaterStep == UpdateBegin \/ UpdateGet \/ UpdatePut \/ UpdateEnd

Next ==
    \/ \E s \in Servers : ServerStep(s) \/ FailCall(s)
    \/ UpdaterStep \/ CalculateLoad

Spec == Init /\ [][Next]_vars

(* Every thread is scheduled again and again; nothing makes a call fail. *)
FairSpec == /\ Spec
            /\ \A s \in Servers : WF_vars(ServerStep(s))
            /\ WF_vars(UpdaterStep)

-----------------------------------------------------------------------------
(* Properties *)

(***************************************************************************)
(* A server that is counted, by the stats manager or by the scheduler, has *)
(* its record: the list of records and the updater's loop, which take the  *)
(* first so many entries of stats_map_ while a server is being added to    *)
(* it, never dereference an empty one.                                     *)
(***************************************************************************)
CountedServersHaveRecords ==
    /\ TypeOK
    /\ \A s \in StatsServers : rec[s] # Null
    /\ \A s \in 1..num_servers : rec[s] # Null
    /\ upd.pc = "put" => upd.got # Null

(* The servers whose report is on its way with an operation. *)
Carriers ==
    {s \in Servers : link[s].type = "kUpdateServerStats" /\ link[s].stats.ops = 1}

(***************************************************************************)
(* The load counts every operation a stored report carried exactly once,   *)
(* whatever the updater stores in between.                                 *)
(***************************************************************************)
EachReportCountedOnce == sysOps + Cardinality(Carriers) = ops

(***************************************************************************)
(* The committed mode of a record, which is what volumes pull, is one the  *)
(* server has been in, although the updater stores records it read before  *)
(* a commit: a volume never steers requests by a decision the server has   *)
(* not heard of.  (A report resets it to kMix until the next commit.)      *)
(***************************************************************************)
CommittedModeWasHeld ==
    \A s \in StatsServers : rec[s].committed \in held[s]

(* How far a server is goes with its message and its registration, and     *)
(* servers register one after the other.                                   *)
Stage(s) ==
    /\ server[s].pc = "off" => reg[s] = "none"
    /\ server[s].pc # "off" => \A t \in Servers : t < s => reg[t] = "done"
    /\ server[s].pc \notin {"off", "register"} => reg[s] = "done"
    /\ server[s].pc \in {"off", "report", "commit"} => link[s].type = "none"
    /\ server[s].pc = "register" =>
          link[s].type = IF reg[s] = "done" THEN "kRegisterServerReply"
                                            ELSE "kRegisterServer"
    /\ server[s].pc = "reply" =>
          link[s].type \in {"kUpdateServerStats", "stored", "kUpdateServerStatsReply"}
    /\ server[s].pc = "committed" => link[s].type = "kCommitServerMode"
StageInv == \A s \in Servers : Stage(s)

(* What will be stored as committed, by a handler or by the updater, is a  *)
(* mode the server has held.                                               *)
HeldInv ==
    /\ \A s \in Servers :
          /\ {"kMix", server[s].mode} \subseteq held[s]
          /\ link[s].type = "kCommitServerMode" => link[s].mode \in held[s]
          /\ handler[s] # Null => /\ link[s].type = "kUpdateServerStats"
                                  /\ handler[s].committed = "kMix"
    /\ upd.pc # "idle" => /\ upd.i \in Nat \ {0}
                          /\ upd.modes \in [Servers -> Modes] \cup {Unchanged}
    /\ upd.pc = "put" => /\ upd.i \in StatsServers /\ upd.got \in Records
                         /\ upd.got.committed \in held[upd.i]

(* The inductive invariant of the three properties above. *)
CtrlInv ==
    /\ CountedServersHaveRecords /\ EachReportCountedOnce /\ CommittedModeWasHeld
    /\ StageInv /\ HeldInv

(***************************************************************************)
(* A decision that stands reaches the server, whatever calls fail on the   *)
(* way: when the mode in a server's record stays the same from some time   *)
(* on, the server ends up in that mode.                                    *)
(***************************************************************************)
StandingModeReachesServer ==
    \A s \in Reporters : \/ []<><<rec'[s].mode # rec[s].mode>>_vars
                         \/ <>[](server[s].mode = rec[s].mode)

=============================================================================
