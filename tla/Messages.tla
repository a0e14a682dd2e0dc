------------------------------ MODULE Messages ------------------------------
(***************************************************************************)
(* The messages of base/msg.h.  A message is a header, whose type selects  *)
(* the handler, and a body of fixed layout; lengths and padding are left   *)
(* out.  A body is described by what the models tell apart of it.          *)
(***************************************************************************)

NoMsg == [type |-> "none"]

(* A volume's request for blocks of a server, and the batch it gets. *)
AllocateBlocksMsg(vol) == [type |-> "kAllocateBlocks", vol |-> vol]

AllocateBlocksReplyMsg(blks) ==
    [type |-> "kAllocateBlocksReply", server_blks |-> blks]

(* A storage operation and its reply. *)
StorageOpMsg(iod, affinity) ==
    [type |-> "kStorageOp", iod |-> iod, affinity |-> affinity]

StorageOpReplyMsg(code) == [type |-> "kStorageOpReply", code |-> code]

(* What the reply says of the operation. *)
StorageOpReplyCode ==
    {"kSuccess", "kFailure", "kRejectModeMismatch", "kSuccessCongested"}

DiscardBlocksMsg(blocks) == [type |-> "kDiscardBlocks", blocks |-> blocks]

(* Registration: the reply to a server has its identity, the reply to a    *)
(* volume lists the servers registered so far.                             *)
RegisterServerMsg(name) == [type |-> "kRegisterServer", name |-> name]

RegisterServerReplyMsg(id) == [type |-> "kRegisterServerReply", id |-> id]

RegisterVolumeMsg(vol) == [type |-> "kRegisterVolume", vol |-> vol]

RegisterVolumeReplyMsg(servers) ==
    [type |-> "kRegisterVolumeReply", servers |-> servers]

(* A server's report, and the mode and weights the controller answers.     *)
UpdateServerStatsMsg(id, stats) ==
    [type |-> "kUpdateServerStats", id |-> id, stats |-> stats]

UpdateServerStatsReplyMsg(id, mode) ==
    [type |-> "kUpdateServerStatsReply", id |-> id, mode |-> mode]

(* The mode a server acknowledges; no reply. *)
CommitServerModeMsg(id, mode) ==
    [type |-> "kCommitServerMode", id |-> id, mode |-> mode]

(* A volume's pull of the records of all servers. *)
GetServerStatsMsg(vol) == [type |-> "kGetServerStats", vol |-> vol]

GetServerStatsReplyMsg(stats) ==
    [type |-> "kGetServerStatsReply", stats |-> stats]

=============================================================================
