------------------------- MODULE ControlPlaneProofs -------------------------
(***************************************************************************)
(* The records of the control plane, for every number of servers: CtrlInv  *)
(* is inductive.  Its conjuncts are taken one after the other: the stages  *)
(* of the servers, the number of counted servers, what is held, the load,  *)
(* the types.  The last part is about the rate limits of the volumes,      *)
(* which answer what the records say of a server (Congestion).             *)
(***************************************************************************)
EXTENDS ControlPlane, Congestion, FiniteSetTheorems, TLAPS

(* What a message carries, by its type. *)
LEMMA LinkFields ==
  ASSUME TypeOK, NEW s \in Servers
  PROVE  /\ link[s].type = "none" => link[s] = NoMsg
         /\ link[s].type = "kUpdateServerStats" => link[s].stats \in Reports
         /\ link[s].type = "kUpdateServerStatsReply" => link[s].mode \in Modes
         /\ link[s].type = "kCommitServerMode" => link[s].mode \in Modes
<1>1. link[s] \in Links
  BY Zenon DEF TypeOK
<1> QED
  BY <1>1 DEF Links, NoMsg, Stored, RegisterServerMsg, RegisterServerReplyMsg,
     UpdateServerStatsMsg, UpdateServerStatsReplyMsg, CommitServerModeMsg

(* The messages the actions send are messages. *)
LEMMA Sent ==
  ASSUME NEW s \in Servers
  PROVE  /\ NoMsg \in Links /\ Stored \in Links
         /\ RegisterServerMsg(s) \in Links /\ RegisterServerReplyMsg(s) \in Links
         /\ \A stats \in Reports : UpdateServerStatsMsg(s, stats) \in Links
         /\ \A mode \in Modes : /\ UpdateServerStatsReplyMsg(s, mode) \in Links
                                /\ CommitServerModeMsg(s, mode) \in Links
BY DEF Links

(* The types of the messages. *)
LEMMA SentTypes ==
  ASSUME NEW s, NEW x
  PROVE  /\ NoMsg.type = "none" /\ Stored.type = "stored"
         /\ RegisterServerMsg(s).type = "kRegisterServer"
         /\ RegisterServerReplyMsg(s).type = "kRegisterServerReply"
         /\ UpdateServerStatsMsg(s, x).type = "kUpdateServerStats"
         /\ UpdateServerStatsMsg(s, x).stats = x
         /\ UpdateServerStatsReplyMsg(s, x).type = "kUpdateServerStatsReply"
         /\ UpdateServerStatsReplyMsg(s, x).mode = x
         /\ CommitServerModeMsg(s, x).type = "kCommitServerMode"
         /\ CommitServerModeMsg(s, x).mode = x
BY Zenon DEF NoMsg, Stored, RegisterServerMsg, RegisterServerReplyMsg,
   UpdateServerStatsMsg, UpdateServerStatsReplyMsg, CommitServerModeMsg

(* Adding a server to a set of servers, and taking it away. *)
LEMMA ServerCount ==
  ASSUME NEW S \in SUBSET Servers, NEW s \in Servers
  PROVE  /\ IsFiniteSet(S) /\ Cardinality(S) \in Nat
         /\ s \notin S => Cardinality(S \cup {s}) = Cardinality(S) + 1
         /\ s \in S => Cardinality(S \ {s}) = Cardinality(S) - 1
<1>1. IsFiniteSet(Servers)
  BY FS_Interval, ControlPlaneAssumption DEF Servers
<1>2. IsFiniteSet(S)
  BY Zenon, <1>1, FS_Subset
<1> QED
  BY Zenon, <1>2, FS_CardinalityType, FS_AddElement, FS_RemoveElement

(* The servers registered so far are the first ones: whoever stops before   *)
(* num_servers_ finds a server that is counted.                             *)
LEMMA CountedAreFirst ==
  ASSUME TypeOK, StageInv, NEW i \in Nat \ {0}, i <= num_servers
  PROVE  i \in Servers /\ reg[i] \in {"counted", "done"}
<1> DEFINE C == {s \in Servers : reg[s] \in {"counted", "done"}}
<1>1. SUFFICES ASSUME i \notin C PROVE FALSE
  BY Zenon
<1>2. C \subseteq 1..(i - 1)
  <2> SUFFICES ASSUME NEW s \in C, s >= i PROVE FALSE
    BY ControlPlaneAssumption DEF Servers
  <2>1. s > i /\ i \in Servers
    BY <1>1, ControlPlaneAssumption DEF Servers
  <2>2. server[s].pc # "off"
    BY Zenon DEF StageInv, Stage
  <2>3. reg[i] = "done"
    BY Zenon, <2>1, <2>2 DEF StageInv, Stage
  <2> QED
    BY Zenon, <1>1, <2>1, <2>3
<1>3. IsFiniteSet(1..(i - 1)) /\ Cardinality(1..(i - 1)) = i - 1
  BY FS_Interval
<1>4. Cardinality(C) <= i - 1 /\ Cardinality(C) \in Nat
  BY <1>2, <1>3, FS_Subset, FS_CardinalityType
<1> QED
  BY <1>4 DEF num_servers

(* What ComputeModes returns is a mode for every server, or an error. *)
LEMMA DecisionTypes ==
  ASSUME NEW n
  PROVE  Decisions(n) \subseteq [Servers -> Modes] \cup {Unchanged}
<1>1. [s \in Servers |-> "kMix"] \in [Servers -> Modes]
  BY Zenon DEF Modes
<1>2. \A w, c : Split(w, c) \in [Servers -> Modes]
  BY Zenon DEF Split, Modes
<1> QED
  BY <1>1, <1>2 DEF Decisions

(* Where a server is, from the message and the stage of its registration. *)
LEMMA StageOfMessage ==
  ASSUME TypeOK, StageInv, NEW s \in Servers
  PROVE  /\ reg[s] \in {"policy", "stats", "counted"} => server[s].pc = "register"
         /\ link[s].type \in {"kRegisterServer", "kRegisterServerReply"} =>
               server[s].pc = "register"
         /\ link[s].type = "kRegisterServerReply" => reg[s] = "done"
         /\ link[s].type \in {"kUpdateServerStats", "stored", "kUpdateServerStatsReply"} =>
               server[s].pc = "reply" /\ reg[s] = "done"
         /\ link[s].type = "kCommitServerMode" =>
               server[s].pc = "committed" /\ reg[s] = "done"
<1>1. server[s].pc \in ServerPCs /\ reg[s] \in RegStages
  BY Zenon DEF TypeOK
<1> QED
  BY Zenon, <1>1 DEF StageInv, Stage, ServerPCs, RegStages

(* A step of one server concerns the stage of that server only. *)
LEMMA StageFrame ==
  ASSUME StageInv, NEW s \in Servers,
         \A t \in Servers : t # s => /\ server'[t].pc = server[t].pc
                                     /\ link'[t].type = link[t].type
                                     /\ reg'[t] = reg[t],
         reg[s] = "done" => reg'[s] = "done",
         Stage(s)'
  PROVE  StageInv'
BY DEF StageInv, Stage

(* Every step keeps the stages of the servers together with their messages *)
(* and their registration.                                                  *)
LEMMA StageNext ==
  ASSUME TypeOK, StageInv, [Next]_vars
  PROVE  StageInv'
<1>1. ASSUME NEW s \in Servers, StartServer(s) PROVE StageInv'
  <2>1. /\ server'[s].pc = "register" /\ link'[s].type = "kRegisterServer"
        /\ reg'[s] = reg[s]
    <3>1. server'[s].pc = "register"
      BY Zenon, <1>1 DEF StartServer, TypeOK
    <3>2. link'[s].type = "kRegisterServer"
      BY Zenon, <1>1, SentTypes, link \in [Servers -> Links] DEF StartServer, TypeOK
    <3> QED
      BY Zenon, <1>1, <3>1, <3>2 DEF StartServer
  <2>2. \A t \in Servers : t # s => /\ server'[t].pc = server[t].pc
                                    /\ link'[t].type = link[t].type
                                    /\ reg'[t] = reg[t]
    BY Zenon, <1>1 DEF StartServer, TypeOK
  <2>3. Stage(s)'
    BY Zenon, <1>1, <2>1, <2>2, StageOfMessage, ControlPlaneAssumption
    DEF StartServer, StageInv, Stage, Servers
  <2> QED
    BY Zenon, <1>1, <2>1, <2>2, <2>3, StageFrame DEF StartServer
<1>2. ASSUME NEW s \in Servers, RegisterPolicy(s) PROVE StageInv'
  <2>1. /\ server'[s].pc = server[s].pc /\ link'[s].type = link[s].type
        /\ reg'[s] = "policy"
    BY Zenon, <1>2, SentTypes DEF RegisterPolicy, TypeOK
  <2>2. \A t \in Servers : t # s => /\ server'[t].pc = server[t].pc
                                    /\ link'[t].type = link[t].type
                                    /\ reg'[t] = reg[t]
    BY Zenon, <1>2 DEF RegisterPolicy, TypeOK
  <2>3. Stage(s)'
    BY <1>2, <2>1, <2>2, StageOfMessage, ControlPlaneAssumption
    DEF RegisterPolicy, StageInv, Stage, Servers
  <2> QED
    BY Zenon, <1>2, <2>1, <2>2, <2>3, StageFrame DEF RegisterPolicy
<1>3. ASSUME NEW s \in Servers, RegisterStats(s) PROVE StageInv'
  <2>1. /\ server'[s].pc = server[s].pc /\ link'[s].type = link[s].type
        /\ reg'[s] = "stats"
    BY Zenon, <1>3, SentTypes DEF RegisterStats, TypeOK
  <2>2. \A t \in Servers : t # s => /\ server'[t].pc = server[t].pc
                                    /\ link'[t].type = link[t].type
                                    /\ reg'[t] = reg[t]
    BY Zenon, <1>3 DEF RegisterStats, TypeOK
  <2>3. Stage(s)'
    BY <1>3, <2>1, <2>2, StageOfMessage, ControlPlaneAssumption
    DEF RegisterStats, StageInv, Stage, Servers
  <2> QED
    BY Zenon, <1>3, <2>1, <2>2, <2>3, StageFrame DEF RegisterStats
<1>4. ASSUME NEW s \in Servers, RegisterCount(s) PROVE StageInv'
  <2>1. /\ server'[s].pc = server[s].pc /\ link'[s].type = link[s].type
        /\ reg'[s] = "counted"
    BY Zenon, <1>4, SentTypes DEF RegisterCount, TypeOK
  <2>2. \A t \in Servers : t # s => /\ server'[t].pc = server[t].pc
                                    /\ link'[t].type = link[t].type
                                    /\ reg'[t] = reg[t]
    BY Zenon, <1>4 DEF RegisterCount, TypeOK
  <2>3. Stage(s)'
    BY <1>4, <2>1, <2>2, StageOfMessage, ControlPlaneAssumption
    DEF RegisterCount, StageInv, Stage, Servers
  <2> QED
    BY Zenon, <1>4, <2>1, <2>2, <2>3, StageFrame DEF RegisterCount
<1>5. ASSUME NEW s \in Servers, RegisterReply(s) PROVE StageInv'
  <2>1. /\ server'[s].pc = server[s].pc /\ link'[s].type = "kRegisterServerReply"
        /\ reg'[s] = "done"
    BY Zenon, <1>5, SentTypes DEF RegisterReply, TypeOK
  <2>2. \A t \in Servers : t # s => /\ server'[t].pc = server[t].pc
                                    /\ link'[t].type = link[t].type
                                    /\ reg'[t] = reg[t]
    BY Zenon, <1>5 DEF RegisterReply, TypeOK
  <2>3. Stage(s)'
    BY <1>5, <2>1, <2>2, StageOfMessage, ControlPlaneAssumption
    DEF RegisterReply, StageInv, Stage, Servers
  <2> QED
    BY Zenon, <1>5, <2>1, <2>2, <2>3, StageFrame DEF RegisterReply
<1>6. ASSUME NEW s \in Servers, HandleRegisterServerReply(s) PROVE StageInv'
  <2>1. /\ server'[s].pc = "report" /\ link'[s].type = "none"
        /\ reg'[s] = reg[s]
    BY <1>6, SentTypes DEF HandleRegisterServerReply, TypeOK
  <2>2. \A t \in Servers : t # s => /\ server'[t].pc = server[t].pc
                                    /\ link'[t].type = link[t].type
                                    /\ reg'[t] = reg[t]
    BY Zenon, <1>6 DEF HandleRegisterServerReply, TypeOK
  <2>3. Stage(s)'
    BY <1>6, <2>1, <2>2, StageOfMessage, ControlPlaneAssumption
    DEF HandleRegisterServerReply, StageInv, Stage, Servers
  <2> QED
    BY Zenon, <1>6, <2>1, <2>2, <2>3, StageFrame DEF HandleRegisterServerReply
<1>7. ASSUME NEW s \in Servers, SendReport(s) PROVE StageInv'
  <2>1. /\ server'[s].pc = "reply" /\ link'[s].type = "kUpdateServerStats"
        /\ reg'[s] = reg[s]
    BY <1>7, SentTypes DEF SendReport, TypeOK
  <2>2. \A t \in Servers : t # s => /\ server'[t].pc = server[t].pc
                                    /\ link'[t].type = link[t].type
                                    /\ reg'[t] = reg[t]
    BY Zenon, <1>7 DEF SendReport, TypeOK
  <2>3. Stage(s)'
    BY Zenon, <1>7, <2>1, <2>2, StageOfMessage, ControlPlaneAssumption
    DEF SendReport, StageInv, Stage, Servers
  <2> QED
    BY Zenon, <1>7, <2>1, <2>2, <2>3, StageFrame DEF SendReport
<1>8. ASSUME NEW s \in Servers, CopyParameters(s) PROVE StageInv'
  <2>1. /\ server'[s].pc = server[s].pc /\ link'[s].type = link[s].type
        /\ reg'[s] = reg[s]
    BY Zenon, <1>8, SentTypes DEF CopyParameters, TypeOK
  <2>2. \A t \in Servers : t # s => /\ server'[t].pc = server[t].pc
                                    /\ link'[t].type = link[t].type
                                    /\ reg'[t] = reg[t]
    BY Zenon, <1>8 DEF CopyParameters, TypeOK
  <2>3. Stage(s)'
    BY Zenon, <1>8, <2>1, <2>2, StageOfMessage, ControlPlaneAssumption
    DEF CopyParameters, StageInv, Stage, Servers
  <2> QED
    BY Zenon, <1>8, <2>1, <2>2, <2>3, StageFrame DEF CopyParameters
<1>9. ASSUME NEW s \in Servers, StoreReport(s) PROVE StageInv'
  <2>1. /\ server'[s].pc = server[s].pc /\ link'[s].type = "stored"
        /\ reg'[s] = reg[s]
    BY Zenon, <1>9, SentTypes DEF StoreReport, TypeOK
  <2>2. \A t \in Servers : t # s => /\ server'[t].pc = server[t].pc
                                    /\ link'[t].type = link[t].type
                                    /\ reg'[t] = reg[t]
    BY Zenon, <1>9 DEF StoreReport, TypeOK
  <2>3. Stage(s)'
    BY Zenon, <1>9, <2>1, <2>2, StageOfMessage, ControlPlaneAssumption
    DEF StoreReport, StageInv, Stage, Servers
  <2> QED
    BY Zenon, <1>9, <2>1, <2>2, <2>3, StageFrame DEF StoreReport
<1>10. ASSUME NEW s \in Servers, ReplyReport(s) PROVE StageInv'
  <2>1. /\ server'[s].pc = server[s].pc /\ link'[s].type = "kUpdateServerStatsReply"
        /\ reg'[s] = reg[s]
    BY <1>10, SentTypes DEF ReplyReport, TypeOK
  <2>2. \A t \in Servers : t # s => /\ server'[t].pc = server[t].pc
                                    /\ link'[t].type = link[t].type
                                    /\ reg'[t] = reg[t]
    BY Zenon, <1>10 DEF ReplyReport, TypeOK
  <2>3. Stage(s)'
    BY <1>10, <2>1, <2>2, StageOfMessage, ControlPlaneAssumption
    DEF ReplyReport, StageInv, Stage, Servers
  <2> QED
    BY Zenon, <1>10, <2>1, <2>2, <2>3, StageFrame DEF ReplyReport
<1>11. ASSUME NEW s \in Servers, HandleUpdateServerStatsReply(s) PROVE StageInv'
  <2>1. /\ server'[s].pc = "commit" /\ link'[s].type = "none"
        /\ reg'[s] = reg[s]
    BY Zenon, <1>11, SentTypes DEF HandleUpdateServerStatsReply, TypeOK
  <2>2. \A t \in Servers : t # s => /\ server'[t].pc = server[t].pc
                                    /\ link'[t].type = link[t].type
                                    /\ reg'[t] = reg[t]
    BY Zenon, <1>11 DEF HandleUpdateServerStatsReply, TypeOK
  <2>3. Stage(s)'
    BY <1>11, <2>1, <2>2, StageOfMessage, ControlPlaneAssumption
    DEF HandleUpdateServerStatsReply, StageInv, Stage, Servers
  <2> QED
    BY Zenon, <1>11, <2>1, <2>2, <2>3, StageFrame DEF HandleUpdateServerStatsReply
<1>12. ASSUME NEW s \in Servers, SendCommit(s) PROVE StageInv'
  <2>1. /\ server'[s].pc = "committed" /\ link'[s].type = "kCommitServerMode"
        /\ reg'[s] = reg[s]
    BY <1>12, SentTypes DEF SendCommit, TypeOK
  <2>2. \A t \in Servers : t # s => /\ server'[t].pc = server[t].pc
                                    /\ link'[t].type = link[t].type
                                    /\ reg'[t] = reg[t]
    BY Zenon, <1>12 DEF SendCommit, TypeOK
  <2>3. Stage(s)'
    BY Zenon, <1>12, <2>1, <2>2, StageOfMessage, ControlPlaneAssumption
    DEF SendCommit, StageInv, Stage, Servers
  <2> QED
    BY Zenon, <1>12, <2>1, <2>2, <2>3, StageFrame DEF SendCommit
<1>13. ASSUME NEW s \in Servers, CommitServerMode(s) PROVE StageInv'
  <2>1. /\ server'[s].pc = "report" /\ link'[s].type = "none"
        /\ reg'[s] = reg[s]
    BY <1>13, SentTypes DEF CommitServerMode, TypeOK
  <2>2. \A t \in Servers : t # s => /\ server'[t].pc = server[t].pc
                                    /\ link'[t].type = link[t].type
                                    /\ reg'[t] = reg[t]
    BY Zenon, <1>13 DEF CommitServerMode, TypeOK
  <2>3. Stage(s)'
    BY <1>13, <2>1, <2>2, StageOfMessage, ControlPlaneAssumption
    DEF CommitServerMode, StageInv, Stage, Servers
  <2> QED
    BY Zenon, <1>13, <2>1, <2>2, <2>3, StageFrame DEF CommitServerMode
<1>14. ASSUME NEW s \in Servers, FailCall(s) PROVE StageInv'
  <2>1. /\ server'[s].pc \in {"report", "commit"} /\ link'[s].type = "none"
        /\ reg'[s] = reg[s]
    <3>1. server'[s].pc \in {"report", "commit"}
      BY <1>14 DEF FailCall, TypeOK
    <3>2. link'[s].type = "none"
      BY Zenon, <1>14, SentTypes, link \in [Servers -> Links] DEF FailCall, TypeOK
    <3> QED
      BY Zenon, <1>14, <3>1, <3>2 DEF FailCall
  <2>2. \A t \in Servers : t # s => /\ server'[t].pc = server[t].pc
                                    /\ link'[t].type = link[t].type
                                    /\ reg'[t] = reg[t]
    BY Zenon, <1>14 DEF FailCall, TypeOK
  <2>3. Stage(s)'
    BY Zenon, <1>14, <2>1, <2>2, StageOfMessage, ControlPlaneAssumption
    DEF FailCall, StageInv, Stage, Servers
  <2> QED
    BY Zenon, <1>14, <2>1, <2>2, <2>3, StageFrame DEF FailCall
<1>15. CASE UpdaterStep \/ CalculateLoad \/ UNCHANGED vars
  BY <1>15 DEF UpdaterStep, UpdateBegin, UpdateGet, UpdatePut, UpdateEnd,
     CalculateLoad, vars, StageInv, Stage
<1> QED
  BY Zenon, <1>1, <1>2, <1>3, <1>4, <1>5, <1>6, <1>7, <1>8, <1>9, <1>10, <1>11,
     <1>12, <1>13, <1>14, <1>15 DEF Next, ServerStep

(* A server in the list of servers has a record. *)
LEMMA RecordOf ==
  ASSUME TypeOK, CountedServersHaveRecords, NEW s \in Servers, reg[s] = "done"
  PROVE  s \in StatsServers /\ rec[s] \in Records
BY Zenon DEF TypeOK, CountedServersHaveRecords, StatsServers

(* The updater stores a record, and does not make up what is committed. *)
LEMMA NewRecordIs ==
  ASSUME TypeOK, HeldInv, upd.pc = "put"
  PROVE  /\ NewRecord \in Records /\ NewRecord.committed = upd.got.committed
         /\ upd.i \in StatsServers /\ upd.i \in Servers
<1>1. upd.i \in StatsServers /\ upd.i \in Servers /\ upd.got \in Records
  BY Zenon DEF HeldInv, StatsServers
<1>2. upd.modes # Unchanged => upd.modes[upd.i] \in Modes
  BY Zenon, <1>1 DEF HeldInv
<1> QED
  BY Zenon, <1>1, <1>2 DEF NewRecord, Records

(* Records and the copies of the handlers stay records. *)
LEMMA RecNext ==
  ASSUME TypeOK, StageInv, HeldInv, CountedServersHaveRecords, [Next]_vars
  PROVE  /\ rec' \in [Servers -> Records \cup {Null}]
         /\ handler' \in [Servers -> Records \cup {Null}]
         /\ \A s \in StatsServers' : rec'[s] # Null
<1> DEFINE Goal == /\ rec' \in [Servers -> Records \cup {Null}]
                   /\ handler' \in [Servers -> Records \cup {Null}]
                   /\ \A s \in StatsServers' : rec'[s] # Null
<1> USE DEF Goal
<1>0. \A r \in Records : r # Null
  BY DEF Records, Null
<1>1. ASSUME NEW s \in Servers, RegisterStats(s) PROVE Goal
  <2>1. [mode |-> "kMix", committed |-> "kMix"] \in Records
    BY Zenon DEF Records, Modes
  <2> QED
    BY Zenon, <1>0, <1>1, <2>1
    DEF RegisterStats, TypeOK, CountedServersHaveRecords, StatsServers
<1>2. ASSUME NEW s \in Servers, CopyParameters(s) PROVE Goal
  <2>1. rec[s] \in Records /\ link[s].stats \in Reports
    BY Zenon, <1>2, StageOfMessage, RecordOf, LinkFields DEF CopyParameters
  <2>2. [mode |-> rec[s].mode, committed |-> link[s].stats.committed] \in Records
    BY Zenon, <2>1 DEF Records, Reports, Modes
  <2> QED
    BY Zenon, <1>2, <2>2
    DEF CopyParameters, TypeOK, CountedServersHaveRecords, StatsServers
<1>3. ASSUME NEW s \in Servers, StoreReport(s) PROVE Goal
  BY Zenon, <1>3 DEF StoreReport, TypeOK, CountedServersHaveRecords, StatsServers
<1>4. ASSUME NEW s \in Servers, CommitServerMode(s) PROVE Goal
  <2>1. rec[s] \in Records /\ link[s].mode \in Modes
    BY Zenon, <1>4, StageOfMessage, RecordOf, LinkFields DEF CommitServerMode
  <2>2. [rec[s] EXCEPT !.committed = link[s].mode] \in Records
    BY Zenon, <2>1 DEF Records
  <2>3. rec' = [rec EXCEPT ![s] = [rec[s] EXCEPT !.committed = link[s].mode]]
    BY Zenon, <1>4 DEF CommitServerMode
  <2> QED
    BY Zenon, <1>0, <1>4, <2>2, <2>3
    DEF CommitServerMode, TypeOK, CountedServersHaveRecords, StatsServers
<1>5. CASE UpdatePut
  BY Zenon, <1>0, <1>5, NewRecordIs
  DEF UpdatePut, TypeOK, CountedServersHaveRecords, StatsServers
<1>6. ASSUME UNCHANGED <<rec, handler>>, StatsServers' \subseteq StatsServers PROVE Goal
  BY Zenon, <1>6 DEF TypeOK, CountedServersHaveRecords
<1>7. ASSUME NEW s \in Servers,
             RegisterPolicy(s) \/ RegisterCount(s) \/ RegisterReply(s)
      PROVE  Goal
  BY Zenon, <1>6, <1>7 DEF RegisterPolicy, RegisterCount, RegisterReply, StatsServers, TypeOK
<1>8. ASSUME UNCHANGED <<rec, handler, reg>> PROVE Goal
  BY Zenon, <1>6, <1>8 DEF StatsServers
<1>9. ASSUME NEW s \in Servers, ServerStep(s) \/ FailCall(s) PROVE Goal
  BY Zenon, <1>1, <1>2, <1>3, <1>4, <1>7, <1>8, <1>9
  DEF ServerStep, StartServer, HandleRegisterServerReply, SendReport, ReplyReport,
      HandleUpdateServerStatsReply, SendCommit, FailCall
<1>10. CASE UpdaterStep \/ CalculateLoad \/ UNCHANGED vars
  BY Zenon, <1>5, <1>8, <1>10
  DEF UpdaterStep, UpdateBegin, UpdateGet, UpdateEnd, CalculateLoad, vars
<1> QED
  BY Zenon, <1>9, <1>10 DEF Next

(* The messages on the links stay messages. *)
LEMMA LinkNext ==
  ASSUME TypeOK, StageInv, CountedServersHaveRecords, [Next]_vars
  PROVE  link' \in [Servers -> Links]
<1> DEFINE Goal == link' \in [Servers -> Links]
<1>0. link \in [Servers -> Links]
  BY Zenon DEF TypeOK
<1>1. ASSUME NEW s \in Servers, SendReport(s) PROVE Goal
  <2>1. \A n \in 0..1 : GetServerStats(s, n) \in Reports
    BY Zenon DEF GetServerStats, Reports, TypeOK
  <2> QED
    BY Zenon, <1>0, <1>1, <2>1, Sent DEF SendReport
<1>2. ASSUME NEW s \in Servers, ReplyReport(s) PROVE Goal
  <2>1. rec[s].mode \in Modes
    BY Zenon, <1>2, StageOfMessage, RecordOf DEF ReplyReport, Records
  <2> QED
    BY Zenon, <1>0, <1>2, <2>1, Sent DEF ReplyReport
<1>3. ASSUME NEW s \in Servers, SendCommit(s) PROVE Goal
  <2>1. server[s].mode \in Modes
    BY Zenon DEF TypeOK
  <2> QED
    BY Zenon, <1>0, <1>3, <2>1, Sent DEF SendCommit
<1>4. ASSUME NEW s \in Servers, NEW m \in Links, link' = [link EXCEPT ![s] = m]
      PROVE  Goal
  BY Zenon, <1>0, <1>4
<1>5. ASSUME UNCHANGED link PROVE Goal
  BY Zenon, <1>0, <1>5
<1>6. ASSUME NEW s \in Servers, ServerStep(s) \/ FailCall(s) PROVE Goal
  <2>1. CASE StartServer(s) \/ RegisterReply(s) \/ HandleRegisterServerReply(s)
             \/ StoreReport(s)
    BY Zenon, <1>4, <2>1, Sent
    DEF StartServer, RegisterReply, HandleRegisterServerReply, StoreReport
  <2>2. CASE HandleUpdateServerStatsReply(s) \/ CommitServerMode(s) \/ FailCall(s)
    BY Zenon, <1>4, <2>2, Sent
    DEF HandleUpdateServerStatsReply, CommitServerMode, FailCall
  <2>3. CASE RegisterPolicy(s) \/ RegisterStats(s) \/ RegisterCount(s)
             \/ CopyParameters(s)
    BY Zenon, <1>5, <2>3 DEF RegisterPolicy, RegisterStats, RegisterCount, CopyParameters
  <2> QED
    BY Zenon, <1>1, <1>2, <1>3, <1>6, <2>1, <2>2, <2>3 DEF ServerStep
<1>7. CASE UpdaterStep \/ CalculateLoad \/ UNCHANGED vars
  BY Zenon, <1>5, <1>7
  DEF UpdaterStep, UpdateBegin, UpdateGet, UpdatePut, UpdateEnd, CalculateLoad, vars
<1> QED
  BY Zenon, <1>6, <1>7 DEF Next

(* What the servers hold and what will be committed. *)
LEMMA HeldNext ==
  ASSUME TypeOK, StageInv, [Next]_vars, HeldInv, CountedServersHaveRecords
  PROVE  /\ held' \in [Servers -> SUBSET Modes]
         /\ \A s \in Servers : held[s] \subseteq held'[s]
         /\ \A s \in Servers : {"kMix", server'[s].mode} \subseteq held'[s]
<1> DEFINE Goal == /\ held' \in [Servers -> SUBSET Modes]
                   /\ \A s \in Servers : held[s] \subseteq held'[s]
                   /\ \A s \in Servers : {"kMix", server'[s].mode} \subseteq held'[s]
<1> USE DEF Goal
<1>0. /\ held \in [Servers -> SUBSET Modes]
      /\ \A s \in Servers : {"kMix", server[s].mode} \subseteq held[s]
  BY Zenon DEF TypeOK, HeldInv
<1>1. ASSUME NEW s \in Servers, HandleUpdateServerStatsReply(s) PROVE Goal
  <2>1. link[s].mode \in Modes
    BY Zenon, <1>1, LinkFields DEF HandleUpdateServerStatsReply
  <2>2. server'[s].mode = link[s].mode
    BY Zenon, <1>1 DEF HandleUpdateServerStatsReply, TypeOK
  <2>3. \A t \in Servers : t # s => server'[t].mode = server[t].mode
    BY Zenon, <1>1 DEF HandleUpdateServerStatsReply, TypeOK
  <2>4. held' = [held EXCEPT ![s] = @ \cup {link[s].mode}]
    BY Zenon, <1>1 DEF HandleUpdateServerStatsReply
  <2> QED
    BY Zenon, <1>0, <2>1, <2>2, <2>3, <2>4
<1>2. ASSUME UNCHANGED held,
             \A s \in Servers : server'[s].mode = server[s].mode
      PROVE  Goal
  BY Zenon, <1>0, <1>2
<1>3. ASSUME NEW s \in Servers, ServerStep(s) \/ FailCall(s) PROVE Goal
  <2>1. ASSUME UNCHANGED held, NEW pc, server' = [server EXCEPT ![s].pc = pc]
        PROVE  Goal
    <3>1. \A t \in Servers : server'[t].mode = server[t].mode
      BY Zenon, <2>1 DEF TypeOK
    <3> QED
      BY Zenon, <1>2, <2>1, <3>1
  <2>2. ASSUME UNCHANGED <<held, server>> PROVE Goal
    BY Zenon, <1>2, <2>2
  <2>3. CASE StartServer(s) \/ HandleRegisterServerReply(s) \/ SendReport(s)
             \/ SendCommit(s) \/ CommitServerMode(s) \/ FailCall(s)
    BY Zenon, <2>1, <2>3
    DEF StartServer, HandleRegisterServerReply, SendReport, SendCommit,
        CommitServerMode, FailCall
  <2>4. CASE RegisterPolicy(s) \/ RegisterStats(s) \/ RegisterCount(s)
             \/ RegisterReply(s) \/ CopyParameters(s) \/ StoreReport(s)
             \/ ReplyReport(s)
    BY Zenon, <2>2, <2>4
    DEF RegisterPolicy, RegisterStats, RegisterCount, RegisterReply, CopyParameters,
        StoreReport, ReplyReport
  <2> QED
    BY Zenon, <1>1, <1>3, <2>3, <2>4 DEF ServerStep
<1>4. CASE UpdaterStep \/ CalculateLoad \/ UNCHANGED vars
  BY Zenon, <1>2, <1>4
  DEF UpdaterStep, UpdateBegin, UpdateGet, UpdatePut, UpdateEnd, CalculateLoad, vars
<1> QED
  BY Zenon, <1>3, <1>4 DEF Next

(* A mode on its way to the controller is held; a handler's copy names the *)
(* default mode.                                                            *)
LEMMA PendingNext ==
  ASSUME TypeOK, StageInv, HeldInv, CountedServersHaveRecords, [Next]_vars
  PROVE  \A s \in Servers :
            /\ link'[s].type = "kCommitServerMode" => link'[s].mode \in held'[s]
            /\ handler'[s] # Null => /\ link'[s].type = "kUpdateServerStats"
                                     /\ handler'[s].committed = "kMix"
<1> DEFINE P(s) ==
       /\ link'[s].type = "kCommitServerMode" => link'[s].mode \in held'[s]
       /\ handler'[s] # Null => /\ link'[s].type = "kUpdateServerStats"
                                /\ handler'[s].committed = "kMix"
<1>0. /\ \A s \in Servers : held[s] \subseteq held'[s]
      /\ link \in [Servers -> Links]
      /\ handler \in [Servers -> Records \cup {Null}]
  BY Zenon, HeldNext DEF TypeOK
<1>1. ASSUME NEW s \in Servers, UNCHANGED <<link[s], handler[s]>> PROVE P(s)
  BY Zenon, <1>0, <1>1 DEF HeldInv
<1>2. ASSUME NEW s \in Servers, handler[s] = Null, UNCHANGED handler,
             link'[s].type # "kCommitServerMode"
      PROVE  P(s)
  BY Zenon, <1>2
<1>3. ASSUME NEW s \in Servers, ServerStep(s) \/ FailCall(s) PROVE \A t \in Servers : P(t)
  <2>1. ASSUME NEW t \in Servers, t # s PROVE P(t)
    <3>1. UNCHANGED <<link[t], handler[t]>>
      BY Zenon, <1>0, <1>3, <2>1
      DEF ServerStep, StartServer, RegisterPolicy, RegisterStats, RegisterCount,
          RegisterReply, HandleRegisterServerReply, SendReport, CopyParameters,
          StoreReport, ReplyReport, HandleUpdateServerStatsReply, SendCommit,
          CommitServerMode, FailCall
    <3> QED
      BY Zenon, <1>1, <2>1, <3>1
  <2>2. CASE SendCommit(s)
    <3>1. link'[s] = CommitServerModeMsg(s, server[s].mode) /\ UNCHANGED <<handler, held>>
      BY Zenon, <1>0, <2>2 DEF SendCommit
    <3>2. handler[s] = Null
      BY Zenon, <2>2 DEF SendCommit, StageInv, Stage, HeldInv
    <3> QED
      BY <2>1, <3>1, <3>2, SentTypes DEF HeldInv
  <2>3. CASE CopyParameters(s)
    <3>1. link[s].stats \in Reports /\ UNCHANGED link
      BY Zenon, <2>3, LinkFields DEF CopyParameters
    <3>2. handler'[s].committed = "kMix"
      BY Zenon, <1>0, <2>3, <3>1 DEF CopyParameters, Reports
    <3> QED
      BY Zenon, <2>1, <2>3, <3>1, <3>2 DEF CopyParameters
  <2>4. CASE StoreReport(s)
    <3>1. link'[s] = Stored /\ handler'[s] = Null
      BY Zenon, <1>0, <2>4 DEF StoreReport
    <3> QED
      BY Zenon, <2>1, <3>1, SentTypes
  <2>5. CASE StartServer(s) \/ HandleRegisterServerReply(s) \/ SendReport(s)
    <3>1. handler[s] = Null /\ UNCHANGED handler
      BY Zenon, <2>5
      DEF StartServer, HandleRegisterServerReply, SendReport, StageInv, Stage, HeldInv
    <3>2. link'[s].type # "kCommitServerMode"
      BY <1>0, <2>5, SentTypes DEF StartServer, HandleRegisterServerReply, SendReport
    <3> QED
      BY Zenon, <1>2, <2>1, <3>1, <3>2
  <2>6. CASE RegisterReply(s)
    <3>1. handler[s] = Null /\ UNCHANGED handler
      BY Zenon, <2>6, StageOfMessage DEF RegisterReply, StageInv, Stage, HeldInv
    <3>2. link'[s].type # "kCommitServerMode"
      BY Zenon, <1>0, <2>6, SentTypes DEF RegisterReply
    <3> QED
      BY Zenon, <1>2, <2>1, <3>1, <3>2
  <2>7. CASE ReplyReport(s) \/ HandleUpdateServerStatsReply(s) \/ CommitServerMode(s)
             \/ FailCall(s)
    <3>1. handler[s] = Null /\ UNCHANGED handler
      BY Zenon, <2>7
      DEF ReplyReport, HandleUpdateServerStatsReply, CommitServerMode, FailCall, HeldInv
    <3>2. link'[s].type # "kCommitServerMode"
      BY <1>0, <2>7, SentTypes
      DEF ReplyReport, HandleUpdateServerStatsReply, CommitServerMode, FailCall
    <3> QED
      BY Zenon, <1>2, <2>1, <3>1, <3>2
  <2>8. CASE RegisterPolicy(s) \/ RegisterStats(s) \/ RegisterCount(s)
    BY Zenon, <1>1, <2>8 DEF RegisterPolicy, RegisterStats, RegisterCount
  <2> QED
    BY Zenon, <1>3, <2>2, <2>3, <2>4, <2>5, <2>6, <2>7, <2>8 DEF ServerStep
<1>4. ASSUME UpdaterStep \/ CalculateLoad \/ UNCHANGED vars PROVE \A t \in Servers : P(t)
  BY Zenon, <1>1, <1>4
  DEF UpdaterStep, UpdateBegin, UpdateGet, UpdatePut, UpdateEnd, CalculateLoad, vars
<1> QED
  BY Zenon, <1>3, <1>4 DEF Next

(* What the updater has read stays a record of a listed server, and what    *)
(* that record says was committed stays held.                               *)
LEMMA UpdaterNext ==
  ASSUME TypeOK, StageInv, HeldInv, CountedServersHaveRecords, CommittedModeWasHeld,
         [Next]_vars
  PROVE  /\ upd'.pc \in {"idle", "get", "put"}
         /\ upd'.pc # "idle" => /\ upd'.i \in Nat \ {0}
                                /\ upd'.modes \in [Servers -> Modes] \cup {Unchanged}
         /\ upd'.pc = "put" => /\ upd'.i \in StatsServers' /\ upd'.got \in Records
                               /\ upd'.got.committed \in held'[upd'.i]
<1> DEFINE Goal ==
         /\ upd'.pc \in {"idle", "get", "put"}
         /\ upd'.pc # "idle" => /\ upd'.i \in Nat \ {0}
                                /\ upd'.modes \in [Servers -> Modes] \cup {Unchanged}
         /\ upd'.pc = "put" => /\ upd'.i \in StatsServers' /\ upd'.got \in Records
                               /\ upd'.got.committed \in held'[upd'.i]
<1> USE DEF Goal
<1>1. \A s \in Servers : held[s] \subseteq held'[s]
  BY Zenon, HeldNext
<1>2. StatsServers \subseteq Servers
  BY Zenon DEF StatsServers
<1>3. ASSUME UNCHANGED upd, StatsServers \subseteq StatsServers' PROVE Goal
  BY Zenon, <1>1, <1>2, <1>3 DEF TypeOK, HeldInv
<1>4. CASE UpdateBegin
  BY <1>4, DecisionTypes DEF UpdateBegin
<1>5. CASE UpdateGet
  <2>1. upd.i \in Servers /\ reg[upd.i] \in {"counted", "done"}
    BY Zenon, <1>5, CountedAreFirst DEF UpdateGet, HeldInv
  <2>2. upd.i \in StatsServers /\ StatsServers' = StatsServers /\ held' = held
    BY Zenon, <1>5, <2>1 DEF UpdateGet, StatsServers
  <2>3. rec[upd.i] \in Records /\ rec[upd.i].committed \in held[upd.i]
    BY Zenon, <2>1, <2>2 DEF TypeOK, CountedServersHaveRecords, CommittedModeWasHeld
  <2> QED
    BY Zenon, <1>5, <2>2, <2>3 DEF UpdateGet, HeldInv
<1>6. CASE UpdatePut
  BY <1>6 DEF UpdatePut, HeldInv
<1>7. CASE UpdateEnd
  BY Zenon, <1>7 DEF UpdateEnd, Idle
<1>8. ASSUME NEW s \in Servers, ServerStep(s) \/ FailCall(s) PROVE Goal
  <2>1. CASE RegisterPolicy(s) \/ RegisterStats(s) \/ RegisterCount(s) \/ RegisterReply(s)
    <3>1. StatsServers \subseteq StatsServers' /\ UNCHANGED upd
      BY Zenon, <2>1
      DEF RegisterPolicy, RegisterStats, RegisterCount, RegisterReply, StatsServers, TypeOK
    <3> QED
      BY Zenon, <1>3, <3>1
  <2>2. ASSUME UNCHANGED <<reg, upd>> PROVE Goal
    BY Zenon, <1>3, <2>2 DEF StatsServers
  <2> QED
    BY Zenon, <1>8, <2>1, <2>2
    DEF ServerStep, StartServer, HandleRegisterServerReply, SendReport, CopyParameters,
        StoreReport, ReplyReport, HandleUpdateServerStatsReply, SendCommit,
        CommitServerMode, FailCall
<1>9. CASE CalculateLoad \/ UNCHANGED vars
  BY Zenon, <1>3, <1>9 DEF CalculateLoad, vars, StatsServers
<1> QED
  BY Zenon, <1>4, <1>5, <1>6, <1>7, <1>8, <1>9 DEF Next, UpdaterStep

(* What a record says was committed is held, whoever stores the record. *)
LEMMA CommittedNext ==
  ASSUME TypeOK, StageInv, HeldInv, CountedServersHaveRecords, CommittedModeWasHeld,
         [Next]_vars
  PROVE  CommittedModeWasHeld'
<1>0. \A s \in Servers : held[s] \subseteq held'[s] /\ "kMix" \in held'[s]
  BY Zenon, HeldNext
<1>1. StatsServers \subseteq Servers
  BY Zenon DEF StatsServers
<1>2. ASSUME NEW S \in SUBSET Servers, StatsServers' \subseteq StatsServers \cup S,
             \A t \in Servers \ S : rec'[t] = rec[t],
             \A t \in S : rec'[t].committed \in held'[t]
      PROVE  CommittedModeWasHeld'
  BY Zenon, <1>0, <1>1, <1>2 DEF CommittedModeWasHeld
<1>3. ASSUME NEW s \in Servers, NEW r, rec' = [rec EXCEPT ![s] = r],
             r.committed \in held'[s], StatsServers' \subseteq StatsServers \cup {s}
      PROVE  CommittedModeWasHeld'
  <2>1. rec'[s] = r /\ \A t \in Servers \ {s} : rec'[t] = rec[t]
    BY Zenon, <1>3 DEF TypeOK
  <2> QED
    BY Zenon, <1>2, <1>3, <2>1
<1>4. ASSUME UNCHANGED rec, StatsServers' \subseteq StatsServers
      PROVE  CommittedModeWasHeld'
  BY Zenon, <1>0, <1>1, <1>4 DEF CommittedModeWasHeld
<1>5. ASSUME NEW s \in Servers, RegisterStats(s) PROVE CommittedModeWasHeld'
  <2>1. StatsServers' \subseteq StatsServers \cup {s}
    BY Zenon, <1>5 DEF RegisterStats, StatsServers, TypeOK
  <2>2. [mode |-> "kMix", committed |-> "kMix"].committed \in held'[s]
    BY Zenon, <1>0
  <2> QED
    BY Zenon, <1>3, <1>5, <2>1, <2>2 DEF RegisterStats
<1>6. ASSUME NEW s \in Servers, StoreReport(s) PROVE CommittedModeWasHeld'
  <2>1. handler[s].committed \in held'[s] /\ StatsServers' = StatsServers
    BY Zenon, <1>0, <1>6 DEF StoreReport, HeldInv, StatsServers
  <2> QED
    BY Zenon, <1>3, <1>6, <2>1 DEF StoreReport
<1>7. ASSUME NEW s \in Servers, CommitServerMode(s) PROVE CommittedModeWasHeld'
  <2>1. rec[s] \in Records /\ link[s].mode \in held'[s]
    BY Zenon, <1>7, StageOfMessage, RecordOf DEF CommitServerMode, HeldInv
  <2>2. [rec[s] EXCEPT !.committed = link[s].mode].committed \in held'[s]
    BY Zenon, <2>1 DEF Records
  <2>3. rec' = [rec EXCEPT ![s] = [rec[s] EXCEPT !.committed = link[s].mode]]
    BY Zenon, <1>7 DEF CommitServerMode
  <2>4. StatsServers' = StatsServers
    BY Zenon, <1>7 DEF CommitServerMode, StatsServers
  <2> QED
    BY Zenon, <1>3, <2>2, <2>3, <2>4
<1>8. CASE UpdatePut
  <2>1. NewRecord.committed \in held'[upd.i] /\ upd.i \in Servers
    BY Zenon, <1>8, NewRecordIs DEF UpdatePut, HeldInv
  <2>2. StatsServers' = StatsServers /\ rec' = [rec EXCEPT ![upd.i] = NewRecord]
    BY Zenon, <1>8 DEF UpdatePut, StatsServers
  <2> QED
    BY Zenon, <1>3, <2>1, <2>2
<1>9. ASSUME NEW s \in Servers, ServerStep(s) \/ FailCall(s) PROVE CommittedModeWasHeld'
  <2>1. CASE RegisterPolicy(s) \/ RegisterCount(s) \/ RegisterReply(s)
    <3>1. StatsServers' \subseteq StatsServers /\ UNCHANGED rec
      BY Zenon, <2>1 DEF RegisterPolicy, RegisterCount, RegisterReply, StatsServers, TypeOK
    <3> QED
      BY Zenon, <1>4, <3>1
  <2>2. ASSUME UNCHANGED <<reg, rec>> PROVE CommittedModeWasHeld'
    BY Zenon, <1>4, <2>2 DEF StatsServers
  <2> QED
    BY Zenon, <1>5, <1>6, <1>7, <1>9, <2>1, <2>2
    DEF ServerStep, StartServer, HandleRegisterServerReply, SendReport, CopyParameters,
        ReplyReport, HandleUpdateServerStatsReply, SendCommit, FailCall
<1>10. CASE UpdateBegin \/ UpdateGet \/ UpdateEnd \/ CalculateLoad \/ UNCHANGED vars
  BY Zenon, <1>4, <1>10
  DEF UpdateBegin, UpdateGet, UpdateEnd, CalculateLoad, vars, StatsServers
<1> QED
  BY Zenon, <1>8, <1>9, <1>10 DEF Next, UpdaterStep

(* A message that carries no operation leaves the carriers alone. *)
LEMMA CarriersFrame ==
  ASSUME TypeOK, NEW s \in Servers, NEW m, link' = [link EXCEPT ![s] = m],
         link[s].type # "kUpdateServerStats", m.type # "kUpdateServerStats"
  PROVE  Carriers' = Carriers
<1>1. link'[s] = m /\ \A t \in Servers : t # s => link'[t] = link[t]
  BY Zenon DEF TypeOK
<1> QED
  BY Zenon, <1>1 DEF Carriers

(* A report that leaves its link takes its operation with it. *)
LEMMA CarriersLeave ==
  ASSUME TypeOK, NEW s \in Servers, NEW m, link' = [link EXCEPT ![s] = m],
         link[s].type = "kUpdateServerStats", m.type # "kUpdateServerStats"
  PROVE  /\ link[s].stats.ops \in 0..1
         /\ Cardinality(Carriers) \in Nat
         /\ Cardinality(Carriers') \in Nat
         /\ Cardinality(Carriers') = Cardinality(Carriers) - link[s].stats.ops
<1>1. link'[s] = m /\ \A t \in Servers : t # s => link'[t] = link[t]
  BY Zenon DEF TypeOK
<1>2. link[s].stats.ops \in 0..1
  BY Zenon, LinkFields DEF Reports
<1>3. Carriers \in SUBSET Servers /\ Carriers' \in SUBSET Servers
  BY Zenon DEF Carriers
<1>4. CASE link[s].stats.ops = 1
  <2>1. s \in Carriers /\ Carriers' = Carriers \ {s}
    BY <1>1, <1>4 DEF Carriers
  <2> QED
    BY Zenon, <1>2, <1>3, <1>4, <2>1, ServerCount
<1>5. CASE link[s].stats.ops = 0
  <2>1. Carriers' = Carriers
    BY <1>1, <1>5 DEF Carriers
  <2>2. Cardinality(Carriers) \in Nat /\ Cardinality(Carriers') = Cardinality(Carriers)
    BY Zenon, <1>3, <2>1, ServerCount
  <2> QED
    BY <1>2, <1>5, <2>2
<1> QED
  BY <1>2, <1>4, <1>5

(* The load and the reports on their way add up to the operations. *)
LEMMA LoadNext ==
  ASSUME TypeOK, StageInv, EachReportCountedOnce, [Next]_vars
  PROVE  /\ EachReportCountedOnce'
         /\ sysOps' \in 0..MaxOps /\ ops' \in 0..MaxOps
         /\ failures' \in 0..MaxFailures
<1> DEFINE Goal == /\ EachReportCountedOnce'
                   /\ sysOps' \in 0..MaxOps /\ ops' \in 0..MaxOps
                   /\ failures' \in 0..MaxFailures
<1> USE DEF Goal
<1>1. /\ sysOps \in Nat /\ ops \in Nat /\ ops <= MaxOps /\ sysOps <= MaxOps
      /\ MaxOps \in Nat /\ MaxFailures \in Nat
      /\ failures \in Nat /\ failures <= MaxFailures
      /\ sysOps + Cardinality(Carriers) = ops
  BY ControlPlaneAssumption DEF TypeOK, EachReportCountedOnce
<1>2. Carriers \in SUBSET Servers /\ Carriers' \in SUBSET Servers
  BY Zenon DEF Carriers
<1>3. Cardinality(Carriers) \in Nat /\ Cardinality(Carriers') \in Nat
  <2>1. 1 \in Servers
    BY ControlPlaneAssumption DEF Servers
  <2> QED
    BY Zenon, <1>2, <2>1, ServerCount
<1>4. ASSUME Carriers' = Carriers, UNCHANGED <<sysOps, ops>>,
             failures' = failures \/ (failures < MaxFailures /\ failures' = failures + 1)
      PROVE  Goal
  BY <1>1, <1>4 DEF EachReportCountedOnce
<1>5. ASSUME NEW s \in Servers, SendReport(s) PROVE Goal
  <2>1. PICK n \in 0..1 :
           /\ ops + n <= MaxOps /\ ops' = ops + n
           /\ link' = [link EXCEPT ![s] = UpdateServerStatsMsg(s, GetServerStats(s, n))]
    BY Zenon, <1>5 DEF SendReport
  <2>2. UNCHANGED <<sysOps, failures>>
    BY Zenon, <1>5 DEF SendReport
  <2>3. link[s].type = "none"
    BY Zenon, <1>5 DEF SendReport, StageInv, Stage
  <2>4. /\ link'[s] = UpdateServerStatsMsg(s, GetServerStats(s, n))
        /\ \A t \in Servers : t # s => link'[t] = link[t]
    BY Zenon, <2>1 DEF TypeOK
  <2>5. link'[s].type = "kUpdateServerStats" /\ link'[s].stats.ops = n
    BY <2>4, SentTypes DEF GetServerStats
  <2>6. CASE n = 1
    <3>1. s \notin Carriers /\ Carriers' = Carriers \cup {s}
      BY Zenon, <2>3, <2>4, <2>5, <2>6 DEF Carriers
    <3>2. Cardinality(Carriers') = Cardinality(Carriers) + 1
      BY Zenon, <1>2, <3>1, ServerCount
    <3> QED
      BY <1>1, <1>3, <2>1, <2>2, <2>6, <3>2 DEF EachReportCountedOnce
  <2>7. CASE n = 0
    <3>1. Carriers' = Carriers
      BY <2>3, <2>4, <2>5, <2>7 DEF Carriers
    <3> QED
      BY <1>1, <2>1, <2>2, <2>7, <3>1 DEF EachReportCountedOnce
  <2> QED
    BY <2>6, <2>7
<1>6. ASSUME NEW s \in Servers, StoreReport(s) PROVE Goal
  <2>1. /\ link[s].stats.ops \in 0..1
        /\ Cardinality(Carriers') = Cardinality(Carriers) - link[s].stats.ops
    BY Zenon, <1>6, CarriersLeave, SentTypes DEF StoreReport
  <2>2. sysOps' = sysOps + link[s].stats.ops /\ UNCHANGED <<ops, failures>>
    BY Zenon, <1>6 DEF StoreReport
  <2> QED
    BY <1>1, <1>3, <2>1, <2>2 DEF EachReportCountedOnce
<1>7. ASSUME NEW s \in Servers, FailCall(s) PROVE Goal
  <2>1. /\ failures < MaxFailures /\ failures' = failures + 1 /\ UNCHANGED sysOps
        /\ link' = [link EXCEPT ![s] = NoMsg]
    BY Zenon, <1>7 DEF FailCall
  <2>2. CASE link[s].type = "kUpdateServerStats"
    <3>1. /\ link[s].stats.ops \in 0..1
          /\ Cardinality(Carriers') = Cardinality(Carriers) - link[s].stats.ops
      BY Zenon, <2>1, <2>2, CarriersLeave, SentTypes
    <3>2. ops' = ops - link[s].stats.ops
      BY Zenon, <1>7, <2>2 DEF FailCall
    <3> QED
      BY <1>1, <1>3, <2>1, <3>1, <3>2 DEF EachReportCountedOnce
  <2>3. CASE link[s].type # "kUpdateServerStats"
    <3>1. Carriers' = Carriers
      BY Zenon, <2>1, <2>3, CarriersFrame, SentTypes
    <3>2. ops' = ops
      BY Zenon, <1>7, <2>3 DEF FailCall
    <3> QED
      BY Zenon, <1>4, <2>1, <3>1, <3>2
  <2> QED
    BY Zenon, <2>2, <2>3
<1>8. CASE CalculateLoad
  <2>1. sysOps' = 0 /\ ops' = ops - sysOps /\ UNCHANGED <<link, failures>>
    BY Zenon, <1>8 DEF CalculateLoad
  <2>2. Carriers' = Carriers
    BY Zenon, <2>1 DEF Carriers
  <2> QED
    BY <1>1, <1>3, <2>1, <2>2 DEF EachReportCountedOnce
<1>9. ASSUME UNCHANGED <<link, sysOps, ops, failures>> PROVE Goal
  <2>1. Carriers' = Carriers
    BY Zenon, <1>9 DEF Carriers
  <2> QED
    BY Zenon, <1>4, <1>9, <2>1
<1>10. ASSUME NEW s \in Servers, ServerStep(s) PROVE Goal
  <2>1. ASSUME NEW m, link' = [link EXCEPT ![s] = m], m.type # "kUpdateServerStats",
               link[s].type # "kUpdateServerStats", UNCHANGED <<sysOps, ops, failures>>
        PROVE  Goal
    BY Zenon, <1>4, <2>1, CarriersFrame
  <2>2. CASE StartServer(s) \/ SendCommit(s)
    <3>1. link[s].type # "kUpdateServerStats"
      BY Zenon, <2>2 DEF StartServer, SendCommit, StageInv, Stage
    <3> QED
      BY <2>1, <2>2, <3>1, SentTypes DEF StartServer, SendCommit
  <2>3. CASE RegisterReply(s)
    <3>1. link[s].type # "kUpdateServerStats"
      BY Zenon, <2>3, StageOfMessage DEF RegisterReply
    <3> QED
      BY Zenon, <2>1, <2>3, <3>1, SentTypes DEF RegisterReply
  <2>4. CASE HandleRegisterServerReply(s) \/ ReplyReport(s)
             \/ HandleUpdateServerStatsReply(s) \/ CommitServerMode(s)
    BY <2>1, <2>4, SentTypes
    DEF HandleRegisterServerReply, ReplyReport, HandleUpdateServerStatsReply,
        CommitServerMode
  <2>5. CASE RegisterPolicy(s) \/ RegisterStats(s) \/ RegisterCount(s)
             \/ CopyParameters(s)
    BY Zenon, <1>9, <2>5 DEF RegisterPolicy, RegisterStats, RegisterCount, CopyParameters
  <2> QED
    BY Zenon, <1>5, <1>6, <1>10, <2>2, <2>3, <2>4, <2>5 DEF ServerStep
<1>11. CASE UpdaterStep \/ UNCHANGED vars
  BY Zenon, <1>9, <1>11 DEF UpdaterStep, UpdateBegin, UpdateGet, UpdatePut, UpdateEnd, vars
<1> QED
  BY Zenon, <1>7, <1>8, <1>10, <1>11 DEF Next

(* The stages stay stages. *)
LEMMA StageTypesNext ==
  ASSUME TypeOK, [Next]_vars
  PROVE  reg' \in [Servers -> RegStages] /\ server' \in [Servers -> [pc : ServerPCs, mode : Modes]]
<1> DEFINE Goal == /\ reg' \in [Servers -> RegStages]
                   /\ server' \in [Servers -> [pc : ServerPCs, mode : Modes]]
<1> USE DEF Goal
<1>0. /\ reg \in [Servers -> RegStages]
      /\ server \in [Servers -> [pc : ServerPCs, mode : Modes]]
  BY Zenon DEF TypeOK
<1>1. ASSUME NEW s \in Servers, NEW stage \in RegStages, UNCHANGED server,
             reg' = [reg EXCEPT ![s] = stage]
      PROVE  Goal
  BY Zenon, <1>0, <1>1
<1>2. ASSUME NEW s \in Servers, NEW pc \in ServerPCs, UNCHANGED reg,
             server' = [server EXCEPT ![s].pc = pc]
      PROVE  Goal
  BY Zenon, <1>0, <1>2
<1>3. ASSUME UNCHANGED <<reg, server>> PROVE Goal
  BY Zenon, <1>0, <1>3
<1>4. ASSUME NEW s \in Servers, ServerStep(s) \/ FailCall(s) PROVE Goal
  <2>1. CASE RegisterPolicy(s) \/ RegisterStats(s) \/ RegisterCount(s)
             \/ RegisterReply(s)
    BY Zenon, <1>1, <2>1
    DEF RegisterPolicy, RegisterStats, RegisterCount, RegisterReply, RegStages
  <2>2. CASE StartServer(s) \/ HandleRegisterServerReply(s) \/ SendReport(s)
             \/ SendCommit(s) \/ CommitServerMode(s) \/ FailCall(s)
    BY Zenon, <1>2, <2>2
    DEF StartServer, HandleRegisterServerReply, SendReport, SendCommit,
        CommitServerMode, FailCall, ServerPCs
  <2>3. CASE HandleUpdateServerStatsReply(s)
    <3>1. [pc |-> "commit", mode |-> link[s].mode] \in [pc : ServerPCs, mode : Modes]
      BY Zenon, <2>3, LinkFields DEF HandleUpdateServerStatsReply, ServerPCs
    <3> QED
      BY Zenon, <1>0, <2>3, <3>1 DEF HandleUpdateServerStatsReply
  <2>4. CASE CopyParameters(s) \/ StoreReport(s) \/ ReplyReport(s)
    BY Zenon, <1>3, <2>4 DEF CopyParameters, StoreReport, ReplyReport
  <2> QED
    BY Zenon, <1>4, <2>1, <2>2, <2>3, <2>4 DEF ServerStep
<1>5. CASE UpdaterStep \/ CalculateLoad \/ UNCHANGED vars
  BY Zenon, <1>3, <1>5
  DEF UpdaterStep, UpdateBegin, UpdateGet, UpdatePut, UpdateEnd, CalculateLoad, vars
<1> QED
  BY Zenon, <1>4, <1>5 DEF Next

(* The scheduler's loop stays on servers whose records are there. *)
LEMMA LoopHasRecords ==
  TypeOK /\ StageInv /\ (\A s \in StatsServers : rec[s] # Null)
    => \A s \in 1..num_servers : rec[s] # Null
<1> SUFFICES ASSUME TypeOK, StageInv, \A t \in StatsServers : rec[t] # Null,
                    NEW s \in 1..num_servers
             PROVE  rec[s] # Null
  BY Zenon
<1>1. s \in Nat \ {0} /\ s <= num_servers
  <2>1. num_servers \in Nat
    <3>1. 1 \in Servers
      BY ControlPlaneAssumption DEF Servers
    <3> QED
      BY Zenon, <3>1, ServerCount DEF num_servers
  <2> QED
    BY <2>1
<1>2. s \in Servers /\ reg[s] \in {"counted", "done"}
  BY Zenon, <1>1, CountedAreFirst
<1> QED
  BY Zenon, <1>2 DEF StatsServers

(* The invariant holds at first: no server is known. *)
LEMMA CtrlInvInit == Init => CtrlInv
<1> SUFFICES ASSUME Init PROVE CtrlInv
  BY Zenon
<1>1. TypeOK
  BY ControlPlaneAssumption, Sent
  DEF Init, Idle, TypeOK, RegStages, ServerPCs, Modes, Servers
<1>2. StageInv
  BY Zenon, SentTypes DEF Init, StageInv, Stage
<1>3. StatsServers = {} /\ Carriers = {}
  BY Zenon, SentTypes DEF Init, StatsServers, Carriers
<1>4. \A s \in 1..num_servers : rec[s] # Null
  BY Zenon, <1>1, <1>2, <1>3, LoopHasRecords
<1>5. CountedServersHaveRecords
  BY Zenon, <1>1, <1>3, <1>4 DEF Init, Idle, CountedServersHaveRecords
<1>6. EachReportCountedOnce
  BY <1>3, FS_EmptySet DEF Init, EachReportCountedOnce
<1>7. HeldInv
  BY Zenon, SentTypes DEF Init, Idle, HeldInv
<1> QED
  BY Zenon, <1>2, <1>3, <1>5, <1>6, <1>7 DEF CtrlInv, CommittedModeWasHeld

(* Every step keeps the invariant. *)
LEMMA CtrlInvNext == CtrlInv /\ [Next]_vars => CtrlInv'
<1> SUFFICES ASSUME CtrlInv, [Next]_vars PROVE CtrlInv'
  BY Zenon
<1>1. /\ TypeOK /\ StageInv /\ HeldInv /\ CountedServersHaveRecords
      /\ EachReportCountedOnce /\ CommittedModeWasHeld
  BY Zenon DEF CtrlInv, CountedServersHaveRecords
<1>2. StageInv' /\ CommittedModeWasHeld' /\ EachReportCountedOnce'
  BY Zenon, <1>1, StageNext, CommittedNext, LoadNext
<1>3. HeldInv'
  BY Zenon, <1>1, HeldNext, PendingNext, UpdaterNext DEF HeldInv
<1>4. TypeOK'
  BY Zenon, <1>1, RecNext, LinkNext, HeldNext, UpdaterNext, LoadNext, StageTypesNext DEF TypeOK
<1>5. (\A s \in StatsServers : rec[s] # Null)'
  BY Zenon, <1>1, RecNext
<1>6. (\A s \in 1..num_servers : rec[s] # Null)'
  BY <1>2, <1>4, <1>5, LoopHasRecords, PTL
<1>7. upd'.pc = "put" => upd'.got # Null
  BY <1>1, UpdaterNext DEF Records, Null
<1>8. CountedServersHaveRecords'
  BY Zenon, <1>4, <1>5, <1>6, <1>7 DEF CountedServersHaveRecords
<1> QED
  BY Zenon, <1>2, <1>3, <1>8 DEF CtrlInv

(* So it is an invariant of the controller, its servers and its threads. *)
THEOREM CtrlInvariance == Spec => []CtrlInv
BY CtrlInvInit, CtrlInvNext, PTL DEF Spec

(* A server that is counted has its record: neither the list of records nor *)
(* the updater's loop (ServerStatsManager, Scheduler::Update) meets an empty *)
(* one, for any number of servers that register meanwhile.                   *)
THEOREM RecordsExist == Spec => []CountedServersHaveRecords
<1>1. CtrlInv => CountedServersHaveRecords
  BY Zenon DEF CtrlInv
<1> QED
  BY <1>1, CtrlInvariance, PTL

(* The load counts what stored reports carried once, for any number of      *)
(* servers, reports and failed calls (ServerStatsManager::UpdateServerStats).*)
THEOREM ReportsCountedOnce == Spec => []EachReportCountedOnce
<1>1. CtrlInv => EachReportCountedOnce
  BY Zenon DEF CtrlInv
<1> QED
  BY <1>1, CtrlInvariance, PTL

(* The committed mode of a record is one its server has been in, whoever    *)
(* stores the record (CommitServerMode, UpdateServerStats, Update).          *)
THEOREM CommitsWereHeld == Spec => []CommittedModeWasHeld
<1>1. CtrlInv => CommittedModeWasHeld
  BY Zenon DEF CtrlInv
<1> QED
  BY <1>1, CtrlInvariance, PTL

-----------------------------------------------------------------------------
(***************************************************************************)
(* The rules of the rate limit, for every window, range of limits and set  *)
(* of threads: LimitInv is inductive, and every step that keeps it moves   *)
(* the limit by its rule and cuts it only a window after the last cut.     *)
(***************************************************************************)

(* Half of a limit that is not the least lies in the range of limits. *)
LEMMA HalfInRange ==
  ASSUME NEW l \in kBestCongestedRateLimit..kBestUncongestedRateLimit
  PROVE  LET h == IF l \div 2 > kBestCongestedRateLimit
                  THEN l \div 2 ELSE kBestCongestedRateLimit
         IN  /\ h \in kBestCongestedRateLimit..kBestUncongestedRateLimit
             /\ l \div 2 <= h
             /\ l # kBestCongestedRateLimit => h < l
BY CongestionAssumption

(* What UpdateServerRateLimit computes fits the limit and the time. *)
LEMMA RateLimitFits ==
  ASSUME LimitInv, NEW s
  PROVE  LET u == RateLimit(s)
         IN  /\ u # NoUpdate
             /\ u \in [limit : Nat, cut : BOOLEAN]
             /\ u.limit \in kBestCongestedRateLimit..kBestUncongestedRateLimit
             /\ IF u.cut THEN /\ limit \div 2 <= u.limit /\ u.limit < limit
                              /\ since = Window
                         ELSE u.limit \in {limit, limit + 1}
<1> USE CongestionAssumption
<1>1. /\ limit \in kBestCongestedRateLimit..kBestUncongestedRateLimit
      /\ since \in 0..Window /\ delay \in 0..Window /\ delay <= since
  BY Zenon DEF LimitInv, CCTypeOK
<1>2. limit \in Nat /\ limit # 0
  BY <1>1
<1>3. CASE s \in {"kUnCongested", "kCongestedUnstable"}
  <2>1. RateLimit(s) = Increase
    BY Zenon, <1>3 DEF RateLimit
  <2> QED
    BY <1>1, <1>2, <2>1 DEF NoUpdate, Increase
<1>4. CASE s = "kCongested" /\ limit # kBestCongestedRateLimit /\ delay >= Window
  <2>1. RateLimit(s) = Cut
    BY Zenon, <1>4 DEF RateLimit
  <2>2. since = Window
    BY <1>1, <1>4
  <2> DEFINE h == IF limit \div 2 > kBestCongestedRateLimit
                  THEN limit \div 2 ELSE kBestCongestedRateLimit
  <2>3. Cut = [limit |-> h, cut |-> TRUE]
    BY Zenon DEF Cut
  <2>4. /\ h \in kBestCongestedRateLimit..kBestUncongestedRateLimit
        /\ limit \div 2 <= h /\ h < limit
    BY Zenon, <1>1, <1>4, HalfInRange
  <2> HIDE DEF h
  <2>5. h \in Nat /\ Cut.limit = h /\ Cut.cut /\ Cut # NoUpdate
    BY <2>3, <2>4 DEF NoUpdate
  <2>6. Cut \in [limit : Nat, cut : BOOLEAN]
    BY Zenon, <2>3, <2>5
  <2> QED
    BY Zenon, <2>1, <2>2, <2>4, <2>5, <2>6
<1>5. CASE /\ s \notin {"kUnCongested", "kCongestedUnstable"}
           /\ ~(s = "kCongested" /\ limit # kBestCongestedRateLimit /\ delay >= Window)
  <2>1. RateLimit(s) = Keep
    BY Zenon, <1>5 DEF RateLimit
  <2> QED
    BY <1>1, <1>2, <2>1 DEF NoUpdate, Keep
<1> QED
  BY Zenon, <1>3, <1>4, <1>5

(* Storing what was computed keeps LimitInv's part about the limit. *)
LEMMA StoreKeeps ==
  ASSUME LimitInv, new # NoUpdate, Store
  PROVE  /\ limit' \in kBestCongestedRateLimit..kBestUncongestedRateLimit
         /\ since' \in 0..Window /\ delay' \in 0..Window /\ delay' <= since'
         /\ lock' = "free" /\ new' = NoUpdate
BY CongestionAssumption DEF LimitInv, CCTypeOK, Store, timeVars

(* Every step of the server, the replies, the worker and the pulls keeps *)
(* LimitInv.                                                             *)
LEMMA LimitInvNext == LimitInv /\ [CCNext]_ccVars => LimitInv'
<1> SUFFICES ASSUME LimitInv, [CCNext]_ccVars PROVE LimitInv'
  BY Zenon
<1> USE CongestionAssumption
<1>0. CCTypeOK
  BY Zenon DEF LimitInv
<1>1. ASSUME NEW r \in Ratios, Flush(r) PROVE LimitInv'
  <2>1. NextState(cong, r) \in CongestionStates
    BY Zenon, <1>0 DEF NextState, CongestionStates, CCTypeOK
  <2> QED
    BY Zenon, <1>1, <2>1 DEF Flush, LimitInv, CCTypeOK, timeVars
<1>2. CASE FlushInGrace
  BY <1>2 DEF FlushInGrace, LimitInv, CCTypeOK, timeVars, CongestionStates
<1>3. CASE UpdateServerStats
  BY Zenon, <1>3 DEF UpdateServerStats, LimitInv, CCTypeOK, timeVars
<1>4. CASE ReplyCongested
  BY <1>4 DEF ReplyCongested, LimitInv, CCTypeOK, timeVars, serverVars
<1>5. CASE WorkerBegin
  <2>1. /\ lock' = "worker" /\ new' = RateLimit(state)
        /\ UNCHANGED <<serverVars, replies, state, limit, timeVars, caller, pulled>>
    BY Zenon, <1>5 DEF WorkerBegin
  <2> QED
    BY Zenon, <2>1, RateLimitFits DEF LimitInv, CCTypeOK, timeVars, serverVars
<1>6. CASE WorkerEnd
  <2>1. new # NoUpdate /\ Store
    BY Zenon, <1>6 DEF WorkerEnd, LimitInv
  <2>2. NoUpdate \in [limit : Nat, cut : BOOLEAN]
    BY Zenon DEF NoUpdate
  <2> QED
    BY Zenon, <1>6, <2>1, <2>2, StoreKeeps DEF WorkerEnd, LimitInv, CCTypeOK, serverVars
<1>7. ASSUME NEW x \in Callers, SignalCongested(x) PROVE LimitInv'
  BY <1>7 DEF SignalCongested, LimitInv, CCTypeOK, timeVars, serverVars
<1>8. ASSUME NEW x \in Callers, SignalSlow(x) PROVE LimitInv'
  BY <1>8 DEF SignalSlow, Note, LimitInv, CCTypeOK, serverVars, CongestionStates
<1>9. ASSUME NEW x \in Callers, SignalFast(x) PROVE LimitInv'
  BY <1>9 DEF SignalFast, Note, LimitInv, CCTypeOK, serverVars, CongestionStates
<1>10. ASSUME NEW x \in Callers, SignalFastUpdate(x) PROVE LimitInv'
  <2>1. /\ lock \notin {"free", "worker"} /\ new' = RateLimit(state)
        /\ UNCHANGED <<serverVars, replies, state, limit, timeVars, lock, caller, pulled>>
    BY Zenon, <1>10 DEF SignalFastUpdate
  <2> QED
    BY Zenon, <2>1, RateLimitFits DEF LimitInv, CCTypeOK, timeVars, serverVars
<1>11. ASSUME NEW x \in Callers, SignalFastEnd(x) PROVE LimitInv'
  <2>1. new # NoUpdate /\ Store
    BY Zenon, <1>11 DEF SignalFastEnd
  <2>2. NoUpdate \in [limit : Nat, cut : BOOLEAN]
    BY Zenon DEF NoUpdate
  <2> QED
    BY Zenon, <1>11, <2>1, <2>2, StoreKeeps DEF SignalFastEnd, LimitInv, CCTypeOK, serverVars
<1>12. ASSUME NEW x \in Callers, SignalFastLate(x) PROVE LimitInv'
  BY Zenon, <1>12 DEF SignalFastLate, LimitInv, CCTypeOK, timeVars, serverVars
<1>13. CASE SetCongestionState
  BY Zenon, <1>13 DEF SetCongestionState, LimitInv, CCTypeOK, timeVars, serverVars
<1>14. CASE StoreCongestionState
  BY Zenon, <1>14 DEF StoreCongestionState, LimitInv, CCTypeOK, timeVars, serverVars
<1>15. CASE Tick
  <2>1. new # NoUpdate => ~new.cut
    BY <1>15 DEF Tick, LimitInv, CCTypeOK
  <2> QED
    BY <1>15, <2>1 DEF Tick, LimitInv, CCTypeOK, serverVars
<1>16. CASE UNCHANGED ccVars
  BY Zenon, <1>16 DEF ccVars, LimitInv, CCTypeOK
<1> QED
  BY Zenon, <1>1, <1>2, <1>3, <1>4, <1>5, <1>6, <1>7, <1>8, <1>9, <1>10, <1>11, <1>12,
     <1>13, <1>14, <1>15, <1>16 DEF CCNext, CallerStep

(* LimitInv holds in every reachable state of the congestion control. *)
THEOREM LimitInvariance == CCSpec => []LimitInv
<1>1. CCInit => LimitInv
  BY CongestionAssumption DEF CCInit, LimitInv, CCTypeOK, NoUpdate, Ratios, CongestionStates
<1> QED
  BY <1>1, LimitInvNext, PTL DEF CCSpec

(* Only the end of a critical section changes the limit. *)
LEMMA LimitChanges ==
  ASSUME LimitInv, [CCNext]_ccVars, limit' # limit
  PROVE  new # NoUpdate /\ limit' = new.limit
<1>1. CASE WorkerEnd
  BY Zenon, <1>1 DEF WorkerEnd, Store, LimitInv
<1>2. ASSUME NEW x \in Callers, SignalFastEnd(x) PROVE new # NoUpdate /\ limit' = new.limit
  BY Zenon, <1>2 DEF SignalFastEnd, Store
<1> QED
  BY Zenon, <1>1, <1>2 DEF CCNext, CallerStep, ccVars, Flush, FlushInGrace, UpdateServerStats,
     ReplyCongested, WorkerBegin, SignalCongested, SignalSlow, SignalFast,
     SignalFastUpdate, SignalFastLate, SetCongestionState, StoreCongestionState, Tick

(* The limit moves by one step up or down to half, and a cut comes a       *)
(* window or more after the one before: cc_lock_ and the two checks of     *)
(* UpdateServerRateLimit are enough, whatever the threads interleave.      *)
THEOREM LimitRules == CCSpec => LimitMovesByRule
<1>1. LimitInv /\ [CCNext]_ccVars =>
        [\/ limit' = limit
         \/ limit' = limit + 1
         \/ limit' < limit /\ limit \div 2 <= limit' /\ since = Window]_ccVars
  <2> SUFFICES ASSUME LimitInv, [CCNext]_ccVars, limit' # limit
               PROVE  \/ limit' = limit + 1
                      \/ limit' < limit /\ limit \div 2 <= limit' /\ since = Window
    BY Zenon
  <2>1. new # NoUpdate /\ limit' = new.limit
    BY Zenon, LimitChanges
  <2>2. limit \in Nat /\ limit # 0 /\ new.limit \in Nat
    BY CongestionAssumption DEF LimitInv, CCTypeOK
  <2>3. CASE new.cut
    BY Zenon, <2>1, <2>2, <2>3 DEF LimitInv
  <2>4. CASE ~new.cut
    BY Zenon, <2>1, <2>2, <2>4 DEF LimitInv
  <2> QED
    BY Zenon, <2>3, <2>4
<1> QED
  BY <1>1, LimitInvariance, PTL DEF CCSpec, LimitMovesByRule

=============================================================================
