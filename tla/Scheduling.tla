----------------------------- MODULE Scheduling -----------------------------
(***************************************************************************)
(* Where requests go: the control-plane policy decides the mode and the    *)
(* weights of every server from the load (RWIsolationBase::ComputeModes    *)
(* and the ComputeWeights of the policies), and a volume selects servers   *)
(* by what it has pulled of that (data_plane::ServerStatsManager and the   *)
(* read and write schedulers).                                             *)
(*                                                                         *)
(* The steps of an update that ControlPlane takes apart are one here.  In  *)
(* return the policies are concrete, and so is the state they keep: the    *)
(* server at which the next set of writers starts, the last allocation,    *)
(* and whether the interval between two switches has passed.  A selection  *)
(* changes no state, so it is a set of outcomes in every state.            *)
(***************************************************************************)
EXTENDS PolicyWeights, Messages

CONSTANTS
    kNumReplicas,           \* replicas of a block
    kPeakWriteIOPSPerSSD,   \* what the static policies expect of a server
    Policies,               \* the control-plane scheduler types in the model
    Models,                 \* the disk model of every server
    Loads                   \* the loads [r, w] in the model

(* The types of control-plane schedulers there are. *)
SchedulerTypes == {"kNoOp", "kRWIsolationStrict", "kRWIsolationWeak",
                   "kAdaptiveRWIsolationWeak", "kProfileGuided",
                   "kProfileGuidedRWIsolation"}

ASSUME SchedulingAssumption ==
    /\ kNumReplicas \in Nat \ {0}
    /\ IsFiniteSet(Servers) /\ Servers = 1..Cardinality(Servers)
    /\ Policies \subseteq SchedulerTypes

(* The models' files have curves that rise, and no empty one. *)
ASSUME ModelsAssumption == \A s \in Servers : IsRisingModel(Models[s])

VARIABLES
    policy,     \* sched_ of the control plane, fixed by the configuration
    n,          \* servers registered: 1..n
    rw,         \* RWIsolationBase: idx, last = <<n_r, n_w>>, due
    load,       \* the system load
    rec,        \* mode and weights in the record of a server
    vol,        \* the volume: servers it knows, the modes and weights it pulled
    link        \* the message of the volume's call to the controller

vars == <<policy, n, rw, load, rec, vol, link>>

NumServers == Cardinality(Servers)
Modes == {"kMix", "kRead", "kWrite"}
Isolating == {"kRWIsolationStrict", "kRWIsolationWeak", "kAdaptiveRWIsolationWeak",
              "kProfileGuidedRWIsolation"}

(* Weights of the volume: what it pulled, or invalid before the first pull. *)
VolWeights == WeightClasses \cup {"invalid"}

(***************************************************************************)
(* The variables hold what their types say.                                *)
(***************************************************************************)
TypeOK ==
    /\ policy \in Policies /\ n \in 0..NumServers /\ load \in Loads
    /\ rw.idx \in 0..NumServers /\ rw.due \in BOOLEAN
    /\ rec \in [1..n -> [mode : Modes, kRead : WeightClasses, kWrite : WeightClasses]]
    /\ vol.known \subseteq 1..n
    /\ vol.kRead \in [Servers -> VolWeights] /\ vol.kWrite \in [Servers -> VolWeights]
    /\ vol.modes \in [Servers -> Modes]
    /\ link.type \in {"none", "kRegisterVolume", "kRegisterVolumeReply",
                      "kGetServerStats"}

(* modes_ of a volume is uninitialised until the first pull; it is used     *)
(* only together with weights that are invalid until then.                  *)
Init ==
    /\ policy \in Policies
    /\ n = 0
    /\ rw = [idx |-> 0, last |-> <<0, 0>>, due |-> FALSE]
    /\ load \in Loads
    /\ rec = <<>>
    /\ vol = [known |-> {}, modes |-> [s \in Servers |-> "kMix"],
              kRead |-> [s \in Servers |-> "invalid"],
              kWrite |-> [s \in Servers |-> "invalid"]]
    /\ link = NoMsg

-----------------------------------------------------------------------------
(* RWIsolationBase *)

(* AddServer of the policy and of the stats manager. *)
AddServer ==
    /\ n < NumServers
    /\ n' = n + 1
    /\ rw' = [rw EXCEPT !.idx = 0]
    /\ rec' = Append(rec, [mode |-> "kMix", kRead |-> "positive", kWrite |-> "positive"])
    /\ UNCHANGED <<policy, load, vol, link>>

(* What a server is expected to write: a constant, or the peak of the first *)
(* mix of its disk model (the ratio of writes defaults to zero).            *)
PeakWriteIOPS(s) ==
    IF policy \in {"kAdaptiveRWIsolationWeak", "kProfileGuidedRWIsolation"}
    THEN GetPeakIOPS(Models[s], "kMix", ReadsOnly)
    ELSE kPeakWriteIOPSPerSSD

(* The i-th server from the rotating index on. *)
ServerAt(i) == ((rw.idx + i) % n) + 1

(* What the first k servers from the rotating index on can write. *)
Handled(k) ==
    LET peak(i) == PeakWriteIOPS(ServerAt(i))
    IN  MapThenSumSet(peak, 0..(k - 1))

(* The servers needed, from the rotating index on, to handle the writes. *)
WriteDemand == Min({k \in 0..n : Handled(k) >= load.w \/ k = n})

(* Mutant of GetAllocation: no server is held back for writes beyond what   *)
(* their load asks for.                                                     *)
GetAllocationByDemand ==
    IF load.r # 0 /\ load.w # 0 THEN <<n - WriteDemand, WriteDemand>>
    ELSE IF load.r # 0 THEN <<n, 0>>
    ELSE IF load.w # 0 THEN <<0, n>>
    ELSE <<0, 0>>

(* <<n_r_servers, n_w_servers>> *)
GetAllocation ==
    LET n_w == Min({n, Max({kNumReplicas, WriteDemand + 1})})
    IN  IF load.r # 0 /\ load.w # 0 THEN <<n - n_w, n_w>>
        ELSE IF load.r # 0 THEN <<n, 0>>
        ELSE IF load.w # 0 THEN <<0, n>>
        ELSE <<0, 0>>

(* More servers for reads or for writes than before. *)
IsAllocationChanged(alloc) == alloc[1] > rw.last[1] \/ alloc[2] > rw.last[2]

(* The writers from the rotating index on, then the readers. *)
AssignModes(alloc) ==
    [s \in 1..n |-> IF \E i \in 0..(alloc[2] - 1) : s = ServerAt(i)
                    THEN "kWrite" ELSE "kRead"]

(* Mutant of NextIndex: the index does not move on. *)
NextIndexStays(alloc) == rw.idx

(* The server after the last writer, where the next writers start. *)
NextIndex(alloc) == (rw.idx + alloc[2]) % n

(* ComputeModes: the modes, if any, and the state it leaves. *)
ComputeModes ==
    LET alloc == GetAllocation
        keep == [modes |-> Failed, rw |-> rw]
    IN  IF policy \notin Isolating THEN [modes |-> Failed, rw |-> rw]
        ELSE IF n <= kNumReplicas THEN [modes |-> [s \in 1..n |-> "kMix"], rw |-> rw]
        ELSE IF alloc = <<0, 0>> THEN keep
        ELSE IF ~IsAllocationChanged(alloc) /\ ~rw.due THEN keep
        ELSE [modes |-> AssignModes(alloc),
              rw |-> [idx |-> NextIndex(alloc), last |-> alloc, due |-> FALSE]]

(* Scheduler::Update: modes first, then weights by the new modes; what      *)
(* could not be computed stays.                                             *)
Update ==
    /\ n > 0
    /\ \E cm \in {ComputeModes} :
       \E modes \in {IF cm.modes = Failed THEN [s \in 1..n |-> rec[s].mode] ELSE cm.modes} :
       \E r \in ComputeWeights(policy, Models, modes, "kRead", load),
          w \in ComputeWeights(policy, Models, modes, "kWrite", load) :
          /\ rw' = cm.rw
          /\ rec' = [s \in 1..n |->
                        [mode |-> modes[s],
                         kRead |-> IF r = Failed THEN rec[s].kRead ELSE r[s],
                         kWrite |-> IF w = Failed THEN rec[s].kWrite ELSE w[s]]]
    /\ UNCHANGED <<policy, n, load, vol, link>>

(* The interval between mode switches passes. *)
SwitchIntervalPasses ==
    /\ ~rw.due
    /\ rw' = [rw EXCEPT !.due = TRUE]
    /\ UNCHANGED <<policy, n, load, rec, vol, link>>

(* The load calculator finds another load. *)
LoadChanges ==
    /\ \E l \in Loads \ {load} : load' = l
    /\ UNCHANGED <<policy, n, rw, rec, vol, link>>

-----------------------------------------------------------------------------
(* The volume *)

ctrlVars == <<policy, n, rw, load, rec>>

(* Registration: the reply has the servers there are when the controller   *)
(* handles it, and the volume never learns of later ones.                  *)
RegisterVolume ==
    /\ vol.known = {} /\ link = NoMsg /\ n > 0
    /\ link' = RegisterVolumeMsg(1)
    /\ UNCHANGED <<ctrlVars, vol>>

HandleRegisterVolume ==
    /\ link.type = "kRegisterVolume"
    /\ link' = RegisterVolumeReplyMsg(1..n)
    /\ UNCHANGED <<ctrlVars, vol>>

HandleRegisterVolumeReply ==
    /\ link.type = "kRegisterVolumeReply"
    /\ vol' = [vol EXCEPT !.known = link.servers]
    /\ link' = NoMsg
    /\ UNCHANGED ctrlVars

(* The pull of ServerStatsUpdater. *)
UpdateServerStats ==
    /\ vol.known # {} /\ link = NoMsg
    /\ link' = GetServerStatsMsg(1)
    /\ UNCHANGED <<ctrlVars, vol>>

(* SetServerStats: what the reply has replaces what the volume had. *)
SetServerStats(stats) ==
    LET put(old, field) == [s \in Servers |-> IF s \in DOMAIN stats
                                              THEN stats[s][field] ELSE old[s]]
    IN  vol' = [vol EXCEPT !.modes = put(vol.modes, "committed"),
                           !.kRead = put(vol.kRead, "kRead"),
                           !.kWrite = put(vol.kWrite, "kWrite")]

(* The volume has the reply. *)
HandleGetServerStatsReply(reply) ==
    /\ SetServerStats(reply.stats)
    /\ link' = NoMsg

(* The controller answers with the weights as they are and the modes as     *)
(* committed: the record's or, between a report and a commit, kMix.  When   *)
(* the reply arrives changes nothing the controller sees, so the volume     *)
(* applies it in the same step.                                             *)
HandleGetServerStats ==
    /\ link.type = "kGetServerStats"
    /\ \E reported \in SUBSET (1..n) :
          HandleGetServerStatsReply(GetServerStatsReplyMsg(
             [s \in 1..n |-> [committed |-> IF s \in reported THEN "kMix" ELSE rec[s].mode,
                              kRead |-> rec[s].kRead, kWrite |-> rec[s].kWrite]]))
    /\ UNCHANGED ctrlVars

(* A weight times the rate limit of congestion control, which is positive   *)
(* and, for some set of servers, below one.  An invalid weight is the       *)
(* smallest positive number, and a smaller number is not invalid.           *)
RateLimited(weights, limited) ==
    [s \in Servers |-> IF weights[s] = "invalid" /\ s \in vol.known \cap limited
                       THEN "zero" ELSE weights[s]]

GetAllReadWeights(limited) == RateLimited(vol.kRead, limited)

(* Weights of the known servers with a property; the others are invalid. *)
FilterWeights(weights, keep) ==
    [s \in Servers |-> IF s \in keep THEN weights[s] ELSE "invalid"]

(* Servers in read mode, or all when there is none. *)
GetReadOnlyWeights(limited) ==
    LET readers == {s \in vol.known : vol.modes[s] = "kRead"}
    IN  IF readers # {} THEN FilterWeights(GetAllReadWeights(limited), readers)
                        ELSE GetAllReadWeights(limited)

(* Mutant of GetWriteWeights: one server that takes writes is enough. *)
GetWriteWeightsAny(limited) ==
    LET writers == {s \in vol.known : vol.modes[s] # "kRead"}
        all == RateLimited(vol.kWrite, limited)
    IN  IF writers # {} THEN FilterWeights(all, writers) ELSE all

(* Servers not in read mode, or all when they are too few for the replicas. *)
GetWriteWeights(limited) ==
    LET writers == {s \in vol.known : vol.modes[s] # "kRead"}
        all == RateLimited(vol.kWrite, limited)
    IN  IF Cardinality(writers) >= kNumReplicas THEN FilterWeights(all, writers)
                                                ELSE all

GetValidServers(weights) == {s \in Servers : weights[s] # "invalid"}

-----------------------------------------------------------------------------
(* Selection: the outcomes of the four data-plane schedulers *)

(* With fewer servers than replicas, the rest is filled with the first; no  *)
(* server at all leaves kInvalidServerID everywhere.                        *)
kInvalidServerID == 0
Fill(chosen) ==
    chosen \o [i \in 1..(kNumReplicas - Len(chosen)) |->
                  IF chosen = <<>> THEN kInvalidServerID ELSE chosen[1]]

(* Sequences of k distinct members of a set. *)
Draws(set, k) == {q \in [1..k -> set] : IsInjective(q)}

(* RandomWrite: any sample. *)
RandomWrite(weights) ==
    LET servers == GetValidServers(weights)
    IN  {Fill(q) : q \in Draws(servers, Min({kNumReplicas, Cardinality(servers)}))}

(* HashWrite: each time, of the servers that are left in order, the one     *)
(* that the hash of the sector selects, the hash being the same each time.  *)
Hashes == 0..5
Nth(set, k) == CHOOSE s \in set : Cardinality({t \in set : t < s}) = k
HashWrite(weights) ==
    LET servers == GetValidServers(weights)
        size == Cardinality(servers)
        left(q, i) == servers \ {q[j] : j \in 1..(i - 1)}
        hashed(q, h) == \A i \in DOMAIN q : q[i] = Nth(left(q, i), h % (size - i + 1))
    IN  IF size = kNumReplicas
        THEN {[i \in 1..size |-> Nth(servers, i - 1)]}
        ELSE {Fill(q) : q \in {d \in Draws(servers, Min({kNumReplicas, size})) :
                                 \E h \in Hashes : hashed(d, h)}}

(* WeightedWrite: draws without replacement, a weight of zero only when no  *)
(* server that is left has another; an uninitialised one may upset all.    *)
WeightedWrite(weights) ==
    LET servers == GetValidServers(weights)
        drawable(q) == \/ \E s \in servers : weights[s] = "uninitialised"
                       \/ \A i \in DOMAIN q : weights[q[i]] = "zero" =>
                             \A s \in servers : weights[s] = "positive" =>
                                \E j \in 1..(i - 1) : q[j] = s
    IN  IF Cardinality(servers) <= kNumReplicas
        THEN {Fill(q) : q \in Draws(servers, Cardinality(servers))}
        ELSE {q \in Draws(servers, kNumReplicas) : drawable(q)}

SelectWriteReplicas(limited) ==
    RandomWrite(GetWriteWeights(limited)) \cup HashWrite(GetWriteWeights(limited))
        \cup WeightedWrite(GetWriteWeights(limited))

(* RandomRead: any valid server that has the block. *)
RandomRead(weights, subset) == GetValidServers(weights) \cap subset

(* Mutant of WeightedRead: the holders of the block are not looked at. *)
WeightedReadAnywhere(weights, subset) == GetValidServers(weights)

(* WeightedRead: one of them with a weight, if there is one. *)
WeightedRead(weights, subset) ==
    LET choices == GetValidServers(weights) \cap subset
        weighed == {s \in choices : weights[s] # "zero"}
    IN  IF weighed = {} THEN choices ELSE weighed

(* Among the servers in read mode, then among all; no outcome is ENOENT. *)
SelectReadServer(subset, limited) ==
    LET orElse(first, second) == IF first # {} THEN first ELSE second
    IN  orElse(WeightedRead(GetReadOnlyWeights(limited), subset),
               WeightedRead(GetAllReadWeights(limited), subset))
        \cup orElse(RandomRead(GetReadOnlyWeights(limited), subset),
                    RandomRead(GetAllReadWeights(limited), subset))

-----------------------------------------------------------------------------

Next ==
    \/ AddServer \/ Update \/ SwitchIntervalPasses \/ LoadChanges
    \/ RegisterVolume \/ HandleRegisterVolume \/ HandleRegisterVolumeReply
    \/ UpdateServerStats \/ HandleGetServerStats

Spec == Init /\ [][Next]_vars

(* The updater runs every 100 us, so a switch that is due is made unless it *)
(* ceases to be due; time passes, and all servers register.                 *)
SwitchIsDue ==
    rw.due /\ policy \in Isolating /\ n > kNumReplicas /\ load.r > 0 /\ load.w > 0

FairSpec ==
    /\ Spec
    /\ []<>(~SwitchIsDue) \/ []<><<Update>>_vars
    /\ WF_vars(SwitchIntervalPasses)
    /\ WF_vars(AddServer)

-----------------------------------------------------------------------------
(* Properties *)

(* The sets of servers whose limit matters to a selection: a limit makes a  *)
(* difference to weights that are still invalid only.                       *)
Limits == IF \A s \in vol.known : vol.kRead[s] # "invalid" THEN {{}}
          ELSE SUBSET vol.known

(***************************************************************************)
(* Write mode comes in sets of replicas: no sequence of loads, switches    *)
(* and registrations leaves fewer than kNumReplicas servers in write mode  *)
(* beside servers in read mode.                                            *)
(***************************************************************************)
WritersComeInReplicaSets ==
    /\ TypeOK
    /\ LET writers == {s \in 1..n : rec[s].mode = "kWrite"}
       IN  writers = {} \/ Cardinality(writers) >= kNumReplicas

(***************************************************************************)
(* A write goes to different servers, none of them believed to be in read  *)
(* mode, whenever the volume knows enough servers: whatever the scheduler, *)
(* the weights and the rate limits are.  When too few servers take writes  *)
(* the selection falls back to all, and still takes different ones.        *)
(***************************************************************************)
WriteReplicasAreDistinct ==
    LET pulled == {s \in vol.known : vol.kWrite[s] # "invalid"}
        writers == {s \in pulled : vol.modes[s] # "kRead"}
    IN  /\ Cardinality(pulled) >= kNumReplicas =>
              \A limited \in Limits : \A q \in SelectWriteReplicas(limited) :
                 IsInjective(q)
        /\ Cardinality(writers) >= kNumReplicas =>
              \A limited \in Limits : \A q \in SelectWriteReplicas(limited) :
                 Range(q) \subseteq writers

(***************************************************************************)
(* A read goes to a server that holds the block, and is not given up as    *)
(* long as one of the holders has been pulled, whether or not any of them  *)
(* is in read mode.                                                        *)
(***************************************************************************)
ReadsGoToHolders ==
    \A holders \in SUBSET vol.known \ {{}}, limited \in Limits :
        /\ SelectReadServer(holders, limited) \subseteq holders
        /\ (\E s \in holders : vol.kRead[s] # "invalid") =>
               SelectReadServer(holders, limited) # {}

(***************************************************************************)
(* The peak load of a disk, by which servers are counted and weighed, is   *)
(* one at which its own model does not call it saturated, for every mode   *)
(* and the mix of the present load, when latency rises along the curves.   *)
(***************************************************************************)
PeakLoadIsServable ==
    \A s \in 1..n : \A mode \in Modes :
        LET peak == GetPeakIOPS(Models[s], mode, load)
            op == IF mode = "kRead" THEN "kRead" ELSE "kWrite"
        IN  peak > 0 /\ load # [r |-> 0, w |-> 0] =>
               GetLatency(Models[s], peak, op, mode, load) < kSaturationLatencyUs

(***************************************************************************)
(* No server is left out of writing: under a steady load of reads and      *)
(* writes, an isolating policy with enough servers puts every server into  *)
(* write mode again and again, because the set of writers rotates.         *)
(***************************************************************************)
EveryServerTakesWrites ==
    (policy \in Isolating /\ <>[](load.r > 0 /\ load.w > 0)) =>
        \A s \in Servers : []<>(s \in DOMAIN rec /\ rec[s].mode = "kWrite")

=============================================================================
