---------------------------- MODULE PolicyWeights ----------------------------
(***************************************************************************)
(* How the control-plane policies weigh servers for reads and for writes.  *)
(*                                                                         *)
(* Of a weight the models tell apart whether it is positive, zero, or an   *)
(* entry of the array that the policy left uninitialised; the weights that *)
(* follow from the disks' peaks are computed exactly, as integers over a   *)
(* common denominator.  A policy may also fail, and the weights stay.      *)
(***************************************************************************)
EXTENDS DiskModel, FiniteSets, Functions

CONSTANT Servers    \* the entries of a weights array

WeightClasses == {"positive", "zero", "uninitialised"}
(* An error (EAGAIN, ENOTSUP): no weights, no modes. *)
Failed == <<>>

(* 1 / n for the given servers, nothing for the others. *)
EqualWeights(valid) ==
    [s \in Servers |-> IF s \in valid THEN "positive" ELSE "uninitialised"]

(* RWIsolationStrict: reads go to servers not in write mode, writes to      *)
(* servers not in read mode.                                                *)
StrictWeights(modes, op) ==
    LET filter_mode == IF op = "kRead" THEN "kWrite" ELSE "kRead"
    IN  EqualWeights({s \in DOMAIN modes : modes[s] # filter_mode})

(* RWIsolationWeak: reads go anywhere, writes to servers not in read mode. *)
WeakReadWeights(modes) == EqualWeights(DOMAIN modes)
WeakWriteWeights(modes) == EqualWeights({s \in DOMAIN modes : modes[s] # "kRead"})
WeakWeights(modes, op) ==
    IF op = "kRead" THEN WeakReadWeights(modes) ELSE WeakWriteWeights(modes)

(* AdaptiveRWIsolationWeak has the same two, over its own modes. *)
AdaptiveWeakReadWeights(modes) == EqualWeights(DOMAIN modes)
AdaptiveWeakWriteWeights(modes) ==
    EqualWeights({s \in DOMAIN modes : modes[s] # "kRead"})
AdaptiveWeakWeights(modes, op) ==
    IF op = "kRead" THEN AdaptiveWeakReadWeights(modes)
                    ELSE AdaptiveWeakWriteWeights(modes)

-----------------------------------------------------------------------------
(* ProfileGuided *)

(* The mix of a ratio of writes of zero. *)
ReadsOnly == [r |-> 1, w |-> 0]

(* The peaks of the servers in their modes, at the mix of the load. *)
Peaks(models, modes, load) ==
    [s \in DOMAIN modes |-> GetPeakIOPS(models[s], modes[s], load)]

(* The load of an operation is below 95% of what all servers can do, taking *)
(* the write curve for every server not in read mode.                       *)
UseIterativeMethod(models, modes, op, load) ==
    LET peak(s) == GetPeakIOPS(models[s],
                               IF modes[s] = "kRead" THEN "kRead" ELSE "kWrite",
                               ReadsOnly)
        capacity == MapThenSumSet(peak, DOMAIN modes)
    IN  100 * (IF op = "kRead" THEN load.r ELSE load.w) < 95 * capacity

(* Less than two servers, or no load: nothing to compute. *)
NothingToWeigh(modes, load) == Cardinality(DOMAIN modes) < 2 \/ load.r + load.w = 0

(* GetResidualLoad: the inflight operations of the other kind, which only a *)
(* server that is not in read mode has; the model leaves their number open. *)
MayHaveResidualLoad(mode) == mode # "kRead"

(* ComputeWeightsIterative, by its outcome: it gives up, or stops with      *)
(* weights that sum to one.  Each round moves weight to the server with the *)
(* best latency and scales the others down, so all stay positive, unless    *)
(* one server is the best even with all of the load: it then ends with a    *)
(* weight of one, and the others are cut to zero.                           *)
IterativeOutcomes(models, modes, op, load) ==
    LET latency(s, ops) == GetLatency(models[s], ops, op, modes[s], load)
        best == {s \in DOMAIN modes : \A t \in DOMAIN modes \ {s} :
                    latency(s, load.r + load.w) <
                       IF MayHaveResidualLoad(modes[t]) THEN kSaturationLatencyPenaltyUs
                                                        ELSE latency(t, 0)}
    IN  {[s \in Servers |-> IF s \in pos THEN "positive" ELSE "zero"] :
            pos \in {DOMAIN modes} \cup {{s} : s \in best}}

(* ComputeWeightsFromPeak before the last division: a server's share of the *)
(* capacity, plus or minus half a percent by its place above or below the   *)
(* median, clamped; over the common denominator 200 * capacity.             *)
FromPeak(peaks) ==
    LET capacity == SumFunction(peaks)
        n == Cardinality(DOMAIN peaks)
        \* loads.at(loads.size() / 2) after the sort
        rank(s) == {t \in DOMAIN peaks : peaks[t] < peaks[s]}
        median == Max({peaks[s] : s \in {t \in DOMAIN peaks :
                                           Cardinality(rank(t)) <= n \div 2}})
        share(s) == 200 * peaks[s] + IF peaks[s] >= median THEN capacity ELSE -capacity
    IN  [s \in DOMAIN peaks |-> Max({0, Min({share(s), 200 * capacity})})]

(* Equal weights when no server has capacity or all shares are zero. *)
WeightsFromPeak(peaks) ==
    LET w == FromPeak(peaks)
        equal == SumFunction(peaks) = 0 \/ SumFunction(w) = 0
    IN  [s \in Servers |-> IF s \notin DOMAIN peaks THEN "zero"
                           ELSE IF equal \/ w[s] > 0 THEN "positive" ELSE "zero"]

(* ComputeWeights: the iterative method under ever wider bounds while the   *)
(* load allows it, then the peaks.                                          *)
ProfileGuidedWeights(models, modes, op, load) ==
    IF NothingToWeigh(modes, load) THEN {Failed}
    ELSE {WeightsFromPeak(Peaks(models, modes, load))} \cup
         IF UseIterativeMethod(models, modes, op, load)
         THEN IterativeOutcomes(models, modes, op, load) ELSE {}

(* ProfileGuidedRWIsolation: the same, for writes among the servers that    *)
(* are not in read mode.                                                    *)
ProfileGuidedReadWeights(models, modes, load) ==
    ProfileGuidedWeights(models, modes, "kRead", load)
ProfileGuidedWriteWeights(models, modes, load) ==
    ProfileGuidedWeights(models,
                         Restrict(modes, {s \in DOMAIN modes : modes[s] # "kRead"}),
                         "kWrite", load)

(* What a policy may answer for an operation; NoOp always fails. *)
ComputeWeights(policy, models, modes, op, load) ==
    CASE policy = "kNoOp" -> {Failed}
      [] policy = "kRWIsolationStrict" -> {StrictWeights(modes, op)}
      [] policy = "kRWIsolationWeak" -> {WeakWeights(modes, op)}
      [] policy = "kAdaptiveRWIsolationWeak" -> {AdaptiveWeakWeights(modes, op)}
      [] policy = "kProfileGuided" -> ProfileGuidedWeights(models, modes, op, load)
      [] policy = "kProfileGuidedRWIsolation" ->
            IF op = "kRead" THEN ProfileGuidedReadWeights(models, modes, load)
                            ELSE ProfileGuidedWriteWeights(models, modes, load)

=============================================================================
