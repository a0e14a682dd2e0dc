----------------------------- MODULE Congestion -----------------------------
(***************************************************************************)
(* Congestion control between a disk server and a volume.  The server's    *)
(* flusher compares the latencies of an interval with what the disk model  *)
(* expects and moves congestion_state_ (DiskMonitor); replies carry the    *)
(* state at once and reports carry it through the controller's record.     *)
(* The volume limits its rate to the server (CongestionControl): its       *)
(* worker cuts or raises the limit once a window, and the first congested  *)
(* reply cuts it on the spot.                                              *)
(*                                                                         *)
(* The volume's arrays have an entry per server; the model follows one.    *)
(* Times are ages in ticks, Window ticks are kCongestionControlWindowUs:   *)
(* since is the age of the last cut, and delay the time from it to the     *)
(* last congested reply, 0 if there was none since.  The rate limit counts *)
(* units of kAdditiveIncreaseDelta.  What the digests of the racily filled *)
(* sample buffers make of an interval is any of the outcomes Ratios.       *)
(***************************************************************************)
EXTENDS Naturals

CONSTANTS
    Window,
    kBestUncongestedRateLimit,
    kBestCongestedRateLimit,
    Callers,            \* threads of the volume that handle replies
    MaxReplies          \* bound: congested replies under way

ASSUME CongestionAssumption ==
    /\ Window \in Nat \ {0} /\ MaxReplies \in Nat \ {0}
    /\ kBestCongestedRateLimit \in Nat \ {0}
    /\ kBestUncongestedRateLimit \in Nat
    /\ kBestCongestedRateLimit < kBestUncongestedRateLimit
    /\ Callers \cap {"free", "worker"} = {}

VARIABLES
    ratio,      \* signal_ratio_ of the last flush
    cong,       \* congestion_state_ of the server
    record,     \* the congestion state in the controller's record
    replies,    \* congested replies on their way to the volume
    state,      \* states_ of the volume for this server
    limit,      \* cc_rate_limits_
    since,      \* age of congestion_responded_at_
    delay,      \* congested_at_ - congestion_responded_at_
    lock,       \* who holds cc_lock_
    new,        \* the limit and whether it is a cut, computed by the holder
    caller,     \* caller[x]: a thread in SignalCongested
    pulled      \* the state SetCongestionState is about to store

ccVars ==
    <<ratio, cong, record, replies, state, limit, since, delay, lock, new, caller,
      pulled>>
serverVars == <<ratio, cong, record>>
timeVars == <<since, delay>>

CongestionStates == {"kUnCongested", "kCongested", "kCongestedUnstable",
                     "kCongestedStable"}

(***************************************************************************)
(* The signal ratio against kCongestedUnstableFactor, kCongestedStable-    *)
(* Factor and the congestion thresholds: at most the first, between the    *)
(* two, above both, and above a threshold.                                 *)
(***************************************************************************)
Ratios == {"low", "mid", "high", "over"}

NoUpdate == [limit |-> 0, cut |-> FALSE]

CCInit ==
    /\ ratio = "low" /\ cong = "kUnCongested" /\ record = "kUnCongested"
    /\ replies = 0
    /\ state = "kUnCongested" /\ limit = kBestUncongestedRateLimit
    /\ since = Window /\ delay = 0
    /\ lock = "free" /\ new = NoUpdate
    /\ caller = [x \in Callers |-> "idle"]
    /\ pulled = "none"

-----------------------------------------------------------------------------

(* UpdateCongestionState outside the grace period, by its cases. *)
NextState(s, r) ==
    CASE r = "over"                 -> "kCongested"
      [] s = "kCongested"           -> "kCongestedUnstable"
      [] s = "kCongestedUnstable"   -> IF r = "low" THEN s ELSE "kCongestedStable"
      [] s = "kCongestedStable"     -> IF r = "high" THEN s ELSE "kUnCongested"
      [] OTHER                      -> s

(* Flush and UpdateCongestionState with rejections enabled. *)
Flush(r) ==
    /\ ratio' = r /\ cong' = NextState(cong, r)
    /\ UNCHANGED <<record, replies, state, limit, timeVars, lock, new, caller, pulled>>

(* The same in the grace period after a change of mode. *)
FlushInGrace ==
    /\ cong' = "kUnCongested"
    /\ UNCHANGED <<ratio, record, replies, state, limit, timeVars, lock, new,
                   caller, pulled>>

(* The report reaches the controller's record. *)
UpdateServerStats ==
    /\ record' = cong
    /\ UNCHANGED <<ratio, cong, replies, state, limit, timeVars, lock, new,
                   caller, pulled>>

(* HandleStorageOp replies kSuccessCongested. *)
ReplyCongested ==
    /\ cong = "kCongested" /\ replies < MaxReplies
    /\ replies' = replies + 1
    /\ UNCHANGED <<serverVars, state, limit, timeVars, lock, new, caller, pulled>>

-----------------------------------------------------------------------------

(* The additive increase, the cut, and neither. *)
Increase == [limit |-> IF limit < kBestUncongestedRateLimit THEN limit + 1 ELSE limit,
             cut |-> FALSE]

Cut == [limit |-> IF limit \div 2 > kBestCongestedRateLimit
                  THEN limit \div 2 ELSE kBestCongestedRateLimit,
        cut |-> TRUE]

Keep == [limit |-> limit, cut |-> FALSE]

(* Mutant of RateLimit: does not wait for the last cut to take effect. *)
RateLimitImpatient(s) ==
    IF s \in {"kUnCongested", "kCongestedUnstable"} THEN Increase
    ELSE IF s = "kCongested" /\ limit # kBestCongestedRateLimit /\ delay > 0 THEN Cut
    ELSE Keep

(* Mutant of RateLimit: only an uncongested server gets its rate back. *)
RateLimitTimid(s) ==
    IF s = "kUnCongested" THEN Increase
    ELSE IF s = "kCongested" /\ limit # kBestCongestedRateLimit /\ delay >= Window THEN Cut
    ELSE Keep

(***************************************************************************)
(* UpdateServerRateLimit up to the stores: additive increase, or a cut by  *)
(* half if a congested reply came a window or more after the last cut.     *)
(***************************************************************************)
RateLimit(s) ==
    IF s \in {"kUnCongested", "kCongestedUnstable"} THEN Increase
    ELSE IF s = "kCongested" /\ limit # kBestCongestedRateLimit /\ delay >= Window THEN Cut
    ELSE Keep

(* Mutant of Store: the time of the last congested reply outlives the cut. *)
StoreKeepsDelay ==
    /\ limit' = new.limit
    /\ since' = IF new.cut THEN 0 ELSE since
    /\ lock' = "free" /\ new' = NoUpdate
    /\ UNCHANGED delay

(* Its stores, and the end of the critical section. *)
Store ==
    /\ limit' = new.limit
    /\ IF new.cut THEN since' = 0 /\ delay' = 0 ELSE UNCHANGED timeVars
    /\ lock' = "free" /\ new' = NoUpdate

(* CongestionControlWorker: UpdateAllServers, in two steps under the lock. *)
WorkerBegin ==
    /\ lock = "free"
    /\ lock' = "worker"
    /\ new' = RateLimit(state)
    /\ UNCHANGED <<serverVars, replies, state, limit, timeVars, caller, pulled>>

WorkerEnd ==
    /\ lock = "worker"
    /\ Store
    /\ state' = "kInvalid"
    /\ UNCHANGED <<serverVars, replies, caller, pulled>>

(* SignalCongested reads the state, and then takes one of its branches. *)
SignalCongested(x) ==
    /\ caller[x] = "idle" /\ replies > 0
    /\ replies' = replies - 1
    /\ caller' = [caller EXCEPT ![x] =
                      IF state = "kUnCongested" THEN "fast" ELSE "slow"]
    /\ UNCHANGED <<serverVars, state, limit, timeVars, lock, new, pulled>>

(* A congested reply is noted: state and time. *)
Note == state' = "kCongested" /\ delay' = since

(* Mutant of SignalSlow: the time is not noted. *)
SignalSlowTimeless(x) ==
    /\ caller[x] = "slow"
    /\ state' = "kCongested"
    /\ caller' = [caller EXCEPT ![x] = "idle"]
    /\ UNCHANGED <<serverVars, replies, limit, timeVars, lock, new, pulled>>

(* Without the lock: only note it. *)
SignalSlow(x) ==
    /\ caller[x] = "slow"
    /\ Note
    /\ caller' = [caller EXCEPT ![x] = "idle"]
    /\ UNCHANGED <<serverVars, replies, limit, since, lock, new, pulled>>

(* With the lock, if the state is still kUnCongested: note it ... *)
SignalFast(x) ==
    /\ caller[x] = "fast" /\ lock = "free"
    /\ state = "kUnCongested"
    /\ Note
    /\ lock' = x
    /\ UNCHANGED <<serverVars, replies, limit, since, new, caller, pulled>>

(* ... and update the limit at once. *)
SignalFastUpdate(x) ==
    /\ lock = x /\ new = NoUpdate
    /\ new' = RateLimit(state)
    /\ UNCHANGED <<serverVars, replies, state, limit, timeVars, lock, caller, pulled>>

SignalFastEnd(x) ==
    /\ lock = x /\ new # NoUpdate
    /\ Store
    /\ caller' = [caller EXCEPT ![x] = "idle"]
    /\ UNCHANGED <<serverVars, replies, state, pulled>>

(* With the lock, but somebody else was faster. *)
SignalFastLate(x) ==
    /\ caller[x] = "fast" /\ lock = "free"
    /\ state # "kUnCongested"
    /\ caller' = [caller EXCEPT ![x] = "idle"]
    /\ UNCHANGED <<serverVars, replies, state, limit, timeVars, lock, new, pulled>>

(* The pulled record meets a state the worker has invalidated ... *)
SetCongestionState ==
    /\ pulled = "none" /\ state = "kInvalid"
    /\ pulled' = record
    /\ UNCHANGED <<serverVars, replies, state, limit, timeVars, lock, new, caller>>

(* ... and replaces whatever it is by now. *)
StoreCongestionState ==
    /\ pulled # "none"
    /\ state' = pulled /\ pulled' = "none"
    /\ UNCHANGED <<serverVars, replies, limit, timeVars, lock, new, caller>>

Tick ==
    /\ since < Window
    /\ since' = since + 1
    /\ UNCHANGED <<serverVars, replies, state, limit, delay, lock, new, caller, pulled>>

CallerStep(x) ==
    \/ SignalCongested(x) \/ SignalSlow(x)
    \/ SignalFast(x) \/ SignalFastUpdate(x) \/ SignalFastEnd(x)
    \/ SignalFastLate(x)

CCNext ==
    \/ \E r \in Ratios : Flush(r)
    \/ FlushInGrace
    \/ UpdateServerStats
    \/ ReplyCongested
    \/ WorkerBegin \/ WorkerEnd
    \/ \E x \in Callers : CallerStep(x)
    \/ SetCongestionState \/ StoreCongestionState
    \/ Tick

CCSpec == CCInit /\ [][CCNext]_ccVars

(***************************************************************************)
(* Flusher, reports, pulls and the worker are periodic, replies arrive and *)
(* their threads run, the mutex is handed over in turn, and time passes.   *)
(* A flush may find the same latencies as the one before, for ever.        *)
(* There are hundreds of pulls in the window for which the worker sleeps,  *)
(* so that not all of them fall into its critical section.                 *)
(***************************************************************************)
Fairness ==
    /\ WF_ccVars(Flush(ratio)) /\ WF_ccVars(UpdateServerStats)
    /\ SF_ccVars(WorkerBegin) /\ WF_ccVars(WorkerEnd)
    /\ \A x \in Callers : SF_ccVars(CallerStep(x))
    /\ SF_ccVars(lock = "free" /\ SetCongestionState)
    /\ SF_ccVars(lock = "free" /\ StoreCongestionState)
    /\ WF_ccVars(Tick)

CCFairSpec == CCSpec /\ Fairness

-----------------------------------------------------------------------------

(* Types of the server's and the volume's congestion state. *)
CCTypeOK ==
    /\ ratio \in Ratios /\ cong \in CongestionStates /\ record \in CongestionStates
    /\ replies \in 0..MaxReplies
    /\ state \in CongestionStates \cup {"kInvalid"}
    /\ limit \in kBestCongestedRateLimit..kBestUncongestedRateLimit
    /\ since \in 0..Window /\ delay \in 0..Window
    /\ lock \in Callers \cup {"free", "worker"}
    /\ new \in [limit : Nat, cut : BOOLEAN]
    /\ caller \in [Callers -> {"idle", "fast", "slow"}]
    /\ pulled \in CongestionStates \cup {"none"}

(***************************************************************************)
(* What makes the limit's rules hold in every interleaving: what the       *)
(* holder of the lock has computed still fits the limit and the time.      *)
(***************************************************************************)
LimitInv ==
    /\ CCTypeOK
    /\ delay <= since
    /\ lock = "free" => new = NoUpdate
    /\ lock = "worker" => new # NoUpdate
    /\ new # NoUpdate =>
          /\ new.limit \in kBestCongestedRateLimit..kBestUncongestedRateLimit
          /\ IF new.cut THEN /\ limit \div 2 <= new.limit /\ new.limit < limit
                            /\ since = Window
                        ELSE new.limit \in {limit, limit + 1}

(***************************************************************************)
(* The limit moves by its rule only: one step up, or down to half, never   *)
(* back to a value that a thread read before another's cut, whatever the   *)
(* replies and the worker interleave (cc_lock_).  And it is not cut twice  *)
(* within a window, however many congested replies arrive and whichever    *)
(* thread reacts to them: "The previous action may not have taken impact   *)
(* yet."                                                                   *)
(***************************************************************************)
LimitMovesByRule ==
    [][\/ limit' = limit
       \/ limit' = limit + 1
       \/ limit' < limit /\ limit \div 2 <= limit' /\ since = Window]_ccVars

(***************************************************************************)
(* The rate comes back: once the latencies stay below what the model       *)
(* expects, the volume eventually sends at its full rate again, whatever   *)
(* state the server was left in and whatever late replies or stale records *)
(* still arrive.                                                           *)
(***************************************************************************)
RateRecovers ==
    <>[](ratio \in {"low", "mid"}) => <>[](limit = kBestUncongestedRateLimit)

(***************************************************************************)
(* The rate goes down: a server that stays congested and keeps saying so   *)
(* in its replies is eventually sent the least, although the worker        *)
(* invalidates the state and pulled records replace it.                    *)
(***************************************************************************)
CongestionIsAnswered ==
    <>[](cong = "kCongested") /\ []<>(\E x \in Callers : caller[x] # "idle")
        => <>[](limit = kBestCongestedRateLimit)

=============================================================================
