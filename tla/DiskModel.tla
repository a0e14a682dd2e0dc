------------------------------ MODULE DiskModel ------------------------------
(***************************************************************************)
(* The performance model of a disk: for reads, for writes and for some     *)
(* mixes of both, a curve of measured points (load, latency).  The models  *)
(* come from files that may be missing; loads increase along a curve.      *)
(***************************************************************************)
EXTENDS Integers, Sequences, FiniteSetsExt

CONSTANTS
    kSaturationLatencyUs,           \* a disk is saturated from here on
    kSaturationLatencyPenaltyUs     \* what the model answers at most

ASSUME DiskModelAssumption ==
    /\ kSaturationLatencyUs \in Nat /\ kSaturationLatencyPenaltyUs \in Nat
    /\ kSaturationLatencyUs <= kSaturationLatencyPenaltyUs

(* LoadModels: both pure curves are needed, of the mixes those that exist,  *)
(* in the order of their buckets (percent of writes); none is an error.     *)
LoadModels(read, write, mixes) ==
    IF read = <<>> \/ write = <<>> \/ mixes = <<>>
    THEN [ok |-> FALSE]
    ELSE [ok |-> TRUE, read |-> read, write |-> write, mix |-> mixes]

(* Along a curve that rises, loads increase and latencies do not fall. *)
IsRisingCurve(curve) ==
    /\ curve \in Seq([load : Nat, latency : Nat]) /\ curve # <<>>
    /\ \A i \in 2..Len(curve) : /\ curve[i - 1].load < curve[i].load
                                /\ curve[i - 1].latency <= curve[i].latency

(* A model that was loaded, all of whose curves rise. *)
IsRisingModel(model) ==
    /\ IsRisingCurve(model.read) /\ IsRisingCurve(model.write)
    /\ Len(model.mix) \in Nat \ {0} /\ DOMAIN model.mix = 1..Len(model.mix)
    /\ \A i \in DOMAIN model.mix : IsRisingCurve(model.mix[i].curve)

(* A mix is selected by rounding the share of writes in the load up to a    *)
(* bucket, or is the last one.                                              *)
SelectMixModel(model, mix) ==
    LET fits == {i \in DOMAIN model.mix :
                    100 * mix.w <= model.mix[i].bucket * (mix.r + mix.w)}
    IN  model.mix[IF fits = {} THEN Len(model.mix) ELSE Min(fits)].curve

(* Mutant of CurvePeakIOPS: the first saturated point itself. *)
CurvePeakIOPSSaturated(curve) ==
    LET saturated == {i \in DOMAIN curve : curve[i].latency >= kSaturationLatencyUs}
        last == IF saturated = {} THEN Len(curve) ELSE Min(saturated)
    IN  (curve[last].load * 95) \div 100

(* The load before the first saturated point, less five percent. *)
CurvePeakIOPS(curve) ==
    LET saturated == {i \in DOMAIN curve : curve[i].latency >= kSaturationLatencyUs}
        last == IF saturated = {} THEN Len(curve) ELSE Min(saturated) - 1
    IN  IF last = 0 THEN 0 ELSE (curve[last].load * 95) \div 100

(* The latency at the first measured load that is no smaller, interpolated  *)
(* from the point before it; beyond the last point, and never above it, the *)
(* penalty.  Along a segment where the latency falls, the unsigned          *)
(* difference wraps around and the answer is the penalty too.               *)
CurveLatency(load, curve) ==
    LET above == {i \in DOMAIN curve : curve[i].load >= load}
        i == Min(above)
        rise == curve[i].latency - curve[i - 1].latency
        into == load - curve[i - 1].load
        range == curve[i].load - curve[i - 1].load
        raw == IF above = {} THEN kSaturationLatencyPenaltyUs
               ELSE IF i = 1 THEN curve[1].latency
               ELSE IF rise < 0 THEN kSaturationLatencyPenaltyUs
               ELSE curve[i - 1].latency + (rise * into) \div range
    IN  Min({raw, kSaturationLatencyPenaltyUs})

(* Which curve answers for an operation on a server in a mode. *)
GetLatency(model, load, op, mode, mix) ==
    CurveLatency(load,
        IF op = "kRead" /\ mode = "kRead" THEN model.read
        ELSE IF op = "kWrite" /\ mode = "kWrite" THEN model.write
        ELSE SelectMixModel(model, mix))

GetPeakIOPS(model, mode, mix) ==
    CurvePeakIOPS(CASE mode = "kRead" -> model.read
                    [] mode = "kWrite" -> model.write
                    [] OTHER -> SelectMixModel(model, mix))

=============================================================================
