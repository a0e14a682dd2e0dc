--------------------------- MODULE SchedulingProofs ---------------------------
(***************************************************************************)
(* That writers come in sets of replicas, that writes are spread over      *)
(* different servers and reads go to holders, and that the peak of a disk  *)
(* is a load it serves: for any number of servers and replicas, any loads, *)
(* any policies and any models whose curves rise.  The last part is about  *)
(* the disk servers that take the operations, and the reports by which     *)
(* they are scheduled (DiskServer).                                        *)
(***************************************************************************)
EXTENDS Scheduling, DiskServer, FiniteSetTheorems, TLAPS

(* A set of natural numbers has a least element, which Min chooses. *)
LEMMA LeastNat ==
  ASSUME NEW S \in SUBSET Nat, S # {}
  PROVE  Min(S) \in S /\ \A x \in S : Min(S) <= x
<1>1. PICK m \in S : \A x \in S : ~(<<x, m>> \in OpToRel(<, Nat))
  BY Zenon, NatLessThanWellFounded, WFMin
<1>r. PICK R : R = OpToRel(<, Nat)
  BY Zenon
<1>2. R = {p \in Nat \X Nat : p[1] < p[2]}
  BY <1>r, Zenon DEF OpToRel
<1>3. \A x \in S : <<x, m>> \notin R
  BY Zenon, <1>1, <1>r
<1>4. ASSUME NEW x \in S PROVE m <= x
  <2>p. PICK p : p = <<x, m>>
    BY Zenon
  <2>1. p \in Nat \X Nat /\ p[1] = x /\ p[2] = m /\ p \notin R
    BY Zenon, <1>3, <2>p
  <2>2. ~(p[1] < p[2])
    BY Zenon, <1>2, <2>1
  <2> QED
    BY <2>1, <2>2
<1> QED
  BY Zenon, <1>4 DEF Min

(* The smaller of two numbers. *)
LEMMA MinOfTwo ==
  ASSUME NEW a \in Int, NEW b \in Int
  PROVE  Min({a, b}) = IF a <= b THEN a ELSE b
<1>1. PICK m : m = IF a <= b THEN a ELSE b
  BY Zenon
<1>2. m \in {a, b} /\ \A y \in {a, b} : m <= y
  BY <1>1
<1>3. \A x \in {a, b} : (\A y \in {a, b} : x <= y) => x = m
  BY <1>1
<1> QED
  BY Zenon, <1>1, <1>2, <1>3 DEF Min

(* The larger of two numbers. *)
LEMMA MaxOfTwo ==
  ASSUME NEW a \in Int, NEW b \in Int
  PROVE  Max({a, b}) = IF a >= b THEN a ELSE b
<1>1. PICK m : m = IF a >= b THEN a ELSE b
  BY Zenon
<1>2. m \in {a, b} /\ \A y \in {a, b} : m >= y
  BY <1>1
<1>3. \A x \in {a, b} : (\A y \in {a, b} : x >= y) => x = m
  BY <1>1
<1> QED
  BY Zenon, <1>1, <1>2, <1>3 DEF Max

(* Once around: the remainder of a number below twice the modulus. *)
LEMMA Around ==
  ASSUME NEW m \in Nat \ {0}, NEW a \in Nat, a < m + m
  PROVE  a % m = IF a < m THEN a ELSE a - m
OBVIOUS

(* The servers from an index on are different until they come around. *)
LEMMA Rotation ==
  ASSUME NEW m \in Nat \ {0}, NEW x \in 0..m, NEW i \in 0..(m - 1), NEW j \in 0..(m - 1),
         (x + i) % m = (x + j) % m
  PROVE  i = j
<1>a. PICK a, b : a = x + i /\ b = x + j
  BY Zenon
<1>1. a \in Nat /\ b \in Nat /\ a < m + m /\ b < m + m
  BY <1>a
<1>2. /\ a % m = IF a < m THEN a ELSE a - m
      /\ b % m = IF b < m THEN b ELSE b - m
  BY Zenon, <1>1, Around
<1>p. PICK p, q : p = a % m /\ q = b % m
  BY Zenon
<1>3. p = q
  BY Zenon, <1>a, <1>p
<1>4. /\ p = IF a < m THEN a ELSE a - m
      /\ q = IF b < m THEN b ELSE b - m
  BY Zenon, <1>2, <1>p
<1> QED
  BY <1>1, <1>3, <1>4, <1>a

(* The writes' demand is a number of servers. *)
LEMMA DemandType ==
  ASSUME n \in Nat
  PROVE  WriteDemand \in 0..n
<1>s. PICK S : S = {k \in 0..n : Handled(k) >= load.w \/ k = n}
  BY Zenon
<1>1. S \in SUBSET Nat /\ S # {} /\ S \subseteq 0..n
  BY <1>s
<1>2. Min(S) \in 0..n
  BY Zenon, <1>1, LeastNat
<1> QED
  BY Zenon, <1>2, <1>s DEF WriteDemand

(* Beyond the number of replicas, all or none of a set of replicas write. *)
LEMMA AllocationBounds ==
  ASSUME n \in Nat, n > kNumReplicas
  PROVE  /\ GetAllocation \in Nat \X Nat
         /\ GetAllocation[2] = 0 \/ GetAllocation[2] \in kNumReplicas..n
<1>d. PICK d : d = WriteDemand
  BY Zenon
<1>1. d \in 0..n /\ kNumReplicas \in Nat \ {0}
  BY Zenon, <1>d, DemandType, SchedulingAssumption
<1>m. PICK m : m = Max({kNumReplicas, d + 1})
  BY Zenon
<1>2. m \in Nat /\ m >= kNumReplicas
  BY <1>1, <1>m, MaxOfTwo
<1>w. PICK w : w = Min({n, m})
  BY Zenon
<1>3. w \in kNumReplicas..n
  BY <1>1, <1>2, <1>w, MinOfTwo
<1>4. GetAllocation = IF load.r # 0 /\ load.w # 0 THEN <<n - w, w>>
                      ELSE IF load.r # 0 THEN <<n, 0>>
                      ELSE IF load.w # 0 THEN <<0, n>>
                      ELSE <<0, 0>>
  BY Zenon, <1>d, <1>m, <1>w DEF GetAllocation
<1>5. n - w \in Nat /\ w \in Nat
  BY <1>1, <1>3
<1> QED
  BY <1>1, <1>3, <1>4, <1>5

-----------------------------------------------------------------------------
(* The invariant *)

Record == [mode : Modes, kRead : WeightClasses, kWrite : WeightClasses]
VolState == [known : SUBSET Servers, modes : [Servers -> Modes],
             kRead : [Servers -> VolWeights], kWrite : [Servers -> VolWeights]]

(* The controller's state has its types; the rotating index is at a server. *)
Typed ==
    /\ policy \in Policies /\ n \in 0..NumServers /\ load \in Loads
    /\ rw = [idx |-> rw.idx, last |-> rw.last, due |-> rw.due]
    /\ rw.idx \in 0..n /\ rw.due \in BOOLEAN
    /\ rec \in [1..n -> Record]

(* Servers in write mode, by their records: none, or enough for a block. *)
Writers(r) == {s \in DOMAIN r : r[s].mode = "kWrite"}
Whole(r) == Writers(r) = {} \/ Cardinality(Writers(r)) >= kNumReplicas

(***************************************************************************)
(* What is under way between the volume and the controller: it registers   *)
(* before it knows a server, and pulls once it knows some.                 *)
(***************************************************************************)
Linked ==
    \/ link = NoMsg
    \/ link = RegisterVolumeMsg(1) /\ vol.known = {} /\ n > 0
    \/ \E S \in SUBSET (1..n) : /\ link = RegisterVolumeReplyMsg(S)
                                /\ vol.known = {} /\ S # {}
    \/ link = GetServerStatsMsg(1) /\ vol.known # {}

(* A pull has the weights of all servers the volume knows. *)
Pulled ==
    /\ vol \in VolState /\ vol.known \subseteq 1..n
    /\ \/ \A s \in Servers : vol.kRead[s] = "invalid" /\ vol.kWrite[s] = "invalid"
       \/ /\ vol.known # {}
          /\ \A s \in vol.known : vol.kRead[s] # "invalid" /\ vol.kWrite[s] # "invalid"

SchedInv == Typed /\ Whole(rec) /\ Linked /\ Pulled

(* Servers are numbered from one on. *)
LEMMA ServersAreNumbers ==
  NumServers \in Nat /\ Servers = 1..NumServers /\ IsFiniteSet(Servers)
BY Zenon, SchedulingAssumption, FS_CardinalityType DEF NumServers

(* Whatever the policy, it fails or weighs every server. *)
LEMMA WeightsType ==
  ASSUME NEW p \in SchedulerTypes, NEW models, NEW modes, NEW op, NEW l,
         NEW w \in ComputeWeights(p, models, modes, op, l)
  PROVE  w = Failed \/ w \in [Servers -> WeightClasses]
<1>1. \A valid : EqualWeights(valid) \in [Servers -> WeightClasses]
  BY Zenon DEF EqualWeights, WeightClasses
<1>2. \A peaks : WeightsFromPeak(peaks) \in [Servers -> WeightClasses]
  BY Zenon DEF WeightsFromPeak, WeightClasses
<1>3. \A ms, o : IterativeOutcomes(models, ms, o, l) \subseteq [Servers -> WeightClasses]
  BY Zenon DEF IterativeOutcomes, WeightClasses
<1>4. \A ms, o : ProfileGuidedWeights(models, ms, o, l)
                   \subseteq {Failed} \cup [Servers -> WeightClasses]
  BY Zenon, <1>2, <1>3 DEF ProfileGuidedWeights
<1>5. CASE p = "kNoOp"
  BY Zenon, <1>5 DEF ComputeWeights
<1>6. CASE p = "kRWIsolationStrict"
  BY Zenon, <1>1, <1>6 DEF ComputeWeights, StrictWeights
<1>7. CASE p = "kRWIsolationWeak"
  BY Zenon, <1>1, <1>7 DEF ComputeWeights, WeakWeights, WeakReadWeights, WeakWriteWeights
<1>8. CASE p = "kAdaptiveRWIsolationWeak"
  BY Zenon, <1>1, <1>8 DEF ComputeWeights, AdaptiveWeakWeights, AdaptiveWeakReadWeights,
                    AdaptiveWeakWriteWeights
<1>9. CASE p = "kProfileGuided"
  BY Zenon, <1>4, <1>9 DEF ComputeWeights
<1>10. CASE p = "kProfileGuidedRWIsolation"
  BY Zenon, <1>4, <1>10 DEF ComputeWeights, ProfileGuidedReadWeights, ProfileGuidedWriteWeights
<1> QED
  BY Zenon, <1>5, <1>6, <1>7, <1>8, <1>9, <1>10 DEF SchedulerTypes

(* Modes of which none or enough are for writing. *)
WholeModes(modes) ==
    /\ modes \in [1..n -> Modes]
    /\ LET writers == {s \in 1..n : modes[s] = "kWrite"}
       IN  writers = {} \/ Cardinality(writers) >= kNumReplicas

(* The writers that are assigned are as many as were allocated. *)
LEMMA AssignedModes ==
  ASSUME n \in Nat, rw.idx \in 0..n, NEW a, a[2] = 0 \/ a[2] \in kNumReplicas..n,
         n > kNumReplicas
  PROVE  WholeModes(AssignModes(a))
<1>m. PICK m : m = AssignModes(a)
  BY Zenon
<1>0. kNumReplicas \in Nat \ {0} /\ n \in Nat \ {0}
  BY SchedulingAssumption
<1>1. /\ m \in [1..n -> Modes]
      /\ \A s \in 1..n : m[s] = "kWrite" <=> \E i \in 0..(a[2] - 1) : s = ServerAt(i)
  BY Zenon, <1>m DEF AssignModes, Modes
<1>w. PICK W : W = {s \in 1..n : m[s] = "kWrite"}
  BY Zenon
<1>2. CASE a[2] = 0
  <2>1. 0..(a[2] - 1) = {}
    BY <1>2
  <2>2. W = {}
    BY Zenon, <1>1, <1>w, <2>1
  <2> QED
    BY Zenon, <1>1, <1>m, <1>w, <2>2 DEF WholeModes
<1>3. CASE a[2] \in kNumReplicas..n
  <2>k. PICK k : k = a[2]
    BY Zenon
  <2>0. k \in Nat /\ kNumReplicas <= k /\ k <= n
    BY <1>0, <1>3, <2>k
  <2>i. PICK x : x = rw.idx
    BY Zenon
  <2>f. PICK f : f = [i \in 0..(k - 1) |-> ((x + i) % n) + 1]
    BY Zenon
  <2>1. \A i \in 0..(k - 1) : (x + i) % n \in 0..(n - 1)
    BY <1>0, <2>0, <2>i
  <2>2. \A i \in 0..(k - 1) : f[i] \in W
    <3> SUFFICES ASSUME NEW i \in 0..(k - 1) PROVE f[i] \in W
      BY Zenon
    <3>y. PICK y : y = (x + i) % n
      BY Zenon
    <3>1. y \in 0..(n - 1) /\ f[i] = y + 1
      BY Zenon, <2>1, <2>f, <3>y
    <3>2. f[i] \in 1..n
      BY <1>0, <3>1
    <3>3. f[i] = ServerAt(i)
      BY Zenon, <2>f, <2>i DEF ServerAt
    <3> QED
      BY Zenon, <1>1, <1>w, <2>k, <3>2, <3>3
  <2>3. \A i, j \in 0..(k - 1) : f[i] = f[j] => i = j
    <3> SUFFICES ASSUME NEW i \in 0..(k - 1), NEW j \in 0..(k - 1), f[i] = f[j]
                 PROVE  i = j
      BY Zenon
    <3>y. PICK y, z : y = (x + i) % n /\ z = (x + j) % n
      BY Zenon
    <3>1. y \in 0..(n - 1) /\ z \in 0..(n - 1) /\ f[i] = y + 1 /\ f[j] = z + 1
      BY Zenon, <2>1, <2>f, <3>y
    <3>2. y = z
      <4>1. y + 1 = z + 1
        BY <3>1, Zenon
      <4>2. y \in Int /\ z \in Int
        BY <1>0, <3>1
      <4> QED
        BY <4>1, <4>2
    <3>3. i \in 0..(n - 1) /\ j \in 0..(n - 1) /\ x \in 0..n
      BY <1>0, <2>0, <2>i
    <3>4. (x + i) % n = (x + j) % n
      BY Zenon, <3>2, <3>y
    <3> QED
      BY Zenon, <1>0, <3>3, <3>4, Rotation
  <2>4. f \in Injection(0..(k - 1), W)
    BY Zenon, <2>2, <2>3, <2>f DEF Injection, IsInjective
  <2>5. IsFiniteSet(W)
    <3>1. IsFiniteSet(1..n) /\ W \in SUBSET (1..n)
      BY <1>0, <1>w, FS_Interval
    <3> QED
      BY Zenon, <3>1, FS_Subset
  <2>6. Cardinality(0..(k - 1)) <= Cardinality(W)
    BY Zenon, <2>4, <2>5, FS_Injection
  <2>7. Cardinality(0..(k - 1)) = k
    <3>1. k - 1 \in Int /\ ~(0 > k - 1)
      BY <1>0, <2>0
    <3>2. Cardinality(0..(k - 1)) = (k - 1) - 0 + 1
      BY <3>1, FS_Interval
    <3> QED
      BY <2>0, <3>2
  <2>8. Cardinality(W) >= kNumReplicas
    <3>1. Cardinality(W) \in Nat
      BY Zenon, <2>5, FS_CardinalityType
    <3> QED
      BY <1>0, <2>0, <2>6, <2>7, <3>1
  <2> QED
    BY Zenon, <1>1, <1>m, <1>w, <2>8 DEF WholeModes
<1> QED
  BY Zenon, <1>2, <1>3

(* The state of the policy: a rotating index at a server. *)
Rotating(r) == /\ r = [idx |-> r.idx, last |-> r.last, due |-> r.due]
               /\ r.idx \in 0..n /\ r.due \in BOOLEAN

(* What ComputeModes answers, and what it leaves. *)
LEMMA ComputedModes ==
  ASSUME Typed, n > 0, NEW cm, cm = ComputeModes
  PROVE  /\ Rotating(cm.rw)
         /\ cm.modes = Failed \/ WholeModes(cm.modes)
<1>a. PICK a : a = GetAllocation
  BY Zenon
<1>0. /\ n \in Nat \ {0} /\ kNumReplicas \in Nat \ {0} /\ Rotating(rw) /\ rw.idx \in 0..n
  BY ServersAreNumbers, SchedulingAssumption DEF Typed, Rotating
<1>1. ASSUME cm.modes = Failed, cm.rw = rw
      PROVE  Rotating(cm.rw) /\ (cm.modes = Failed \/ WholeModes(cm.modes))
  BY Zenon, <1>0, <1>1
<1>2. ASSUME cm.modes = [s \in 1..n |-> "kMix"], cm.rw = rw
      PROVE  Rotating(cm.rw) /\ (cm.modes = Failed \/ WholeModes(cm.modes))
  <2>1. {s \in 1..n : cm.modes[s] = "kWrite"} = {} /\ cm.modes \in [1..n -> Modes]
    BY Zenon, <1>2 DEF Modes
  <2> QED
    BY Zenon, <1>0, <1>2, <2>1 DEF WholeModes
<1>3. ASSUME n > kNumReplicas, cm.modes = AssignModes(a),
             cm.rw = [idx |-> NextIndex(a), last |-> a, due |-> FALSE]
      PROVE  Rotating(cm.rw) /\ (cm.modes = Failed \/ WholeModes(cm.modes))
  <2>1. a \in Nat \X Nat /\ (a[2] = 0 \/ a[2] \in kNumReplicas..n)
    BY Zenon, <1>0, <1>3, <1>a, AllocationBounds
  <2>2. WholeModes(cm.modes)
    BY Zenon, <1>0, <1>3, <2>1, AssignedModes
  <2>x. PICK x, k : x = rw.idx /\ k = a[2]
    BY Zenon
  <2>3. x \in Nat /\ k \in Nat
    BY <1>0, <2>1, <2>x
  <2>y. PICK y : y = x + k
    BY Zenon
  <2>4. y % n \in 0..(n - 1)
    BY <1>0, <2>3, <2>y
  <2>5. NextIndex(a) \in 0..n
    <3>1. NextIndex(a) = y % n
      BY Zenon, <2>x, <2>y DEF NextIndex
    <3> QED
      BY <1>0, <2>4, <3>1
  <2>6. Rotating(cm.rw)
    BY <1>3, <2>5 DEF Rotating
  <2> QED
    BY Zenon, <2>2, <2>6
<1>4. \/ cm.modes = Failed /\ cm.rw = rw
      \/ cm.modes = [s \in 1..n |-> "kMix"] /\ cm.rw = rw
      \/ /\ n > kNumReplicas /\ cm.modes = AssignModes(a)
         /\ cm.rw = [idx |-> NextIndex(a), last |-> a, due |-> FALSE]
  BY <1>0, <1>a DEF ComputeModes
<1> QED
  BY Zenon, <1>1, <1>2, <1>3, <1>4

(* Records with modes of which none or enough are for writing. *)
LEMMA WholeRecords ==
  ASSUME NEW r \in [1..n -> Record], NEW m, WholeModes(m), \A s \in 1..n : r[s].mode = m[s]
  PROVE  Whole(r)
<1>1. Writers(r) = {s \in 1..n : m[s] = "kWrite"}
  BY Zenon DEF Writers
<1> QED
  BY Zenon, <1>1 DEF Whole, WholeModes

(* The records' own modes. *)
LEMMA OwnModes ==
  ASSUME Typed, Whole(rec)
  PROVE  WholeModes([s \in 1..n |-> rec[s].mode])
<1>m. PICK m : m = [s \in 1..n |-> rec[s].mode]
  BY Zenon
<1>1. m \in [1..n -> Modes] /\ {s \in 1..n : m[s] = "kWrite"} = Writers(rec)
  BY Zenon, <1>m DEF Typed, Record, Writers
<1> QED
  BY Zenon, <1>1, <1>m DEF Whole, WholeModes

(* Scheduler::Update. *)
LEMMA UpdateKeeps ==
  ASSUME SchedInv, Update
  PROVE  SchedInv'
<1>0. Typed /\ Whole(rec) /\ n > 0 /\ UNCHANGED <<policy, n, load, vol, link>>
  BY Zenon DEF SchedInv, Update
<1>c. PICK cm \in {ComputeModes} :
       \E modes \in {IF cm.modes = Failed THEN [s \in 1..n |-> rec[s].mode] ELSE cm.modes} :
       \E r \in ComputeWeights(policy, Models, modes, "kRead", load),
          w \in ComputeWeights(policy, Models, modes, "kWrite", load) :
          /\ rw' = cm.rw
          /\ rec' = [s \in 1..n |->
                        [mode |-> modes[s],
                         kRead |-> IF r = Failed THEN rec[s].kRead ELSE r[s],
                         kWrite |-> IF w = Failed THEN rec[s].kWrite ELSE w[s]]]
  BY Zenon DEF Update
<1>m. PICK m \in {IF cm.modes = Failed THEN [s \in 1..n |-> rec[s].mode] ELSE cm.modes} :
       \E r \in ComputeWeights(policy, Models, m, "kRead", load),
          w \in ComputeWeights(policy, Models, m, "kWrite", load) :
          /\ rw' = cm.rw
          /\ rec' = [s \in 1..n |->
                        [mode |-> m[s],
                         kRead |-> IF r = Failed THEN rec[s].kRead ELSE r[s],
                         kWrite |-> IF w = Failed THEN rec[s].kWrite ELSE w[s]]]
  BY <1>c, Zenon
<1>1. PICK r \in ComputeWeights(policy, Models, m, "kRead", load),
           w \in ComputeWeights(policy, Models, m, "kWrite", load) :
          /\ rw' = cm.rw
          /\ rec' = [s \in 1..n |->
                        [mode |-> m[s],
                         kRead |-> IF r = Failed THEN rec[s].kRead ELSE r[s],
                         kWrite |-> IF w = Failed THEN rec[s].kWrite ELSE w[s]]]
  BY <1>m, Zenon
<1>2. Rotating(cm.rw) /\ (cm.modes = Failed \/ WholeModes(cm.modes))
  BY Zenon, <1>0, <1>c, ComputedModes
<1>3. WholeModes(m)
  BY Zenon, <1>0, <1>2, <1>m, OwnModes
<1>4. /\ r = Failed \/ r \in [Servers -> WeightClasses]
      /\ w = Failed \/ w \in [Servers -> WeightClasses]
  <2>1. policy \in SchedulerTypes
    BY Zenon, <1>0, SchedulingAssumption DEF Typed
  <2> QED
    BY Zenon, <1>1, <2>1, WeightsType
<1>5. 1..n \subseteq Servers
  BY <1>0, ServersAreNumbers DEF Typed
<1>6. rec' \in [1..n -> Record] /\ \A s \in 1..n : rec'[s].mode = m[s]
  <2>1. \A s \in 1..n : /\ m[s] \in Modes
                        /\ (IF r = Failed THEN rec[s].kRead ELSE r[s]) \in WeightClasses
                        /\ (IF w = Failed THEN rec[s].kWrite ELSE w[s]) \in WeightClasses
    BY Zenon, <1>0, <1>3, <1>4, <1>5 DEF Typed, Record, WholeModes
  <2> QED
    BY Zenon, <1>1, <2>1 DEF Record
<1>7. Whole(rec')
  BY Zenon, <1>3, <1>6, WholeRecords
<1>8. Typed'
  BY Zenon, <1>0, <1>1, <1>2, <1>6 DEF Typed, Rotating, NumServers
<1>9. Linked' /\ Pulled'
  BY Zenon, <1>0 DEF SchedInv, Linked, Pulled
<1> QED
  BY Zenon, <1>7, <1>8, <1>9 DEF SchedInv, Whole, Writers

(* AddServer. *)
LEMMA AddServerKeeps ==
  ASSUME SchedInv, AddServer
  PROVE  SchedInv'
<1>e. PICK e : e = [mode |-> "kMix", kRead |-> "positive", kWrite |-> "positive"]
  BY Zenon
<1>0. /\ n \in Nat /\ n < NumServers /\ n' = n + 1 /\ NumServers \in Nat
      /\ rw' = [rw EXCEPT !.idx = 0] /\ rec' = Append(rec, e)
      /\ UNCHANGED <<policy, load, vol, link>>
  BY <1>e, ServersAreNumbers DEF SchedInv, Typed, AddServer
<1>1. e \in Record /\ e.mode = "kMix"
  BY Zenon, <1>e DEF Record, Modes, WeightClasses
<1>2. rec \in Seq(Record) /\ Len(rec) = n /\ rec \in [1..n -> Record]
  BY <1>0 DEF SchedInv, Typed
<1>3. /\ rec' \in [1..(n + 1) -> Record]
      /\ \A s \in 1..n : rec'[s] = rec[s]
      /\ rec'[n + 1] = e
  <2>1. rec' \in Seq(Record) /\ Len(rec') = n + 1
    BY <1>0, <1>1, <1>2
  <2>2. \A s \in 1..n : rec'[s] = rec[s]
    BY <1>0, <1>2
  <2>3. rec'[n + 1] = e
    BY <1>0, <1>2
  <2> QED
    BY <2>1, <2>2, <2>3
<1>4. Writers(rec') = Writers(rec)
  <2>1. DOMAIN rec' = 1..(n + 1) /\ DOMAIN rec = 1..n
    BY Zenon, <1>2, <1>3
  <2>2. \A s : s \in 1..(n + 1) <=> s \in 1..n \/ s = n + 1
    BY <1>0
  <2> QED
    BY Zenon, <1>1, <1>3, <2>1, <2>2 DEF Writers
<1>5. Whole(rec')
  BY Zenon, <1>4 DEF SchedInv, Whole
<1>6. /\ rw' = [idx |-> rw'.idx, last |-> rw'.last, due |-> rw'.due]
      /\ rw'.idx \in 0..n' /\ rw'.due \in BOOLEAN
  <2>r. PICK l, d : rw = [idx |-> rw.idx, last |-> l, due |-> d] /\ d \in BOOLEAN
    BY Zenon DEF SchedInv, Typed
  <2>1. rw' = [idx |-> 0, last |-> l, due |-> d]
    BY <1>0, <2>r
  <2>2. 0 \in 0..n'
    BY <1>0
  <2> QED
    BY Zenon, <2>1, <2>2, <2>r
<1>7. Typed'
  <2>1. n' \in 0..NumServers
    BY <1>0
  <2> QED
    BY Zenon, <1>0, <1>3, <1>6, <2>1 DEF SchedInv, Typed, NumServers
<1>8. 1..n \subseteq 1..n'
  BY <1>0
<1>9. Pulled'
  BY Zenon, <1>0, <1>8 DEF SchedInv, Pulled
<1>10. Linked'
  <2>1. n > 0 => n' > 0
    BY <1>0
  <2> QED
    BY Zenon, <1>0, <1>8, <2>1 DEF SchedInv, Linked
<1> QED
  BY Zenon, <1>5, <1>7, <1>9, <1>10 DEF SchedInv, Whole, Writers

(* The interval passes, or the load changes. *)
LEMMA TimeKeeps ==
  ASSUME SchedInv, SwitchIntervalPasses \/ LoadChanges
  PROVE  SchedInv'
<1>0. /\ UNCHANGED <<policy, n, rec, vol, link>> /\ load' \in Loads
      /\ rw' = rw \/ rw' = [rw EXCEPT !.due = TRUE]
  BY Zenon DEF SchedInv, Typed, SwitchIntervalPasses, LoadChanges
<1>1. /\ rw' = [idx |-> rw'.idx, last |-> rw'.last, due |-> rw'.due]
      /\ rw'.idx \in 0..n /\ rw'.due \in BOOLEAN
  <2>r. PICK x, l, d : rw = [idx |-> x, last |-> l, due |-> d] /\ x \in 0..n /\ d \in BOOLEAN
    BY Zenon DEF SchedInv, Typed
  <2>1. PICK e \in BOOLEAN : rw' = [idx |-> x, last |-> l, due |-> e]
    <3>1. rw' = rw \/ rw' = [idx |-> x, last |-> l, due |-> TRUE]
      BY Zenon, <1>0, <2>r
    <3> QED
      BY Zenon, <2>r, <3>1
  <2>2. rw'.idx = x /\ rw'.last = l /\ rw'.due = e
    BY Zenon, <2>1
  <2> QED
    BY Zenon, <2>1, <2>2, <2>r
<1>2. Typed'
  BY Zenon, <1>0, <1>1 DEF SchedInv, Typed, NumServers
<1>3. Whole(rec') /\ Linked' /\ Pulled'
  BY Zenon, <1>0 DEF SchedInv, Linked, Pulled
<1> QED
  BY Zenon, <1>2, <1>3 DEF SchedInv, Whole, Writers

(* The messages, by their types. *)
LEMMA MessageTypes ==
  /\ NoMsg.type = "none"
  /\ RegisterVolumeMsg(1).type = "kRegisterVolume"
  /\ \A S : RegisterVolumeReplyMsg(S).type = "kRegisterVolumeReply"
  /\ \A S : RegisterVolumeReplyMsg(S).servers = S
  /\ GetServerStatsMsg(1).type = "kGetServerStats"
BY Zenon DEF NoMsg, RegisterVolumeMsg, RegisterVolumeReplyMsg, GetServerStatsMsg

(* A step of the volume leaves the controller alone. *)
LEMMA ControllerStays ==
  ASSUME SchedInv, UNCHANGED ctrlVars
  PROVE  Typed' /\ Whole(rec)'
BY Zenon DEF ctrlVars, SchedInv, Typed, Whole, Writers, NumServers

(* The volume registers, or asks for the statistics. *)
LEMMA AskKeeps ==
  ASSUME SchedInv, RegisterVolume \/ HandleRegisterVolume \/ UpdateServerStats
  PROVE  SchedInv'
<1>0. UNCHANGED ctrlVars /\ vol' = vol /\ n' = n
  BY Zenon DEF RegisterVolume, HandleRegisterVolume, UpdateServerStats, ctrlVars
<1>1. Typed' /\ Whole(rec)' /\ Pulled'
  BY Zenon, <1>0, ControllerStays DEF SchedInv, Pulled
<1>2. ASSUME RegisterVolume PROVE Linked'
  BY Zenon, <1>0, <1>2 DEF RegisterVolume, Linked
<1>3. ASSUME HandleRegisterVolume PROVE Linked'
  <2>1. /\ link = RegisterVolumeMsg(1) /\ vol.known = {} /\ n > 0
        /\ link' = RegisterVolumeReplyMsg(1..n)
    BY Zenon, <1>3, MessageTypes DEF HandleRegisterVolume, SchedInv, Linked
  <2>2. 1..n \in SUBSET (1..n) /\ 1..n # {}
    <3>1. n \in Nat
      BY ServersAreNumbers DEF SchedInv, Typed
    <3> QED
      BY <2>1, <3>1
  <2> QED
    BY Zenon, <1>0, <2>1, <2>2 DEF Linked
<1>4. ASSUME UpdateServerStats PROVE Linked'
  BY Zenon, <1>0, <1>4 DEF UpdateServerStats, Linked
<1> QED
  BY Zenon, <1>1, <1>2, <1>3, <1>4 DEF SchedInv

(* The volume learns of the servers. *)
LEMMA KnowKeeps ==
  ASSUME SchedInv, HandleRegisterVolumeReply
  PROVE  SchedInv'
<1>0. UNCHANGED ctrlVars /\ n' = n /\ link' = NoMsg /\ vol' = [vol EXCEPT !.known = link.servers]
  BY Zenon DEF HandleRegisterVolumeReply, ctrlVars
<1>1. PICK S \in SUBSET (1..n) : link = RegisterVolumeReplyMsg(S) /\ vol.known = {} /\ S # {}
  BY Zenon, MessageTypes DEF HandleRegisterVolumeReply, SchedInv, Linked
<1>2. link.servers = S /\ S \in SUBSET Servers
  <2>1. 1..n \subseteq Servers
    BY ServersAreNumbers DEF SchedInv, Typed
  <2> QED
    BY Zenon, <1>1, <2>1, MessageTypes
<1>3. vol \in VolState
  BY Zenon DEF SchedInv, Pulled
<1>4. /\ vol' \in VolState /\ vol'.known = S /\ vol'.kRead = vol.kRead /\ vol'.kWrite = vol.kWrite
  BY Zenon, <1>0, <1>2, <1>3 DEF VolState
<1>5. \A s \in Servers : vol.kRead[s] = "invalid" /\ vol.kWrite[s] = "invalid"
  BY Zenon, <1>1 DEF SchedInv, Pulled
<1>6. Pulled'
  BY Zenon, <1>0, <1>4, <1>5 DEF Pulled
<1>7. Linked'
  BY Zenon, <1>0 DEF Linked
<1> QED
  BY Zenon, <1>0, <1>6, <1>7, ControllerStays DEF SchedInv

(* The volume has the weights of all servers it knows. *)
LEMMA PullKeeps ==
  ASSUME SchedInv, HandleGetServerStats
  PROVE  SchedInv'
<1>0. UNCHANGED ctrlVars /\ n' = n /\ link' = NoMsg /\ vol.known # {}
  <2>1. link = GetServerStatsMsg(1) /\ vol.known # {}
    BY Zenon, MessageTypes DEF HandleGetServerStats, SchedInv, Linked
  <2> QED
    BY Zenon, <2>1 DEF HandleGetServerStats, HandleGetServerStatsReply, ctrlVars
<1>1. PICK rep \in SUBSET (1..n) :
         HandleGetServerStatsReply(GetServerStatsReplyMsg(
             [s \in 1..n |-> [committed |-> IF s \in rep THEN "kMix" ELSE rec[s].mode,
                              kRead |-> rec[s].kRead, kWrite |-> rec[s].kWrite]]))
  BY Zenon DEF HandleGetServerStats
<1>s. PICK st : st = [s \in 1..n |-> [committed |-> IF s \in rep THEN "kMix" ELSE rec[s].mode,
                                      kRead |-> rec[s].kRead, kWrite |-> rec[s].kWrite]]
  BY Zenon
<1>2. SetServerStats(st)
  <2>1. GetServerStatsReplyMsg(st).stats = st
    BY Zenon DEF GetServerStatsReplyMsg
  <2>2. HandleGetServerStatsReply(GetServerStatsReplyMsg(st))
    BY Zenon, <1>1, <1>s
  <2> QED
    BY Zenon, <2>1, <2>2 DEF HandleGetServerStatsReply
<1>3. /\ rec \in [1..n -> Record] /\ 1..n \subseteq Servers
      /\ vol \in VolState /\ vol.known \subseteq 1..n
  BY ServersAreNumbers DEF SchedInv, Typed, Pulled
<1>4. /\ DOMAIN st = 1..n
      /\ \A s \in 1..n : /\ st[s]["committed"] \in Modes
                         /\ st[s]["kRead"] \in WeightClasses /\ st[s]["kWrite"] \in WeightClasses
  BY Zenon, <1>3, <1>s DEF Record, Modes
<1>a. PICK a, b, c :
        /\ a = [s \in Servers |-> IF s \in DOMAIN st THEN st[s]["committed"] ELSE vol.modes[s]]
        /\ b = [s \in Servers |-> IF s \in DOMAIN st THEN st[s]["kRead"] ELSE vol.kRead[s]]
        /\ c = [s \in Servers |-> IF s \in DOMAIN st THEN st[s]["kWrite"] ELSE vol.kWrite[s]]
  BY Zenon
<1>5. vol' = [vol EXCEPT !.modes = a, !.kRead = b, !.kWrite = c]
  BY Zenon, <1>2, <1>a DEF SetServerStats
<1>6. /\ a \in [Servers -> Modes] /\ b \in [Servers -> VolWeights] /\ c \in [Servers -> VolWeights]
      /\ \A s \in 1..n : b[s] \in WeightClasses /\ c[s] \in WeightClasses
  BY Zenon, <1>3, <1>4, <1>a DEF VolState, VolWeights
<1>7. vol' \in VolState /\ vol'.known = vol.known /\ vol'.kRead = b /\ vol'.kWrite = c
  BY Zenon, <1>3, <1>5, <1>6 DEF VolState
<1>8. Pulled'
  <2>1. \A w \in WeightClasses : w # "invalid"
    BY Zenon DEF WeightClasses
  <2>2. \A s \in vol'.known : vol'.kRead[s] # "invalid" /\ vol'.kWrite[s] # "invalid"
    BY Zenon, <1>3, <1>6, <1>7, <2>1
  <2> QED
    BY Zenon, <1>0, <1>3, <1>7, <2>2 DEF Pulled
<1>9. Linked'
  BY Zenon, <1>0 DEF Linked
<1> QED
  BY Zenon, <1>0, <1>8, <1>9, ControllerStays DEF SchedInv

(* Nothing is registered at the beginning. *)
LEMMA SchedInvInit == Init => SchedInv
<1> SUFFICES ASSUME Init PROVE SchedInv
  BY Zenon
<1>1. 1..0 = {} /\ 0 \in 0..NumServers /\ 0 \in 0..0
  BY ServersAreNumbers
<1>2. <<>> \in [1..0 -> Record] /\ DOMAIN <<>> = {}
  BY <1>1
<1>3. Typed
  BY Zenon, <1>1, <1>2 DEF Init, Typed
<1>4. Whole(rec)
  <2>1. Writers(rec) = {}
    BY Zenon, <1>2 DEF Init, Writers
  <2> QED
    BY Zenon, <2>1 DEF Whole
<1>5. Linked
  BY Zenon DEF Init, Linked
<1>6. Pulled
  BY Zenon DEF Init, Pulled, VolState, VolWeights, Modes
<1> QED
  BY Zenon, <1>3, <1>4, <1>5, <1>6 DEF SchedInv

(* Every step keeps the invariant. *)
LEMMA SchedInvNext == SchedInv /\ [Next]_vars => SchedInv'
<1> SUFFICES ASSUME SchedInv, [Next]_vars PROVE SchedInv'
  BY Zenon
<1>1. CASE UNCHANGED vars
  <2>1. UNCHANGED ctrlVars /\ n' = n /\ vol' = vol /\ link' = link
    BY Zenon, <1>1 DEF vars, ctrlVars
  <2>2. Linked' /\ Pulled'
    BY Zenon, <2>1 DEF SchedInv, Linked, Pulled
  <2> QED
    BY Zenon, <2>1, <2>2, ControllerStays DEF SchedInv
<1> QED
  BY Zenon, <1>1, AddServerKeeps, UpdateKeeps, TimeKeeps, AskKeeps, KnowKeeps,
     PullKeeps DEF Next

(* The invariant of the policies' state and of what the volume has pulled. *)
THEOREM SchedulingInvariance == Spec => []SchedInv
BY SchedInvInit, SchedInvNext, PTL DEF Spec

(***************************************************************************)
(* No sequence of loads, switches and registrations leaves fewer servers   *)
(* in write mode than a block has replicas, unless there is none           *)
(* (RWIsolationBase::GetAllocation and ComputeModes).                      *)
(***************************************************************************)
THEOREM WritersAreReplicaSets == Spec => []WritersComeInReplicaSets
<1>1. SchedInv => WritersComeInReplicaSets
  <2> SUFFICES ASSUME SchedInv PROVE WritersComeInReplicaSets
    BY Zenon
  <2>0. n \in 0..NumServers /\ NumServers \in Nat /\ rw.idx \in 0..n
    BY Zenon, ServersAreNumbers DEF SchedInv, Typed
  <2>1. rw.idx \in 0..NumServers
    BY <2>0
  <2>2. /\ vol.known \subseteq 1..n
        /\ vol.kRead \in [Servers -> VolWeights] /\ vol.kWrite \in [Servers -> VolWeights]
        /\ vol.modes \in [Servers -> Modes]
    BY Zenon DEF SchedInv, Pulled, VolState
  <2>3. link.type \in {"none", "kRegisterVolume", "kRegisterVolumeReply", "kGetServerStats"}
    BY Zenon, MessageTypes DEF SchedInv, Linked
  <2>4. TypeOK
    BY Zenon, <2>1, <2>2, <2>3 DEF SchedInv, Typed, TypeOK, Record
  <2>5. Writers(rec) = {s \in 1..n : rec[s].mode = "kWrite"}
    BY Zenon DEF SchedInv, Typed, Writers
  <2> QED
    BY Zenon, <2>4, <2>5 DEF SchedInv, Whole, WritersComeInReplicaSets
<1> QED
  BY <1>1, SchedulingInvariance, PTL

-----------------------------------------------------------------------------
(* Reads *)

(* A read that finds a holder among all servers goes to a holder. *)
LEMMA ReadHolder ==
  ASSUME NEW subset, NEW limited, subset \subseteq Servers
  PROVE  /\ SelectReadServer(subset, limited) \subseteq subset
         /\ (\E s \in subset : GetAllReadWeights(limited)[s] # "invalid") =>
               SelectReadServer(subset, limited) # {}
<1>w. PICK a, b : a = GetReadOnlyWeights(limited) /\ b = GetAllReadWeights(limited)
  BY Zenon
<1>1. \A w : WeightedRead(w, subset) \subseteq subset /\ RandomRead(w, subset) \subseteq subset
  BY Zenon DEF WeightedRead, RandomRead
<1>2. \A w : (\E s \in subset : w[s] # "invalid") => RandomRead(w, subset) # {}
  BY Zenon DEF RandomRead, GetValidServers
<1>3. /\ SelectReadServer(subset, limited) \subseteq
           WeightedRead(a, subset) \cup WeightedRead(b, subset)
             \cup RandomRead(a, subset) \cup RandomRead(b, subset)
      /\ RandomRead(b, subset) # {} => SelectReadServer(subset, limited) # {}
  BY Zenon, <1>w DEF SelectReadServer
<1> QED
  BY Zenon, <1>1, <1>2, <1>3, <1>w

(***************************************************************************)
(* A read goes to a server that holds the block, and is not given up while *)
(* a holder has been pulled, whatever the modes, the weights and the rate  *)
(* limits are (the SelectReadServer of the data-plane schedulers).         *)
(***************************************************************************)
THEOREM ReadsAreServedByHolders == Spec => []ReadsGoToHolders
<1>1. SchedInv => ReadsGoToHolders
  <2> SUFFICES ASSUME SchedInv, NEW holders \in SUBSET vol.known \ {{}}, NEW limited \in Limits
               PROVE  /\ SelectReadServer(holders, limited) \subseteq holders
                      /\ (\E s \in holders : vol.kRead[s] # "invalid") =>
                             SelectReadServer(holders, limited) # {}
    BY Zenon DEF ReadsGoToHolders
  <2>1. holders \subseteq Servers
    BY Zenon DEF SchedInv, Pulled, VolState
  <2>2. \A s \in holders : vol.kRead[s] # "invalid" => GetAllReadWeights(limited)[s] # "invalid"
    BY Zenon, <2>1 DEF GetAllReadWeights, RateLimited
  <2> QED
    BY Zenon, <2>1, <2>2, ReadHolder
<1> QED
  BY <1>1, SchedulingInvariance, PTL

-----------------------------------------------------------------------------
(* Writes *)

(* The elements of a finite set of numbers have ranks. *)
LEMMA NthElement ==
  ASSUME NEW S \in SUBSET Int, IsFiniteSet(S), NEW k \in 0..(Cardinality(S) - 1)
  PROVE  Nth(S, k) \in S /\ Cardinality({t \in S : t < Nth(S, k)}) = k
<1> DEFINE below(s) == {t \in S : t < s}
<1>c. PICK c : c = Cardinality(S)
  BY Zenon
<1>r. PICK rank : rank = [s \in S |-> Cardinality(below(s))]
  BY Zenon
<1>0. c \in Nat
  BY Zenon, <1>c, FS_CardinalityType
<1>1. \A s \in S : IsFiniteSet(below(s)) /\ Cardinality(below(s)) \in 0..(c - 1)
  <2> SUFFICES ASSUME NEW s \in S
               PROVE  IsFiniteSet(below(s)) /\ Cardinality(below(s)) \in 0..(c - 1)
    BY Zenon
  <2>1. below(s) \in SUBSET S /\ s \notin below(s)
    OBVIOUS
  <2>2. /\ IsFiniteSet(below(s)) /\ Cardinality(below(s)) <= c
        /\ c = Cardinality(below(s)) => S = below(s)
    <3> HIDE DEF below
    <3> QED
      BY Zenon, <1>c, <2>1, FS_Subset
  <2>3. Cardinality(below(s)) \in Nat
    <3> HIDE DEF below
    <3> QED
      BY Zenon, <2>2, FS_CardinalityType
  <2>4. Cardinality(below(s)) # c
    <3> HIDE DEF below
    <3> QED
      BY Zenon, <2>1, <2>2
  <2> QED
    BY <1>0, <2>2, <2>3, <2>4
<1>2. \A s, t \in S : s < t => Cardinality(below(s)) < Cardinality(below(t))
  <2> SUFFICES ASSUME NEW s \in S, NEW t \in S, s < t
               PROVE  Cardinality(below(s)) < Cardinality(below(t))
    BY Zenon
  <2>0. s \in Int /\ t \in Int /\ ~(s < s) /\ \A u \in Int : u < s => u < t
    OBVIOUS
  <2>1. below(s) \in SUBSET below(t) /\ s \in below(t) /\ s \notin below(s)
    BY Zenon, <2>0
  <2> HIDE DEF below
  <2>2. /\ Cardinality(below(s)) <= Cardinality(below(t))
        /\ Cardinality(below(t)) = Cardinality(below(s)) => below(t) = below(s)
    BY Zenon, <1>1, <2>1, FS_Subset
  <2>3. Cardinality(below(t)) # Cardinality(below(s))
    BY Zenon, <2>1, <2>2
  <2>4. Cardinality(below(t)) \in Int /\ Cardinality(below(s)) \in Int
    BY <1>0, <1>1
  <2> QED
    BY <2>2, <2>3, <2>4
<1>3. rank \in Injection(S, 0..(c - 1))
  <2>1. rank \in [S -> 0..(c - 1)]
    BY Zenon, <1>1, <1>r
  <2>2. \A s, t \in S : rank[s] = rank[t] => s = t
    <3> SUFFICES ASSUME NEW s \in S, NEW t \in S, rank[s] = rank[t], s # t PROVE FALSE
      BY Zenon
    <3>1. s < t \/ t < s
      OBVIOUS
    <3>2. rank[s] < rank[t] \/ rank[t] < rank[s]
      BY Zenon, <1>2, <1>r, <3>1
    <3>3. rank[s] \in Int
      BY <1>0, <2>1
    <3> QED
      BY <3>2, <3>3
  <2> QED
    BY Zenon, <2>1, <2>2 DEF Injection, IsInjective
<1>4. IsFiniteSet(0..(c - 1)) /\ Cardinality(0..(c - 1)) = c
  <2>1. c - 1 \in Int /\ 0 \in Int
    BY <1>0
  <2>2. /\ IsFiniteSet(0..(c - 1))
        /\ Cardinality(0..(c - 1)) = IF 0 > c - 1 THEN 0 ELSE (c - 1) - 0 + 1
    BY Zenon, <2>1, FS_Interval
  <2> QED
    BY <1>0, <2>2
<1>5. rank \in Surjection(S, 0..(c - 1))
  BY Zenon, <1>3, <1>4, <1>c, FS_Injection
<1>6. PICK s \in S : rank[s] = k
  BY Zenon, <1>5, <1>c DEF Surjection
<1>7. Cardinality({t \in S : t < s}) = k
  BY Zenon, <1>6, <1>r
<1> QED
  BY Zenon, <1>7 DEF Nth

(* Nothing is filled in when enough servers were drawn. *)
LEMMA NothingToFill ==
  ASSUME NEW S, NEW q \in Draws(S, kNumReplicas)
  PROVE  Fill(q) = q
<1>0. kNumReplicas \in Nat \ {0}
  BY Zenon, SchedulingAssumption
<1>1. q \in [1..kNumReplicas -> S]
  BY Zenon DEF Draws
<1>2. q \in Seq(S) /\ Len(q) = kNumReplicas
  BY <1>0, <1>1
<1>3. 1..(kNumReplicas - Len(q)) = {}
  BY <1>0, <1>2
<1>e. PICK e : e = [i \in 1..(kNumReplicas - Len(q)) |->
                       IF q = <<>> THEN kInvalidServerID ELSE q[1]]
  BY Zenon
<1>4. e = <<>>
  BY <1>3, <1>e
<1>5. q \o <<>> = q
  BY <1>2
<1> QED
  BY Zenon, <1>4, <1>5, <1>e DEF Fill

(* When there are enough servers, each scheduler draws different ones. *)
LEMMA SelectionsAreDraws ==
  ASSUME NEW w, NEW V, V = GetValidServers(w), Cardinality(V) >= kNumReplicas
  PROVE  /\ RandomWrite(w) \subseteq Draws(V, kNumReplicas)
         /\ HashWrite(w) \subseteq Draws(V, kNumReplicas)
         /\ WeightedWrite(w) \subseteq Draws(V, kNumReplicas)
<1>0. kNumReplicas \in Nat \ {0}
  BY Zenon, SchedulingAssumption
<1>1. V \in SUBSET Int /\ IsFiniteSet(V)
  <2>1. V \in SUBSET Servers
    BY Zenon DEF GetValidServers
  <2> QED
    BY <2>1, ServersAreNumbers, FS_Subset
<1>c. PICK c : c = Cardinality(V)
  BY Zenon
<1>2. c \in Nat /\ c >= kNumReplicas
  BY Zenon, <1>1, <1>c, FS_CardinalityType
<1>3. Min({kNumReplicas, c}) = kNumReplicas
  BY <1>0, <1>2, MinOfTwo
<1>4. \A q \in Draws(V, kNumReplicas) : Fill(q) \in Draws(V, kNumReplicas)
  BY Zenon, NothingToFill
<1>5. RandomWrite(w) \subseteq Draws(V, kNumReplicas)
  BY Zenon, <1>3, <1>4, <1>c DEF RandomWrite
<1>6. HashWrite(w) \subseteq Draws(V, kNumReplicas)
  <2>1. CASE c # kNumReplicas
    BY Zenon, <1>3, <1>4, <1>c, <2>1 DEF HashWrite
  <2>2. CASE c = kNumReplicas
    <3>q. PICK q : q = [i \in 1..c |-> Nth(V, i - 1)]
      BY Zenon
    <3>1. HashWrite(w) = {q}
      BY Zenon, <1>c, <2>2, <3>q DEF HashWrite
    <3>2. \A i \in 1..c : /\ Nth(V, i - 1) \in V
                          /\ Cardinality({t \in V : t < Nth(V, i - 1)}) = i - 1
      <4> SUFFICES ASSUME NEW i \in 1..c
                   PROVE  /\ Nth(V, i - 1) \in V
                          /\ Cardinality({t \in V : t < Nth(V, i - 1)}) = i - 1
        BY Zenon
      <4>k. PICK k : k = i - 1
        BY Zenon
      <4>1. k \in 0..(Cardinality(V) - 1)
        BY <1>2, <1>c, <4>k
      <4>2. Nth(V, k) \in V /\ Cardinality({t \in V : t < Nth(V, k)}) = k
        BY Zenon, <1>1, <4>1, NthElement
      <4> QED
        BY Zenon, <4>2, <4>k
    <3>3. q \in [1..kNumReplicas -> V]
      BY Zenon, <2>2, <3>2, <3>q
    <3>4. \A i, j \in 1..c : q[i] = q[j] => i = j
      <4> SUFFICES ASSUME NEW i \in 1..c, NEW j \in 1..c, q[i] = q[j] PROVE i = j
        BY Zenon
      <4>1. i - 1 = j - 1
        BY Zenon, <3>2, <3>q
      <4> QED
        BY <1>2, <4>1
    <3>5. q \in Draws(V, kNumReplicas)
      BY Zenon, <2>2, <3>3, <3>4 DEF Draws, IsInjective
    <3> QED
      BY Zenon, <3>1, <3>5
  <2> QED
    BY Zenon, <2>1, <2>2
<1>7. WeightedWrite(w) \subseteq Draws(V, kNumReplicas)
  <2>1. CASE c <= kNumReplicas
    <3>1. c = kNumReplicas
      BY <1>0, <1>2, <2>1
    <3>2. WeightedWrite(w) = {Fill(q) : q \in Draws(V, kNumReplicas)}
      BY Zenon, <1>c, <2>1, <3>1 DEF WeightedWrite
    <3> QED
      BY Zenon, <1>4, <3>2
  <2>2. CASE ~(c <= kNumReplicas)
    BY Zenon, <1>c, <2>2 DEF WeightedWrite
  <2> QED
    BY Zenon, <2>1, <2>2
<1> QED
  BY Zenon, <1>5, <1>6, <1>7

(***************************************************************************)
(* A write goes to different servers whenever the volume has pulled the    *)
(* weights of enough, and to none it believes in read mode whenever enough *)
(* of them are in another (ServerStatsManager::GetWriteWeights and the     *)
(* write schedulers).                                                      *)
(***************************************************************************)
THEOREM WritesAreSpread == Spec => []WriteReplicasAreDistinct
<1>1. SchedInv => WriteReplicasAreDistinct
  <2> SUFFICES ASSUME SchedInv PROVE WriteReplicasAreDistinct
    BY Zenon
  <2>p. PICK P, W : /\ P = {s \in vol.known : vol.kWrite[s] # "invalid"}
                    /\ W = {s \in P : vol.modes[s] # "kRead"}
    BY Zenon
  <2>0. /\ kNumReplicas \in Nat \ {0} /\ vol.known \subseteq Servers
        /\ vol.kWrite \in [Servers -> VolWeights]
    BY Zenon, SchedulingAssumption DEF SchedInv, Pulled, VolState
  <2>1. IsFiniteSet(P) /\ IsFiniteSet(W) /\ P \in SUBSET Servers /\ W \in SUBSET P
    <3>1. P \in SUBSET Servers /\ W \in SUBSET P
      BY Zenon, <2>0, <2>p
    <3>2. IsFiniteSet(P)
      BY Zenon, <3>1, ServersAreNumbers, FS_Subset
    <3> QED
      BY Zenon, <3>1, <3>2, FS_Subset
  <2>2. Cardinality(P) \in Nat /\ Cardinality(W) \in Nat /\ Cardinality(W) <= Cardinality(P)
    BY Zenon, <2>1, FS_CardinalityType, FS_Subset
  <2>3. ASSUME Cardinality(P) >= kNumReplicas, NEW limited \in Limits,
               NEW q \in SelectWriteReplicas(limited)
        PROVE  /\ IsInjective(q)
               /\ Cardinality(W) >= kNumReplicas => Range(q) \subseteq W
    <3>1. P # {}
      BY <2>0, <2>3, FS_EmptySet
    <3>2. \A s \in vol.known : vol.kRead[s] # "invalid" /\ vol.kWrite[s] # "invalid"
      BY Zenon, <2>0, <2>p, <3>1 DEF SchedInv, Pulled
    <3>3. P = vol.known /\ limited = {}
      BY Zenon, <2>3, <2>p, <3>2 DEF Limits
    <3>w. PICK w, V : w = GetWriteWeights(limited) /\ V = GetValidServers(w)
      BY Zenon
    <3>4. RateLimited(vol.kWrite, limited) = vol.kWrite
      BY Zenon, <2>0, <3>3 DEF RateLimited
    <3>5. W = {s \in vol.known : vol.modes[s] # "kRead"}
      BY Zenon, <2>p, <3>3
    <3>6. w = IF Cardinality(W) >= kNumReplicas THEN FilterWeights(vol.kWrite, W) ELSE vol.kWrite
      BY Zenon, <3>4, <3>5, <3>w DEF GetWriteWeights
    <3>7. CASE Cardinality(W) >= kNumReplicas
      <4>1. V = W
        BY Zenon, <2>1, <2>p, <3>6, <3>7, <3>w DEF GetValidServers, FilterWeights
      <4>2. Cardinality(V) >= kNumReplicas
        BY Zenon, <3>7, <4>1
      <4>3. q \in Draws(V, kNumReplicas)
        BY Zenon, <2>3, <3>w, <4>2, SelectionsAreDraws DEF SelectWriteReplicas
      <4> QED
        BY Zenon, <4>1, <4>3 DEF Draws, Range
    <3>8. CASE ~(Cardinality(W) >= kNumReplicas)
      <4>1. P \in SUBSET V /\ IsFiniteSet(V)
        <5>1. V = {s \in Servers : vol.kWrite[s] # "invalid"}
          BY Zenon, <3>6, <3>8, <3>w DEF GetValidServers
        <5>2. P \in SUBSET V /\ V \in SUBSET Servers
          BY Zenon, <2>1, <2>p, <5>1
        <5> QED
          BY Zenon, <5>2, ServersAreNumbers, FS_Subset
      <4>2. Cardinality(V) >= kNumReplicas
        <5>1. Cardinality(P) <= Cardinality(V) /\ Cardinality(V) \in Nat
          BY Zenon, <4>1, FS_Subset, FS_CardinalityType
        <5> QED
          BY <2>0, <2>2, <2>3, <5>1
      <4>3. q \in Draws(V, kNumReplicas)
        BY Zenon, <2>3, <3>w, <4>2, SelectionsAreDraws DEF SelectWriteReplicas
      <4> QED
        BY Zenon, <3>8, <4>3 DEF Draws
    <3> QED
      BY Zenon, <3>7, <3>8
  <2>4. Cardinality(W) >= kNumReplicas => Cardinality(P) >= kNumReplicas
    BY <2>0, <2>2
  <2> QED
    BY Zenon, <2>3, <2>4, <2>p DEF WriteReplicasAreDistinct
<1> QED
  BY <1>1, SchedulingInvariance, PTL

-----------------------------------------------------------------------------
(* Peaks *)

(* Interpolation stays below the point it leads to. *)
LEMMA Interpolation ==
  ASSUME NEW rise \in Nat, NEW into \in Nat, NEW range \in Nat \ {0}, into <= range
  PROVE  (rise * into) \div range \in Nat /\ (rise * into) \div range <= rise
<1>q. PICK p, q : p = rise * into /\ q = p \div range
  BY Zenon
<1>1. p \in Nat /\ p <= rise * range
  BY <1>q
<1>2. q \in Nat /\ q * range <= p
  BY <1>1, <1>q
<1>3. q <= rise
  <2> SUFFICES ASSUME q > rise PROVE FALSE
    BY <1>2
  <2>1. q >= rise + 1
    BY <1>2
  <2>2. q * range >= (rise + 1) * range
    BY <1>2, <2>1
  <2>3. (rise + 1) * range = rise * range + range
    OBVIOUS
  <2> QED
    BY <1>1, <1>2, <2>2, <2>3
<1> QED
  BY Zenon, <1>2, <1>3, <1>q

(* The peak of a curve that rises is a load at which the curve is not saturated. *)
LEMMA CurvePeakIsServable ==
  ASSUME NEW c, IsRisingCurve(c), kSaturationLatencyUs \in Int, kSaturationLatencyPenaltyUs \in Int,
         CurvePeakIOPS(c) > 0
  PROVE  CurveLatency(CurvePeakIOPS(c), c) < kSaturationLatencyUs
<1>l. PICK m, load1, lat : /\ m = Len(c)
                           /\ load1 = [i \in 1..m |-> c[i].load]
                           /\ lat = [i \in 1..m |-> c[i].latency]
  BY Zenon
<1>0. /\ m \in Nat \ {0} /\ DOMAIN c = 1..m
      /\ load1 \in [1..m -> Nat] /\ lat \in [1..m -> Nat]
      /\ \A i \in 1..m : c[i].load = load1[i] /\ c[i].latency = lat[i]
  <2>1. c \in Seq([load : Nat, latency : Nat]) /\ c # <<>>
    BY Zenon DEF IsRisingCurve
  <2>2. m \in Nat \ {0} /\ DOMAIN c = 1..m
    BY <1>l, <2>1
  <2>3. \A i \in 1..m : c[i] \in [load : Nat, latency : Nat]
    <3>r. PICK R : R = [load : Nat, latency : Nat]
      BY Zenon
    <3>0. c \in Seq(R)
      BY Zenon, <2>1, <3>r
    <3>1. \A i \in 1..Len(c) : c[i] \in R
      BY <3>0
    <3> QED
      BY Zenon, <1>l, <3>1, <3>r
  <2>4. \A i \in 1..m : c[i].load \in Nat /\ c[i].latency \in Nat
    BY Zenon, <2>3
  <2> QED
    BY Zenon, <1>l, <2>2, <2>4
<1>1. \A i \in 2..m : load1[i - 1] < load1[i] /\ lat[i - 1] <= lat[i]
  <2> SUFFICES ASSUME NEW i \in 2..m PROVE load1[i - 1] < load1[i] /\ lat[i - 1] <= lat[i]
    BY Zenon
  <2>1. i \in 1..m /\ i - 1 \in 1..m
    BY <1>0
  <2>2. c[i - 1].load < c[i].load /\ c[i - 1].latency <= c[i].latency
    BY Zenon, <1>l DEF IsRisingCurve
  <2> QED
    BY Zenon, <1>0, <2>1, <2>2
<1>s. PICK S, last : /\ S = {i \in 1..m : lat[i] >= kSaturationLatencyUs}
                     /\ last = IF S = {} THEN m ELSE Min(S) - 1
  BY Zenon
<1>x. \A i \in 1..m : i \notin S => lat[i] < kSaturationLatencyUs
  <2> SUFFICES ASSUME NEW i \in 1..m, i \notin S PROVE lat[i] < kSaturationLatencyUs
    BY Zenon
  <2>1. ~(lat[i] >= kSaturationLatencyUs) /\ lat[i] \in Nat
    BY Zenon, <1>0, <1>s
  <2> QED
    BY <2>1
<1>2. /\ last \in 0..m
      /\ \A i \in 1..last : i \in 1..m /\ lat[i] < kSaturationLatencyUs
  <2>1. CASE S = {}
    <3>1. last = m
      BY Zenon, <1>s, <2>1
    <3>2. m \in 0..m /\ \A i \in 1..m : lat[i] < kSaturationLatencyUs
      BY <1>0, <1>x, <2>1
    <3> QED
      BY Zenon, <3>1, <3>2
  <2>2. CASE S # {}
    <3>1. S \in SUBSET Nat
      BY <1>s
    <3>x. PICK x : x = Min(S)
      BY Zenon
    <3>2. x \in S /\ \A y \in S : x <= y
      BY Zenon, <2>2, <3>1, <3>x, LeastNat
    <3>3. x \in 1..m /\ last = x - 1
      BY Zenon, <1>s, <2>2, <3>2, <3>x
    <3>4. last \in 0..m /\ \A i \in 1..last : i \in 1..m /\ i < x
      BY <1>0, <3>3
    <3>5. \A i \in 1..last : i \notin S
      <4> SUFFICES ASSUME NEW i \in 1..last, i \in S PROVE FALSE
        BY Zenon
      <4>1. i < x /\ x <= i /\ i \in Int /\ x \in Int
        BY <1>0, <3>2, <3>3, <3>4
      <4> QED
        BY <4>1
    <3> QED
      BY Zenon, <1>x, <3>4, <3>5
  <2> QED
    BY Zenon, <2>1, <2>2
<1>p. PICK peak : peak = CurvePeakIOPS(c)
  BY Zenon
<1>3. peak = IF last = 0 THEN 0 ELSE (c[last].load * 95) \div 100
  <2>1. {i \in DOMAIN c : c[i].latency >= kSaturationLatencyUs} = S
    BY Zenon, <1>0, <1>s
  <2> QED
    BY Zenon, <1>l, <1>p, <1>s, <2>1 DEF CurvePeakIOPS
<1>4. last \in 1..m /\ peak \in Nat /\ peak <= load1[last]
  <2>1. last # 0
    BY <1>3, <1>p
  <2>2. last \in 1..m
    BY <1>0, <1>2, <2>1
  <2>x. PICK x : x = load1[last]
    BY Zenon
  <2>3. x \in Nat /\ peak = (x * 95) \div 100
    BY Zenon, <1>0, <1>3, <2>1, <2>2, <2>x
  <2>4. peak \in Nat /\ peak <= x
    BY <2>3
  <2> QED
    BY Zenon, <2>2, <2>4, <2>x
<1>a. PICK A, i : A = {j \in 1..m : load1[j] >= peak} /\ i = Min(A)
  BY Zenon
<1>5. /\ i \in 1..last /\ i \in 1..m /\ load1[i] >= peak /\ A # {}
      /\ \A j \in 1..m : j < i => load1[j] < peak
  <2>1. A \in SUBSET Nat /\ last \in A
    BY <1>4, <1>a
  <2>2. i \in A /\ \A j \in A : i <= j
    BY Zenon, <1>a, <2>1, LeastNat
  <2>3. i \in 1..m /\ load1[i] >= peak
    BY Zenon, <1>a, <2>2
  <2>4. i \in 1..last
    BY <1>4, <2>1, <2>2, <2>3
  <2>5. ASSUME NEW j \in 1..m, j < i PROVE load1[j] < peak
    <3>1. j \notin A
      BY <2>2, <2>3, <2>5
    <3> QED
      BY <1>0, <1>4, <1>a, <3>1
  <2> QED
    BY Zenon, <2>1, <2>3, <2>4, <2>5
<1>6. lat[i] < kSaturationLatencyUs /\ lat[i] \in Nat
  BY Zenon, <1>0, <1>2, <1>5
<1>r. PICK raw : raw = IF A = {} THEN kSaturationLatencyPenaltyUs
                       ELSE IF i = 1 THEN c[1].latency
                       ELSE IF c[i].latency - c[i - 1].latency < 0 THEN kSaturationLatencyPenaltyUs
                       ELSE c[i - 1].latency + ((c[i].latency - c[i - 1].latency)
                              * (peak - c[i - 1].load)) \div (c[i].load - c[i - 1].load)
  BY Zenon
<1>7. CurveLatency(peak, c) = Min({raw, kSaturationLatencyPenaltyUs})
  <2>1. {j \in DOMAIN c : c[j].load >= peak} = A
    BY Zenon, <1>0, <1>a
  <2> QED
    BY Zenon, <1>a, <1>r, <2>1 DEF CurveLatency
<1>8. raw \in Int /\ raw <= lat[i]
  <2>1. CASE i = 1
    BY <1>0, <1>5, <1>6, <1>r, <2>1
  <2>2. CASE i # 1
    <3>1. i - 1 \in 1..m /\ i - 1 < i /\ i \in 2..m
      BY <1>0, <1>5, <2>2
    <3>x. PICK l0, l1, t0, t1 : /\ l0 = load1[i - 1] /\ l1 = load1[i]
                                /\ t0 = lat[i - 1] /\ t1 = lat[i]
      BY Zenon
    <3>2. /\ l0 \in Nat /\ l1 \in Nat /\ t0 \in Nat /\ t1 \in Nat
          /\ l0 < l1 /\ t0 <= t1 /\ l0 < peak /\ peak <= l1
      BY Zenon, <1>0, <1>1, <1>4, <1>5, <3>1, <3>x
    <3>3. raw = IF t1 - t0 < 0 THEN kSaturationLatencyPenaltyUs
                ELSE t0 + ((t1 - t0) * (peak - l0)) \div (l1 - l0)
      BY Zenon, <1>0, <1>5, <1>r, <2>2, <3>1, <3>x
    <3>y. PICK u, v, z : u = t1 - t0 /\ v = peak - l0 /\ z = l1 - l0
      BY Zenon
    <3>4. u \in Nat /\ v \in Nat /\ z \in Nat \ {0} /\ v <= z /\ ~(u < 0)
      BY <1>4, <3>2, <3>y
    <3>d. PICK d : d = (u * v) \div z
      BY Zenon
    <3>5. d \in Nat /\ d <= u
      BY Zenon, <3>4, <3>d, Interpolation
    <3>6. raw = t0 + d
      BY Zenon, <3>3, <3>4, <3>d, <3>y
    <3>7. raw \in Int /\ raw <= t1
      BY <3>2, <3>5, <3>6, <3>y
    <3> QED
      BY Zenon, <3>7, <3>x
  <2> QED
    BY Zenon, <2>1, <2>2
<1>9. /\ Min({raw, kSaturationLatencyPenaltyUs}) <= raw
      /\ Min({raw, kSaturationLatencyPenaltyUs}) \in Int
  BY <1>8, MinOfTwo
<1> QED
  BY <1>6, <1>7, <1>8, <1>9, <1>p

(* The mix that is selected is one of the model's. *)
LEMMA MixRises ==
  ASSUME NEW model, IsRisingModel(model), NEW mix
  PROVE  IsRisingCurve(SelectMixModel(model, mix))
<1>f. PICK F, i : /\ F = {j \in DOMAIN model.mix :
                            100 * mix.w <= model.mix[j].bucket * (mix.r + mix.w)}
                  /\ i = IF F = {} THEN Len(model.mix) ELSE Min(F)
  BY Zenon
<1>1. /\ Len(model.mix) \in Nat \ {0} /\ DOMAIN model.mix = 1..Len(model.mix)
      /\ \A j \in DOMAIN model.mix : IsRisingCurve(model.mix[j].curve)
  BY Zenon DEF IsRisingModel
<1>2. i \in DOMAIN model.mix
  <2>1. F \in SUBSET Nat /\ F \subseteq DOMAIN model.mix
    BY <1>1, <1>f
  <2>2. CASE F = {}
    BY <1>1, <1>f, <2>2
  <2>3. CASE F # {}
    BY Zenon, <1>f, <2>1, <2>3, LeastNat
  <2> QED
    BY Zenon, <2>2, <2>3
<1> QED
  BY Zenon, <1>1, <1>2, <1>f DEF SelectMixModel

(***************************************************************************)
(* The peak by which servers are counted and weighed is a load at which    *)
(* the disk's own model does not call it saturated, for any models whose   *)
(* curves rise, in every mode and at every mix (DiskModel::GetPeakIOPS and *)
(* GetLatency).                                                            *)
(***************************************************************************)
THEOREM PeaksAreServable == Spec => []PeakLoadIsServable
<1>1. SchedInv => PeakLoadIsServable
  <2> SUFFICES ASSUME SchedInv, NEW s \in 1..n, NEW md \in Modes,
                      NEW peak, peak = GetPeakIOPS(Models[s], md, load), peak > 0,
                      NEW op, op = IF md = "kRead" THEN "kRead" ELSE "kWrite"
               PROVE  GetLatency(Models[s], peak, op, md, load) < kSaturationLatencyUs
    BY Zenon DEF PeakLoadIsServable
  <2>m. PICK model : model = Models[s]
    BY Zenon
  <2>1. IsRisingModel(model)
    <3>1. s \in Servers
      BY ServersAreNumbers DEF SchedInv, Typed
    <3> QED
      BY Zenon, <2>m, <3>1, ModelsAssumption
  <2>c. PICK c : c = IF md = "kRead" THEN model.read
                     ELSE IF md = "kWrite" THEN model.write
                     ELSE SelectMixModel(model, load)
    BY Zenon
  <2>2. IsRisingCurve(c)
    BY Zenon, <2>1, <2>c, MixRises DEF IsRisingModel
  <2>3. peak = CurvePeakIOPS(c)
    BY Zenon, <2>c, <2>m DEF GetPeakIOPS, Modes
  <2>4. GetLatency(model, peak, op, md, load) = CurveLatency(peak, c)
    BY Zenon, <2>c DEF GetLatency, Modes
  <2>5. kSaturationLatencyUs \in Int /\ kSaturationLatencyPenaltyUs \in Int
    BY DiskModelAssumption
  <2> QED
    BY Zenon, <2>2, <2>3, <2>4, <2>5, <2>m, CurvePeakIsServable
<1> QED
  BY <1>1, SchedulingInvariance, PTL

-------------------------------------------------------------------------------
(***************************************************************************)
(* DiskServer, for any number of handlers, cores and operations.           *)
(*                                                                         *)
(* A ThreadSafeCounter is a sum over the cores, so the first part proves   *)
(* what sums over finite sets do: the order does not matter, and one value *)
(* that changes changes the sum by as much.  The inductive invariant then  *)
(* says what the counters add up to, and bounds what the reader has added  *)
(* up so far from both sides.                                              *)
(***************************************************************************)

(* Sums over finite sets *)

(* The element of s that the fold takes first. *)
Pick(s) == CHOOSE x \in s : TRUE

(* g has the subtotals of f over the subsets of T. *)
Adds(f, g, T) ==
    /\ g \in [SUBSET T -> Int]
    /\ \A s \in SUBSET T :
          g[s] = IF s = {} THEN 0 ELSE f[Pick(s)] + g[s \ {Pick(s)}]

(* Among subsets of a finite set there is a least one. *)
LEMMA SubsetMin ==
  ASSUME NEW S, IsFiniteSet(S), NEW C \in SUBSET (SUBSET S), C # {}
  PROVE  \E s \in C : \A t \in C : t \subseteq s => t = s
<1>1. IsWellFoundedOn(StrictSubsetOrdering(S), FiniteSubsetsOf(S))
  BY Zenon, FS_StrictSubsetOrderingWellFounded
<1>2. FiniteSubsetsOf(S) = SUBSET S
  BY Zenon, FS_FiniteSubsetsOfFinite
<1>3. PICK s \in C : \A t \in C : ~(<<t, s>> \in StrictSubsetOrdering(S))
  BY <1>1, <1>2, WFMin
<1> QED
  BY Zenon, <1>3 DEF StrictSubsetOrdering

(* The subtotals of a function are what they are, whatever the set they are for. *)
LEMMA AddsUnique ==
  ASSUME NEW S, IsFiniteSet(S), NEW T \in SUBSET S, NEW U \in SUBSET S,
         NEW f, NEW g, NEW h, Adds(f, g, T), Adds(f, h, U)
  PROVE  \A s \in SUBSET T : s \in SUBSET U => g[s] = h[s]
<1> DEFINE C == {s \in SUBSET S : s \subseteq T /\ s \subseteq U /\ g[s] # h[s]}
<1> SUFFICES ASSUME C # {} PROVE FALSE
  BY Zenon
<1>0. C \in SUBSET (SUBSET S)
  BY Zenon
<1>1. PICK s \in C : \A t \in C : t \subseteq s => t = s
  <2> HIDE DEF C
  <2> QED
    BY <1>0, SubsetMin
<1>2. CASE s = {}
  BY Zenon, <1>1, <1>2 DEF Adds
<1>3. CASE s # {}
  <2>1. Pick(s) \in s
    BY Zenon, <1>3 DEF Pick
  <2>2. s \ {Pick(s)} \notin C
    BY Zenon, <1>1, <2>1
  <2>3. g[s \ {Pick(s)}] = h[s \ {Pick(s)}]
    BY Zenon, <2>2
  <2> QED
    BY Zenon, <1>1, <1>3, <2>3 DEF Adds
<1> QED
  BY Zenon, <1>2, <1>3

(* Every function with integer values has subtotals. *)
LEMMA AddsExists ==
  ASSUME NEW S, IsFiniteSet(S), NEW f, \A x \in S : f[x] \in Int
  PROVE  \E g : Adds(f, g, S)
<1> DEFINE C == {s \in SUBSET S : ~\E g : Adds(f, g, s)}
<1> SUFFICES ASSUME C # {} PROVE FALSE
  BY Zenon
<1>0. C \in SUBSET (SUBSET S)
  BY Zenon
<1>1. PICK T \in C : \A t \in C : t \subseteq T => t = T
  <2> HIDE DEF C
  <2> QED
    BY <1>0, SubsetMin
<1> DEFINE G(s) == CHOOSE g : Adds(f, g, s)
<1>2. \A s \in SUBSET T : s # T => Adds(f, G(s), s)
  BY Zenon, <1>1
<1> DEFINE h == [s \in SUBSET T |-> IF s = {} THEN 0
                                    ELSE f[Pick(s)] + G(s \ {Pick(s)})[s \ {Pick(s)}]]
<1>3. \A s \in SUBSET T : s # {} =>
         /\ Pick(s) \in s /\ f[Pick(s)] \in Int
         /\ s \ {Pick(s)} # T /\ s \ {Pick(s)} \in SUBSET T
         /\ G(s \ {Pick(s)})[s \ {Pick(s)}] \in Int
  <2> SUFFICES ASSUME NEW s \in SUBSET T, s # {}
               PROVE  /\ Pick(s) \in s /\ f[Pick(s)] \in Int
                      /\ s \ {Pick(s)} # T /\ s \ {Pick(s)} \in SUBSET T
                      /\ G(s \ {Pick(s)})[s \ {Pick(s)}] \in Int
    BY Zenon
  <2>1. Pick(s) \in s
    BY Zenon DEF Pick
  <2>2. s \ {Pick(s)} # T /\ s \ {Pick(s)} \in SUBSET T
    BY Zenon, <2>1
  <2>3. Adds(f, G(s \ {Pick(s)}), s \ {Pick(s)})
    BY Zenon, <1>2, <2>2
  <2> QED
    BY Zenon, <2>1, <2>2, <2>3 DEF Adds
<1>4. h \in [SUBSET T -> Int]
  <2>1. \A s \in SUBSET T : h[s] \in Int
    <3> SUFFICES ASSUME NEW s \in SUBSET T PROVE h[s] \in Int
      BY Zenon
    <3>1. CASE s = {}
      BY <3>1
    <3>2. CASE s # {}
      <4>1. f[Pick(s)] \in Int /\ G(s \ {Pick(s)})[s \ {Pick(s)}] \in Int
        BY Zenon, <1>3, <3>2
      <4>2. h[s] = f[Pick(s)] + G(s \ {Pick(s)})[s \ {Pick(s)}]
        BY Zenon, <3>2
      <4> HIDE DEF h, G
      <4> QED
        BY <4>1, <4>2
    <3> QED
      BY Zenon, <3>1, <3>2
  <2>2. DOMAIN h = SUBSET T /\ h = [s \in DOMAIN h |-> h[s]]
    OBVIOUS
  <2> HIDE DEF h
  <2> QED
    BY Zenon, <2>1, <2>2
<1>5. \A s \in SUBSET T : s # T => h[s] = G(s)[s]
  <2> SUFFICES ASSUME NEW s \in SUBSET T, s # T PROVE h[s] = G(s)[s]
    BY Zenon
  <2>1. Adds(f, G(s), s)
    BY Zenon, <1>2
  <2>2. CASE s = {}
    BY Zenon, <2>1, <2>2 DEF Adds
  <2>3. CASE s # {}
    <3> DEFINE u == s \ {Pick(s)}
    <3>1. Adds(f, G(u), u) /\ u \in SUBSET s /\ u \in SUBSET S /\ s \in SUBSET S
      BY Zenon, <1>2, <1>3, <2>3
    <3>2. G(u)[u] = G(s)[u]
      BY <2>1, <3>1, AddsUnique
    <3> QED
      BY Zenon, <2>1, <2>3, <3>2 DEF Adds
  <2> QED
    BY Zenon, <2>2, <2>3
<1>6. \A s \in SUBSET T :
         h[s] = IF s = {} THEN 0 ELSE f[Pick(s)] + h[s \ {Pick(s)}]
  <2> SUFFICES ASSUME NEW s \in SUBSET T
               PROVE  h[s] = IF s = {} THEN 0 ELSE f[Pick(s)] + h[s \ {Pick(s)}]
    <3> HIDE DEF h
    <3> QED
      BY Zenon
  <2> CASE s = {}
    BY Zenon
  <2> SUFFICES ASSUME s # {} PROVE h[s] = f[Pick(s)] + h[s \ {Pick(s)}]
    <3> HIDE DEF h
    <3> QED
      BY Zenon
  <2> DEFINE u == s \ {Pick(s)}
  <2>1. h[s] = f[Pick(s)] + G(u)[u]
    BY Zenon
  <2>2. u \in SUBSET T /\ u # T
    BY Zenon, <1>3
  <2> HIDE DEF h, G
  <2> QED
    BY Zenon, <1>5, <2>1, <2>2
<1>7. Adds(f, h, T)
  <2> HIDE DEF h
  <2> QED
    BY Zenon, <1>4, <1>6 DEF Adds
<1> QED
  BY Zenon, <1>1, <1>7

(* The sum over a finite set is one of its subtotals. *)
LEMMA SumIsAdds ==
  ASSUME NEW S, IsFiniteSet(S), NEW f, \A x \in S : f[x] \in Int
  PROVE  \E g : Adds(f, g, S) /\ SumFunctionOnSet(f, S) = g[S]
<1> DEFINE Eqn(g) == g = [s \in SUBSET S |-> IF s = {} THEN 0 ELSE
                                 f[CHOOSE x \in s : TRUE] + g[s \ {CHOOSE x \in s : TRUE}]]
<1>1. PICK g : Adds(f, g, S)
  BY Zenon, AddsExists
<1>2. Eqn(g)
  BY Zenon, <1>1 DEF Adds, Pick
<1>3. Eqn(CHOOSE h : Eqn(h))
  BY Zenon, <1>2
<1>4. Adds(f, CHOOSE h : Eqn(h), S)
  <2> DEFINE k == CHOOSE h : Eqn(h)
  <2>1. k = [s \in SUBSET S |-> IF s = {} THEN 0 ELSE
                                 f[Pick(s)] + k[s \ {Pick(s)}]]
    BY Zenon, <1>3 DEF Pick
  <2> HIDE DEF k
  <2>2. \A s \in SUBSET S : k[s] = g[s]
    <3> DEFINE C == {s \in SUBSET S : k[s] # g[s]}
    <3> SUFFICES ASSUME C # {} PROVE FALSE
      BY Zenon
    <3>0. C \in SUBSET (SUBSET S)
      BY Zenon
    <3>1. PICK s \in C : \A t \in C : t \subseteq s => t = s
      <4> HIDE DEF C
      <4> QED
        BY <3>0, SubsetMin
    <3>2. CASE s = {}
      BY Zenon, <1>1, <2>1, <3>1, <3>2 DEF Adds
    <3>3. CASE s # {}
      <4>1. Pick(s) \in s
        BY Zenon, <3>3 DEF Pick
      <4>2. k[s \ {Pick(s)}] = g[s \ {Pick(s)}]
        BY <3>1, <4>1
      <4> QED
        BY Zenon, <1>1, <2>1, <3>1, <3>3, <4>2 DEF Adds
    <3> QED
      BY Zenon, <3>2, <3>3
  <2>3. k = g
    BY Zenon, <1>1, <2>1, <2>2 DEF Adds
  <2>4. Adds(f, k, S)
    BY Zenon, <1>1, <2>3
  <2> QED
    BY Zenon, <2>4 DEF k
<1>5. SumFunctionOnSet(f, S) = (CHOOSE h : Eqn(h))[S]
  BY Zenon DEF SumFunctionOnSet, FoldFunctionOnSet, MapThenFoldSet
<1> QED
  BY Zenon, <1>4, <1>5

(* Nothing adds up to zero. *)
LEMMA SumOfNone ==
  ASSUME NEW f
  PROVE  SumFunctionOnSet(f, {}) = 0
<1>1. IsFiniteSet({})
  BY Zenon, FS_EmptySet
<1>2. PICK g : Adds(f, g, {}) /\ SumFunctionOnSet(f, {}) = g[{}]
  BY Zenon, <1>1, SumIsAdds
<1>3. {} \in SUBSET {}
  BY Zenon
<1> QED
  BY Zenon, <1>2, <1>3 DEF Adds

(* Any element may be added last. *)
LEMMA SumTakesAny ==
  ASSUME NEW S, IsFiniteSet(S), NEW f, \A x \in S : f[x] \in Int
  PROVE  /\ SumFunctionOnSet(f, S) \in Int
         /\ \A x \in S : SumFunctionOnSet(f, S) = f[x] + SumFunctionOnSet(f, S \ {x})
<1>1. PICK g : Adds(f, g, S) /\ SumFunctionOnSet(f, S) = g[S]
  BY Zenon, SumIsAdds
<1>2. ASSUME NEW T \in SUBSET S PROVE SumFunctionOnSet(f, T) = g[T]
  <2>1. IsFiniteSet(T)
    BY Zenon, FS_Subset
  <2>2. PICK h : Adds(f, h, T) /\ SumFunctionOnSet(f, T) = h[T]
    BY Zenon, <2>1, SumIsAdds
  <2>3. T \in SUBSET T /\ S \in SUBSET S
    BY Zenon
  <2>4. h[T] = g[T]
    BY <1>1, <2>2, <2>3, AddsUnique
  <2> QED
    BY Zenon, <2>2, <2>4
<1> DEFINE C == {T \in SUBSET S : ~\A x \in T : g[T] = f[x] + g[T \ {x}]}
<1>3. C = {}
  <2> SUFFICES ASSUME C # {} PROVE FALSE
    BY Zenon
  <2>0. C \in SUBSET (SUBSET S)
    BY Zenon
  <2>1. PICK T \in C : \A t \in C : t \subseteq T => t = T
    <3> HIDE DEF C
    <3> QED
      BY <2>0, SubsetMin
  <2>2. PICK x \in T : g[T] # f[x] + g[T \ {x}]
    BY Zenon, <2>1
  <2>3. T \in SUBSET S /\ T # {}
    BY Zenon, <2>1, <2>2
  <2>p. PICK p : p = Pick(T)
    BY Zenon
  <2>4. p \in T /\ g[T] = f[p] + g[T \ {p}]
    BY Zenon, <1>1, <2>3, <2>p DEF Adds, Pick
  <2>5. p # x
    BY Zenon, <2>2, <2>4
  <2>u. PICK U, V, W : U = T \ {p} /\ V = T \ {x} /\ W = T \ {p, x}
    BY Zenon
  <2>6. /\ U \in SUBSET S /\ V \in SUBSET S /\ W \in SUBSET S
        /\ U \notin C /\ V \notin C /\ x \in U /\ p \in V
        /\ U \ {x} = W /\ V \ {p} = W
    BY Zenon, <2>1, <2>2, <2>3, <2>4, <2>5, <2>u
  <2>7. g[U] = f[x] + g[W] /\ g[V] = f[p] + g[W]
    BY Zenon, <2>6
  <2>8. f[x] \in Int /\ f[p] \in Int /\ g[W] \in Int
    BY Zenon, <1>1, <2>2, <2>3, <2>4, <2>6 DEF Adds
  <2>9. g[T] = f[p] + (f[x] + g[W]) /\ g[T] # f[x] + (f[p] + g[W])
    BY Zenon, <2>2, <2>4, <2>7, <2>u
  <2> QED
    BY <2>8, <2>9
<1>4. S \in SUBSET S /\ S \notin C
  BY Zenon, <1>3
<1>5. \A x \in S : g[S] = f[x] + g[S \ {x}]
  BY Zenon, <1>4
<1>6. g[S] \in Int
  BY Zenon, <1>1, <1>4 DEF Adds
<1> HIDE DEF C
<1>7. \A x \in S : S \ {x} \in SUBSET S
  BY Zenon
<1> QED
  BY Zenon, <1>1, <1>2, <1>5, <1>6, <1>7

(* The sum depends on what is added up only. *)
LEMMA SumOfSame ==
  ASSUME NEW S, IsFiniteSet(S), NEW f, NEW h, \A x \in S : f[x] \in Int /\ h[x] = f[x]
  PROVE  SumFunctionOnSet(h, S) = SumFunctionOnSet(f, S)
<1>1. PICK g : Adds(f, g, S) /\ SumFunctionOnSet(f, S) = g[S]
  BY Zenon, SumIsAdds
<1>2. PICK k : Adds(h, k, S) /\ SumFunctionOnSet(h, S) = k[S]
  BY Zenon, SumIsAdds
<1>3. Adds(h, g, S)
  <2>1. \A s \in SUBSET S : s # {} => f[Pick(s)] = h[Pick(s)]
    BY Zenon DEF Pick
  <2> QED
    BY Zenon, <1>1, <2>1 DEF Adds
<1>4. S \in SUBSET S
  BY Zenon
<1>5. k[S] = g[S]
  BY <1>2, <1>3, <1>4, AddsUnique
<1> QED
  BY Zenon, <1>1, <1>2, <1>5

(* A value that changes changes the sums that it is part of. *)
LEMMA SumCounts ==
  ASSUME NEW S, IsFiniteSet(S), NEW f, \A x \in S : f[x] \in Int, NEW c, NEW num \in Int,
         NEW h, c \in S => h[c] = f[c] + num, \A x \in S : x # c => h[x] = f[x]
  PROVE  SumFunctionOnSet(h, S) = SumFunctionOnSet(f, S) + IF c \in S THEN num ELSE 0
<1>1. SumFunctionOnSet(f, S) \in Int
  BY Zenon, SumTakesAny
<1>2. CASE c \notin S
  <2>1. \A x \in S : f[x] \in Int /\ h[x] = f[x]
    BY Zenon, <1>2
  <2>2. SumFunctionOnSet(h, S) = SumFunctionOnSet(f, S)
    BY Zenon, <2>1, SumOfSame
  <2> QED
    BY <1>1, <1>2, <2>2
<1>3. CASE c \in S
  <2>t. PICK T : T = S \ {c}
    BY Zenon
  <2>1. IsFiniteSet(T) /\ \A x \in T : f[x] \in Int /\ h[x] = f[x]
    BY Zenon, <2>t, FS_Subset
  <2>2. SumFunctionOnSet(h, T) = SumFunctionOnSet(f, T) /\ SumFunctionOnSet(f, T) \in Int
    BY Zenon, <2>1, SumOfSame, SumTakesAny
  <2>3. \A x \in S : h[x] \in Int
    BY <1>3
  <2>4. SumFunctionOnSet(h, S) = h[c] + SumFunctionOnSet(h, T)
    BY Zenon, <1>3, <2>3, <2>t, SumTakesAny
  <2>5. SumFunctionOnSet(f, S) = f[c] + SumFunctionOnSet(f, T)
    BY Zenon, <1>3, <2>t, SumTakesAny
  <2>6. f[c] \in Int /\ h[c] = f[c] + num
    BY Zenon, <1>3
  <2> QED
    BY <1>3, <2>2, <2>4, <2>5, <2>6
<1> QED
  BY Zenon, <1>2, <1>3

-----------------------------------------------------------------------------
(* The invariant of the counters *)

Pcs == {"idle", "io", "ended", "count", "reply", "sent"}
Handler == [pc : Pcs, ok : BOOLEAN, reply : {ReplyMsg(code) : code \in Codes}]
Reader == [core : 0..(NumCores + 1), kind : Reported, sum : Int, before : Int]

(* What counter f has on the cores D. *)
Partial(f, D) == SumFunctionOnSet(f, D)

(***************************************************************************)
(* Reader r of counter f has not added up more than is there, and with the *)
(* cores it has not read yet no less than there was when it began; base    *)
(* has been reported.                                                      *)
(***************************************************************************)
Between(r, f, base) ==
    r.core # 0 => /\ r.before + base <= r.sum + Partial(f, r.core..NumCores)
                  /\ r.sum <= Partial(f, 1..(r.core - 1))

(* The variables have their types. *)
CounterTypes ==
    /\ backend \in Backends /\ mode \in ServerMode /\ grace \in BOOLEAN
    /\ thread \in [Threads -> Handler] /\ handled \in 0..MaxOps
    /\ cnt \in [Kinds -> [Cores -> Int]] /\ delta \in [Kinds -> Int]
    /\ reported \in [Kinds -> Int] /\ reader \in Reader

(* What the counters add up to. *)
Accounts ==
    /\ Partial(cnt["inflight"], Cores) = At({"io", "ended"})
    /\ Partial(cnt["completed"], Cores) + Partial(cnt["failed"], Cores)
         + Partial(cnt["rejected"], Cores) = handled - At({"io", "ended", "count"})

(***************************************************************************)
(* The delta of a counter takes back what has been reported of it, and the *)
(* reader of a counter that only grows is within its bounds.               *)
(***************************************************************************)
Reading ==
    /\ \A k \in Kinds : delta[k] = -reported[k]
    /\ reader.kind # "inflight" => Between(reader, cnt[reader.kind], reported[reader.kind])

CounterInv == CounterTypes /\ Accounts /\ Reading

(* Counters are finite sums of integers. *)
LEMMA PartialTypes ==
  ASSUME NEW f \in [Cores -> Int], NEW D \in SUBSET Cores
  PROVE  /\ IsFiniteSet(Cores) /\ IsFiniteSet(D) /\ Partial(f, D) \in Int
         /\ \A c \in D : Partial(f, D) = f[c] + Partial(f, D \ {c})
<1>1. IsFiniteSet(Cores)
  BY DiskServerAssumption, FS_Interval DEF Cores
<1>2. IsFiniteSet(D)
  BY Zenon, <1>1, FS_Subset
<1>3. \A c \in D : f[c] \in Int
  BY Zenon
<1> QED
  BY Zenon, <1>1, <1>2, <1>3, SumTakesAny DEF Partial

(* The counters f when num is counted on core c. *)
Plus(f, k, c, num) == [f EXCEPT ![k][c] = @ + num]

(* The counters h have num more on core c. *)
Counts(f, h, k, c, num) ==
    /\ h \in [Kinds -> [Cores -> Int]]
    /\ \A j \in Kinds : j # k => h[j] = f[j]
    /\ \A D \in SUBSET Cores : Partial(h[k], D) = Partial(f[k], D) + IF c \in D THEN num ELSE 0

(* inc_local and dec_local on one core change the sums that it is part of. *)
LEMMA Counted ==
  ASSUME NEW f \in [Kinds -> [Cores -> Int]], NEW k \in Kinds, NEW c \in Cores, NEW num \in Int
  PROVE  Counts(f, Plus(f, k, c, num), k, c, num)
<1>h. PICK h : h = [f EXCEPT ![k][c] = @ + num]
  BY Zenon
<1>1. /\ h \in [Kinds -> [Cores -> Int]] /\ h[k] \in [Cores -> Int]
      /\ \A j \in Kinds : j # k => h[j] = f[j]
      /\ h[k][c] = f[k][c] + num /\ \A d \in Cores : d # c => h[k][d] = f[k][d]
  BY <1>h
<1>2. ASSUME NEW D \in SUBSET Cores
      PROVE  Partial(h[k], D) = Partial(f[k], D) + IF c \in D THEN num ELSE 0
  <2>1. IsFiniteSet(D)
    BY Zenon, PartialTypes
  <2>x. PICK x, y : x = f[k] /\ y = h[k]
    BY Zenon
  <2>2. /\ \A d \in D : x[d] \in Int
        /\ c \in D => y[c] = x[c] + num
        /\ \A d \in D : d # c => y[d] = x[d]
    BY Zenon, <1>1, <2>x
  <2>3. SumFunctionOnSet(y, D) = SumFunctionOnSet(x, D) + IF c \in D THEN num ELSE 0
    BY ZenonT(40), <2>1, <2>2, SumCounts
  <2> QED
    BY Zenon, <2>3, <2>x DEF Partial
<1>3. Plus(f, k, c, num) = h
  BY Zenon, <1>h DEF Plus
<1> QED
  BY Zenon, <1>1, <1>2, <1>3 DEF Counts

(* A reader stays within its bounds when the counter grows. *)
LEMMA BetweenGrows ==
  ASSUME NEW r \in Reader, NEW f \in [Cores -> Int], NEW h \in [Cores -> Int], NEW base \in Int,
         \A D \in SUBSET Cores : Partial(f, D) <= Partial(h, D), Between(r, f, base)
  PROVE  Between(r, h, base)
<1> SUFFICES ASSUME r.core # 0
             PROVE  /\ r.before + base <= r.sum + Partial(h, r.core..NumCores)
                    /\ r.sum <= Partial(h, 1..(r.core - 1))
  BY Zenon DEF Between
<1>d. PICK D, E : D = r.core..NumCores /\ E = 1..(r.core - 1)
  BY Zenon
<1>1. r.core \in 1..(NumCores + 1) /\ r.sum \in Int /\ r.before \in Int
  BY DEF Reader
<1>2. D \in SUBSET Cores /\ E \in SUBSET Cores
  BY SMTT(30), <1>1, <1>d, DiskServerAssumption DEF Cores
<1>3. /\ Partial(f, D) \in Int /\ Partial(h, D) \in Int /\ Partial(f, D) <= Partial(h, D)
      /\ Partial(f, E) \in Int /\ Partial(h, E) \in Int /\ Partial(f, E) <= Partial(h, E)
  BY Zenon, <1>2, PartialTypes
<1>4. r.before + base <= r.sum + Partial(f, D) /\ r.sum <= Partial(f, E)
  BY Zenon, <1>d DEF Between
<1>5. r.before + base <= r.sum + Partial(h, D) /\ r.sum <= Partial(h, E)
  BY <1>1, <1>3, <1>4
<1> QED
  BY Zenon, <1>5, <1>d

(* One if the handler is at one of these places. *)
In(q, pcs) == IF q \in pcs THEN 1 ELSE 0

(* A handler that moves changes how many are where. *)
LEMMA HandlerMoves ==
  ASSUME CounterTypes, NEW t \in Threads, NEW r \in Handler, thread' = [thread EXCEPT ![t] = r],
         NEW pcs
  PROVE  /\ At(pcs) \in Nat
         /\ At(pcs)' = At(pcs) + In(r.pc, pcs) - In(thread[t].pc, pcs)
<1>s. PICK A, B, R : /\ A = {u \in Threads : thread[u].pc \in pcs}
                     /\ B = {u \in Threads : thread'[u].pc \in pcs}
                     /\ R = {u \in Threads : u # t /\ thread[u].pc \in pcs}
  BY Zenon
<1>1. \A u \in Threads : thread'[u] = IF u = t THEN r ELSE thread[u]
  BY Zenon DEF CounterTypes
<1>2. IsFiniteSet(R) /\ t \notin R
  BY Zenon, <1>s, DiskServerAssumption, FS_Subset
<1>n. PICK num : num = Cardinality(R)
  BY Zenon
<1>3. num \in Nat /\ Cardinality(R \cup {t}) = num + 1
  BY Zenon, <1>2, <1>n, FS_CardinalityType, FS_AddElement
<1>4. A = (IF thread[t].pc \in pcs THEN R \cup {t} ELSE R)
  BY Zenon, <1>s
<1>5. B = (IF r.pc \in pcs THEN R \cup {t} ELSE R)
  BY Zenon, <1>1, <1>s
<1>6. Cardinality(A) = num + In(thread[t].pc, pcs)
  <2>1. CASE thread[t].pc \in pcs
    BY Zenon, <1>3, <1>4, <2>1 DEF In
  <2>2. CASE thread[t].pc \notin pcs
    BY <1>3, <1>4, <1>n, <2>2 DEF In
  <2> QED
    BY Zenon, <2>1, <2>2
<1>7. Cardinality(B) = num + In(r.pc, pcs)
  <2>1. CASE r.pc \in pcs
    BY Zenon, <1>3, <1>5, <2>1 DEF In
  <2>2. CASE r.pc \notin pcs
    BY <1>3, <1>5, <1>n, <2>2 DEF In
  <2> QED
    BY Zenon, <2>1, <2>2
<1>8. In(thread[t].pc, pcs) \in {0, 1} /\ In(r.pc, pcs) \in {0, 1}
  BY Zenon DEF In
<1>9. At(pcs) = Cardinality(A) /\ At(pcs)' = Cardinality(B)
  BY Zenon, <1>s DEF At
<1> QED
  BY <1>3, <1>6, <1>7, <1>8, <1>9

(***************************************************************************)
(* A step of handler t to r, which counts num on a core and takes m        *)
(* operations: what it counts and the places it moves between agree, and   *)
(* it takes nothing off a counter that only grows.                         *)
(***************************************************************************)
Turn(t, r, k, c, num, m) ==
    /\ thread' = [thread EXCEPT ![t] = r] /\ cnt' = [cnt EXCEPT ![k][c] = @ + num]
    /\ handled' = handled + m /\ handled + m <= MaxOps
    /\ UNCHANGED <<backend, mode, grace, delta, reader, reported>>
    /\ k # "inflight" => num \in Nat
    /\ (IF k = "inflight" THEN num ELSE 0)
          = In(r.pc, {"io", "ended"}) - In(thread[t].pc, {"io", "ended"})
    /\ (IF k = "inflight" THEN 0 ELSE num)
          = m - In(r.pc, {"io", "ended", "count"}) + In(thread[t].pc, {"io", "ended", "count"})

(* Such a step keeps the invariant. *)
LEMMA HandlerStep ==
  ASSUME CounterInv, NEW t \in Threads, NEW r \in Handler, NEW k \in Kinds, NEW c \in Cores,
         NEW num \in Int, NEW m \in {0, 1}, Turn(t, r, k, c, num, m)
  PROVE  CounterInv'
<1>t. /\ thread' = [thread EXCEPT ![t] = r] /\ cnt' = [cnt EXCEPT ![k][c] = @ + num]
      /\ handled' = handled + m /\ handled + m <= MaxOps
      /\ UNCHANGED <<backend, mode, grace, delta, reader, reported>>
      /\ k # "inflight" => num \in Nat
      /\ (IF k = "inflight" THEN num ELSE 0)
            = In(r.pc, {"io", "ended"}) - In(thread[t].pc, {"io", "ended"})
      /\ (IF k = "inflight" THEN 0 ELSE num)
            = m - In(r.pc, {"io", "ended", "count"}) + In(thread[t].pc, {"io", "ended", "count"})
  BY Zenon DEF Turn
<1>0. CounterTypes /\ Accounts /\ Reading
  BY Zenon DEF CounterInv
<1>a. PICK a, b, d, e : /\ a = In(r.pc, {"io", "ended"}) /\ b = In(thread[t].pc, {"io", "ended"})
                        /\ d = In(r.pc, {"io", "ended", "count"})
                        /\ e = In(thread[t].pc, {"io", "ended", "count"})
  BY Zenon
<1>1. a \in Int /\ b \in Int /\ d \in Int /\ e \in Int
  BY <1>a DEF In
<1>2. /\ cnt \in [Kinds -> [Cores -> Int]] /\ cnt' \in [Kinds -> [Cores -> Int]]
      /\ \A j \in Kinds : j # k => cnt'[j] = cnt[j]
      /\ \A D \in SUBSET Cores :
            Partial(cnt'[k], D) = Partial(cnt[k], D) + IF c \in D THEN num ELSE 0
  <2>1. cnt \in [Kinds -> [Cores -> Int]]
    BY Zenon, <1>0 DEF CounterTypes
  <2>2. cnt' = Plus(cnt, k, c, num)
    BY Zenon, <1>t DEF Plus
  <2>3. Counts(cnt, Plus(cnt, k, c, num), k, c, num)
    BY Zenon, <2>1, Counted
  <2>4. Counts(cnt, cnt', k, c, num)
    BY Zenon, <2>2, <2>3
  <2> QED
    BY Zenon, <2>1, <2>4 DEF Counts
<1>3. CounterTypes'
  <2>1. thread' \in [Threads -> Handler]
    BY Zenon, <1>0, <1>t DEF CounterTypes
  <2>2. handled' \in 0..MaxOps
    BY <1>0, <1>t, DiskServerAssumption DEF CounterTypes
  <2> QED
    BY Zenon, <1>0, <1>t, <1>2, <2>1, <2>2 DEF CounterTypes, Handler, Reader, ServerMode, Kinds,
       Reported
<1>4. Accounts'
  <2>1. /\ At({"io", "ended"}) \in Nat /\ At({"io", "ended"})' = At({"io", "ended"}) + a - b
        /\ At({"io", "ended", "count"}) \in Nat
        /\ At({"io", "ended", "count"})' = At({"io", "ended", "count"}) + d - e
    BY Zenon, <1>0, <1>t, <1>a, HandlerMoves
  <2>p. PICK i, f, g, h : /\ i = Partial(cnt["inflight"], Cores)
                          /\ f = Partial(cnt["completed"], Cores)
                          /\ g = Partial(cnt["failed"], Cores)
                          /\ h = Partial(cnt["rejected"], Cores)
    BY Zenon
  <2>2. i \in Int /\ f \in Int /\ g \in Int /\ h \in Int /\ handled \in Int /\ m \in Int
    BY <1>0, <1>2, <2>p, PartialTypes DEF Kinds, CounterTypes
  <2>3. \A j \in Kinds : Partial(cnt'[j], Cores) = Partial(cnt[j], Cores) + IF j = k THEN num ELSE 0
    <3> SUFFICES ASSUME NEW j \in Kinds
                 PROVE  Partial(cnt'[j], Cores) = Partial(cnt[j], Cores) + IF j = k THEN num ELSE 0
      BY Zenon
    <3>1. Partial(cnt[j], Cores) \in Int
      BY Zenon, <1>2, PartialTypes
    <3>2. CASE j = k
      BY Zenon, <1>2, <3>2
    <3>3. CASE j # k
      BY <1>2, <3>1, <3>3
    <3> QED
      BY Zenon, <3>2, <3>3
  <2>4. /\ Partial(cnt'["inflight"], Cores) = i + IF k = "inflight" THEN num ELSE 0
        /\ Partial(cnt'["completed"], Cores) = f + IF k = "completed" THEN num ELSE 0
        /\ Partial(cnt'["failed"], Cores) = g + IF k = "failed" THEN num ELSE 0
        /\ Partial(cnt'["rejected"], Cores) = h + IF k = "rejected" THEN num ELSE 0
    BY Zenon, <2>3, <2>p DEF Kinds
  <2>5. /\ i = At({"io", "ended"}) /\ f + g + h = handled - At({"io", "ended", "count"})
    BY Zenon, <1>0, <2>p DEF Accounts
  <2>6. Partial(cnt'["inflight"], Cores) = At({"io", "ended"})'
    <3>1. Partial(cnt'["inflight"], Cores) = i + (a - b)
      BY Zenon, <1>a, <1>t, <2>4
    <3> QED
      BY Zenon, <1>1, <2>1, <2>2, <2>5, <3>1
  <2>7. Partial(cnt'["completed"], Cores) + Partial(cnt'["failed"], Cores)
          + Partial(cnt'["rejected"], Cores) = f + g + h + IF k = "inflight" THEN 0 ELSE num
    BY <2>2, <2>4 DEF Kinds
  <2>8. Partial(cnt'["completed"], Cores) + Partial(cnt'["failed"], Cores)
          + Partial(cnt'["rejected"], Cores) = f + g + h + (m - d + e)
    BY Zenon, <1>a, <1>t, <2>7
  <2>9. Partial(cnt'["completed"], Cores) + Partial(cnt'["failed"], Cores)
          + Partial(cnt'["rejected"], Cores) = handled' - At({"io", "ended", "count"})'
    BY <1>1, <1>t, <2>1, <2>2, <2>5, <2>8
  <2>10. Cores' = Cores
    BY Zenon DEF Cores
  <2> QED
    BY Zenon, <2>6, <2>9, <2>10 DEF Accounts
<1>5. Reading'
  <2>k. PICK j \in Reported : j = reader.kind
    BY Zenon, <1>0 DEF CounterTypes, Reader
  <2>1. reader.kind # "inflight" => Between(reader, cnt'[j], reported[j])
    <3> SUFFICES ASSUME j # "inflight" PROVE Between(reader, cnt'[j], reported[j])
      BY Zenon, <2>k
    <3>1. /\ cnt[j] \in [Cores -> Int] /\ cnt'[j] \in [Cores -> Int]
          /\ reported[j] \in Int /\ Between(reader, cnt[j], reported[j]) /\ reader \in Reader
          /\ j \in Kinds
      BY Zenon, <1>0, <1>2, <2>k DEF CounterTypes, Kinds, Reported, Reading
    <3>2. CASE j # k
      BY Zenon, <1>2, <3>1, <3>2
    <3>3. CASE j = k
      <4>1. ASSUME NEW D \in SUBSET Cores PROVE Partial(cnt[j], D) <= Partial(cnt'[j], D)
        <5>1. Partial(cnt[j], D) \in Int /\ num \in Nat
          BY Zenon, <1>t, <3>1, <3>3, PartialTypes
        <5>2. Partial(cnt'[j], D) = Partial(cnt[j], D) + IF c \in D THEN num ELSE 0
          BY Zenon, <1>2, <3>3
        <5> QED
          BY <5>1, <5>2
      <4> QED
        BY Zenon, <3>1, <4>1, BetweenGrows
    <3> QED
      BY Zenon, <3>2, <3>3
  <2> QED
    BY Zenon, <1>0, <1>t, <2>1, <2>k DEF Reading, Between, Partial
<1> QED
  BY Zenon, <1>3, <1>4, <1>5 DEF CounterInv

(* The records of the handlers. *)
LEMMA Records ==
  /\ Idle \in Handler /\ Idle.pc = "idle"
  /\ \A code \in Codes : Sent(code) \in Handler /\ Sent(code).pc = "sent"
  /\ \A h \in Handler, q \in Pcs : /\ [h EXCEPT !.pc = q] \in Handler
                                   /\ [h EXCEPT !.pc = q].pc = q
  /\ \A h \in Handler, ok \in BOOLEAN :
        /\ [h EXCEPT !.pc = "ended", !.ok = ok] \in Handler
        /\ [h EXCEPT !.pc = "ended", !.ok = ok].pc = "ended"
<1>1. NoMsg = ReplyMsg("none") /\ "none" \in Codes
  BY Zenon DEF ReplyMsg, Codes
<1>2. Idle \in Handler /\ Idle.pc = "idle"
  BY Zenon, <1>1 DEF Idle, Handler, Pcs
<1>3. \A code \in Codes : Sent(code) \in Handler /\ Sent(code).pc = "sent"
  BY Zenon, <1>2 DEF Sent, Idle, Handler, Pcs
<1>4. \A h \in Handler, q \in Pcs : /\ [h EXCEPT !.pc = q] \in Handler
                                    /\ [h EXCEPT !.pc = q].pc = q
  BY Zenon DEF Handler
<1>5. \A h \in Handler, ok \in BOOLEAN :
         /\ [h EXCEPT !.pc = "ended", !.ok = ok] \in Handler
         /\ [h EXCEPT !.pc = "ended", !.ok = ok].pc = "ended"
  BY Zenon DEF Handler, Pcs
<1> QED
  BY Zenon, <1>2, <1>3, <1>4, <1>5

(* A handler that moves outside the operation, or inside it, counts nothing. *)
LEMMA QuietStep ==
  ASSUME CounterInv, NEW t \in Threads, NEW r \in Handler,
         thread' = [thread EXCEPT ![t] = r],
         UNCHANGED <<backend, mode, grace, handled, cnt, delta, reader, reported>>,
         \/ thread[t].pc \in {"idle", "reply", "sent"} /\ r.pc \in {"idle", "reply", "sent"}
         \/ thread[t].pc \in {"io", "ended"} /\ r.pc \in {"io", "ended"}
  PROVE  CounterInv'
<1>1. "inflight" \in Kinds /\ 1 \in Cores /\ 0 \in Int /\ 0 \in {0, 1}
  BY DiskServerAssumption DEF Kinds, Cores
<1>2. cnt \in [Kinds -> [Cores -> Int]] /\ handled \in 0..MaxOps
  BY Zenon DEF CounterInv, CounterTypes
<1>3. cnt = [cnt EXCEPT !["inflight"][1] = @ + 0]
  BY <1>1, <1>2
<1>4. handled = handled + 0 /\ handled + 0 <= MaxOps
  BY <1>2, DiskServerAssumption
<1>5. /\ 0 = In(r.pc, {"io", "ended"}) - In(thread[t].pc, {"io", "ended"})
      /\ 0 = 0 - In(r.pc, {"io", "ended", "count"}) + In(thread[t].pc, {"io", "ended", "count"})
  BY DEF In
<1>6. Turn(t, r, "inflight", 1, 0, 0)
  BY Zenon, <1>3, <1>4, <1>5 DEF Turn
<1> QED
  BY Zenon, <1>1, <1>6, HandlerStep

(* The steps of a handler that count. *)
LEMMA RejectKeeps ==
  ASSUME CounterInv, NEW t \in Threads, NEW msg, NEW c \in Cores, RejectStorageOp(t, msg, c)
  PROVE  CounterInv'
<1>r. PICK r : r = Sent("kRejectModeMismatch")
  BY Zenon
<1>1. /\ thread[t].pc = "idle" /\ handled < MaxOps /\ thread' = [thread EXCEPT ![t] = r]
      /\ cnt' = [cnt EXCEPT !["rejected"][c] = @ + 1] /\ handled' = handled + 1
      /\ UNCHANGED <<backend, mode, grace, delta, reader, reported>>
  BY Zenon, <1>r DEF RejectStorageOp, Inc, modeVars, sumVars
<1>2. r \in Handler /\ r.pc = "sent"
  BY Zenon, <1>r, Records DEF Codes, StorageOpReplyCode
<1>3. handled + 1 <= MaxOps
  BY <1>1, DiskServerAssumption DEF CounterInv, CounterTypes
<1>4. Turn(t, r, "rejected", c, 1, 1)
  BY <1>1, <1>2, <1>3 DEF Turn, In
<1> QED
  BY <1>2, <1>4, HandlerStep DEF Kinds

(* An operation begins. *)
LEMMA StartKeeps ==
  ASSUME CounterInv, NEW t \in Threads, NEW msg, NEW c \in Cores, StartStorageOp(t, msg, c)
  PROVE  CounterInv'
<1>r. PICK r : r = [Idle EXCEPT !.pc = "io"]
  BY Zenon
<1>1. /\ thread[t].pc = "idle" /\ handled < MaxOps /\ thread' = [thread EXCEPT ![t] = r]
      /\ cnt' = [cnt EXCEPT !["inflight"][c] = @ + 1] /\ handled' = handled + 1
      /\ UNCHANGED <<backend, mode, grace, delta, reader, reported>>
  BY Zenon, <1>r DEF StartStorageOp, Inc, modeVars, sumVars
<1>2. r \in Handler /\ r.pc = "io"
  BY Zenon, <1>r, Records DEF Pcs
<1>3. handled + 1 <= MaxOps
  BY <1>1, DiskServerAssumption DEF CounterInv, CounterTypes
<1>4. Turn(t, r, "inflight", c, 1, 1)
  BY <1>1, <1>2, <1>3 DEF Turn, In
<1> QED
  BY <1>2, <1>4, HandlerStep DEF Kinds

(* It is no longer in flight. *)
LEMMA EndKeeps ==
  ASSUME CounterInv, NEW t \in Threads, NEW c \in Cores, EndStorageOp(t, c)
  PROVE  CounterInv'
<1>r. PICK r : r = [thread[t] EXCEPT !.pc = "count"]
  BY Zenon
<1>0. thread \in [Threads -> Handler] /\ thread[t] \in Handler /\ handled \in 0..MaxOps
  BY Zenon DEF CounterInv, CounterTypes
<1>1. /\ thread[t].pc = "ended" /\ thread' = [thread EXCEPT ![t] = r]
      /\ cnt' = [cnt EXCEPT !["inflight"][c] = @ + (-1)]
      /\ UNCHANGED <<backend, mode, grace, handled, delta, reader, reported>>
  BY Zenon, <1>r DEF EndStorageOp, Inc, modeVars, sumVars
<1>2. r \in Handler /\ r.pc = "count"
  BY Zenon, <1>0, <1>r, Records DEF Pcs
<1>3. handled' = handled + 0 /\ handled + 0 <= MaxOps
  BY <1>0, <1>1, DiskServerAssumption
<1>4. Turn(t, r, "inflight", c, -1, 0)
  BY <1>1, <1>2, <1>3 DEF Turn, In
<1>5. -1 \in Int /\ 0 \in {0, 1} /\ "inflight" \in Kinds
  BY DEF Kinds
<1> QED
  BY Zenon, <1>2, <1>4, <1>5, HandlerStep

(* It has completed or failed. *)
LEMMA CountKeeps ==
  ASSUME CounterInv, NEW t \in Threads, NEW c \in Cores, CountStorageOp(t, c)
  PROVE  CounterInv'
<1>r. PICK r, k : /\ r = [thread[t] EXCEPT !.pc = "reply"]
                  /\ k = IF thread[t].ok THEN "completed" ELSE "failed"
  BY Zenon
<1>0. thread \in [Threads -> Handler] /\ thread[t] \in Handler /\ handled \in 0..MaxOps
  BY Zenon DEF CounterInv, CounterTypes
<1>1. /\ thread[t].pc = "count" /\ thread' = [thread EXCEPT ![t] = r]
      /\ cnt' = [cnt EXCEPT ![k][c] = @ + 1]
      /\ UNCHANGED <<backend, mode, grace, handled, delta, reader, reported>>
  BY Zenon, <1>r DEF CountStorageOp, Inc, modeVars, sumVars
<1>2. r \in Handler /\ r.pc = "reply" /\ k \in Kinds /\ k # "inflight"
  BY Zenon, <1>0, <1>r, Records DEF Pcs, Kinds
<1>3. handled' = handled + 0 /\ handled + 0 <= MaxOps
  BY <1>0, <1>1, DiskServerAssumption
<1>4. Turn(t, r, k, c, 1, 0)
  BY <1>1, <1>2, <1>3 DEF Turn, In
<1> QED
  BY <1>2, <1>4, HandlerStep

(* Operations without hooks, and what the others do between the hooks. *)
LEMMA QuietKeeps ==
  ASSUME CounterInv, NEW t \in Threads,
         \/ \E msg \in Requests, ok \in BOOLEAN : HandleUnmonitored(t, msg, ok)
         \/ HandleDiscardBlocks(t, DiscardBlocksMsg({}))
         \/ MemIO(t)
         \/ \E ok \in BOOLEAN : BlkIO(t, ok) \/ SPDKIO(t, ok)
         \/ \E code \in Codes : Reply(t, code)
         \/ NextMsg(t)
  PROVE  CounterInv'
<1>0. thread \in [Threads -> Handler] /\ thread[t] \in Handler
  BY Zenon DEF CounterInv, CounterTypes
<1>1. ASSUME NEW msg \in Requests, NEW ok \in BOOLEAN, HandleUnmonitored(t, msg, ok)
      PROVE  CounterInv'
  <2>r. PICK r : r = Sent(IF ok THEN "kSuccess" ELSE "none")
    BY Zenon
  <2>1. r \in Handler /\ r.pc = "sent"
    BY Zenon, <2>r, Records DEF Codes, StorageOpReplyCode
  <2> QED
    BY Zenon, <1>1, <2>1, <2>r, QuietStep DEF HandleUnmonitored, modeVars, sumVars
<1>2. ASSUME HandleDiscardBlocks(t, DiscardBlocksMsg({})) PROVE CounterInv'
  <2>1. Sent("none") \in Handler /\ Sent("none").pc = "sent"
    BY Zenon, Records DEF Codes
  <2> QED
    BY Zenon, <1>2, <2>1, QuietStep DEF HandleDiscardBlocks, modeVars, sumVars
<1>3. ASSUME NEW ok \in BOOLEAN, Ended(t, ok) PROVE CounterInv'
  <2>r. PICK r : r = [thread[t] EXCEPT !.pc = "ended", !.ok = ok]
    BY Zenon
  <2>h. PICK h \in Handler : h = thread[t]
    BY Zenon, <1>0
  <2>1. r \in Handler /\ r.pc = "ended"
    <3>1. /\ [h EXCEPT !.pc = "ended", !.ok = ok] \in Handler
          /\ [h EXCEPT !.pc = "ended", !.ok = ok].pc = "ended"
      BY Zenon, Records
    <3> QED
      BY Zenon, <2>h, <2>r, <3>1
  <2>2. /\ thread[t].pc = "io" /\ thread' = [thread EXCEPT ![t] = r]
        /\ UNCHANGED <<backend, mode, grace, handled, cnt, delta, reader, reported>>
    BY Zenon, <1>0, <1>3, <2>r DEF Ended, modeVars, sumVars
  <2> QED
    BY Zenon, <2>1, <2>2, QuietStep
<1>4. ASSUME NEW code \in Codes, Reply(t, code) PROVE CounterInv'
  <2>r. PICK r : r = Sent(code)
    BY Zenon
  <2>1. r \in Handler /\ r.pc = "sent"
    BY Zenon, <2>r, Records
  <2> QED
    BY Zenon, <1>4, <2>1, <2>r, QuietStep DEF Reply, modeVars, sumVars
<1>5. ASSUME NextMsg(t) PROVE CounterInv'
  BY Zenon, <1>5, Records, QuietStep DEF NextMsg, modeVars, sumVars
<1> QED
  BY Zenon, <1>1, <1>2, <1>3, <1>4, <1>5 DEF MemIO, BlkIO, SPDKIO

(* A step that leaves the handlers and the counters alone keeps the accounts. *)
LEMMA AccountsStay ==
  ASSUME Accounts, UNCHANGED <<thread, handled, cnt>>
  PROVE  Accounts'
BY Zenon DEF Accounts, At, Partial, Cores

(* The mode changes. *)
LEMMA ModeKeeps ==
  ASSUME CounterInv, (\E m \in ServerMode : SetModeAndWeights(m)) \/ GracePeriodEnds
  PROVE  CounterInv'
<1>1. /\ UNCHANGED <<backend, thread, handled, cnt, delta, reader, reported>>
      /\ mode' \in ServerMode /\ grace' \in BOOLEAN
  BY Zenon DEF SetModeAndWeights, GracePeriodEnds, sumVars, CounterInv, CounterTypes
<1>2. CounterTypes'
  BY Zenon, <1>1 DEF CounterInv, CounterTypes, Handler, Reader, ServerMode, Kinds, Reported
<1>3. Accounts'
  BY Zenon, <1>1, AccountsStay DEF CounterInv
<1>4. Reading'
  BY Zenon, <1>1 DEF CounterInv, Reading, Between, Partial, Kinds
<1> QED
  BY Zenon, <1>2, <1>3, <1>4 DEF CounterInv

(* get_sum begins: nothing is added up, and all of the counter is ahead. *)
LEMMA SumBeginKeeps ==
  ASSUME CounterInv, NEW k \in Reported, SumBegin(k)
  PROVE  CounterInv'
<1>r. PICK r, f : /\ r = [core |-> 1, kind |-> k, sum |-> 0, before |-> Total(k) - reported[k]]
                  /\ f = cnt[k]
  BY Zenon
<1>1. /\ reader' = r
      /\ UNCHANGED <<backend, mode, grace, thread, handled, cnt, delta, reported>>
  BY Zenon, <1>r DEF SumBegin, modeVars
<1>2. /\ k \in Kinds /\ f \in [Cores -> Int] /\ reported[k] \in Int
  BY Zenon, <1>r DEF CounterInv, CounterTypes, Kinds, Reported
<1>3. Total(k) = Partial(f, Cores) /\ Partial(f, Cores) \in Int
  <2>1. DOMAIN f = Cores
    BY Zenon, <1>2
  <2>2. Cores \in SUBSET Cores
    BY Zenon
  <2>3. Partial(f, Cores) \in Int
    BY Zenon, <1>2, <2>2, PartialTypes
  <2> QED
    BY Zenon, <1>r, <2>1, <2>3 DEF Total, SumFunction, Partial
<1>4. /\ r \in Reader /\ r.core = 1 /\ r.sum = 0 /\ r.before = Partial(f, Cores) - reported[k]
      /\ r.kind = k
  BY <1>2, <1>3, <1>r, DiskServerAssumption DEF Reader
<1>5. Between(r, f, reported[k])
  <2>1. 1..NumCores = Cores /\ 1..(1 - 1) = {}
    BY DEF Cores
  <2>2. Partial(f, {}) = 0
    BY Zenon, SumOfNone DEF Partial
  <2>3. /\ r.before + reported[k] <= r.sum + Partial(f, r.core..NumCores)
        /\ r.sum <= Partial(f, 1..(r.core - 1))
    BY <1>2, <1>3, <1>4, <2>1, <2>2
  <2> QED
    BY Zenon, <2>3 DEF Between
<1>6. CounterTypes'
  BY Zenon, <1>1, <1>4 DEF CounterInv, CounterTypes, Handler, Reader, ServerMode, Kinds, Reported
<1>7. Accounts'
  BY Zenon, <1>1, AccountsStay DEF CounterInv
<1>8. Reading'
  <2>1. Between(reader', cnt'[reader'.kind], reported'[reader'.kind])
    BY Zenon, <1>1, <1>4, <1>5, <1>r
  <2> QED
    BY Zenon, <1>1, <2>1 DEF CounterInv, Reading, Between, Partial, Kinds
<1> QED
  BY Zenon, <1>6, <1>7, <1>8 DEF CounterInv

(* get_sum adds one core to what it has, and that core is no longer ahead. *)
LEMMA SumCoreKeeps ==
  ASSUME CounterInv, SumCore
  PROVE  CounterInv'
<1>x. PICK k, x : k = reader.kind /\ x = reader.core
  BY Zenon
<1>f. PICK f : f = cnt[k]
  BY Zenon
<1>r. PICK r, y : r = [reader EXCEPT !.core = x + 1, !.sum = y] /\ y = reader.sum + f[x]
  BY Zenon
<1>1. /\ reader' = r /\ x \in Cores
      /\ UNCHANGED <<backend, mode, grace, thread, handled, cnt, delta, reported>>
  BY Zenon, <1>f, <1>r, <1>x DEF SumCore, modeVars
<1>2. /\ k \in Kinds /\ k \in Reported /\ f \in [Cores -> Int] /\ reported[k] \in Int
      /\ reader \in Reader /\ f[x] \in Int
  BY Zenon, <1>1, <1>f, <1>x DEF CounterInv, CounterTypes, Kinds, Reported, Reader
<1>3. x \in Int /\ 1 <= x /\ x <= NumCores /\ NumCores \in Nat
  BY <1>1, DiskServerAssumption DEF Cores
<1>4. /\ r \in Reader /\ r.core = x + 1 /\ r.sum = reader.sum + f[x] /\ r.before = reader.before
      /\ r.kind = k /\ reader.sum \in Int /\ reader.before \in Int
  <2>1. y \in Int /\ x + 1 \in 0..(NumCores + 1) /\ reader.sum \in Int /\ reader.before \in Int
    BY <1>2, <1>3, <1>r DEF Reader
  <2>2. /\ r \in Reader /\ r.core = x + 1 /\ r.sum = y /\ r.before = reader.before
        /\ r.kind = reader.kind
    BY Zenon, <1>2, <1>r, <2>1 DEF Reader
  <2> QED
    BY Zenon, <1>r, <1>x, <2>1, <2>2
<1>5. ASSUME k # "inflight" PROVE Between(r, f, reported[k])
  <2>0. Between(reader, f, reported[k])
    BY Zenon, <1>5, <1>f, <1>x DEF CounterInv, Reading
  <2>d. PICK D, E : D = x..NumCores /\ E = 1..x
    BY Zenon
  <2>1. /\ D \in SUBSET Cores /\ E \in SUBSET Cores /\ x \in D /\ x \in E
        /\ D \ {x} = (x + 1)..NumCores /\ E \ {x} = 1..(x - 1) /\ 1..(x + 1 - 1) = E
    BY <1>3, <2>d DEF Cores
  <2>2. /\ D \ {x} \in SUBSET Cores /\ E \ {x} \in SUBSET Cores
    BY Zenon, <2>1
  <2>3. /\ Partial(f, D) = f[x] + Partial(f, D \ {x})
        /\ Partial(f, E) = f[x] + Partial(f, E \ {x})
        /\ Partial(f, D \ {x}) \in Int /\ Partial(f, E \ {x}) \in Int
    BY <1>2, <2>1, <2>2, PartialTypes
  <2>4. /\ reader.before + reported[k] <= reader.sum + Partial(f, D)
        /\ reader.sum <= Partial(f, E \ {x})
    <3>1. /\ reader.before + reported[k] <= reader.sum + Partial(f, reader.core..NumCores)
          /\ reader.sum <= Partial(f, 1..(reader.core - 1))
      BY <1>3, <1>x, <2>0 DEF Between
    <3>2. D = reader.core..NumCores /\ E \ {x} = 1..(reader.core - 1)
      BY Zenon, <1>x, <2>1, <2>d
    <3> QED
      BY Zenon, <3>1, <3>2
  <2>5. /\ r.before + reported[k] <= r.sum + Partial(f, D \ {x})
        /\ r.sum <= Partial(f, E)
    BY <1>2, <1>4, <2>3, <2>4
  <2>6. r.core..NumCores = D \ {x} /\ 1..(r.core - 1) = E
    <3>c. PICK z : z = r.core
      BY Zenon
    <3>1. z = x + 1
      BY Zenon, <1>4, <3>c
    <3>2. z - 1 = x
      BY <1>3, <3>1
    <3>3. z..NumCores = D \ {x} /\ 1..(z - 1) = E
      BY Zenon, <2>1, <2>d, <3>1, <3>2
    <3> QED
      BY Zenon, <3>3, <3>c
  <2>7. /\ r.before + reported[k] <= r.sum + Partial(f, r.core..NumCores)
        /\ r.sum <= Partial(f, 1..(r.core - 1))
    BY Zenon, <2>5, <2>6
  <2> QED
    BY Zenon, <2>7 DEF Between
<1>6. CounterTypes'
  BY Zenon, <1>1, <1>4 DEF CounterInv, CounterTypes, Handler, Reader, ServerMode, Kinds, Reported
<1>7. Accounts'
  BY Zenon, <1>1, AccountsStay DEF CounterInv
<1>8. Reading'
  <2>1. reader'.kind # "inflight" => Between(reader', cnt'[reader'.kind], reported'[reader'.kind])
    BY Zenon, <1>1, <1>4, <1>5, <1>f
  <2> QED
    BY Zenon, <1>1, <2>1 DEF CounterInv, Reading, Between, Partial, Kinds
<1> QED
  BY Zenon, <1>6, <1>7, <1>8 DEF CounterInv

(* get_sum returns, and get_sum_and_reset moves the delta by what it returns. *)
LEMMA SumEndKeeps ==
  ASSUME CounterInv, SumEnd
  PROVE  CounterInv'
<1>x. PICK k, s : k = reader.kind /\ s = Sum
  BY Zenon
<1>1. /\ k \in Kinds /\ s \in Int /\ delta \in [Kinds -> Int] /\ reported \in [Kinds -> Int]
      /\ \A j \in Kinds : delta[j] = -reported[j]
  BY <1>x DEF CounterInv, CounterTypes, Kinds, Reported, Reader, Sum, Reading
<1>2. /\ reader' = NotReading /\ UNCHANGED <<backend, mode, grace, thread, handled, cnt>>
      /\ \/ UNCHANGED <<delta, reported>>
         \/ /\ delta' = [delta EXCEPT ![k] = @ - s] /\ reported' = [reported EXCEPT ![k] = @ + s]
  BY Zenon, <1>x DEF SumEnd, modeVars
<1>3. /\ delta' \in [Kinds -> Int] /\ reported' \in [Kinds -> Int]
      /\ \A j \in Kinds : delta'[j] = -reported'[j]
  BY <1>1, <1>2
<1>4. NotReading \in Reader /\ NotReading.core = 0
  BY DiskServerAssumption DEF NotReading, Reader, Reported
<1>5. CounterTypes'
  BY Zenon, <1>2, <1>3, <1>4 DEF CounterInv, CounterTypes, Handler, Reader, ServerMode, Kinds, Reported
<1>6. Accounts'
  BY Zenon, <1>2, AccountsStay DEF CounterInv
<1>7. Reading'
  <2>1. Between(reader', cnt'[reader'.kind], reported'[reader'.kind])
    BY Zenon, <1>2, <1>4 DEF Between
  <2> QED
    BY Zenon, <1>3, <2>1 DEF Reading, Between, Partial, Kinds
<1> QED
  BY Zenon, <1>5, <1>6, <1>7 DEF CounterInv

(* Nothing has been counted at the beginning. *)
LEMMA CounterInvInit == DSInit => CounterInv
<1> SUFFICES ASSUME DSInit PROVE CounterInv
  BY Zenon
<1>1. NotReading \in Reader /\ NotReading.core = 0
  BY DiskServerAssumption DEF NotReading, Reader, Reported
<1>2. CounterTypes
  <2>1. thread \in [Threads -> Handler]
    BY Zenon, Records DEF DSInit
  <2>2. /\ cnt \in [Kinds -> [Cores -> Int]] /\ delta \in [Kinds -> Int]
        /\ reported \in [Kinds -> Int]
    BY DEF DSInit
  <2>3. backend \in Backends /\ mode \in ServerMode /\ grace \in BOOLEAN
    BY Zenon DEF DSInit, ServerMode
  <2>4. handled \in 0..MaxOps /\ reader \in Reader
    BY <1>1, DiskServerAssumption DEF DSInit
  <2> QED
    BY Zenon, <2>1, <2>2, <2>3, <2>4 DEF CounterTypes
<1>3. \A pcs : "idle" \notin pcs => At(pcs) = 0
  <2> SUFFICES ASSUME NEW pcs, "idle" \notin pcs PROVE At(pcs) = 0
    BY Zenon
  <2>1. {t \in Threads : thread[t].pc \in pcs} = {}
    BY Zenon, Records DEF DSInit
  <2> QED
    BY Zenon, <2>1, FS_EmptySet DEF At
<1>4. ASSUME NEW f, f = [c \in Cores |-> 0] PROVE Partial(f, Cores) = 0
  <2>1. f \in [Cores -> Int] /\ \A c \in Cores : f[c] = 0
    BY <1>4
  <2> DEFINE C == {D \in SUBSET Cores : Partial(f, D) # 0}
  <2>2. C = {}
    <3> SUFFICES ASSUME C # {} PROVE FALSE
      BY Zenon
    <3>0. C \in SUBSET (SUBSET Cores)
      BY Zenon
    <3>1. PICK D \in C : \A E \in C : E \subseteq D => E = D
      <4>1. IsFiniteSet(Cores)
        BY DiskServerAssumption, FS_Interval DEF Cores
      <4> HIDE DEF C
      <4> QED
        BY <3>0, <4>1, SubsetMin
    <3>2. D # {}
      BY Zenon, <3>1, SumOfNone DEF Partial
    <3>3. PICK c \in D : TRUE
      BY Zenon, <3>2
    <3>4. D \in SUBSET Cores /\ D \ {c} \notin C /\ D \ {c} \in SUBSET Cores /\ f[c] = 0
      BY Zenon, <2>1, <3>1, <3>3
    <3>5. Partial(f, D \ {c}) = 0
      BY Zenon, <3>4
    <3>6. Partial(f, D) = f[c] + Partial(f, D \ {c})
      BY Zenon, <2>1, <3>3, <3>4, PartialTypes
    <3> QED
      BY <3>1, <3>4, <3>5, <3>6
  <2> QED
    BY Zenon, <2>2
<1>5. Accounts
  <2>1. \A k \in Kinds : Partial(cnt[k], Cores) = 0
    BY Zenon, <1>4 DEF DSInit
  <2>2. At({"io", "ended"}) = 0 /\ At({"io", "ended", "count"}) = 0 /\ handled = 0
    BY Zenon, <1>3 DEF DSInit
  <2> QED
    BY <2>1, <2>2 DEF Accounts, Kinds
<1>6. Reading
  <2>0. \A k \in Kinds : delta[k] = 0 /\ reported[k] = 0
    BY Zenon DEF DSInit
  <2>1. \A k \in Kinds : delta[k] = -reported[k]
    BY <2>0
  <2>2. Between(reader, cnt[reader.kind], reported[reader.kind])
    BY Zenon, <1>1 DEF DSInit, Between
  <2> QED
    BY Zenon, <2>1, <2>2 DEF Reading
<1> QED
  BY Zenon, <1>2, <1>5, <1>6 DEF CounterInv

(* Every step keeps the counters' invariant. *)
LEMMA CounterInvNext == CounterInv /\ [DSNext]_dsVars => CounterInv'
<1> SUFFICES ASSUME CounterInv, [DSNext]_dsVars PROVE CounterInv'
  BY Zenon
<1>1. ASSUME NEW t \in Threads, NEW msg \in Requests, NEW c \in Cores,
             RejectStorageOp(t, msg, c) \/ StartStorageOp(t, msg, c)
      PROVE  CounterInv'
  BY Zenon, <1>1, RejectKeeps, StartKeeps
<1>2. ASSUME NEW t \in Threads,
             \/ \E msg \in Requests, ok \in BOOLEAN : HandleUnmonitored(t, msg, ok)
             \/ HandleDiscardBlocks(t, DiscardBlocksMsg({}))
             \/ MemIO(t)
             \/ \E ok \in BOOLEAN : BlkIO(t, ok) \/ SPDKIO(t, ok)
             \/ \E code \in Codes : Reply(t, code)
             \/ NextMsg(t)
      PROVE  CounterInv'
  BY Zenon, <1>2, QuietKeeps
<1>3. ASSUME NEW t \in Threads, NEW c \in Cores, EndStorageOp(t, c) \/ CountStorageOp(t, c)
      PROVE  CounterInv'
  BY Zenon, <1>3, EndKeeps, CountKeeps
<1>4. CASE (\E m \in ServerMode : SetModeAndWeights(m)) \/ GracePeriodEnds
  BY Zenon, <1>4, ModeKeeps
<1>5. CASE (\E k \in Reported : SumBegin(k)) \/ SumCore \/ SumEnd
  BY Zenon, <1>5, SumBeginKeeps, SumCoreKeeps, SumEndKeeps
<1>6. CASE UNCHANGED dsVars
  <2>1. UNCHANGED <<backend, mode, grace, thread, handled, cnt, delta, reader, reported>>
    BY Zenon, <1>6 DEF dsVars
  <2>2. Accounts'
    BY Zenon, <2>1, AccountsStay DEF CounterInv
  <2>3. CounterTypes' /\ Reading'
    BY Zenon, <2>1 DEF CounterInv, CounterTypes, Handler, Reader, ServerMode, Kinds, Reported, Reading,
                Between, Partial
  <2> QED
    BY Zenon, <2>2, <2>3 DEF CounterInv
<1> QED
  BY Zenon, <1>1, <1>2, <1>3, <1>4, <1>5, <1>6 DEF DSNext

(* The invariant of the counters: what they add up to, and what a reader may see. *)
THEOREM CounterInvariance == DSSpec => []CounterInv
BY CounterInvInit, CounterInvNext, PTL DEF DSSpec

(* A counter's total is its sum over the cores. *)
LEMMA Totals ==
  ASSUME CounterTypes, NEW k \in Kinds
  PROVE  Total(k) = Partial(cnt[k], Cores) /\ Total(k) \in Int
<1>1. cnt[k] \in [Cores -> Int] /\ DOMAIN cnt[k] = Cores /\ Cores \in SUBSET Cores
  BY Zenon DEF CounterTypes
<1>2. Partial(cnt[k], Cores) \in Int
  BY Zenon, <1>1, PartialTypes
<1> QED
  BY Zenon, <1>1, <1>2 DEF Total, SumFunction, Partial

(***************************************************************************)
(* Whatever the handlers' cores and the interleaving, every read and write *)
(* is counted as in flight until it ends, and then exactly once as         *)
(* completed, failed or rejected (HandleStorageOp, DiskMonitor's hooks).   *)
(***************************************************************************)
THEOREM OperationsAreAccountedOnce == DSSpec => []AccountedOnce
<1>1. CounterInv => AccountedOnce
  <2> SUFFICES ASSUME CounterInv PROVE AccountedOnce
    BY Zenon
  <2>1. DSTypeOK
    <3>1. \A h \in Handler : /\ h.pc \in Pcs /\ h.ok \in BOOLEAN
                             /\ h.reply \in {ReplyMsg(code) : code \in Codes}
      BY Zenon DEF Handler
    <3>2. \A t \in Threads : thread[t] \in Handler
      BY Zenon DEF CounterInv, CounterTypes
    <3>3. reader.core \in 0..(NumCores + 1) /\ reader.kind \in Kinds
      BY Zenon DEF CounterInv, CounterTypes, Reader, Reported, Kinds
    <3> QED
      BY Zenon, <3>1, <3>2, <3>3 DEF CounterInv, CounterTypes, DSTypeOK, Pcs
  <2>2. \A k \in Kinds : Total(k) = Partial(cnt[k], Cores)
    BY Zenon, Totals DEF CounterInv
  <2> QED
    BY Zenon, <2>1, <2>2 DEF CounterInv, Accounts, AccountedOnce, Kinds
<1> QED
  BY <1>1, CounterInvariance, PTL

(***************************************************************************)
(* A report has everything that was counted when its reader began and had  *)
(* not been reported, and nothing that has not been counted, though the    *)
(* reader adds the cores up one by one while handlers count                *)
(* (ThreadSafeCounter::get_sum_and_reset).                                 *)
(***************************************************************************)
THEOREM CountersAreReportedExactly == DSSpec => []ReportsAreExact
<1>1. CounterInv => ReportsAreExact
  <2> SUFFICES ASSUME CounterInv, reader.core = NumCores + 1, reader.kind # "inflight"
               PROVE  Sum \in reader.before..(Total(reader.kind) - reported[reader.kind])
    BY Zenon DEF ReportsAreExact
  <2>x. PICK k, f : k = reader.kind /\ f = cnt[k]
    BY Zenon
  <2>1. /\ k \in Kinds /\ f \in [Cores -> Int] /\ reader.sum \in Int /\ reader.before \in Int
        /\ reported[k] \in Int /\ delta[k] = -reported[k]
    BY Zenon, <2>x DEF CounterInv, CounterTypes, Reader, Reported, Kinds, Reading
  <2>2. Between(reader, f, reported[k])
    BY Zenon, <2>x DEF CounterInv, Reading
  <2>3. /\ (NumCores + 1)..NumCores = {} /\ 1..(NumCores + 1 - 1) = Cores /\ NumCores + 1 # 0
    BY DiskServerAssumption DEF Cores
  <2>4. /\ reader.before + reported[k] <= reader.sum + Partial(f, {})
        /\ reader.sum <= Partial(f, Cores)
    <3>1. /\ reader.before + reported[k] <= reader.sum + Partial(f, reader.core..NumCores)
          /\ reader.sum <= Partial(f, 1..(reader.core - 1))
      BY Zenon, <2>2, <2>3 DEF Between
    <3>c. PICK z : z = reader.core
      BY Zenon
    <3>2. z..NumCores = {} /\ 1..(z - 1) = Cores
      <4>1. z = NumCores + 1 /\ z - 1 = NumCores
        BY <3>c, DiskServerAssumption
      <4> QED
        BY Zenon, <2>3, <4>1 DEF Cores
    <3> QED
      BY Zenon, <3>1, <3>2, <3>c
  <2>5. Partial(f, {}) = 0
    BY Zenon, SumOfNone DEF Partial
  <2>6. Total(k) = Partial(f, Cores) /\ Total(k) \in Int
    BY Zenon, <2>1, <2>x, Totals DEF CounterInv
  <2>7. Sum = reader.sum - reported[k]
    BY Zenon, <2>1, <2>x DEF Sum
  <2>8. Sum \in reader.before..(Total(k) - reported[k])
    BY <2>1, <2>4, <2>5, <2>6, <2>7
  <2> QED
    BY Zenon, <2>8, <2>x
<1> QED
  BY <1>1, CounterInvariance, PTL

===============================================================================
