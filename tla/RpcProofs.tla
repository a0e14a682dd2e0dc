------------------------------ MODULE RpcProofs ------------------------------
(***************************************************************************)
(* The credits of a flow are exact, no wakeup of a sender is lost and a    *)
(* call gets its own reply: proofs for every number of callers, calls and  *)
(* credits, every range of the counters, with and without a reset.         *)
(***************************************************************************)
EXTENDS Rpc, FiniteSetTheorems, SequenceTheorems, TLAPS

(* The stages a call passes, and the messages that are at each. *)
Stages == {"reqs", "batch", "up", "handling", "completions", "sbatch", "down", "cur"}

At == [reqs |-> Range(reqs), batch |-> Range(batch), up |-> Range(up),
       handling |-> handling, completions |-> Range(completions),
       sbatch |-> Range(sbatch), down |-> Range(down), cur |-> Range(cur)]

(* The message is of the call its caller is waiting in. *)
Current(m) == pc[m[1]] = "parked" /\ m[2] = calls[m[1]]

(* No message is at two stages. *)
Apart(at) == \A k, l \in Stages : k # l => at[k] \cap at[l] = {}

(* Every message is of a call that waits, and is at one stage. *)
OneMessage ==
    /\ \A k \in Stages : \A m \in At[k] : Current(m)
    /\ Apart(At)

(* No message is at a stage twice. *)
NoDuplicates ==
    /\ IsInjective(reqs) /\ IsInjective(batch) /\ IsInjective(up)
    /\ IsInjective(completions) /\ IsInjective(sbatch) /\ IsInjective(down)

(* What the states of the flow's two workers and of the flow say. *)
WorkerInv ==
    /\ sender \in {"runnable", "parked"} => batch = <<>>
    /\ receiver = "header" => cur = <<>>
    /\ receiver = "payload" => cur # <<>>
    /\ close => \A c \in Callers : pc[c] = "idle"

(* The inductive invariant. *)
RpcInv ==
    /\ TypeOK /\ OneMessage /\ NoDuplicates /\ WorkerInv /\ IsFiniteSet(handling)
    /\ CreditsExact /\ NoLostWakeup /\ OwnReply

-----------------------------------------------------------------------------
(* Sequences *)

(* Appending an element that is not there. *)
LEMMA AppendOne ==
  ASSUME NEW S, NEW s \in Seq(S), NEW m \in S, IsInjective(s), m \notin Range(s)
  PROVE  /\ Append(s, m) \in Seq(S) /\ IsInjective(Append(s, m))
         /\ Range(Append(s, m)) = Range(s) \cup {m}
         /\ Len(Append(s, m)) = Len(s) + 1
BY DEF Range, IsInjective

(* Removing the first element. *)
LEMMA TailOne ==
  ASSUME NEW S, NEW s \in Seq(S), IsInjective(s), s # <<>>
  PROVE  /\ Tail(s) \in Seq(S) /\ IsInjective(Tail(s))
         /\ Head(s) \in S /\ Head(s) \in Range(s)
         /\ Range(Tail(s)) = Range(s) \ {Head(s)}
         /\ Len(Tail(s)) = Len(s) - 1 /\ Len(s) \in Nat
<1> DEFINE n == Len(s)
           t == Tail(s)
<1>1. /\ t \in Seq(S) /\ Head(s) \in S /\ Len(t) = n - 1 /\ n \in Nat /\ n > 0
      /\ Head(s) = s[1] /\ DOMAIN s = 1..n /\ DOMAIN t = 1..(n - 1)
      /\ \A i \in 1..(n - 1) : t[i] = s[i + 1]
  BY HeadTailProperties, EmptySeq, LenProperties
<1> HIDE DEF n, t
<1>0. \A i, j \in 1..n : s[i] = s[j] => i = j
  BY Zenon, <1>1 DEF IsInjective
<1>2. IsInjective(t)
  <2> SUFFICES ASSUME NEW i \in 1..(n - 1), NEW j \in 1..(n - 1), t[i] = t[j] PROVE i = j
    BY Zenon, <1>1 DEF IsInjective
  <2>1. s[i + 1] = s[j + 1] /\ i + 1 \in 1..n /\ j + 1 \in 1..n
    BY <1>1
  <2>2. i + 1 = j + 1
    BY Zenon, <1>0, <2>1
  <2> QED
    BY <1>1, <2>2
<1>3. Head(s) \in Range(s)
  BY <1>1 DEF Range
<1>4. ASSUME NEW x \in Range(t) PROVE x \in Range(s) /\ x # Head(s)
  <2>1. PICK i \in 1..(n - 1) : x = s[i + 1]
    BY Zenon, <1>1 DEF Range
  <2>2. i + 1 \in 1..n /\ 1 \in 1..n /\ i + 1 # 1
    BY <1>1
  <2> QED
    BY Zenon, <1>0, <1>1, <2>1, <2>2 DEF Range
<1>5. ASSUME NEW x \in Range(s), x # Head(s) PROVE x \in Range(t)
  <2>1. PICK i \in 1..n : x = s[i]
    BY Zenon, <1>1 DEF Range
  <2>2. i - 1 \in 1..(n - 1) /\ (i - 1) + 1 = i
    BY <1>1, <1>5, <2>1
  <2> QED
    BY Zenon, <1>1, <2>1, <2>2 DEF Range
<1> QED
  BY Zenon, <1>1, <1>2, <1>3, <1>4, <1>5 DEF n, t

(* Joining two sequences that share nothing. *)
LEMMA ConcatTwo ==
  ASSUME NEW S, NEW s \in Seq(S), NEW t \in Seq(S), IsInjective(s), IsInjective(t),
         Range(s) \cap Range(t) = {}
  PROVE  /\ s \o t \in Seq(S) /\ IsInjective(s \o t)
         /\ Range(s \o t) = Range(s) \cup Range(t)
         /\ Len(s \o t) = Len(s) + Len(t)
<1> DEFINE u == s \o t
           n == Len(s)
           k == Len(t)
<1>1. /\ u \in Seq(S) /\ Len(u) = n + k /\ n \in Nat /\ k \in Nat
      /\ DOMAIN s = 1..n /\ DOMAIN t = 1..k /\ DOMAIN u = 1..(n + k)
      /\ \A i \in 1..(n + k) : u[i] = IF i <= n THEN s[i] ELSE t[i - n]
  BY ConcatProperties, LenProperties
<1>2. Range(u) = Range(s) \cup Range(t)
  BY RangeConcatenation
<1> HIDE DEF n, k, u
<1>3. ASSUME NEW i \in 1..(n + k), NEW j \in 1..(n + k), u[i] = u[j] PROVE i = j
  <2>1. \A x \in 1..n, y \in 1..k : s[x] # t[y]
    BY Zenon, <1>1 DEF Range
  <2>2. CASE i <= n /\ j <= n
    <3>1. i \in 1..n /\ j \in 1..n /\ s[i] = s[j]
      BY <1>1, <1>3, <2>2
    <3> QED
      BY Zenon, <1>1, <3>1 DEF IsInjective
  <2>3. CASE i > n /\ j > n
    <3>1. i - n \in 1..k /\ j - n \in 1..k /\ t[i - n] = t[j - n]
      BY <1>1, <1>3, <2>3
    <3>2. i - n = j - n
      BY Zenon, <1>1, <3>1 DEF IsInjective
    <3> QED
      BY <1>1, <3>2
  <2>4. CASE i <= n /\ j > n
    <3>1. i \in 1..n /\ j - n \in 1..k /\ s[i] = t[j - n]
      BY <1>1, <1>3, <2>4
    <3> QED
      BY Zenon, <2>1, <3>1
  <2>5. CASE i > n /\ j <= n
    <3>1. j \in 1..n /\ i - n \in 1..k /\ s[j] = t[i - n]
      BY <1>1, <1>3, <2>5
    <3> QED
      BY Zenon, <2>1, <3>1
  <2> QED
    BY <1>1, <2>2, <2>3, <2>4, <2>5
<1>4. IsInjective(u)
  BY Zenon, <1>1, <1>3 DEF IsInjective
<1> QED
  BY Zenon, <1>1, <1>2, <1>4 DEF n, k, u

(* The arithmetic of a cut. *)
LEMMA CutLength ==
  ASSUME NEW n \in Nat, NEW g \in 0..n
  PROVE  n - (g + 1) + 1 = n - g /\ (g + 1 > n => n - g = 0)
OBVIOUS

(* Cutting a sequence after g elements. *)
LEMMA CutAt ==
  ASSUME NEW S, NEW s \in Seq(S), NEW g \in 0..Len(s), IsInjective(s)
  PROVE  LET a == SubSeq(s, 1, g)
             b == SubSeq(s, g + 1, Len(s))
         IN  /\ a \in Seq(S) /\ b \in Seq(S) /\ IsInjective(a) /\ IsInjective(b)
             /\ Range(a) \cup Range(b) = Range(s) /\ Range(a) \cap Range(b) = {}
             /\ Len(a) = g /\ Len(b) = Len(s) - g
<1> DEFINE a == SubSeq(s, 1, g)
           b == SubSeq(s, g + 1, Len(s))
<1> DEFINE n == Len(s)
<1>1. n \in Nat /\ DOMAIN s = 1..n /\ \A i \in 1..n : s[i] \in S
  BY Zenon, LenProperties, ElementOfSeq
<1>2. /\ a \in Seq(S) /\ Len(a) = g /\ DOMAIN a = 1..g
      /\ \A i \in 1..g : a[i] = s[i]
  <2>1. 1 \in Int /\ g \in Int /\ \A i \in 1..g : s[i] \in S
    BY <1>1
  <2>2. /\ a \in Seq(S) /\ Len(a) = IF 1 <= g THEN g - 1 + 1 ELSE 0
        /\ \A i \in 1..(g - 1 + 1) : a[i] = s[1 + i - 1]
    BY <2>1, SubSeqProperties
  <2> QED
    BY <2>1, <2>2, LenProperties
<1>3. /\ b \in Seq(S) /\ Len(b) = n - g /\ DOMAIN b = 1..(n - g)
      /\ \A i \in 1..(n - g) : b[i] = s[g + i]
  <2>1. g + 1 \in Int /\ n \in Int /\ \A i \in (g + 1)..n : s[i] \in S
    BY <1>1
  <2>2. /\ b \in Seq(S) /\ Len(b) = IF g + 1 <= n THEN n - (g + 1) + 1 ELSE 0
        /\ \A i \in 1..(n - (g + 1) + 1) : b[i] = s[(g + 1) + i - 1]
    BY SMTT(30), <2>1, SubSeqProperties
  <2>3. n - (g + 1) + 1 = n - g /\ (g + 1 > n => n - g = 0)
    BY Zenon, <1>1, CutLength
  <2> HIDE DEF a, b, n
  <2>6. Len(b) = n - g
    BY <2>2, <2>3, <1>1
  <2>4. \A i \in 1..(n - g) : (g + 1) + i - 1 = g + i
    BY <1>1
  <2>5. DOMAIN b = 1..(n - g)
    BY Zenon, <2>2, <2>6, LenProperties
  <2> QED
    BY Zenon, <2>2, <2>3, <2>4, <2>5, <2>6
<1> HIDE DEF n, a, b
<1>4. g \in 0..n
  BY Zenon DEF n
<1>5. IsInjective(a)
  BY <1>1, <1>2, <1>4 DEF IsInjective
<1>6. IsInjective(b)
  <2> SUFFICES ASSUME NEW i \in 1..(n - g), NEW j \in 1..(n - g), b[i] = b[j] PROVE i = j
    BY Zenon, <1>3 DEF IsInjective
  <2>1. s[g + i] = s[g + j] /\ g + i \in 1..n /\ g + j \in 1..n
    BY <1>1, <1>3, <1>4
  <2>2. g + i = g + j
    BY Zenon, <1>1, <2>1 DEF IsInjective
  <2> QED
    BY <1>1, <1>4, <2>2
<1>7. Range(a) \subseteq Range(s) /\ Range(b) \subseteq Range(s)
  <2>1. \A i \in 1..g : i \in 1..n
    BY <1>1, <1>4
  <2>2. \A i \in 1..(n - g) : g + i \in 1..n
    BY <1>1, <1>4
  <2>3. Range(a) \subseteq Range(s)
    BY Zenon, <1>1, <1>2, <2>1 DEF Range
  <2>4. Range(b) \subseteq Range(s)
    BY Zenon, <1>1, <1>3, <2>2 DEF Range
  <2> QED
    BY Zenon, <2>3, <2>4
<1>8. ASSUME NEW x \in Range(s) PROVE x \in Range(a) \cup Range(b)
  <2>1. PICK i \in 1..n : x = s[i]
    BY Zenon, <1>1 DEF Range
  <2>2. CASE i <= g
    BY <1>1, <1>2, <1>4, <2>1, <2>2 DEF Range
  <2>3. CASE i > g
    <3>1. i - g \in 1..(n - g) /\ g + (i - g) = i
      BY <1>1, <1>4, <2>3
    <3> QED
      BY Zenon, <1>3, <2>1, <3>1 DEF Range
  <2> QED
    BY <1>1, <1>4, <2>2, <2>3
<1>9. ASSUME NEW x \in Range(a), x \in Range(b) PROVE FALSE
  <2>1. PICK i \in 1..g : x = s[i]
    BY Zenon, <1>2, <1>9 DEF Range
  <2>2. PICK j \in 1..(n - g) : x = s[g + j]
    BY Zenon, <1>3, <1>9 DEF Range
  <2>3. i \in 1..n /\ g + j \in 1..n /\ i # g + j
    BY <1>1, <1>4
  <2> QED
    BY Zenon, <1>1, <2>1, <2>2, <2>3 DEF IsInjective
<1> QED
  BY Zenon, <1>2, <1>3, <1>5, <1>6, <1>7, <1>8, <1>9 DEF n, a, b

(* The empty sequence. *)
LEMMA Empty ==
  ASSUME NEW S
  PROVE  <<>> \in Seq(S) /\ IsInjective(<<>>) /\ Range(<<>>) = {} /\ Len(<<>>) = 0
BY DEF Range, IsInjective

-----------------------------------------------------------------------------
(* The counters *)

(* What the wrapping difference is. *)
LEMMA DifferenceIs ==
  ASSUME NEW s \in 0..(CounterRange - 1), NEW r \in 0..(CounterRange - 1)
  PROVE  /\ Difference(s, r) = IF s >= r THEN s - r ELSE s + CounterRange - r
         /\ Difference(s, r) \in 0..(CounterRange - 1)
BY RpcAssumption DEF Difference

(* What advancing a counter is. *)
LEMMA AdvanceIs ==
  ASSUME NEW s \in 0..(CounterRange - 1), NEW n \in 0..kNumCredits
  PROVE  /\ Advance(s, n) = IF s + n < CounterRange THEN s + n ELSE s + n - CounterRange
         /\ Advance(s, n) \in 0..(CounterRange - 1)
BY RpcAssumption DEF Advance

(* Sending n requests raises the difference by n, if that is a credit. *)
LEMMA AdvanceSent ==
  ASSUME NEW s \in 0..(CounterRange - 1), NEW r \in 0..(CounterRange - 1),
         NEW n \in 0..kNumCredits, Difference(s, r) + n <= kNumCredits
  PROVE  Difference(Advance(s, n), r) = Difference(s, r) + n
<1>1. /\ Advance(s, n) = IF s + n < CounterRange THEN s + n ELSE s + n - CounterRange
      /\ Advance(s, n) \in 0..(CounterRange - 1)
  BY Zenon, AdvanceIs
<1>2. Difference(s, r) = IF s >= r THEN s - r ELSE s + CounterRange - r
  BY Zenon, DifferenceIs
<1>3. Difference(Advance(s, n), r) = IF Advance(s, n) >= r THEN Advance(s, n) - r
                                     ELSE Advance(s, n) + CounterRange - r
  BY Zenon, <1>1, DifferenceIs
<1> QED
  BY <1>1, <1>2, <1>3, RpcAssumption

(* A reply lowers it by one. *)
LEMMA AdvanceReceived ==
  ASSUME NEW s \in 0..(CounterRange - 1), NEW r \in 0..(CounterRange - 1),
         Difference(s, r) > 0
  PROVE  Difference(s, Advance(r, 1)) = Difference(s, r) - 1
<1>0. 1 \in 0..kNumCredits
  BY RpcAssumption
<1>1. /\ Advance(r, 1) = IF r + 1 < CounterRange THEN r + 1 ELSE r + 1 - CounterRange
      /\ Advance(r, 1) \in 0..(CounterRange - 1)
  BY Zenon, <1>0, AdvanceIs
<1>2. Difference(s, r) = IF s >= r THEN s - r ELSE s + CounterRange - r
  BY Zenon, DifferenceIs
<1>3. Difference(s, Advance(r, 1)) = IF s >= Advance(r, 1) THEN s - Advance(r, 1)
                                     ELSE s + CounterRange - Advance(r, 1)
  BY Zenon, <1>1, DifferenceIs
<1> QED
  BY <1>1, <1>2, <1>3, RpcAssumption

-----------------------------------------------------------------------------
(* Messages at their stages *)

(* The messages M move from stage k to stage l. *)
LEMMA Move ==
  ASSUME NEW A, NEW B, NEW k \in Stages, NEW l \in Stages, k # l, NEW M, M \subseteq A[k],
         B[k] = A[k] \ M, B[l] = A[l] \cup M, \A j \in Stages \ {k, l} : B[j] = A[j],
         Apart(A)
  PROVE  Apart(B) /\ UNION {B[j] : j \in Stages} = UNION {A[j] : j \in Stages}
<1>1. Apart(B)
  BY DEF Apart
<1>2. \A j \in Stages : B[j] \subseteq A[j] \cup A[k]
  BY Zenon
<1>3. \A j \in Stages : A[j] \subseteq B[j] \cup B[l]
  BY Zenon
<1> QED
  BY <1>1, <1>2, <1>3

(* A message that is nowhere comes to stage k. *)
LEMMA Enter ==
  ASSUME NEW A, NEW B, NEW k \in Stages, NEW m, \A j \in Stages : m \notin A[j],
         B[k] = A[k] \cup {m}, \A j \in Stages \ {k} : B[j] = A[j], Apart(A)
  PROVE  Apart(B)
BY DEF Apart

(* A message at stage k leaves: it is nowhere. *)
LEMMA Leave ==
  ASSUME NEW A, NEW B, NEW k \in Stages, NEW m, m \in A[k],
         B[k] = A[k] \ {m}, \A j \in Stages \ {k} : B[j] = A[j], Apart(A)
  PROVE  Apart(B) /\ \A j \in Stages : m \notin B[j] /\ B[j] \subseteq A[j]
BY Zenon DEF Apart

(* The stages by name. *)
LEMMA AtIs ==
  /\ At["reqs"] = Range(reqs) /\ At["batch"] = Range(batch) /\ At["up"] = Range(up)
  /\ At["handling"] = handling /\ At["completions"] = Range(completions)
  /\ At["sbatch"] = Range(sbatch) /\ At["down"] = Range(down) /\ At["cur"] = Range(cur)
BY Zenon DEF At

(* Everything at a stage is a message. *)
LEMMA AtMessages ==
  ASSUME TypeOK
  PROVE  \A k \in Stages : At[k] \subseteq Messages
<1>1. /\ Range(reqs) \subseteq Messages /\ Range(batch) \subseteq Messages
      /\ Range(up) \subseteq Messages /\ Range(completions) \subseteq Messages
      /\ Range(sbatch) \subseteq Messages /\ Range(down) \subseteq Messages
      /\ Range(cur) \subseteq Messages
  BY Zenon, RangeOfSeq DEF TypeOK
<1> QED
  BY ZenonT(30), <1>1, AtIs DEF TypeOK, Stages

(* Two messages of one caller are the same. *)
LEMMA OnePerCaller ==
  ASSUME TypeOK, OneMessage, NEW k \in Stages, NEW l \in Stages,
         NEW m \in At[k], NEW x \in At[l], m[1] = x[1]
  PROVE  m = x
<1>1. m \in Messages /\ x \in Messages
  BY Zenon, AtMessages
<1>2. m[2] = calls[m[1]] /\ x[2] = calls[x[1]]
  BY Zenon DEF OneMessage, Current
<1> QED
  BY <1>1, <1>2 DEF Messages

(* Moving messages disturbs no call. *)
LEMMA MoveKeeps ==
  ASSUME OneMessage, UNCHANGED <<calls, pc>>, Apart(At'),
         UNION {At'[j] : j \in Stages} \subseteq UNION {At[j] : j \in Stages}
  PROVE  OneMessage'
<1>1. ASSUME NEW k \in Stages, NEW m \in At'[k] PROVE Current(m)'
  <2>1. PICK j \in Stages : m \in At[j]
    BY Zenon
  <2> QED
    BY Zenon, <2>1 DEF OneMessage, Current
<1> QED
  BY Zenon, <1>1 DEF OneMessage

(* Wakeups and the counters *)

(* The difference of the counters is a number. *)
LEMMA InflightNat ==
  ASSUME TypeOK
  PROVE  Inflight \in 0..(CounterRange - 1)
BY Zenon, DifferenceIs DEF Inflight, TypeOK

-----------------------------------------------------------------------------
(* The steps *)

(* RPCFlow::Call keeps the invariant: the new message is the caller's only one. *)
LEMMA CallKeeps ==
  ASSUME RpcInv, NEW c \in Callers, Call(c)
  PROVE  RpcInv'
<1>m. PICK m : m = <<c, calls[c] + 1>>
  BY Zenon
<1>0. TypeOK /\ OneMessage /\ NoDuplicates /\ WorkerInv
  BY Zenon DEF RpcInv
<1>1. /\ pc[c] = "idle" /\ ~close /\ calls[c] < MaxCalls
      /\ calls' = [calls EXCEPT ![c] = @ + 1] /\ pc' = [pc EXCEPT ![c] = "parked"]
      /\ reqs' = Append(reqs, m)
      /\ sender' = IF Inflight < kNumCredits THEN Woken(sender) ELSE sender
      /\ UNCHANGED <<got, batch, sent_count, recv_count, close, recvVars, up,
                     upFin, serverVars, down, downFin, broken>>
  BY Zenon, <1>m DEF Call
<1>2. m \in Messages /\ calls[c] \in Nat
  BY SMTT(30), <1>m, <1>0, <1>1, RpcAssumption DEF TypeOK, Messages
<1>3. \A k \in Stages : \A x \in At[k] : x \in Messages /\ x[1] # c /\ Current(x)
  BY Zenon, <1>0, <1>1, AtMessages DEF OneMessage, Current
<1>4. \A k \in Stages : m \notin At[k]
  BY Zenon, <1>m, <1>3
<1>5. "reqs" \in Stages /\ m \notin Range(reqs)
  BY ZenonT(30), <1>4, AtIs DEF Stages
<1>6. /\ reqs' \in Seq(Messages) /\ IsInjective(reqs')
      /\ Range(reqs') = Range(reqs) \cup {m} /\ Len(reqs') = Len(reqs) + 1
  BY SMTT(30), <1>0, <1>1, <1>2, <1>5, AppendOne DEF TypeOK, NoDuplicates
<1>7. TypeOK'
  <2>1. calls' \in [Callers -> 0..MaxCalls] /\ pc' \in [Callers -> {"idle", "parked"}]
    BY SMTT(30), <1>0, <1>1, <1>2, RpcAssumption DEF TypeOK
  <2>2. sender' \in SenderStates
    BY Zenon, <1>0, <1>1 DEF TypeOK, SenderStates, Woken
  <2> QED
    BY Zenon, <1>0, <1>1, <1>6, <2>1, <2>2 DEF TypeOK, recvVars, serverVars
<1>8. At'["reqs"] = At["reqs"] \cup {m} /\ \A k \in Stages \ {"reqs"} : At'[k] = At[k]
  BY <1>1, <1>6 DEF At, Stages, recvVars, serverVars
<1>9. OneMessage'
  <2>1. Apart(At')
    BY Zenon, <1>0, <1>4, <1>5, <1>8, Enter DEF OneMessage
  <2>2. Current(m)'
    BY Zenon, <1>m, <1>0, <1>1, <1>2 DEF Current, TypeOK
  <2>3. ASSUME NEW k \in Stages, NEW x \in At[k] PROVE Current(x)'
    BY Zenon, <1>0, <1>1, <1>3 DEF Current, TypeOK, Messages
  <2> QED
    BY Zenon, <1>8, <2>1, <2>2, <2>3 DEF OneMessage
<1>10. NoDuplicates' /\ WorkerInv'
  BY Zenon, <1>0, <1>1, <1>6 DEF NoDuplicates, WorkerInv, recvVars, serverVars, Woken
<1>11. Inflight' = Inflight
  BY Zenon, <1>1 DEF Inflight
<1>12. CreditsExact' /\ IsFiniteSet(handling')
  BY Zenon, <1>1, <1>7, <1>11 DEF CreditsExact, RpcInv, serverVars
<1>13. NoLostWakeup'
  BY SMTT(30), <1>0, <1>1, <1>11, InflightNat, RpcAssumption DEF NoLostWakeup, RpcInv,
     serverVars, Woken
<1>14. OwnReply'
  BY SMTT(30), <1>0, <1>1, <1>2 DEF OwnReply, RpcInv, TypeOK
<1> QED
  BY Zenon, <1>7, <1>9, <1>10, <1>12, <1>13, <1>14 DEF RpcInv

(* SendWorker: the gathered requests move from the queue to the batch, each for a *)
(* credit that is there. *)
LEMMA SendWorkerKeeps ==
  ASSUME RpcInv, SendWorker
  PROVE  RpcInv'
<1>0. TypeOK /\ OneMessage /\ NoDuplicates /\ WorkerInv
  BY Zenon DEF RpcInv
<1>1. /\ sender = "runnable" /\ batch = <<>>
      /\ UNCHANGED <<callerVars, recv_count, close, recvVars, up, serverVars,
                     down, downFin, broken>>
  BY Zenon, <1>0 DEF SendWorker, WorkerInv
<1>2. CASE /\ reqs = <<>> \/ Inflight >= kNumCredits
           /\ ~(close /\ reqs = <<>>)
           /\ sender' = "parked"
           /\ UNCHANGED <<reqs, batch, sent_count, upFin>>
  <2>1. TypeOK'
    BY Zenon, <1>0, <1>1, <1>2 DEF TypeOK, callerVars, recvVars, serverVars, SenderStates
  <2>2. At' = At /\ Inflight' = Inflight
    BY Zenon, <1>1, <1>2 DEF At, Inflight, recvVars, serverVars
  <2>3. OneMessage' /\ NoDuplicates' /\ WorkerInv'
    BY Zenon, <1>0, <1>1, <1>2, <2>2 DEF OneMessage, NoDuplicates, WorkerInv, Current,
       callerVars,
       recvVars, serverVars
  <2>4. CreditsExact' /\ NoLostWakeup' /\ OwnReply' /\ IsFiniteSet(handling')
    BY Zenon, <1>1, <1>2, <2>1, <2>2 DEF RpcInv, CreditsExact, NoLostWakeup, OwnReply,
       callerVars,
       serverVars
  <2> QED
    BY Zenon, <2>1, <2>3, <2>4 DEF RpcInv
<1>3. CASE /\ \/ reqs # <<>> /\ Inflight < kNumCredits
              \/ close /\ reqs = <<>>
           /\ batch' = SubSeq(reqs, 1, Gather)
           /\ reqs' = SubSeq(reqs, Gather + 1, Len(reqs))
           /\ sent_count' = Advance(sent_count, Gather)
           /\ IF close /\ reqs' = <<>>
              THEN sender' = "ended" /\ upFin' = TRUE
              ELSE sender' = "writing" /\ UNCHANGED upFin
  <2>1. /\ Inflight \in 0..kNumCredits /\ Len(reqs) \in Nat /\ reqs \in Seq(Messages)
        /\ Inflight = Difference(sent_count, recv_count)
    BY SMTT(30), <1>0, InflightNat DEF RpcInv, CreditsExact, TypeOK, Inflight
  <2>2. Gather \in 0..Len(reqs) /\ Gather \in 0..kNumCredits
        /\ Inflight + Gather <= kNumCredits
    BY <2>1, RpcAssumption DEF Gather
  <2>3. /\ batch' \in Seq(Messages) /\ reqs' \in Seq(Messages)
        /\ IsInjective(batch') /\ IsInjective(reqs')
        /\ Range(batch') \cup Range(reqs') = Range(reqs)
        /\ Range(batch') \cap Range(reqs') = {}
        /\ Len(batch') = Gather
    <3>1. IsInjective(reqs)
      BY Zenon, <1>0 DEF NoDuplicates
    <3>2. batch' = SubSeq(reqs, 1, Gather) /\ reqs' = SubSeq(reqs, Gather + 1, Len(reqs))
      BY Zenon, <1>3
    <3>3. PICK g : g = Gather
      BY Zenon
    <3>4. g \in 0..Len(reqs)
      BY Zenon, <2>2, <3>3
    <3>5. batch' = SubSeq(reqs, 1, g) /\ reqs' = SubSeq(reqs, g + 1, Len(reqs))
      BY Zenon, <3>2, <3>3
    <3>6. /\ batch' \in Seq(Messages) /\ reqs' \in Seq(Messages)
          /\ IsInjective(batch') /\ IsInjective(reqs')
          /\ Range(batch') \cup Range(reqs') = Range(reqs)
          /\ Range(batch') \cap Range(reqs') = {}
          /\ Len(batch') = g
      BY SMTT(30), <2>1, <3>1, <3>4, <3>5, CutAt
    <3> QED
      BY Zenon, <3>3, <3>6
  <2>4. sent_count' \in 0..(CounterRange - 1) /\ Inflight' = Inflight + Gather
    BY ZenonT(30), <1>0, <1>1, <1>3, <2>1, <2>2, AdvanceIs, AdvanceSent DEF Inflight, TypeOK
  <2>5. TypeOK'
    <3>1. sender' \in SenderStates /\ upFin' \in BOOLEAN
      BY Zenon, <1>0, <1>3 DEF SenderStates, TypeOK
    <3> QED
      BY Zenon, <1>0, <1>1, <2>3, <2>4, <3>1 DEF TypeOK, callerVars, recvVars, serverVars
  <2>6. OneMessage'
    <3>1. /\ At'["reqs"] = At["reqs"] \ Range(batch') /\ Range(batch') \subseteq At["reqs"]
          /\ At'["batch"] = At["batch"] \cup Range(batch')
          /\ \A k \in Stages \ {"reqs", "batch"} : At'[k] = At[k]
      BY <1>1, <2>3, Empty DEF At, Stages, recvVars, serverVars
    <3>2. "reqs" \in Stages /\ "batch" \in Stages
      BY Zenon DEF Stages
    <3>3. Apart(At') /\ UNION {At'[j] : j \in Stages} = UNION {At[j] : j \in Stages}
      BY ZenonT(30), <1>0, <3>1, <3>2, Move DEF OneMessage
    <3> QED
      BY ZenonT(30), <1>0, <1>1, <3>3, MoveKeeps DEF callerVars
  <2>7. NoDuplicates' /\ WorkerInv'
    BY Zenon, <1>0, <1>1, <1>3, <2>3 DEF NoDuplicates, WorkerInv, callerVars, recvVars,
       serverVars
  <2>8. CreditsExact' /\ IsFiniteSet(handling')
    <3>1. Len(batch) = 0
      BY Zenon, <1>1, Empty
    <3>2. /\ Len(up) \in Nat /\ Len(completions) \in Nat /\ Len(sbatch) \in Nat
          /\ Len(down) \in Nat /\ Cardinality(handling) \in Nat
      BY Zenon, <1>0, FS_CardinalityType, LenProperties DEF TypeOK, RpcInv
    <3>3. UNCHANGED <<up, handling, completions, sbatch, down>>
      BY Zenon, <1>1 DEF serverVars
    <3>4. Inflight = Len(batch) + Len(up) + Cardinality(handling)
                       + Len(completions) + Len(sbatch) + Len(down)
      BY Zenon DEF CreditsExact, RpcInv
    <3>5. Inflight' = Len(batch') + Len(up') + Cardinality(handling')
                       + Len(completions') + Len(sbatch') + Len(down')
      <4>1. Len(batch') = Gather /\ Gather \in Nat
        BY <2>2, <2>3
      <4> QED
        BY SMTT(30), <2>4, <3>1, <3>2, <3>3, <3>4, <4>1
    <3> QED
      BY Zenon, <2>2, <2>4, <2>5, <3>3, <3>5 DEF CreditsExact, RpcInv
  <2>9. NoLostWakeup' /\ OwnReply'
    BY Zenon, <1>1, <1>3 DEF RpcInv, NoLostWakeup, OwnReply, callerVars, serverVars
  <2> QED
    BY Zenon, <2>5, <2>6, <2>7, <2>8, <2>9 DEF RpcInv
<1> QED
  BY Zenon, <1>2, <1>3 DEF SendWorker

(* The numbers CreditsExact adds are natural. *)
LEMMA CountsNat ==
  ASSUME TypeOK, IsFiniteSet(handling)
  PROVE  /\ Len(batch) \in Nat /\ Len(up) \in Nat /\ Len(completions) \in Nat
         /\ Len(sbatch) \in Nat /\ Len(down) \in Nat /\ Cardinality(handling) \in Nat
BY Zenon, FS_CardinalityType, LenProperties DEF TypeOK

(* WritevFull of the flow: the batch moves to the stream, or stays when it is broken. *)
LEMMA SendWriteKeeps ==
  ASSUME RpcInv, SendWrite
  PROVE  RpcInv'
<1>0. /\ TypeOK /\ OneMessage /\ NoDuplicates /\ WorkerInv /\ IsFiniteSet(handling)
      /\ batch \in Seq(Messages) /\ up \in Seq(Messages)
      /\ IsInjective(up) /\ IsInjective(batch)
  BY Zenon DEF RpcInv, TypeOK, NoDuplicates
<1>1. /\ sender = "writing"
      /\ UNCHANGED <<callerVars, reqs, sent_count, recv_count, close, recvVars,
                     upFin, serverVars, down, downFin, broken>>
  BY Zenon DEF SendWrite
<1>2. Inflight' = Inflight
  BY Zenon, <1>1 DEF Inflight
<1>3. CASE up' = up \o batch /\ batch' = <<>> /\ sender' = "runnable"
  <2>1. "up" \in Stages /\ "batch" \in Stages
    BY Zenon DEF Stages
  <2>2. Range(up) \cap Range(batch) = {}
    BY ZenonT(30), <1>0, <2>1, AtIs DEF OneMessage, Apart
  <2>3. /\ up' \in Seq(Messages) /\ IsInjective(up')
        /\ Range(up') = Range(up) \cup Range(batch) /\ Len(up') = Len(up) + Len(batch)
    BY <1>0, <1>3, <2>2, ConcatTwo
  <2>4. /\ batch' \in Seq(Messages) /\ IsInjective(batch')
        /\ Range(batch') = {} /\ Len(batch') = 0
    BY Zenon, <1>3, Empty
  <2>5. TypeOK'
    BY Zenon, <1>0, <1>1, <1>3, <2>3, <2>4 DEF TypeOK, callerVars, recvVars, serverVars,
       SenderStates
  <2>6. OneMessage'
    <3>1. /\ At'["batch"] = At["batch"] \ Range(batch) /\ Range(batch) \subseteq At["batch"]
          /\ At'["up"] = At["up"] \cup Range(batch)
          /\ \A k \in Stages \ {"batch", "up"} : At'[k] = At[k]
      BY SMTT(30), <1>1, <2>3, <2>4 DEF At, Stages, recvVars, serverVars
    <3>2. Apart(At') /\ UNION {At'[j] : j \in Stages} = UNION {At[j] : j \in Stages}
      BY ZenonT(30), <1>0, <2>1, <3>1, Move DEF OneMessage
    <3> QED
      BY ZenonT(30), <1>0, <1>1, <3>2, MoveKeeps DEF callerVars
  <2>7. NoDuplicates' /\ WorkerInv'
    BY Zenon, <1>0, <1>1, <1>3, <2>3, <2>4 DEF NoDuplicates, WorkerInv, callerVars, recvVars, serverVars
  <2>8. CreditsExact' /\ IsFiniteSet(handling')
    <3>1. Len(up') + Len(batch') = Len(up) + Len(batch)
      BY <1>0, <2>3, <2>4, CountsNat
    <3>2. UNCHANGED <<handling, completions, sbatch, down>>
      BY Zenon, <1>1 DEF serverVars
    <3> QED
      BY <1>0, <1>2, <2>3, <2>4, <2>5, <3>1, <3>2, CountsNat DEF CreditsExact, RpcInv
  <2>9. NoLostWakeup' /\ OwnReply'
    BY Zenon, <1>1, <1>3 DEF RpcInv, NoLostWakeup, OwnReply, callerVars, serverVars
  <2> QED
    BY Zenon, <2>5, <2>6, <2>7, <2>8, <2>9 DEF RpcInv
<1>4. CASE sender' = "ended" /\ UNCHANGED <<up, batch>>
  <2>1. TypeOK'
    BY Zenon, <1>0, <1>1, <1>4 DEF TypeOK, callerVars, recvVars, serverVars, SenderStates
  <2>2. At' = At
    BY Zenon, <1>1, <1>4 DEF At, recvVars, serverVars
  <2>3. OneMessage' /\ NoDuplicates' /\ WorkerInv'
    BY Zenon, <1>0, <1>1, <1>4, <2>2 DEF OneMessage, NoDuplicates, WorkerInv, Current,
       callerVars,
       recvVars, serverVars
  <2>4. CreditsExact' /\ NoLostWakeup' /\ OwnReply' /\ IsFiniteSet(handling')
    BY Zenon, <1>1, <1>2, <1>4, <2>1 DEF RpcInv, CreditsExact, NoLostWakeup, OwnReply,
       callerVars,
       serverVars
  <2> QED
    BY Zenon, <2>1, <2>3, <2>4 DEF RpcInv
<1> QED
  BY Zenon, <1>3, <1>4 DEF SendWrite

(* RPCServer::ReceiveWorker: a request moves from the stream to its handler. *)
LEMMA ServerReceiveKeeps ==
  ASSUME RpcInv, ServerReceive
  PROVE  RpcInv'
<1>0. /\ TypeOK /\ OneMessage /\ NoDuplicates /\ WorkerInv /\ IsFiniteSet(handling)
      /\ up \in Seq(Messages) /\ IsInjective(up)
  BY Zenon DEF RpcInv, TypeOK, NoDuplicates
<1>1. /\ up # <<>> /\ up' = Tail(up) /\ handling' = handling \cup {Head(up)}
      /\ UNCHANGED <<callerVars, flowVars, recvVars, upFin, sreceiver,
                     completions, sbatch, ssender, sclose, down, downFin, broken>>
  BY Zenon DEF ServerReceive
<1>2. /\ up' \in Seq(Messages) /\ IsInjective(up')
      /\ Head(up) \in Messages /\ Head(up) \in Range(up)
      /\ Range(up') = Range(up) \ {Head(up)}
      /\ Len(up') = Len(up) - 1 /\ Len(up) \in Nat
  BY Zenon, <1>0, <1>1, TailOne
<1>3. "up" \in Stages /\ "handling" \in Stages
  BY Zenon DEF Stages
<1>4. Head(up) \notin handling
  BY ZenonT(30), <1>0, <1>2, <1>3, AtIs DEF OneMessage, Apart
<1>5. TypeOK'
  BY Zenon, <1>0, <1>1, <1>2 DEF TypeOK, callerVars, flowVars, recvVars
<1>6. OneMessage'
  <2>1. /\ At'["up"] = At["up"] \ {Head(up)} /\ {Head(up)} \subseteq At["up"]
        /\ At'["handling"] = At["handling"] \cup {Head(up)}
        /\ \A k \in Stages \ {"up", "handling"} : At'[k] = At[k]
    BY SMTT(30), <1>1, <1>2 DEF At, Stages, flowVars, recvVars
  <2>2. Apart(At') /\ UNION {At'[j] : j \in Stages} = UNION {At[j] : j \in Stages}
    BY ZenonT(30), <1>0, <1>3, <2>1, Move DEF OneMessage
  <2> QED
    BY ZenonT(30), <1>0, <1>1, <2>2, MoveKeeps DEF callerVars
<1>7. NoDuplicates' /\ WorkerInv'
  BY Zenon, <1>0, <1>1, <1>2 DEF NoDuplicates, WorkerInv, callerVars, flowVars, recvVars
<1>8. CreditsExact' /\ IsFiniteSet(handling')
  <2>1. IsFiniteSet(handling') /\ Cardinality(handling') = Cardinality(handling) + 1
    BY Zenon, <1>0, <1>1, <1>4, FS_AddElement
  <2>2. UNCHANGED <<batch, completions, sbatch, down>> /\ Inflight' = Inflight
    BY Zenon, <1>1 DEF flowVars, Inflight
  <2> QED
    BY <1>0, <1>2, <1>5, <2>1, <2>2, CountsNat DEF CreditsExact, RpcInv
<1>9. NoLostWakeup' /\ OwnReply'
  BY Zenon, <1>1 DEF RpcInv, NoLostWakeup, OwnReply, Inflight, callerVars, flowVars
<1> QED
  BY Zenon, <1>5, <1>6, <1>7, <1>8, <1>9 DEF RpcInv

(* RPCServer::Return: a result moves from its handler to the queue of results. *)
LEMMA ReturnKeeps ==
  ASSUME RpcInv, NEW m \in Messages, Return(m)
  PROVE  RpcInv'
<1>0. /\ TypeOK /\ OneMessage /\ NoDuplicates /\ WorkerInv /\ IsFiniteSet(handling)
      /\ completions \in Seq(Messages) /\ IsInjective(completions)
  BY Zenon DEF RpcInv, TypeOK, NoDuplicates
<1>1. /\ m \in handling /\ handling' = handling \ {m}
      /\ completions' = Append(completions, m) /\ ssender' = Woken(ssender)
      /\ UNCHANGED <<callerVars, flowVars, recvVars, up, upFin, sreceiver, sbatch,
                     sclose, down, downFin, broken>>
  BY Zenon DEF Return
<1>2. "handling" \in Stages /\ "completions" \in Stages
  BY Zenon DEF Stages
<1>3. m \notin Range(completions)
  BY ZenonT(30), <1>0, <1>1, <1>2, AtIs DEF OneMessage, Apart
<1>4. /\ completions' \in Seq(Messages) /\ IsInjective(completions')
      /\ Range(completions') = Range(completions) \cup {m}
      /\ Len(completions') = Len(completions) + 1
  BY SMTT(30), <1>0, <1>1, <1>3, AppendOne
<1>5. TypeOK'
  BY Zenon, <1>0, <1>1, <1>4 DEF TypeOK, callerVars, flowVars, recvVars, SenderStates, Woken
<1>6. OneMessage'
  <2>1. /\ At'["handling"] = At["handling"] \ {m} /\ {m} \subseteq At["handling"]
        /\ At'["completions"] = At["completions"] \cup {m}
        /\ \A k \in Stages \ {"handling", "completions"} : At'[k] = At[k]
    BY SMTT(30), <1>1, <1>4 DEF At, Stages, flowVars, recvVars
  <2>2. Apart(At') /\ UNION {At'[j] : j \in Stages} = UNION {At[j] : j \in Stages}
    BY ZenonT(30), <1>0, <1>2, <2>1, Move DEF OneMessage
  <2> QED
    BY ZenonT(30), <1>0, <1>1, <2>2, MoveKeeps DEF callerVars
<1>7. NoDuplicates' /\ WorkerInv'
  BY Zenon, <1>0, <1>1, <1>4 DEF NoDuplicates, WorkerInv, callerVars, flowVars, recvVars
<1>8. CreditsExact' /\ IsFiniteSet(handling')
  <2>1. IsFiniteSet(handling') /\ Cardinality(handling') = Cardinality(handling) - 1
    BY Zenon, <1>0, <1>1, FS_RemoveElement
  <2>2. UNCHANGED <<batch, up, sbatch, down>> /\ Inflight' = Inflight
    BY Zenon, <1>1 DEF flowVars, Inflight
  <2> QED
    BY SMTT(30), <1>0, <1>4, <1>5, <2>1, <2>2, CountsNat DEF CreditsExact, RpcInv
<1>9. NoLostWakeup' /\ OwnReply'
  BY Zenon, <1>1 DEF RpcInv, NoLostWakeup, OwnReply, Inflight, callerVars, flowVars, Woken
<1> QED
  BY Zenon, <1>5, <1>6, <1>7, <1>8, <1>9 DEF RpcInv

(* RPCServer::SendWorker: the results move to the batch, or it parks. *)
LEMMA ServerSendKeeps ==
  ASSUME RpcInv, ServerSend
  PROVE  RpcInv'
<1>0. /\ TypeOK /\ OneMessage /\ NoDuplicates /\ WorkerInv /\ IsFiniteSet(handling)
      /\ completions \in Seq(Messages) /\ sbatch \in Seq(Messages)
      /\ IsInjective(completions) /\ IsInjective(sbatch)
  BY Zenon DEF RpcInv, TypeOK, NoDuplicates
<1>1. UNCHANGED <<callerVars, flowVars, recvVars, up, upFin, sreceiver,
                  handling, sclose, down, downFin, broken>>
  BY Zenon DEF ServerSend
<1>2. Inflight' = Inflight
  BY Zenon, <1>1 DEF Inflight, flowVars
<1>3. CASE /\ completions = <<>> /\ ~sclose /\ ssender' = "parked"
           /\ UNCHANGED <<completions, sbatch>>
  <2>1. TypeOK'
    BY Zenon, <1>0, <1>1, <1>3 DEF TypeOK, callerVars, flowVars, recvVars, SenderStates
  <2>2. At' = At
    BY Zenon, <1>1, <1>3 DEF At, flowVars, recvVars
  <2>3. OneMessage' /\ NoDuplicates' /\ WorkerInv'
    BY Zenon, <1>0, <1>1, <1>3, <2>2 DEF OneMessage, NoDuplicates, WorkerInv, Current,
       callerVars,
       flowVars, recvVars
  <2>4. CreditsExact' /\ NoLostWakeup' /\ OwnReply' /\ IsFiniteSet(handling')
    BY Zenon, <1>1, <1>2, <1>3, <2>1 DEF RpcInv, CreditsExact, NoLostWakeup, OwnReply,
       callerVars,
       flowVars
  <2> QED
    BY Zenon, <2>1, <2>3, <2>4 DEF RpcInv
<1>4. CASE /\ sbatch' = sbatch \o completions /\ completions' = <<>>
           /\ ssender' = "writing"
  <2>1. "sbatch" \in Stages /\ "completions" \in Stages
    BY Zenon DEF Stages
  <2>2. Range(sbatch) \cap Range(completions) = {}
    BY ZenonT(30), <1>0, <2>1, AtIs DEF OneMessage, Apart
  <2>3. /\ sbatch' \in Seq(Messages) /\ IsInjective(sbatch')
        /\ Range(sbatch') = Range(sbatch) \cup Range(completions)
        /\ Len(sbatch') = Len(sbatch) + Len(completions)
    BY <1>0, <1>4, <2>2, ConcatTwo
  <2>4. /\ completions' \in Seq(Messages) /\ IsInjective(completions')
        /\ Range(completions') = {} /\ Len(completions') = 0
    BY Zenon, <1>4, Empty
  <2>5. TypeOK'
    BY Zenon, <1>0, <1>1, <1>4, <2>3, <2>4 DEF TypeOK, callerVars, flowVars, recvVars,
       SenderStates
  <2>6. OneMessage'
    <3>1. /\ At'["completions"] = At["completions"] \ Range(completions)
          /\ Range(completions) \subseteq At["completions"]
          /\ At'["sbatch"] = At["sbatch"] \cup Range(completions)
          /\ \A k \in Stages \ {"completions", "sbatch"} : At'[k] = At[k]
      BY SMTT(30), <1>1, <2>3, <2>4 DEF At, Stages, flowVars, recvVars
    <3>2. Apart(At') /\ UNION {At'[j] : j \in Stages} = UNION {At[j] : j \in Stages}
      BY ZenonT(30), <1>0, <2>1, <3>1, Move DEF OneMessage
    <3> QED
      BY ZenonT(30), <1>0, <1>1, <3>2, MoveKeeps DEF callerVars
  <2>7. NoDuplicates' /\ WorkerInv'
    BY Zenon, <1>0, <1>1, <2>3, <2>4 DEF NoDuplicates, WorkerInv, callerVars, flowVars, recvVars
  <2>8. CreditsExact' /\ IsFiniteSet(handling')
    <3>1. UNCHANGED <<batch, up, handling, down>>
      BY Zenon, <1>1 DEF flowVars
    <3> QED
      BY SMTT(30), <1>0, <1>2, <2>3, <2>4, <2>5, <3>1, CountsNat DEF CreditsExact, RpcInv
  <2>9. NoLostWakeup' /\ OwnReply'
    BY Zenon, <1>1, <1>2, <1>4 DEF RpcInv, NoLostWakeup, OwnReply, callerVars, flowVars
  <2> QED
    BY Zenon, <2>5, <2>6, <2>7, <2>8, <2>9 DEF RpcInv
<1> QED
  BY Zenon, <1>3, <1>4 DEF ServerSend

(* RPCServer::SendWorker writes: the batch moves to the stream, or stays. *)
LEMMA ServerWriteKeeps ==
  ASSUME RpcInv, ServerWrite
  PROVE  RpcInv'
<1>0. /\ TypeOK /\ OneMessage /\ NoDuplicates /\ WorkerInv /\ IsFiniteSet(handling)
      /\ down \in Seq(Messages) /\ sbatch \in Seq(Messages)
      /\ IsInjective(down) /\ IsInjective(sbatch)
  BY Zenon DEF RpcInv, TypeOK, NoDuplicates
<1>1. UNCHANGED <<callerVars, flowVars, recvVars, up, upFin, sreceiver,
                  handling, completions, sclose, broken>>
  BY Zenon DEF ServerWrite
<1>2. Inflight' = Inflight
  BY Zenon, <1>1 DEF Inflight, flowVars
<1>3. CASE /\ ssender' = "ended" /\ downFin' \in {downFin, TRUE}
           /\ UNCHANGED <<sbatch, down>>
  <2>1. TypeOK'
    BY Zenon, <1>0, <1>1, <1>3 DEF TypeOK, callerVars, flowVars, recvVars, SenderStates
  <2>2. At' = At
    BY Zenon, <1>1, <1>3 DEF At, flowVars, recvVars
  <2>3. OneMessage' /\ NoDuplicates' /\ WorkerInv'
    BY Zenon, <1>0, <1>1, <1>3, <2>2 DEF OneMessage, NoDuplicates, WorkerInv, Current,
       callerVars,
       flowVars, recvVars
  <2>4. CreditsExact' /\ NoLostWakeup' /\ OwnReply' /\ IsFiniteSet(handling')
    BY Zenon, <1>1, <1>2, <1>3, <2>1 DEF RpcInv, CreditsExact, NoLostWakeup, OwnReply,
       callerVars,
       flowVars
  <2> QED
    BY Zenon, <2>1, <2>3, <2>4 DEF RpcInv
<1>4. CASE /\ down' = down \o sbatch /\ sbatch' = <<>>
           /\ ssender' = "runnable" /\ UNCHANGED downFin
  <2>1. "sbatch" \in Stages /\ "down" \in Stages
    BY Zenon DEF Stages
  <2>2. Range(down) \cap Range(sbatch) = {}
    BY ZenonT(30), <1>0, <2>1, AtIs DEF OneMessage, Apart
  <2>3. /\ down' \in Seq(Messages) /\ IsInjective(down')
        /\ Range(down') = Range(down) \cup Range(sbatch)
        /\ Len(down') = Len(down) + Len(sbatch)
    BY <1>0, <1>4, <2>2, ConcatTwo
  <2>4. /\ sbatch' \in Seq(Messages) /\ IsInjective(sbatch')
        /\ Range(sbatch') = {} /\ Len(sbatch') = 0
    BY Zenon, <1>4, Empty
  <2>5. TypeOK'
    BY Zenon, <1>0, <1>1, <1>4, <2>3, <2>4 DEF TypeOK, callerVars, flowVars, recvVars,
       SenderStates
  <2>6. OneMessage'
    <3>1. /\ At'["sbatch"] = At["sbatch"] \ Range(sbatch)
          /\ Range(sbatch) \subseteq At["sbatch"]
          /\ At'["down"] = At["down"] \cup Range(sbatch)
          /\ \A k \in Stages \ {"sbatch", "down"} : At'[k] = At[k]
      BY SMTT(30), <1>1, <2>3, <2>4 DEF At, Stages, flowVars, recvVars
    <3>2. Apart(At') /\ UNION {At'[j] : j \in Stages} = UNION {At[j] : j \in Stages}
      BY ZenonT(30), <1>0, <2>1, <3>1, Move DEF OneMessage
    <3> QED
      BY ZenonT(30), <1>0, <1>1, <3>2, MoveKeeps DEF callerVars
  <2>7. NoDuplicates' /\ WorkerInv'
    BY Zenon, <1>0, <1>1, <2>3, <2>4 DEF NoDuplicates, WorkerInv, callerVars, flowVars, recvVars
  <2>8. CreditsExact' /\ IsFiniteSet(handling')
    <3>1. UNCHANGED <<batch, up, handling, completions>>
      BY Zenon, <1>1 DEF flowVars
    <3> QED
      BY <1>0, <1>2, <2>3, <2>4, <2>5, <3>1, CountsNat DEF CreditsExact, RpcInv
  <2>9. NoLostWakeup' /\ OwnReply'
    BY Zenon, <1>1, <1>2, <1>4 DEF RpcInv, NoLostWakeup, OwnReply, callerVars, flowVars
  <2> QED
    BY Zenon, <2>5, <2>6, <2>7, <2>8, <2>9 DEF RpcInv
<1> QED
  BY Zenon, <1>3, <1>4 DEF ServerWrite

(* A reply leaves its last stage and completes its call: no other call is disturbed. *)
LEMMA DoneKeeps ==
  ASSUME RpcInv, NEW k \in Stages, NEW m \in At[k], Done(m), UNCHANGED calls,
         At'[k] = At[k] \ {m}, \A j \in Stages \ {k} : At'[j] = At[j],
         close' = close
  PROVE  /\ OneMessage' /\ OwnReply'
         /\ pc' \in [Callers -> {"idle", "parked"}] /\ got' \in [Callers -> 0..MaxCalls]
         /\ close' => \A c \in Callers : pc'[c] = "idle"
<1>0. TypeOK /\ OneMessage /\ OwnReply /\ WorkerInv
  BY Zenon DEF RpcInv
<1>1. m \in Messages /\ m[1] \in Callers /\ m[2] \in 1..MaxCalls
  BY Zenon, <1>0, AtMessages DEF Messages
<1>2. pc[m[1]] = "parked" /\ m[2] = calls[m[1]]
  BY Zenon, <1>0 DEF OneMessage, Current
<1>3. /\ pc' = [pc EXCEPT ![m[1]] = "idle"] /\ got' = [got EXCEPT ![m[1]] = m[2]]
      /\ calls' = calls
  BY Zenon DEF Done
<1>4. Apart(At') /\ \A j \in Stages : m \notin At'[j] /\ At'[j] \subseteq At[j]
  BY Zenon, <1>0, Leave DEF OneMessage
<1>5. ASSUME NEW j \in Stages, NEW x \in At'[j] PROVE Current(x)'
  <2>1. x \in At[j] /\ x # m
    BY Zenon, <1>4
  <2>2. x[1] # m[1]
    BY Zenon, <1>0, <2>1, OnePerCaller
  <2>3. Current(x) /\ x[1] \in Callers
    BY Zenon, <1>0, <2>1, AtMessages DEF OneMessage, Messages
  <2> QED
    BY Zenon, <1>0, <1>3, <2>2, <2>3 DEF Current, TypeOK
<1>6. OneMessage'
  BY Zenon, <1>4, <1>5 DEF OneMessage
<1>7. pc' \in [Callers -> {"idle", "parked"}] /\ got' \in [Callers -> 0..MaxCalls]
  BY SMTT(30), <1>0, <1>1, <1>3, RpcAssumption DEF TypeOK
<1>8. OwnReply'
  BY Zenon, <1>0, <1>1, <1>2, <1>3 DEF OwnReply, TypeOK
<1>9. ~close'
  BY Zenon, <1>0, <1>1, <1>2 DEF WorkerInv
<1> QED
  BY Zenon, <1>6, <1>7, <1>8, <1>9

(* ReceiveWorker of the flow reads a header: the credit comes back with the reply, *)
(* which completes its call or waits for its data. *)
LEMMA ReceiveHeaderKeeps ==
  ASSUME RpcInv, ReceiveHeader
  PROVE  RpcInv'
<1>0. /\ TypeOK /\ OneMessage /\ NoDuplicates /\ WorkerInv /\ IsFiniteSet(handling)
      /\ down \in Seq(Messages) /\ IsInjective(down)
      /\ sent_count \in 0..(CounterRange - 1) /\ recv_count \in 0..(CounterRange - 1)
  BY Zenon DEF RpcInv, TypeOK, NoDuplicates
<1>m. PICK m : m = Head(down)
  BY Zenon
<1>1. /\ receiver = "header" /\ down # <<>> /\ down' = Tail(down)
      /\ recv_count' = Advance(recv_count, 1)
      /\ sender' = IF kNumCredits > Difference(sent_count, recv_count') /\ reqs # <<>>
                   THEN Woken(sender) ELSE sender
      /\ UNCHANGED <<calls, reqs, batch, sent_count, close, up, upFin,
                     serverVars, downFin, broken>>
  BY Zenon DEF ReceiveHeader
<1>2. \/ Done(m) /\ UNCHANGED recvVars
      \/ cur' = <<m>> /\ receiver' = "payload" /\ UNCHANGED <<pc, got>>
  BY Zenon, <1>m DEF ReceiveHeader
<1>3. /\ down' \in Seq(Messages) /\ IsInjective(down') /\ m \in Messages /\ m \in Range(down)
      /\ Range(down') = Range(down) \ {m}
      /\ Len(down') = Len(down) - 1 /\ Len(down) \in Nat
  BY Zenon, <1>m, <1>0, <1>1, TailOne
<1>4. Len(down) > 0
  BY <1>0, <1>1, EmptySeq
<1>5. "down" \in Stages /\ "cur" \in Stages /\ cur = <<>>
  BY Zenon, <1>0, <1>1 DEF Stages, WorkerInv
<1>6. /\ Inflight > 0 /\ Inflight \in Nat /\ Inflight <= kNumCredits
      /\ Inflight = Difference(sent_count, recv_count)
  BY SMTT(30), <1>0, <1>4, CountsNat, InflightNat DEF RpcInv, CreditsExact, Inflight
<1>7. recv_count' \in 0..(CounterRange - 1) /\ Inflight' = Inflight - 1
  <2>1. 1 \in 0..kNumCredits
    BY RpcAssumption
  <2>2. recv_count' \in 0..(CounterRange - 1)
    BY Zenon, <1>0, <1>1, <2>1, AdvanceIs
  <2>3. Difference(sent_count, Advance(recv_count, 1)) = Difference(sent_count, recv_count) - 1
    BY Zenon, <1>0, <1>6, AdvanceReceived
  <2> QED
    BY Zenon, <1>1, <1>6, <2>2, <2>3 DEF Inflight
<1>8. sender' \in SenderStates /\ (sender' \in {"runnable", "parked"} => batch' = <<>>)
  BY Zenon, <1>0, <1>1 DEF TypeOK, SenderStates, Woken, WorkerInv
<1>9. NoLostWakeup'
  BY <1>0, <1>1, <1>6, <1>7, RpcAssumption DEF NoLostWakeup, RpcInv, Woken, Inflight, serverVars
<1>10. /\ UNCHANGED <<batch, up, handling, completions, sbatch>>
       /\ Inflight' = Len(batch') + Len(up') + Cardinality(handling')
                        + Len(completions') + Len(sbatch') + Len(down')
       /\ Inflight' <= kNumCredits
  <2>1. UNCHANGED <<batch, up, handling, completions, sbatch>>
    BY Zenon, <1>1 DEF serverVars
  <2>2. Inflight = Len(batch) + Len(up) + Cardinality(handling)
                     + Len(completions) + Len(sbatch) + Len(down)
    BY Zenon DEF RpcInv, CreditsExact
  <2>3. Len(down') = Len(down) - 1 /\ Inflight' = Inflight - 1 /\ Inflight \in Nat
    BY Zenon, <1>3, <1>6, <1>7
  <2>4. Inflight' = Len(batch) + Len(up) + Cardinality(handling)
                     + Len(completions) + Len(sbatch) + Len(down')
    BY SMTT(30), <1>0, <2>2, <2>3, CountsNat
  <2>5. Inflight' <= kNumCredits
    BY <1>6, <2>3, RpcAssumption
  <2> QED
    BY Zenon, <2>1, <2>4, <2>5
<1>11. /\ At'["down"] = At["down"] \ {m} /\ m \in At["down"]
       /\ \A k \in Stages \ {"down", "cur"} : At'[k] = At[k]
       /\ At["cur"] = {} /\ At'["cur"] = Range(cur')
  BY SMTT(30), <1>1, <1>3, <1>5, Empty DEF At, Stages, serverVars
<1>12. NoDuplicates'
  BY Zenon, <1>0, <1>1, <1>3 DEF NoDuplicates, serverVars
<1>13. CASE Done(m) /\ UNCHANGED recvVars
  <2>1. \A k \in Stages \ {"down"} : At'[k] = At[k]
    BY Zenon, <1>11, <1>13, <1>5, Empty DEF recvVars
  <2>2. /\ OneMessage' /\ OwnReply'
        /\ pc' \in [Callers -> {"idle", "parked"}] /\ got' \in [Callers -> 0..MaxCalls]
        /\ close' => \A c \in Callers : pc'[c] = "idle"
    BY Zenon, <1>1, <1>5, <1>11, <1>13, <2>1, DoneKeeps
  <2>3. TypeOK'
    BY Zenon, <1>0, <1>1, <1>3, <1>7, <1>8, <1>13, <2>2 DEF TypeOK, recvVars, serverVars
  <2>4. WorkerInv'
    BY Zenon, <1>0, <1>1, <1>8, <1>13, <2>2 DEF WorkerInv, recvVars
  <2> QED
    BY Zenon, <1>0, <1>9, <1>10, <1>12, <2>2, <2>3, <2>4 DEF RpcInv, CreditsExact
<1>14. CASE cur' = <<m>> /\ receiver' = "payload" /\ UNCHANGED <<pc, got>>
  <2>1. /\ cur' \in Seq(Messages) /\ Len(cur') = 1 /\ cur' # <<>> /\ Range(cur') = {m}
    BY <1>3, <1>14 DEF Range
  <2>2. At'["cur"] = At["cur"] \cup {m}
    BY Zenon, <1>11, <2>1
  <2>3. Apart(At') /\ UNION {At'[j] : j \in Stages} = UNION {At[j] : j \in Stages}
    <3>1. {m} \subseteq At["down"] /\ At'["down"] = At["down"] \ {m} /\ Apart(At)
      BY Zenon, <1>0, <1>11 DEF OneMessage
    <3>2. \A k \in Stages \ {"down", "cur"} : At'[k] = At[k]
      BY Zenon, <1>11
    <3> QED
      BY ZenonT(30), <1>5, <2>2, <3>1, <3>2, Move
  <2>4. OneMessage'
    BY ZenonT(30), <1>0, <1>1, <1>14, <2>3, MoveKeeps
  <2>5. TypeOK'
    BY SMTT(30), <1>0, <1>1, <1>3, <1>7, <1>8, <1>14, <2>1 DEF TypeOK, serverVars,
       ReceiverStates
  <2>6. WorkerInv' /\ OwnReply'
    BY Zenon, <1>0, <1>1, <1>8, <1>14, <2>1 DEF RpcInv, WorkerInv, OwnReply
  <2> QED
    BY Zenon, <1>0, <1>9, <1>10, <1>12, <2>4, <2>5, <2>6 DEF RpcInv, CreditsExact
<1> QED
  BY Zenon, <1>2, <1>13, <1>14

(* It reads the data of the reply, which completes its call. *)
LEMMA ReceivePayloadKeeps ==
  ASSUME RpcInv, ReceivePayload
  PROVE  RpcInv'
<1>0. /\ TypeOK /\ OneMessage /\ NoDuplicates /\ WorkerInv /\ IsFiniteSet(handling)
      /\ cur \in Seq(Messages) /\ Len(cur) <= 1
  BY Zenon DEF RpcInv, TypeOK
<1>m. PICK m : m = Head(cur)
  BY Zenon
<1>1. /\ receiver = "payload" /\ Done(m) /\ cur' = <<>> /\ receiver' = "header"
      /\ UNCHANGED <<calls, flowVars, up, upFin, serverVars, down, downFin, broken>>
  BY Zenon, <1>m DEF ReceivePayload
<1>2. cur # <<>>
  BY Zenon, <1>0, <1>1 DEF WorkerInv
<1>3. Range(cur) = {m}
  <2>1. Len(cur) = 1 /\ m = cur[1] /\ DOMAIN cur = 1..1
    BY SMTT(30), <1>m, <1>0, <1>2, EmptySeq, LenProperties, HeadTailProperties
  <2> QED
    BY <2>1 DEF Range
<1>4. /\ "cur" \in Stages /\ m \in At["cur"] /\ At'["cur"] = At["cur"] \ {m}
      /\ \A k \in Stages \ {"cur"} : At'[k] = At[k]
  BY SMTT(30), <1>1, <1>3, Empty DEF At, Stages, flowVars, serverVars
<1>5. /\ OneMessage' /\ OwnReply'
      /\ pc' \in [Callers -> {"idle", "parked"}] /\ got' \in [Callers -> 0..MaxCalls]
      /\ close' => \A c \in Callers : pc'[c] = "idle"
  BY Zenon, <1>1, <1>4, DoneKeeps DEF flowVars
<1>6. cur' \in Seq(Messages) /\ Len(cur') = 0
  BY Zenon, <1>1, Empty
<1>7. TypeOK'
  BY SMTT(30), <1>0, <1>1, <1>5, <1>6 DEF TypeOK, flowVars, serverVars, ReceiverStates
<1>8. NoDuplicates' /\ WorkerInv'
  BY Zenon, <1>0, <1>1, <1>5 DEF NoDuplicates, WorkerInv, flowVars, serverVars
<1>9. CreditsExact' /\ NoLostWakeup' /\ IsFiniteSet(handling')
  BY Zenon, <1>1, <1>7 DEF RpcInv, CreditsExact, NoLostWakeup, Inflight, flowVars, serverVars
<1> QED
  BY Zenon, <1>5, <1>7, <1>8, <1>9 DEF RpcInv

(* The steps that move no message: ends, Close, the reset. *)
LEMMA QuietKeeps ==
  ASSUME RpcInv, ReceiveEnd \/ Close \/ ServerReceiveEnd \/ Break \/ UNCHANGED vars
  PROVE  RpcInv'
<1>0. TypeOK /\ OneMessage /\ NoDuplicates /\ WorkerInv /\ IsFiniteSet(handling)
  BY Zenon DEF RpcInv
<1>1. /\ UNCHANGED <<callerVars, reqs, batch, sent_count, recv_count, cur, up, upFin,
                     handling, completions, sbatch, down, downFin>>
      /\ sender' \in {sender, Woken(sender)} /\ ssender' \in {ssender, Woken(ssender)}
      /\ receiver' \in {receiver, "ended"} /\ sreceiver' \in {sreceiver, "ended"}
      /\ close' \in {close, TRUE} /\ sclose' \in {sclose, TRUE} /\ broken' \in {broken, TRUE}
  BY Zenon DEF ReceiveEnd, Close, ServerReceiveEnd, Break, vars, callerVars, flowVars, recvVars,
     serverVars
<1>2. /\ close' # close => sender' = Woken(sender) /\ \A c \in Callers : pc[c] = "idle"
      /\ sclose' # sclose => ssender' = Woken(ssender)
  BY Zenon DEF ReceiveEnd, Close, ServerReceiveEnd, Break, vars, flowVars, serverVars
<1>3. TypeOK'
  <2>1. /\ sender' \in SenderStates /\ ssender' \in SenderStates
        /\ receiver' \in ReceiverStates /\ sreceiver' \in ReceiverStates
    BY Zenon, <1>0, <1>1 DEF TypeOK, SenderStates, ReceiverStates, Woken
  <2>2. {close', sclose', upFin', downFin', broken'} \subseteq BOOLEAN
    BY Zenon, <1>0, <1>1 DEF TypeOK
  <2> QED
    BY Zenon, <1>0, <1>1, <2>1, <2>2 DEF TypeOK, callerVars
<1>4. At' = At /\ Inflight' = Inflight
  BY Zenon, <1>1 DEF At, Inflight
<1>5. OneMessage' /\ NoDuplicates' /\ OwnReply'
  BY Zenon, <1>0, <1>1, <1>4 DEF RpcInv, OneMessage, NoDuplicates, OwnReply, Current, callerVars
<1>6. WorkerInv'
  BY SMTT(30), <1>0, <1>1, <1>2 DEF WorkerInv, Woken, callerVars
<1>7. CreditsExact' /\ IsFiniteSet(handling')
  BY Zenon, <1>0, <1>1, <1>3, <1>4 DEF RpcInv, CreditsExact
<1>8. NoLostWakeup'
  BY <1>1, <1>2, <1>4 DEF RpcInv, NoLostWakeup, Woken
<1> QED
  BY Zenon, <1>3, <1>5, <1>6, <1>7, <1>8 DEF RpcInv

(* RpcInv holds in every reachable state of a connection, reset or not. *)
THEOREM RpcInvariance == Spec => []RpcInv
<1>1. Init => RpcInv
  <2> SUFFICES ASSUME Init PROVE RpcInv
    BY Zenon
  <2>1. /\ <<>> \in Seq(Messages) /\ IsInjective(<<>>) /\ Range(<<>>) = {} /\ Len(<<>>) = 0
        /\ IsFiniteSet({}) /\ Cardinality({}) = 0
    BY Zenon, Empty, FS_EmptySet
  <2>2. 0 \in 0..MaxCalls /\ 0 \in 0..(CounterRange - 1)
    BY SMTT(30), RpcAssumption
  <2>3. TypeOK
    <3>1. /\ calls \in [Callers -> 0..MaxCalls] /\ pc \in [Callers -> {"idle", "parked"}]
          /\ got \in [Callers -> 0..MaxCalls]
      BY Zenon, <2>2 DEF Init
    <3>2. /\ sender \in SenderStates /\ ssender \in SenderStates
          /\ receiver \in ReceiverStates /\ sreceiver \in ReceiverStates
      BY Zenon DEF Init, SenderStates, ReceiverStates
    <3>3. /\ {close, sclose, upFin, downFin, broken} \subseteq BOOLEAN
          /\ handling \subseteq Messages
      BY Zenon DEF Init
    <3>4. /\ reqs \in Seq(Messages) /\ batch \in Seq(Messages) /\ up \in Seq(Messages)
          /\ down \in Seq(Messages) /\ completions \in Seq(Messages)
          /\ sbatch \in Seq(Messages) /\ cur \in Seq(Messages) /\ Len(cur) = 0
      BY Zenon, <2>1 DEF Init
    <3>5. sent_count \in 0..(CounterRange - 1) /\ recv_count \in 0..(CounterRange - 1)
      BY Zenon, <2>2 DEF Init
    <3> QED
      BY <3>1, <3>2, <3>3, <3>4, <3>5 DEF TypeOK
  <2>4. \A k \in Stages : At[k] = {}
    BY <2>1 DEF Init, At, Stages
  <2>5. OneMessage /\ NoDuplicates /\ WorkerInv
    BY Zenon, <2>1, <2>4 DEF Init, OneMessage, Apart, NoDuplicates, WorkerInv
  <2>6. Inflight = 0
    BY <2>2, DifferenceIs DEF Init, Inflight
  <2>7. CreditsExact
    BY SMTT(30), <2>1, <2>3, <2>6, RpcAssumption DEF Init, CreditsExact
  <2>8. NoLostWakeup /\ OwnReply /\ IsFiniteSet(handling)
    BY Zenon, <2>1 DEF Init, NoLostWakeup, OwnReply
  <2> QED
    BY Zenon, <2>3, <2>5, <2>7, <2>8 DEF RpcInv
<1>2. RpcInv /\ [Next]_vars => RpcInv'
  BY Zenon, CallKeeps, SendWorkerKeeps, SendWriteKeeps, ReceiveHeaderKeeps, ReceivePayloadKeeps,
     ServerReceiveKeeps, ReturnKeeps, ServerSendKeeps, ServerWriteKeeps, QuietKeeps DEF Next
<1> QED
  BY <1>1, <1>2, PTL DEF Spec

(* The wrapping counters of RPCFlow say exactly how many of its requests are *)
(* underway, and that is never more than kNumCredits (SendWorker).           *)
THEOREM CreditsAreExact == Spec => []CreditsExact
BY RpcInvariance, PTL DEF RpcInv

(* A parked send worker has nothing it may send: RPCFlow::Call, ReceiveWorker *)
(* and ~RPCFlow, RPCServer::Return and ReceiveWorker lose no wakeup.          *)
THEOREM NoRpcWakeupLost == Spec => []NoLostWakeup
BY RpcInvariance, PTL DEF RpcInv

(* A call that returns has got the reply to itself, by the completion data *)
(* that the server sends back (RPCFlow::Call and ReceiveWorker).           *)
THEOREM RepliesAreOwn == Spec => []OwnReply
BY RpcInvariance, PTL DEF RpcInv

=============================================================================
