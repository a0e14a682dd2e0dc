-------------------------- MODULE VirtualDiskProofs --------------------------
(***************************************************************************)
(* Proofs about VirtualDisk, for every value of its constants: types and   *)
(* the control of requests and replica threads; the blocks handed out and  *)
(* what they hold, the block map and the discard list; reads, the          *)
(* inductive invariant and the theorems that follow from it; and that the  *)
(* data path implements the sector store.                                  *)
(***************************************************************************)
EXTENDS VirtualDisk, TLAPS

USE ConstantsAssumption

-----------------------------------------------------------------------------
(* Types, and the control of requests and replica threads *)

(* What an update of a nested function yields, at two levels. *)
LEMMA Except2 ==
  ASSUME NEW S, NEW A, NEW T, NEW f \in [S -> [A -> T]],
         NEW x \in S, NEW y \in A, NEW v \in T
  PROVE  /\ [f EXCEPT ![x][y] = v] \in [S -> [A -> T]]
         /\ \A a \in S, b \in A :
                [f EXCEPT ![x][y] = v][a][b] = IF a = x /\ b = y THEN v ELSE f[a][b]
BY Zenon

(* GetBlocks fills a list with blocks of the volume's servers. *)
LEMMA GetBlocksType ==
  ASSUME TypeOK, NEW r \in Requests, NEW k \in Attempts, GetBlocks(r, k)
  PROVE  /\ blks' \in [Requests -> [Attempts -> [Replicas -> Block \cup {NoBlock}]]]
         /\ next' \in [Servers -> 0..MaxBlocks]
<1>1. PICK f \in ReplicaServers :
        /\ \A i \in Replicas : FreshAddr(f, i) < MaxBlocks
        /\ blks' = [blks EXCEPT ![r][k] =
                        [i \in Replicas |-> <<f[i], FreshAddr(f, i)>>]]
        /\ next' = [s \in Servers |->
                        next[s] + (IF f[1] = s THEN 1 ELSE 0)
                                + (IF f[2] = s THEN 1 ELSE 0)]
  BY Zenon DEF GetBlocks
<1>2. f \in [Replicas -> Servers]
  BY Zenon DEF ReplicaServers, Replicas, kNumReplicas
<1>3. \A i \in Replicas : FreshAddr(f, i) \in Addrs
  BY <1>1, <1>2 DEF FreshAddr, TypeOK, Replicas, kNumReplicas, Addrs
<1>4. [i \in Replicas |-> <<f[i], FreshAddr(f, i)>>] \in [Replicas -> Block]
  BY Zenon, <1>2, <1>3 DEF Block
<1>5. blks' \in [Requests -> [Attempts -> [Replicas -> Block \cup {NoBlock}]]]
  BY Zenon, <1>1, <1>4 DEF TypeOK
<1>6. next' \in [Servers -> 0..MaxBlocks]
  <2>1. /\ FreshAddr(f, 1) < MaxBlocks /\ FreshAddr(f, 2) < MaxBlocks
        /\ 1 \in Replicas /\ 2 \in Replicas
    BY <1>1 DEF Replicas, kNumReplicas
  <2>2. ASSUME NEW s \in Servers
        PROVE  next[s] + (IF f[1] = s THEN 1 ELSE 0)
                       + (IF f[2] = s THEN 1 ELSE 0) \in 0..MaxBlocks
    BY <1>2, <2>1 DEF FreshAddr, TypeOK
  <2> QED
    BY Zenon, <1>1, <2>2
<1> QED
  BY Zenon, <1>5, <1>6

(* The initial state is well typed. *)
LEMMA TypeInit == Init => TypeOK
<1> SUFFICES ASSUME Init PROVE TypeOK
  BY Zenon
<1>1. (CHOOSE s \in Sectors : TRUE) \in Sectors
  BY Zenon
<1>2. Unmapped \in Mapping /\ Blank \in Content
  BY Zenon DEF Mapping, Content
<1>3. 0 \in 0..MaxBlocks /\ 0 \in 0..MaxAttempts
  OBVIOUS
<1> QED
  BY Zenon, <1>1, <1>2, <1>3 DEF Init, TypeOK, OpTypes, PCs, RepStates

(* The steps of the data path, one disjunct per action. *)
LEMMA NextCases ==
  ASSUME [Next]_vars
  PROVE  \/ \E r \in Requests, s \in Sectors, o \in Mutators : StartMutation(r, s, o)
         \/ \E r \in Requests : DiscardExistingBlocks(r)
         \/ \E r \in Requests : AddMapping(r)
         \/ \E r \in Requests, k \in Attempts, i \in Replicas : RejectWrite(r, k, i)
         \/ \E r \in Requests, k \in Attempts, i \in Replicas : CompleteWrite(r, k, i)
         \/ \E r \in Requests, k \in Attempts, i \in Replicas : FailWrite(r, k, i)
         \/ \E r \in Requests : RetryWrite(r)
         \/ \E r \in Requests : JoinWrite(r)
         \/ \E r \in Requests, s \in Sectors : StartRead(r, s)
         \/ \E r \in Requests : ResolveBlock(r)
         \/ \E r \in Requests, s \in Servers : ReadFrom(r, s)
         \/ \E r \in Requests, s \in Servers : ReadRefused(r, s)
         \/ \E r \in Requests : NoReadServer(r)
         \/ RunGarbageCollector
         \/ \E r \in Requests, k \in Attempts, i \in Replicas : HandleDiscardBlocks(r, k, i)
         \/ UNCHANGED vars
<1>1. Writers \subseteq Requests /\ Readers \subseteq Requests /\ Allocators \subseteq Requests
  BY Zenon DEF Requests
<1>2. "write" \in Mutators /\ "allocate" \in Mutators
  BY Zenon DEF Mutators
<1> QED
  BY Zenon, <1>1, <1>2 DEF Next, WriteStep, ReplicaStep, ReadStep, StartWrite, StartAllocate

(* A mapping other than Unmapped names a request and one of its attempts. *)
LEMMA MappedType ==
  ASSUME NEW m \in Mapping, m # Unmapped
  PROVE  m.req \in Requests /\ m.att \in Attempts /\ m = [req |-> m.req, att |-> m.att]
BY Zenon DEF Mapping

(* One thread of one attempt changes its state. *)
LEMMA RepUpdate ==
  ASSUME TypeOK, NEW r \in Requests, NEW k \in Attempts, NEW i \in Replicas,
         NEW v \in RepStates
  PROVE  /\ [rep EXCEPT ![r][k][i] = v]
               \in [Requests -> [Attempts -> [Replicas -> RepStates]]]
         /\ \A a \in Requests, b \in Attempts, c \in Replicas :
               [rep EXCEPT ![r][k][i] = v][a][b][c] =
                   IF a = r /\ b = k /\ c = i THEN v ELSE rep[a][b][c]
<1> DEFINE g == [rep[r][k] EXCEPT ![i] = v]
<1>1. rep[r][k] \in [Replicas -> RepStates]
  BY DEF TypeOK
<1>2. g \in [Replicas -> RepStates]
  BY Zenon, <1>1
<1>3. [rep EXCEPT ![r][k][i] = v] = [rep EXCEPT ![r][k] = g]
  <2>1. [rep[r] EXCEPT ![k][i] = v] = [rep[r] EXCEPT ![k] = g]
    BY Zenon
  <2> QED
    BY <2>1, Zenon
<1>4. \A c \in Replicas : g[c] = IF c = i THEN v ELSE rep[r][k][c]
  BY Zenon, <1>1
<1> HIDE DEF g
<1>5. /\ [rep EXCEPT ![r][k] = g] \in [Requests -> [Attempts -> [Replicas -> RepStates]]]
      /\ \A a \in Requests, b \in Attempts :
            [rep EXCEPT ![r][k] = g][a][b] = IF a = r /\ b = k THEN g ELSE rep[a][b]
  <2>1. rep \in [Requests -> [Attempts -> [Replicas -> RepStates]]]
    BY Zenon DEF TypeOK
  <2> QED
    BY ONLY <1>2, <2>1, r \in Requests, k \in Attempts, Except2
<1> QED
  BY ZenonT(30), <1>3, <1>4, <1>5

(* One block of a collection cycle is done. *)
LEMMA GcUpdate ==
  ASSUME TypeOK, NEW r \in Requests, NEW k \in Attempts, NEW i \in Replicas,
         NEW v \in Nat
  PROVE  /\ [gcWork EXCEPT ![r][k][i] = v]
               \in [Requests -> [Attempts -> [Replicas -> Nat]]]
         /\ \A a \in Requests, b \in Attempts, c \in Replicas :
               [gcWork EXCEPT ![r][k][i] = v][a][b][c] =
                   IF a = r /\ b = k /\ c = i THEN v ELSE gcWork[a][b][c]
<1> DEFINE g == [gcWork[r][k] EXCEPT ![i] = v]
<1>1. gcWork[r][k] \in [Replicas -> Nat]
  BY DEF TypeOK
<1>2. g \in [Replicas -> Nat]
  BY Zenon, <1>1
<1>3. [gcWork EXCEPT ![r][k][i] = v] = [gcWork EXCEPT ![r][k] = g]
  BY Zenon
<1>4. \A c \in Replicas : g[c] = IF c = i THEN v ELSE gcWork[r][k][c]
  BY Zenon, <1>1
<1> HIDE DEF g
<1>5. /\ [gcWork EXCEPT ![r][k] = g] \in [Requests -> [Attempts -> [Replicas -> Nat]]]
      /\ \A a \in Requests, b \in Attempts :
            [gcWork EXCEPT ![r][k] = g][a][b] = IF a = r /\ b = k THEN g ELSE gcWork[a][b]
  <2>1. gcWork \in [Requests -> [Attempts -> [Replicas -> Nat]]]
    BY Zenon DEF TypeOK
  <2> QED
    BY ONLY <1>2, <2>1, r \in Requests, k \in Attempts, Except2
<1> QED
  BY ZenonT(30), <1>3, <1>4, <1>5

(* A refused replica write keeps the threads and the request well typed. *)
LEMMA HandleRefusalType ==
  ASSUME TypeOK, NEW r \in Requests, NEW k \in Attempts, NEW i \in Replicas,
         HandleRefusal(r, k, i)
  PROVE  /\ rep' \in [Requests -> [Attempts -> [Replicas -> RepStates]]]
         /\ pc' \in [Requests -> PCs]
<1>1. /\ [rep EXCEPT ![r][k][i] = "aborted"]
             \in [Requests -> [Attempts -> [Replicas -> RepStates]]]
      /\ [rep EXCEPT ![r][k][i] = "retrying"]
             \in [Requests -> [Attempts -> [Replicas -> RepStates]]]
  BY Zenon, RepUpdate DEF RepStates
<1>2. [pc EXCEPT ![r] = "retry"] \in [Requests -> PCs]
  BY Zenon DEF TypeOK, PCs
<1> QED
  BY Zenon, <1>1, <1>2 DEF HandleRefusal, TypeOK

(* The blocks a mapping names are real blocks of servers of the volume. *)
LEMMA MappedBlocks ==
  ASSUME TypeOK, BlockInv, NEW m \in Mapping, m # Unmapped, m.att <= att[m.req]
  PROVE  /\ \A i \in Replicas : blks[m.req][m.att][i] \in Block
         /\ ServersOf(m) \subseteq Servers
         /\ \A s : BlockOn(m, s) \in Block
<1>1. m.req \in Requests /\ m.att \in Attempts
  BY Zenon, MappedType
<1>2. \A i \in Replicas : blks[m.req][m.att][i] \in Block
  BY Zenon, <1>1 DEF BlockInv
<1>3. ServersOf(m) \subseteq Servers
  BY Zenon, <1>2 DEF ServersOf, Block
<1>4. \A s : BlockOn(m, s) \in Block
  BY <1>2 DEF BlockOn, Replicas, kNumReplicas
<1> QED
  BY Zenon, <1>2, <1>3, <1>4

(* The current mapping of a sector is a list its request was handed. *)
LEMMA CurrentMapping ==
  ASSUME TypeOK, MapInv, NEW s \in Sectors, blkMap[s] # Unmapped
  PROVE  /\ blkMap[s] \in Mapping
         /\ blkMap[s].req \in Requests /\ blkMap[s].att \in Attempts
         /\ blkMap[s].att <= att[blkMap[s].req]
         /\ op[blkMap[s].req] \in Mutators
         /\ sector[blkMap[s].req] = s
         /\ Published(blkMap[s].req, blkMap[s].att)
<1>1. blkMap[s] \in Mapping
  BY Zenon DEF TypeOK
<1>2. blkMap[s].req \in Requests /\ blkMap[s].att \in Attempts
  BY Zenon, <1>1, MappedType
<1>3. /\ op[blkMap[s].req] \in Mutators
      /\ sector[blkMap[s].req] = s
      /\ Published(blkMap[s].req, blkMap[s].att)
  BY Zenon DEF MapInv, MapOK
<1>4. blkMap[s].att \in Nat /\ att[blkMap[s].req] \in Nat
  BY <1>2 DEF TypeOK, Attempts
<1>5. blkMap[s].att <= att[blkMap[s].req]
  BY <1>3, <1>4 DEF Published
<1> QED
  BY Zenon, <1>1, <1>2, <1>3, <1>5

(* The type invariant is preserved.  It is not inductive alone: a retry must *)
(* stay within the bound on attempts, and a mapping must name real blocks.   *)
LEMMA TypeNext == IInv /\ [Next]_vars => TypeOK'
<1> SUFFICES ASSUME IInv, [Next]_vars PROVE TypeOK'
  BY Zenon
<1>0. TypeOK /\ PcInv /\ MapInv /\ BlockInv /\ ReadInv
  BY Zenon DEF IInv
<1> USE <1>0
<1> USE DEF reqVars, readVars
<1>1. ASSUME NEW r \in Requests, NEW s \in Sectors, NEW o \in Mutators,
             StartMutation(r, s, o)
      PROVE  TypeOK'
  <2>1. 1 \in Attempts /\ 1 \in 0..MaxAttempts
    BY DEF Attempts
  <2>2. /\ blks' \in [Requests -> [Attempts -> [Replicas -> Block \cup {NoBlock}]]]
        /\ next' \in [Servers -> 0..MaxBlocks]
    BY Zenon, <1>1, <2>1, GetBlocksType DEF StartMutation
  <2>3. overlapped' \subseteq Requests
    BY Zenon, <1>1 DEF StartMutation, TypeOK, Reading
  <2> QED
    BY Zenon, <1>1, <2>1, <2>2, <2>3 DEF StartMutation, TypeOK, Mutators, OpTypes, PCs
<1>2. ASSUME NEW r \in Requests, DiscardExistingBlocks(r) PROVE TypeOK'
  <2> DEFINE m == blkMap[sector[r]]
  <2>1. m \in Mapping
    BY Zenon DEF TypeOK
  <2>2. discards' \in [Requests -> [Attempts -> Nat]]
    <3>1. CASE m # Unmapped /\ op[m.req] = "write"
      <4>1. m.req \in Requests /\ m.att \in Attempts
        BY Zenon, <2>1, <3>1, MappedType
      <4>2. discards[m.req][m.att] + 1 \in Nat
        BY <4>1 DEF TypeOK
      <4>3. discards' = [discards EXCEPT ![m.req][m.att] = discards[m.req][m.att] + 1]
        BY Zenon, <1>2, <3>1 DEF DiscardExistingBlocks
      <4> HIDE DEF m
      <4> QED
        BY SMTT(30), <4>1, <4>2, <4>3, Except2 DEF TypeOK
    <3>2. CASE ~(m # Unmapped /\ op[m.req] = "write")
      BY Zenon, <1>2, <3>2 DEF DiscardExistingBlocks, TypeOK
    <3> QED
      BY Zenon, <3>1, <3>2
  <2> QED
    BY Zenon, <1>2, <2>2 DEF DiscardExistingBlocks, TypeOK, PCs
<1>3. ASSUME NEW r \in Requests, AddMapping(r) PROVE TypeOK'
  <2>1. att[r] \in Attempts
    BY <1>3 DEF AddMapping, TypeOK, PcInv, Attempts
  <2>2. [rep EXCEPT ![r][att[r]] = [i \in Replicas |-> "sent"]]
            \in [Requests -> [Attempts -> [Replicas -> RepStates]]]
    <3>1. [i \in Replicas |-> "sent"] \in [Replicas -> RepStates]
      BY Zenon DEF RepStates
    <3> QED
      BY SMTT(30), <2>1, <3>1, Except2 DEF TypeOK
  <2>3. rep' \in [Requests -> [Attempts -> [Replicas -> RepStates]]]
    BY Zenon, <1>3, <2>2 DEF AddMapping, TypeOK
  <2>4. blkMap' \in [Sectors -> Mapping]
    BY Zenon, <1>3, <2>1 DEF AddMapping, TypeOK, Mapping
  <2>5. pc' \in [Requests -> PCs]
    BY ZenonT(60), <1>3 DEF AddMapping, TypeOK, PCs
  <2> QED
    BY Zenon, <1>3, <2>3, <2>4, <2>5 DEF AddMapping, TypeOK
<1>4. ASSUME NEW r \in Requests, NEW k \in Attempts, NEW i \in Replicas,
             RejectWrite(r, k, i)
      PROVE  TypeOK'
  <2>1. /\ rep' \in [Requests -> [Attempts -> [Replicas -> RepStates]]]
        /\ pc' \in [Requests -> PCs]
    BY Zenon, <1>4, HandleRefusalType DEF RejectWrite
  <2> QED
    BY Zenon, <1>4, <2>1 DEF RejectWrite, TypeOK
<1>5. ASSUME NEW b, NEW c \in Content
      PROVE  [disk EXCEPT ![b] = c] \in [Block -> Content]
  BY Zenon, <1>5 DEF TypeOK
<1>6. ASSUME NEW r \in Requests, NEW k \in Attempts, NEW i \in Replicas,
             CompleteWrite(r, k, i)
      PROVE  TypeOK'
  <2>1. rep' \in [Requests -> [Attempts -> [Replicas -> RepStates]]]
    BY <1>6, RepUpdate DEF CompleteWrite, RepStates
  <2>2. disk' \in [Block -> Content]
    BY Zenon, <1>5, <1>6 DEF CompleteWrite, Content
  <2> QED
    BY Zenon, <1>6, <2>1, <2>2 DEF CompleteWrite, TypeOK
<1>7. ASSUME NEW r \in Requests, NEW k \in Attempts, NEW i \in Replicas,
             FailWrite(r, k, i)
      PROVE  TypeOK'
  <2>1. /\ rep' \in [Requests -> [Attempts -> [Replicas -> RepStates]]]
        /\ pc' \in [Requests -> PCs]
    BY Zenon, <1>7, HandleRefusalType DEF FailWrite
  <2>2. disk' \in [Block -> Content]
    BY Zenon, <1>5, <1>7 DEF FailWrite, Content, TypeOK
  <2> QED
    BY Zenon, <1>7, <2>1, <2>2 DEF FailWrite, TypeOK
<1>8. ASSUME NEW r \in Requests, RetryWrite(r) PROVE TypeOK'
  <2>1. att[r] + 1 \in Attempts /\ att[r] + 1 \in 0..MaxAttempts
    BY <1>8 DEF RetryWrite, PcInv, TypeOK, Attempts
  <2>2. /\ blks' \in [Requests -> [Attempts -> [Replicas -> Block \cup {NoBlock}]]]
        /\ next' \in [Servers -> 0..MaxBlocks]
    BY Zenon, <1>8, <2>1, GetBlocksType DEF RetryWrite
  <2> QED
    BY Zenon, <1>8, <2>1, <2>2 DEF RetryWrite, TypeOK, PCs
<1>9. ASSUME NEW r \in Requests, JoinWrite(r) PROVE TypeOK'
  BY Zenon, <1>9 DEF JoinWrite, TypeOK, PCs
<1>10. ASSUME NEW r \in Requests, NEW s \in Sectors, StartRead(r, s) PROVE TypeOK'
  BY Zenon, <1>10 DEF StartRead, TypeOK, PCs, OpTypes, Quiescent
<1>11. ASSUME NEW r \in Requests, ResolveBlock(r) PROVE TypeOK'
  <2> DEFINE m == blkMap[sector[r]]
  <2>1. m \in Mapping
    BY Zenon DEF TypeOK
  <2>2. CASE m = Unmapped
    BY Zenon, <1>11, <2>2 DEF ResolveBlock, TypeOK, PCs
  <2>3. CASE m # Unmapped
    <3>1. m.att <= att[m.req]
      <4>1. sector[r] \in Sectors
        BY Zenon DEF TypeOK
      <4> QED
        BY Zenon, <2>3, <4>1, CurrentMapping
    <3>4. ServersOf(m) \subseteq Servers
      BY Zenon, <2>1, <2>3, <3>1, MappedBlocks
    <3>5. cand' \in [Requests -> SUBSET Servers]
      <4>1. cand' = [cand EXCEPT ![r] = ServersOf(m)]
        BY Zenon, <1>11, <2>3 DEF ResolveBlock
      <4> HIDE DEF m
      <4> QED
        BY Zenon, <3>4, <4>1 DEF TypeOK
    <3> QED
      BY Zenon, <1>11, <2>1, <2>3, <3>5 DEF ResolveBlock, TypeOK, PCs
  <2> QED
    BY Zenon, <2>2, <2>3
<1>12. ASSUME NEW r \in Requests, NEW s \in Servers, ReadFrom(r, s) PROVE TypeOK'
  <2>1. snap[r] \in Mapping /\ s \in cand[r]
    BY Zenon, <1>12 DEF ReadFrom, TypeOK
  <2>2. BlockOn(snap[r], s) \in Block
    BY Zenon, <1>12, <2>1, MappedBlocks DEF ReadFrom, ReadInv, ReadOK
  <2>3. disk[BlockOn(snap[r], s)] \in Content
    BY Zenon, <2>2 DEF TypeOK
  <2> QED
    BY Zenon, <1>12, <2>3 DEF ReadFrom, TypeOK, PCs
<1>13. ASSUME NEW r \in Requests, NEW s \in Servers, ReadRefused(r, s) PROVE TypeOK'
  <2>1. snap[r] \in Mapping
    BY Zenon DEF TypeOK
  <2>2. ServersOf(snap[r]) \subseteq Servers
    BY Zenon, <1>13, <2>1, MappedBlocks DEF ReadRefused, ReadInv, ReadOK
  <2> QED
    BY Zenon, <1>13, <2>2 DEF ReadRefused, TypeOK
<1>14. ASSUME NEW r \in Requests, NoReadServer(r) PROVE TypeOK'
  BY Zenon, <1>14 DEF NoReadServer, TypeOK, PCs
<1>15. ASSUME RunGarbageCollector PROVE TypeOK'
  BY <1>15 DEF RunGarbageCollector, TypeOK
<1>16. ASSUME NEW r \in Requests, NEW k \in Attempts, NEW i \in Replicas,
              HandleDiscardBlocks(r, k, i)
       PROVE  TypeOK'
  <2>1. gcWork[r][k][i] - 1 \in Nat
    BY <1>16 DEF HandleDiscardBlocks, TypeOK
  <2>2. gcWork' \in [Requests -> [Attempts -> [Replicas -> Nat]]]
    BY <1>16, <2>1, GcUpdate DEF HandleDiscardBlocks
  <2>3. disk' \in [Block -> Content]
    BY Zenon, <1>5, <1>16 DEF HandleDiscardBlocks, Content
  <2> QED
    BY Zenon, <1>16, <2>2, <2>3 DEF HandleDiscardBlocks, TypeOK
<1>17. CASE UNCHANGED vars
  BY Zenon, <1>17 DEF vars, TypeOK
<1> QED
  BY Zenon, <1>1, <1>2, <1>3, <1>4, <1>6, <1>7, <1>8, <1>9, <1>10, <1>11, <1>12,
     <1>13, <1>14, <1>15, <1>16, <1>17, NextCases

-----------------------------------------------------------------------------
(* A thread that is the first of its attempt to be refused belongs to the   *)
(* innermost attempt of a write that is waiting for its replicas.           *)
LEMMA FirstRefusal ==
  ASSUME TypeOK, RepInv, NEW r \in Requests, NEW k \in Attempts, NEW i \in Replicas,
         rep[r][k][i] = "sent"
  PROVE  /\ op[r] = "write" /\ Published(r, k) /\ k <= att[r]
         /\ pc[r] # "done"
         /\ ~(\E j \in Replicas : rep[r][k][j] = "retrying") =>
               pc[r] = "write" /\ k = att[r]
<1>1. k \in Nat /\ att[r] \in Nat
  BY DEF TypeOK, Attempts
<1>2. op[r] = "write" /\ Published(r, k) /\ pc[r] # "done"
  BY DEF RepInv, ThreadsOK
<1>3. ~(\E j \in Replicas : rep[r][k][j] = "retrying") =>
         ~(k < att[r]) /\ ~(k = att[r] /\ pc[r] = "retry")
  BY DEF RepInv, ThreadsOK
<1> QED
  BY <1>1, <1>2, <1>3 DEF Published

(* Every step keeps requests where their kind can be (PcInv). *)
LEMMA PcNext == IInv /\ [Next]_vars => PcInv'
<1> SUFFICES ASSUME IInv, [Next]_vars PROVE PcInv'
  BY Zenon
<1>0. TypeOK /\ PcInv /\ RepInv
  BY Zenon DEF IInv
<1> USE <1>0 DEF reqVars, readVars
<1>1. ASSUME NEW r \in Requests, NEW s \in Sectors, NEW o \in Mutators,
             StartMutation(r, s, o)
      PROVE  PcInv'
  BY <1>1 DEF StartMutation, TypeOK, Mutators, PcInv
<1>2. ASSUME NEW r \in Requests, DiscardExistingBlocks(r) PROVE PcInv'
  BY Zenon, <1>2 DEF DiscardExistingBlocks, TypeOK, PcInv
<1>3. ASSUME NEW r \in Requests, AddMapping(r) PROVE PcInv'
  BY <1>3 DEF AddMapping, TypeOK, PcInv
<1>4. ASSUME NEW r \in Requests, NEW k \in Attempts, NEW i \in Replicas,
             RejectWrite(r, k, i) \/ FailWrite(r, k, i)
      PROVE  PcInv'
  <2>1. rep[r][k][i] = "sent" /\ k < MaxAttempts /\ HandleRefusal(r, k, i)
        /\ UNCHANGED <<op, att>>
    BY Zenon, <1>4 DEF RejectWrite, FailWrite, MayRefuse
  <2>2. CASE \E j \in Replicas : rep[r][k][j] = "retrying"
    BY Zenon, <2>1, <2>2 DEF HandleRefusal, PcInv
  <2>3. CASE ~ \E j \in Replicas : rep[r][k][j] = "retrying"
    <3>1. op[r] = "write" /\ k = att[r]
      BY <2>1, <2>3, FirstRefusal
    <3>2. pc' = [pc EXCEPT ![r] = "retry"]
      BY Zenon, <2>1, <2>3 DEF HandleRefusal
    <3> QED
      BY Zenon, <2>1, <3>1, <3>2 DEF TypeOK, PcInv
  <2> QED
    BY Zenon, <2>2, <2>3
<1>5. ASSUME NEW r \in Requests, RetryWrite(r) PROVE PcInv'
  BY <1>5 DEF RetryWrite, TypeOK, PcInv
<1>6. ASSUME NEW r \in Requests, JoinWrite(r) PROVE PcInv'
  BY Zenon, <1>6 DEF JoinWrite, TypeOK, PcInv
<1>7. ASSUME NEW r \in Requests, NEW s \in Sectors, StartRead(r, s) PROVE PcInv'
  <2>1. att[r] = 0
    BY Zenon, <1>7 DEF StartRead, TypeOK, OpTypes, PcInv
  <2> QED
    BY Zenon, <1>7, <2>1 DEF StartRead, TypeOK, PcInv
<1>8. ASSUME NEW r \in Requests, ResolveBlock(r) PROVE PcInv'
  BY <1>8 DEF ResolveBlock, TypeOK, PcInv
<1>9. ASSUME NEW r \in Requests, NEW s \in Servers, ReadFrom(r, s) PROVE PcInv'
  BY Zenon, <1>9 DEF ReadFrom, TypeOK, PcInv
<1>10. ASSUME NEW r \in Requests, NoReadServer(r) PROVE PcInv'
  BY Zenon, <1>10 DEF NoReadServer, TypeOK, PcInv
<1>11. ASSUME UNCHANGED <<op, pc, att>> PROVE PcInv'
  BY Zenon, <1>11 DEF PcInv
<1>12. ASSUME NEW r \in Requests, NEW k \in Attempts, NEW i \in Replicas,
              CompleteWrite(r, k, i) \/ HandleDiscardBlocks(r, k, i)
       PROVE  PcInv'
  BY Zenon, <1>11, <1>12 DEF CompleteWrite, HandleDiscardBlocks
<1>13. ASSUME NEW r \in Requests, NEW s \in Servers, ReadRefused(r, s) PROVE PcInv'
  BY Zenon, <1>11, <1>13 DEF ReadRefused
<1>14. CASE RunGarbageCollector \/ UNCHANGED vars
  BY Zenon, <1>11, <1>14 DEF RunGarbageCollector, vars
<1> QED
  BY Zenon, <1>1, <1>2, <1>3, <1>4, <1>5, <1>6, <1>7, <1>8, <1>9, <1>10, <1>12,
     <1>13, <1>14, NextCases


(* Steps that leave the threads and the progress of writes alone. *)
LEMMA RepFrame ==
  ASSUME TypeOK, RepInv, UNCHANGED <<rep, att>>,
         \A r \in Requests :
             \/ op[r]' = op[r] /\ pc[r]' = pc[r]
             \/ /\ op[r] # "write" /\ op[r]' # "write"
                /\ att[r] = 0 \/ (att[r] = 1 /\ pc[r]' # "retry")
             \/ op[r]' = op[r] /\ pc[r] = "discard" /\ pc[r]' = "publish"
  PROVE  RepInv'
<1> SUFFICES ASSUME NEW r \in Requests, NEW k \in Attempts PROVE ThreadsOK(r, k)'
  BY Zenon DEF RepInv
<1>1. k \in Nat /\ k >= 1 /\ att[r] \in Nat /\ ThreadsOK(r, k)
  BY SMTT(30) DEF TypeOK, Attempts, RepInv
<1> QED
  BY <1>1 DEF ThreadsOK, Published

(* Every step keeps the replica threads in agreement with their request. *)
LEMMA RepNext == IInv /\ [Next]_vars => RepInv'
<1> SUFFICES ASSUME IInv, [Next]_vars PROVE RepInv'
  BY Zenon
<1>0. TypeOK /\ PcInv /\ RepInv
  BY Zenon DEF IInv
<1> USE <1>0 DEF reqVars, readVars
<1>1. ASSUME NEW r \in Requests, NEW s \in Sectors, NEW o \in Mutators,
             StartMutation(r, s, o)
      PROVE  RepInv'
  <2> SUFFICES ASSUME NEW x \in Requests, NEW k \in Attempts PROVE ThreadsOK(x, k)'
    BY Zenon DEF RepInv
  <2>1. k \in Nat /\ k >= 1 /\ att[x] \in Nat /\ ThreadsOK(x, k)
    BY DEF TypeOK, Attempts, RepInv
  <2>2. CASE x # r
    BY Zenon, <1>1, <2>1, <2>2 DEF StartMutation, TypeOK, ThreadsOK, Published
  <2>3. CASE x = r
    <3>1. op[r] # "write"
      BY Zenon, <1>1 DEF StartMutation, PcInv
    <3>2. att[r]' = 1 /\ pc[r]' = "discard" /\ rep' = rep
      BY Zenon, <1>1 DEF StartMutation, TypeOK
    <3> QED
      BY <2>1, <2>3, <3>1, <3>2 DEF ThreadsOK, Published
  <2> QED
    BY Zenon, <2>2, <2>3
<1>2. ASSUME NEW r \in Requests, DiscardExistingBlocks(r) PROVE RepInv'
  BY Zenon, <1>2, RepFrame DEF DiscardExistingBlocks, TypeOK
<1>3. ASSUME NEW r \in Requests, AddMapping(r) PROVE RepInv'
  <2>1. CASE op[r] = "allocate"
    BY Zenon, <1>3, <2>1, RepFrame DEF AddMapping, TypeOK, PcInv
  <2>2. CASE op[r] = "write"
    <3> SUFFICES ASSUME NEW x \in Requests, NEW k \in Attempts PROVE ThreadsOK(x, k)'
      BY Zenon DEF RepInv
    <3>1. k \in Nat /\ k >= 1 /\ att[x] \in Nat /\ ThreadsOK(x, k) /\ att[r] \in Attempts
      BY <2>2 DEF TypeOK, Attempts, RepInv, PcInv
    <3>2. rep'[x][k] = IF x = r /\ k = att[r] THEN [i \in Replicas |-> "sent"]
                                              ELSE rep[x][k]
      BY <1>3, <2>2, <3>1 DEF AddMapping, TypeOK
    <3>3. /\ UNCHANGED <<op, att>> /\ pc[r] = "publish"
          /\ pc' = [pc EXCEPT ![r] = "write"]
      BY Zenon, <1>3, <2>2 DEF AddMapping
    <3>4. CASE x = r /\ k = att[r]
      BY SMTT(30), <2>2, <3>1, <3>2, <3>3, <3>4 DEF ThreadsOK, Published, TypeOK
    <3>5. CASE ~(x = r /\ k = att[r])
      BY Zenon, <2>2, <3>1, <3>2, <3>3, <3>5 DEF ThreadsOK, Published, TypeOK
    <3> QED
      BY Zenon, <3>4, <3>5
  <2> QED
    BY Zenon, <1>3, <2>1, <2>2 DEF AddMapping
<1>4. ASSUME NEW r \in Requests, NEW k \in Attempts, NEW i \in Replicas,
             RejectWrite(r, k, i) \/ FailWrite(r, k, i)
      PROVE  RepInv'
  <2>1. rep[r][k][i] = "sent" /\ HandleRefusal(r, k, i) /\ UNCHANGED <<op, att>>
    BY Zenon, <1>4 DEF RejectWrite, FailWrite
  <2> SUFFICES ASSUME NEW x \in Requests, NEW y \in Attempts PROVE ThreadsOK(x, y)'
    BY Zenon DEF RepInv
  <2>2. y \in Nat /\ y >= 1 /\ att[x] \in Nat /\ ThreadsOK(x, y) /\ ThreadsOK(r, k)
    BY SMTT(30) DEF TypeOK, Attempts, RepInv
  <2>3. CASE \E j \in Replicas : rep[r][k][j] = "retrying"
    <3>1. /\ UNCHANGED pc
          /\ \A a \in Requests, b \in Attempts, c \in Replicas :
                rep'[a][b][c] = IF a = r /\ b = k /\ c = i THEN "aborted"
                                                           ELSE rep[a][b][c]
      BY SMTT(30), <2>1, <2>3, RepUpdate DEF HandleRefusal, RepStates
    <3>2. PICK j \in Replicas : rep[r][k][j] = "retrying"
      BY Zenon, <2>3
    <3>3. rep'[r][k][j] = "retrying"
      BY Zenon, <2>1, <3>1, <3>2
    <3>4. CASE x = r /\ y = k
      BY SMTT(30), <2>1, <2>2, <3>1, <3>2, <3>3, <3>4 DEF ThreadsOK, Published
    <3>5. CASE ~(x = r /\ y = k)
      BY <2>1, <2>2, <3>1, <3>5 DEF ThreadsOK, Published
    <3> QED
      BY Zenon, <3>4, <3>5
  <2>4. CASE ~ \E j \in Replicas : rep[r][k][j] = "retrying"
    <3>1. /\ pc' = [pc EXCEPT ![r] = "retry"]
          /\ \A a \in Requests, b \in Attempts, c \in Replicas :
                rep'[a][b][c] = IF a = r /\ b = k /\ c = i THEN "retrying"
                                                           ELSE rep[a][b][c]
      BY SMTT(30), <2>1, <2>4, RepUpdate DEF HandleRefusal, RepStates
    <3>2. op[r] = "write" /\ pc[r] = "write" /\ k = att[r]
      BY SMTT(30), <2>1, <2>4, FirstRefusal
    <3>3. rep'[r][k][i] = "retrying" /\ pc'[x] = IF x = r THEN "retry" ELSE pc[x]
      BY Zenon, <3>1 DEF TypeOK
    <3>4. CASE x = r /\ y = k
      BY SMTT(30), <2>1, <2>2, <3>1, <3>2, <3>3, <3>4 DEF ThreadsOK, Published
    <3>5. CASE x = r /\ y # k
      BY SMTT(30), <2>1, <2>2, <3>1, <3>2, <3>3, <3>5 DEF ThreadsOK, Published
    <3>6. CASE x # r
      BY SMTT(30), <2>1, <2>2, <3>1, <3>3, <3>6 DEF ThreadsOK, Published
    <3> QED
      BY Zenon, <3>4, <3>5, <3>6
  <2> QED
    BY Zenon, <2>3, <2>4
<1>5. ASSUME NEW r \in Requests, NEW k \in Attempts, NEW i \in Replicas,
             CompleteWrite(r, k, i)
      PROVE  RepInv'
  <2> SUFFICES ASSUME NEW x \in Requests, NEW y \in Attempts PROVE ThreadsOK(x, y)'
    BY Zenon DEF RepInv
  <2>1. y \in Nat /\ att[x] \in Nat /\ ThreadsOK(x, y)
    BY SMTT(30) DEF TypeOK, Attempts, RepInv
  <2>2. \A a \in Requests, b \in Attempts, c \in Replicas :
            rep'[a][b][c] = IF a = r /\ b = k /\ c = i THEN "ok" ELSE rep[a][b][c]
    BY <1>5, RepUpdate DEF CompleteWrite, RepStates
  <2>3. UNCHANGED <<op, pc, att>> /\ rep[r][k][i] = "sent"
    BY Zenon, <1>5 DEF CompleteWrite
  <2> QED
    BY <2>1, <2>2, <2>3 DEF ThreadsOK, Published
<1>6. ASSUME NEW r \in Requests, RetryWrite(r) PROVE RepInv'
  <2> SUFFICES ASSUME NEW x \in Requests, NEW k \in Attempts PROVE ThreadsOK(x, k)'
    BY Zenon DEF RepInv
  <2>1. k \in Nat /\ att[x] \in Nat /\ ThreadsOK(x, k)
    BY DEF TypeOK, Attempts, RepInv
  <2>2. /\ UNCHANGED <<op, rep>> /\ pc[r] = "retry"
        /\ pc' = [pc EXCEPT ![r] = "discard"] /\ att' = [att EXCEPT ![r] = @ + 1]
    BY Zenon, <1>6 DEF RetryWrite
  <2>3. /\ pc'[x] = IF x = r THEN "discard" ELSE pc[x]
        /\ att'[x] = IF x = r THEN att[x] + 1 ELSE att[x]
    BY Zenon, <2>2 DEF TypeOK
  <2>4. CASE x # r
    BY Zenon, <2>1, <2>2, <2>3, <2>4 DEF ThreadsOK, Published
  <2>5. CASE x = r
    BY <2>1, <2>2, <2>3, <2>5 DEF ThreadsOK, Published
  <2> QED
    BY Zenon, <2>4, <2>5
<1>7. ASSUME NEW r \in Requests, JoinWrite(r) PROVE RepInv'
  <2> SUFFICES ASSUME NEW x \in Requests, NEW k \in Attempts PROVE ThreadsOK(x, k)'
    BY Zenon DEF RepInv
  <2>1. k \in Nat /\ k >= 1 /\ att[x] \in Nat /\ ThreadsOK(x, k)
    BY SMTT(30) DEF TypeOK, Attempts, RepInv
  <2>2. /\ UNCHANGED <<op, rep, att>> /\ pc[r] = "write"
        /\ pc' = [pc EXCEPT ![r] = "done"]
        /\ \A y \in 1..att[r], i \in Replicas : rep[r][y][i] # "sent"
    BY Zenon, <1>7 DEF JoinWrite
  <2>3. pc'[x] = IF x = r THEN "done" ELSE pc[x]
    BY Zenon, <2>2 DEF TypeOK
  <2>4. CASE x # r
    BY Zenon, <2>1, <2>2, <2>3, <2>4 DEF ThreadsOK, Published
  <2>5. CASE x = r
    <3>1. \A i \in Replicas : rep[r][k][i] # "sent"
      <4>1. CASE k <= att[r]
        BY <2>1, <2>2, <2>5, <4>1
      <4>2. CASE ~(k <= att[r])
        BY <2>1, <2>5, <4>2 DEF ThreadsOK, Published
      <4> QED
        BY Zenon, <4>1, <4>2
    <3> QED
      BY <2>1, <2>2, <2>3, <2>5, <3>1 DEF ThreadsOK, Published
  <2> QED
    BY Zenon, <2>4, <2>5
<1>8. ASSUME NEW r \in Requests, NEW s \in Sectors, StartRead(r, s) PROVE RepInv'
  BY Zenon, <1>8, RepFrame DEF StartRead, TypeOK, PcInv, OpTypes
<1>9. ASSUME NEW r \in Requests, ResolveBlock(r) \/ NoReadServer(r) PROVE RepInv'
  BY <1>9, RepFrame DEF ResolveBlock, NoReadServer, TypeOK, PcInv, OpTypes
<1>10. ASSUME NEW r \in Requests, NEW s \in Servers, ReadFrom(r, s) PROVE RepInv'
  BY Zenon, <1>10, RepFrame DEF ReadFrom, TypeOK, PcInv, OpTypes
<1>11. ASSUME UNCHANGED <<rep, op, pc, att>> PROVE RepInv'
  BY Zenon, <1>11, RepFrame
<1>12. ASSUME NEW r \in Requests, NEW k \in Attempts, NEW i \in Replicas,
              HandleDiscardBlocks(r, k, i)
       PROVE  RepInv'
  BY Zenon, <1>11, <1>12 DEF HandleDiscardBlocks
<1>13. ASSUME NEW r \in Requests, NEW s \in Servers, ReadRefused(r, s) PROVE RepInv'
  BY Zenon, <1>11, <1>13 DEF ReadRefused
<1>14. CASE RunGarbageCollector \/ UNCHANGED vars
  BY Zenon, <1>11, <1>14 DEF RunGarbageCollector, vars
<1> QED
  BY Zenon, <1>1, <1>2, <1>3, <1>4, <1>5, <1>6, <1>7, <1>8, <1>9, <1>10, <1>12,
     <1>13, <1>14, NextCases

-----------------------------------------------------------------------------
(* Blocks, the block map and the discard list *)

(* GetBlocks hands out blocks at or above each server's mark, which moves *)
(* past them; two replicas on one server get two blocks of it.            *)
LEMMA GetBlocksFresh ==
  ASSUME TypeOK, NEW r \in Requests, NEW k \in Attempts, GetBlocks(r, k)
  PROVE  /\ \A s \in Servers : next[s] \in Nat /\ next'[s] \in Nat /\ next'[s] >= next[s]
         /\ \A i \in Replicas :
               /\ blks'[r][k][i] \in Block
               /\ blks'[r][k][i][2] >= next[blks'[r][k][i][1]]
               /\ blks'[r][k][i][2] < next'[blks'[r][k][i][1]]
         /\ \A i, j \in Replicas : i # j => blks'[r][k][i] # blks'[r][k][j]
         /\ \A a \in Requests, b \in Attempts :
               ~(a = r /\ b = k) => blks'[a][b] = blks[a][b]
<1>1. PICK f \in ReplicaServers :
        /\ \A i \in Replicas : FreshAddr(f, i) < MaxBlocks
        /\ blks' = [blks EXCEPT ![r][k] =
                        [i \in Replicas |-> <<f[i], FreshAddr(f, i)>>]]
        /\ next' = [s \in Servers |->
                        next[s] + (IF f[1] = s THEN 1 ELSE 0)
                                + (IF f[2] = s THEN 1 ELSE 0)]
  BY Zenon DEF GetBlocks
<1>2. f \in [Replicas -> Servers] /\ Replicas = {1, 2}
  BY DEF ReplicaServers, Replicas, kNumReplicas
<1>3. \A s \in Servers : next[s] \in Nat
  BY DEF TypeOK
<1>4. \A s \in Servers : next'[s] = next[s] + (IF f[1] = s THEN 1 ELSE 0)
                                            + (IF f[2] = s THEN 1 ELSE 0)
  BY Zenon, <1>1
<1>5. \A i \in Replicas : /\ FreshAddr(f, i) \in Addrs
                          /\ FreshAddr(f, i) >= next[f[i]]
                          /\ FreshAddr(f, i) < next'[f[i]]
  <2> SUFFICES ASSUME NEW i \in Replicas
               PROVE  /\ FreshAddr(f, i) \in Addrs
                      /\ FreshAddr(f, i) >= next[f[i]]
                      /\ FreshAddr(f, i) < next'[f[i]]
    BY Zenon
  <2>1. f[i] \in Servers /\ next[f[i]] \in Nat /\ f[1] \in Servers /\ f[2] \in Servers
    BY Zenon, <1>2, <1>3
  <2>2. FreshAddr(f, i) < MaxBlocks
    BY Zenon, <1>1
  <2>3. next'[f[i]] = next[f[i]] + (IF f[1] = f[i] THEN 1 ELSE 0)
                                 + (IF f[2] = f[i] THEN 1 ELSE 0)
    BY Zenon, <1>4, <2>1
  <2>4. i = 1 \/ i = 2
    BY Zenon, <1>2
  <2> QED
    BY <2>1, <2>2, <2>3, <2>4 DEF FreshAddr, Addrs
<1>6. blks'[r][k] = [i \in Replicas |-> <<f[i], FreshAddr(f, i)>>]
      /\ \A a \in Requests, b \in Attempts :
               ~(a = r /\ b = k) => blks'[a][b] = blks[a][b]
  BY Zenon, <1>1 DEF TypeOK
<1>7. \A i \in Replicas :
               /\ blks'[r][k][i] = <<f[i], FreshAddr(f, i)>>
               /\ blks'[r][k][i] \in Block
               /\ blks'[r][k][i][2] >= next[blks'[r][k][i][1]]
               /\ blks'[r][k][i][2] < next'[blks'[r][k][i][1]]
  BY SMTT(30), <1>2, <1>5, <1>6 DEF Block
<1>8. blks'[r][k][1] # blks'[r][k][2]
  <2>1. f[1] = f[2] => FreshAddr(f, 1) # FreshAddr(f, 2)
    BY <1>2, <1>3 DEF FreshAddr
  <2> QED
    BY <1>2, <1>7, <2>1
<1>9. \A i, j \in Replicas : i # j => blks'[r][k][i] # blks'[r][k][j]
  BY Zenon, <1>2, <1>8
<1>10. \A s \in Servers : next'[s] \in Nat /\ next'[s] >= next[s]
  BY <1>3, <1>4
<1> QED
  BY Zenon, <1>3, <1>6, <1>7, <1>9, <1>10

(* The two facts about GetBlocks that are used most, on their own. *)
LEMMA GetBlocksNew ==
  ASSUME TypeOK, NEW r \in Requests, NEW k \in Attempts, GetBlocks(r, k),
         NEW i \in Replicas
  PROVE  blks'[r][k][i] \in Block /\ blks'[r][k][i][2] >= next[blks'[r][k][i][1]]
BY Zenon, GetBlocksFresh

(* GetBlocks leaves the lists of the other attempts as they are. *)
LEMMA GetBlocksKeeps ==
  ASSUME TypeOK, NEW r \in Requests, NEW k \in Attempts, GetBlocks(r, k),
         NEW a \in Requests, NEW b \in Attempts, ~(a = r /\ b = k)
  PROVE  blks'[a][b] = blks[a][b]
<1>1. \A x \in Requests, y \in Attempts : ~(x = r /\ y = k) => blks'[x][y] = blks[x][y]
  BY ZenonT(60), GetBlocksFresh
<1> QED
  BY Zenon, <1>1

(* A new attempt keeps the blocks of all attempts apart. *)
LEMMA BlockGrow ==
  ASSUME TypeOK, BlockInv, NEW r \in Requests, NEW k \in Attempts,
         GetBlocks(r, k), k = att[r] + 1, att' = [att EXCEPT ![r] = k]
  PROVE  BlockInv'
<1>1. \A a \in Requests : att[a] \in Nat /\ att[a] <= MaxAttempts
  BY DEF TypeOK
<1>2. \A a \in Requests : att'[a] = IF a = r THEN k ELSE att[a]
  BY Zenon DEF TypeOK
<1>3. \A a \in Requests, b \in Attempts :
          b <= att'[a] => (a = r /\ b = k) \/ (b <= att[a] /\ ~(a = r /\ b = k))
  BY SMTT(30), <1>1, <1>2 DEF Attempts
<1>4. \A a \in Requests, b \in Attempts, i \in Replicas :
          b <= att[a] /\ ~(a = r /\ b = k) =>
              /\ blks'[a][b][i] \in Block
              /\ blks'[a][b][i][2] < next[blks'[a][b][i][1]]
              /\ blks'[a][b][i][2] < next'[blks'[a][b][i][1]]
  <2> SUFFICES ASSUME NEW a \in Requests, NEW b \in Attempts, NEW i \in Replicas,
                      b <= att[a], ~(a = r /\ b = k)
               PROVE  /\ blks'[a][b][i] \in Block
                      /\ blks'[a][b][i][2] < next[blks'[a][b][i][1]]
                      /\ blks'[a][b][i][2] < next'[blks'[a][b][i][1]]
    BY Zenon
  <2>1. blks'[a][b] = blks[a][b]
    BY GetBlocksFresh
  <2>2. blks[a][b][i] \in Block /\ blks[a][b][i][2] < next[blks[a][b][i][1]]
    BY Zenon DEF BlockInv
  <2>3. blks[a][b][i][1] \in Servers /\ blks[a][b][i][2] \in Nat
    BY SMTT(30), <2>2 DEF Block, Addrs
  <2>4. /\ next[blks[a][b][i][1]] \in Nat /\ next'[blks[a][b][i][1]] \in Nat
        /\ next'[blks[a][b][i][1]] >= next[blks[a][b][i][1]]
    BY Zenon, <2>3, GetBlocksFresh
  <2> QED
    BY SMTT(30), <2>1, <2>2, <2>3, <2>4
<1>5. \A a \in Requests, b \in Attempts : b <= att'[a] =>
           \A i \in Replicas :
               /\ blks'[a][b][i] \in Block
               /\ blks'[a][b][i][2] < next'[blks'[a][b][i][1]]
  BY SMTT(30), <1>3, <1>4, GetBlocksFresh
<1>6. ASSUME NEW a \in Requests, NEW b \in Attempts, NEW i \in Replicas,
             NEW j \in Replicas, b <= att[a], ~(a = r /\ b = k)
      PROVE  blks'[a][b][i] # blks'[r][k][j]
  <2>1. blks'[a][b][i] \in Block /\ blks'[a][b][i][2] < next[blks'[a][b][i][1]]
    BY Zenon, <1>4, <1>6
  <2>2. blks'[r][k][j][2] >= next[blks'[r][k][j][1]]
    BY Zenon, GetBlocksFresh
  <2>3. blks'[a][b][i][2] \in Nat /\ next[blks'[a][b][i][1]] \in Nat
    BY <2>1, GetBlocksFresh DEF Block, Addrs
  <2> QED
    BY SMTT(30), <2>1, <2>2, <2>3
<1>7. NoSharedBlock'
  <2> SUFFICES ASSUME NEW a \in Requests, NEW c \in Requests,
                      NEW b \in 1..att'[a], NEW d \in 1..att'[c],
                      NEW i \in Replicas, NEW j \in Replicas,
                      blks'[a][b][i] = blks'[c][d][j]
               PROVE  a = c /\ b = d /\ i = j
    BY Zenon DEF NoSharedBlock
  <2>1. b \in Attempts /\ d \in Attempts /\ b <= att'[a] /\ d <= att'[c]
    BY SMTT(30), <1>1, <1>2 DEF Attempts
  <2>2. CASE a = r /\ b = k /\ c = r /\ d = k
    BY SMTT(30), <2>2, GetBlocksFresh
  <2>3. CASE a = r /\ b = k /\ ~(c = r /\ d = k)
    BY Zenon, <1>3, <1>6, <2>1, <2>3
  <2>4. CASE ~(a = r /\ b = k) /\ c = r /\ d = k
    BY Zenon, <1>3, <1>6, <2>1, <2>4
  <2>5. CASE ~(a = r /\ b = k) /\ ~(c = r /\ d = k)
    <3>1. b <= att[a] /\ d <= att[c] /\ b \in 1..att[a] /\ d \in 1..att[c]
      BY SMTT(30), <1>1, <1>3, <2>1, <2>5 DEF Attempts
    <3>2. blks[a][b][i] = blks[c][d][j]
      BY <2>1, <2>5, GetBlocksFresh
    <3> QED
      BY <3>1, <3>2 DEF BlockInv, NoSharedBlock
  <2> QED
    BY Zenon, <2>2, <2>3, <2>4, <2>5
<1> QED
  BY Zenon, <1>5, <1>7 DEF BlockInv

(* Every step keeps blocks unshared and below the servers' counters. *)
LEMMA BlockNext == IInv /\ [Next]_vars => BlockInv'
<1> SUFFICES ASSUME IInv, [Next]_vars PROVE BlockInv'
  BY Zenon
<1>0. TypeOK /\ PcInv /\ BlockInv
  BY Zenon DEF IInv
<1> USE <1>0 DEF reqVars, readVars
<1>1. ASSUME NEW r \in Requests, NEW s \in Sectors, NEW o \in Mutators,
             StartMutation(r, s, o)
      PROVE  BlockInv'
  <2>1. 1 \in Attempts /\ 1 = att[r] + 1
    <3>1. att[r] = 0
      BY Zenon, <1>1 DEF StartMutation, TypeOK, OpTypes, PcInv
    <3> QED
      BY <3>1 DEF Attempts
  <2> QED
    BY Zenon, <1>1, <2>1, BlockGrow DEF StartMutation
<1>2. ASSUME NEW r \in Requests, RetryWrite(r) PROVE BlockInv'
  <2>1. att[r] + 1 \in Attempts
    BY <1>2 DEF RetryWrite, PcInv, TypeOK, Attempts
  <2>2. GetBlocks(r, att[r] + 1) /\ att' = [att EXCEPT ![r] = att[r] + 1]
    BY Zenon, <1>2 DEF RetryWrite
  <2> QED
    BY Zenon, <2>1, <2>2, BlockGrow
<1>3. ASSUME UNCHANGED <<blks, next, att>> PROVE BlockInv'
  BY SMTT(30), <1>3 DEF BlockInv, NoSharedBlock
<1>4. ASSUME NEW r \in Requests,
             \/ DiscardExistingBlocks(r) \/ AddMapping(r) \/ JoinWrite(r)
             \/ ResolveBlock(r) \/ NoReadServer(r)
      PROVE  BlockInv'
  BY Zenon, <1>3, <1>4 DEF DiscardExistingBlocks, AddMapping, JoinWrite, ResolveBlock,
                    NoReadServer
<1>5. ASSUME NEW r \in Requests, NEW s, StartRead(r, s) \/ ReadFrom(r, s) \/ ReadRefused(r, s)
      PROVE  BlockInv'
  BY Zenon, <1>3, <1>5 DEF StartRead, ReadFrom, ReadRefused
<1>6. ASSUME NEW r \in Requests, NEW k \in Attempts, NEW i \in Replicas,
             \/ RejectWrite(r, k, i) \/ CompleteWrite(r, k, i) \/ FailWrite(r, k, i)
             \/ HandleDiscardBlocks(r, k, i)
      PROVE  BlockInv'
  BY Zenon, <1>3, <1>6 DEF RejectWrite, CompleteWrite, FailWrite, HandleDiscardBlocks
<1>7. CASE RunGarbageCollector \/ UNCHANGED vars
  BY Zenon, <1>3, <1>7 DEF RunGarbageCollector, vars
<1> QED
  BY Zenon, <1>1, <1>2, <1>4, <1>5, <1>6, <1>7, NextCases

-----------------------------------------------------------------------------
(* Writing or trimming the block of one replica changes no other block that *)
(* was handed out, and none that was not.                                   *)
LEMMA DiskUpdate ==
  ASSUME TypeOK, BlockInv, NEW r \in Requests, NEW k \in Attempts, NEW i \in Replicas,
         k <= att[r], NEW v \in Content, disk' = [disk EXCEPT ![blks[r][k][i]] = v]
  PROVE  /\ disk'[blks[r][k][i]] = v
         /\ \A x \in Requests, y \in Attempts, j \in Replicas :
               y <= att[x] /\ ~(x = r /\ y = k /\ j = i) =>
                   disk'[blks[x][y][j]] = disk[blks[x][y][j]]
         /\ \A b \in Block : b[2] >= next[b[1]] => disk'[b] = disk[b]
<1>1. blks[r][k][i] \in Block /\ blks[r][k][i][2] < next[blks[r][k][i][1]]
  BY Zenon DEF BlockInv
<1>2. blks[r][k][i][2] \in Nat /\ next[blks[r][k][i][1]] \in Nat
  <2>1. next \in [Servers -> 0..MaxBlocks]
    BY Zenon DEF TypeOK
  <2> QED
    BY <1>1, <2>1 DEF Block, Addrs
<1>3. disk \in [Block -> Content]
  BY Zenon DEF TypeOK
<1>4. ASSUME NEW b \in Block, b[2] >= next[b[1]] PROVE disk'[b] = disk[b]
  <2>1. b # blks[r][k][i]
    BY <1>1, <1>2, <1>4
  <2> QED
    BY Zenon, <1>3, <2>1
<1>5. ASSUME NEW x \in Requests, NEW y \in Attempts, NEW j \in Replicas, y <= att[x],
             ~(x = r /\ y = k /\ j = i)
      PROVE  disk'[blks[x][y][j]] = disk[blks[x][y][j]]
  <2>1. blks[x][y][j] \in Block
    BY Zenon, <1>5 DEF BlockInv
  <2>2. k \in 1..att[r] /\ y \in 1..att[x]
    BY SMTT(30), <1>5 DEF Attempts, TypeOK
  <2>3. blks[x][y][j] # blks[r][k][i]
    BY SMTT(30), <1>5, <2>2 DEF BlockInv, NoSharedBlock
  <2> QED
    BY Zenon, <1>3, <2>1, <2>3
<1>6. disk'[blks[r][k][i]] = v
  BY Zenon, <1>1, <1>3
<1> QED
  BY SMTT(30), <1>4, <1>5, <1>6

(* Fresh blocks are blank, and no replica of a new attempt is written. *)
LEMMA DiskGrow ==
  ASSUME TypeOK, BlockInv, DiskInv, RepInv, NEW r \in Requests, NEW k \in Attempts,
         GetBlocks(r, k), k = att[r] + 1, att' = [att EXCEPT ![r] = k],
         UNCHANGED <<disk, rep>>,
         \A x \in Requests : x # r => op[x]' = op[x],
         att[r] = 0 \/ op[r]' = op[r]
  PROVE  DiskInv'
<1>1. \A a \in Requests : att'[a] = IF a = r THEN k ELSE att[a]
  BY Zenon DEF TypeOK
<1>2. \A b \in Block : b[2] >= next'[b[1]] => disk'[b] = Blank
  <2> SUFFICES ASSUME NEW b \in Block, b[2] >= next'[b[1]] PROVE disk[b] = Blank
    BY Zenon
  <2>1. b[1] \in Servers /\ b[2] \in Nat
    BY DEF Block, Addrs
  <2>2. next[b[1]] \in Nat /\ next'[b[1]] \in Nat /\ next'[b[1]] >= next[b[1]]
    BY Zenon, <2>1, GetBlocksFresh
  <2> QED
    BY SMTT(30), <2>1, <2>2 DEF DiskInv
<1>3. ASSUME NEW x \in Requests, NEW y \in Attempts, NEW j \in Replicas, y <= att'[x]
      PROVE  BlockOK(x, y, j)'
  <2>1. att[x] \in Nat /\ y \in Nat /\ y >= 1
    BY DEF TypeOK, Attempts
  <2>2. CASE x = r /\ y = k
    <3>1. blks'[r][k][j] \in Block /\ blks'[r][k][j][2] >= next[blks'[r][k][j][1]]
      BY Zenon, GetBlocksNew
    <3>2. disk[blks'[r][k][j]] = Blank
      BY Zenon, <3>1 DEF DiskInv
    <3>3. rep[r][k][j] = "none"
      BY <2>1, <2>2 DEF RepInv, ThreadsOK, Published
    <3> QED
      BY Zenon, <2>2, <3>2, <3>3 DEF BlockOK
  <2>3. CASE ~(x = r /\ y = k)
    <3>1. y <= att[x] /\ op[x]' = op[x]
      BY SMTT(30), <1>1, <1>3, <2>1, <2>3
    <3>2. blks'[x][y] = blks[x][y]
      BY <2>3, GetBlocksKeeps
    <3>3. BlockOK(x, y, j)
      BY Zenon, <3>1 DEF DiskInv
    <3> QED
      BY Zenon, <3>1, <3>2, <3>3 DEF BlockOK
  <2> QED
    BY Zenon, <2>2, <2>3
<1> QED
  BY Zenon, <1>2, <1>3 DEF DiskInv

(* Every step keeps what the written, blank and unused blocks hold. *)
LEMMA DiskNext == IInv /\ [Next]_vars => DiskInv'
<1> SUFFICES ASSUME IInv, [Next]_vars PROVE DiskInv'
  BY Zenon
<1>0. TypeOK /\ PcInv /\ RepInv /\ BlockInv /\ DiskInv /\ DiscardInv
  BY Zenon DEF IInv
<1> USE <1>0 DEF reqVars, readVars
<1>1. ASSUME NEW r \in Requests, NEW s \in Sectors, NEW o \in Mutators,
             StartMutation(r, s, o)
      PROVE  DiskInv'
  <2>1. att[r] = 0
    BY Zenon, <1>1 DEF StartMutation, TypeOK, OpTypes, PcInv
  <2>2. 1 \in Attempts /\ 1 = att[r] + 1
    BY SMTT(30), <2>1 DEF Attempts
  <2>3. \A x \in Requests : x # r => op[x]' = op[x]
    BY Zenon, <1>1 DEF StartMutation, TypeOK
  <2> QED
    BY Zenon, <1>1, <2>1, <2>2, <2>3, DiskGrow DEF StartMutation
<1>2. ASSUME NEW r \in Requests, RetryWrite(r) PROVE DiskInv'
  <2>1. att[r] + 1 \in Attempts
    BY <1>2 DEF RetryWrite, PcInv, TypeOK, Attempts
  <2>2. /\ GetBlocks(r, att[r] + 1) /\ att' = [att EXCEPT ![r] = att[r] + 1]
        /\ UNCHANGED <<disk, rep, op>>
    BY Zenon, <1>2 DEF RetryWrite
  <2> QED
    BY Zenon, <2>1, <2>2, DiskGrow
<1>3. ASSUME UNCHANGED <<blks, next, att, op, disk>>,
             \A x \in Requests, y \in Attempts, j \in Replicas :
                 rep'[x][y][j] = "ok" => rep[x][y][j] = "ok"
      PROVE  DiskInv'
  <2>1. ASSUME NEW x \in Requests, NEW y \in Attempts, NEW j \in Replicas, y <= att[x]
        PROVE  BlockOK(x, y, j)'
    <3>1. BlockOK(x, y, j)
      BY Zenon, <2>1 DEF DiskInv
    <3> QED
      BY Zenon, <1>3, <3>1 DEF BlockOK
  <2> QED
    BY Zenon, <1>3, <2>1 DEF DiskInv
<1>4. ASSUME NEW r \in Requests, AddMapping(r) PROVE DiskInv'
  <2>1. \A x \in Requests, y \in Attempts, j \in Replicas :
            rep'[x][y][j] = "ok" => rep[x][y][j] = "ok"
    <3>1. CASE rep' = rep
      BY Zenon, <3>1
    <3>2. CASE rep' = [rep EXCEPT ![r][att[r]] = [i \in Replicas |-> "sent"]]
      <4>1. att[r] \in Attempts
        BY SMTT(30), <1>4 DEF AddMapping, TypeOK, PcInv, Attempts
      <4>2. \A x \in Requests, y \in Attempts :
                rep'[x][y] = IF x = r /\ y = att[r] THEN [i \in Replicas |-> "sent"]
                                                    ELSE rep[x][y]
        BY Zenon, <3>2, <4>1 DEF TypeOK
      <4> QED
        BY SMTT(30), <4>2
    <3> QED
      BY Zenon, <1>4, <3>1, <3>2 DEF AddMapping
  <2> QED
    BY Zenon, <1>3, <1>4, <2>1 DEF AddMapping
<1>5. ASSUME NEW r \in Requests, NEW k \in Attempts, NEW i \in Replicas,
             rep[r][k][i] = "sent", NEW v \in RepStates,
             rep' = [rep EXCEPT ![r][k][i] = v],
             UNCHANGED <<blks, next, att, op>>,
             \/ disk' = [disk EXCEPT ![blks[r][k][i]] = r]
             \/ v # "ok" /\ UNCHANGED disk
      PROVE  DiskInv'
  <2>1. op[r] = "write" /\ k <= att[r]
    BY Zenon, <1>5, FirstRefusal
  <2>2. \A x \in Requests, y \in Attempts, j \in Replicas :
            rep'[x][y][j] = IF x = r /\ y = k /\ j = i THEN v ELSE rep[x][y][j]
    BY <1>5, RepUpdate
  <2>3. CASE v # "ok" /\ UNCHANGED disk
    BY SMTT(30), <1>3, <1>5, <2>2, <2>3
  <2>4. CASE disk' = [disk EXCEPT ![blks[r][k][i]] = r]
    <3>0. /\ disk'[blks[r][k][i]] = r
          /\ \A x \in Requests, y \in Attempts, j \in Replicas :
                y <= att[x] /\ ~(x = r /\ y = k /\ j = i) =>
                    disk'[blks[x][y][j]] = disk[blks[x][y][j]]
          /\ \A b \in Block : b[2] >= next[b[1]] => disk'[b] = disk[b]
      BY Zenon, <2>1, <2>4, DiskUpdate DEF Content
    <3>1. ASSUME NEW x \in Requests, NEW y \in Attempts, NEW j \in Replicas, y <= att[x]
          PROVE  BlockOK(x, y, j)'
      <4>1. BlockOK(x, y, j)
        BY Zenon, <3>1 DEF DiskInv
      <4>2. /\ disk'[blks[r][k][i]] = r
            /\ ~(x = r /\ y = k /\ j = i) => disk'[blks[x][y][j]] = disk[blks[x][y][j]]
        BY <3>0, <3>1
      <4>3. UNCHANGED <<blks, op>>
        BY Zenon, <1>5
      <4>4. CASE x = r /\ y = k /\ j = i
        BY Zenon, <2>1, <4>2, <4>3, <4>4 DEF BlockOK
      <4>5. CASE ~(x = r /\ y = k /\ j = i)
        BY Zenon, <2>2, <4>1, <4>2, <4>3, <4>5 DEF BlockOK
      <4> QED
        BY Zenon, <4>4, <4>5
    <3> QED
      BY Zenon, <1>5, <3>0, <3>1 DEF DiskInv
  <2> QED
    BY Zenon, <1>5, <2>3, <2>4
<1>6. ASSUME NEW r \in Requests, NEW k \in Attempts, NEW i \in Replicas,
             RejectWrite(r, k, i) \/ FailWrite(r, k, i)
      PROVE  DiskInv'
  <2>1. \E v \in RepStates : v # "ok" /\ rep' = [rep EXCEPT ![r][k][i] = v]
    BY Zenon, <1>6 DEF RejectWrite, FailWrite, HandleRefusal, RepStates
  <2> QED
    BY Zenon, <1>5, <1>6, <2>1 DEF RejectWrite, FailWrite
<1>7. ASSUME NEW r \in Requests, NEW k \in Attempts, NEW i \in Replicas,
             CompleteWrite(r, k, i)
      PROVE  DiskInv'
  <2>1. "ok" \in RepStates
    BY Zenon DEF RepStates
  <2> QED
    BY Zenon, <1>5, <1>7, <2>1 DEF CompleteWrite
<1>8. ASSUME NEW r \in Requests, NEW k \in Attempts, NEW i \in Replicas,
             HandleDiscardBlocks(r, k, i)
      PROVE  DiskInv'
  <2>1. /\ gcWork[r][k][i] > 0 /\ UNCHANGED <<blks, next, att, op, rep>>
        /\ disk' = [disk EXCEPT ![blks[r][k][i]] = Trimmed]
    BY Zenon, <1>8 DEF HandleDiscardBlocks
  <2>2. op[r] = "write" /\ Published(r, k)
    BY Zenon, <2>1 DEF DiscardInv, Doomed, Replaced
  <2>3. k <= att[r]
    BY <2>2 DEF Published, Attempts, TypeOK
  <2>5. /\ disk'[blks[r][k][i]] = Trimmed
        /\ \A x \in Requests, y \in Attempts, j \in Replicas :
              y <= att[x] /\ ~(x = r /\ y = k /\ j = i) =>
                  disk'[blks[x][y][j]] = disk[blks[x][y][j]]
        /\ \A b \in Block : b[2] >= next[b[1]] => disk'[b] = disk[b]
    BY Zenon, <2>1, <2>3, DiskUpdate DEF Content
  <2>4. ASSUME NEW x \in Requests, NEW y \in Attempts, NEW j \in Replicas, y <= att[x]
        PROVE  BlockOK(x, y, j)'
    <3>1. BlockOK(x, y, j)
      BY Zenon, <2>4 DEF DiskInv
    <3>2. /\ disk'[blks[r][k][i]] = Trimmed
          /\ ~(x = r /\ y = k /\ j = i) => disk'[blks[x][y][j]] = disk[blks[x][y][j]]
      BY <2>4, <2>5
    <3>3. UNCHANGED <<blks, op, rep>>
      BY Zenon, <2>1
    <3>4. CASE x = r /\ y = k /\ j = i
      BY Zenon, <2>2, <3>2, <3>3, <3>4 DEF BlockOK
    <3>5. CASE ~(x = r /\ y = k /\ j = i)
      BY ZenonT(30), <3>1, <3>2, <3>3, <3>5 DEF BlockOK
    <3> QED
      BY Zenon, <3>4, <3>5
  <2> QED
    BY Zenon, <2>1, <2>4, <2>5 DEF DiskInv
<1>9. ASSUME NEW r \in Requests, NEW s \in Sectors, StartRead(r, s) PROVE DiskInv'
  <2>1. att[r] = 0
    BY Zenon, <1>9 DEF StartRead, TypeOK, OpTypes, PcInv
  <2>2. /\ UNCHANGED <<blks, next, att, disk, rep>>
        /\ \A x \in Requests : x # r => op[x]' = op[x]
    BY Zenon, <1>9 DEF StartRead, TypeOK
  <2>3. ASSUME NEW x \in Requests, NEW y \in Attempts, NEW j \in Replicas, y <= att[x]
        PROVE  BlockOK(x, y, j)'
    <3>1. x # r
      BY <2>1, <2>3 DEF Attempts
    <3>2. BlockOK(x, y, j)
      BY Zenon, <2>3 DEF DiskInv
    <3> QED
      BY Zenon, <2>2, <3>1, <3>2 DEF BlockOK
  <2> QED
    BY Zenon, <2>2, <2>3 DEF DiskInv
<1>10. ASSUME NEW r \in Requests,
             \/ DiscardExistingBlocks(r) \/ JoinWrite(r)
             \/ ResolveBlock(r) \/ NoReadServer(r)
      PROVE  DiskInv'
  BY Zenon, <1>3, <1>10 DEF DiscardExistingBlocks, JoinWrite, ResolveBlock, NoReadServer
<1>11. ASSUME NEW r \in Requests, NEW s, ReadFrom(r, s) \/ ReadRefused(r, s)
      PROVE  DiskInv'
  BY ZenonT(30), <1>3, <1>11 DEF ReadFrom, ReadRefused
<1>12. CASE RunGarbageCollector \/ UNCHANGED vars
  BY Zenon, <1>3, <1>12 DEF RunGarbageCollector, vars
<1> QED
  BY Zenon, <1>1, <1>2, <1>4, <1>6, <1>7, <1>8, <1>9, <1>10, <1>11, <1>12, NextCases

-----------------------------------------------------------------------------
(* What a step other than AddMapping does to a write or an allocation that  *)
(* has started: nothing, or one step forward.                               *)
MutatorStep(x) ==
    /\ op'[x] = op[x] /\ sector'[x] = sector[x]
    /\ \/ /\ att'[x] = att[x]
          /\ \/ pc'[x] = pc[x]
             \/ pc[x] = "discard" /\ pc'[x] = "publish"
             \/ pc[x] = "write" /\ pc'[x] \in {"retry", "done"}
       \/ /\ pc[x] = "retry" /\ pc'[x] = "discard"
          /\ att'[x] = att[x] + 1

MutatorsStep ==
    /\ UNCHANGED blkMap
    /\ \A x \in Requests : op[x] \in Mutators => MutatorStep(x)

(* A step that is no AddMapping leaves the map alone and moves a mutator   *)
(* on as MutatorStep says.                                                 *)
LEMMA MutatorsProgress ==
  ASSUME IInv, [Next]_vars
  PROVE  MutatorsStep \/ \E r \in Requests : AddMapping(r)
<1>0. TypeOK /\ PcInv /\ RepInv
  BY Zenon DEF IInv
<1> USE <1>0 DEF reqVars, readVars
<1>1. ASSUME NEW r \in Requests, NEW s \in Sectors, NEW o \in Mutators,
             StartMutation(r, s, o)
      PROVE  MutatorsStep
  <2>1. op[r] \notin Mutators
    BY Zenon, <1>1 DEF StartMutation, PcInv, Mutators
  <2> QED
    BY Zenon, <1>1, <2>1 DEF StartMutation, MutatorsStep, MutatorStep, TypeOK
<1>2. ASSUME NEW r \in Requests, DiscardExistingBlocks(r) PROVE MutatorsStep
  BY Zenon, <1>2 DEF DiscardExistingBlocks, MutatorsStep, MutatorStep, TypeOK
<1>3. ASSUME NEW r \in Requests, NEW k \in Attempts, NEW i \in Replicas,
             RejectWrite(r, k, i) \/ FailWrite(r, k, i)
      PROVE  MutatorsStep
  <2>1. /\ rep[r][k][i] = "sent" /\ HandleRefusal(r, k, i)
        /\ UNCHANGED <<op, sector, att, blkMap>>
    BY Zenon, <1>3 DEF RejectWrite, FailWrite
  <2>2. CASE \E j \in Replicas : rep[r][k][j] = "retrying"
    BY Zenon, <2>1, <2>2 DEF HandleRefusal, MutatorsStep, MutatorStep
  <2>3. CASE ~ \E j \in Replicas : rep[r][k][j] = "retrying"
    <3>1. pc[r] = "write"
      BY <2>1, <2>3, FirstRefusal
    <3>2. pc' = [pc EXCEPT ![r] = "retry"]
      BY Zenon, <2>1, <2>3 DEF HandleRefusal
    <3> QED
      BY Zenon, <2>1, <3>1, <3>2 DEF TypeOK, MutatorsStep, MutatorStep
  <2> QED
    BY Zenon, <2>2, <2>3
<1>4. ASSUME NEW r \in Requests, RetryWrite(r) PROVE MutatorsStep
  BY Zenon, <1>4 DEF RetryWrite, MutatorsStep, MutatorStep, TypeOK
<1>5. ASSUME NEW r \in Requests, JoinWrite(r) PROVE MutatorsStep
  BY Zenon, <1>5 DEF JoinWrite, MutatorsStep, MutatorStep, TypeOK
<1>6. ASSUME NEW r \in Requests, NEW s \in Sectors, StartRead(r, s) PROVE MutatorsStep
  <2>1. op[r] \notin Mutators
    BY Zenon, <1>6 DEF StartRead, PcInv, Mutators
  <2> QED
    BY Zenon, <1>6, <2>1 DEF StartRead, MutatorsStep, MutatorStep, TypeOK
<1>7. ASSUME NEW r \in Requests, ResolveBlock(r) \/ NoReadServer(r) PROVE MutatorsStep
  <2>1. op[r] \notin Mutators
    BY Zenon, <1>7 DEF ResolveBlock, NoReadServer, PcInv, Mutators
  <2> QED
    BY Zenon, <1>7, <2>1 DEF ResolveBlock, NoReadServer, MutatorsStep, MutatorStep, TypeOK
<1>8. ASSUME NEW r \in Requests, NEW s \in Servers, ReadFrom(r, s) PROVE MutatorsStep
  <2>1. op[r] \notin Mutators
    BY Zenon, <1>8 DEF ReadFrom, PcInv, Mutators
  <2> QED
    BY Zenon, <1>8, <2>1 DEF ReadFrom, MutatorsStep, MutatorStep, TypeOK
<1>9. ASSUME UNCHANGED <<op, sector, pc, att, blkMap>> PROVE MutatorsStep
  BY Zenon, <1>9 DEF MutatorsStep, MutatorStep
<1>10. ASSUME NEW r \in Requests, NEW k \in Attempts, NEW i \in Replicas,
              CompleteWrite(r, k, i) \/ HandleDiscardBlocks(r, k, i)
       PROVE  MutatorsStep
  BY Zenon, <1>9, <1>10 DEF CompleteWrite, HandleDiscardBlocks
<1>11. ASSUME NEW r \in Requests, NEW s \in Servers, ReadRefused(r, s) PROVE MutatorsStep
  BY Zenon, <1>9, <1>11 DEF ReadRefused
<1>12. CASE RunGarbageCollector \/ UNCHANGED vars
  BY Zenon, <1>9, <1>12 DEF RunGarbageCollector, vars
<1> QED
  BY Zenon, <1>1, <1>2, <1>3, <1>4, <1>5, <1>6, <1>7, <1>8, <1>10, <1>11, <1>12, NextCases

(* Every step keeps a mapping the last one its request has published. *)
LEMMA MapNext == IInv /\ [Next]_vars => MapInv'
<1> SUFFICES ASSUME IInv, [Next]_vars, NEW s \in Sectors, blkMap'[s] # Unmapped
             PROVE  MapOK(blkMap[s], s)'
  BY Zenon DEF MapInv
<1>0. TypeOK /\ PcInv /\ MapInv
  BY Zenon DEF IInv
<1>1. CASE MutatorsStep
  <2>1. blkMap'[s] = blkMap[s] /\ blkMap[s] # Unmapped
    BY Zenon, <1>1 DEF MutatorsStep
  <2>2. PICK m : m = blkMap[s] /\ m.req \in Requests /\ m.att \in Attempts /\ MapOK(m, s)
    BY Zenon, <1>0, <2>1, CurrentMapping DEF MapInv
  <2>3. MutatorStep(m.req) /\ att[m.req] \in Nat /\ m.att \in Nat
    BY SMTT(30), <1>0, <1>1, <2>2 DEF MapOK, TypeOK, Attempts, MutatorsStep
  <2>4. MapOK(m, s)'
    BY <2>2, <2>3 DEF MapOK, MutatorStep, Published
  <2> QED
    BY Zenon, <2>1, <2>2, <2>4 DEF MapOK, Published
<1>2. ASSUME NEW r \in Requests, AddMapping(r) PROVE MapOK(blkMap[s], s)'
  <2>1. /\ UNCHANGED <<op, sector, att>>
        /\ blkMap' = [blkMap EXCEPT ![sector[r]] = [req |-> r, att |-> att[r]]]
        /\ pc[r] = "publish" /\ op[r] \in Mutators
        /\ \/ pc' = [pc EXCEPT ![r] = "write"]
           \/ pc' = [pc EXCEPT ![r] = "done"]
    BY Zenon, <1>2 DEF AddMapping, reqVars, Mutators
  <2>2. \A x \in Requests : /\ x # r => pc'[x] = pc[x]
                            /\ pc'[r] \in {"write", "done"}
    BY Zenon, <1>0, <2>1 DEF TypeOK
  <2>3. CASE s = sector[r]
    <3>1. blkMap'[s] = [req |-> r, att |-> att[r]] /\ att[r] \in Nat
      BY <1>0, <2>1, <2>3 DEF TypeOK
    <3>2. PICK m : m = blkMap'[s] /\ m.req = r /\ m.att = att[r]
      BY SMTT(30), <3>1
    <3>3. MapOK(m, s)'
      BY SMTT(30), <2>1, <2>2, <2>3, <3>1, <3>2 DEF MapOK, Published
    <3> QED
      BY Zenon, <3>2, <3>3 DEF MapOK, Published
  <2>4. CASE s # sector[r]
    <3>1. blkMap'[s] = blkMap[s] /\ blkMap[s] # Unmapped
      BY Zenon, <1>0, <2>1, <2>4 DEF TypeOK
    <3>2. PICK m : m = blkMap[s] /\ m.req \in Requests /\ m.att \in Attempts /\ MapOK(m, s)
      BY Zenon, <1>0, <3>1, CurrentMapping DEF MapInv
    <3>3. m.req # r
      BY Zenon, <2>4, <3>2 DEF MapOK
    <3>4. MapOK(m, s)'
      <4>1. op' = op /\ sector' = sector /\ att' = att /\ pc'[m.req] = pc[m.req]
        BY ZenonT(60), <2>1, <2>2, <3>2, <3>3
      <4> QED
        BY Zenon, <3>2, <4>1 DEF MapOK, Published
    <3> QED
      BY Zenon, <3>1, <3>2, <3>4 DEF MapOK, Published
  <2> QED
    BY Zenon, <2>3, <2>4
<1> QED
  BY Zenon, <1>1, <1>2, MutatorsProgress

(* A list that was handed out is never changed, and stays handed out. *)
LEMMA ListsStable ==
  ASSUME IInv, [Next]_vars
  PROVE  \A a \in Requests, b \in Attempts :
             b <= att[a] => b <= att'[a] /\ blks'[a][b] = blks[a][b]
<1> DEFINE P == \A a \in Requests, b \in Attempts :
                    b <= att[a] => b <= att'[a] /\ blks'[a][b] = blks[a][b]
<1>0. TypeOK /\ PcInv
  BY Zenon DEF IInv
<1> USE <1>0
<1>1. ASSUME NEW r \in Requests, NEW k \in Attempts, GetBlocks(r, k),
             k = att[r] + 1, att' = [att EXCEPT ![r] = k]
      PROVE  P
  <2> SUFFICES ASSUME NEW a \in Requests, NEW b \in Attempts, b <= att[a]
               PROVE  b <= att'[a] /\ blks'[a][b] = blks[a][b]
    BY Zenon
  <2>1. att[a] \in Nat /\ b \in Nat /\ att'[a] = IF a = r THEN k ELSE att[a]
    BY <1>1 DEF TypeOK, Attempts
  <2>2. b <= att'[a] /\ ~(a = r /\ b = k)
    BY <1>1, <2>1
  <2>3. \A c \in Requests, d \in Attempts : ~(c = r /\ d = k) => blks'[c][d] = blks[c][d]
    BY Zenon, <1>1, GetBlocksFresh
  <2> QED
    BY Zenon, <2>2, <2>3
<1>2. ASSUME NEW r \in Requests, NEW s \in Sectors, NEW o \in Mutators,
             StartMutation(r, s, o)
      PROVE  P
  <2>1. att[r] = 0
    BY Zenon, <1>2 DEF StartMutation, TypeOK, OpTypes, PcInv
  <2>2. 1 \in Attempts /\ 1 = att[r] + 1
    BY <2>1 DEF Attempts
  <2>3. GetBlocks(r, 1) /\ att' = [att EXCEPT ![r] = 1]
    BY Zenon, <1>2 DEF StartMutation
  <2> QED
    BY Zenon, <1>1, <2>2, <2>3
<1>3. ASSUME NEW r \in Requests, RetryWrite(r) PROVE P
  <2>1. att[r] + 1 \in Attempts
    BY <1>3 DEF RetryWrite, PcInv, TypeOK, Attempts
  <2>2. GetBlocks(r, att[r] + 1) /\ att' = [att EXCEPT ![r] = att[r] + 1]
    BY Zenon, <1>3 DEF RetryWrite
  <2> QED
    BY Zenon, <1>1, <2>1, <2>2
<1>4. ASSUME UNCHANGED <<blks, att>> PROVE P
  BY Zenon, <1>4
<1>5. \/ UNCHANGED <<blks, att>>
      \/ \E r \in Requests, s \in Sectors, o \in Mutators : StartMutation(r, s, o)
      \/ \E r \in Requests : RetryWrite(r)
  BY Zenon, NextCases DEF DiscardExistingBlocks, AddMapping, JoinWrite, ResolveBlock, NoReadServer,
     StartRead, ReadFrom, ReadRefused, RejectWrite, CompleteWrite, FailWrite,
     HandleDiscardBlocks, RunGarbageCollector, vars
<1> QED
  BY Zenon, <1>2, <1>3, <1>4, <1>5

(* A list waits for its trim until some request replaces it. *)
LEMMA DiscardFrame ==
  ASSUME TypeOK, DiscardInv, MutatorsStep,
         \A a \in Requests, b \in Attempts : Doomed(a, b)' => Doomed(a, b)
  PROVE  DiscardInv'
<1> SUFFICES ASSUME NEW a \in Requests, NEW b \in Attempts, Doomed(a, b)
             PROVE  Replaced(a, b)'
  BY Zenon DEF DiscardInv
<1>1. Replaced(a, b) /\ b \in Nat /\ att[a] \in Nat
  BY SMTT(30) DEF DiscardInv, Attempts, TypeOK
<1>2. MutatorStep(a) /\ UNCHANGED blkMap
  BY Zenon, <1>1 DEF MutatorsStep, Replaced, Mutators
<1>3. op'[a] = "write" /\ sector'[a] = sector[a] /\ Published(a, b)'
  BY <1>1, <1>2 DEF Replaced, MutatorStep, Published
<1>4. ASSUME NEW x \in Requests, Writing(x, sector[a]), pc[x] = "publish"
      PROVE  Writing(x, sector[a])' /\ pc'[x] = "publish"
  <2>1. MutatorStep(x)
    BY Zenon, <1>4 DEF MutatorsStep, Writing
  <2> QED
    BY Zenon, <1>3, <1>4, <2>1 DEF MutatorStep, Writing, Active
<1> QED
  BY Zenon, <1>1, <1>2, <1>3, <1>4 DEF Replaced

(* Every step keeps trims away from mappings nobody is replacing. *)
LEMMA DiscardNext == IInv /\ [Next]_vars => DiscardInv'
<1> SUFFICES ASSUME IInv, [Next]_vars PROVE DiscardInv'
  BY Zenon
<1>0. TypeOK /\ PcInv /\ RepInv /\ BlockInv /\ DiskInv /\ DiscardInv /\ MapInv
  BY Zenon DEF IInv
<1> USE <1>0 DEF reqVars, readVars
<1>1. ASSUME NEW r \in Requests, AddMapping(r) PROVE DiscardInv'
  <2> SUFFICES ASSUME NEW a \in Requests, NEW b \in Attempts, Doomed(a, b)'
               PROVE  Replaced(a, b)'
    BY Zenon DEF DiscardInv
  <2>1. /\ UNCHANGED <<op, sector, att, blks, discards, gcWork, disk>>
        /\ blkMap' = [blkMap EXCEPT ![sector[r]] = [req |-> r, att |-> att[r]]]
        /\ pc[r] = "publish"
        /\ \/ pc' = [pc EXCEPT ![r] = "write"]
           \/ pc' = [pc EXCEPT ![r] = "done"]
    BY Zenon, <1>1 DEF AddMapping
  <2>2. Doomed(a, b)
    BY Zenon, <2>1 DEF Doomed
  <2>3. Replaced(a, b) /\ b \in Nat /\ att[a] \in Nat
    BY SMTT(30), <2>2 DEF DiscardInv, Attempts, TypeOK
  <2>4. \A x \in Requests : /\ x # r => pc'[x] = pc[x]
                            /\ pc'[r] \in {"write", "done"}
    BY Zenon, <2>1 DEF TypeOK
  <2>5. op'[a] = "write" /\ Published(a, b)'
    BY Zenon, <2>1, <2>3, <2>4 DEF Replaced, Published
  <2>6. ~(a = r /\ b = att[r])
    BY <2>1, <2>3 DEF Replaced, Published
  <2>7. CASE sector[a] = sector[r]
    <3>1. blkMap'[sector'[a]] = [req |-> r, att |-> att[r]]
      BY Zenon, <2>1, <2>7 DEF TypeOK
    <3>2. blkMap'[sector'[a]] # [req |-> a, att |-> b]
      BY <2>6, <3>1
    <3> QED
      BY Zenon, <2>5, <3>2 DEF Replaced
  <2>8. CASE sector[a] # sector[r]
    <3>1. blkMap'[sector'[a]] = blkMap[sector[a]]
      BY Zenon, <2>1, <2>8 DEF TypeOK
    <3>2. ASSUME NEW x \in Requests, Writing(x, sector[a]), pc[x] = "publish"
          PROVE  Writing(x, sector[a])' /\ pc'[x] = "publish"
      <4>1. x # r
        BY Zenon, <2>8, <3>2 DEF Writing
      <4> QED
        BY Zenon, <2>1, <2>4, <3>2, <4>1 DEF Writing, Active
    <3> QED
      BY Zenon, <2>3, <2>5, <3>1, <3>2 DEF Replaced
  <2> QED
    BY Zenon, <2>7, <2>8
<1>2. ASSUME NEW r \in Requests, DiscardExistingBlocks(r) PROVE DiscardInv'
  <2> DEFINE m == blkMap[sector[r]]
  <2>1. /\ pc[r] = "discard" /\ pc' = [pc EXCEPT ![r] = "publish"]
        /\ UNCHANGED <<op, sector, att, blks, blkMap, gcWork, disk>>
        /\ discards' = IF m # Unmapped /\ op[m.req] = "write"
                       THEN [discards EXCEPT ![m.req][m.att] = @ + 1]
                       ELSE discards
    BY Zenon, <1>2 DEF DiscardExistingBlocks
  <2>2. MutatorsStep
    <3>1. ~ \E x \in Requests : AddMapping(x)
      BY Zenon, <2>1 DEF AddMapping, TypeOK
    <3> QED
      BY Zenon, <3>1, MutatorsProgress
  <2>3. CASE ~(m # Unmapped /\ op[m.req] = "write")
    <3>1. \A a \in Requests, b \in Attempts : Doomed(a, b)' => Doomed(a, b)
      BY Zenon, <2>1, <2>3 DEF Doomed
    <3> QED
      BY Zenon, <2>2, <3>1, DiscardFrame
  <2>4. CASE m # Unmapped /\ op[m.req] = "write"
    <3>1. /\ m.req \in Requests /\ m.att \in Attempts /\ m = [req |-> m.req, att |-> m.att]
          /\ sector[m.req] = sector[r] /\ Published(m.req, m.att)
      <4>1. sector[r] \in Sectors
        BY Zenon DEF TypeOK
      <4> QED
        BY Zenon, <2>4, <4>1, CurrentMapping, MappedType
    <3>2. \A a \in Requests, b \in Attempts :
              ~(a = m.req /\ b = m.att) => discards'[a][b] = discards[a][b]
      BY Zenon, <2>1, <2>4, <3>1 DEF TypeOK
    <3> HIDE DEF m
    <3> SUFFICES ASSUME NEW a \in Requests, NEW b \in Attempts, Doomed(a, b)'
                 PROVE  Replaced(a, b)'
      BY Zenon DEF DiscardInv
    <3>3. /\ Published(a, b) => Published(a, b)'
          /\ pc'[r] = "publish"
          /\ \A x \in Requests : pc[x] = "publish" => pc'[x] = "publish"
      BY Zenon, <2>1 DEF Published, TypeOK
    <3>4. CASE a = m.req /\ b = m.att
      <4>1. Published(a, b)' /\ op'[a] = "write"
        BY Zenon, <2>1, <2>4, <3>1, <3>3, <3>4
      <4>2. op[r] \in Mutators
        BY Zenon, <2>1 DEF PcInv, TypeOK, OpTypes, Mutators
      <4>3. Writing(r, sector[a])'
        BY Zenon, <2>1, <3>1, <3>3, <3>4, <4>2 DEF Writing, Active
      <4> QED
        BY Zenon, <3>3, <4>1, <4>3 DEF Replaced
    <3>5. CASE ~(a = m.req /\ b = m.att)
      <4>1. Doomed(a, b)
        BY Zenon, <2>1, <3>2, <3>5 DEF Doomed
      <4>2. Replaced(a, b)
        BY Zenon, <4>1 DEF DiscardInv
      <4>3. ASSUME NEW x \in Requests, Writing(x, sector[a]), pc[x] = "publish"
            PROVE  Writing(x, sector[a])' /\ pc'[x] = "publish"
        BY Zenon, <2>1, <3>3, <4>3 DEF Writing, Active
      <4> QED
        BY Zenon, <2>1, <3>3, <4>2, <4>3 DEF Replaced
    <3> QED
      BY Zenon, <3>4, <3>5
  <2> QED
    BY Zenon, <2>3, <2>4
<1>3. ASSUME NEW r \in Requests, NEW k \in Attempts,
             GetBlocks(r, k), k = att[r] + 1, att' = [att EXCEPT ![r] = k],
             UNCHANGED <<discards, gcWork, disk>>
      PROVE  \A a \in Requests, b \in Attempts : Doomed(a, b)' => Doomed(a, b)
  <2> SUFFICES ASSUME NEW a \in Requests, NEW b \in Attempts, Doomed(a, b)'
               PROVE  Doomed(a, b)
    BY Zenon
  <2>1. att[a] \in Nat /\ b \in Nat /\ att'[a] = IF a = r THEN k ELSE att[a]
    BY SMTT(30), <1>3 DEF TypeOK, Attempts
  <2>2. CASE a = r /\ b = k
    <3>1. \A i \in Replicas : disk'[blks'[a][b][i]] # Trimmed
      BY Zenon, <1>3, <2>2, GetBlocksNew DEF DiskInv
    <3> QED
      BY Zenon, <1>3, <3>1 DEF Doomed
  <2>3. CASE ~(a = r /\ b = k)
    <3>1. blks'[a][b] = blks[a][b]
      BY <1>3, <2>3, GetBlocksKeeps
    <3>2. b <= att'[a] => b <= att[a]
      BY <1>3, <2>1, <2>3
    <3>3. discards' = discards /\ gcWork' = gcWork /\ disk' = disk
      BY Zenon, <1>3
    <3> QED
      BY Zenon, <3>1, <3>2, <3>3 DEF Doomed
  <2> QED
    BY Zenon, <2>2, <2>3
<1>4. ASSUME NEW r \in Requests, NEW s \in Sectors, NEW o \in Mutators,
             StartMutation(r, s, o)
      PROVE  \A a \in Requests, b \in Attempts : Doomed(a, b)' => Doomed(a, b)
  <2>1. att[r] = 0
    BY Zenon, <1>4 DEF StartMutation, TypeOK, OpTypes, PcInv
  <2>2. 1 \in Attempts /\ 1 = att[r] + 1
    BY <2>1 DEF Attempts
  <2>3. /\ GetBlocks(r, 1) /\ att' = [att EXCEPT ![r] = 1]
        /\ UNCHANGED <<discards, gcWork, disk>>
    BY Zenon, <1>4 DEF StartMutation
  <2> QED
    BY Zenon, <1>3, <2>2, <2>3
<1>5. ASSUME NEW r \in Requests, RetryWrite(r)
      PROVE  \A a \in Requests, b \in Attempts : Doomed(a, b)' => Doomed(a, b)
  <2>1. att[r] + 1 \in Attempts
    BY <1>5 DEF RetryWrite, PcInv, TypeOK, Attempts
  <2>2. /\ GetBlocks(r, att[r] + 1) /\ att' = [att EXCEPT ![r] = att[r] + 1]
        /\ UNCHANGED <<discards, gcWork, disk>>
    BY Zenon, <1>5 DEF RetryWrite
  <2> QED
    BY Zenon, <1>3, <2>1, <2>2
<1>6. ASSUME NEW r \in Requests, NEW k \in Attempts, NEW i \in Replicas,
             rep[r][k][i] = "sent",
             disk' = [disk EXCEPT ![blks[r][k][i]] = r],
             UNCHANGED <<blks, att, discards, gcWork>>
      PROVE  \A a \in Requests, b \in Attempts : Doomed(a, b)' => Doomed(a, b)
  <2>1. k <= att[r] /\ r \in Content /\ r # Trimmed
    BY Zenon, <1>6, FirstRefusal DEF Content, Requests
  <2>2. /\ disk'[blks[r][k][i]] = r
        /\ \A x \in Requests, y \in Attempts, j \in Replicas :
              y <= att[x] /\ ~(x = r /\ y = k /\ j = i) =>
                  disk'[blks[x][y][j]] = disk[blks[x][y][j]]
        /\ \A b \in Block : b[2] >= next[b[1]] => disk'[b] = disk[b]
    BY Zenon, <1>6, <2>1, DiskUpdate
  <2> SUFFICES ASSUME NEW a \in Requests, NEW b \in Attempts, Doomed(a, b)'
               PROVE  Doomed(a, b)
    BY Zenon
  <2>3. ASSUME NEW j \in Replicas, b <= att[a], disk'[blks[a][b][j]] = Trimmed
        PROVE  disk[blks[a][b][j]] = Trimmed
    BY <2>1, <2>2, <2>3
  <2> QED
    BY Zenon, <1>6, <2>3 DEF Doomed
<1>7. ASSUME NEW r \in Requests, NEW k \in Attempts, NEW i \in Replicas,
             HandleDiscardBlocks(r, k, i)
      PROVE  \A a \in Requests, b \in Attempts : Doomed(a, b)' => Doomed(a, b)
  <2>1. /\ gcWork[r][k][i] > 0 /\ UNCHANGED <<blks, att, discards>>
        /\ gcWork' = [gcWork EXCEPT ![r][k][i] = gcWork[r][k][i] - 1]
        /\ disk' = [disk EXCEPT ![blks[r][k][i]] = Trimmed]
    BY Zenon, <1>7 DEF HandleDiscardBlocks
  <2>2. Doomed(r, k)
    BY Zenon, <2>1 DEF Doomed
  <2>3. k <= att[r] /\ Trimmed \in Content
    <3>1. Replaced(r, k)
      BY Zenon, <2>2 DEF DiscardInv
    <3>2. k \in Nat /\ att[r] \in Nat
      BY DEF Attempts, TypeOK
    <3> QED
      BY SMTT(30), <3>1, <3>2 DEF Replaced, Published, Content
  <2>4. /\ disk'[blks[r][k][i]] = Trimmed
        /\ \A x \in Requests, y \in Attempts, j \in Replicas :
              y <= att[x] /\ ~(x = r /\ y = k /\ j = i) =>
                  disk'[blks[x][y][j]] = disk[blks[x][y][j]]
        /\ \A b \in Block : b[2] >= next[b[1]] => disk'[b] = disk[b]
    BY Zenon, <2>1, <2>3, DiskUpdate
  <2>5. gcWork[r][k][i] - 1 \in Nat
    <3>1. gcWork[r][k][i] \in Nat
      BY DEF TypeOK
    <3> QED
      BY <2>1, <3>1
  <2>6. \A a \in Requests, b \in Attempts, c \in Replicas :
            gcWork'[a][b][c] = IF a = r /\ b = k /\ c = i THEN gcWork[r][k][i] - 1
                                                          ELSE gcWork[a][b][c]
    BY <2>1, <2>5, GcUpdate
  <2> SUFFICES ASSUME NEW a \in Requests, NEW b \in Attempts, ~(a = r /\ b = k), Doomed(a, b)'
               PROVE  Doomed(a, b)
    BY Zenon, <2>2
  <2>7. \A c \in Replicas : gcWork'[a][b][c] = gcWork[a][b][c]
    BY SMTT(30), <2>6
  <2>8. b <= att[a] => \A c \in Replicas : disk'[blks[a][b][c]] = disk[blks[a][b][c]]
    BY <2>4
  <2>9. blks' = blks /\ att' = att /\ discards' = discards
    BY Zenon, <2>1
  <2> QED
    BY Zenon, <2>7, <2>8, <2>9 DEF Doomed
<1>8. ASSUME RunGarbageCollector
      PROVE  \A a \in Requests, b \in Attempts : Doomed(a, b)' => Doomed(a, b)
  <2> SUFFICES ASSUME NEW a \in Requests, NEW b \in Attempts, Doomed(a, b)'
               PROVE  Doomed(a, b)
    BY Zenon
  <2>1. /\ discards'[a][b] = 0
        /\ \A c \in Replicas : gcWork'[a][b][c] = discards[a][b]
    BY Zenon, <1>8 DEF RunGarbageCollector
  <2>2. blks' = blks /\ att' = att /\ disk' = disk
    BY Zenon, <1>8 DEF RunGarbageCollector
  <2>3. ~(discards'[a][b] > 0)
    BY SMTT(30), <2>1
  <2> QED
    BY Zenon, <2>1, <2>2, <2>3 DEF Doomed
<1>9. ASSUME UNCHANGED <<blks, att, discards, gcWork, disk>>
      PROVE  \A a \in Requests, b \in Attempts : Doomed(a, b)' => Doomed(a, b)
  BY Zenon, <1>9 DEF Doomed
<1>10. ASSUME NEW r \in Requests, NEW k \in Attempts, NEW i \in Replicas,
              RejectWrite(r, k, i) \/ CompleteWrite(r, k, i) \/ FailWrite(r, k, i)
       PROVE  \A a \in Requests, b \in Attempts : Doomed(a, b)' => Doomed(a, b)
  BY Zenon, <1>6, <1>9, <1>10 DEF RejectWrite, CompleteWrite, FailWrite
<1>11. ASSUME NEW r \in Requests, JoinWrite(r) \/ ResolveBlock(r) \/ NoReadServer(r)
       PROVE  \A a \in Requests, b \in Attempts : Doomed(a, b)' => Doomed(a, b)
  BY ZenonT(30), <1>9, <1>11 DEF JoinWrite, ResolveBlock, NoReadServer
<1>12. ASSUME NEW r \in Requests, NEW s, StartRead(r, s) \/ ReadFrom(r, s) \/ ReadRefused(r, s)
       PROVE  \A a \in Requests, b \in Attempts : Doomed(a, b)' => Doomed(a, b)
  BY Zenon, <1>9, <1>12 DEF StartRead, ReadFrom, ReadRefused
<1>13. ASSUME UNCHANGED vars
       PROVE  \A a \in Requests, b \in Attempts : Doomed(a, b)' => Doomed(a, b)
  BY Zenon, <1>9, <1>13 DEF vars
<1>14. \/ \E r \in Requests : AddMapping(r) \/ DiscardExistingBlocks(r)
       \/ \A a \in Requests, b \in Attempts : Doomed(a, b)' => Doomed(a, b)
  BY Zenon, <1>4, <1>5, <1>7, <1>8, <1>10, <1>11, <1>12, <1>13, NextCases
<1> QED
  BY Zenon, <1>1, <1>2, <1>14, MutatorsProgress, DiscardFrame

-----------------------------------------------------------------------------
(* Reads *)

(* A sector without a write in progress stays so until one starts. *)
LEMMA QuiescentStable ==
  ASSUME IInv, MutatorsStep, NEW s \in Sectors, Quiescent(s),
         \A x \in Requests : op[x]' \in Mutators => op[x] \in Mutators
  PROVE  Quiescent(s)'
<1> SUFFICES ASSUME NEW x \in Requests, Writing(x, s)' PROVE FALSE
  BY Zenon DEF Quiescent
<1>1. op[x] \in Mutators
  BY Zenon DEF Writing
<1>2. MutatorStep(x)
  BY Zenon, <1>1 DEF MutatorsStep
<1>3. Writing(x, s)
  BY Zenon, <1>1, <1>2 DEF Writing, Active, MutatorStep
<1> QED
  BY ZenonT(30), <1>3 DEF Quiescent

(* A read that makes no step itself, when no write of its sector starts or *)
(* is published without being counted as an overlap.                       *)
LEMMA ReadFrame ==
  ASSUME IInv, [Next]_vars, NEW x \in Requests,
         op'[x] = op[x], sector'[x] = sector[x], pc'[x] = pc[x],
         snap'[x] = snap[x], cand'[x] = cand[x], x \in overlapped => x \in overlapped',
         op[x] = "read" /\ Active(x) /\ x \notin overlapped' =>
             Quiescent(sector[x])' /\ blkMap'[sector[x]] = blkMap[sector[x]]
  PROVE  ReadOK(x)'
<1>1. TypeOK /\ PcInv /\ ReadOK(x)
  BY Zenon DEF IInv, ReadInv
<1>2. Active(x)' <=> Active(x)
  BY ZenonT(30) DEF Active
<1>3. op[x] = "read" /\ Active(x)' /\ x \notin overlapped' => Quiescent(sector[x])'
  BY Zenon, <1>2
<1>4. ASSUME pc[x] = "select"
      PROVE  /\ snap'[x] # Unmapped
             /\ snap'[x].att <= att'[snap'[x].req]
             /\ cand'[x] \subseteq ServersOf(snap[x])'
             /\ x \notin overlapped' => snap'[x] = blkMap'[sector'[x]]
  <2>1. PICK m : m = snap[x] /\ m # Unmapped /\ m \in Mapping
    BY Zenon, <1>1, <1>4 DEF ReadOK, TypeOK
  <2>2. m.req \in Requests /\ m.att \in Attempts
    BY Zenon, <2>1, MappedType
  <2>3. m.att <= att[m.req]
    BY Zenon, <1>1, <1>4, <2>1 DEF ReadOK
  <2>4. m.att <= att'[m.req] /\ blks'[m.req][m.att] = blks[m.req][m.att]
    BY Zenon, <2>2, <2>3, ListsStable
  <2>5. ServersOf(snap[x])' = ServersOf(snap[x])
    BY ZenonT(30), <2>1, <2>4 DEF ServersOf
  <2>6. cand[x] \subseteq ServersOf(snap[x])
    BY Zenon, <1>1, <1>4 DEF ReadOK
  <2>7. ASSUME x \notin overlapped' PROVE snap'[x] = blkMap'[sector'[x]]
    <3>1. op[x] = "read" /\ Active(x)
      BY Zenon, <1>1, <1>4 DEF PcInv, TypeOK, OpTypes, Active
    <3>2. snap[x] = blkMap[sector[x]]
      BY Zenon, <1>1, <1>4, <2>7 DEF ReadOK
    <3> QED
      BY Zenon, <2>7, <3>1, <3>2
  <2> QED
    BY Zenon, <2>1, <2>4, <2>5, <2>6, <2>7
<1> QED
  BY Zenon, <1>3, <1>4 DEF ReadOK

(* Every step keeps an undisturbed read on the current mapping. *)
LEMMA ReadNext == IInv /\ [Next]_vars => ReadInv'
<1> SUFFICES ASSUME IInv, [Next]_vars, NEW x \in Requests PROVE ReadOK(x)'
  BY Zenon DEF ReadInv
<1>0. TypeOK /\ PcInv /\ MapInv /\ ReadInv /\ ReadOK(x) /\ sector[x] \in Sectors
  BY Zenon DEF IInv, ReadInv, TypeOK
<1> USE <1>0 DEF reqVars, readVars
<1>1. ASSUME NEW r \in Requests, NEW s \in Sectors, NEW o \in Mutators,
             StartMutation(r, s, o)
      PROVE  ReadOK(x)'
  <2>1. /\ pc[r] = "idle" /\ UNCHANGED <<snap, cand, blkMap>>
        /\ op' = [op EXCEPT ![r] = o] /\ sector' = [sector EXCEPT ![r] = s]
        /\ pc' = [pc EXCEPT ![r] = "discard"]
        /\ overlapped' = overlapped \cup {y \in Requests : Reading(y, s)}
    BY Zenon, <1>1 DEF StartMutation
  <2>2. CASE x = r
    BY Zenon, <2>1, <2>2 DEF ReadOK, TypeOK, Mutators
  <2>3. CASE x # r
    <3>1. /\ op'[x] = op[x] /\ sector'[x] = sector[x] /\ pc'[x] = pc[x]
          /\ x \in overlapped' <=> x \in overlapped \/ Reading(x, s)
      BY Zenon, <2>1, <2>3 DEF TypeOK
    <3>2. ASSUME op[x] = "read", Active(x), x \notin overlapped'
          PROVE  Quiescent(sector[x])'
      <4>1. sector[x] # s /\ Quiescent(sector[x])
        BY Zenon, <3>1, <3>2 DEF Reading, ReadOK
      <4>2. ASSUME NEW y \in Requests PROVE ~Writing(y, sector[x])'
        <5>1. CASE y = r
          BY Zenon, <2>1, <3>1, <4>1, <5>1 DEF Writing, TypeOK
        <5>2. CASE y # r
          BY Zenon, <2>1, <3>1, <4>1, <5>2 DEF Writing, Active, Quiescent, TypeOK
        <5> QED
          BY Zenon, <5>1, <5>2
      <4> QED
        BY Zenon, <4>2 DEF Quiescent
    <3> QED
      BY Zenon, <2>1, <3>1, <3>2, ReadFrame
  <2> QED
    BY Zenon, <2>2, <2>3
<1>2. ASSUME NEW r \in Requests, AddMapping(r) PROVE ReadOK(x)'
  <2>1. /\ UNCHANGED <<op, sector, snap, cand, overlapped>>
        /\ blkMap' = [blkMap EXCEPT ![sector[r]] = [req |-> r, att |-> att[r]]]
        /\ pc[r] = "publish" /\ op[r] \in Mutators
        /\ \/ pc' = [pc EXCEPT ![r] = "write"]
           \/ pc' = [pc EXCEPT ![r] = "done"]
    BY Zenon, <1>2 DEF AddMapping, Mutators
  <2>2. CASE x = r
    BY Zenon, <2>1, <2>2 DEF ReadOK, TypeOK, Mutators
  <2>3. CASE x # r
    <3>1. \A y \in Requests : Active(y)' => Active(y)
      BY Zenon, <2>1 DEF Active, TypeOK
    <3>2. pc'[x] = pc[x]
      BY Zenon, <2>1, <2>3 DEF TypeOK
    <3>3. ASSUME op[x] = "read", Active(x), x \notin overlapped'
          PROVE  Quiescent(sector[x])' /\ blkMap'[sector[x]] = blkMap[sector[x]]
      <4>1. Quiescent(sector[x])
        BY Zenon, <2>1, <3>3 DEF ReadOK
      <4>2. sector[r] # sector[x]
        BY Zenon, <2>1, <4>1 DEF Quiescent, Writing, Active
      <4>3. Quiescent(sector[x])'
        BY ZenonT(30), <2>1, <3>1, <4>1 DEF Quiescent, Writing
      <4> QED
        BY Zenon, <2>1, <4>2, <4>3 DEF TypeOK
    <3> QED
      BY Zenon, <2>1, <3>2, <3>3, ReadFrame
  <2> QED
    BY Zenon, <2>2, <2>3
<1>3. ASSUME MutatorsStep, \A y \in Requests : op'[y] \in Mutators => op[y] \in Mutators,
             op'[x] = op[x], sector'[x] = sector[x], pc'[x] = pc[x],
             snap'[x] = snap[x], cand'[x] = cand[x], (x \in overlapped' <=> x \in overlapped)
      PROVE  ReadOK(x)'
  <2>1. ASSUME op[x] = "read", Active(x), x \notin overlapped'
        PROVE  Quiescent(sector[x])' /\ blkMap'[sector[x]] = blkMap[sector[x]]
    <3>1. Quiescent(sector[x])
      BY Zenon, <1>3, <2>1 DEF ReadOK
    <3>2. PICK s \in Sectors : s = sector[x]
      BY Zenon
    <3>3. Quiescent(s)'
      BY Zenon, <1>3, <3>1, <3>2, QuiescentStable
    <3>4. Quiescent(sector[x])'
      <4>1. sector'[x] = s
        BY Zenon, <1>3, <3>2
      <4> QED
        BY ZenonT(30), <3>3, <4>1 DEF Quiescent, Writing
    <3> QED
      BY Zenon, <1>3, <3>4 DEF MutatorsStep
  <2> QED
    BY Zenon, <1>3, <2>1, ReadFrame
<1>4. ASSUME NEW r \in Requests, pc'[r] # "select", op[r] \in Mutators,
             MutatorsStep, UNCHANGED <<op, sector, snap, cand, overlapped>>,
             \A y \in Requests : y # r => pc'[y] = pc[y]
      PROVE  ReadOK(x)'
  <2>1. CASE x = r
    BY Zenon, <1>4, <2>1 DEF ReadOK, Mutators
  <2>2. CASE x # r
    BY Zenon, <1>3, <1>4, <2>2
  <2> QED
    BY Zenon, <2>1, <2>2
<1>5. ASSUME MutatorsStep, \A y \in Requests : op'[y] \in Mutators => op[y] \in Mutators,
             NEW s \in Sectors, Quiescent(s)
      PROVE  Quiescent(s)'
  BY Zenon, <1>5, QuiescentStable
<1>6. CASE MutatorsStep
  <2> USE <1>6
  <2>1. ASSUME NEW r \in Requests, DiscardExistingBlocks(r) \/ RetryWrite(r) \/ JoinWrite(r)
        PROVE  ReadOK(x)'
    <3>1. op[r] \in Mutators /\ pc'[r] # "select" /\ \A y \in Requests : y # r => pc'[y] = pc[y]
      BY ZenonT(60), <2>1 DEF DiscardExistingBlocks, RetryWrite, JoinWrite, PcInv, TypeOK, OpTypes, Mutators
    <3> QED
      BY Zenon, <1>4, <2>1, <3>1 DEF DiscardExistingBlocks, RetryWrite, JoinWrite
  <2>2. ASSUME NEW r \in Requests, NEW k \in Attempts, NEW i \in Replicas,
               RejectWrite(r, k, i) \/ FailWrite(r, k, i)
        PROVE  ReadOK(x)'
    <3>1. /\ rep[r][k][i] = "sent" /\ HandleRefusal(r, k, i)
          /\ UNCHANGED <<op, sector, snap, cand, overlapped>>
      BY Zenon, <2>2 DEF RejectWrite, FailWrite
    <3>2. op[r] = "write" /\ pc[r] # "select"
      BY ZenonT(30), <3>1, FirstRefusal DEF IInv, PcInv
    <3>3. pc'[r] # "select" /\ \A y \in Requests : y # r => pc'[y] = pc[y]
      BY Zenon, <3>1, <3>2 DEF HandleRefusal, TypeOK
    <3> QED
      BY Zenon, <1>4, <3>1, <3>2, <3>3 DEF Mutators
  <2>3. ASSUME NEW r \in Requests, NEW k \in Attempts, NEW i \in Replicas,
               CompleteWrite(r, k, i) \/ HandleDiscardBlocks(r, k, i)
        PROVE  ReadOK(x)'
    BY Zenon, <1>3, <2>3 DEF CompleteWrite, HandleDiscardBlocks
  <2>4. CASE RunGarbageCollector \/ UNCHANGED vars
    BY Zenon, <1>3, <2>4 DEF RunGarbageCollector, vars
  <2>5. ASSUME NEW r \in Requests, NEW s \in Sectors, StartRead(r, s) PROVE ReadOK(x)'
    <3>1. /\ op' = [op EXCEPT ![r] = "read"] /\ sector' = [sector EXCEPT ![r] = s]
          /\ pc' = [pc EXCEPT ![r] = "resolve"]
          /\ overlapped' = IF Quiescent(s) THEN overlapped ELSE overlapped \cup {r}
          /\ UNCHANGED <<snap, cand>>
      BY Zenon, <2>5 DEF StartRead
    <3>2. \A y \in Requests : op'[y] \in Mutators => op[y] \in Mutators
      BY Zenon, <3>1 DEF TypeOK, Mutators
    <3>3. CASE x = r
      <4>1. pc'[x] = "resolve" /\ sector'[x] = s /\ (x \notin overlapped' => Quiescent(s))
        BY Zenon, <3>1, <3>3 DEF TypeOK
      <4>2. Quiescent(s) => Quiescent(s)'
        BY Zenon, <1>5, <3>2
      <4>3. Quiescent(s)' => Quiescent(sector[x])'
        BY Zenon, <4>1 DEF Quiescent, Writing
      <4> QED
        BY Zenon, <4>1, <4>2, <4>3 DEF ReadOK
    <3>4. CASE x # r
      <4>1. /\ op'[x] = op[x] /\ sector'[x] = sector[x] /\ pc'[x] = pc[x]
            /\ (x \in overlapped' <=> x \in overlapped)
        BY Zenon, <3>1, <3>4 DEF TypeOK
      <4> QED
        BY Zenon, <1>3, <3>1, <3>2, <4>1
    <3> QED
      BY Zenon, <3>3, <3>4
  <2>6. ASSUME NEW r \in Requests, x # r, UNCHANGED <<op, sector, overlapped>>,
               \A y \in Requests : y # r => /\ pc'[y] = pc[y] /\ snap'[y] = snap[y]
                                            /\ cand'[y] = cand[y]
        PROVE  ReadOK(x)'
    BY Zenon, <1>3, <2>6
  <2>7. ASSUME UNCHANGED <<op, sector, overlapped>>, op[x] = "read", Active(x), x \notin overlapped
        PROVE  Quiescent(sector[x])'
    <3>1. Quiescent(sector[x])
      BY Zenon, <2>7 DEF ReadOK
    <3>2. PICK s \in Sectors : s = sector[x]
      BY Zenon
    <3>3. Quiescent(s)'
      BY Zenon, <1>5, <2>7, <3>1, <3>2
    <3> QED
      BY Zenon, <2>7, <3>2, <3>3 DEF Quiescent, Writing
  <2>8. ASSUME NEW r \in Requests, ResolveBlock(r) PROVE ReadOK(x)'
    <3>1. /\ pc[r] = "resolve" /\ UNCHANGED <<op, sector, overlapped, att, blks, blkMap>>
          /\ \A y \in Requests : y # r => /\ pc'[y] = pc[y] /\ snap'[y] = snap[y]
                                          /\ cand'[y] = cand[y]
      BY Zenon, <2>8 DEF ResolveBlock, TypeOK
    <3>2. CASE x # r
      BY Zenon, <2>6, <3>1, <3>2
    <3>3. CASE x = r
      <4>1. op[x] = "read" /\ Active(x)
        BY ZenonT(30), <3>1, <3>3 DEF PcInv, TypeOK, OpTypes, Active
      <4>2. CASE blkMap[sector[r]] = Unmapped
        <5>1. pc'[x] = "done"
          BY Zenon, <2>8, <3>3, <4>2 DEF ResolveBlock, TypeOK
        <5> QED
          BY Zenon, <5>1 DEF ReadOK, Active
      <4>3. CASE blkMap[sector[r]] # Unmapped
        <5>1. /\ pc'[x] = "select" /\ snap'[x] = blkMap[sector[x]]
              /\ cand'[x] = ServersOf(blkMap[sector[x]])
          BY Zenon, <2>8, <3>3, <4>3 DEF ResolveBlock, TypeOK
        <5>2. PICK m : m = blkMap[sector[x]] /\ m.att <= att[m.req] /\ m # Unmapped
          BY Zenon, <3>3, <4>3, CurrentMapping
        <5>3. ServersOf(snap[x])' = ServersOf(m)
          <6>1. blks' = blks /\ snap'[x] = m
            BY Zenon, <3>1, <5>1, <5>2
          <6> QED
            BY Zenon, <6>1 DEF ServersOf
        <5>4. x \notin overlapped' => Quiescent(sector[x])'
          BY Zenon, <2>7, <3>1, <4>1
        <5> QED
          BY ZenonT(30), <3>1, <5>1, <5>2, <5>3, <5>4 DEF ReadOK
      <4> QED
        BY Zenon, <4>2, <4>3
    <3> QED
      BY Zenon, <3>2, <3>3
  <2>9. ASSUME NEW r \in Requests, NEW s \in Servers, ReadFrom(r, s) PROVE ReadOK(x)'
    <3>1. /\ UNCHANGED <<op, sector, overlapped, snap, cand>> /\ pc'[r] = "done"
          /\ \A y \in Requests : y # r => pc'[y] = pc[y]
      BY Zenon, <2>9 DEF ReadFrom, TypeOK
    <3>2. CASE x # r
      BY Zenon, <2>6, <3>1, <3>2
    <3>3. CASE x = r
      BY Zenon, <3>1, <3>3 DEF ReadOK, Active
    <3> QED
      BY Zenon, <3>2, <3>3
  <2>10. ASSUME NEW r \in Requests, NoReadServer(r) PROVE ReadOK(x)'
    <3>1. /\ UNCHANGED <<op, sector, overlapped, snap, cand>> /\ pc'[r] = "resolve"
          /\ \A y \in Requests : y # r => pc'[y] = pc[y]
          /\ pc[r] = "select"
      BY Zenon, <2>10 DEF NoReadServer, TypeOK
    <3>2. CASE x # r
      BY Zenon, <2>6, <3>1, <3>2
    <3>3. CASE x = r
      <4>1. Active(x)
        BY Zenon, <3>1, <3>3 DEF Active
      <4> QED
        BY Zenon, <2>7, <3>1, <3>3, <4>1 DEF ReadOK
    <3> QED
      BY Zenon, <3>2, <3>3
  <2>11. ASSUME NEW r \in Requests, NEW s \in Servers, ReadRefused(r, s) PROVE ReadOK(x)'
    <3>1. /\ UNCHANGED <<op, sector, overlapped, snap, pc, att, blks, blkMap>>
          /\ pc[r] = "select"
          /\ cand'[r] \subseteq cand[r] \cup ServersOf(snap[r])
          /\ \A y \in Requests : y # r => cand'[y] = cand[y]
      BY Zenon, <2>11 DEF ReadRefused, TypeOK
    <3>2. CASE x # r
      BY Zenon, <2>6, <3>1, <3>2
    <3>3. CASE x = r
      <4>1. Active(x)
        BY Zenon, <3>1, <3>3 DEF Active
      <4>2. ServersOf(snap[x])' = ServersOf(snap[x])
        BY Zenon, <3>1 DEF ServersOf
      <4>3. cand'[x] \subseteq ServersOf(snap[x])'
        BY Zenon, <3>1, <3>3, <4>2 DEF ReadOK
      <4>4. op[x] = "read" /\ x \notin overlapped => Quiescent(sector[x])'
        BY Zenon, <2>7, <3>1, <4>1
      <4> QED
        BY Zenon, <3>1, <3>3, <4>3, <4>4 DEF ReadOK, Active
    <3> QED
      BY Zenon, <3>2, <3>3
  <2> QED
    BY Zenon, <1>1, <1>2, <2>1, <2>2, <2>3, <2>4, <2>5, <2>8, <2>9, <2>10, <2>11, NextCases
<1> QED
  BY Zenon, <1>2, <1>6, MutatorsProgress

-----------------------------------------------------------------------------
(* The results *)

LEMMA IInvInit == Init => IInv
<1> SUFFICES ASSUME Init PROVE IInv
  BY Zenon
<1>1. TypeOK
  BY Zenon, TypeInit
<1>2. PcInv
  BY Zenon DEF Init, PcInv
<1>3. RepInv
  BY SMTT(30) DEF Init, RepInv, ThreadsOK, Published, Attempts
<1>4. BlockInv
  <2>1. \A r \in Requests : att[r] = 0
    BY Zenon DEF Init
  <2>2. \A r \in Requests : 1..att[r] = {} /\ \A k \in Attempts : ~(k <= att[r])
    BY <2>1 DEF Attempts
  <2> QED
    BY Zenon, <2>2 DEF BlockInv, NoSharedBlock
<1>5. DiskInv
  BY Zenon DEF Init, DiskInv, BlockOK, Attempts
<1>6. DiscardInv
  BY SMTT(30) DEF Init, DiscardInv, Doomed, Attempts
<1>7. MapInv
  BY Zenon DEF Init, MapInv
<1>8. ReadInv
  BY Zenon DEF Init, ReadInv, ReadOK, Active
<1> QED
  BY Zenon, <1>1, <1>2, <1>3, <1>4, <1>5, <1>6, <1>7, <1>8 DEF IInv

(* The inductive step: every action keeps the whole invariant. *)
LEMMA IInvNext == IInv /\ [Next]_vars => IInv'
BY Zenon, TypeNext, PcNext, RepNext, BlockNext, DiskNext, DiscardNext, MapNext,
   ReadNext DEF IInv

(***************************************************************************)
(* The invariant holds in every behaviour of the data path, for any number *)
(* of requests, sectors, servers and retries and with the collector on or  *)
(* off; in particular every variable keeps its type.                       *)
(***************************************************************************)
THEOREM Invariance == Spec => []IInv
<1>1. Init => IInv
  BY Zenon, IInvInit
<1>2. IInv /\ [Next]_vars => IInv'
  BY Zenon, IInvNext
<1> QED
  BY <1>1, <1>2, PTL DEF Spec

(* Every variable of the data path keeps its type. *)
THEOREM TypeCorrect == Spec => []TypeOK
<1>1. IInv => TypeOK
  BY Zenon DEF IInv
<1> QED
  BY <1>1, Invariance, PTL

(* No block is ever handed out twice by GetBlocks. *)
THEOREM BlocksNotShared == Spec => []NoSharedBlock
<1>1. IInv => NoSharedBlock
  BY Zenon DEF IInv, BlockInv
<1> QED
  BY <1>1, Invariance, PTL

(* The mapping of a sector that no request is changing. *)
LEMMA QuiescentMapping ==
  ASSUME IInv, NEW s \in Sectors, Quiescent(s), blkMap[s] # Unmapped
  PROVE  LET m == blkMap[s]
         IN  /\ m.req \in Requests /\ m.att \in Attempts
             /\ pc[m.req] = "done" /\ m.att = att[m.req]
             /\ op[m.req] \in Mutators
             /\ ~Doomed(m.req, m.att)
<1> DEFINE m == blkMap[s]
<1>1. TypeOK /\ PcInv /\ MapInv /\ DiscardInv
  BY Zenon DEF IInv
<1>2. /\ m.req \in Requests /\ m.att \in Attempts /\ m = [req |-> m.req, att |-> m.att]
      /\ MapOK(m, s)
  BY Zenon, <1>1, CurrentMapping, MappedType DEF MapInv
<1> HIDE DEF m
<1>3. pc[m.req] = "done"
  <2>1. ~Active(m.req)
    BY Zenon, <1>2 DEF MapOK, Quiescent, Writing
  <2>2. pc[m.req] # "idle"
    BY Zenon, <1>1, <1>2 DEF MapOK, PcInv, Mutators
  <2> QED
    BY Zenon, <2>1, <2>2 DEF Active
<1>4. m.att \in Nat /\ att[m.req] \in Nat
  BY <1>1, <1>2 DEF TypeOK, Attempts
<1>5. m.att = att[m.req]
  BY Zenon, <1>2, <1>3, <1>4 DEF MapOK, Published
<1>6. ~Doomed(m.req, m.att)
  <2> SUFFICES ASSUME Replaced(m.req, m.att) PROVE FALSE
    BY Zenon, <1>1, <1>2 DEF DiscardInv
  <2>1. sector[m.req] = s /\ blkMap[s] = [req |-> m.req, att |-> m.att]
    BY Zenon, <1>2 DEF MapOK, m
  <2> QED
    BY Zenon, <2>1 DEF Replaced, Quiescent
<1> QED
  BY Zenon, <1>2, <1>3, <1>5, <1>6 DEF MapOK, m

(* The invariant implies durability. *)
LEMMA IInvDurable == IInv => Durable
<1> SUFFICES ASSUME IInv, NEW s \in Sectors, Quiescent(s), blkMap[s] # Unmapped,
                    NEW i \in Replicas
             PROVE  disk[blks[blkMap[s].req][blkMap[s].att][i]] = Data(blkMap[s].req)
  BY Zenon DEF Durable
<1>1. PICK m : /\ m = blkMap[s] /\ m.req \in Requests /\ m.att \in Attempts
               /\ pc[m.req] = "done" /\ m.att = att[m.req]
               /\ op[m.req] \in Mutators
               /\ ~Doomed(m.req, m.att)
  BY Zenon, QuiescentMapping
<1>2. TypeOK /\ RepInv /\ DiskInv
  BY Zenon DEF IInv
<1>3. m.att \in Nat /\ att[m.req] \in Nat /\ m.att <= att[m.req]
  BY <1>1, <1>2 DEF TypeOK, Attempts
<1>4. BlockOK(m.req, m.att, i) /\ ThreadsOK(m.req, m.att)
  BY Zenon, <1>1, <1>2, <1>3 DEF DiskInv, RepInv
<1>5. disk[blks[m.req][m.att][i]] # Trimmed
  BY Zenon, <1>1, <1>3 DEF Doomed
<1>6. CASE op[m.req] = "allocate"
  BY Zenon, <1>1, <1>4, <1>6 DEF BlockOK, Data
<1>7. CASE op[m.req] = "write"
  <2>1. rep[m.req][m.att][i] \in RepStates
    <3>1. \A a \in Requests, b \in Attempts : rep[a][b][i] \in RepStates
      BY SMTT(30), <1>2 DEF TypeOK
    <3> QED
      BY Zenon, <1>1, <3>1
  <2>2. rep[m.req][m.att][i] = "ok"
    <3>1. Published(m.req, m.att) /\ ~(m.att < att[m.req]) /\ pc[m.req] # "retry"
      <4>1. ~(m.att < att[m.req])
        BY <1>1, <1>3
      <4>2. Published(m.req, m.att) /\ pc[m.req] # "retry"
        BY Zenon, <1>1 DEF Published
      <4> QED
        BY Zenon, <4>1, <4>2
    <3>2. /\ rep[m.req][m.att][i] # "none" /\ rep[m.req][m.att][i] # "sent"
          /\ rep[m.req][m.att][i] \notin {"retrying", "aborted"}
      BY Zenon, <1>1, <1>4, <1>7, <3>1 DEF ThreadsOK
    <3> QED
      BY Zenon, <2>1, <3>2 DEF RepStates
  <2> QED
    BY Zenon, <1>1, <1>4, <1>5, <1>7, <2>2 DEF BlockOK, Data
<1> QED
  BY ZenonT(30), <1>1, <1>6, <1>7 DEF Mutators

(***************************************************************************)
(* Durability, for every value of the constants: whatever the interleaving *)
(* of concurrent writers, refused replicas, retries and the collector, a   *)
(* sector that no request is changing has its data on every replica.       *)
(***************************************************************************)
THEOREM Durability == Spec => []Durable
<1>1. IInv => Durable
  BY Zenon, IInvDurable
<1> QED
  BY <1>1, Invariance, PTL

(* A trim never hits the live mapping of a sector no request is changing. *)
THEOREM TrimsSpareLiveData == Spec => []LiveNotDiscarded
<1>1. IInv => LiveNotDiscarded
  <2> SUFFICES ASSUME IInv, NEW s \in Sectors, Quiescent(s), blkMap[s] # Unmapped
               PROVE  /\ discards[blkMap[s].req][blkMap[s].att] = 0
                      /\ \A i \in Replicas :
                            gcWork[blkMap[s].req][blkMap[s].att][i] = 0
    BY ZenonT(30) DEF LiveNotDiscarded
  <2>1. PICK m : /\ m = blkMap[s] /\ m.req \in Requests /\ m.att \in Attempts
                 /\ ~Doomed(m.req, m.att)
    BY Zenon, QuiescentMapping
  <2>2. /\ discards[m.req][m.att] \in Nat
        /\ \A i \in Replicas : gcWork[m.req][m.att][i] \in Nat
    <3>1. \A a \in Requests, b \in Attempts :
              discards[a][b] \in Nat /\ \A i \in Replicas : gcWork[a][b][i] \in Nat
      BY DEF IInv, TypeOK
    <3> QED
      BY Zenon, <2>1, <3>1
  <2>3. /\ ~(discards[m.req][m.att] > 0)
        /\ \A i \in Replicas : ~(gcWork[m.req][m.att][i] > 0)
    BY Zenon, <2>1 DEF Doomed
  <2>4. /\ discards[m.req][m.att] = 0
        /\ \A i \in Replicas : gcWork[m.req][m.att][i] = 0
    BY <2>2, <2>3
  <2> QED
    BY Zenon, <2>1, <2>4
<1> QED
  BY <1>1, Invariance, PTL

-----------------------------------------------------------------------------
(***************************************************************************)
(* The data path implements the sector store: every behaviour of           *)
(* VirtualDisk, seen through the refinement mapping of Store, is a         *)
(* behaviour of SectorStore.  The step simulation rests on the inductive   *)
(* invariant; the only step that needs all of it is the one in which a     *)
(* read returns.                                                           *)
(***************************************************************************)

Reg == [s \in Sectors |-> Register(s)]

(* What a step of the store may see of a step of the disk. *)
LEMMA StoreStutter ==
  ASSUME UNCHANGED <<op, sector, Status, Applied, Reg, overlapped, result>>
  PROVE  UNCHANGED Store!vars
BY Zenon DEF Store!vars, Reg

(* The registers only depend on the mappings: a request that is the source *)
(* of a mapping has its kind for good.                                     *)
LEMMA RegStable ==
  ASSUME IInv, MutatorsStep
  PROVE  Reg' = Reg
<1> SUFFICES ASSUME NEW s \in Sectors PROVE Register(s)' = Register(s)
  BY Zenon DEF Reg
<1>1. TypeOK /\ MapInv /\ blkMap' = blkMap
  BY Zenon DEF IInv, MutatorsStep
<1>2. CASE blkMap[s] = Unmapped
  BY Zenon, <1>1, <1>2 DEF Register
<1>3. CASE blkMap[s] # Unmapped
  <2>1. PICK m : m = blkMap[s] /\ m.req \in Requests /\ op[m.req] \in Mutators
    BY Zenon, <1>1, <1>3, CurrentMapping
  <2>2. MutatorStep(m.req)
    BY Zenon, <2>1 DEF MutatorsStep
  <2>3. op'[m.req] = op[m.req]
    BY Zenon, <2>2 DEF MutatorStep
  <2> QED
    BY Zenon, <1>1, <1>3, <2>1, <2>3 DEF Register, Data
<1> QED
  BY Zenon, <1>2, <1>3

(* The initial state maps to the initial state of the register. *)
LEMMA StoreInit == Init => Store!Init
<1> SUFFICES ASSUME Init PROVE Store!Init
  BY Zenon
<1>1. sector \in [Requests -> Sectors]
  BY Zenon, TypeInit DEF TypeOK
<1>2. Status = [r \in Requests |-> "idle"]
  BY Zenon DEF Init, Status, Active
<1>3. Applied = {}
  BY DEF Init, Applied
<1>4. [s \in Sectors |-> Register(s)] = [s \in Sectors |-> ENOENT]
  BY Zenon DEF Init, Register
<1> QED
  BY Zenon, <1>1, <1>2, <1>3, <1>4 DEF Init, Store!Init

LEMMA RangeNat == \A n : 0..n \subseteq Nat
  BY SMT

(* What a request of a well-typed state holds. *)
LEMMA RequestType ==
  ASSUME TypeOK, NEW r \in Requests
  PROVE  /\ op[r] \in OpTypes
         /\ sector[r] \in Sectors
         /\ snap[r] \in Mapping
         /\ att[r] \in Nat
<1>1. att[r] \in 0..MaxAttempts
  BY Zenon DEF TypeOK
<1> QED
  BY Zenon, <1>1, RangeNat DEF TypeOK

(* A read returns some content, and the register's unless a write of the   *)
(* sector overlapped it: the servers of the mapping it resolved hold the   *)
(* data of that mapping's write.                                           *)
LEMMA ReadReturns ==
  ASSUME IInv, NEW r \in Requests, NEW s \in Servers,
         pc[r] = "select", op[r] = "read", Active(r)
  PROVE  /\ disk[BlockOn(snap[r], s)] \in Requests \cup {Blank, Trimmed, ENOENT}
         /\ r \notin overlapped => disk[BlockOn(snap[r], s)] = Register(sector[r])
<1> DEFINE v == disk[BlockOn(snap[r], s)]
<1>1. TypeOK /\ PcInv /\ BlockInv /\ ReadOK(r)
  BY Zenon DEF IInv, ReadInv
<1>2. snap[r] \in Mapping /\ sector[r] \in Sectors
  BY Zenon, <1>1, RequestType
<1>3. snap[r] # Unmapped /\ snap[r].att <= att[snap[r].req]
  BY Zenon, <1>1 DEF ReadOK
<1>4. BlockOn(snap[r], s) \in Block
  BY Zenon, <1>1, <1>2, <1>3, MappedBlocks
<1>5. v \in Requests \cup {Blank, Trimmed, ENOENT}
  BY Zenon, <1>1, <1>4 DEF TypeOK, Content
<1>6. ASSUME r \notin overlapped PROVE v = Register(sector[r])
  <2>1. Quiescent(sector[r]) /\ blkMap[sector[r]] = snap[r]
    BY Zenon, <1>1, <1>6 DEF ReadOK
  <2>2. \A i \in Replicas :
            disk[blks[snap[r].req][snap[r].att][i]] = Data(snap[r].req)
    BY ZenonT(60), <1>2, <1>3, <2>1, IInvDurable DEF Durable
  <2>3. \E i \in Replicas : BlockOn(snap[r], s) = blks[snap[r].req][snap[r].att][i]
    BY SMT DEF BlockOn, Replicas, kNumReplicas
  <2>4. v = Data(snap[r].req)
    BY Zenon, <2>2, <2>3
  <2> QED
    BY Zenon, <1>3, <2>1, <2>4 DEF Register
<1> QED
  BY Zenon, <1>5, <1>6

(* Every step maps to a step of the register, or to a stutter. *)
LEMMA StoreNext == IInv /\ IInv' /\ [Next]_vars => [Store!Next]_(Store!vars)
<1> SUFFICES ASSUME IInv, IInv', [Next]_vars PROVE [Store!Next]_(Store!vars)
  BY Zenon
<1>0. TypeOK /\ PcInv /\ RepInv
  BY Zenon DEF IInv
<1> USE <1>0 DEF reqVars, readVars
<1>1. ASSUME NEW r \in Requests, NEW s \in Sectors, NEW o \in Mutators,
             StartMutation(r, s, o)
      PROVE  Store!InvokeMutation(r, s)
  <2>1. /\ pc[r] = "idle" /\ op' = [op EXCEPT ![r] = o]
        /\ sector' = [sector EXCEPT ![r] = s]
        /\ pc' = [pc EXCEPT ![r] = "discard"] /\ att' = [att EXCEPT ![r] = 1]
        /\ overlapped' = overlapped \cup {x \in Requests : Reading(x, s)}
        /\ UNCHANGED <<result, blkMap>>
    BY Zenon, <1>1 DEF StartMutation
  <2>2. op[r] = "none" /\ att[r] = 0
    <3>1. op[r] \in OpTypes
      BY Zenon DEF TypeOK
    <3> QED
      BY Zenon, <2>1, <3>1 DEF PcInv, OpTypes
  <2>3. Status[r] = "idle" /\ Status' = [Status EXCEPT ![r] = "active"]
    BY Zenon, <2>1 DEF Status, Active, TypeOK
  <2>4. Applied' = Applied
    BY SMTT(30), <2>1, <2>2 DEF Applied, TypeOK
  <2>5. MutatorsStep
    BY Zenon, <2>1, <2>2 DEF MutatorsStep, MutatorStep, TypeOK, Mutators
  <2>6. Reg' = Reg
    BY Zenon, <2>5, RegStable
  <2>7. \A x \in Requests : Reading(x, s) <=>
            op[x] = "read" /\ sector[x] = s /\ Status[x] = "active"
    BY Zenon DEF Reading, Status, Active
  <2>8. overlapped' = overlapped \cup
            {x \in Requests : op[x] = "read" /\ sector[x] = s /\ Status[x] = "active"}
    BY Zenon, <2>1, <2>7
  <2> QED
    BY Zenon, <2>1, <2>3, <2>4, <2>6, <2>8 DEF Store!InvokeMutation, Reg, Store!Mutators, Mutators
<1>2. ASSUME NEW r \in Requests, AddMapping(r) PROVE Store!Apply(r)
  <2>1. /\ UNCHANGED <<op, sector, att, overlapped, result>>
        /\ blkMap' = [blkMap EXCEPT ![sector[r]] = [req |-> r, att |-> att[r]]]
        /\ pc[r] = "publish" /\ op[r] \in Mutators
        /\ pc' = [pc EXCEPT ![r] = IF op[r] = "write" THEN "write" ELSE "done"]
    BY Zenon, <1>2 DEF AddMapping, Mutators
  <2>2. Status[r] = "active"
    BY Zenon, <2>1 DEF Status, Active
  <2>3. Status' = [Status EXCEPT ![r] = IF op[r] = "write" THEN "active" ELSE "done"]
    BY Zenon, <2>1 DEF Status, Active, TypeOK
  <2>4. att[r] \in Nat /\ att[r] >= 1
    BY SMTT(30), <2>1, RequestType DEF PcInv, Mutators
  <2>5. Applied' = Applied \cup {r}
    <3>1. \A x \in Requests : x # r => pc'[x] = pc[x] /\ att'[x] = att[x]
      BY Zenon, <2>1 DEF TypeOK
    <3>2. pc'[r] \in {"write", "done"} /\ att'[r] = att[r]
      BY Zenon, <2>1 DEF TypeOK
    <3> QED
      BY <2>4, <3>1, <3>2 DEF Applied
  <2>6. [s \in Sectors |-> Register(s)]' =
            [[s \in Sectors |-> Register(s)] EXCEPT ![sector[r]] = Data(r)]
    <3>1. ASSUME NEW s \in Sectors
          PROVE  Register(s)' = IF s = sector[r] THEN Data(r) ELSE Register(s)
      <4>1. CASE s = sector[r]
        <5>1. blkMap'[s] = [req |-> r, att |-> att[r]]
          BY Zenon, <2>1, <4>1 DEF TypeOK
        <5>2. blkMap'[s] # Unmapped /\ blkMap'[s].req = r
          BY SMTT(30), <2>4, <5>1 DEF Unmapped
        <5> QED
          BY Zenon, <2>1, <4>1, <5>2 DEF Register, Data
      <4>2. CASE s # sector[r]
        <5>1. blkMap'[s] = blkMap[s]
          BY Zenon, <2>1, <4>2 DEF TypeOK
        <5> QED
          BY SMTT(30), <2>1, <4>2, <5>1 DEF Register, Data
      <4> QED
        BY Zenon, <4>1, <4>2
    <3>2. sector[r] \in Sectors
      BY Zenon DEF TypeOK
    <3> QED
      BY Zenon, <3>1, <3>2
  <2> QED
    BY Zenon, <2>1, <2>2, <2>3, <2>5, <2>6
       DEF Store!Apply, Store!Mutators, Mutators, Store!Data, Data
<1>3. CASE MutatorsStep
  <2>1. Reg' = Reg
    BY Zenon, <1>3, RegStable
  <2>2. [s \in Sectors |-> Register(s)]' = [s \in Sectors |-> Register(s)]
    BY Zenon, <2>1 DEF Reg
  <2>3. ASSUME UNCHANGED <<op, sector, overlapped, result>>,
               \A x \in Requests : Active(x)' = Active(x) /\ (pc'[x] = pc[x] \/ Active(x)),
               \A x \in Requests : x \in Applied' <=> x \in Applied
        PROVE  UNCHANGED Store!vars
    <3>1. Status' = Status
      BY Zenon, <2>3 DEF Status
    <3>2. Applied' = Applied
      BY Zenon, <2>3 DEF Applied
    <3> QED
      BY Zenon, <2>1, <2>3, <3>1, <3>2, StoreStutter
  <2>4. ASSUME NEW r \in Requests, DiscardExistingBlocks(r) PROVE UNCHANGED Store!vars
    <3>1. /\ UNCHANGED <<op, sector, overlapped, result, att>> /\ pc[r] = "discard"
          /\ pc'[r] = "publish" /\ \A x \in Requests : x # r => pc'[x] = pc[x]
      BY Zenon, <2>4 DEF DiscardExistingBlocks, TypeOK
    <3> QED
      BY Zenon, <2>3, <3>1 DEF Active, Applied
  <2>5. ASSUME NEW r \in Requests, RetryWrite(r) PROVE UNCHANGED Store!vars
    <3>1. /\ UNCHANGED <<op, sector, overlapped, result>> /\ pc[r] = "retry"
          /\ pc'[r] = "discard" /\ att'[r] = att[r] + 1
          /\ \A x \in Requests : x # r => pc'[x] = pc[x] /\ att'[x] = att[x]
      BY Zenon, <2>5 DEF RetryWrite, TypeOK
    <3>2. op[r] = "write" /\ att[r] \in Nat /\ att[r] >= 1
      <4>1. op[r] \in OpTypes /\ att[r] \in Nat
        BY ZenonT(40), RequestType
      <4> QED
        BY Zenon, <3>1, <4>1 DEF PcInv, OpTypes
    <3>3. r \in Applied /\ r \in Applied'
      BY SMTT(30), <3>1, <3>2 DEF Applied
    <3>4. \A x \in Requests : Active(x)' = Active(x) /\ (pc'[x] = pc[x] \/ Active(x))
      BY Zenon, <3>1 DEF Active
    <3>5. \A x \in Requests : x # r => (x \in Applied' <=> x \in Applied)
      BY Zenon, <3>1 DEF Applied
    <3> QED
      BY Zenon, <2>3, <3>1, <3>3, <3>4, <3>5
  <2>6. ASSUME NEW r \in Requests, NEW k \in Attempts, NEW i \in Replicas,
               RejectWrite(r, k, i) \/ FailWrite(r, k, i)
        PROVE  UNCHANGED Store!vars
    <3>1. /\ rep[r][k][i] = "sent" /\ HandleRefusal(r, k, i)
          /\ UNCHANGED <<op, sector, overlapped, result, att>>
      BY Zenon, <2>6 DEF RejectWrite, FailWrite
    <3>2. CASE \E j \in Replicas : rep[r][k][j] = "retrying"
      <4>1. pc' = pc
        BY Zenon, <3>1, <3>2 DEF HandleRefusal
      <4> QED
        BY Zenon, <2>3, <3>1, <4>1 DEF Active, Applied
    <3>3. CASE ~ \E j \in Replicas : rep[r][k][j] = "retrying"
      <4>1. pc[r] = "write"
        BY SMT, <3>1, <3>3, FirstRefusal
      <4>2. pc'[r] = "retry" /\ \A x \in Requests : x # r => pc'[x] = pc[x]
        BY Zenon, <3>1, <3>3 DEF HandleRefusal, TypeOK
      <4> QED
        BY Zenon, <2>3, <3>1, <4>1, <4>2 DEF Active, Applied
    <3> QED
      BY Zenon, <3>2, <3>3
  <2>7. ASSUME UNCHANGED <<op, sector, overlapped, result, att, pc>>
        PROVE  UNCHANGED Store!vars
    BY Zenon, <2>3, <2>7 DEF Active, Applied
  <2>8. ASSUME NEW r \in Requests, NEW k \in Attempts, NEW i \in Replicas,
               CompleteWrite(r, k, i) \/ HandleDiscardBlocks(r, k, i)
        PROVE  UNCHANGED Store!vars
    BY Zenon, <2>7, <2>8 DEF CompleteWrite, HandleDiscardBlocks
  <2>9. ASSUME NEW r \in Requests, NEW s \in Servers, ReadRefused(r, s)
        PROVE  UNCHANGED Store!vars
    BY Zenon, <2>7, <2>9 DEF ReadRefused
  <2>10. CASE RunGarbageCollector \/ UNCHANGED vars
    BY Zenon, <2>7, <2>10 DEF RunGarbageCollector, vars
  <2>11. ASSUME NEW r \in Requests, NoReadServer(r) PROVE UNCHANGED Store!vars
    <3>1. /\ UNCHANGED <<op, sector, overlapped, result, att>> /\ pc[r] = "select"
          /\ pc'[r] = "resolve" /\ \A x \in Requests : x # r => pc'[x] = pc[x]
      BY Zenon, <2>11 DEF NoReadServer, TypeOK
    <3> QED
      BY Zenon, <2>3, <3>1 DEF Active, Applied
  <2>12. ASSUME NEW r \in Requests, JoinWrite(r) PROVE Store!ReturnMutation(r)
    <3>1. /\ UNCHANGED <<op, sector, overlapped, result, att>> /\ pc[r] = "write"
          /\ pc' = [pc EXCEPT ![r] = "done"]
      BY Zenon, <2>12 DEF JoinWrite
    <3>2. op[r] = "write" /\ att[r] \in Nat /\ att[r] >= 1
      <4>1. op[r] \in OpTypes /\ att[r] \in Nat
        BY Zenon, RequestType
      <4> QED
        BY Zenon, <3>1, <4>1 DEF PcInv, OpTypes
    <3>3. Status[r] = "active" /\ Status' = [Status EXCEPT ![r] = "done"]
      BY Zenon, <3>1 DEF Status, Active, TypeOK
    <3>4. r \in Applied /\ Applied' = Applied
      BY SMTT(30), <3>1, <3>2 DEF Applied, TypeOK
    <3> QED
      BY Zenon, <2>2, <3>1, <3>2, <3>3, <3>4 DEF Store!ReturnMutation, Store!Mutators
  <2>13. ASSUME NEW r \in Requests, NEW s \in Sectors, StartRead(r, s)
         PROVE  Store!InvokeRead(r, s)
    <3>1. /\ pc[r] = "idle" /\ op' = [op EXCEPT ![r] = "read"]
          /\ sector' = [sector EXCEPT ![r] = s]
          /\ pc' = [pc EXCEPT ![r] = "resolve"] /\ UNCHANGED <<att, result>>
          /\ overlapped' = IF Quiescent(s) THEN overlapped ELSE overlapped \cup {r}
      BY Zenon, <2>13 DEF StartRead
    <3>2. att[r] = 0
      <4>1. op[r] \in OpTypes
        BY Zenon, RequestType
      <4> QED
        BY Zenon, <3>1, <4>1 DEF PcInv, OpTypes
    <3>3. Status[r] = "idle" /\ Status' = [Status EXCEPT ![r] = "active"]
      BY Zenon, <3>1 DEF Status, Active, TypeOK
    <3>4. Applied' = Applied
      BY Zenon, <3>1, <3>2 DEF Applied, TypeOK
    <3>5. Quiescent(s) <=> ~ \E x \in Requests : /\ op[x] \in Store!Mutators
                                                 /\ sector[x] = s
                                                 /\ Status[x] = "active"
      BY Zenon DEF Quiescent, Writing, Status, Active, Mutators, Store!Mutators
    <3> QED
      BY Zenon, <2>2, <3>1, <3>3, <3>4, <3>5 DEF Store!InvokeRead
  <2>14. ASSUME NEW r \in Requests, op[r] = "read", Active(r),
                UNCHANGED <<op, sector, overlapped, att>>,
                pc' = [pc EXCEPT ![r] = "done"],
                NEW v \in Requests \cup {Blank, Trimmed, ENOENT},
                result' = [result EXCEPT ![r] = v],
                r \notin overlapped => v = Register(sector[r])
         PROVE  Store!ReturnRead(r)
    <3>1. att[r] = 0
      BY Zenon, <2>14 DEF PcInv
    <3>2. Status[r] = "active" /\ Status' = [Status EXCEPT ![r] = "done"]
      BY Zenon, <2>14 DEF Status, Active, TypeOK
    <3>3. Applied' = Applied
      BY SMTT(30), <2>14, <3>1 DEF Applied, TypeOK
    <3>4. [s \in Sectors |-> Register(s)][sector[r]] = Register(sector[r])
      BY Zenon DEF TypeOK
    <3> QED
      BY Zenon, <2>2, <2>14, <3>2, <3>3, <3>4 DEF Store!ReturnRead
  <2>15. ASSUME NEW r \in Requests, ResolveBlock(r)
         PROVE  Store!ReturnRead(r) \/ UNCHANGED Store!vars
    <3>1. pc[r] = "resolve" /\ UNCHANGED <<op, sector, overlapped, att>>
      BY Zenon, <2>15 DEF ResolveBlock
    <3>2. op[r] = "read" /\ Active(r)
      <4>1. op[r] \in OpTypes
        BY Zenon, RequestType
      <4> QED
        BY Zenon, <3>1, <4>1 DEF PcInv, OpTypes, Active
    <3>3. CASE blkMap[sector[r]] = Unmapped
      <4>1. pc' = [pc EXCEPT ![r] = "done"] /\ result' = [result EXCEPT ![r] = ENOENT]
        BY Zenon, <2>15, <3>3 DEF ResolveBlock
      <4>2. Register(sector[r]) = ENOENT
        BY Zenon, <3>3 DEF Register
      <4> QED
        BY Zenon, <2>14, <3>1, <3>2, <4>1, <4>2
    <3>4. CASE blkMap[sector[r]] # Unmapped
      <4>1. /\ pc'[r] = "select" /\ result' = result
            /\ \A x \in Requests : x # r => pc'[x] = pc[x]
        BY Zenon, <2>15, <3>4 DEF ResolveBlock, TypeOK
      <4> QED
        BY Zenon, <2>3, <3>1, <4>1 DEF Active, Applied
    <3> QED
      BY Zenon, <3>3, <3>4
  <2>16. ASSUME NEW r \in Requests, NEW s \in Servers, ReadFrom(r, s)
         PROVE  Store!ReturnRead(r)
    <3> DEFINE v == disk[BlockOn(snap[r], s)]
    <3>1. /\ pc[r] = "select" /\ UNCHANGED <<op, sector, overlapped, att>>
          /\ pc' = [pc EXCEPT ![r] = "done"] /\ result' = [result EXCEPT ![r] = v]
      BY Zenon, <2>16 DEF ReadFrom
    <3>2. op[r] = "read" /\ Active(r)
      <4>1. op[r] \in OpTypes
        BY Zenon, RequestType
      <4> QED
        BY Zenon, <3>1, <4>1 DEF PcInv, OpTypes, Active
    <3>3. /\ v \in Requests \cup {Blank, Trimmed, ENOENT}
          /\ r \notin overlapped => v = Register(sector[r])
      BY Zenon, <3>1, <3>2, ReadReturns
    <3> HIDE DEF v
    <3> QED
      BY Zenon, <2>14, <3>1, <3>2, <3>3
  <2> QED
    BY Zenon, <1>1, <1>2, <2>4, <2>5, <2>6, <2>8, <2>9, <2>10, <2>11, <2>12, <2>13, <2>15,
       <2>16, NextCases DEF Store!Next
<1>4. CASE \E r \in Requests : AddMapping(r)
  BY Zenon, <1>2, <1>4 DEF Store!Next
<1> QED
  BY Zenon, <1>3, <1>4, MutatorsProgress

(***************************************************************************)
(* The virtual disk is a store of registers, for every value of the        *)
(* constants: a read that overlaps no write of its sector returns the data *)
(* of the write that took effect last, through retries on other servers,   *)
(* abandoned attempts whose writes arrive late, and garbage collection.    *)
(***************************************************************************)
THEOREM DiskImplementsStore == Spec => ImplementsStore
<1>1. Init => Store!Init
  BY Zenon, StoreInit
<1>2. IInv /\ IInv' /\ [Next]_vars => [Store!Next]_(Store!vars)
  BY Zenon, StoreNext
<1> QED
  BY <1>1, <1>2, Invariance, PTL DEF Spec, ImplementsStore, Store!Spec

=============================================================================
