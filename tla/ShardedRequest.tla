--------------------------- MODULE ShardedRequest ---------------------------
(***************************************************************************)
(* How VirtualDiskBase processes one request of several sectors: it splits *)
(* the request over threads that process one sector at a time, joins them  *)
(* and makes the result of the two atomics they share.  The processing of  *)
(* one sector is the subject of VirtualDisk; here it returns the sector's  *)
(* length or an error code.                                                *)
(***************************************************************************)
EXTENDS Naturals, FiniteSets, FiniteSetsExt

CONSTANTS
    kMaxPerRequestConcurrency,
    kMaxPerWriteRequestConcurrency,
    SectorSize                      \* bytes of a sector

ASSUME ShardedAssumption ==
    /\ kMaxPerRequestConcurrency \in Nat \ {0}
    /\ kMaxPerWriteRequestConcurrency \in Nat \ {0}
    /\ SectorSize \in Nat

-----------------------------------------------------------------------------

MaxConcurrency(op) ==
    IF op = "write" THEN kMaxPerWriteRequestConcurrency
                    ELSE kMaxPerRequestConcurrency

NThreads(op, n) == Min({n, MaxConcurrency(op)})

SectorsPerThread(op, n) ==
    IF NThreads(op, n) = n THEN 1 ELSE n \div NThreads(op, n)

(* What the division leaves over goes to the last thread. *)
Remaining(op, n) == n - SectorsPerThread(op, n) * NThreads(op, n)

(* Mutant of ThreadSectors: nobody takes the remainder. *)
ThreadSectorsEqual(op, n, tid) == SectorsPerThread(op, n)

(* The number of sectors thread tid of the request has to process. *)
ThreadSectors(op, n, tid) ==
    SectorsPerThread(op, n)
        + (IF tid = NThreads(op, n) - 1 THEN Remaining(op, n) ELSE 0)

Tids(op, n) == 0..(NThreads(op, n) - 1)

-----------------------------------------------------------------------------

(***************************************************************************)
(* A request being processed: the sectors each thread has done, how often  *)
(* each sector was processed and with which codes, and the two atomics.    *)
(***************************************************************************)
Sharded(op, n) ==
    [op |-> op, n |-> n,
     i |-> [tid \in Tids(op, n) |-> 0],
     times |-> [s \in 0..(n - 1) |-> 0], codes |-> {},
     res |-> 0, err_code |-> 0]

(* What a sector's ProcessRequest returns when it succeeds. *)
Length(op) == IF op = "allocate" THEN 0 ELSE SectorSize

Finished(p, tid) == p.i[tid] = ThreadSectors(p.op, p.n, tid)

(* Mutant of ProcessSector: a later success clears the error. *)
ProcessSectorClears(p, tid, e) ==
    LET s == tid * SectorsPerThread(p.op, p.n) + p.i[tid]
    IN  [p EXCEPT !.i[tid] = @ + 1, !.times[s] = @ + 1,
                  !.codes = @ \cup {e},
                  !.err_code = e,
                  !.res = IF e = 0 THEN @ + Length(p.op) ELSE @]

(* One turn of thread tid's loop: its next sector ends with code e or 0. *)
ProcessSector(p, tid, e) ==
    LET s == tid * SectorsPerThread(p.op, p.n) + p.i[tid]
    IN  [p EXCEPT !.i[tid] = @ + 1, !.times[s] = @ + 1,
                  !.codes = @ \cup {e},
                  !.err_code = IF e # 0 THEN e ELSE @,
                  !.res = IF e = 0 THEN @ + Length(p.op) ELSE @]

(* Every thread of the request can be joined. *)
Joined(p) == \A tid \in Tids(p.op, p.n) : Finished(p, tid)

(* The IOResult of a request whose threads are joined. *)
ShardedResult(p) ==
    IF p.err_code # 0 THEN [status |-> "kFailed", res |-> p.err_code]
                      ELSE [status |-> "kOk", res |-> p.res]

=============================================================================
