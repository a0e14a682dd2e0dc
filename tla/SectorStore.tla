----------------------------- MODULE SectorStore -----------------------------
(***************************************************************************)
(* What a Sandook volume promises: every sector is a register with many    *)
(* writers and many readers.                                               *)
(*                                                                         *)
(* A write takes effect at some moment between its invocation and its      *)
(* return, and until it returns it may take effect again (the disk retries *)
(* a refused write by running it from the start).  An allocation is a      *)
(* write of a blank sector.  A read that overlaps no write or allocation   *)
(* of its sector returns what the register holds; the result of one that   *)
(* does is unspecified, because a mapping becomes visible before its data  *)
(* is written.                                                             *)
(***************************************************************************)
CONSTANTS
    Requests, Sectors,
    Blank, Trimmed,     \* what an unwritten or a trimmed block contains
    ENOENT              \* the register of a sector that was never written

VARIABLES
    op,          \* op[r]: read, write or allocate
    sector,      \* sector[r]
    status,      \* status[r]: idle, active or done
    applied,     \* the writes and allocations that have taken effect
    reg,         \* reg[s]: the data of the write that took effect last
    overlapped,  \* the reads that were concurrent with a write
    result       \* result[r]: what a read returned

vars == <<op, sector, status, applied, reg, overlapped, result>>

Mutators == {"write", "allocate"}
Data(r) == IF op[r] = "write" THEN r ELSE Blank

Init ==
    /\ op = [r \in Requests |-> "none"]
    /\ sector \in [Requests -> Sectors]
    /\ status = [r \in Requests |-> "idle"]
    /\ applied = {}
    /\ reg = [s \in Sectors |-> ENOENT]
    /\ overlapped = {}
    /\ result = [r \in Requests |-> Blank]

InvokeMutation(r, s) ==
    /\ status[r] = "idle"
    /\ \E o \in Mutators : op' = [op EXCEPT ![r] = o]
    /\ sector' = [sector EXCEPT ![r] = s]
    /\ status' = [status EXCEPT ![r] = "active"]
    /\ overlapped' = overlapped \cup
           {x \in Requests : op[x] = "read" /\ sector[x] = s /\ status[x] = "active"}
    /\ UNCHANGED <<applied, reg, result>>

(* The write takes effect; an allocation returns in the same step. *)
Apply(r) ==
    /\ status[r] = "active"
    /\ op[r] \in Mutators
    /\ reg' = [reg EXCEPT ![sector[r]] = Data(r)]
    /\ applied' = applied \cup {r}
    /\ status' = [status EXCEPT ![r] = IF op[r] = "write" THEN "active"
                                                          ELSE "done"]
    /\ UNCHANGED <<op, sector, overlapped, result>>

ReturnMutation(r) ==
    /\ status[r] = "active"
    /\ op[r] \in Mutators
    /\ r \in applied
    /\ status' = [status EXCEPT ![r] = "done"]
    /\ UNCHANGED <<op, sector, applied, reg, overlapped, result>>

InvokeRead(r, s) ==
    /\ status[r] = "idle"
    /\ op' = [op EXCEPT ![r] = "read"]
    /\ sector' = [sector EXCEPT ![r] = s]
    /\ status' = [status EXCEPT ![r] = "active"]
    /\ overlapped' = IF \E x \in Requests : /\ op[x] \in Mutators
                                             /\ sector[x] = s
                                             /\ status[x] = "active"
                     THEN overlapped \cup {r}
                     ELSE overlapped
    /\ UNCHANGED <<applied, reg, result>>

ReturnRead(r) ==
    /\ status[r] = "active"
    /\ op[r] = "read"
    /\ \E v \in Requests \cup {Blank, Trimmed, ENOENT} :
           /\ r \notin overlapped => v = reg[sector[r]]
           /\ result' = [result EXCEPT ![r] = v]
    /\ status' = [status EXCEPT ![r] = "done"]
    /\ UNCHANGED <<op, sector, applied, reg, overlapped>>

Next ==
    \/ \E r \in Requests, s \in Sectors : InvokeMutation(r, s) \/ InvokeRead(r, s)
    \/ \E r \in Requests : Apply(r) \/ ReturnMutation(r) \/ ReturnRead(r)

Spec == Init /\ [][Next]_vars

=============================================================================
