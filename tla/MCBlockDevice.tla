--------------------------- MODULE MCBlockDevice ---------------------------
(* A device of one hardware queue with two tags: a request of three        *)
(* sectors, which two threads share unevenly, and one of one sector.       *)
EXTENDS BlockDevice

CONSTANTS t1, t2, al, q1

MCQueueOf == [t \in Tags |-> q1]
MCSectors == [r \in Requests |-> IF r = t1 THEN 3 ELSE 1]

=============================================================================
