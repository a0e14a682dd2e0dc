---------------------------- MODULE MCBlockCache ----------------------------
(* Model-checking instance of BlockCache: threads of two volumes. *)
EXTENDS BlockCache, TLC

CONSTANTS t1, t2, t3

TwoVolumes == (t1 :> 1) @@ (t2 :> 1) @@ (t3 :> 2)

=============================================================================
