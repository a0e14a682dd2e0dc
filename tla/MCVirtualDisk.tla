---------------------------- MODULE MCVirtualDisk ----------------------------
(* Model-checking instances of VirtualDisk. *)
EXTENDS VirtualDisk, TLC

CONSTANTS s1, s2, s3

(* Replicas on two servers, as with two or more servers to choose from. *)
OnePair == {<<s1, s2>>}

(* A single valid server gets both replicas. *)
OneServer == {<<s1, s1>>}

(* First the pair s1, s2 is all there is, later only s3 (one valid server *)
(* gets both replicas): which of the two a GetBlocks sees is up to timing. *)
MovingPair == {<<s1, s2>>, <<s3, s3>>}

Symmetry == Permutations(Writers)

=============================================================================
