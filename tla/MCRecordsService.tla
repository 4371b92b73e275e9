-------------------------- MODULE MCRecordsService --------------------------
(***************************************************************************)
(* RecordsService on a small instance: requests and earlier uploads are    *)
(* model values, interchangeable among themselves.                         *)
(***************************************************************************)
EXTENDS RecordsServiceInvariant, TLC

Symmetry == Permutations(Requests) \cup Permutations(Earlier)

=============================================================================
