------------------------ MODULE MCDocumentIngestion ------------------------
(***************************************************************************)
(* DocumentIngestion on a small instance: documents and jobs are model     *)
(* values, and jobs are interchangeable.                                   *)
(***************************************************************************)
EXTENDS DocumentIngestionInvariant, TLC

Symmetry == Permutations(Jobs)

=============================================================================
