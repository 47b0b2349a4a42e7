-------------------------- MODULE MCContentRouter --------------------------
(***************************************************************************)
(* Instances of ContentRouter for TLC.                                     *)
(***************************************************************************)
EXTENDS ContentRouter, TLC

\* Callers are only ever compared.
CallerSymmetry == Permutations(Callers)

=============================================================================
