---------------------------- MODULE MCStartupGate ----------------------------
(***************************************************************************)
(* Two gates at once, for TLC: the gates are alike, and so are the         *)
(* revisions of a configuration.  Only safety is checked with the symmetry. *)
(***************************************************************************)
EXTENDS StartupGate, TLC

Symmetry == Permutations(Gates) \cup Permutations(Revisions)
=============================================================================
