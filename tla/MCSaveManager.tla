---------------------------- MODULE MCSaveManager ----------------------------
(* SaveManager with interchangeable files. *)
EXTENDS SaveManager

Symmetry == Permutations(Files)
=============================================================================
