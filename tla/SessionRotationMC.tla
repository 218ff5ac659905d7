------------------------- MODULE SessionRotationMC -------------------------
(***************************************************************************)
(* Small instances of SessionRotation.                                     *)
(***************************************************************************)
EXTENDS SessionRotation, TLC

\* Requests are interchangeable: no action tells two of them apart.
RequestSymmetry == Permutations(Requests)
=============================================================================
