----------------------------- MODULE MCGetHandler -----------------------------
(***************************************************************************)
(* The GET handler for TLC.                                                *)
(***************************************************************************)
EXTENDS GetHandler, TLC

\* Workers are interchangeable.
GetSymmetry == Permutations(Workers)
=============================================================================
