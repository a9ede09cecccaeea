----------------------------- MODULE MCDisplay -----------------------------
(***************************************************************************)
(* An instance of Display for TLC: both transports, which run the same     *)
(* code and can be exchanged.                                              *)
(***************************************************************************)
EXTENDS Display, TLC

Exchange == Permutations(Writers)
=============================================================================
