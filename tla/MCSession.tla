----------------------------- MODULE MCSession -----------------------------
(* Session with interchangeable names. *)
EXTENDS Session, TLC

NameSymmetry == Permutations(Name)
=============================================================================
