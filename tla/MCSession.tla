----------------------------- MODULE MCSession -----------------------------
(***************************************************************************)
(* Small instances of Session.                                             *)
(***************************************************************************)
EXTENDS Session, TLC

Symmetry == Permutations(Conns)
=============================================================================
