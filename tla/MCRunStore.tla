----------------------------- MODULE MCRunStore -----------------------------
(***************************************************************************)
(* Small instances of RunStore: handlers of DELETE are interchangeable.    *)
(***************************************************************************)
EXTENDS RunStore, TLC

DeleterSymmetry == Permutations(Deleters)
=============================================================================
