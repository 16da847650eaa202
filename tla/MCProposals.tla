----------------------------- MODULE MCProposals -----------------------------
(***************************************************************************)
(* Bounds of the model-checking runs of Proposals.  Requests and signers   *)
(* are interchangeable; ids are numbers because they are given out in      *)
(* order.                                                                  *)
(***************************************************************************)
EXTENDS Proposals, TLC

Symmetry == Permutations(Workers) \cup Permutations(Signers)
=============================================================================
