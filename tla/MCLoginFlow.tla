----------------------------- MODULE MCLoginFlow -----------------------------
(***************************************************************************)
(* LoginFlow with two accounts, of which one may log in twice, and two     *)
(* processes that refresh them.                                            *)
(***************************************************************************)
EXTENDS LoginFlow, TLC

Symmetry == Permutations(Accounts)

OneFlow  == 1..1
TwoFlows == 1..2

=============================================================================
