-------------------------- MODULE MCCodexInjection --------------------------
(***************************************************************************)
(* CodexInjection with three processes, of any kinds: sessions, commands   *)
(* that inject, restores.  Of two texts one has a base URL of the user.    *)
(***************************************************************************)
EXTENDS CodexInjection, TLC

Symmetry == Permutations(Pids) \union Permutations(Args)

=============================================================================
