------------------------ MODULE MCCodexTokenRefresh ------------------------
(* Calls in one process, or in two that share the configuration directory. *)
EXTENDS CodexTokenRefresh, TLC

CONSTANTS c1, c2, c3, here, there

OneProcess   == c1 :> here @@ c2 :> here @@ c3 :> here
TwoProcesses == c1 :> here @@ c2 :> here @@ c3 :> there

Symmetry == Permutations(Calls)

=============================================================================
