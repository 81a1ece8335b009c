-------------------------- MODULE MCComboFailover --------------------------
(***************************************************************************)
(* Two or three targets, and the combo configurations an operator may      *)
(* save: in order, weighted without and with stickiness.                   *)
(***************************************************************************)
EXTENDS ComboFailover, TLC

CONSTANTS x, y, z

combos(strategy, sticky, order, weights) ==
  [strategy |-> strategy, stickyLimit |-> sticky, targets |-> order,
   weight |-> weights]

MCConfigs ==
  {combos("failover", 1, <<x, y>>, [t \in {x, y, z} |-> 1]),
   combos("round-robin", 1, <<x, y, z>>, x :> 2 @@ y :> 1 @@ z :> 1),
   combos("round-robin", 2, <<y, x>>, x :> 2 @@ y :> 1 @@ z :> 1)}

MCFailures ==
  {[status |-> 503, code |-> "server_is_overloaded"],
   [status |-> 400, code |-> "context_length_exceeded"]}

Symmetry == Permutations(Requests)

=============================================================================
