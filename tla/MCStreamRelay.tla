---------------------------- MODULE MCStreamRelay ----------------------------
(***************************************************************************)
(* StreamRelay on two turns, which may be under way at once: a             *)
(* conversation as long as the snapshot's cap on an entry, and one longer. *)
(***************************************************************************)
EXTENDS StreamRelay

MCTurns == 1..2
BothKinds == {"native", "bridged"}

=============================================================================
