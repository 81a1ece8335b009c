-------------------------- MODULE MCWebSocketTurns --------------------------
(***************************************************************************)
(* WebSocketTurns on two sockets and one account, which a turn may also    *)
(* do without.  No set is symmetric: one of the properties is a liveness   *)
(* property.                                                               *)
(***************************************************************************)
EXTENDS WebSocketTurns

=============================================================================
