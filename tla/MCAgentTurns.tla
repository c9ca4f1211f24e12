---------------------------- MODULE MCAgentTurns ----------------------------
(* An Agent in two Rooms: two questions in one, one in the other. *)
EXTENDS AgentTurns, TLC

CONSTANTS a, b, q1, q2, q3

MCRoomOf == [q \in Questions |-> IF q = q3 THEN b ELSE a]
=============================================================================
