--------------------------- MODULE MCCoordinator ---------------------------
(* Small instances of Coordinator for TLC.                                 *)
EXTENDS Coordinator

MCPayloads == {"valid", "raises", "invalid", "undecodable"}

MCValid == {"valid"}
=============================================================================
