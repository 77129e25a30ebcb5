--------------------------- MODULE MCRoomBuffering ---------------------------
(* Small rooms of viewers for TLC.                                          *)
EXTENDS RoomBuffering, TLC

Symmetry == Permutations(Instances) \cup Permutations(Sockets) \cup Permutations(Handlers)
=============================================================================
