-------------------------- MODULE MCReConnectRate --------------------------
(* The back-off with the shortest and the longest delays, connections that  *)
(* last just less than the window or as long as it, and a clock that is set *)
(* back or forward.                                                         *)
EXTENDS ReConnectRate

MCJumps == {-5000, 5000}
=============================================================================
