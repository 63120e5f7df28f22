---------------------------- MODULE MCAudioTurn ----------------------------
(* Instance of AudioTurn for TLC: the constants are numbers and strings.    *)
EXTENDS AudioTurn
=============================================================================
