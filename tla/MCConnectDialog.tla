--------------------------- MODULE MCConnectDialog ---------------------------
(* An instance of ConnectDialog for TLC: one board, and text that reads as 0. *)
EXTENDS ConnectDialog

CONSTANT none

MCBoards == {17}
=============================================================================
