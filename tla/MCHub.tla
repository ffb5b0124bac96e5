------------------------------- MODULE MCHub -------------------------------
(* Small instances of the lobby server for TLC. *)
EXTENDS Hub

Two == 1 .. 2
Three == 1 .. 3
Four == 1 .. 4
=============================================================================
