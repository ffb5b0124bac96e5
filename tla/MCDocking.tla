----------------------------- MODULE MCDocking -----------------------------
(* Small instances of the harvesters and refineries for TLC. *)
EXTENDS Docking

Anyone == BOOLEAN
=============================================================================
