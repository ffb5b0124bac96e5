------------------------------ MODULE MCLockstep ------------------------------
(* How many commands each player gives, for TLC.                              *)
EXTENDS Lockstep

OnlyTwo   == [p \in Player |-> IF p = 2 THEN 1 ELSE 0]
TwiceTwo  == [p \in Player |-> IF p = 2 THEN 2 ELSE 0]
OneEach   == [p \in Player |-> 1]
TwoOne    == [p \in Player |-> IF p = 1 THEN 2 ELSE 1]
===============================================================================
