----------------------------- MODULE MCProduction -----------------------------
(* A house with two factories; three instalments for each item.  Dear leaves  *)
(* a remainder with every instalment, and some instalments of Cheap are 0.    *)
EXTENDS Production

Price == [i \in Item |-> IF i = "Dear" THEN 5 ELSE 1]
===============================================================================
