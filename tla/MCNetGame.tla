------------------------------ MODULE MCNetGame ------------------------------
(* Two players whose ids are the other way round than their places, for TLC. *)
EXTENDS NetGame, TLC

TwoInOrder == <<2, 1>>
TwoIds == 1 :> 20 @@ 2 :> 10
=============================================================================
