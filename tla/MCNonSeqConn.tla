----------------------------- MODULE MCNonSeqConn -----------------------------
(* Values of NonSeqConn's constants for TLC.                                   *)
EXTENDS NonSeqConn

Budget(l, r) == [e \in End |-> IF e = Left THEN l ELSE r]

None     == Budget(0, 0)
OneWay1  == Budget(1, 0)
OneWay2  == Budget(2, 0)
OneWay3  == Budget(3, 0)
OneWay4  == Budget(4, 0)

(* The payload of a message is its place in the stream, so that any loss,      *)
(* repetition or exchange of two messages shows.  It restricts nothing but the *)
(* payload of SendAcked.                                                       *)
Numbered == \A e \in End : \A n \in DOMAIN sent[e] : sent[e][n] = n
===============================================================================
