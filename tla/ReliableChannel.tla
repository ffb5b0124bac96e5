--------------------------- MODULE ReliableChannel ---------------------------
(* What a connection promises the game for the messages it is asked to      *)
(* acknowledge: in each direction the peer reads exactly the messages that  *)
(* were accepted for sending, once each, in the order they were accepted,   *)
(* and every accepted message is read in the end.  NonSeqConn is shown to   *)
(* implement this specification.                                            *)
EXTENDS Naturals, Sequences

CONSTANTS End,      \* the two ends of the channel
          Msg       \* message payloads

VARIABLES sent,     \* sent[e]: every message end e had accepted, in order
          got       \* got[e]: every message end e has read, in order

vars == <<sent, got>>

Init == /\ sent = [e \in End |-> << >>]
        /\ got  = [e \in End |-> << >>]

Send(e, m) == /\ sent' = [sent EXCEPT ![e] = Append(@, m)]
              /\ UNCHANGED got

(* The next message of the direction from -> to is read at "to". *)
Deliver(from, to) ==
  /\ from # to
  /\ Len(got[to]) < Len(sent[from])
  /\ got' = [got EXCEPT ![to] = Append(@, sent[from][Len(@) + 1])]
  /\ UNCHANGED sent

Next == \/ \E e \in End, m \in Msg : Send(e, m)
        \/ \E from, to \in End : Deliver(from, to)

Safety == Init /\ [][Next]_vars

Spec == Safety /\ \A from, to \in End : WF_vars(Deliver(from, to))
==============================================================================
