------------------------------- MODULE Mailbox -------------------------------
(* What a network manager promises the game for the packets of the other    *)
(* players: what is read as a player's was said by him, each packet at most *)
(* once and in the order he said them; what is not lost is read in the end. *)
(* WolManager and UdpManager implement this specification.                  *)
EXTENDS Naturals, Sequences

CONSTANT Player

VARIABLES said,    \* said[p]: how many packets player p has said
          heard,   \* heard[p]: the packets read as those of p, <<who, number>>
          lost     \* lost[p]: the numbers of those that will never be read

vars == <<said, heard, lost>>

Read(p) == {heard[p][i][2] : i \in DOMAIN heard[p]}

Init == /\ said = [p \in Player |-> 0]
        /\ heard = [p \in Player |-> << >>]
        /\ lost = [p \in Player |-> {}]

(* A packet may be lost as soon as it is said. *)
Say(p) == /\ said' = [said EXCEPT ![p] = @ + 1]
          /\ \/ lost' = lost
             \/ lost' = [lost EXCEPT ![p] = @ \cup {said[p] + 1}]
          /\ UNCHANGED heard

Lose == /\ lost' \in [Player -> SUBSET UNION {1 .. said[p] : p \in Player}]
        /\ \A p \in Player : lost[p] \subseteq lost'[p] /\ lost'[p] \cap Read(p) = {}
        /\ UNCHANGED <<said, heard>>

(* The first of his packets that is neither read nor lost. *)
Hear(p) == /\ \E n \in 1 .. said[p] \ (lost[p] \cup Read(p)) :
                 /\ \A k \in 1 .. said[p] \ (lost[p] \cup Read(p)) : n <= k
                 /\ heard' = [heard EXCEPT ![p] = Append(@, <<p, n>>)]
           /\ UNCHANGED <<said, lost>>

Next == Lose \/ \E p \in Player : Say(p) \/ Hear(p)

Safety == Init /\ [][Next]_vars
Spec == Safety /\ \A p \in Player : WF_vars(Hear(p))
==============================================================================
