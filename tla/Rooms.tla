------------------------------- MODULE Rooms -------------------------------
(***************************************************************************)
(* What the lobby server promises about games, without connections,        *)
(* frames, queues or an event loop: who sits in which game, who hosts it   *)
(* and which games have begun.  A client sits in at most one game, a game  *)
(* exists exactly while somebody sits in it, its host sits in it, only the *)
(* host begins it, and nobody comes in once it has begun.                  *)
(***************************************************************************)
EXTENDS Naturals

CONSTANTS Client, Game

VARIABLES
    seat,    \* Client -> the number of its game, 0 for none
    host,    \* open game -> its host
    begun    \* the games that have begun

rooms == <<seat, host, begun>>

RoomsInit ==
    /\ seat = [c \in Client |-> 0]
    /\ host = [g \in {} |-> 0]
    /\ begun = {}

Sitting(g) == {c \in Client : seat[c] = g}

Open(c, g) ==
    /\ seat[c] = 0
    /\ g \in Game \ DOMAIN host
    /\ seat' = [seat EXCEPT ![c] = g]
    /\ host' = [h \in DOMAIN host \cup {g} |-> IF h = g THEN c ELSE host[h]]
    /\ UNCHANGED begun

Enter(c, g) ==
    /\ seat[c] = 0
    /\ g \in DOMAIN host \ begun
    /\ seat' = [seat EXCEPT ![c] = g]
    /\ UNCHANGED <<host, begun>>

\* The last one out closes the game; a host who leaves hands it to a player.
Leave(c) ==
    LET g == seat[c] IN
    /\ g # 0
    /\ seat' = [seat EXCEPT ![c] = 0]
    /\ \/ /\ Sitting(g) = {c}
          /\ host' = [h \in DOMAIN host \ {g} |-> host[h]]
          /\ begun' = begun \ {g}
       \/ \E d \in Sitting(g) \ {c} :
             /\ host[g] # c => d = host[g]
             /\ host' = [host EXCEPT ![g] = d]
             /\ UNCHANGED begun

Begin(g) ==
    /\ g \in DOMAIN host
    /\ begun' = begun \cup {g}
    /\ UNCHANGED <<seat, host>>

RoomsNext ==
    \/ \E c \in Client : Leave(c) \/ \E g \in Game : Open(c, g) \/ Enter(c, g)
    \/ \E g \in Game : Begin(g)

RoomsSpec == RoomsInit /\ [][RoomsNext]_rooms
=============================================================================
