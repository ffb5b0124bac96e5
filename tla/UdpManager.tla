------------------------------ MODULE UdpManager ------------------------------
(***************************************************************************)
(* UDPManagerClass (CODE/UDPMGR.CPP): the network manager of games played  *)
(* over datagrams or over one TCP stream, on one machine.                  *)
(*                                                                         *)
(* The connection of a player is taken for what NonSeqConn is shown to     *)
(* implement, a reliable channel: packets over datagrams arrive in order,  *)
(* as far as the receive queue has room.  Over TCP the manager asks for no *)
(* acknowledgement, so what the queue refuses is lost.                     *)
(***************************************************************************)
EXTENDS Naturals, Sequences, FiniteSets

CONSTANTS
    Player,      \* the other players, by address
    Order,       \* the dialog's list Players: every player once
    IdOf,        \* the player's id in the game
    Transport,   \* of {"datagram", "stream"}: Winsock.Uses_Reliable_Transport
    ConnectMax,  \* CONNECT_MAX
    MaxReceive,  \* receive queue of a connection
    MaxSend,     \* send queue of a connection
    Lot,         \* bound: packets a player ever says
    Casts        \* bound: packets this machine broadcasts

\* What the game and the dialogs see to; assumed where a module instantiates this one.
PlayersListed ==
    /\ Player \subseteq Nat \ {0} /\ IsFiniteSet(Player)
    /\ Order \in Seq(Player) /\ \A p \in Player : \E i \in DOMAIN Order : Order[i] = p
    /\ \A i, j \in DOMAIN Order : Order[i] = Order[j] => i = j
    /\ IdOf \in [Player -> Nat \ {0}]
    /\ \A p, q \in Player : IdOf[p] = IdOf[q] => p = q
SizesFit ==
    /\ Transport \subseteq {"datagram", "stream"}
    /\ ConnectMax \in Nat /\ Cardinality(Player) <= ConnectMax
    /\ MaxReceive \in Nat \ {0} /\ MaxSend \in Nat \ {0}
    /\ Lot \in Nat /\ Casts \in Nat

VARIABLES
    transport,  \* how the packets travel, fixed for a session
    begun,      \* the dialog has created the connections
    conns,      \* Connection[0 .. NumConnections - 1]: their players
    cur,        \* CurConnection
    came,       \* came[p]: how many of p's packets have come off the network
    inbox,      \* inbox[p]: packets of p his connection holds for the game
    sendQ,      \* sendQ[p]: packets in the send queue of p's connection
    casts,      \* how many broadcasts there have been
    waits,      \* history: how often others were read while p had a packet
    said, heard, excused   \* as in WolManager

ins == <<came, inbox, waits>>
outs == <<sendQ, casts>>
vars == <<transport, begun, conns, cur, ins, outs, said, heard, excused>>

Connected(p) == \E i \in DOMAIN conns : conns[i] = p
PlayerOf(id) == CHOOSE p \in Player : IdOf[p] = id
Ids == [i \in DOMAIN conns |-> IdOf[conns[i]]]
RemoveAt(s, i) == [j \in 1 .. Len(s) - 1 |-> IF j < i THEN s[j] ELSE s[j + 1]]

\* CurConnection is set to the first again behind the last of n connections.
Wrapped(i, n) == IF i >= n THEN 0 ELSE i

Say(p) ==
    /\ said[p] < Lot
    /\ said' = [said EXCEPT ![p] = @ + 1]
    /\ UNCHANGED <<transport, begun, conns, cur, ins, outs, heard, excused>>

\* Create_Connection for every player the dialog lists, as far as there is room.
Least(a, b) == IF a <= b THEN a ELSE b
Begin ==
    /\ ~begun
    /\ begun' = TRUE
    /\ conns' = SubSeq(Order, 1, Least(Len(Order), ConnectMax))
    /\ UNCHANGED <<transport, cur, ins, outs, said, heard, excused>>

\* Service finds a packet of p.  Over TCP one that meets no connection, or
\* one with no more than one free slot, is gone; a datagram will be repeated.
Accepts(p) == Connected(p) /\
    Len(inbox[p]) < IF transport = "stream" THEN MaxReceive - 1 ELSE MaxReceive

Take(p) ==
    /\ came[p] < said[p]
    /\ came' = [came EXCEPT ![p] = @ + 1]
    /\ inbox' = [inbox EXCEPT ![p] = Append(@, came[p] + 1)]
    /\ UNCHANGED excused

Miss(p) ==
    /\ came[p] < said[p]
    /\ came' = [came EXCEPT ![p] = @ + 1]
    /\ excused' = excused \cup {p}
    /\ UNCHANGED inbox

Receive(p) ==
    /\ IF Accepts(p) THEN Take(p) ELSE transport = "stream" /\ Miss(p)
    /\ UNCHANGED <<transport, begun, conns, cur, waits, outs, said, heard>>

Service == \E p \in Player : Receive(p)

\* Get_Private_Message asks each connection once, from CurConnection on.
Asked_FromFirst == [i \in 0 .. Len(conns) - 1 |-> conns[1 + i]]
Asked == LET n == Len(conns)
             first == Wrapped(cur, n)
         IN  [i \in 0 .. n - 1 |-> conns[1 + ((first + i) % n)]]

Get ==
    LET n == Len(conns)
        first == Wrapped(cur, n)
    IN
    \E i \in DOMAIN Asked :
        LET p == Asked[i] IN
        /\ inbox[p] # << >>
        /\ \A j \in 0 .. i - 1 : inbox[Asked[j]] = << >>
        /\ inbox' = [inbox EXCEPT ![p] = Tail(@)]
        /\ heard' = [heard EXCEPT ![p] = Append(@, <<p, Head(inbox[p])>>)]
        /\ cur' = (first + i + 1) % n
        /\ waits' = [q \in Player |-> IF q # p /\ Connected(q) /\ inbox[q] # << >>
                                      THEN waits[q] + 1 ELSE 0]
        /\ UNCHANGED <<transport, begun, conns, came, outs, said, excused>>

\* Send_Private_Message to all: first whether all queues have room, then all.
AllHaveRoom == \A i \in DOMAIN conns : sendQ[conns[i]] < MaxSend

\* Queue_Send of one connection refuses when its own queue is full.
Broadcast ==
    LET takes == {p \in Player : Connected(p) /\ sendQ[p] < MaxSend} IN
    /\ begun /\ conns # << >>
    /\ casts < Casts
    /\ casts' = casts + 1
    /\ IF AllHaveRoom
       THEN /\ sendQ' = [p \in Player |-> IF p \in takes THEN sendQ[p] + 1 ELSE sendQ[p]]
       ELSE UNCHANGED sendQ   \* SendOverflows
    /\ UNCHANGED <<transport, begun, conns, cur, ins, said, heard, excused>>

\* An entry leaves a send queue: acknowledged, or sent when that is enough.
Sent(p) ==
    /\ Connected(p)
    /\ sendQ[p] > 0
    /\ sendQ' = [sendQ EXCEPT ![p] = @ - 1]
    /\ UNCHANGED <<transport, begun, conns, cur, ins, casts, said, heard, excused>>

\* Delete_Connection, called by the game.
Delete(id) ==
    \E i \in DOMAIN conns :
        /\ IdOf[conns[i]] = id
        /\ conns' = RemoveAt(conns, i)
        /\ cur' = Wrapped(cur, Len(conns) - 1)
        /\ inbox' = [inbox EXCEPT ![conns[i]] = << >>]
        /\ sendQ' = [sendQ EXCEPT ![conns[i]] = 0]
        /\ excused' = excused \cup {conns[i]}
        /\ waits' = [p \in Player |-> 0]
        /\ UNCHANGED <<transport, begun, came, casts, said, heard>>

Init ==
    /\ transport \in Transport
    /\ begun = FALSE
    /\ conns = << >> /\ cur = 0
    /\ came = [p \in Player |-> 0]
    /\ inbox = [p \in Player |-> << >>]
    /\ sendQ = [p \in Player |-> 0]
    /\ casts = 0
    /\ waits = [p \in Player |-> 0]
    /\ said = [p \in Player |-> 0]
    /\ heard = [p \in Player |-> << >>]
    /\ excused = {}

Next ==
    \/ \E p \in Player : Say(p) \/ Sent(p) \/ Delete(IdOf[p])
    \/ Begin \/ Service \/ Get \/ Broadcast

Fairness == WF_vars(Begin) /\ WF_vars(Get) /\ \A p \in Player : WF_vars(Receive(p))
Spec == Init /\ [][Next]_vars /\ Fairness
-----------------------------------------------------------------------------
TypeOK ==
    /\ transport \in Transport /\ begun \in BOOLEAN
    /\ \A i \in DOMAIN conns : conns[i] \in Player
    /\ Len(conns) <= ConnectMax
    /\ cur \in 0 .. ConnectMax
    /\ came \in [Player -> 0 .. Lot] /\ said \in [Player -> 0 .. Lot]
    /\ \A p \in Player : /\ Len(inbox[p]) <= MaxReceive
                         /\ \A i \in DOMAIN inbox[p] : inbox[p][i] \in 1 .. Lot
    /\ sendQ \in [Player -> 0 .. MaxSend]
    /\ casts \in 0 .. Casts
    /\ excused \subseteq Player

(* A player who talks much does not keep the game from reading the others:   *)
(* while the connections stay, every other player is read at most once       *)
(* before one whose packet waits (Get_Private_Message, CurConnection).       *)
EveryoneIsRead == \A p \in Player : waits[p] < Cardinality(Player)

Heard(p) == {heard[p][i][2] : i \in DOMAIN heard[p]}
Held(p) == {inbox[p][i] : i \in DOMAIN inbox[p]}
Awaited(p) == IF begun /\ ~Connected(p) THEN {} ELSE Held(p) \cup came[p] + 1 .. said[p]
Lost(p) == 1 .. said[p] \ (Heard(p) \cup Awaited(p))

(* Packets are lost only over TCP, where a queue refused one, or when the    *)
(* player's connection was deleted.                                          *)
LostWithCause == \A p \in Player : Lost(p) # {} => p \in excused

Promise == INSTANCE Mailbox WITH lost <- [p \in Player |-> Lost(p)]

(* The manager keeps the promise of a network manager to the game.           *)
ImplementsMailbox == Promise!Spec
=============================================================================
