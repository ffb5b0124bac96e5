------------------------------ MODULE WolManager ------------------------------
(***************************************************************************)
(* WSManagerClass (CODE/WSMGR.CPP): the network manager of games played    *)
(* over the relay server, on one machine, from the lobby to the shutdown   *)
(* of one session.                                                         *)
(*                                                                         *)
(* The server keeps the frames for this machine in order: "wire".  Service *)
(* handles every frame that has arrived; it is modelled frame by frame,    *)
(* and a call that finds fewer frames arrived is one that ends earlier.    *)
(* Sending has no state here: the frame goes to the socket.  The queues of *)
(* global messages and of lobby frames are those of the dialogs.           *)
(***************************************************************************)
EXTENDS Naturals, Sequences, FiniteSets

CONSTANTS
    Player,          \* the other players, by client id
    Order,           \* the dialog's list Players: every player once
    IdOf,            \* the player's id in the game, Build_MultiplayerID
    MaxConnections,  \* MAX_CONNECTIONS
    MaxQueued,       \* MAX_QUEUED_MESSAGES
    Lot              \* bound: packets a player ever says

\* What the game and the dialogs see to; assumed where a module instantiates this one.
PlayersListed ==
    /\ Player \subseteq Nat \ {0} /\ IsFiniteSet(Player)
    /\ Order \in Seq(Player) /\ \A p \in Player : \E i \in DOMAIN Order : Order[i] = p
    /\ \A i, j \in DOMAIN Order : Order[i] = Order[j] => i = j
    /\ IdOf \in [Player -> Nat \ {0}]
    /\ \A p, q \in Player : IdOf[p] = IdOf[q] => p = q
SizesFit ==
    /\ MaxConnections \in Nat /\ Cardinality(Player) <= MaxConnections
    /\ MaxQueued \in Nat /\ Lot \in Nat

VARIABLES
    link,     \* Connected and LoggedIn
    begun,    \* the dialog has created the connections
    conns,    \* Connections: slots
    private,  \* queue of packets with the connection's id
    pending,  \* queue of packets of clients that have no connection
    wire,     \* frames the server has sent this machine
    seated,   \* players in this game, for the server
    said,     \* packets each player has sent
    heard,    \* history: the packets read under each player's id
    excused   \* history: players a packet of whose may have been given up

manager == <<link, begun, conns, private, pending>>
vars == <<manager, wire, seated, said, heard, excused>>

Slot == 1 .. MaxConnections
Free == [used |-> FALSE, id |-> 0, cid |-> 0]
FirstOf(S) == IF S = {} THEN 0 ELSE CHOOSE i \in S : \A j \in S : i <= j
PlayerOf(id) == CHOOSE p \in Player : IdOf[p] = id

SlotOfId(cs, id) == FirstOf({i \in Slot : cs[i].used /\ cs[i].id = id})
SlotOfCid(cs, c) == FirstOf({i \in Slot : cs[i].used /\ cs[i].cid = c})

\* The elements of s at the places in K, in their order.
Only(s, K) ==
    LET kept[i \in 0 .. Len(s)] ==
            IF i = 0 THEN << >>
            ELSE IF i \in K THEN Append(kept[i - 1], s[i]) ELSE kept[i - 1]
    IN  kept[Len(s)]

\* Connection_ID(0), Connection_ID(1), ...: the used slots in order.
Ids == Only([i \in Slot |-> conns[i].id], {i \in Slot : conns[i].used})

\* Queue_Message: refused when the queue is full.
Room(queue) == Len(queue) < MaxQueued
Queued_NoLimit(queue, m) == Append(queue, m)
Queued(queue, m) == IF Room(queue) THEN Append(queue, m) ELSE queue

Bound(m, id) == [id |-> id, from |-> m.from, n |-> m.n]
Least(a, b) == IF a <= b THEN a ELSE b

(***************************************************************************)
(* Connections.  A table is [conns, private, pending].                     *)
(***************************************************************************)
Table == [conns |-> conns, private |-> private, pending |-> pending]

OfClient(q, c) == Only(q, {i \in DOMAIN q : q[i].from = c})
Purge_Private_For_Connection(q, id) == Only(q, {i \in DOMAIN q : q[i].id # id})
Purge_Pending_Private_For_Cid(q, c) == Only(q, {i \in DOMAIN q : q[i].from # c})

\* Promote_Pending_Private: what finds no room any more is freed.
Promoted_NewestFirst(t, c, id) ==
    LET his  == OfClient(t.pending, c)
        fits == Least(Len(his), MaxQueued - Len(t.private))
    IN  [t EXCEPT !.pending = Purge_Pending_Private_For_Cid(@, c),
                  !.private = @ \o [i \in 1 .. fits |-> Bound(his[fits + 1 - i], id)]]
Promoted(t, c, id) ==
    LET his  == OfClient(t.pending, c)
        fits == Least(Len(his), MaxQueued - Len(t.private))
    IN  [t EXCEPT !.pending = Purge_Pending_Private_For_Cid(@, c),
                  !.private = @ \o [i \in 1 .. fits |-> Bound(his[i], id)]]

\* Create_Connection_By_Cid takes the first slot that is free or has this id
\* or client already.
Created(t, id, c) ==
    LET i == FirstOf({i \in Slot : ~t.conns[i].used \/ t.conns[i].id = id
                                   \/ t.conns[i].cid = c})
    IN  IF i = 0 THEN t
        ELSE Promoted([t EXCEPT !.conns[i] = [used |-> TRUE, id |-> id, cid |-> c]], c, id)

\* Delete_Connection, with the two purges.
Deleted_OnlyPending(t, i) ==
    [conns   |-> [t.conns EXCEPT ![i] = Free],
     private |-> t.private,
     pending |-> Purge_Pending_Private_For_Cid(t.pending, t.conns[i].cid)]
Deleted_ClearsQueue(t, i) ==
    [conns   |-> [t.conns EXCEPT ![i] = Free],
     private |-> << >>,
     pending |-> Purge_Pending_Private_For_Cid(t.pending, t.conns[i].cid)]
Deleted(t, i) ==
    [conns   |-> [t.conns EXCEPT ![i] = Free],
     private |-> Purge_Private_For_Connection(t.private, t.conns[i].id),
     pending |-> Purge_Pending_Private_For_Cid(t.pending, t.conns[i].cid)]

Becomes(t) == conns' = t.conns /\ private' = t.private /\ pending' = t.pending
Excuse(S) == excused' = excused \cup S

(***************************************************************************)
(* The server's side of the connection (server.zig).                       *)
(***************************************************************************)
\* handleRelayBroadcast: a packet of p for everyone in the game.
Say(p) ==
    /\ link /\ p \in seated
    /\ said[p] < Lot
    /\ said' = [said EXCEPT ![p] = @ + 1]
    /\ wire' = Append(wire, [from |-> p, n |-> said[p] + 1])
    /\ UNCHANGED <<manager, seated, heard, excused>>

\* removeFromGame, on request or when p is gone: PEER_LEFT, packet number 0.
Leave(p) ==
    /\ link /\ p \in seated
    /\ seated' = seated \ {p}
    /\ wire' = Append(wire, [from |-> p, n |-> 0])
    /\ UNCHANGED <<manager, said, heard, excused>>

(***************************************************************************)
(* The manager's operations.                                               *)
(***************************************************************************)
\* The dialog creates all connections once the host has said GO.
Begin ==
    LET table[i \in 0 .. Len(Order)] ==
            IF i = 0 THEN Table ELSE Created(table[i - 1], IdOf[Order[i]], Order[i])
    IN
    /\ ~begun
    /\ begun' = TRUE
    /\ Becomes(table[Len(Order)])
    /\ UNCHANGED <<link, wire, seated, said, heard, excused>>

\* Service: OP_RELAY_FROM.
ServiceRelay ==
    LET m == Head(wire)
        i == SlotOfCid(conns, m.from)
    IN
    /\ link /\ wire # << >> /\ m.n > 0
    /\ wire' = Tail(wire)
    /\ IF i # 0
       THEN /\ private' = Queued(private, Bound(m, conns[i].id))
            /\ excused' = IF Room(private) THEN excused ELSE excused \cup {m.from}
            /\ UNCHANGED pending
       ELSE /\ pending' = Queued(pending, m)
            /\ excused' = IF Room(pending) THEN excused ELSE excused \cup {m.from}
            /\ UNCHANGED private
    /\ UNCHANGED <<link, begun, conns, seated, said, heard>>

\* Service: OP_PEER_LEFT.
ServiceLeft ==
    LET p == Head(wire).from
        purged == [Table EXCEPT !.pending = Purge_Pending_Private_For_Cid(@, p)]
        i == SlotOfCid(conns, p)
    IN
    /\ link /\ wire # << >> /\ Head(wire).n = 0
    /\ wire' = Tail(wire)
    /\ Becomes(IF i = 0 THEN purged
               ELSE Deleted(purged, SlotOfId(conns, conns[i].id)))
    /\ Excuse({p})
    /\ UNCHANGED <<link, begun, seated, said, heard>>

Service == ServiceRelay \/ ServiceLeft

\* Get_Private_Message
Get ==
    LET m == Head(private) IN
    /\ private # << >>
    /\ private' = Tail(private)
    /\ heard' = [heard EXCEPT ![PlayerOf(m.id)] = Append(@, <<m.from, m.n>>)]
    /\ UNCHANGED <<link, begun, conns, pending, wire, seated, said, excused>>

\* Delete_Connection, called by the game.
Delete(id) ==
    LET i == SlotOfId(conns, id) IN
    /\ i # 0
    /\ Becomes(Deleted(Table, i))
    /\ Excuse({PlayerOf(id)})
    /\ UNCHANGED <<link, begun, wire, seated, said, heard>>

\* Service finds the connection to the server failed or closed.
LinkLost ==
    /\ link
    /\ link' = FALSE
    /\ wire' = << >>
    /\ Excuse(Player)
    /\ UNCHANGED <<begun, conns, private, pending, seated, said, heard>>

\* Shutdown: the last calls of Service are steps of Service before this one.
Shutdown ==
    /\ begun
    /\ link' = FALSE
    /\ wire' = << >>
    /\ Becomes([conns |-> [i \in Slot |-> Free], private |-> << >>, pending |-> << >>])
    /\ Excuse(Player)
    /\ UNCHANGED <<begun, seated, said, heard>>

Init ==
    /\ link = TRUE /\ begun = FALSE
    /\ conns = [i \in Slot |-> Free]
    /\ private = << >> /\ pending = << >> /\ wire = << >>
    /\ seated = Player
    /\ said = [p \in Player |-> 0]
    /\ heard = [p \in Player |-> << >>]
    /\ excused = {}

Next ==
    \/ \E p \in Player : Say(p) \/ Leave(p) \/ Delete(IdOf[p])
    \/ Begin \/ Service \/ Get \/ LinkLost \/ Shutdown

Fairness == WF_vars(Begin) /\ WF_vars(Service) /\ WF_vars(Get)
Spec == Init /\ [][Next]_vars /\ Fairness
-----------------------------------------------------------------------------
TypeOK ==
    /\ link \in BOOLEAN /\ begun \in BOOLEAN
    /\ conns \in [Slot -> {Free} \cup [used : {TRUE}, id : Nat \ {0}, cid : Player]]
    /\ \A i \in DOMAIN private : private[i] \in [id : Nat \ {0}, from : Player, n : 1 .. Lot]
    /\ \A i \in DOMAIN pending : pending[i] \in [from : Player, n : 1 .. Lot]
    /\ \A i \in DOMAIN wire : wire[i] \in [from : Player, n : 0 .. Lot]
    /\ Len(private) <= MaxQueued /\ Len(pending) <= MaxQueued
    /\ seated \subseteq Player /\ excused \subseteq Player
    /\ said \in [Player -> 0 .. Lot]

(* Every packet waits where it will be looked for: one that waits for the    *)
(* game was said by the player of a connection that exists, and none of a    *)
(* player who has a connection waits among those of clients without one      *)
(* (Create_Connection_By_Cid, Delete_Connection and Service keep the two     *)
(* queues and the table together).                                           *)
WaitsWhereRead ==
    /\ \A i \in DOMAIN private :
          \E j \in Slot : conns[j] = [used |-> TRUE, id |-> private[i].id, cid |-> private[i].from]
    /\ \A i \in DOMAIN pending : SlotOfCid(conns, pending[i].from) = 0

InQueue(q, p) == {q[i].n : i \in {j \in DOMAIN q : q[j].from = p}}
Heard(p) == {heard[p][i][2] : i \in DOMAIN heard[p]}
Awaited(p) == IF begun /\ SlotOfCid(conns, p) = 0 THEN {}
              ELSE InQueue(private, p) \cup InQueue(pending, p) \cup InQueue(wire, p)

\* The packets of p that will never be read.
Lost(p) == 1 .. said[p] \ (Heard(p) \cup Awaited(p))

(* A player's packets are lost only when a queue was full when one of them   *)
(* came, the player left or was dropped, or this machine's session ended:    *)
(* nothing done for one player costs another a packet.                       *)
LostWithCause == \A p \in Player : Lost(p) # {} => p \in excused

Promise == INSTANCE Mailbox WITH lost <- [p \in Player |-> Lost(p)]

(* The manager keeps the promise of a network manager to the game.           *)
ImplementsMailbox == Promise!Spec
=============================================================================
