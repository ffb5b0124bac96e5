------------------------------- MODULE NetGame -------------------------------
(***************************************************************************)
(* The game over a network manager: Wait_For_Players, Execute_DoList and   *)
(* Handle_Timeout (CODE/QUEUE.CPP) read the packets of the other players   *)
(* and keep what they know of them in arrays that are indexed by the       *)
(* manager's Connection_Index.  Current_Network_Manager gives the game one *)
(* of two managers for the whole session.                                  *)
(*                                                                         *)
(* Packet n of a player is the one of his n-th frame; the last one of Lot  *)
(* carries his EXIT.                                                       *)
(***************************************************************************)
EXTENDS Naturals, Sequences, FiniteSets

CONSTANTS
    Kind,       \* of {"wol", "udp"}: the managers that may be chosen
    Player, Order, IdOf, Transport,
    MaxConnections, MaxQueued, ConnectMax, MaxReceive, MaxSend,
    Lot, Casts,
    SigningOff  \* players who go back to the lobby, and sign off there, while
                \* this machine still has a connection to them

ASSUME KindAssumption == Kind \subseteq {"wol", "udp"} /\ SigningOff \subseteq Player

VARIABLES
    kind,          \* GameToPlay == GAME_WOL or not
    theirFrame,    \* their_frame[]: the latest frame, by connection index
    unannounced,   \* history: a connection was deleted outside the lockstep
    begun, said, heard, excused,
    link, wconns, private, pending, wire, seated,
    transport, uconns, cur, came, inbox, sendQ, casts, waits

W == INSTANCE WolManager WITH conns <- wconns
U == INSTANCE UdpManager WITH conns <- uconns

ASSUME ManagerAssumption == W!PlayersListed /\ W!SizesFit /\ U!PlayersListed /\ U!SizesFit

shared == <<begun, said, heard, excused>>
wolVars == <<link, wconns, private, pending, wire, seated>>
udpVars == <<transport, uconns, cur, came, inbox, sendQ, casts, waits>>
gameVars == <<theirFrame, unannounced>>
vars == <<kind, gameVars, shared, wolVars, udpVars>>

Over(k) == kind = k /\ UNCHANGED kind
Wol == Over("wol") /\ UNCHANGED udpVars
Udp == Over("udp") /\ UNCHANGED wolVars

\* Connection_ID(0), ..., and Connection_Index, from 1 on, 0 for CONNECTION_NONE.
Ids == IF kind = "wol" THEN W!Ids ELSE U!Ids
IndexOf(p) == IF \E i \in DOMAIN Ids : Ids[i] = IdOf[p]
              THEN CHOOSE i \in DOMAIN Ids : Ids[i] = IdOf[p] ELSE 0
PlayerAt(i) == CHOOSE p \in Player : IdOf[p] = Ids[i]

(***************************************************************************)
(* Steps of the manager the game takes no part in.                         *)
(***************************************************************************)
WolRuns ==
    /\ Wol
    /\ \/ \E p \in Player : W!Say(p) \/ W!Leave(p)
       \/ W!Begin \/ W!ServiceRelay \/ W!LinkLost \/ W!Shutdown
    /\ UNCHANGED gameVars

\* PEER_LEFT deletes the connection at once.
WolPeerLeft ==
    /\ Wol
    /\ W!ServiceLeft
    /\ unannounced' = (unannounced \/ wconns' # wconns)
    /\ UNCHANGED theirFrame

UdpRuns ==
    /\ Udp
    /\ \/ \E p \in Player : U!Say(p) \/ U!Sent(p)
       \/ U!Begin \/ U!Service \/ U!Broadcast
    /\ UNCHANGED gameVars

(***************************************************************************)
(* The game.                                                               *)
(***************************************************************************)
Latest(p) == IF heard[p] = << >> THEN 0 ELSE heard[p][Len(heard[p])][2]
Greater(a, b) == IF a >= b THEN a ELSE b

\* Process_Receive_Packet: the frame of the packet, if it is a later one.
ReadPacket ==
    /\ \/ Wol /\ W!Get
       \/ Udp /\ U!Get
    /\ theirFrame' = [i \in DOMAIN theirFrame |->
            IF i \in DOMAIN Ids /\ heard'[PlayerAt(i)] # heard[PlayerAt(i)]
            THEN Greater(theirFrame[i], heard'[PlayerAt(i)][Len(heard'[PlayerAt(i)])][2])
            ELSE theirFrame[i]]
    /\ UNCHANGED unannounced

Delete(p) == \/ Wol /\ W!Delete(IdOf[p])
             \/ Udp /\ U!Delete(IdOf[p])

\* The entries behind the one at i move down; the last one stays.
Shifted_OneMore(i) ==
    [k \in DOMAIN theirFrame |->
        IF i < k /\ k < Len(Ids) THEN theirFrame[k + 1] ELSE theirFrame[k]]
Shifted(i) ==
    [k \in DOMAIN theirFrame |->
        IF i <= k /\ k < Len(Ids) THEN theirFrame[k + 1] ELSE theirFrame[k]]

\* Execute_DoList: an EXIT removes a player who has a connection.
ExecuteExit(p) ==
    /\ Latest(p) = Lot
    /\ IndexOf(p) # 0
    /\ theirFrame' = Shifted(IndexOf(p))
    /\ Delete(p)
    /\ UNCHANGED unannounced

Oldest == CHOOSE i \in DOMAIN Ids :
            /\ \A k \in DOMAIN Ids : theirFrame[i] <= theirFrame[k]
            /\ \A k \in 1 .. i - 1 : theirFrame[i] < theirFrame[k]

\* Handle_Timeout removes the player it finds to be the furthest behind, when
\* the clock of the wait runs out, whatever is still on its way.
HandleTimeout ==
    /\ begun /\ Ids # << >>
    /\ theirFrame' = Shifted(Oldest)
    /\ Delete(PlayerAt(Oldest))
    /\ UNCHANGED unannounced

\* Call_Back reads a NET_SIGN_OFF of p, whatever the game is doing.
SignOff(p) ==
    /\ p \in SigningOff
    /\ begun /\ IndexOf(p) # 0
    /\ Delete(p)
    /\ unannounced' = TRUE
    /\ UNCHANGED theirFrame

Init ==
    /\ kind \in Kind
    /\ W!Init /\ U!Init
    /\ theirFrame = [i \in 1 .. Cardinality(Player) |-> 0]
    /\ unannounced = FALSE

Next ==
    \/ WolRuns \/ WolPeerLeft \/ UdpRuns
    \/ ReadPacket \/ HandleTimeout
    \/ \E p \in Player : ExecuteExit(p) \/ SignOff(p)

\* The dialog creates the connections in the end, which nothing prevents; the
\* main loop runs, and what is repeated arrives.
Fairness ==
    /\ []<>begun
    /\ WF_vars(Wol /\ W!ServiceRelay /\ UNCHANGED gameVars)
    /\ WF_vars(WolPeerLeft)
    /\ \A p \in Player : WF_vars(Udp /\ U!Receive(p) /\ UNCHANGED gameVars)
    /\ WF_vars(ReadPacket)

Spec == Init /\ [][Next]_vars /\ Fairness
-----------------------------------------------------------------------------
TypeOK ==
    /\ kind \in Kind
    /\ theirFrame \in [1 .. Cardinality(Player) -> 0 .. Lot]
    /\ unannounced \in BOOLEAN
    /\ W!TypeOK /\ U!TypeOK

(* Every packet waits where it will be looked for, in WSManagerClass.        *)
WaitsWhereRead == kind = "wol" => W!WaitsWhereRead

(* No player keeps the game from reading the others, in UDPManagerClass.     *)
EveryoneIsRead == kind = "udp" => U!EveryoneIsRead

Lost(p) == IF kind = "wol" THEN W!Lost(p) ELSE U!Lost(p)

(* Whatever the game and the other players do, a player's packet is lost     *)
(* only when a queue refused one of his, he left or was removed, or the      *)
(* session ended.                                                            *)
LostWithCause == \A p \in Player : Lost(p) # {} => p \in excused

Promise == INSTANCE Mailbox WITH lost <- [p \in Player |-> Lost(p)]

(* Over either manager the game reads the packets of each player once and in *)
(* order, and in the end all that are not lost.                              *)
ImplementsMailbox == Promise!Spec

(* their_frame[i] is the latest frame read of the player of connection i,    *)
(* through all exits and timeouts (QUEUE.CPP:1997 and 2977), as long as      *)
(* connections are deleted only by the lockstep.                             *)
FramesAreTheirs ==
    unannounced \/ \A i \in DOMAIN Ids : theirFrame[i] = Latest(PlayerAt(i))
=============================================================================
