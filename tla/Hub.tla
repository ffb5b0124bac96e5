-------------------------------- MODULE Hub --------------------------------
(***************************************************************************)
(* The relay and lobby server (server/src/server.zig): one thread, one     *)
(* poll loop over connection slots, channels and games kept as lists of    *)
(* client ids, and a queue of outgoing frames per connection.              *)
(*                                                                         *)
(* A connection and the client id it is given at its WebSocket upgrade are *)
(* one value of Client: ids are never used twice.  A round of the loop is  *)
(* Poll, then, slot by slot, the frames of one connection and the Finish   *)
(* of its turn; nothing else runs in between.  A queue of frames is kept   *)
(* as its length; of what the frames say, the players of a game are folded *)
(* into "roster" when they are queued, as the lobby dialog will read them. *)
(* Memory does not run out (the code turns that into a close).             *)
(***************************************************************************)
EXTENDS Naturals, FiniteSets, Sequences

CONSTANTS
    Client,      \* connections, in the order they may arrive
    Channel,     \* names of lobby channels, lower case
    MaxPlayers,  \* values of max_players a host may ask for; 0 is no limit
    TxLimit,     \* TX_SOFT_LIMIT, in frames
    Early,       \* clients that have said hello when the model starts
    Unruly,      \* bound: clients that also talk, close, read late and vanish
    MaxGames,    \* bound: games ever created
    MaxFrames,   \* bound: frames the clients ever send to come or change seats
    MaxTalk      \* bound: the other frames they ever send

ASSUME ClientAssumption == Client \subseteq Nat \ {0} /\ Early \subseteq Client /\ Unruly \subseteq Client
ASSUME LimitAssumption ==
    MaxPlayers \subseteq Nat /\ TxLimit \in Nat /\ MaxGames \in Nat
    /\ MaxFrames \in Nat /\ MaxTalk \in Nat

NoChannel == "no channel"
ASSUME ChannelAssumption == NoChannel \notin Channel

VARIABLES
    conns,         \* Server.conns: the slots, 0 for a free one
    pfds,          \* this round's poll results: POLLHUP
    ci, pi,        \* where the loop stands in conns (0: at poll) and in pfds
    served,        \* the connection at ci has had frames handled this turn
    state,         \* "out", then "http", "ws", and "gone" when removed
    alive,         \* whether the peer is still there
    loggedIn, channel, game,                \* Conn: WOL state
    wantsClose, afterFlush, peerClosed,     \* Conn: the closing flags
    tx,            \* Conn.tx: frames queued for the peer
    channels,      \* Server.channels: members in order, << >> when absent
    games, nextGame,                        \* Server.games, next_game_id
    frames, talk,  \* frames of either kind sent so far (bound)
    roster         \* history: Players of the dialogs, by the frames queued

loop == <<conns, pfds, ci, pi, served>>
flags == <<wantsClose, afterFlush, peerClosed>>
where == <<channel, game, channels, games, nextGame>>
vars == <<loop, state, alive, loggedIn, flags, tx, where, frames, talk, roster>>

Members(s) == {s[i] : i \in DOMAIN s}
Least(a, b) == IF a <= b THEN a ELSE b

\* ArrayList.swapRemove of the place c stands at: the last takes its place.
SwapRemove_NoShrink(s, c) ==
    IF c \notin Members(s) THEN s ELSE
    LET i == CHOOSE i \in DOMAIN s : s[i] = c
    IN  [j \in 1 .. Len(s) |-> IF j = i THEN s[Len(s)] ELSE s[j]]
SwapRemove(s, c) ==
    IF c \notin Members(s) THEN s ELSE
    LET i == CHOOSE i \in DOMAIN s : s[i] = c
    IN  [j \in 1 .. Len(s) - 1 |-> IF j = i THEN s[Len(s)] ELSE s[j]]

(***************************************************************************)
(* Frames.  An outbox gives every client the frames one handler sends it,  *)
(* in order.  sendWs refuses a frame when more than TxLimit are queued     *)
(* already and marks the connection for closing.                           *)
(***************************************************************************)
PeerLeft(c)    == [op |-> "peer_left", who |-> {c}]
GameMembers(g) == [op |-> "game_members", who |-> Members(g.members)]
Plain          == [op |-> "other"]  \* of channels, lists of games, chat, errors ...

Nothing   == [c \in Client |-> << >>]
To(S, f)  == [c \in Client |-> IF c \in S THEN <<f>> ELSE << >>]
a ++ b    == [c \in Client |-> a[c] \o b[c]]

\* Drain_Wol_Lobby_Control of c on one frame, with c's own game selected: a
\* list of members adds those that Players lacks, without c itself, and takes
\* nobody away; only PEER_LEFT does.  A dialog that has another game selected
\* ignores the list, and one that clears Players later begins anew: either
\* has, from these frames, no player that is missing here.
Reading(c, r, f) ==
    CASE f.op = "game_members" -> r \cup (f.who \ {c})
      [] f.op = "peer_left"    -> r \ f.who
      [] OTHER                 -> r

After(c, r, s) ==
    LET read[i \in 0 .. Len(s)] == IF i = 0 THEN r ELSE Reading(c, read[i - 1], s[i])
    IN  read[Len(s)]

Space(c) == IF tx[c] > TxLimit THEN 0 ELSE TxLimit + 1 - tx[c]

\* A connection in "removed" takes its queue with it.
SendExcept(out, removed) ==
    /\ tx' = [c \in Client |-> IF c \in removed THEN 0
                               ELSE tx[c] + Least(Len(out[c]), Space(c))]
    /\ wantsClose' = [c \in Client |-> wantsClose[c] \/ Len(out[c]) > Space(c)]
    /\ roster' = [c \in Client |->
                     IF wantsClose'[c] \/ c \in removed \/ game'[c] = 0 THEN {}
                     ELSE After(c, roster[c], out[c])]

Send(out) == SendExcept(out, {})

\* broadcastGameList reaches the clients that have said hello.
ToAll == To({c \in Client : state[c] = "ws" /\ loggedIn[c]}, Plain)

(***************************************************************************)
(* Leaving, as done on request and for a client that is gone.              *)
(***************************************************************************)
ChannelsWithout(c) ==
    IF channel[c] = NoChannel THEN channels
    ELSE [channels EXCEPT ![channel[c]] = SwapRemove(@, c)]

SaidInChannel(c) ==
    IF channel[c] = NoChannel THEN Nothing
    ELSE To(Members(ChannelsWithout(c)[channel[c]]), Plain)

Remaining(c) == SwapRemove(games[game[c]].members, c)

GamesWithout_NoHost(c) ==
    LET g == game[c] IN
    IF g \notin DOMAIN games THEN games
    ELSE IF Remaining(c) = << >> THEN [h \in DOMAIN games \ {g} |-> games[h]]
    ELSE [games EXCEPT ![g].members = Remaining(c),
                       ![g].host = IF @ = c THEN 0 ELSE @]
GamesWithout_ToLast(c) ==
    LET g == game[c] IN
    IF g \notin DOMAIN games THEN games
    ELSE IF Remaining(c) = << >> THEN [h \in DOMAIN games \ {g} |-> games[h]]
    ELSE [games EXCEPT ![g].members = Remaining(c),
                       ![g].host = IF @ = c THEN Remaining(c)[Len(Remaining(c))] ELSE @]
GamesWithout(c) ==
    LET g == game[c] IN
    IF g \notin DOMAIN games THEN games
    ELSE IF Remaining(c) = << >> THEN [h \in DOMAIN games \ {g} |-> games[h]]
    ELSE [games EXCEPT ![g].members = Remaining(c),
                       ![g].host = IF @ = c THEN Remaining(c)[1] ELSE @]

SaidInGame_MembersOnly(c) ==
    LET g == game[c] IN
    IF g \notin DOMAIN games \/ Remaining(c) = << >> THEN Nothing
    ELSE To(Members(Remaining(c)), GameMembers(GamesWithout(c)[g]))
SaidInGame(c) ==
    LET g == game[c] IN
    IF g \notin DOMAIN games \/ Remaining(c) = << >> THEN Nothing
    ELSE To(Members(Remaining(c)), PeerLeft(c))
         ++ To(Members(Remaining(c)), GameMembers(GamesWithout(c)[g]))

(***************************************************************************)
(* The frames of the connection whose turn it is.                          *)
(***************************************************************************)
Turn(c) == ci # 0 /\ conns[ci] = c

Moves == frames < MaxFrames /\ frames' = frames + 1 /\ UNCHANGED talk
Talks(c) == c \in Unruly /\ talk < MaxTalk /\ talk' = talk + 1 /\ UNCHANGED frames

\* A frame of c is handled: what all handlers of application frames share.
Frame(c) ==
    /\ Turn(c)
    /\ state[c] = "ws"
    /\ served' = TRUE
    /\ UNCHANGED <<conns, pfds, ci, pi, state, alive, afterFlush, peerClosed>>

Reply(c) == Send(To({c}, Plain))

\* handleRequest: the upgrade of /ws, or any other answer, which may ask for
\* the connection to be closed once it is flushed.
Http(c) ==
    /\ Turn(c)
    /\ state[c] = "http"
    /\ served' = TRUE
    /\ \/ Moves /\ state' = [state EXCEPT ![c] = "ws"] /\ UNCHANGED afterFlush
       \/ Talks(c) /\ \E keep \in BOOLEAN :
             afterFlush' = [afterFlush EXCEPT ![c] = ~keep] /\ UNCHANGED state
    /\ tx' = [tx EXCEPT ![c] = @ + 1]
    /\ UNCHANGED <<conns, pfds, ci, pi, alive, loggedIn, wantsClose, peerClosed, where, roster>>

Hello(c) ==
    /\ Frame(c) /\ Moves
    /\ loggedIn' = [loggedIn EXCEPT ![c] = TRUE]
    /\ UNCHANGED where
    /\ Reply(c)

\* An error (hello required, a bad frame, no such game ...), a channel_list.
Answer(c) ==
    /\ Frame(c) /\ Talks(c)
    /\ UNCHANGED <<loggedIn, where>>
    /\ Reply(c)

InChannel(c) == IF channel[c] = NoChannel THEN {} ELSE Members(channels[channel[c]])
InGame(c) == IF game[c] \notin DOMAIN games THEN {} ELSE Members(games[game[c]].members)
Playing(c) == game[c] \in DOMAIN games /\ games[game[c]].started

Chat(c) ==
    /\ Frame(c) /\ Talks(c)
    /\ loggedIn[c]
    /\ UNCHANGED <<loggedIn, where>>
    /\ \/ \E d \in {e \in Client : state[e] = "ws"} : Send(To({d}, Plain))
       \/ channel[c] # NoChannel /\ Send(To(InChannel(c), Plain))

\* handleRelayBroadcast: the game and, until it begins, the channel.
RelayBroadcast(c) ==
    LET others == (InGame(c) \cup IF Playing(c) THEN {} ELSE InChannel(c)) \ {c} IN
    /\ Frame(c) /\ Talks(c)
    /\ loggedIn[c]
    /\ others # {}
    /\ UNCHANGED <<loggedIn, where>>
    /\ Send(To(others, Plain))

RelayPrivate(c) ==
    /\ Frame(c) /\ Talks(c)
    /\ loggedIn[c]
    /\ UNCHANGED <<loggedIn, where>>
    /\ \E d \in InGame(c) \cup InChannel(c) : Send(To({d}, Plain))

\* handleChannelJoin leaves the old channel first, which may be this one.
ChannelJoin(c, name) ==
    LET members == Append(ChannelsWithout(c)[name], c) IN
    /\ Frame(c) /\ Moves
    /\ loggedIn[c]
    /\ channels' = [ChannelsWithout(c) EXCEPT ![name] = members]
    /\ channel' = [channel EXCEPT ![c] = name]
    /\ UNCHANGED <<loggedIn, game, games, nextGame>>
    /\ Send(SaidInChannel(c) ++ To({c}, Plain) ++ To({c}, Plain)
            ++ To(Members(members) \ {c}, Plain))

GameCreate(c, max) ==
    LET g == [host |-> c, max |-> max, started |-> FALSE, members |-> <<c>>]
        G == [h \in DOMAIN games \cup {nextGame} |-> IF h = nextGame THEN g ELSE games[h]]
    IN
    /\ Frame(c) /\ Moves
    /\ loggedIn[c] /\ game[c] = 0
    /\ nextGame <= MaxGames
    /\ games' = G
    /\ nextGame' = nextGame + 1
    /\ game' = [game EXCEPT ![c] = nextGame]
    /\ UNCHANGED <<loggedIn, channel, channels>>
    /\ Send(ToAll ++ To({c}, GameMembers(g)))

Joinable_Late(g) == g.max = 0 \/ Len(g.members) < g.max
Joinable(g) == ~g.started /\ (g.max = 0 \/ Len(g.members) < g.max)

GameJoin(c, gid) ==
    LET g == games[gid]
        G == [games EXCEPT ![gid].members = Append(@, c)]
    IN
    /\ Frame(c) /\ Moves
    /\ loggedIn[c] /\ game[c] = 0
    /\ gid \in DOMAIN games
    /\ Joinable(g)
    /\ games' = G
    /\ game' = [game EXCEPT ![c] = gid]
    /\ UNCHANGED <<loggedIn, channel, channels, nextGame>>
    /\ Send(ToAll ++ To(Members(G[gid].members), GameMembers(G[gid])))

GameLeave(c) ==
    /\ Frame(c) /\ Moves
    /\ game[c] # 0
    /\ games' = GamesWithout(c)
    /\ game' = [game EXCEPT ![c] = 0]
    /\ UNCHANGED <<loggedIn, channel, channels, nextGame>>
    /\ Send(SaidInGame(c) ++ ToAll)

\* handleGameStart: may be repeated, and needs no second player.
GameStart(c) ==
    LET G == [games EXCEPT ![game[c]].started = TRUE] IN
    /\ Frame(c) /\ Moves
    /\ loggedIn[c]
    /\ game[c] \in DOMAIN games
    /\ games[game[c]].host = c
    /\ games' = G
    /\ UNCHANGED <<loggedIn, channel, channels, game, nextGame>>
    /\ Send(To(InGame(c), Plain) ++ ToAll)

\* A WebSocket close frame is echoed and the rest flushed; a text frame, or
\* one that cannot be parsed, closes at once.
WsClose(c) ==
    /\ Turn(c) /\ state[c] = "ws"
    /\ Talks(c)
    /\ served' = TRUE
    /\ UNCHANGED <<conns, pfds, ci, pi, state, alive, loggedIn, peerClosed, where>>
    /\ \/ /\ Reply(c)
          /\ afterFlush' = [afterFlush EXCEPT ![c] = TRUE]
       \/ /\ wantsClose' = [wantsClose EXCEPT ![c] = TRUE]
          /\ UNCHANGED <<tx, roster, afterFlush>>

(***************************************************************************)
(* The loop.                                                               *)
(***************************************************************************)
Slots(cs) == {i \in DOMAIN cs : cs[i] # 0}

\* The first slot in use from i on, if pfds has an entry left; 0 is the poll.
SlotFrom(cs, fds, i, p) ==
    LET use == {j \in Slots(cs) : j >= i}
    IN  IF use = {} \/ p > Len(fds) THEN 0 ELSE CHOOSE j \in use : \A k \in use : j <= k

\* addConn: the first free slot, else a new one.
WithConn(cs, c) ==
    LET free == DOMAIN cs \ Slots(cs)
    IN  IF free = {} THEN Append(cs, c)
        ELSE [cs EXCEPT ![CHOOSE i \in free : \A k \in free : i <= k] = c]

\* The slots once the connections up to "last" have been accepted.
Accepted(last) ==
    LET slots[c \in 0 .. last] ==
            IF c = 0 THEN conns
            ELSE IF c \in Client /\ state[c] = "out" THEN WithConn(slots[c - 1], c)
            ELSE slots[c - 1]
    IN  slots[last]

\* poll, then acceptAll: pfds was built before the new connections, if there
\* are any, take their slots.  They arrive in the order of their numbers.
Poll ==
    LET used == SelectSeq(conns, LAMBDA c : c # 0) IN
    /\ ci = 0
    /\ pfds' = [i \in DOMAIN used |-> ~alive[used[i]]]
    /\ \E last \in {0} \cup {c \in Client : state[c] = "out"} :
          /\ last = 0 => used # << >>
          /\ conns' = Accepted(last)
          /\ state' = [c \in Client |-> IF state[c] = "out" /\ c <= last THEN "http"
                                        ELSE state[c]]
    /\ pi' = 1
    /\ ci' = SlotFrom(conns', pfds', 1, 1)
    /\ UNCHANGED <<served, alive, loggedIn, flags, tx, where, frames, talk, roster>>

Advance == /\ pi' = pi + 1
           /\ ci' = SlotFrom(conns', pfds, ci + 1, pi + 1)
           /\ served' = FALSE
           /\ UNCHANGED pfds

\* revents is 0 for this entry.
Pass ==
    /\ ci # 0
    /\ ~served /\ ~pfds[pi]
    /\ conns[ci] \in Unruly \/ tx[conns[ci]] = 0
    /\ UNCHANGED conns
    /\ Advance
    /\ UNCHANGED <<state, alive, loggedIn, flags, tx, where, frames, talk, roster>>

\* discardPendingTxIfClosing.
Discards_Polite(gone, shut, after) == shut /\ ~after
Discards(gone, shut, after) == gone \/ (shut /\ ~after)

\* The end of a turn: the peer's end of file, the flush of n frames, POLLHUP,
\* discardPendingTxIfClosing, and removeConn when nothing is left to send.
\* Next lets n be all of the queue or none: what a write that took part of it
\* leaves is as long as a queue flushed before the last of its frames came.
Finish(c, eof, n) ==
    LET hup   == pfds[pi]
        close == wantsClose[c] \/ eof
        left  == IF close THEN tx[c] ELSE tx[c] - n
        shut  == close \/ hup \/ (n > 0 /\ left = 0 /\ afterFlush[c])
        gone  == peerClosed[c] \/ eof \/ hup
        rest  == IF Discards(gone, shut, afterFlush[c]) THEN 0 ELSE left
    IN
    /\ Turn(c)
    /\ served \/ hup \/ eof \/ n > 0
    /\ eof => ~alive[c]
    /\ peerClosed' = [peerClosed EXCEPT ![c] = @ \/ eof \/ hup]
    /\ IF shut /\ rest = 0
         THEN /\ conns' = [conns EXCEPT ![ci] = 0]
              /\ state' = [state EXCEPT ![c] = "gone"]
              /\ channels' = ChannelsWithout(c)
              /\ games' = GamesWithout(c)
              /\ channel' = [channel EXCEPT ![c] = NoChannel]
              /\ game' = [game EXCEPT ![c] = 0]
              /\ loggedIn' = [loggedIn EXCEPT ![c] = FALSE]
              /\ SendExcept(SaidInChannel(c) ++ SaidInGame(c)
                            ++ IF game[c] = 0 THEN Nothing ELSE ToAll,
                            {c})
         ELSE /\ tx' = [tx EXCEPT ![c] = rest]
              /\ wantsClose' = [wantsClose EXCEPT ![c] = shut]
              /\ UNCHANGED <<conns, state, channels, games, channel, game, loggedIn, roster>>
    /\ Advance
    /\ UNCHANGED <<alive, afterFlush, nextGame, frames, talk>>

\* A peer that is connected goes away: its socket will report it.  In the
\* middle of a round this is the same as before it, when the turn of c is
\* still to come, or after it.
Vanish(c) ==
    /\ ci = 0
    /\ c \in Unruly /\ alive[c] /\ state[c] \in {"http", "ws"}
    /\ alive' = [alive EXCEPT ![c] = FALSE]
    /\ UNCHANGED <<loop, state, loggedIn, flags, tx, where, frames, talk, roster>>

\* The clients of Early are connected, have said hello and read the answer.
Init ==
    /\ conns \in {s \in [1 .. Cardinality(Early) -> Early] :
                     \A i, j \in DOMAIN s : i < j => s[i] < s[j]}
    /\ pfds = << >> /\ ci = 0 /\ pi = 1 /\ served = FALSE
    /\ state = [c \in Client |-> IF c \in Early THEN "ws" ELSE "out"]
    /\ alive = [c \in Client |-> TRUE]
    /\ loggedIn = [c \in Client |-> c \in Early]
    /\ wantsClose = [c \in Client |-> FALSE]
    /\ afterFlush = [c \in Client |-> FALSE]
    /\ peerClosed = [c \in Client |-> FALSE]
    /\ tx = [c \in Client |-> 0]
    /\ channel = [c \in Client |-> NoChannel]
    /\ game = [c \in Client |-> 0]
    /\ channels = [n \in Channel |-> << >>]
    /\ games = [g \in {} |-> 0]
    /\ nextGame = 1
    /\ frames = 0 /\ talk = 0
    /\ roster = [c \in Client |-> {}]

AppFrame(c) ==
    \/ Hello(c) \/ Answer(c) \/ Chat(c) \/ RelayBroadcast(c) \/ RelayPrivate(c)
    \/ \E n \in Channel : ChannelJoin(c, n)
    \/ \E m \in MaxPlayers : GameCreate(c, m)
    \/ \E g \in DOMAIN games : GameJoin(c, g)
    \/ GameLeave(c) \/ GameStart(c)

EndOfTurn ==
    \/ Pass
    \/ \E c \in Client, eof \in BOOLEAN :
          \E n \in {tx[c]} \cup IF c \in Unruly THEN {0} ELSE {} : Finish(c, eof, n)

Loop == Poll \/ EndOfTurn

Next ==
    \/ Loop
    \/ \E c \in Client : Http(c) \/ AppFrame(c) \/ WsClose(c) \/ Vanish(c)

Safety == Init /\ [][Next]_vars

\* The loop runs on: poll returns, and a turn has an end.
Spec == Safety /\ WF_vars(Loop)

(***************************************************************************)
(* Properties.                                                             *)
(***************************************************************************)
TypeOK ==
    /\ state \in [Client -> {"out", "http", "ws", "gone"}]
    /\ alive \in [Client -> BOOLEAN] /\ loggedIn \in [Client -> BOOLEAN]
    /\ wantsClose \in [Client -> BOOLEAN]
    /\ afterFlush \in [Client -> BOOLEAN] /\ peerClosed \in [Client -> BOOLEAN]
    /\ tx \in [Client -> Nat]
    /\ channel \in [Client -> Channel \cup {NoChannel}]
    /\ channels \in [Channel -> Seq(Client)]
    /\ nextGame \in Nat \ {0}
    /\ game \in [Client -> 0 .. nextGame - 1]
    /\ DOMAIN games \subseteq 1 .. nextGame - 1
    /\ \A g \in DOMAIN games :
          games[g] \in [host : Client, max : Nat, started : BOOLEAN, members : Seq(Client)]

Once(s) == \A i, j \in DOMAIN s : s[i] = s[j] => i = j

\* Two records of who sits where, the member lists and the fields of the
\* connections, agree after every handler: a client is in the list of its
\* game and of its channel, once, and in no other; no list keeps a client
\* that has been removed; a game without members is gone from the table.
SeatsAgree ==
    /\ \A g \in DOMAIN games :
          /\ games[g].members # << >>
          /\ Members(games[g].members) = {c \in Client : game[c] = g}
          /\ Once(games[g].members)
    /\ \A n \in Channel :
          /\ Members(channels[n]) = {c \in Client : channel[c] = n}
          /\ Once(channels[n])
    /\ \A c \in Client :
          /\ game[c] # 0 => game[c] \in DOMAIN games
          /\ loggedIn[c] \/ game[c] # 0 \/ channel[c] # NoChannel => state[c] = "ws"

\* "Send GAME_STARTED with seating order (host first)": the seating order is
\* the member list as it stands, and swapRemove disturbs that order, but the
\* host stays first through every departure, his own included.
HostFirst == \A g \in DOMAIN games : games[g].members[1] = games[g].host

\* What the frames queued for a player add up to, read as the lobby dialog
\* reads them, is the other players of its game, unless a frame was refused:
\* then the connection is marked for closing.  The dialog only adds the
\* players of a list it is sent, so whoever left must be taken away by a
\* PEER_LEFT, at the request, the removal or the rejoining of anybody, or the
\* player is kept and a connection is made to it when the game begins.
RosterIsRight ==
    \A c \in {d \in Client : state[d] = "ws" /\ ~wantsClose[d]} :
       game[c] # 0 => roster[c] = InGame(c) \ {c}

\* The server is an implementation of Rooms.
Abstract == INSTANCE Rooms WITH
    Game  <- 1 .. MaxGames,
    seat  <- game,
    host  <- [g \in DOMAIN games |-> games[g].host],
    begun <- {g \in DOMAIN games : games[g].started}

ImplementsRooms == Abstract!RoomsSpec

\* A client that vanished does not hold its seats for ever.
SeatsAreFreed ==
    \A c \in Unruly : ~alive[c] ~> (game[c] = 0 /\ channel[c] = NoChannel)
=============================================================================
