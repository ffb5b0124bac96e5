------------------------------ MODULE HubProofs ------------------------------
(***************************************************************************)
(* That the two records of who sits where agree in the lobby server, that  *)
(* the host is the first of the players, that the server implements Rooms, *)
(* and that the players a client has from the frames queued for it, as the *)
(* lobby dialog reads them, are the other players of its game, for every   *)
(* number of clients, channels, games and frames.                          *)
(***************************************************************************)
EXTENDS Hub, SequenceTheorems, WellFoundedInduction, TLAPS

\* The invariant, in parts that an action changes or keeps as a whole.
Fields ==
    /\ state \in [Client -> {"out", "http", "ws", "gone"}]
    /\ alive \in [Client -> BOOLEAN] /\ loggedIn \in [Client -> BOOLEAN]
    /\ wantsClose \in [Client -> BOOLEAN]
    /\ afterFlush \in [Client -> BOOLEAN] /\ peerClosed \in [Client -> BOOLEAN]
    /\ tx \in [Client -> Nat]

Record == [host : Client, max : Nat, started : BOOLEAN, members : Seq(Client)]

\* A game g with the set S of players.
Proper(g, S) ==
    /\ g \in Record
    /\ g.members # << >>
    /\ g.members[1] = g.host
    /\ Once(g.members)
    /\ Members(g.members) = S

\* The table G of games, the seats "at" of the clients and the next game.
Seated(G, at, next) ==
    /\ next \in 1 .. MaxGames + 1
    /\ at \in [Client -> 0 .. next - 1]
    /\ DOMAIN G \subseteq 1 .. next - 1
    /\ \A g \in DOMAIN G : Proper(G[g], {c \in Client : at[c] = g})
    /\ \A c \in Client : at[c] # 0 => at[c] \in DOMAIN G

\* The lists C of channels and the channel each client is in.
Housed(C, at) ==
    /\ C \in [Channel -> Seq(Client)]
    /\ at \in [Client -> Channel \cup {NoChannel}]
    /\ \A n \in Channel : Once(C[n]) /\ Members(C[n]) = {c \in Client : at[c] = n}

Present ==
    \A c \in Client : loggedIn[c] \/ game[c] # 0 \/ channel[c] # NoChannel => state[c] = "ws"

IInv == Fields /\ Seated(games, game, nextGame) /\ Housed(channels, channel) /\ Present

LEMMA Implied == IInv => TypeOK /\ SeatsAgree /\ HostFirst
  BY LimitAssumption
  DEF IInv, Fields, Proper, Record, Seated, Housed, Present, TypeOK, SeatsAgree, HostFirst

(***************************************************************************)
(* Lists of members.                                                       *)
(***************************************************************************)
LEMMA EmptyList ==
  ASSUME NEW S, NEW s \in Seq(S)
  PROVE  s = << >> <=> Members(s) = {}
  <1>1. Len(s) \in Nat /\ DOMAIN s = 1 .. Len(s)
    OBVIOUS
  <1>2. CASE s = << >>
    BY <1>2 DEF Members
  <1>3. CASE s # << >>
    <2>1. 1 \in DOMAIN s
      BY <1>1, <1>3
    <2> QED BY <1>3, <2>1 DEF Members
  <1> QED BY <1>2, <1>3

\* swapRemove takes out exactly one, and moves the first only when it is he.
LEMMA SwapRemoved ==
  ASSUME NEW S, NEW s \in Seq(S), Once(s), NEW c
  PROVE  /\ SwapRemove(s, c) \in Seq(S)
         /\ Once(SwapRemove(s, c))
         /\ Members(SwapRemove(s, c)) = Members(s) \ {c}
         /\ SwapRemove(s, c) = << >> <=> Members(s) \subseteq {c}
         /\ s # << >> /\ s[1] # c => SwapRemove(s, c)[1] = s[1]
  <1>1. CASE c \notin Members(s)
    <2>1. SwapRemove(s, c) = s
      BY <1>1 DEF SwapRemove
    <2>2. s = << >> <=> Members(s) = {}
      BY EmptyList
    <2> QED BY <1>1, <2>1, <2>2
  <1>2. CASE c \in Members(s)
    <2> DEFINE i == CHOOSE i \in DOMAIN s : s[i] = c
               n == Len(s)
               t == [j \in 1 .. n - 1 |-> IF j = i THEN s[n] ELSE s[j]]
    <2>1. /\ n \in Nat /\ DOMAIN s = 1 .. n /\ \A j \in 1 .. n : s[j] \in S
          /\ i \in 1 .. n /\ s[i] = c
      BY <1>2 DEF Members
    <2>2. SwapRemove(s, c) = t
      BY <1>2 DEF SwapRemove
    <2> HIDE DEF i, n
    <2>3. n - 1 \in Nat /\ \A j \in 1 .. n - 1 : t[j] \in S
      BY <2>1
    <2>4. t \in Seq(S) /\ Len(t) = n - 1 /\ DOMAIN t = 1 .. n - 1
      <3>1. t \in [1 .. n - 1 -> S]
        BY <2>3
      <3>2. t \in Seq(S)
        BY <3>1, <2>3, SeqDef
      <3> QED BY <2>3, <3>2
    <2>5. \A j, k \in 1 .. n : s[j] = s[k] => j = k
      BY <2>1 DEF Once
    <2>6. Once(t)
      BY <2>1, <2>4, <2>5 DEF Once
    <2>7. \A j \in 1 .. n - 1 : t[j] \in Members(s) /\ t[j] # c
      BY <2>1, <2>5 DEF Members
    <2>8. \A j \in 1 .. n : s[j] # c => \E k \in 1 .. n - 1 : t[k] = s[j]
      <3> TAKE j \in 1 .. n
      <3> HAVE s[j] # c
      <3>1. CASE j = n
        <4>1. i \in 1 .. n - 1 /\ t[i] = s[n]
          BY <2>1, <3>1
        <4> QED BY <4>1, <3>1
      <3>2. CASE j # n
        BY <2>1, <3>2
      <3> QED BY <3>1, <3>2
    <2>9. Members(t) = Members(s) \ {c}
      BY <2>1, <2>4, <2>7, <2>8 DEF Members
    <2>10. t = << >> <=> Members(s) \subseteq {c}
      <3> HIDE DEF t
      <3> QED BY <2>4, <2>9, EmptyList
    <2>11. s[1] # c => t[1] = s[1]
      BY <2>1, <2>4, <1>2
    <2> QED BY <2>2, <2>4, <2>6, <2>9, <2>10, <2>11
  <1> QED BY <1>1, <1>2

LEMMA Appended ==
  ASSUME NEW S, NEW s \in Seq(S), Once(s), NEW c \in S, c \notin Members(s)
  PROVE  /\ Append(s, c) \in Seq(S)
         /\ Append(s, c) # << >>
         /\ Once(Append(s, c))
         /\ Members(Append(s, c)) = Members(s) \cup {c}
         /\ s # << >> => Append(s, c)[1] = s[1]
  <1> DEFINE n == Len(s)
             t == Append(s, c)
  <1>1. /\ n \in Nat /\ DOMAIN s = 1 .. n /\ DOMAIN t = 1 .. n + 1 /\ t \in Seq(S)
        /\ \A j \in 1 .. n : t[j] = s[j]
        /\ t[n + 1] = c /\ Len(t) = n + 1
    OBVIOUS
  <1> HIDE DEF n, t
  <1>2. \A j \in 1 .. n : s[j] # c
    BY <1>1 DEF Members
  <1>3. Once(t)
    <2> SUFFICES ASSUME NEW i \in 1 .. n + 1, NEW j \in 1 .. n + 1, t[i] = t[j] PROVE i = j
      BY <1>1 DEF Once
    <2>1. CASE i \in 1 .. n /\ j \in 1 .. n
      BY <1>1, <2>1 DEF Once
    <2>2. CASE ~(i \in 1 .. n /\ j \in 1 .. n)
      BY <1>1, <1>2, <2>2
    <2> QED BY <2>1, <2>2
  <1>4. Members(t) = Members(s) \cup {c}
    <2>1. \A j \in 1 .. n + 1 : j = n + 1 \/ j \in 1 .. n
      BY <1>1
    <2>2. Members(t) \subseteq Members(s) \cup {c}
      BY <1>1, <2>1 DEF Members
    <2>3. Members(s) \subseteq Members(t)
      BY <1>1 DEF Members
    <2>4. c \in Members(t)
      <3>1. n + 1 \in DOMAIN t
        BY <1>1
      <3> QED BY <1>1, <3>1 DEF Members
    <2> QED BY <2>2, <2>3, <2>4
  <1>5. s # << >> => t[1] = s[1]
    BY <1>1 DEF n
  <1> QED BY <1>1, <1>3, <1>4, <1>5 DEF t

(***************************************************************************)
(* What the handlers do to the lists.                                      *)
(***************************************************************************)
\* The client leaves the channel it is in, or none.
LEMMA ChannelLeft ==
  ASSUME Housed(channels, channel), NEW c \in Client
  PROVE  Housed(ChannelsWithout(c), [channel EXCEPT ![c] = NoChannel])
  <1> DEFINE C == ChannelsWithout(c)
             at == [channel EXCEPT ![c] = NoChannel]
             n == channel[c]
  <1>1. at \in [Client -> Channel \cup {NoChannel}] /\ NoChannel \notin Channel
    BY ChannelAssumption DEF Housed
  <1>2. CASE n = NoChannel
    <2>1. at = channel /\ C = channels
      BY <1>2 DEF Housed, ChannelsWithout
    <2> QED BY <2>1
  <1>3. CASE n # NoChannel
    <2>1. n \in Channel /\ channels[n] \in Seq(Client) /\ Once(channels[n])
          /\ Members(channels[n]) = {d \in Client : channel[d] = n}
      BY <1>3 DEF Housed
    <2>2. C = [channels EXCEPT ![n] = SwapRemove(channels[n], c)]
      BY <1>3 DEF ChannelsWithout
    <2>3. /\ SwapRemove(channels[n], c) \in Seq(Client)
          /\ Once(SwapRemove(channels[n], c))
          /\ Members(SwapRemove(channels[n], c)) = {d \in Client : channel[d] = n} \ {c}
      BY <2>1, SwapRemoved
    <2> HIDE DEF C
    <2>4. C \in [Channel -> Seq(Client)]
      BY <2>1, <2>2, <2>3 DEF Housed
    <2>5. ASSUME NEW m \in Channel
          PROVE  Once(C[m]) /\ Members(C[m]) = {d \in Client : at[d] = m}
      <3>1. CASE m = n
        <4>1. {d \in Client : at[d] = n} = {d \in Client : channel[d] = n} \ {c}
          BY <1>1, <2>1 DEF Housed
        <4>2. C[n] = SwapRemove(channels[n], c)
          BY <2>1, <2>2 DEF Housed
        <4> QED BY <2>3, <3>1, <4>1, <4>2
      <3>2. CASE m # n
        <4>1. {d \in Client : at[d] = m} = {d \in Client : channel[d] = m}
          BY <1>1, <3>2 DEF Housed
        <4>2. C[m] = channels[m]
          BY <2>2, <3>2 DEF Housed
        <4> QED BY <4>1, <4>2 DEF Housed
      <3> QED BY <3>1, <3>2
    <2> QED BY <1>1, <2>4, <2>5 DEF Housed, C
  <1> QED BY <1>2, <1>3

\* It comes last into the list of another, or of the same again.
LEMMA ChannelJoined ==
  ASSUME Housed(channels, channel), NEW c \in Client, NEW n \in Channel
  PROVE  Housed([ChannelsWithout(c) EXCEPT ![n] = Append(ChannelsWithout(c)[n], c)],
                [channel EXCEPT ![c] = n])
  <1> DEFINE C == ChannelsWithout(c)
             D == [C EXCEPT ![n] = Append(C[n], c)]
             left == [channel EXCEPT ![c] = NoChannel]
             at == [channel EXCEPT ![c] = n]
  <1>1. Housed(C, left) /\ NoChannel \notin Channel
    BY ChannelLeft, ChannelAssumption
  <1>2. /\ C \in [Channel -> Seq(Client)]
        /\ \A m \in Channel : Once(C[m]) /\ Members(C[m]) = {d \in Client : left[d] = m}
    BY <1>1 DEF Housed
  <1>3. at \in [Client -> Channel \cup {NoChannel}]
    BY DEF Housed
  <1>4. \A m \in Channel : {d \in Client : left[d] = m} = {d \in Client : channel[d] = m} \ {c}
    BY <1>1 DEF Housed
  <1> HIDE DEF C
  <1>5. /\ Append(C[n], c) \in Seq(Client) /\ Once(Append(C[n], c))
        /\ Members(Append(C[n], c)) = {d \in Client : left[d] = n} \cup {c}
    <2>1. c \notin Members(C[n])
      BY <1>2, <1>4
    <2> QED BY <1>2, <2>1, Appended
  <1>6. D \in [Channel -> Seq(Client)]
    BY <1>2, <1>5
  <1>7. ASSUME NEW m \in Channel
        PROVE  Once(D[m]) /\ Members(D[m]) = {d \in Client : at[d] = m}
    <2>1. CASE m = n
      <3>1. {d \in Client : at[d] = n} = {d \in Client : left[d] = n} \cup {c}
        BY <1>4 DEF Housed
      <3>2. D[n] = Append(C[n], c)
        BY <1>2
      <3> QED BY <1>5, <2>1, <3>1, <3>2
    <2>2. CASE m # n
      <3>1. {d \in Client : at[d] = m} = {d \in Client : left[d] = m}
        BY <1>4, <2>2 DEF Housed
      <3>2. D[m] = C[m]
        BY <1>2, <2>2
      <3> QED BY <1>2, <3>1, <3>2
    <2> QED BY <2>1, <2>2
  <1> QED BY <1>3, <1>6, <1>7 DEF Housed, C

\* The client leaves its game, or none: the last one out takes the game with
\* him, a host who leaves others behind is followed by the first of them.
LEMMA GameLeft ==
  ASSUME Seated(games, game, nextGame), NEW c \in Client
  PROVE  Seated(GamesWithout(c), [game EXCEPT ![c] = 0], nextGame)
  <1> DEFINE G == GamesWithout(c)
             at == [game EXCEPT ![c] = 0]
             g == game[c]
             r == Remaining(c)
  <1>1. /\ nextGame \in 1 .. MaxGames + 1 /\ nextGame \in Nat
        /\ game \in [Client -> 0 .. nextGame - 1] /\ at \in [Client -> 0 .. nextGame - 1]
        /\ DOMAIN games \subseteq 1 .. nextGame - 1 /\ 0 \notin DOMAIN games
    BY LimitAssumption DEF Seated
  <1>2. CASE g \notin DOMAIN games
    <2>1. at = game /\ G = games
      BY <1>1, <1>2 DEF Seated, GamesWithout
    <2> QED BY <2>1
  <1>3. CASE g \in DOMAIN games
    <2> DEFINE S == {d \in Client : game[d] = g} \ {c}
               new == [games[g] EXCEPT !.members = r,
                                       !.host = IF @ = c THEN r[1] ELSE @]
    <2>1. /\ games[g] \in Record /\ games[g].members \in Seq(Client)
          /\ games[g].members # << >> /\ games[g].members[1] = games[g].host
          /\ Once(games[g].members)
          /\ Members(games[g].members) = {d \in Client : game[d] = g}
      BY <1>3 DEF Seated, Proper, Record
    <2>2. /\ r \in Seq(Client) /\ Once(r) /\ Members(r) = S
          /\ games[g].members[1] # c => r[1] = games[g].members[1]
      BY <2>1, SwapRemoved DEF Remaining
    <2>3. {d \in Client : at[d] = g} = S
      BY <1>1, <1>3
    <2>4. \A h \in DOMAIN games \ {g} :
             {d \in Client : at[d] = h} = {d \in Client : game[d] = h}
      BY <1>1
    <2>5. \A h \in DOMAIN games \ {g} : Proper(games[h], {d \in Client : at[d] = h})
      BY <2>4 DEF Seated
    <2>6. \A d \in Client : at[d] # 0 => at[d] \in DOMAIN games /\ (at[d] = g => d \in S)
      BY <1>1, <2>3 DEF Seated
    <2>7. r = << >> =>
             /\ S = {}
             /\ DOMAIN G = DOMAIN games \ {g}
             /\ \A h \in DOMAIN games \ {g} : G[h] = games[h]
      BY <1>3, <2>2 DEF GamesWithout, Members
    <2>8. r # << >> =>
             /\ DOMAIN G = DOMAIN games /\ G[g] = new
             /\ \A h \in DOMAIN games \ {g} : G[h] = games[h]
      BY <1>3 DEF GamesWithout
    <2> HIDE DEF r
    <2>9. r # << >> => Proper(new, S)
      <3> SUFFICES ASSUME r # << >> PROVE Proper(new, S)
        OBVIOUS
      <3>1. r[1] \in Client
        BY <2>2
      <3>2. /\ new \in Record /\ new.members = r
            /\ new.host = IF games[g].host = c THEN r[1] ELSE games[g].host
        BY <2>1, <2>2, <3>1 DEF Record
      <3> HIDE DEF new
      <3> QED BY <2>1, <2>2, <3>2 DEF Proper
    <2> HIDE DEF G, at, new, S, g
    <2>10. Seated(G, at, nextGame)
      <3>1. CASE r = << >>
        BY <1>1, <2>5, <2>6, <2>7, <3>1 DEF Seated
      <3>2. CASE r # << >>
        <4>1. \A h \in DOMAIN G : Proper(G[h], {d \in Client : at[d] = h})
          BY <2>3, <2>5, <2>8, <2>9, <3>2
        <4> QED BY <1>1, <2>6, <2>8, <3>2, <4>1 DEF Seated
      <3> QED BY <3>1, <3>2
    <2> QED BY <2>10 DEF G, at, g
  <1> QED BY <1>2, <1>3

\* A client without a game opens one of its own.
LEMMA GameOpened ==
  ASSUME Seated(games, game, nextGame), NEW c \in Client, game[c] = 0,
         NEW max \in MaxPlayers, nextGame <= MaxGames,
         NEW g, g = [host |-> c, max |-> max, started |-> FALSE, members |-> <<c>>]
  PROVE  Seated([h \in DOMAIN games \cup {nextGame} |-> IF h = nextGame THEN g ELSE games[h]],
                [game EXCEPT ![c] = nextGame], nextGame + 1)
  <1> DEFINE G == [h \in DOMAIN games \cup {nextGame} |->
                      IF h = nextGame THEN g ELSE games[h]]
             at == [game EXCEPT ![c] = nextGame]
  <1>1. /\ nextGame \in Nat /\ nextGame + 1 \in 1 .. MaxGames + 1
        /\ game \in [Client -> 0 .. nextGame - 1] /\ at \in [Client -> 0 .. nextGame]
        /\ DOMAIN games \subseteq 1 .. nextGame - 1 /\ nextGame \notin DOMAIN games
        /\ DOMAIN G \subseteq 1 .. nextGame /\ nextGame + 1 - 1 = nextGame
        /\ 0 \notin DOMAIN games
    BY LimitAssumption DEF Seated
  <1>2. DOMAIN G = DOMAIN games \cup {nextGame} /\ G[nextGame] = g
        /\ \A h \in DOMAIN games : G[h] = games[h]
    BY <1>1
  <1>3. Proper(g, {c})
    BY LimitAssumption DEF Record, Once, Members, Proper
  <1>4. {d \in Client : at[d] = nextGame} = {c}
    BY <1>1
  <1>5. \A h \in DOMAIN games : {d \in Client : at[d] = h} = {d \in Client : game[d] = h}
    BY <1>1
  <1>6. \A d \in Client : at[d] # 0 => at[d] \in DOMAIN games \cup {nextGame}
    BY <1>1 DEF Seated
  <1> HIDE DEF G, at
  <1>7. \A h \in DOMAIN G : Proper(G[h], {d \in Client : at[d] = h})
    BY <1>2, <1>3, <1>4, <1>5 DEF Seated
  <1>8. Seated(G, at, nextGame + 1)
    BY <1>1, <1>2, <1>6, <1>7 DEF Seated
  <1> QED BY <1>8 DEF G, at

\* A client without a game takes the last seat in one.
LEMMA GameJoined ==
  ASSUME Seated(games, game, nextGame), NEW c \in Client, game[c] = 0, NEW g \in DOMAIN games
  PROVE  Seated([games EXCEPT ![g].members = Append(@, c)], [game EXCEPT ![c] = g], nextGame)
  <1> DEFINE G == [games EXCEPT ![g].members = Append(@, c)]
             at == [game EXCEPT ![c] = g]
             s == games[g].members
             t == Append(s, c)
             S == {d \in Client : game[d] = g}
  <1>1. /\ nextGame \in 1 .. MaxGames + 1 /\ nextGame \in Nat
        /\ game \in [Client -> 0 .. nextGame - 1] /\ at \in [Client -> 0 .. nextGame - 1]
        /\ DOMAIN games \subseteq 1 .. nextGame - 1 /\ 0 \notin DOMAIN games
    BY LimitAssumption DEF Seated
  <1>2. games[g] \in Record /\ s \in Seq(Client) /\ s # << >> /\ s[1] = games[g].host
        /\ Once(s) /\ Members(s) = S
    BY DEF Seated, Proper, Record
  <1>3. c \notin Members(s)
    BY <1>1, <1>2
  <1>4. t \in Seq(Client) /\ t # << >> /\ Once(t) /\ Members(t) = Members(s) \cup {c}
        /\ t[1] = s[1]
    BY <1>2, <1>3, Appended
  <1>5. DOMAIN G = DOMAIN games /\ G[g] = [games[g] EXCEPT !.members = t]
        /\ \A h \in DOMAIN games \ {g} : G[h] = games[h]
    OBVIOUS
  <1> HIDE DEF t, s
  <1>6. G[g] \in Record /\ G[g].members = t /\ G[g].host = games[g].host
    BY <1>2, <1>4, <1>5 DEF Record
  <1>7. {d \in Client : at[d] = g} = S \cup {c}
    BY <1>1
  <1>8. \A h \in DOMAIN games \ {g} : {d \in Client : at[d] = h} = {d \in Client : game[d] = h}
    BY <1>1
  <1>9. \A d \in Client : at[d] # 0 => at[d] \in DOMAIN games
    BY <1>1 DEF Seated
  <1> HIDE DEF G, at, S
  <1>10. \A h \in DOMAIN G : Proper(G[h], {d \in Client : at[d] = h})
    <2>1. Proper(G[g], {d \in Client : at[d] = g})
      BY <1>2, <1>4, <1>6, <1>7 DEF Proper
    <2>2. \A h \in DOMAIN games \ {g} : Proper(G[h], {d \in Client : at[d] = h})
      BY <1>5, <1>8 DEF Seated
    <2> QED BY <1>5, <2>1, <2>2
  <1>11. Seated(G, at, nextGame)
    BY <1>1, <1>5, <1>9, <1>10 DEF Seated
  <1> QED BY <1>11 DEF G, at

\* A host begins its game, perhaps again.
LEMMA GameBegun ==
  ASSUME Seated(games, game, nextGame), NEW g \in DOMAIN games
  PROVE  Seated([games EXCEPT ![g].started = TRUE], game, nextGame)
  <1> DEFINE G == [games EXCEPT ![g].started = TRUE]
  <1>1. DOMAIN G = DOMAIN games /\ G[g] = [games[g] EXCEPT !.started = TRUE]
        /\ \A h \in DOMAIN games \ {g} : G[h] = games[h]
    OBVIOUS
  <1>2. Proper(games[g], {d \in Client : game[d] = g})
    BY DEF Seated
  <1> HIDE DEF G
  <1>3. G[g] \in Record /\ G[g].members = games[g].members /\ G[g].host = games[g].host
    BY <1>1, <1>2 DEF Proper, Record
  <1>4. Proper(G[g], {d \in Client : game[d] = g})
    BY <1>2, <1>3 DEF Proper
  <1>5. \A h \in DOMAIN G : Proper(G[h], {d \in Client : game[d] = h})
    BY <1>1, <1>4 DEF Seated
  <1>6. Seated(G, game, nextGame)
    BY <1>1, <1>5 DEF Seated
  <1> QED BY <1>6 DEF G

(***************************************************************************)
(* Queues of frames.                                                       *)
(***************************************************************************)
Outbox(out) == \E F : out \in [Client -> Seq(F)]

LEMMA Outboxes ==
  /\ Outbox(Nothing)
  /\ \A S, f : Outbox(To(S, f))
  /\ \A a, b : Outbox(a) /\ Outbox(b) => Outbox(a ++ b)
  <1>1. Nothing \in [Client -> Seq({})]
    BY DEF Nothing
  <1>2. ASSUME NEW S, NEW f PROVE Outbox(To(S, f))
    <2>1. <<f>> \in Seq({f}) /\ << >> \in Seq({f})
      OBVIOUS
    <2>2. To(S, f) \in [Client -> Seq({f})]
      BY <2>1, Zenon DEF To
    <2> QED BY <2>2 DEF Outbox
  <1>3. ASSUME NEW a, NEW b, Outbox(a), Outbox(b) PROVE Outbox(a ++ b)
    <2>1. PICK F : a \in [Client -> Seq(F)]
      BY <1>3 DEF Outbox
    <2>2. PICK H : b \in [Client -> Seq(H)]
      BY <1>3 DEF Outbox
    <2>3. \A c \in Client : a[c] \o b[c] \in Seq(F \cup H)
      <3> TAKE c \in Client
      <3>1. a[c] \in Seq(F) /\ b[c] \in Seq(H)
        BY <2>1, <2>2
      <3>2. a[c] \in Seq(F \cup H) /\ b[c] \in Seq(F \cup H)
        BY <3>1
      <3> QED BY <3>2
    <2>4. (a ++ b) \in [Client -> Seq(F \cup H)]
      BY <2>3 DEF ++
    <2> QED BY <2>4 DEF Outbox
  <1> QED BY <1>1, <1>2, <1>3 DEF Outbox

\* sendWs keeps the queue a number and the mark for closing a truth value.
LEMMA Sent ==
  ASSUME Fields, NEW out, Outbox(out), NEW removed, SendExcept(out, removed)
  PROVE  tx' \in [Client -> Nat] /\ wantsClose' \in [Client -> BOOLEAN]
  <1>1. \A c \in Client : Len(out[c]) \in Nat
    BY DEF Outbox
  <1>2. \A c \in Client : tx[c] \in Nat /\ Space(c) \in Nat
    BY LimitAssumption DEF Fields, Space
  <1>3. \A c \in Client : tx[c] + Least(Len(out[c]), Space(c)) \in Nat
    BY <1>1, <1>2 DEF Least
  <1>4. tx' \in [Client -> Nat]
    BY <1>3 DEF SendExcept
  <1>5. wantsClose' \in [Client -> BOOLEAN]
    BY DEF SendExcept
  <1> QED BY <1>4, <1>5

LEMMA Speech ==
  ASSUME NEW c
  PROVE  Outbox(SaidInChannel(c)) /\ Outbox(SaidInGame(c))
  BY Outboxes DEF SaidInChannel, SaidInGame

(***************************************************************************)
(* The invariant.                                                          *)
(***************************************************************************)
LEMMA Start == Init => IInv
  <1> SUFFICES ASSUME Init PROVE IInv
    OBVIOUS
  <1>1. Fields
    <2>1. loggedIn \in [Client -> BOOLEAN]
      <3>1. loggedIn = [c \in Client |-> c \in Early]
        BY DEF Init
      <3>2. \A c \in Client : (c \in Early) \in BOOLEAN
        OBVIOUS
      <3> QED BY <3>1, <3>2, Zenon
    <2> QED BY <2>1 DEF Init, Fields
  <1>4. Present
    <2>1. \A c \in Client : loggedIn[c] => c \in Early
      BY Zenon DEF Init
    <2>2. \A c \in Client : c \in Early => state[c] = "ws"
      BY DEF Init
    <2> QED BY <2>1, <2>2 DEF Init, Present
  <1>2. Seated(games, game, nextGame)
    BY LimitAssumption DEF Init, Seated
  <1>3. Housed(channels, channel)
    <2>1. << >> \in Seq(Client) /\ Once(<< >>) /\ Members(<< >>) = {}
      BY DEF Once, Members
    <2>2. \A n \in Channel : channels[n] = << >> /\ {c \in Client : channel[c] = n} = {}
      BY ChannelAssumption DEF Init
    <2> QED BY <2>1, <2>2 DEF Init, Housed
  <1> QED BY <1>1, <1>2, <1>3, <1>4 DEF IInv

\* A handler of c's frames that keeps the lists in order keeps the invariant.
LEMMA FrameKeeps ==
  ASSUME IInv, NEW c \in Client, Frame(c), NEW out, Outbox(out), Send(out),
         loggedIn' \in [Client -> BOOLEAN],
         Seated(games', game', nextGame'), Housed(channels', channel'),
         \A d \in Client \ {c} :
            /\ loggedIn'[d] = loggedIn[d]
            /\ game'[d] = game[d] /\ channel'[d] = channel[d]
  PROVE  IInv'
  <1>1. tx' \in [Client -> Nat] /\ wantsClose' \in [Client -> BOOLEAN]
    BY Sent DEF IInv, Send
  <1>2. Fields'
    BY <1>1 DEF IInv, Fields, Frame
  <1>3. Present'
    BY DEF IInv, Present, Frame
  <1> QED BY <1>2, <1>3 DEF IInv

\* One that leaves the lists alone does.
LEMMA FrameIdles ==
  ASSUME IInv, NEW c \in Client, Frame(c), NEW out, Outbox(out), Send(out),
         UNCHANGED <<loggedIn, where>>
  PROVE  IInv'
  <1>1. loggedIn' \in [Client -> BOOLEAN]
    BY DEF IInv, Fields
  <1>2. Seated(games', game', nextGame') /\ Housed(channels', channel')
    BY DEF IInv, where
  <1> QED BY <1>1, <1>2, FrameKeeps DEF where

LEMMA ChatKeeps == ASSUME IInv, NEW c \in Client, Chat(c) PROVE IInv'
  BY Outboxes, FrameIdles DEF Chat

LEMMA FramesKeep == ASSUME IInv, NEW c \in Client, AppFrame(c) PROVE IInv'
  <1>a. /\ Fields /\ Seated(games, game, nextGame) /\ Housed(channels, channel)
        /\ loggedIn \in [Client -> BOOLEAN]
        /\ game \in [Client -> 0 .. nextGame - 1]
        /\ channel \in [Client -> Channel \cup {NoChannel}]
    BY DEF IInv, Fields, Seated, Housed
  <1>1. CASE Hello(c)
    <2>1. loggedIn' \in [Client -> BOOLEAN] /\ \A d \in Client \ {c} : loggedIn'[d] = loggedIn[d]
      BY <1>1, <1>a DEF Hello
    <2> QED BY <1>1, <1>a, <2>1, Outboxes, FrameKeeps DEF Hello, Reply, where
  <1>2. CASE Answer(c)
    BY <1>2, Outboxes, FrameIdles DEF Answer, Reply
  <1>3. CASE Chat(c)
    BY <1>3, ChatKeeps
  <1>4. CASE RelayBroadcast(c)
    BY <1>4, Outboxes, FrameIdles DEF RelayBroadcast
  <1>5. CASE RelayPrivate(c)
    BY <1>5, Outboxes, FrameIdles DEF RelayPrivate
  <1>6. ASSUME NEW n \in Channel, ChannelJoin(c, n) PROVE IInv'
    <2>1. Housed(channels', channel')
      BY <1>6, <1>a, ChannelJoined DEF ChannelJoin
    <2>2. \A d \in Client \ {c} : channel'[d] = channel[d]
      BY <1>6, <1>a DEF ChannelJoin
    <2>3. PICK out : Outbox(out) /\ Send(out)
      BY <1>6, Outboxes, Speech DEF ChannelJoin
    <2> QED BY <1>6, <1>a, <2>1, <2>2, <2>3, FrameKeeps DEF ChannelJoin
  <1>7. ASSUME NEW m \in MaxPlayers, GameCreate(c, m) PROVE IInv'
    <2>1. Seated(games', game', nextGame')
      BY <1>7, <1>a, GameOpened DEF GameCreate
    <2>2. \A d \in Client \ {c} : game'[d] = game[d]
      BY <1>7, <1>a DEF GameCreate
    <2>3. PICK out : Outbox(out) /\ Send(out)
      BY <1>7, Outboxes DEF GameCreate, ToAll
    <2> QED BY <1>7, <1>a, <2>1, <2>2, <2>3, FrameKeeps DEF GameCreate
  <1>8. ASSUME NEW g \in DOMAIN games, GameJoin(c, g) PROVE IInv'
    <2>1. Seated(games', game', nextGame')
      BY <1>8, <1>a, GameJoined DEF GameJoin
    <2>2. \A d \in Client \ {c} : game'[d] = game[d]
      BY <1>8, <1>a DEF GameJoin
    <2>3. PICK out : Outbox(out) /\ Send(out)
      BY <1>8, Outboxes DEF GameJoin, ToAll
    <2> QED BY <1>8, <1>a, <2>1, <2>2, <2>3, FrameKeeps DEF GameJoin
  <1>9. CASE GameLeave(c)
    <2>1. Seated(games', game', nextGame')
      BY <1>9, <1>a, GameLeft DEF GameLeave
    <2>2. \A d \in Client \ {c} : game'[d] = game[d]
      BY <1>9, <1>a DEF GameLeave
    <2>3. PICK out : Outbox(out) /\ Send(out)
      BY <1>9, Outboxes, Speech DEF GameLeave, ToAll
    <2> QED BY <1>9, <1>a, <2>1, <2>2, <2>3, FrameKeeps DEF GameLeave
  <1>10. CASE GameStart(c)
    <2>1. Seated(games', game', nextGame')
      BY <1>10, <1>a, GameBegun DEF GameStart
    <2>2. PICK out : Outbox(out) /\ Send(out)
      BY <1>10, Outboxes DEF GameStart, ToAll
    <2> QED BY <1>10, <1>a, <2>1, <2>2, FrameKeeps DEF GameStart
  <1> QED BY <1>1, <1>2, <1>3, <1>4, <1>5, <1>6, <1>7, <1>8, <1>9, <1>10 DEF AppFrame

\* removeConn: the client leaves both lists and has no fields left.
LEMMA FinishKeeps ==
  ASSUME IInv, NEW c \in Client, NEW eof \in BOOLEAN, NEW n \in {tx[c], 0}, Finish(c, eof, n)
  PROVE  IInv'
  <1>a. /\ Fields /\ Seated(games, game, nextGame) /\ Housed(channels, channel)
        /\ loggedIn \in [Client -> BOOLEAN]
        /\ game \in [Client -> 0 .. nextGame - 1]
        /\ channel \in [Client -> Channel \cup {NoChannel}]
    BY DEF IInv, Fields, Seated, Housed
  <1>1. /\ UNCHANGED <<alive, afterFlush, nextGame>>
        /\ peerClosed' \in [Client -> BOOLEAN]
    BY <1>a DEF Finish, Fields
  <1>2. \/ /\ state' = [state EXCEPT ![c] = "gone"]
           /\ channels' = ChannelsWithout(c) /\ games' = GamesWithout(c)
           /\ channel' = [channel EXCEPT ![c] = NoChannel]
           /\ game' = [game EXCEPT ![c] = 0]
           /\ loggedIn' = [loggedIn EXCEPT ![c] = FALSE]
           /\ SendExcept(SaidInChannel(c) ++ SaidInGame(c)
                         ++ IF game[c] = 0 THEN Nothing ELSE ToAll, {c})
        \/ /\ UNCHANGED <<state, channels, games, channel, game, loggedIn>>
           /\ \E rest \in {0, tx[c], tx[c] - n} : tx' = [tx EXCEPT ![c] = rest]
           /\ \E shut \in BOOLEAN : wantsClose' = [wantsClose EXCEPT ![c] = shut]
    BY DEF Finish
  <1>3. CASE state' = [state EXCEPT ![c] = "gone"]
             /\ channels' = ChannelsWithout(c) /\ games' = GamesWithout(c)
             /\ channel' = [channel EXCEPT ![c] = NoChannel]
             /\ game' = [game EXCEPT ![c] = 0]
             /\ loggedIn' = [loggedIn EXCEPT ![c] = FALSE]
             /\ SendExcept(SaidInChannel(c) ++ SaidInGame(c)
                           ++ IF game[c] = 0 THEN Nothing ELSE ToAll, {c})
    <2>1. Outbox(IF game[c] = 0 THEN Nothing ELSE ToAll)
      BY Outboxes DEF ToAll
    <2>2. tx' \in [Client -> Nat] /\ wantsClose' \in [Client -> BOOLEAN]
      BY <1>3, <1>a, <2>1, Outboxes, Speech, Sent
    <2>3. Fields'
      BY <1>1, <1>3, <1>a, <2>2 DEF Fields
    <2>4. Seated(games', game', nextGame')
      BY <1>1, <1>3, <1>a, GameLeft
    <2>5. Housed(channels', channel')
      BY <1>3, <1>a, ChannelLeft
    <2>6. Present'
      BY <1>3, <1>a DEF IInv, Present, Fields
    <2> QED BY <2>3, <2>4, <2>5, <2>6 DEF IInv
  <1>4. CASE /\ UNCHANGED <<state, channels, games, channel, game, loggedIn>>
             /\ \E rest \in {0, tx[c], tx[c] - n} : tx' = [tx EXCEPT ![c] = rest]
             /\ \E shut \in BOOLEAN : wantsClose' = [wantsClose EXCEPT ![c] = shut]
    <2>1. \A rest \in {0, tx[c], tx[c] - n} : rest \in Nat
      BY <1>a DEF Fields
    <2>2. tx' \in [Client -> Nat] /\ wantsClose' \in [Client -> BOOLEAN]
      BY <1>4, <1>a, <2>1 DEF Fields
    <2>3. Fields'
      BY <1>1, <1>4, <1>a, <2>2 DEF Fields
    <2> QED BY <1>1, <1>4, <1>a, <2>3 DEF IInv, Present
  <1> QED BY <1>2, <1>3, <1>4

LEMMA Step == IInv /\ [Next]_vars => IInv'
  <1> SUFFICES ASSUME IInv, [Next]_vars PROVE IInv'
    OBVIOUS
  <1>1. CASE UNCHANGED vars
    BY <1>1 DEF vars, loop, flags, where, IInv, Fields, Present
  <1>2. CASE Poll
    <2>1. UNCHANGED <<alive, loggedIn, wantsClose, afterFlush, peerClosed, tx,
                      channel, game, channels, games, nextGame>>
      BY <1>2 DEF Poll, flags, where
    <2>2. /\ state' \in [Client -> {"out", "http", "ws", "gone"}]
          /\ \A c \in Client : state[c] = "ws" => state'[c] = "ws"
      <3>1. PICK last : state' = [c \in Client |-> IF state[c] = "out" /\ c <= last THEN "http"
                                                ELSE state[c]]
        BY <1>2 DEF Poll
      <3>2. \A c \in Client : state[c] \in {"out", "http", "ws", "gone"}
        BY DEF IInv, Fields
      <3> QED BY <3>1, <3>2
    <2> QED BY <2>1, <2>2 DEF IInv, Fields, Present
  <1>3. CASE Pass
    BY <1>3 DEF Pass, flags, where, IInv, Fields, Present
  <1>4. ASSUME NEW c \in Client, NEW eof \in BOOLEAN, NEW n \in {tx[c], 0}, Finish(c, eof, n)
        PROVE  IInv'
    BY <1>4, FinishKeeps
  <1>5. ASSUME NEW c \in Client, Http(c) PROVE IInv'
    <2>1. UNCHANGED <<alive, loggedIn, wantsClose, peerClosed,
                      channel, game, channels, games, nextGame>>
      BY <1>5 DEF Http, where
    <2>2. /\ state' \in [Client -> {"out", "http", "ws", "gone"}]
          /\ \A d \in Client : state[d] = "ws" => state'[d] = "ws"
          /\ afterFlush' \in [Client -> BOOLEAN]
          /\ tx' \in [Client -> Nat]
      <3>1. \/ state' = [state EXCEPT ![c] = "ws"] /\ UNCHANGED afterFlush
            \/ UNCHANGED state /\ \E close \in BOOLEAN :
                  afterFlush' = [afterFlush EXCEPT ![c] = close]
        <4>1. \A keep \in BOOLEAN : (~keep) \in BOOLEAN
          OBVIOUS
        <4> QED BY <1>5, <4>1 DEF Http
      <3>2. tx' = [tx EXCEPT ![c] = tx[c] + 1]
        BY <1>5 DEF Http
      <3> QED BY <3>1, <3>2 DEF IInv, Fields
    <2> QED BY <2>1, <2>2 DEF IInv, Fields, Present
  <1>6. ASSUME NEW c \in Client, AppFrame(c) PROVE IInv'
    BY <1>6, FramesKeep
  <1>7. ASSUME NEW c \in Client, WsClose(c) PROVE IInv'
    <2>1. UNCHANGED <<state, alive, loggedIn, peerClosed,
                      channel, game, channels, games, nextGame>>
      BY <1>7 DEF WsClose, where
    <2>2. /\ afterFlush' \in [Client -> BOOLEAN] /\ wantsClose' \in [Client -> BOOLEAN]
          /\ tx' \in [Client -> Nat]
      <3>1. CASE Reply(c) /\ afterFlush' = [afterFlush EXCEPT ![c] = TRUE]
        BY <3>1, Outboxes, Sent DEF Reply, Send, IInv, Fields
      <3>2. CASE wantsClose' = [wantsClose EXCEPT ![c] = TRUE] /\ UNCHANGED <<tx, roster, afterFlush>>
        BY <3>2 DEF IInv, Fields
      <3> QED BY <1>7, <3>1, <3>2 DEF WsClose
    <2> QED BY <2>1, <2>2 DEF IInv, Fields, Present
  <1>8. ASSUME NEW c \in Client, Vanish(c) PROVE IInv'
    BY <1>8 DEF Vanish, flags, where, IInv, Fields, Present
  <1> QED BY <1>1, <1>2, <1>3, <1>4, <1>5, <1>6, <1>7, <1>8 DEF Next, Loop, EndOfTurn

LEMMA Invariance == Safety => []IInv
  <1>1. Init => IInv
    BY Start
  <1>2. IInv /\ [Next]_vars => IInv'
    BY Step
  <1> QED BY <1>1, <1>2, PTL DEF Safety

\* Every variable of the server has its type: a client's game is one that was
\* created, the queue of a connection is never negative.
THEOREM TypeCorrect == Safety => []TypeOK
  BY Invariance, Implied, PTL

\* The member lists of server.zig and the fields of its connections agree
\* after every handler and every removal.
THEOREM SeatsAlwaysAgree == Safety => []SeatsAgree
  BY Invariance, Implied, PTL

\* The seating order sent with GAME_STARTED begins with the host, whoever
\* left before and in whatever order.
THEOREM HostSitsFirst == Safety => []HostFirst
  BY Invariance, Implied, PTL

(***************************************************************************)
(* The server implements Rooms.                                            *)
(***************************************************************************)
\* The hosts and the games that have begun, read off the table G.
Hosts(G) == [g \in DOMAIN G |-> G[g].host]
Begun(G) == {g \in DOMAIN G : G[g].started}

LEMMA SameRooms ==
  ASSUME UNCHANGED <<game, games>>
  PROVE  UNCHANGED Abstract!rooms
  BY DEF Abstract!rooms

LEMMA RoomsStart == Init => Abstract!RoomsInit
  BY DEF Init, Abstract!RoomsInit

\* Whoever leaves a game, on request or because the connection is gone,
\* leaves the room.
LEMMA LeavesRoom ==
  ASSUME Seated(games, game, nextGame), NEW c \in Client, game[c] # 0,
         games' = GamesWithout(c), game' = [game EXCEPT ![c] = 0]
  PROVE  Abstract!Leave(c)
  <1> DEFINE g == game[c]
             r == Remaining(c)
             S == {d \in Client : game[d] = g}
             new == IF games[g].host = c THEN r[1] ELSE games[g].host
  <1>1. /\ g \in DOMAIN games /\ games[g] \in Record /\ games[g].members \in Seq(Client)
        /\ games[g].members # << >> /\ games[g].members[1] = games[g].host
        /\ Once(games[g].members) /\ Members(games[g].members) = S
    BY DEF Seated, Proper, Record
  <1>2. /\ r \in Seq(Client) /\ Members(r) = S \ {c}
        /\ r = << >> <=> S \subseteq {c}
        /\ games[g].members[1] # c => r[1] = games[g].members[1]
    BY <1>1, SwapRemoved DEF Remaining
  <1>3. Abstract!Sitting(g) = S /\ c \in S
    BY DEF Abstract!Sitting
  <1>4. CASE r = << >>
    <2>1. games' = [h \in DOMAIN games \ {g} |-> games[h]]
      BY <1>1, <1>4 DEF GamesWithout
    <2>2. DOMAIN games' = DOMAIN games \ {g} /\ \A h \in DOMAIN games' : games'[h] = games[h]
      BY <2>1
    <2>3. Hosts(games') = [h \in DOMAIN Hosts(games) \ {g} |-> Hosts(games)[h]]
      BY <2>2 DEF Hosts
    <2>4. Begun(games') = Begun(games) \ {g}
      BY <2>2 DEF Begun
    <2>5. S = {c}
      BY <1>2, <1>3, <1>4
    <2> QED BY <1>3, <2>3, <2>4, <2>5 DEF Abstract!Leave, Hosts, Begun
  <1>5. CASE r # << >>
    <2>1. games' = [games EXCEPT ![g].members = r, ![g].host = IF @ = c THEN r[1] ELSE @]
      BY <1>1, <1>5 DEF GamesWithout
    <2>2. /\ DOMAIN games' = DOMAIN games
          /\ games'[g] = [games[g] EXCEPT !.members = r, !.host = IF @ = c THEN r[1] ELSE @]
          /\ \A h \in DOMAIN games \ {g} : games'[h] = games[h]
      BY <1>1, <2>1
    <2>3. games'[g].host = new /\ games'[g].started = games[g].started
      BY <1>1, <2>2 DEF Record
    <2>4. r[1] \in S \ {c} /\ new \in S \ {c} /\ (games[g].host # c => new = games[g].host)
      <3>1. 1 \in DOMAIN r /\ 1 \in DOMAIN games[g].members
        BY <1>1, <1>2, <1>5
      <3>2. r[1] \in Members(r) /\ games[g].host \in Members(games[g].members)
        BY <1>1, <3>1 DEF Members
      <3> QED BY <1>1, <1>2, <3>2
    <2>5. Hosts(games') = [Hosts(games) EXCEPT ![g] = new]
      BY <1>1, <2>2, <2>3 DEF Hosts
    <2>6. Begun(games') = Begun(games)
      BY <2>2, <2>3 DEF Begun
    <2>7. Hosts(games)[g] = games[g].host
      BY <1>1 DEF Hosts
    <2> HIDE DEF new, S
    <2> QED BY <1>3, <2>4, <2>5, <2>6, <2>7 DEF Abstract!Leave, Hosts, Begun
  <1> QED BY <1>4, <1>5

LEMMA OpensRoom ==
  ASSUME Seated(games, game, nextGame), NEW c \in Client, NEW m \in MaxPlayers, GameCreate(c, m)
  PROVE  \E g \in 1 .. MaxGames : Abstract!Open(c, g)
  <1>1. /\ nextGame \in 1 .. MaxGames /\ nextGame \notin DOMAIN games
        /\ game[c] = 0 /\ game' = [game EXCEPT ![c] = nextGame]
    BY LimitAssumption DEF Seated, GameCreate
  <1>2. /\ DOMAIN games' = DOMAIN games \cup {nextGame}
        /\ games'[nextGame] = [host |-> c, max |-> m, started |-> FALSE, members |-> <<c>>]
        /\ \A h \in DOMAIN games : games'[h] = games[h]
    BY <1>1 DEF GameCreate
  <1>3. games'[nextGame].host = c /\ games'[nextGame].started = FALSE
    BY <1>2
  <1>4. Hosts(games') = [h \in DOMAIN Hosts(games) \cup {nextGame} |->
                           IF h = nextGame THEN c ELSE Hosts(games)[h]]
    BY <1>1, <1>2, <1>3 DEF Hosts
  <1>5. Begun(games') = Begun(games)
    BY <1>1, <1>2, <1>3 DEF Begun
  <1> QED BY <1>1, <1>4, <1>5 DEF Abstract!Open, Hosts, Begun

LEMMA EntersRoom ==
  ASSUME Seated(games, game, nextGame), NEW c \in Client, NEW g \in DOMAIN games, GameJoin(c, g)
  PROVE  Abstract!Enter(c, g) /\ g \in 1 .. MaxGames
  <1>1. /\ g \in 1 .. MaxGames /\ games[g] \in Record
        /\ game[c] = 0 /\ game' = [game EXCEPT ![c] = g] /\ ~games[g].started
    BY LimitAssumption DEF Seated, Proper, GameJoin, Joinable
  <1>2. /\ DOMAIN games' = DOMAIN games
        /\ games'[g].host = games[g].host /\ games'[g].started = games[g].started
        /\ \A h \in DOMAIN games \ {g} : games'[h] = games[h]
    BY <1>1 DEF GameJoin, Record
  <1>3. Hosts(games') = Hosts(games) /\ Begun(games') = Begun(games)
    BY <1>2 DEF Hosts, Begun
  <1> QED BY <1>1, <1>3 DEF Abstract!Enter, Hosts, Begun

LEMMA BeginsRoom ==
  ASSUME Seated(games, game, nextGame), NEW c \in Client, GameStart(c)
  PROVE  \E g \in 1 .. MaxGames : Abstract!Begin(g)
  <1> DEFINE g == game[c]
  <1>1. /\ g \in 1 .. MaxGames /\ g \in DOMAIN games /\ games[g] \in Record
        /\ UNCHANGED game /\ games' = [games EXCEPT ![g].started = TRUE]
    BY LimitAssumption DEF Seated, Proper, GameStart
  <1>2. /\ DOMAIN games' = DOMAIN games
        /\ games'[g].host = games[g].host /\ games'[g].started = TRUE
        /\ \A h \in DOMAIN games \ {g} : games'[h] = games[h]
    BY <1>1 DEF Record
  <1> HIDE DEF g
  <1>3. Hosts(games') = Hosts(games)
    BY <1>2 DEF Hosts
  <1>4. Begun(games') = Begun(games) \cup {g}
    BY <1>1, <1>2 DEF Begun
  <1> QED BY <1>1, <1>3, <1>4 DEF Abstract!Begin, Hosts, Begun, g

LEMMA RoomsStep == IInv /\ [Next]_vars => [Abstract!RoomsNext]_(Abstract!rooms)
  <1> SUFFICES ASSUME IInv, [Next]_vars
               PROVE  Abstract!RoomsNext \/ UNCHANGED Abstract!rooms
    OBVIOUS
  <1>a. Seated(games, game, nextGame) /\ game \in [Client -> 0 .. nextGame - 1]
    BY DEF IInv, Seated
  <1>1. CASE UNCHANGED <<game, games>>
    BY <1>1, SameRooms
  <1>2. ASSUME NEW c \in Client, game[c] # 0, games' = GamesWithout(c),
               game' = [game EXCEPT ![c] = 0]
        PROVE  Abstract!RoomsNext
    BY <1>2, <1>a, LeavesRoom DEF Abstract!RoomsNext
  <1>3. ASSUME NEW c \in Client, AppFrame(c)
        PROVE  Abstract!RoomsNext \/ UNCHANGED <<game, games>>
    <2>1. CASE Hello(c) \/ Answer(c) \/ Chat(c) \/ RelayBroadcast(c) \/ RelayPrivate(c)
      BY <2>1 DEF Hello, Answer, Chat, RelayBroadcast, RelayPrivate, where
    <2>2. ASSUME NEW n \in Channel, ChannelJoin(c, n) PROVE UNCHANGED <<game, games>>
      BY <2>2 DEF ChannelJoin
    <2>3. ASSUME NEW m \in MaxPlayers, GameCreate(c, m) PROVE Abstract!RoomsNext
      BY <2>3, <1>a, OpensRoom DEF Abstract!RoomsNext
    <2>4. ASSUME NEW g \in DOMAIN games, GameJoin(c, g) PROVE Abstract!RoomsNext
      BY <2>4, <1>a, EntersRoom DEF Abstract!RoomsNext
    <2>5. CASE GameLeave(c)
      BY <2>5, <1>2 DEF GameLeave
    <2>6. CASE GameStart(c)
      BY <2>6, <1>a, BeginsRoom DEF Abstract!RoomsNext
    <2> QED BY <1>3, <2>1, <2>2, <2>3, <2>4, <2>5, <2>6 DEF AppFrame
  <1>4. ASSUME NEW c \in Client, NEW eof, NEW n, Finish(c, eof, n)
        PROVE  Abstract!RoomsNext \/ UNCHANGED <<game, games>>
    <2>1. \/ UNCHANGED <<game, games>>
          \/ games' = GamesWithout(c) /\ game' = [game EXCEPT ![c] = 0]
      BY <1>4 DEF Finish
    <2>2. CASE game[c] = 0
      <3>1. GamesWithout(c) = games /\ [game EXCEPT ![c] = 0] = game
        BY <1>a, <2>2, LimitAssumption DEF GamesWithout, Seated
      <3> QED BY <2>1, <3>1
    <2>3. CASE game[c] # 0
      BY <1>2, <2>1, <2>3
    <2> QED BY <2>2, <2>3
  <1>5. CASE Poll \/ Pass \/ UNCHANGED vars
    BY <1>5, <1>1 DEF Poll, Pass, vars, where
  <1>6. ASSUME NEW c \in Client, Http(c) \/ WsClose(c) \/ Vanish(c)
        PROVE  UNCHANGED <<game, games>>
    BY <1>6 DEF Http, WsClose, Vanish, where
  <1> QED BY <1>1, <1>3, <1>4, <1>5, <1>6 DEF Next, Loop, EndOfTurn

\* Every behaviour of the server, with its connections, turns, queues and
\* removals, is one of Rooms: a game has players as long as it exists, its
\* host is one of them, and nobody enters a game that has begun.
THEOREM ServerImplementsRooms == Safety => ImplementsRooms
  <1>1. Init => Abstract!RoomsInit
    BY RoomsStart
  <1>2. IInv /\ [Next]_vars => [Abstract!RoomsNext]_(Abstract!rooms)
    BY RoomsStep
  <1> QED BY <1>1, <1>2, Invariance, PTL DEF Safety, ImplementsRooms, Abstract!RoomsSpec

(***************************************************************************)
(* The players a client has after a sequence of frames: After is a         *)
(* recursive function, which exists, and which takes the frames one after  *)
(* the other.                                                              *)
(***************************************************************************)
LEMMA Induction ==
  ASSUME NEW N \in SUBSET Nat, 0 \in N, \A n \in N : n + 1 \in N
  PROVE  N = Nat
  <1> SUFFICES ASSUME Nat \ N # {} PROVE FALSE
    OBVIOUS
  <1>1. IsWellFoundedOn(OpToRel(<, Nat), Nat)
    BY NatLessThanWellFounded
  <1>2. PICK x \in Nat \ N : \A y \in Nat \ N : ~ (<<y, x>> \in OpToRel(<, Nat))
    BY <1>1, WFMin
  <1>3. x - 1 \in Nat /\ x - 1 < x /\ x - 1 + 1 = x
    <2>1. x \in Nat /\ x # 0
      BY <1>2
    <2> QED BY <2>1
  <1>4. <<x - 1, x>> \in OpToRel(<, Nat)
    BY <1>3 DEF OpToRel
  <1>5. x - 1 \in N
    BY <1>2, <1>3, <1>4
  <1> QED BY <1>2, <1>3, <1>5

\* f is whom d has, from k on, after each of the first n frames of s.
Course(d, f, k, s, n) ==
    f = [i \in 0 .. n |-> IF i = 0 THEN k ELSE Reading(d, f[i - 1], s[i])]

LEMMA CourseExists ==
  ASSUME NEW d, NEW k, NEW s, NEW n \in Nat
  PROVE  \E f : Course(d, f, k, s, n)
  <1> DEFINE N == {m \in Nat : \E f : Course(d, f, k, s, m)}
  <1>1. 0 \in N
    <2>1. Course(d, [i \in 0 .. 0 |-> k], k, s, 0)
      BY DEF Course
    <2> QED BY <2>1
  <1>2. ASSUME NEW m \in N PROVE m + 1 \in N
    <2>1. m \in Nat /\ m + 1 \in Nat
      OBVIOUS
    <2>2. PICK f : Course(d, f, k, s, m)
      OBVIOUS
    <2> DEFINE g == [i \in 0 .. m + 1 |-> IF i = m + 1 THEN Reading(d, f[m], s[m + 1]) ELSE f[i]]
    <2>3. \A i \in 0 .. m : g[i] = f[i]
      BY <2>1
    <2>4. ASSUME NEW i \in 0 .. m + 1
          PROVE  g[i] = IF i = 0 THEN k ELSE Reading(d, g[i - 1], s[i])
      <3>1. CASE i = m + 1
        <4>1. m \in 0 .. m /\ i # 0 /\ i - 1 = m
          BY <2>1, <3>1
        <4>2. g[i] = Reading(d, f[m], s[i]) /\ g[m] = f[m]
          BY <2>3, <3>1, <4>1
        <4> QED BY <4>1, <4>2
      <3>2. CASE i # m + 1
        <4>1. i \in 0 .. m /\ (i # 0 => i - 1 \in 0 .. m)
          BY <2>1, <3>2
        <4>2. f[i] = IF i = 0 THEN k ELSE Reading(d, f[i - 1], s[i])
          BY <2>2, <4>1 DEF Course
        <4> HIDE DEF g
        <4> QED BY <2>3, <4>1, <4>2
      <3> QED BY <3>1, <3>2
    <2>5. g = [i \in 0 .. m + 1 |-> g[i]]
      OBVIOUS
    <2> HIDE DEF g
    <2>6. Course(d, g, k, s, m + 1)
      BY <2>4, <2>5, Zenon DEF Course
    <2> QED BY <2>1, <2>6
  <1>3. N = Nat
    <2> HIDE DEF N
    <2>1. N \in SUBSET Nat
      BY DEF N
    <2> QED BY <1>1, <1>2, <2>1, Induction
  <1> QED BY <1>3

\* Two courses agree as far as their frames do.
LEMMA CoursesAgree ==
  ASSUME NEW d, NEW k, NEW s, NEW t, NEW n \in Nat, NEW m \in Nat, n <= m,
         \A i \in 1 .. n : s[i] = t[i],
         NEW f, Course(d, f, k, s, n), NEW g, Course(d, g, k, t, m)
  PROVE  \A i \in 0 .. n : f[i] = g[i]
  <1> DEFINE N == {j \in Nat : j <= n => f[j] = g[j]}
  <1>a. \A i \in 0 .. n : f[i] = IF i = 0 THEN k ELSE Reading(d, f[i - 1], s[i])
    BY Zenon DEF Course
  <1>b. \A i \in 0 .. m : g[i] = IF i = 0 THEN k ELSE Reading(d, g[i - 1], t[i])
    BY Zenon DEF Course
  <1>1. 0 \in N
    BY <1>a, <1>b
  <1>2. ASSUME NEW j \in N PROVE j + 1 \in N
    <2> SUFFICES ASSUME j + 1 <= n PROVE f[j + 1] = g[j + 1]
      OBVIOUS
    <2>1. /\ j + 1 \in 0 .. n /\ j + 1 \in 0 .. m /\ j + 1 \in 1 .. n
          /\ j + 1 # 0 /\ j + 1 - 1 = j /\ f[j] = g[j]
      OBVIOUS
    <2> QED BY <1>a, <1>b, <2>1
  <1>3. N = Nat
    <2> HIDE DEF N
    <2>1. N \in SUBSET Nat
      BY DEF N
    <2> QED BY <1>1, <1>2, <2>1, Induction
  <1> QED BY <1>3

LEMMA AfterIs ==
  ASSUME NEW d, NEW k, NEW F, NEW s \in Seq(F)
  PROVE  \E f : Course(d, f, k, s, Len(s)) /\ After(d, k, s) = f[Len(s)]
  <1> DEFINE read[i \in 0 .. Len(s)] == IF i = 0 THEN k ELSE Reading(d, read[i - 1], s[i])
  <1>1. Len(s) \in Nat
    OBVIOUS
  <1>2. \E f : Course(d, f, k, s, Len(s))
    BY <1>1, CourseExists
  <1>3. read = [i \in 0 .. Len(s) |-> IF i = 0 THEN k ELSE Reading(d, read[i - 1], s[i])]
    <2>1. \E f : f = [i \in 0 .. Len(s) |-> IF i = 0 THEN k ELSE Reading(d, f[i - 1], s[i])]
      BY <1>2, Zenon DEF Course
    <2> QED BY <2>1, Zenon DEF read
  <1>4. After(d, k, s) = read[Len(s)]
    BY Zenon DEF After
  <1> HIDE DEF read
  <1> QED BY <1>3, <1>4, Zenon DEF Course

LEMMA AfterNone ==
  ASSUME NEW d, NEW k
  PROVE  After(d, k, << >>) = k
  <1>1. << >> \in Seq({}) /\ Len(<< >>) = 0
    OBVIOUS
  <1>2. PICK f : Course(d, f, k, << >>, 0) /\ After(d, k, << >>) = f[0]
    BY <1>1, AfterIs
  <1> QED BY <1>2 DEF Course

LEMMA AfterOne ==
  ASSUME NEW d, NEW k, NEW F, NEW s \in Seq(F), NEW x
  PROVE  After(d, k, s \o <<x>>) = Reading(d, After(d, k, s), x)
  <1> DEFINE t == s \o <<x>>
             n == Len(s)
  <1>1. s \in Seq(F \cup {x}) /\ <<x>> \in Seq(F \cup {x}) /\ Len(<<x>>) = 1 /\ <<x>>[1] = x
    OBVIOUS
  <1>2. /\ t \in Seq(F \cup {x}) /\ n \in Nat /\ Len(t) = n + 1 /\ t[n + 1] = x
        /\ \A i \in 1 .. n : s[i] = t[i]
    BY <1>1
  <1> HIDE DEF t, n
  <1>3. PICK f : Course(d, f, k, s, n) /\ After(d, k, s) = f[n]
    BY AfterIs DEF n
  <1>4. PICK g : Course(d, g, k, t, n + 1) /\ After(d, k, t) = g[n + 1]
    BY <1>2, AfterIs
  <1>5. \A i \in 0 .. n : f[i] = g[i]
    <2>1. n \in Nat /\ n + 1 \in Nat /\ n <= n + 1
      BY <1>2
    <2>2. \A i \in 1 .. n : s[i] = t[i]
      BY <1>2
    <2>3. Course(d, f, k, s, n) /\ Course(d, g, k, t, n + 1)
      BY <1>3, <1>4
    <2>4. PICK m \in Nat : m = n + 1
      BY <2>1
    <2>5. PICK l \in Nat : l = n
      BY <2>1
    <2>6. /\ l <= m /\ Course(d, f, k, s, l) /\ Course(d, g, k, t, m)
          /\ \A i \in 1 .. l : s[i] = t[i]
      BY <2>1, <2>2, <2>3, <2>4, <2>5
    <2>7. \A i \in 0 .. l : f[i] = g[i]
      BY <2>6, CoursesAgree
    <2> QED BY <2>5, <2>7
  <1>6. f[n] = g[n] /\ n + 1 \in 0 .. n + 1 /\ n + 1 # 0 /\ n + 1 - 1 = n
    BY <1>2, <1>5
  <1>7. g[n + 1] = Reading(d, g[n], t[n + 1])
    <2>1. \A i \in 0 .. n + 1 : g[i] = IF i = 0 THEN k ELSE Reading(d, g[i - 1], t[i])
      BY <1>4, Zenon DEF Course
    <2>2. n \in Nat
      BY <1>2
    <2> QED BY <1>6, <2>1, <2>2
  <1> QED BY <1>2, <1>3, <1>4, <1>6, <1>7 DEF t

(***************************************************************************)
(* What is heard out of an outbox that is put together frame by frame.     *)
(***************************************************************************)
\* Whom d has, from k on, when it has heard its frames of out.
Heard(k, out, d) == After(d, k, out[d])

LEMMA HeardNothing ==
  ASSUME NEW k, NEW d \in Client
  PROVE  Heard(k, Nothing, d) = k
  BY AfterNone DEF Heard, Nothing

LEMMA HeardMore ==
  ASSUME NEW k, NEW out, Outbox(out), NEW S, NEW f, NEW d \in Client
  PROVE  Heard(k, out ++ To(S, f), d) =
            IF d \in S THEN Reading(d, Heard(k, out, d), f) ELSE Heard(k, out, d)
  <1>1. PICK F : out \in [Client -> Seq(F)]
    BY DEF Outbox
  <1>2. (out ++ To(S, f))[d] = out[d] \o To(S, f)[d] /\ out[d] \in Seq(F)
    BY <1>1 DEF ++
  <1>3. CASE d \in S
    <2>1. To(S, f)[d] = <<f>>
      BY <1>3 DEF To
    <2> QED BY <1>2, <1>3, <2>1, AfterOne DEF Heard
  <1>4. CASE d \notin S
    <2>1. To(S, f)[d] = << >>
      BY <1>4 DEF To
    <2>2. out[d] \o << >> = out[d]
      BY <1>2
    <2> QED BY <1>2, <1>4, <2>1, <2>2 DEF Heard
  <1> QED BY <1>3, <1>4

LEMMA HeardOne ==
  ASSUME NEW k, NEW S, NEW f, NEW d \in Client
  PROVE  Heard(k, To(S, f), d) = IF d \in S THEN Reading(d, k, f) ELSE k
  <1>1. (Nothing ++ To(S, f))[d] = To(S, f)[d]
    <2>1. (Nothing ++ To(S, f))[d] = << >> \o To(S, f)[d]
      BY DEF ++, Nothing
    <2>2. To(S, f)[d] \in Seq({f})
      <3>1. <<f>> \in Seq({f}) /\ << >> \in Seq({f})
        OBVIOUS
      <3>2. To(S, f)[d] = IF d \in S THEN <<f>> ELSE << >>
        BY DEF To
      <3> QED BY <3>1, <3>2
    <2> QED BY <2>1, <2>2
  <1>2. Heard(k, To(S, f), d) = Heard(k, Nothing ++ To(S, f), d)
    BY <1>1 DEF Heard
  <1> QED BY <1>2, Outboxes, HeardNothing, HeardMore

LEMMA HeardInOrder ==
  ASSUME NEW k, NEW x, Outbox(x), NEW y, Outbox(y), NEW z, Outbox(z), NEW d \in Client
  PROVE  Heard(k, x ++ (y ++ z), d) = Heard(k, (x ++ y) ++ z, d)
  <1>1. PICK F : x \in [Client -> Seq(F)]
    BY DEF Outbox
  <1>2. PICK G : y \in [Client -> Seq(G)]
    BY DEF Outbox
  <1>3. PICK H : z \in [Client -> Seq(H)]
    BY DEF Outbox
  <1> DEFINE E == F \cup G \cup H
  <1>4. x[d] \in Seq(E) /\ y[d] \in Seq(E) /\ z[d] \in Seq(E)
    <2>1. x[d] \in Seq(F) /\ y[d] \in Seq(G) /\ z[d] \in Seq(H)
      BY <1>1, <1>2, <1>3
    <2> QED BY <2>1
  <1> HIDE DEF E
  <1>5. x[d] \o (y[d] \o z[d]) = (x[d] \o y[d]) \o z[d]
    <2>1. \A u, v, w \in Seq(E) : (u \o v) \o w = u \o (v \o w)
      <3> TAKE u, v, w \in Seq(E)
      <3> QED BY ConcatAssociative
    <2> QED BY <1>4, <2>1
  <1>6. /\ (x ++ (y ++ z))[d] = x[d] \o (y[d] \o z[d])
        /\ ((x ++ y) ++ z)[d] = (x[d] \o y[d]) \o z[d]
    BY DEF ++
  <1> QED BY <1>5, <1>6 DEF Heard

\* What the frames say of the players.
LEMMA Learned ==
  ASSUME NEW d, NEW k
  PROVE  /\ Reading(d, k, Plain) = k
         /\ \A c : Reading(d, k, PeerLeft(c)) = k \ {c}
         /\ \A g : Reading(d, k, GameMembers(g)) = k \cup (Members(g.members) \ {d})
  <1>1. Reading(d, k, Plain) = k
    BY DEF Reading, Plain
  <1>2. \A c : Reading(d, k, PeerLeft(c)) = k \ {c}
    BY DEF Reading, PeerLeft
  <1>3. \A g : Reading(d, k, GameMembers(g)) = k \cup (Members(g.members) \ {d})
    BY DEF Reading, GameMembers
  <1> QED BY <1>1, <1>2, <1>3

LEMMA HeardNoMore ==
  ASSUME NEW k, NEW out, Outbox(out), NEW d \in Client
  PROVE  Heard(k, out ++ Nothing, d) = Heard(k, out, d)
  <1>1. PICK F : out \in [Client -> Seq(F)]
    BY DEF Outbox
  <1>2. (out ++ Nothing)[d] = out[d] \o << >> /\ out[d] \in Seq(F)
    BY <1>1 DEF ++, Nothing
  <1>3. out[d] \o << >> = out[d]
    BY <1>2
  <1> QED BY <1>2, <1>3 DEF Heard

LEMMA HeardAfterNothing ==
  ASSUME NEW k, NEW out, Outbox(out), NEW d \in Client
  PROVE  Heard(k, Nothing ++ out, d) = Heard(k, out, d)
  <1>1. PICK F : out \in [Client -> Seq(F)]
    BY DEF Outbox
  <1>2. (Nothing ++ out)[d] = << >> \o out[d] /\ out[d] \in Seq(F)
    BY <1>1 DEF ++, Nothing
  <1>3. << >> \o out[d] = out[d]
    BY <1>2
  <1> QED BY <1>2, <1>3 DEF Heard

(***************************************************************************)
(* The invariant: a client in no game has no players from the server's     *)
(* frames, one in a game, not to be closed, has the others that are in it. *)
(***************************************************************************)
\* r is right for d in game "at" of the table G.
Right(r, d, at, G) == IF at = 0 THEN r = {} ELSE r = Members(G[at].members) \ {d}

Aware ==
    \A c \in Client :
       /\ game[c] = 0 => roster[c] = {}
       /\ state[c] = "ws" /\ ~wantsClose[c] => Right(roster[c], c, game[c], games)

Truth == IInv /\ Aware

LEMMA TruthImplies == Truth => RosterIsRight
  <1> SUFFICES ASSUME Truth, NEW c \in Client, state[c] = "ws", ~wantsClose[c], game[c] # 0
               PROVE  roster[c] = InGame(c) \ {c}
    BY DEF RosterIsRight
  <1>1. Right(roster[c], c, game[c], games)
    BY DEF Truth, Aware
  <1>2. game[c] \in DOMAIN games
    BY DEF Truth, IInv, Seated
  <1> QED BY <1>1, <1>2 DEF Right, InGame

\* A client that took all its frames has the players they name.
LEMMA Delivered ==
  ASSUME Truth, NEW out, NEW removed, SendExcept(out, removed),
         \A d \in Client : state'[d] = "ws" => state[d] = "ws" /\ d \notin removed,
         \A d \in Client \ removed :
            state[d] = "ws" /\ game'[d] # 0 /\ Right(roster[d], d, game[d], games) =>
               Right(Heard(roster[d], out, d), d, game'[d], games')
  PROVE  Aware'
  <1> SUFFICES ASSUME NEW d \in Client
               PROVE  /\ game'[d] = 0 => roster'[d] = {}
                      /\ state'[d] = "ws" /\ ~wantsClose'[d] =>
                            Right(roster'[d], d, game'[d], games')
    BY DEF Aware
  <1>1. roster'[d] = IF wantsClose'[d] \/ d \in removed \/ game'[d] = 0 THEN {}
                     ELSE Heard(roster[d], out, d)
    BY DEF SendExcept, Heard
  <1>2. wantsClose[d] => wantsClose'[d]
    BY DEF SendExcept
  <1>3. ASSUME state'[d] = "ws", ~wantsClose'[d]
        PROVE  Right(roster'[d], d, game'[d], games')
    <2>1. /\ d \notin removed /\ state[d] = "ws" /\ ~wantsClose[d]
          /\ Right(roster[d], d, game[d], games)
      BY <1>2, <1>3 DEF Truth, Aware
    <2>2. CASE game'[d] = 0
      BY <1>1, <2>2 DEF Right
    <2>3. CASE game'[d] # 0
      <3>1. Right(Heard(roster[d], out, d), d, game'[d], games')
        BY <2>1, <2>3
      <3>2. roster'[d] = Heard(roster[d], out, d)
        BY <1>1, <1>3, <2>1, <2>3
      <3> QED BY <3>1, <3>2
    <2> QED BY <2>2, <2>3
  <1> QED BY <1>1, <1>3

(***************************************************************************)
(* What the parts of the handlers' outboxes say.                           *)
(***************************************************************************)
\* An answer, a chat, a relayed frame, a list of games: no player.
LEMMA PlainSays ==
  ASSUME NEW k, NEW out, Outbox(out), NEW S, NEW d \in Client
  PROVE  Heard(k, out ++ To(S, Plain), d) = Heard(k, out, d)
  <1>1. Heard(k, out ++ To(S, Plain), d)
           = IF d \in S THEN Reading(d, Heard(k, out, d), Plain) ELSE Heard(k, out, d)
    BY HeardMore
  <1>2. Reading(d, Heard(k, out, d), Plain) = Heard(k, out, d)
    BY Learned
  <1> QED BY <1>1, <1>2

LEMMA PlainAlone ==
  ASSUME NEW k, NEW S, NEW d \in Client
  PROVE  Heard(k, To(S, Plain), d) = k
  <1>1. Heard(k, To(S, Plain), d) = IF d \in S THEN Reading(d, k, Plain) ELSE k
    BY HeardOne
  <1> QED BY <1>1, Learned

\* The channel that c leaves.
LEMMA ChannelSays ==
  ASSUME NEW c, NEW k, NEW d \in Client
  PROVE  Heard(k, SaidInChannel(c), d) = k
  BY HeardNothing, PlainAlone DEF SaidInChannel

\* Those who stay in the game that c leaves: PEER_LEFT, then the members as
\* they are now.
LEMMA PartySays ==
  ASSUME Seated(games, game, nextGame), NEW c \in Client, NEW k, NEW out, Outbox(out),
         NEW d \in Client, d # c, game[d] # 0, Right(Heard(k, out, d), d, game[d], games)
  PROVE  Right(Heard(k, out ++ SaidInGame(c), d), d, game[d], GamesWithout(c))
  <1> DEFINE j == Heard(k, out, d)
             m == Heard(k, out ++ SaidInGame(c), d)
             g == game[c]
             r == Remaining(c)
             G == GamesWithout(c)
  <1>0. /\ 0 \notin DOMAIN games /\ game[d] \in DOMAIN games
        /\ j = Members(games[game[d]].members) \ {d}
    BY DEF Seated, Right
  <1>1. CASE g \notin DOMAIN games
    <2>1. SaidInGame(c) = Nothing /\ G = games
      BY <1>1 DEF SaidInGame, GamesWithout
    <2>2. m = j
      BY <2>1, HeardNoMore
    <2> HIDE DEF m, j, G
    <2> QED BY <1>0, <2>1, <2>2 DEF m, G, Right
  <1>2. CASE g \in DOMAIN games /\ r = << >>
    <2>1. SaidInGame(c) = Nothing /\ G = [h \in DOMAIN games \ {g} |-> games[h]]
      BY <1>2 DEF SaidInGame, GamesWithout
    <2>2. m = j
      BY <2>1, HeardNoMore
    <2>3. game[d] \in DOMAIN games \ {g}
      <3>1. Once(games[g].members) /\ games[g].members \in Seq(Client)
            /\ Members(games[g].members) = {e \in Client : game[e] = g}
        BY <1>2 DEF Seated, Proper, Record
      <3>2. {e \in Client : game[e] = g} \subseteq {c}
        BY <1>2, <3>1, SwapRemoved DEF Remaining
      <3> QED BY <1>0, <3>2
    <2> HIDE DEF m, j, G
    <2>4. G[game[d]] = games[game[d]]
      BY <2>1, <2>3
    <2> QED BY <1>0, <2>2, <2>4 DEF m, G, Right
  <1>3. CASE g \in DOMAIN games /\ r # << >>
    <2> DEFINE x == out ++ To(Members(r), PeerLeft(c))
               i == Heard(k, x, d)
               new == G[g]
    <2>1. SaidInGame(c) = To(Members(r), PeerLeft(c)) ++ To(Members(r), GameMembers(new))
      BY <1>3 DEF SaidInGame
    <2>2. m = Heard(k, x ++ To(Members(r), GameMembers(new)), d)
      BY <2>1, Outboxes, HeardInOrder
    <2>3. i = IF d \in Members(r) THEN Reading(d, j, PeerLeft(c)) ELSE j
      BY HeardMore
    <2>4. Outbox(x)
      BY Outboxes
    <2>5. m = IF d \in Members(r) THEN Reading(d, i, GameMembers(new)) ELSE i
      BY <2>2, <2>4, HeardMore
    <2>6. games[g].members \in Seq(Client) /\ Once(games[g].members)
          /\ Members(games[g].members) = {e \in Client : game[e] = g} /\ games[g] \in Record
      BY <1>3 DEF Seated, Proper, Record
    <2>7. Members(r) = Members(games[g].members) \ {c}
      BY <2>6, SwapRemoved DEF Remaining
    <2>8. /\ DOMAIN G = DOMAIN games /\ new.members = r
          /\ \A h \in DOMAIN games \ {g} : G[h] = games[h]
      <3>1. G = [games EXCEPT ![g].members = r, ![g].host = IF @ = c THEN r[1] ELSE @]
        BY <1>3 DEF GamesWithout
      <3> QED BY <1>3, <2>6, <3>1 DEF Record
    <2> HIDE DEF i, j, m, x, r, G, g
    <2>9. Reading(d, j, PeerLeft(c)) = j \ {c}
      BY DEF Reading, PeerLeft
    <2> HIDE DEF new
    <2>10. Reading(d, i, GameMembers(new)) = i \cup (Members(new.members) \ {d})
      BY Learned
    <2>11. CASE game[d] = g
      <3>1. d \in Members(r)
        BY <2>6, <2>7, <2>11
      <3>2. m = ((Members(games[g].members) \ {d}) \ {c}) \cup (Members(r) \ {d})
        BY <1>0, <2>3, <2>5, <2>8, <2>9, <2>10, <2>11, <3>1
      <3>3. m = Members(r) \ {d}
        BY <2>7, <3>2
      <3>4. G[game[d]].members = r
        BY <2>8, <2>11 DEF new
      <3> QED BY <3>3, <3>4 DEF Right, m, G
    <2>12. CASE game[d] # g
      <3>1. d \notin Members(r) /\ game[d] \in DOMAIN games \ {g}
        BY <1>0, <2>6, <2>7, <2>12
      <3>2. m = j /\ G[game[d]] = games[game[d]]
        BY <2>3, <2>5, <2>8, <3>1
      <3> QED BY <1>0, <3>2 DEF Right, m, G
    <2> QED BY <2>11, <2>12
  <1> QED BY <1>1, <1>2, <1>3

(***************************************************************************)
(* The handlers.                                                           *)
(***************************************************************************)
\* What every handler of a frame of c has to show.
LEMMA FrameTells ==
  ASSUME Truth, NEW c \in Client, Frame(c), NEW out, Send(out),
         \A d \in Client :
            state[d] = "ws" /\ game'[d] # 0 /\ Right(roster[d], d, game[d], games) =>
               Right(Heard(roster[d], out, d), d, game'[d], games')
  PROVE  Aware'
  BY Delivered DEF Frame, Send

\* One that sends no players and leaves the games alone.
LEMMA IdleTells ==
  ASSUME Truth, NEW c \in Client, Frame(c), NEW out, Send(out), UNCHANGED <<game, games>>,
         \A d \in Client : Heard(roster[d], out, d) = roster[d]
  PROVE  Aware'
  BY FrameTells

LEMMA JoinTells ==
  ASSUME Truth, NEW c \in Client, NEW n \in Channel, ChannelJoin(c, n)
  PROVE  Aware'
  <1> DEFINE members == Append(ChannelsWithout(c)[n], c)
             x == SaidInChannel(c)
             y == x ++ To({c}, Plain)
             z == y ++ To({c}, Plain)
             out == z ++ To(Members(members) \ {c}, Plain)
  <1>1. Frame(c) /\ Send(out) /\ UNCHANGED <<game, games>>
    BY DEF ChannelJoin
  <1>2. Outbox(x) /\ Outbox(y) /\ Outbox(z)
    BY Speech, Outboxes
  <1>3. ASSUME NEW d \in Client PROVE Heard(roster[d], out, d) = roster[d]
    <2> DEFINE k == roster[d]
    <2> HIDE DEF members, x, k
    <2>1. Heard(k, y, d) = Heard(k, x, d)
      BY <1>2, PlainSays
    <2>2. Heard(k, z, d) = Heard(k, y, d)
      <3> HIDE DEF y
      <3> QED BY <1>2, PlainSays
    <2>3. Heard(k, out, d) = Heard(k, z, d)
      <3> HIDE DEF z
      <3> QED BY <1>2, PlainSays
    <2>4. Heard(k, x, d) = k
      BY ChannelSays DEF x
    <2> HIDE DEF y, z, out
    <2> QED BY <2>1, <2>2, <2>3, <2>4 DEF k
  <1> HIDE DEF out
  <1> QED BY <1>1, <1>3, IdleTells

LEMMA CreateTells ==
  ASSUME Truth, NEW c \in Client, NEW max \in MaxPlayers, GameCreate(c, max)
  PROVE  Aware'
  <1> DEFINE g == [host |-> c, max |-> max, started |-> FALSE, members |-> <<c>>]
             G == [h \in DOMAIN games \cup {nextGame} |-> IF h = nextGame THEN g ELSE games[h]]
             out == ToAll ++ To({c}, GameMembers(g))
  <1>1. /\ Frame(c) /\ Send(out) /\ games' = G /\ game[c] = 0
        /\ game' = [game EXCEPT ![c] = nextGame]
    BY DEF GameCreate
  <1>2. /\ nextGame \notin DOMAIN games /\ game \in [Client -> 0 .. nextGame - 1]
        /\ \A e \in Client : game[e] # 0 => game[e] \in DOMAIN games
        /\ nextGame # 0
    BY LimitAssumption DEF Truth, IInv, Seated
  <1>3. G[nextGame] = g /\ \A h \in DOMAIN games : G[h] = games[h]
    BY <1>2
  <1>4. \A d \in Client : game'[d] = IF d = c THEN nextGame ELSE game[d]
    BY <1>1, <1>2
  <1> SUFFICES ASSUME NEW d \in Client, state[d] = "ws", game'[d] # 0,
                      Right(roster[d], d, game[d], games)
               PROVE  Right(Heard(roster[d], out, d), d, game'[d], games')
    BY <1>1, FrameTells
  <1> DEFINE k == roster[d]
             ko == Heard(k, out, d)
  <1>5. Outbox(ToAll) /\ Heard(k, ToAll, d) = k
    BY Outboxes, PlainAlone DEF ToAll
  <1>6. ko = IF d = c THEN Reading(d, k, GameMembers(g)) ELSE k
    <2> HIDE DEF g
    <2> QED BY <1>5, HeardMore
  <1>7. Reading(d, k, GameMembers(g)) = k \cup (Members(g.members) \ {d})
    <2> HIDE DEF g
    <2> QED BY Learned
  <1> HIDE DEF G, out, ko
  <1>8. CASE d = c
    <2>1. k = {}
      BY <1>1, <1>8 DEF Right
    <2>2. ko = Members(g.members) \ {d}
      <3> HIDE DEF g, k
      <3> QED BY <1>6, <1>7, <1>8, <2>1
    <2>3. games'[game'[d]] = g
      BY <1>1, <1>3, <1>4, <1>8
    <2>4. game'[d] # 0
      OBVIOUS
    <2> HIDE DEF g
    <2> QED BY <2>2, <2>3, <2>4 DEF Right, ko
  <1>9. CASE d # c
    <2>1. ko = k /\ game'[d] = game[d]
      BY <1>4, <1>6, <1>9
    <2>2. games'[game[d]] = games[game[d]]
      BY <1>1, <1>2, <1>3, <2>1
    <2> HIDE DEF g
    <2> QED BY <2>1, <2>2 DEF Right, ko
  <1> QED BY <1>8, <1>9

LEMMA EnterTells ==
  ASSUME Truth, NEW c \in Client, NEW g \in DOMAIN games, GameJoin(c, g)
  PROVE  Aware'
  <1> DEFINE G == [games EXCEPT ![g].members = Append(@, c)]
             out == ToAll ++ To(Members(G[g].members), GameMembers(G[g]))
  <1>1. /\ Frame(c) /\ Send(out) /\ games' = G
        /\ game' = [game EXCEPT ![c] = g] /\ game[c] = 0
    BY DEF GameJoin
  <1>2. /\ 0 \notin DOMAIN games /\ game \in [Client -> 0 .. nextGame - 1]
        /\ \A e \in Client : game[e] # 0 => game[e] \in DOMAIN games
        /\ Members(games[g].members) = {e \in Client : game[e] = g}
    BY DEF Truth, IInv, Seated, Proper
  <1>3. Seated(G, [game EXCEPT ![c] = g], nextGame)
    BY <1>1, GameJoined DEF Truth, IInv
  <1>4. \A d \in Client : game'[d] = IF d = c THEN g ELSE game[d]
    BY <1>1, <1>2
  <1>5. DOMAIN G = DOMAIN games /\ \A h \in DOMAIN games \ {g} : G[h] = games[h]
    OBVIOUS
  <1> HIDE DEF G
  <1>6. Members(G[g].members) = {e \in Client : game'[e] = g}
    BY <1>1, <1>3, <1>5 DEF Seated, Proper
  <1> SUFFICES ASSUME NEW d \in Client, state[d] = "ws", game'[d] # 0,
                      Right(roster[d], d, game[d], games)
               PROVE  Right(Heard(roster[d], out, d), d, game'[d], games')
    BY <1>1, FrameTells
  <1> DEFINE k == roster[d]
             ko == Heard(k, out, d)
  <1>7. Outbox(ToAll) /\ Heard(k, ToAll, d) = k
    BY Outboxes, PlainAlone DEF ToAll
  <1>8. ko = IF d \in Members(G[g].members) THEN Reading(d, k, GameMembers(G[g])) ELSE k
    BY <1>7, HeardMore
  <1>9. Reading(d, k, GameMembers(G[g])) = k \cup (Members(G[g].members) \ {d})
    BY Learned
  <1> HIDE DEF out, ko
  <1>10. CASE game'[d] = g
    <2>1. d \in Members(G[g].members)
      BY <1>6, <1>10
    <2>2. k \subseteq Members(G[g].members) \ {d}
      <3>1. CASE d = c
        BY <1>1, <3>1 DEF Right
      <3>2. CASE d # c
        <4>1. game[d] = g
          BY <1>4, <1>10, <3>2
        <4>2. k = Members(games[g].members) \ {d}
          BY <1>2, <4>1 DEF Right
        <4>3. Members(games[g].members) \subseteq Members(G[g].members)
          <5>1. \A e \in Client : game[e] = g => game'[e] = g
            BY <1>4
          <5> QED BY <1>2, <1>6, <5>1
        <4> QED BY <4>2, <4>3
      <3> QED BY <3>1, <3>2
    <2>3. ko = Members(G[g].members) \ {d}
      <3> HIDE DEF k
      <3> QED BY <1>8, <1>9, <2>1, <2>2
    <2> QED BY <1>1, <1>10, <2>3 DEF Right, ko
  <1>11. CASE game'[d] # g
    <2>1. ko = k /\ game'[d] = game[d]
      BY <1>4, <1>6, <1>8, <1>11
    <2>2. games'[game[d]] = games[game[d]]
      BY <1>1, <1>2, <1>5, <1>11, <2>1
    <2> QED BY <2>1, <2>2 DEF Right, ko
  <1> QED BY <1>10, <1>11

LEMMA LeaveTells ==
  ASSUME Truth, NEW c \in Client, GameLeave(c)
  PROVE  Aware'
  <1> DEFINE G == GamesWithout(c)
             x == SaidInGame(c)
             out == x ++ ToAll
  <1>1. Frame(c) /\ Send(out) /\ games' = G /\ game' = [game EXCEPT ![c] = 0]
    BY DEF GameLeave
  <1>2. Seated(games, game, nextGame) /\ game \in [Client -> 0 .. nextGame - 1]
    BY DEF Truth, IInv, Seated
  <1>3. Outbox(x) /\ Outbox(Nothing)
    BY Speech, Outboxes
  <1> SUFFICES ASSUME NEW d \in Client, state[d] = "ws", game'[d] # 0,
                      Right(roster[d], d, game[d], games)
               PROVE  Right(Heard(roster[d], out, d), d, game'[d], games')
    BY <1>1, FrameTells
  <1>4. d # c /\ game'[d] = game[d]
    BY <1>1, <1>2
  <1> DEFINE k == roster[d]
  <1>5. Right(Heard(k, x, d), d, game[d], G)
    <2>1. Heard(k, Nothing, d) = k /\ Heard(k, Nothing ++ x, d) = Heard(k, x, d)
      BY <1>3, HeardNothing, HeardAfterNothing
    <2>2. Right(Heard(k, Nothing, d), d, game[d], games)
      BY <2>1
    <2>3. game[d] # 0
      BY <1>4
    <2>4. Right(Heard(k, Nothing ++ x, d), d, game[d], G)
      <3> HIDE DEF k
      <3> QED BY <1>2, <1>3, <1>4, <2>2, <2>3, PartySays
    <2> QED BY <2>1, <2>4
  <1>6. Heard(k, out, d) = Heard(k, x, d)
    <2> HIDE DEF x, k
    <2> QED BY <1>3, PlainSays DEF ToAll
  <1> HIDE DEF G, x, out
  <1> QED BY <1>1, <1>4, <1>5, <1>6

LEMMA BeginTells ==
  ASSUME Truth, NEW c \in Client, GameStart(c)
  PROVE  Aware'
  <1> DEFINE G == [games EXCEPT ![game[c]].started = TRUE]
             x == To(InGame(c), Plain)
             out == x ++ ToAll
  <1>1. /\ Frame(c) /\ Send(out) /\ games' = G /\ game[c] \in DOMAIN games
        /\ UNCHANGED game
    BY DEF GameStart
  <1>2. \A h \in DOMAIN games : G[h].members = games[h].members
    BY <1>1 DEF Truth, IInv, Seated, Proper, Record
  <1>3. \A e \in Client : game[e] # 0 => game[e] \in DOMAIN games
    BY DEF Truth, IInv, Seated
  <1> SUFFICES ASSUME NEW d \in Client, state[d] = "ws", game'[d] # 0,
                      Right(roster[d], d, game[d], games)
               PROVE  Right(Heard(roster[d], out, d), d, game'[d], games')
    BY <1>1, FrameTells
  <1> DEFINE k == roster[d]
  <1>4. Outbox(x) /\ Heard(k, x, d) = k
    BY Outboxes, PlainAlone
  <1>5. Heard(k, out, d) = k
    <2>1. Heard(k, out, d) = Heard(k, x, d)
      <3> HIDE DEF x, k
      <3> QED BY <1>4, PlainSays DEF ToAll
    <2> QED BY <1>4, <2>1
  <1> HIDE DEF G, x, out
  <1> QED BY <1>1, <1>2, <1>3, <1>5 DEF Right

\* removeConn: the channel, then the game, then the list of games.
LEMMA RemovalTells ==
  ASSUME Truth, NEW c \in Client,
         state' = [state EXCEPT ![c] = "gone"],
         games' = GamesWithout(c), game' = [game EXCEPT ![c] = 0],
         SendExcept(SaidInChannel(c) ++ SaidInGame(c)
                    ++ IF game[c] = 0 THEN Nothing ELSE ToAll, {c})
  PROVE  Aware'
  <1> DEFINE G == GamesWithout(c)
             x == SaidInChannel(c)
             y == x ++ SaidInGame(c)
             last == IF game[c] = 0 THEN Nothing ELSE ToAll
             out == y ++ last
  <1>1. /\ Seated(games, game, nextGame) /\ game \in [Client -> 0 .. nextGame - 1]
        /\ state \in [Client -> {"out", "http", "ws", "gone"}]
    BY DEF Truth, IInv, Seated, Fields
  <1>2. Outbox(x) /\ Outbox(y)
    BY Speech, Outboxes
  <1>3. \A d \in Client : state'[d] = "ws" => state[d] = "ws" /\ d # c
    BY <1>1
  <1> SUFFICES ASSUME NEW d \in Client \ {c}, state[d] = "ws", game'[d] # 0,
                      Right(roster[d], d, game[d], games)
               PROVE  Right(Heard(roster[d], out, d), d, game'[d], games')
    BY <1>3, Delivered
  <1>4. game'[d] = game[d] /\ game[d] # 0
    BY <1>1
  <1> DEFINE k == roster[d]
  <1>5. Heard(k, x, d) = k
    BY ChannelSays
  <1>6. Right(Heard(k, y, d), d, game[d], G)
    <2>1. Right(Heard(k, x, d), d, game[d], games)
      BY <1>5
    <2> HIDE DEF x, k
    <2> QED BY <1>1, <1>2, <1>4, <2>1, PartySays
  <1>7. Heard(k, out, d) = Heard(k, y, d)
    <2> HIDE DEF y, k
    <2> QED BY <1>2, HeardNoMore, PlainSays DEF ToAll
  <1> HIDE DEF G, x, y, last, out
  <1> QED BY <1>4, <1>6, <1>7 DEF G

(***************************************************************************)
(* The invariant is kept.                                                  *)
(***************************************************************************)
LEMMA FramesTell == ASSUME Truth, NEW c \in Client, AppFrame(c) PROVE Aware'
  <1>0. \A S : \A d \in Client : Heard(roster[d], To(S, Plain), d) = roster[d]
    BY PlainAlone
  <1>1. CASE Hello(c)
    BY <1>0, <1>1, IdleTells DEF Hello, Reply, where
  <1>2. CASE Answer(c)
    BY <1>0, <1>2, IdleTells DEF Answer, Reply, where
  <1>3. CASE Chat(c)
    BY <1>0, <1>3, IdleTells DEF Chat, where
  <1>4. CASE RelayBroadcast(c)
    BY <1>0, <1>4, IdleTells DEF RelayBroadcast, where
  <1>5. CASE RelayPrivate(c)
    BY <1>0, <1>5, IdleTells DEF RelayPrivate, where
  <1>6. ASSUME NEW n \in Channel, ChannelJoin(c, n) PROVE Aware'
    BY <1>6, JoinTells
  <1>7. ASSUME NEW m \in MaxPlayers, GameCreate(c, m) PROVE Aware'
    BY <1>7, CreateTells
  <1>8. ASSUME NEW g \in DOMAIN games, GameJoin(c, g) PROVE Aware'
    BY <1>8, EnterTells
  <1>9. CASE GameLeave(c)
    BY <1>9, LeaveTells
  <1>10. CASE GameStart(c)
    BY <1>10, BeginTells
  <1> QED BY <1>1, <1>2, <1>3, <1>4, <1>5, <1>6, <1>7, <1>8, <1>9, <1>10 DEF AppFrame

\* A step that sends no players and seats nobody, and brings to the WebSocket
\* only clients that are in nothing yet.
LEMMA SilenceTells ==
  ASSUME Truth, UNCHANGED <<roster, game, games>>,
         \A d \in Client : wantsClose[d] => wantsClose'[d],
         \A d \in Client : state'[d] = "ws" /\ state[d] # "ws" => game[d] = 0
  PROVE  Aware'
  <1> SUFFICES ASSUME NEW d \in Client
               PROVE  /\ game[d] = 0 => roster[d] = {}
                      /\ state'[d] = "ws" /\ ~wantsClose'[d] =>
                            Right(roster[d], d, game[d], games)
    BY DEF Aware
  <1>1. /\ game[d] = 0 => roster[d] = {}
        /\ state[d] = "ws" /\ ~wantsClose[d] => Right(roster[d], d, game[d], games)
    BY DEF Truth, Aware
  <1> QED BY <1>1 DEF Right

LEMMA FinishTells ==
  ASSUME Truth, NEW c \in Client, NEW eof \in BOOLEAN, NEW n, Finish(c, eof, n)
  PROVE  Aware'
  <1>1. \/ /\ state' = [state EXCEPT ![c] = "gone"]
           /\ games' = GamesWithout(c) /\ game' = [game EXCEPT ![c] = 0]
           /\ SendExcept(SaidInChannel(c) ++ SaidInGame(c)
                         ++ IF game[c] = 0 THEN Nothing ELSE ToAll, {c})
        \/ /\ UNCHANGED <<state, games, game, roster>>
           /\ \E shut : wantsClose' = [wantsClose EXCEPT ![c] = shut]
                        /\ (wantsClose[c] => shut)
    BY DEF Finish
  <1>2. CASE /\ UNCHANGED <<state, games, game, roster>>
             /\ \E shut : wantsClose' = [wantsClose EXCEPT ![c] = shut]
                          /\ (wantsClose[c] => shut)
    <2>1. PICK shut : wantsClose' = [wantsClose EXCEPT ![c] = shut] /\ (wantsClose[c] => shut)
      BY <1>2
    <2>2. \A d \in Client : wantsClose[d] => wantsClose'[d]
      BY <2>1 DEF Truth, IInv, Fields
    <2> QED BY <1>2, <2>2, SilenceTells
  <1> QED BY <1>1, <1>2, RemovalTells

LEMMA AwareStep == Truth /\ [Next]_vars => Aware'
  <1> SUFFICES ASSUME Truth, [Next]_vars PROVE Aware'
    OBVIOUS
  <1>a. \A d \in Client : state[d] # "ws" => game[d] = 0
    BY DEF Truth, IInv, Present
  <1>1. CASE Pass \/ UNCHANGED vars
    BY <1>1, SilenceTells DEF Pass, vars, flags, where
  <1>2. CASE Poll
    BY <1>2, <1>a, SilenceTells DEF Poll, flags, where
  <1>3. ASSUME NEW c \in Client, AppFrame(c) PROVE Aware'
    BY <1>3, FramesTell
  <1>4. ASSUME NEW c \in Client, NEW eof \in BOOLEAN, NEW n, Finish(c, eof, n) PROVE Aware'
    BY <1>4, FinishTells
  <1>5. ASSUME NEW c \in Client, Http(c) PROVE Aware'
    BY <1>5, <1>a, SilenceTells DEF Http, where
  <1>6. ASSUME NEW c \in Client, Vanish(c) PROVE Aware'
    BY <1>6, SilenceTells DEF Vanish, flags, where
  <1>7. ASSUME NEW c \in Client, WsClose(c) PROVE Aware'
    <2>1. UNCHANGED <<state, game, games>>
      BY <1>7 DEF WsClose, where
    <2>2. CASE Reply(c)
      <3>1. Send(To({c}, Plain))
        BY <2>2 DEF Reply
      <3>2. \A d \in Client : Heard(roster[d], To({c}, Plain), d) = roster[d]
        BY PlainAlone
      <3> QED BY <2>1, <3>1, <3>2, Delivered DEF Send
    <2>3. CASE wantsClose' = [wantsClose EXCEPT ![c] = TRUE] /\ UNCHANGED roster
      <3>1. \A d \in Client : wantsClose[d] => wantsClose'[d]
        BY <2>3 DEF Truth, IInv, Fields
      <3> QED BY <2>1, <2>3, <3>1, SilenceTells
    <2> QED BY <1>7, <2>2, <2>3 DEF WsClose
  <1> QED BY <1>1, <1>2, <1>3, <1>4, <1>5, <1>6, <1>7 DEF Next, Loop, EndOfTurn

LEMMA TruthInvariance == Safety => []Truth
  <1>1. Init => Truth
    <2> SUFFICES ASSUME Init PROVE Aware
      BY Start DEF Truth
    <2>1. \A c \in Client : game[c] = 0 /\ roster[c] = {}
      BY DEF Init
    <2> QED BY <2>1 DEF Aware, Right
  <1>2. Truth /\ [Next]_vars => Truth'
    <2> SUFFICES ASSUME Truth, [Next]_vars PROVE Truth'
      OBVIOUS
    <2>1. IInv'
      BY Step DEF Truth
    <2>2. Aware'
      BY AwareStep
    <2> QED BY <2>1, <2>2 DEF Truth
  <1> QED BY <1>1, <1>2, PTL DEF Safety

\* What handleGameCreate, handleGameJoin and removeFromGame of server.zig send
\* the players of a game, PEER_LEFT and lists of members, read as NETDLG.CPP
\* reads them (lists only add, PEER_LEFT takes away), adds up to the other
\* players of the game, after every handler and every removal, for a player
\* that was refused no frame and is not to be closed.
THEOREM RostersAreRight == Safety => []RosterIsRight
  BY TruthInvariance, TruthImplies, PTL
=============================================================================
