---------------------------- MODULE NetGameProofs ----------------------------
(***************************************************************************)
(* That over either network manager nobody's packets are read as another's,*)
(* out of order, left unread while others are read, or lost without cause, *)
(* and that the frames the game notes are those of the players it notes    *)
(* them for, for every number of players, packets and queue entries.       *)
(***************************************************************************)
EXTENDS NetGame, Totals

LEMMA Sizes ==
  /\ Player \subseteq Nat \ {0} /\ IsFiniteSet(Player)
  /\ Cardinality(Player) \in Nat
  /\ Order \in Seq(Player) /\ \A p \in Player : \E i \in DOMAIN Order : Order[i] = p
  /\ \A i, j \in DOMAIN Order : Order[i] = Order[j] => i = j
  /\ IdOf \in [Player -> Nat \ {0}]
  /\ \A p, q \in Player : IdOf[p] = IdOf[q] => p = q
  /\ MaxConnections \in Nat /\ Cardinality(Player) <= MaxConnections
  /\ ConnectMax \in Nat /\ Cardinality(Player) <= ConnectMax
  /\ MaxQueued \in Nat /\ Lot \in Nat
  /\ MaxReceive \in Nat \ {0} /\ MaxSend \in Nat \ {0} /\ Casts \in Nat
  <1>1. U!IsFiniteSet(Player) = IsFiniteSet(Player)
    BY DEF U!IsFiniteSet, IsFiniteSet
  <1>2. U!Cardinality(Player) = Cardinality(Player) /\ W!Cardinality(Player) = Cardinality(Player)
    BY Zenon DEF U!Cardinality, W!Cardinality, Cardinality, U!IsFiniteSet, W!IsFiniteSet,
        IsFiniteSet
  <1>3. IsFiniteSet(Player)
    BY <1>1, ManagerAssumption DEF U!PlayersListed
  <1>4. Cardinality(Player) \in Nat
    BY <1>3, FS_CardinalityType
  <1> QED BY <1>2, <1>3, <1>4, ManagerAssumption DEF U!PlayersListed, W!SizesFit, U!SizesFit

LEMMA SameCount == U!Cardinality(Player) = Cardinality(Player)
  BY Zenon DEF U!Cardinality, Cardinality, U!IsFiniteSet, IsFiniteSet

\* A sequence of different players is not longer than there are players.
LEMMA FewPlayers ==
  ASSUME NEW s \in Seq(Player), \A i, j \in DOMAIN s : s[i] = s[j] => i = j
  PROVE  Len(s) <= Cardinality(Player)
  <1>1. s \in [1 .. Len(s) -> Player] /\ Len(s) \in Nat
    OBVIOUS
  <1>2. s \in Injection(1 .. Len(s), Player)
    BY <1>1 DEF Injection, IsInjective
  <1>3. Cardinality(1 .. Len(s)) = Len(s)
    <2>1. Cardinality(1 .. Len(s)) = IF 1 > Len(s) THEN 0 ELSE Len(s) - 1 + 1
      BY <1>1, FS_Interval
    <2> QED BY <1>1, <2>1
  <1> QED BY <1>2, <1>3, Sizes, FS_Injection

(***************************************************************************)
(* What both managers and the game share.                                  *)
(***************************************************************************)
\* What is read as a player's is his, each packet later than the one before.
Shared ==
    /\ begun \in BOOLEAN /\ excused \subseteq Player
    /\ said \in [Player -> 0 .. Lot]
    /\ heard \in [Player -> Seq(Player \X Nat)]

InOrder(s) == \A i, j \in DOMAIN s : i < j => s[i] < s[j]

HeardInOrder ==
    \A p \in Player :
       /\ \A i \in DOMAIN heard[p] : heard[p][i][1] = p /\ heard[p][i][2] \in 1 .. said[p]
       /\ \A i, j \in DOMAIN heard[p] : i < j => heard[p][i][2] < heard[p][j][2]

(***************************************************************************)
(* UDPManagerClass: the invariant.                                         *)
(***************************************************************************)
UFields ==
    /\ transport \in Transport
    /\ uconns \in Seq(Player) /\ \A i, j \in DOMAIN uconns : uconns[i] = uconns[j] => i = j
    /\ cur \in Nat /\ (cur = 0 \/ cur < Len(uconns))
    /\ came \in [Player -> 0 .. Lot] /\ inbox \in [Player -> Seq(Nat)]
    /\ sendQ \in [Player -> 0 .. MaxSend] /\ casts \in 0 .. Casts
    /\ waits \in [Player -> Nat]
    /\ ~begun => uconns = << >>
    /\ \A p \in Player : Len(inbox[p]) <= MaxReceive /\ (~U!Connected(p) => inbox[p] = << >>)

\* Of each player: read, then in the queue, then on its way.
UOrder ==
    \A p \in Player :
       /\ came[p] <= said[p]
       /\ InOrder(inbox[p])
       /\ \A i \in DOMAIN inbox[p] : inbox[p][i] \in 1 .. came[p]
       /\ \A i \in DOMAIN heard[p] :
             /\ heard[p][i][2] \in 1 .. came[p]
             /\ \A j \in DOMAIN inbox[p] : heard[p][i][2] < inbox[p][j]

\* What has come of a player who is not excused is read or waits.
UKept ==
    \A p \in Player \ excused :
       /\ begun => U!Connected(p)
       /\ \A n \in 1 .. came[p] : n \in U!Heard(p) \cup U!Held(p)

\* How many connections are asked before the k-th, and how often its player
\* has waited: together no more than there are others.
Before(k) == IF k > cur THEN k - 1 - cur ELSE k - 1 - cur + Len(uconns)
UTurns ==
    /\ \A k \in DOMAIN uconns : waits[uconns[k]] + Before(k) <= Len(uconns) - 1
    /\ \A p \in Player : ~U!Connected(p) => waits[p] = 0

UInv == Shared /\ HeardInOrder /\ UFields /\ UOrder /\ UKept /\ UTurns

UWaiting(p) == U!Held(p) \cup came[p] + 1 .. said[p]

\* A step after which nothing is awaited that was not before.
UNoneMore ==
    /\ begun => begun'
    /\ \A p \in Player : /\ begun /\ U!Connected(p)' => U!Connected(p)
                         /\ UWaiting(p)' \subseteq UWaiting(p)

\* A step that reads packet n of p, the first of his that waits.
UTakesOne(p, n) ==
    /\ heard' = [heard EXCEPT ![p] = Append(@, <<p, n>>)] /\ UNCHANGED <<begun, said>>
    /\ U!Connected(p) /\ n \notin U!Heard(p) /\ n \in UWaiting(p)
    /\ \A k \in UWaiting(p) : n <= k
    /\ \A q \in Player : /\ U!Connected(q)' = U!Connected(q)
                         /\ U!Heard(q)' \cup UWaiting(q)' = U!Heard(q) \cup UWaiting(q)

LEMMA Reaching ==
  ASSUME NEW n \in Nat \ {0}, NEW c \in 0 .. n - 1, NEW i \in 0 .. n - 1
  PROVE  /\ (c + i) % n = IF c + i < n THEN c + i ELSE c + i - n
         /\ (c + i + 1) % n = IF c + i + 1 < n THEN c + i + 1 ELSE c + i + 1 - n
         /\ (c + i) % n \in 0 .. n - 1 /\ (c + i + 1) % n \in 0 .. n - 1
  <1>1. \A a \in Nat : a < n => a % n = a
    OBVIOUS
  <1>2. \A a \in Nat : n <= a /\ a < n + n => a % n = a - n
    OBVIOUS
  <1>3. c \in Nat /\ i \in Nat /\ c + i \in Nat /\ c + i + 1 \in Nat /\ c < n /\ i < n
    OBVIOUS
  <1>4. (c + i) % n = IF c + i < n THEN c + i ELSE c + i - n
    BY <1>1, <1>2, <1>3
  <1>5. (c + i + 1) % n = IF c + i + 1 < n THEN c + i + 1 ELSE c + i + 1 - n
    BY <1>1, <1>2, <1>3
  <1> QED BY <1>3, <1>4, <1>5

\* Get_Private_Message asks each connection once, from CurConnection on.
LEMMA AsksAll ==
  ASSUME UFields, uconns # << >>
  PROVE  /\ cur < Len(uconns) /\ U!Wrapped(cur, Len(uconns)) = cur
         /\ Len(uconns) \in Nat \ {0} /\ DOMAIN U!Asked = 0 .. Len(uconns) - 1
         /\ \A k \in DOMAIN uconns :
               Before(k) \in 0 .. Len(uconns) - 1 /\ U!Asked[Before(k)] = uconns[k]
         /\ \A i \in 0 .. Len(uconns) - 1 : \E k \in DOMAIN uconns : i = Before(k)
  <1> DEFINE n == Len(uconns)
  <1>1. n \in Nat \ {0} /\ cur \in 0 .. n - 1 /\ DOMAIN uconns = 1 .. n
    BY DEF UFields
  <1>2. U!Wrapped(cur, n) = cur
    BY <1>1 DEF U!Wrapped
  <1>3. U!Asked = [i \in 0 .. n - 1 |-> uconns[1 + ((cur + i) % n)]]
    BY <1>2 DEF U!Asked
  <1> HIDE DEF n
  <1>4. ASSUME NEW k \in 1 .. n
        PROVE  Before(k) \in 0 .. n - 1 /\ U!Asked[Before(k)] = uconns[k]
    <2>1. Before(k) = IF k > cur THEN k - 1 - cur ELSE k - 1 - cur + n
      BY DEF Before, n
    <2>2. Before(k) \in 0 .. n - 1
      BY <1>1, <2>1
    <2>3. (cur + Before(k)) % n = IF cur + Before(k) < n THEN cur + Before(k) ELSE cur + Before(k) - n
      BY <1>1, <2>2, Reaching
    <2>4. (cur + Before(k)) % n = k - 1
      BY <1>1, <2>1, <2>2, <2>3
    <2>5. 1 + ((cur + Before(k)) % n) = k
      BY <2>4
    <2> QED BY <1>3, <2>2, <2>5
  <1>5. ASSUME NEW i \in 0 .. n - 1 PROVE \E k \in 1 .. n : i = Before(k)
    <2>1. CASE cur + i < n
      <3>1. cur + i + 1 \in 1 .. n /\ i = Before(cur + i + 1)
        BY <1>1, <2>1 DEF Before
      <3> QED BY <3>1
    <2>2. CASE cur + i >= n
      <3>1. cur + i + 1 - n \in 1 .. n /\ i = Before(cur + i + 1 - n)
        BY <1>1, <2>2 DEF Before, n
      <3> QED BY <3>1
    <2> QED BY <1>1, <2>1, <2>2
  <1>6. DOMAIN U!Asked = 0 .. n - 1
    BY <1>3
  <1>7. cur < n
    BY <1>1
  <1>8. n = Len(uconns)
    BY DEF n
  <1> QED BY <1>1, <1>2, <1>4, <1>5, <1>6, <1>7, <1>8, Zenon

(***************************************************************************)
(* UDPManagerClass: each operation keeps it.                               *)
(***************************************************************************)
\* Where the connections, the turns and what has come stay.
LEMMA UStays ==
  ASSUME UInv, Shared', HeardInOrder', UNCHANGED <<begun, excused, heard, uconns, cur, came, inbox, waits>>,
         transport' \in Transport, sendQ' \in [Player -> 0 .. MaxSend], casts' \in 0 .. Casts,
         \A p \in Player : said[p] <= said'[p]
  PROVE  UInv'
  <1>1. UFields'
    BY DEF UInv, UFields, U!Connected
  <1>2. UOrder'
    <2>1. \A p \in Player : came[p] \in Nat /\ said[p] \in Nat /\ said'[p] \in Nat
      BY DEF UInv, UFields, Shared
    <2> QED BY <2>1 DEF UInv, UOrder, InOrder
  <1>3. UKept'
    BY DEF UInv, UKept, U!Connected, U!Heard, U!Held
  <1>4. UTurns'
    BY DEF UInv, UTurns, Before, U!Connected
  <1> QED BY <1>1, <1>2, <1>3, <1>4 DEF UInv

LEMMA SaysOne ==
  ASSUME Shared, HeardInOrder, NEW p \in Player, said[p] < Lot,
         said' = [said EXCEPT ![p] = @ + 1], UNCHANGED <<begun, heard, excused>>
  PROVE  /\ Shared' /\ HeardInOrder'
         /\ \A q \in Player : said[q] <= said'[q] /\ said[q] \in Nat /\ said'[q] \in Nat
  <1>1. said \in [Player -> 0 .. Lot] /\ Lot \in Nat
    BY Sizes DEF Shared
  <1>2. said' \in [Player -> 0 .. Lot]
    BY <1>1
  <1>3. \A q \in Player : said[q] <= said'[q] /\ said[q] \in Nat /\ said'[q] \in Nat
    BY <1>1
  <1>4. Shared'
    BY <1>2 DEF Shared
  <1>5. HeardInOrder'
    <2>1. \A q \in Player : \A n \in 1 .. said[q] : n \in 1 .. said'[q]
      BY <1>3
    <2> QED BY <2>1 DEF HeardInOrder
  <1> QED BY <1>3, <1>4, <1>5

LEMMA USayKeeps == ASSUME UInv, NEW p \in Player, U!Say(p) PROVE UInv'
  <1>1. /\ said[p] < Lot /\ said' = [said EXCEPT ![p] = @ + 1]
        /\ UNCHANGED <<begun, heard, excused, transport, uconns, cur, came, inbox, waits, sendQ, casts>>
    BY DEF U!Say, U!ins, U!outs
  <1>2. Shared /\ HeardInOrder
    BY DEF UInv
  <1>3. Shared' /\ HeardInOrder' /\ \A q \in Player : said[q] <= said'[q]
    BY <1>1, <1>2, SaysOne
  <1> QED BY <1>1, <1>3, UStays DEF UInv, UFields

LEMMA USentKeeps == ASSUME UInv, NEW p \in Player, U!Sent(p) PROVE UInv'
  <1>1. /\ sendQ[p] > 0 /\ sendQ' = [sendQ EXCEPT ![p] = @ - 1]
        /\ UNCHANGED <<begun, said, heard, excused, transport, uconns, cur, came, inbox, waits, casts>>
    BY DEF U!Sent, U!ins
  <1>2. sendQ' \in [Player -> 0 .. MaxSend]
    <2>1. sendQ \in [Player -> 0 .. MaxSend] /\ MaxSend \in Nat
      BY Sizes DEF UInv, UFields
    <2>2. sendQ[p] - 1 \in 0 .. MaxSend
      BY <1>1, <2>1
    <2>3. sendQ' = [sendQ EXCEPT ![p] = sendQ[p] - 1]
      BY <1>1
    <2> QED BY <2>1, <2>2, <2>3
  <1>3. Shared' /\ HeardInOrder' /\ \A q \in Player : said[q] <= said'[q]
    BY <1>1 DEF UInv, Shared, HeardInOrder
  <1> QED BY <1>1, <1>2, <1>3, UStays DEF UInv, UFields

LEMMA UBroadcastKeeps == ASSUME UInv, U!Broadcast PROVE UInv'
  <1>1. /\ casts < Casts /\ casts' = casts + 1
        /\ UNCHANGED <<begun, said, heard, excused, transport, uconns, cur, came, inbox, waits>>
    BY DEF U!Broadcast, U!ins
  <1>2. sendQ' \in [Player -> 0 .. MaxSend]
    <2>1. sendQ \in [Player -> 0 .. MaxSend]
      BY DEF UInv, UFields
    <2>2. CASE sendQ' = sendQ
      BY <2>1, <2>2
    <2>3. CASE sendQ' # sendQ
      <3>1. sendQ' = [p \in Player |-> IF p \in {q \in Player : U!Connected(q) /\ sendQ[q] < MaxSend}
                                       THEN sendQ[p] + 1 ELSE sendQ[p]]
        BY <2>3 DEF U!Broadcast
      <3> QED BY <2>1, <3>1, Sizes
    <2> QED BY <2>2, <2>3
  <1>3. casts' \in 0 .. Casts
    BY <1>1, Sizes DEF UInv, UFields
  <1>4. Shared' /\ HeardInOrder' /\ \A q \in Player : said[q] <= said'[q]
    BY <1>1 DEF UInv, Shared, HeardInOrder
  <1> QED BY <1>1, <1>2, <1>3, <1>4, UStays DEF UInv, UFields

\* The dialog's list is all of the players, each once.
LEMMA UBeginAll ==
  ASSUME U!Begin
  PROVE  /\ uconns' = Order /\ ~begun /\ begun' = TRUE
         /\ UNCHANGED <<said, heard, excused, transport, cur, came, inbox, waits, sendQ, casts>>
  <1>1. Len(Order) <= ConnectMax /\ Len(Order) \in Nat
    BY Sizes, FewPlayers
  <1>2. U!Least(Len(Order), ConnectMax) = Len(Order)
    BY <1>1 DEF U!Least
  <1>3. SubSeq(Order, 1, Len(Order)) = Order
    BY Sizes
  <1> QED BY <1>2, <1>3 DEF U!Begin, U!ins, U!outs

LEMMA UBeginKeeps == ASSUME UInv, U!Begin PROVE UInv'
  <1>1. /\ uconns' = Order /\ ~begun /\ begun' = TRUE
        /\ UNCHANGED <<said, heard, excused, transport, cur, came, inbox, waits, sendQ, casts>>
    BY UBeginAll
  <1>2. uconns = << >> /\ cur = 0
    BY <1>1 DEF UInv, UFields
  <1>3. \A p \in Player : ~U!Connected(p) /\ U!Connected(p)'
    BY <1>1, <1>2, Sizes DEF U!Connected
  <1>4. \A p \in Player : waits[p] = 0 /\ inbox[p] = << >>
    BY <1>3 DEF UInv, UFields, UTurns
  <1>5. Shared' /\ HeardInOrder' /\ UOrder'
    BY <1>1 DEF UInv, Shared, HeardInOrder, UOrder
  <1>6. UFields'
    <2>1. cur' \in Nat /\ cur' = 0
      BY <1>1, <1>2
    <2>2. \A p \in Player : Len(inbox'[p]) <= MaxReceive /\ (~U!Connected(p)' => inbox'[p] = << >>)
      <3>1. \A p \in Player : inbox'[p] = << >>
        BY <1>1, <1>4
      <3>2. Len(<< >>) = 0 /\ 0 <= MaxReceive
        BY Sizes
      <3> QED BY <3>1, <3>2
    <2>3. uconns' \in Seq(Player) /\ \A i, j \in DOMAIN uconns' : uconns'[i] = uconns'[j] => i = j
      BY <1>1, Sizes
    <2>4. transport' \in Transport /\ came' \in [Player -> 0 .. Lot] /\ inbox' \in [Player -> Seq(Nat)]
          /\ sendQ' \in [Player -> 0 .. MaxSend] /\ casts' \in 0 .. Casts /\ waits' \in [Player -> Nat]
      BY <1>1 DEF UInv, UFields
    <2> QED BY <1>1, <2>1, <2>2, <2>3, <2>4 DEF UFields
  <1>7. UKept'
    BY <1>1, <1>3 DEF UInv, UKept, U!Heard, U!Held
  <1>8. UTurns'
    <2>1. \A k \in DOMAIN Order : Order[k] \in Player /\ waits'[Order[k]] = 0
      <3>1. \A k \in DOMAIN Order : Order[k] \in Player
        BY Sizes
      <3>2. \A p \in Player : waits'[p] = 0
        BY <1>1, <1>4
      <3> QED BY <3>1, <3>2
    <2>2. \A k \in DOMAIN Order : Before(k)' = k - 1 /\ k \in Nat /\ 1 <= k /\ k <= Len(Order)
      BY <1>1, <1>2, Sizes DEF Before
    <2>3. Len(Order) \in Nat
      BY Sizes
    <2> QED BY <1>1, <1>3, <2>1, <2>2, <2>3 DEF UTurns
  <1> QED BY <1>5, <1>6, <1>7, <1>8 DEF UInv

LEMMA UReceiveKeeps == ASSUME UInv, NEW p \in Player, U!Receive(p) PROVE UInv'
  <1> DEFINE n == came[p] + 1
  <1>1. UNCHANGED <<begun, said, heard, transport, uconns, cur, waits, sendQ, casts>>
    BY DEF U!Receive, U!outs
  <1>2. /\ came \in [Player -> 0 .. Lot] /\ inbox \in [Player -> Seq(Nat)] /\ Lot \in Nat
        /\ said \in [Player -> 0 .. Lot] /\ excused \subseteq Player
        /\ MaxReceive \in Nat \ {0}
    BY Sizes DEF UInv, UFields, Shared
  <1>3. /\ came[p] < said[p] /\ came' = [came EXCEPT ![p] = n]
        /\ \/ /\ U!Connected(p) /\ Len(inbox[p]) < MaxReceive
              /\ inbox' = [inbox EXCEPT ![p] = Append(@, n)] /\ excused' = excused
           \/ inbox' = inbox /\ excused' = excused \cup {p}
    <2>1. inbox[p] \in Seq(Nat) /\ Len(inbox[p]) \in Nat
      BY <1>2
    <2>2. U!Accepts(p) => U!Connected(p) /\ Len(inbox[p]) < MaxReceive
      BY <1>2, <2>1 DEF U!Accepts
    <2> QED BY <2>2 DEF U!Receive, U!Take, U!Miss
  <1>4. n \in Nat /\ n <= said[p] /\ n \in 1 .. Lot /\ came[p] < n
    BY <1>2, <1>3
  <1>5. came' \in [Player -> 0 .. Lot] /\ came'[p] = n
        /\ \A q \in Player \ {p} : came'[q] = came[q]
    BY <1>2, <1>3, <1>4
  <1> HIDE DEF n
  <1>6. \A q \in Player : (1 .. came[q]) \subseteq (1 .. came'[q]) /\ came'[q] <= said[q]
    <2>1. \A q \in Player : came[q] \in Nat /\ came[q] <= said[q]
      BY <1>2 DEF UInv, UOrder
    <2> QED BY <1>4, <1>5, <2>1 DEF n
  <1>7. inbox' \in [Player -> Seq(Nat)] /\ \A q \in Player \ {p} : inbox'[q] = inbox[q]
    <2>1. Append(inbox[p], n) \in Seq(Nat)
      BY <1>2, <1>4
    <2>2. inbox' = inbox \/ inbox' = [inbox EXCEPT ![p] = Append(inbox[p], n)]
      BY <1>3
    <2> QED BY <1>2, <2>1, <2>2
  <1>8. CASE inbox' = inbox /\ excused' = excused \cup {p}
    <2>1. UFields' /\ Shared' /\ HeardInOrder'
      BY <1>1, <1>2, <1>5, <1>8 DEF UInv, UFields, Shared, HeardInOrder, U!Connected
    <2>2. UOrder'
      BY <1>1, <1>6, <1>8 DEF UInv, UOrder, InOrder
    <2>3. UKept'
      BY <1>1, <1>5, <1>8 DEF UInv, UKept, U!Connected, U!Heard, U!Held
    <2>4. UTurns'
      BY <1>1 DEF UInv, UTurns, Before, U!Connected
    <2> QED BY <2>1, <2>2, <2>3, <2>4 DEF UInv
  <1>9. CASE /\ U!Connected(p) /\ Len(inbox[p]) < MaxReceive
             /\ inbox' = [inbox EXCEPT ![p] = Append(@, n)] /\ excused' = excused
    <2>1. inbox'[p] = Append(inbox[p], n) /\ inbox[p] \in Seq(Nat) /\ Len(inbox[p]) \in Nat
      BY <1>2, <1>9
    <2>2. /\ Len(inbox'[p]) = Len(inbox[p]) + 1 /\ DOMAIN inbox'[p] = 1 .. Len(inbox[p]) + 1
          /\ DOMAIN inbox[p] = 1 .. Len(inbox[p])
          /\ inbox'[p][Len(inbox[p]) + 1] = n
          /\ \A i \in 1 .. Len(inbox[p]) : inbox'[p][i] = inbox[p][i]
      BY <2>1, <1>4
    <2>3. \A i \in 1 .. Len(inbox[p]) : inbox[p][i] \in 1 .. came[p] /\ inbox[p][i] < n
      <3>1. \A i \in 1 .. Len(inbox[p]) : inbox[p][i] \in 1 .. came[p]
        BY <2>2 DEF UInv, UOrder
      <3> QED BY <1>2, <1>4, <3>1
    <2>4. \A i \in DOMAIN heard[p] : heard[p][i][2] \in 1 .. came[p] /\ heard[p][i][2] < n
      <3>1. \A i \in DOMAIN heard[p] : heard[p][i][2] \in 1 .. came[p]
        BY DEF UInv, UOrder
      <3> QED BY <1>2, <1>4, <3>1
    <2>5. Shared' /\ HeardInOrder'
      BY <1>1, <1>9 DEF UInv, Shared, HeardInOrder
    <2>6. UFields'
      <3>1. U!Connected(p)'
        BY <1>1, <1>9 DEF U!Connected
      <3>2. \A q \in Player : Len(inbox'[q]) <= MaxReceive /\ (~U!Connected(q)' => inbox'[q] = << >>)
        <4>1. \A q \in Player \ {p} : Len(inbox[q]) <= MaxReceive /\ (~U!Connected(q)' => inbox[q] = << >>)
          BY <1>1 DEF UInv, UFields, U!Connected
        <4>2. Len(inbox'[p]) <= MaxReceive
          BY <1>2, <1>9, <2>1, <2>2
        <4> QED BY <1>7, <3>1, <4>1, <4>2
      <3> QED BY <1>1, <1>5, <1>7, <3>2 DEF UInv, UFields
    <2>7. UOrder'
      <3>1. ASSUME NEW q \in Player
            PROVE  /\ came'[q] <= said'[q] /\ InOrder(inbox'[q])
                   /\ \A i \in DOMAIN inbox'[q] : inbox'[q][i] \in 1 .. came'[q]
                   /\ \A i \in DOMAIN heard[q] :
                         /\ heard[q][i][2] \in 1 .. came'[q]
                         /\ \A j \in DOMAIN inbox'[q] : heard[q][i][2] < inbox'[q][j]
        <4>1. CASE q # p
          BY <1>1, <1>5, <1>6, <1>7, <4>1 DEF UInv, UOrder
        <4>2. CASE q = p
          <5>1. InOrder(inbox'[p])
            <6> SUFFICES ASSUME NEW i \in 1 .. Len(inbox[p]) + 1, NEW j \in 1 .. Len(inbox[p]) + 1, i < j
                         PROVE  inbox'[p][i] < inbox'[p][j]
              BY <2>2 DEF InOrder
            <6>1. i \in 1 .. Len(inbox[p])
              BY <2>1
            <6>2. CASE j = Len(inbox[p]) + 1
              BY <2>2, <2>3, <6>1, <6>2
            <6>3. CASE j # Len(inbox[p]) + 1
              <7>1. j \in 1 .. Len(inbox[p])
                BY <2>1, <6>3
              <7> QED BY <2>2, <6>1, <7>1 DEF UInv, UOrder, InOrder
            <6> QED BY <6>2, <6>3
          <5>2. \A i \in DOMAIN inbox'[p] : inbox'[p][i] \in 1 .. came'[p]
            <6>1. \A i \in 1 .. Len(inbox[p]) + 1 : i \in 1 .. Len(inbox[p]) \/ i = Len(inbox[p]) + 1
              BY <2>1
            <6>2. n \in 1 .. came'[p]
              BY <1>4, <1>5
            <6> QED BY <1>6, <2>2, <2>3, <6>1, <6>2
          <5>3. \A i \in DOMAIN heard[p] :
                   /\ heard[p][i][2] \in 1 .. came'[p]
                   /\ \A j \in DOMAIN inbox'[p] : heard[p][i][2] < inbox'[p][j]
            <6>1. \A i \in 1 .. Len(inbox[p]) + 1 : i \in 1 .. Len(inbox[p]) \/ i = Len(inbox[p]) + 1
              BY <2>1
            <6>2. \A i \in DOMAIN heard[p] : \A j \in 1 .. Len(inbox[p]) : heard[p][i][2] < inbox[p][j]
              BY <2>2 DEF UInv, UOrder
            <6> QED BY <1>6, <2>2, <2>4, <6>1, <6>2
          <5> QED BY <1>1, <1>6, <4>2, <5>1, <5>2, <5>3
        <4> QED BY <4>1, <4>2
      <3> QED BY <1>1, <3>1, Zenon DEF UOrder
    <2>8. UKept'
      <3> SUFFICES ASSUME NEW q \in Player \ excused
                   PROVE  /\ begun => U!Connected(q)
                          /\ \A k \in 1 .. came'[q] : k \in U!Heard(q) \cup U!Held(q)'
        BY <1>1, <1>9 DEF UKept, U!Connected, U!Heard
      <3>1. begun => U!Connected(q)
        BY DEF UInv, UKept
      <3>2. CASE q # p
        <4>1. came'[q] = came[q] /\ U!Held(q)' = U!Held(q)
          BY <1>5, <1>7, <3>2 DEF U!Held
        <4>2. \A k \in 1 .. came[q] : k \in U!Heard(q) \cup U!Held(q)
          BY DEF UInv, UKept
        <4> QED BY <3>1, <4>1, <4>2
      <3>3. CASE q = p
        <4>1. \A k \in 1 .. n : k \in 1 .. came[p] \/ k = n
          BY <1>2, <1>4 DEF n
        <4>2. \A k \in 1 .. came[p] : k \in U!Heard(p) \cup U!Held(p)
          BY <3>3 DEF UInv, UKept
        <4>3. U!Held(p) \subseteq U!Held(p)' /\ n \in U!Held(p)'
          BY <2>1, <2>2 DEF U!Held
        <4> QED BY <1>5, <3>1, <3>3, <4>1, <4>2, <4>3
      <3> QED BY <3>2, <3>3
    <2>9. UTurns'
      BY <1>1 DEF UInv, UTurns, Before, U!Connected
    <2> QED BY <2>5, <2>6, <2>7, <2>8, <2>9 DEF UInv
  <1> QED BY <1>3, <1>8, <1>9

\* The connection that is read is the first to be asked that has a packet.
LEMMA UGetReads ==
  ASSUME UInv, U!Get
  PROVE  \E k \in DOMAIN uconns :
           LET p == uconns[k] IN
           /\ p \in Player /\ inbox[p] # << >>
           /\ \A j \in DOMAIN uconns : inbox[uconns[j]] # << >> => Before(k) <= Before(j)
           /\ inbox' = [inbox EXCEPT ![p] = Tail(@)]
           /\ heard' = [heard EXCEPT ![p] = Append(@, <<p, Head(inbox[p])>>)]
           /\ cur' = (cur + Before(k) + 1) % Len(uconns)
           /\ waits' = [q \in Player |-> IF q # p /\ U!Connected(q) /\ inbox[q] # << >>
                                         THEN waits[q] + 1 ELSE 0]
           /\ UNCHANGED <<transport, begun, uconns, came, sendQ, casts, said, excused>>
  <1>1. PICK i \in DOMAIN U!Asked :
          LET p == U!Asked[i] IN
          /\ inbox[p] # << >>
          /\ \A j \in 0 .. i - 1 : inbox[U!Asked[j]] = << >>
          /\ inbox' = [inbox EXCEPT ![p] = Tail(@)]
          /\ heard' = [heard EXCEPT ![p] = Append(@, <<p, Head(inbox[p])>>)]
          /\ cur' = (U!Wrapped(cur, Len(uconns)) + i + 1) % Len(uconns)
          /\ waits' = [q \in Player |-> IF q # p /\ U!Connected(q) /\ inbox[q] # << >>
                                        THEN waits[q] + 1 ELSE 0]
          /\ UNCHANGED <<transport, begun, uconns, came, sendQ, casts, said, excused>>
    BY Zenon DEF U!Get, U!outs
  <1>2. uconns # << >> /\ UFields
    BY <1>1 DEF U!Asked, UInv
  <1>3. PICK k \in DOMAIN uconns : i = Before(k)
    BY <1>1, <1>2, AsksAll
  <1>4. U!Asked[i] = uconns[k] /\ U!Wrapped(cur, Len(uconns)) = cur /\ uconns[k] \in Player
    <2>1. U!Asked[Before(k)] = uconns[k] /\ U!Wrapped(cur, Len(uconns)) = cur
      BY <1>2, AsksAll
    <2>2. uconns[k] \in Player
      BY <1>2 DEF UFields
    <2> QED BY <1>3, <2>1, <2>2
  <1>5. ASSUME NEW j \in DOMAIN uconns, inbox[uconns[j]] # << >> PROVE Before(k) <= Before(j)
    <2>1. Before(j) \in 0 .. Len(uconns) - 1 /\ Before(k) \in 0 .. Len(uconns) - 1
          /\ U!Asked[Before(j)] = uconns[j] /\ Len(uconns) \in Nat
      BY <1>2, AsksAll
    <2>2. Before(j) \notin 0 .. Before(k) - 1
      BY <1>1, <1>3, <1>5, <2>1
    <2> QED BY <2>1, <2>2
  <1> QED BY <1>1, <1>3, <1>4, <1>5

LEMMA UGetKeeps ==
  ASSUME UInv, U!Get
  PROVE  UInv' /\ \E p \in Player : \E n \in 1 .. said[p] : UTakesOne(p, n)
  <1> DEFINE n == Len(uconns)
  <1>1. PICK k \in DOMAIN uconns :
           LET p == uconns[k] IN
           /\ p \in Player /\ inbox[p] # << >>
           /\ \A j \in DOMAIN uconns : inbox[uconns[j]] # << >> => Before(k) <= Before(j)
           /\ inbox' = [inbox EXCEPT ![p] = Tail(@)]
           /\ heard' = [heard EXCEPT ![p] = Append(@, <<p, Head(inbox[p])>>)]
           /\ cur' = (cur + Before(k) + 1) % n
           /\ waits' = [q \in Player |-> IF q # p /\ U!Connected(q) /\ inbox[q] # << >>
                                         THEN waits[q] + 1 ELSE 0]
           /\ UNCHANGED <<transport, begun, uconns, came, sendQ, casts, said, excused>>
    BY UGetReads
  <1>p. PICK p \in Player : p = uconns[k]
    BY <1>1
  <1> DEFINE m == Head(inbox[p])
  <1>2. /\ UFields /\ UOrder /\ HeardInOrder /\ Shared /\ UKept /\ UTurns
        /\ uconns # << >> /\ n \in Nat \ {0} /\ DOMAIN uconns = 1 .. n /\ cur \in 0 .. n - 1
    <2>1. uconns \in Seq(Player) /\ cur \in Nat /\ (cur = 0 \/ cur < n)
      BY DEF UInv, UFields
    <2>2. uconns # << >> /\ n \in Nat /\ DOMAIN uconns = 1 .. n
      BY <1>1, <2>1
    <2> QED BY <2>1, <2>2 DEF UInv
  <1>3. p \in Player /\ inbox[p] \in Seq(Nat) /\ inbox[p] # << >> /\ heard[p] \in Seq(Player \X Nat)
    BY <1>1, <1>p, <1>2 DEF UFields, Shared
  <1> DEFINE L == Len(inbox[p])  H == Len(heard[p])
  <1>4. /\ L \in Nat \ {0} /\ DOMAIN inbox[p] = 1 .. L /\ m = inbox[p][1] /\ m \in Nat
        /\ Tail(inbox[p]) \in Seq(Nat) /\ Len(Tail(inbox[p])) = L - 1
        /\ DOMAIN Tail(inbox[p]) = 1 .. L - 1
        /\ \A i \in 1 .. L - 1 : Tail(inbox[p])[i] = inbox[p][i + 1]
    BY <1>3
  <1>5. /\ H \in Nat /\ DOMAIN heard[p] = 1 .. H
        /\ Append(heard[p], <<p, m>>) \in Seq(Player \X Nat)
        /\ DOMAIN Append(heard[p], <<p, m>>) = 1 .. H + 1
        /\ Append(heard[p], <<p, m>>)[H + 1] = <<p, m>>
        /\ \A i \in 1 .. H : Append(heard[p], <<p, m>>)[i] = heard[p][i]
    BY <1>3, <1>4
  <1>6. /\ inbox' = [inbox EXCEPT ![p] = Tail(inbox[p])]
        /\ heard' = [heard EXCEPT ![p] = Append(heard[p], <<p, m>>)]
        /\ UNCHANGED <<transport, begun, uconns, came, sendQ, casts, said, excused>>
    BY <1>1, <1>p
  <1>7. /\ inbox' \in [Player -> Seq(Nat)] /\ heard' \in [Player -> Seq(Player \X Nat)]
        /\ inbox'[p] = Tail(inbox[p]) /\ heard'[p] = Append(heard[p], <<p, m>>)
        /\ \A q \in Player \ {p} : inbox'[q] = inbox[q] /\ heard'[q] = heard[q]
    <2>1. inbox \in [Player -> Seq(Nat)] /\ heard \in [Player -> Seq(Player \X Nat)]
      BY <1>2 DEF UFields, Shared
    <2> QED BY <1>3, <1>4, <1>5, <1>6, <2>1
  <1>8. \A i \in 1 .. L : inbox[p][i] \in 1 .. came[p]
    BY <1>2, <1>3, <1>4 DEF UOrder
  <1>9. \A i \in 1 .. H : heard[p][i][2] \in 1 .. came[p] /\ heard[p][i][1] = p
          /\ \A j \in 1 .. L : heard[p][i][2] < inbox[p][j]
    BY <1>2, <1>3, <1>4, <1>5 DEF UOrder, HeardInOrder
  <1>10. \A i, j \in 1 .. L : i < j => inbox[p][i] < inbox[p][j]
    BY <1>2, <1>3, <1>4 DEF UOrder, InOrder
  <1>11. came[p] \in Nat /\ said[p] \in Nat /\ came[p] <= said[p]
    <2>1. came \in [Player -> 0 .. Lot] /\ said \in [Player -> 0 .. Lot] /\ came[p] <= said[p]
      BY <1>2, <1>3 DEF UOrder, UFields, Shared
    <2>2. \A q \in Player : came[q] \in Nat /\ said[q] \in Nat
      BY <2>1, Sizes
    <2> QED BY <1>3, <2>1, <2>2
  <1>12. m \in 1 .. came[p] /\ m \in 1 .. said[p]
    <2>1. 1 \in 1 .. L
      BY <1>4
    <2>2. m \in 1 .. came[p]
      BY <1>4, <1>8, <2>1
    <2> QED BY <1>11, <2>2
  <1>13. U!Connected(p) /\ \A q : U!Connected(q)' = U!Connected(q)
    BY <1>1, <1>p, <1>6 DEF U!Connected
  <1>14. Before(k) \in 0 .. n - 1 /\ cur' \in 0 .. n - 1
         /\ cur' = IF cur + Before(k) + 1 < n THEN cur + Before(k) + 1 ELSE cur + Before(k) + 1 - n
    <2>1. Before(k) \in 0 .. n - 1
      BY <1>2, AsksAll
    <2>2. cur' = (cur + Before(k) + 1) % n
      BY <1>1
    <2> QED BY <1>2, <2>1, <2>2, Reaching
  <1> HIDE DEF n, m, L, H
  <1>15. Shared'
    BY <1>2, <1>6, <1>7 DEF Shared
  <1>16. HeardInOrder'
    <2> SUFFICES ASSUME NEW q \in Player
                 PROVE /\ \A i \in DOMAIN heard'[q] : heard'[q][i][1] = q /\ heard'[q][i][2] \in 1 .. said[q]
                       /\ \A i, j \in DOMAIN heard'[q] : i < j => heard'[q][i][2] < heard'[q][j][2]
      BY <1>6 DEF HeardInOrder
    <2>1. CASE q # p
      BY <1>2, <1>7, <2>1 DEF HeardInOrder
    <2>2. CASE q = p
      <3>1. \A i \in 1 .. H + 1 : i \in 1 .. H \/ i = H + 1
        BY <1>5
      <3>2. \A i \in 1 .. H : heard[p][i][1] = p /\ heard[p][i][2] \in 1 .. said[p]
        BY <1>2, <1>3, <1>5 DEF HeardInOrder
      <3>3. \A i, j \in 1 .. H : i < j => heard[p][i][2] < heard[p][j][2]
        BY <1>2, <1>3, <1>5 DEF HeardInOrder
      <3>4. \A i \in 1 .. H : heard[p][i][2] < m
        <4>1. 1 \in 1 .. L
          BY <1>4
        <4> QED BY <1>4, <1>9, <4>1
      <3>5. <<p, m>>[1] = p /\ <<p, m>>[2] = m
        OBVIOUS
      <3>6. \A i \in 1 .. H + 1 : heard'[p][i][1] = p /\ heard'[p][i][2] \in 1 .. said[p]
        <4>1. \A i \in 1 .. H : heard'[p][i] = heard[p][i]
          BY <1>5, <1>7
        <4>2. heard'[p][H + 1] = <<p, m>>
          BY <1>5, <1>7
        <4> QED BY <1>12, <3>1, <3>2, <3>5, <4>1, <4>2
      <3>7. ASSUME NEW i \in 1 .. H + 1, NEW j \in 1 .. H + 1, i < j
            PROVE  heard'[p][i][2] < heard'[p][j][2]
        <4>1. i \in 1 .. H
          BY <1>5, <3>7
        <4>2. heard'[p][i][2] = heard[p][i][2]
          BY <1>5, <1>7, <4>1
        <4>3. CASE j = H + 1
          BY <1>5, <1>7, <3>4, <3>5, <4>1, <4>2, <4>3
        <4>4. CASE j # H + 1
          <5>1. j \in 1 .. H
            BY <3>1, <4>4
          <5>2. heard'[p][j][2] = heard[p][j][2]
            BY <1>5, <1>7, <5>1
          <5> QED BY <3>3, <3>7, <4>1, <4>2, <5>1, <5>2
        <4> QED BY <4>3, <4>4
      <3>8. DOMAIN heard'[p] = 1 .. H + 1
        BY <1>5, <1>7
      <3> QED BY <2>2, <3>6, <3>7, <3>8
    <2> QED BY <2>1, <2>2
  <1>17. UFields'
    <2>1. \A q \in Player : waits[q] \in Nat
      BY <1>2 DEF UFields
    <2>2. waits' \in [Player -> Nat]
      BY <1>1, <1>p, <2>1
    <2>3. \A q \in Player : Len(inbox'[q]) <= MaxReceive /\ (~U!Connected(q) => inbox'[q] = << >>)
      <3>1. \A q \in Player \ {p} : Len(inbox'[q]) <= MaxReceive /\ (~U!Connected(q) => inbox'[q] = << >>)
        BY <1>2, <1>7 DEF UFields
      <3>2. L <= MaxReceive /\ MaxReceive \in Nat
        BY <1>2, <1>3, Sizes DEF UFields, L
      <3>3. Len(inbox'[p]) <= MaxReceive
        BY <1>4, <1>7, <3>2
      <3> QED BY <1>13, <3>1, <3>3
    <2>4. cur' \in Nat /\ (cur' = 0 \/ cur' < n)
      BY <1>14, <1>2
    <2>5. uconns' = uconns /\ n = Len(uconns)
      BY <1>6 DEF n
    <2> QED BY <1>2, <1>6, <1>7, <1>13, <2>2, <2>3, <2>4, <2>5 DEF UFields
  <1>18. UOrder'
    <2> SUFFICES ASSUME NEW q \in Player
                 PROVE  /\ came[q] <= said[q] /\ InOrder(inbox'[q])
                        /\ \A i \in DOMAIN inbox'[q] : inbox'[q][i] \in 1 .. came[q]
                        /\ \A i \in DOMAIN heard'[q] :
                              /\ heard'[q][i][2] \in 1 .. came[q]
                              /\ \A j \in DOMAIN inbox'[q] : heard'[q][i][2] < inbox'[q][j]
      BY <1>6, Zenon DEF UOrder
    <2>1. CASE q # p
      BY <1>2, <1>7, <2>1 DEF UOrder
    <2>2. CASE q = p
      <3>1. \A i \in 1 .. L - 1 : i + 1 \in 1 .. L /\ 1 < i + 1 /\ 1 \in 1 .. L
        BY <1>4
      <3>2. \A i \in 1 .. L - 1 : inbox'[p][i] = inbox[p][i + 1]
        BY <1>4, <1>7
      <3>3. InOrder(inbox'[p])
        <4> SUFFICES ASSUME NEW i \in 1 .. L - 1, NEW j \in 1 .. L - 1, i < j
                     PROVE  inbox'[p][i] < inbox'[p][j]
          BY <1>4, <1>7 DEF InOrder
        <4>1. i + 1 < j + 1
          OBVIOUS
        <4> QED BY <1>10, <3>1, <3>2, <4>1
      <3>4. \A i \in DOMAIN inbox'[p] : inbox'[p][i] \in 1 .. came[p]
        BY <1>4, <1>7, <1>8, <3>1, <3>2
      <3>5. \A i \in 1 .. H + 1 : i \in 1 .. H \/ i = H + 1
        BY <1>5
      <3>6. \A i \in 1 .. H + 1 : heard'[p][i][2] = IF i = H + 1 THEN m ELSE heard[p][i][2]
        <4>1. <<p, m>>[2] = m
          OBVIOUS
        <4> QED BY <1>5, <1>7, <3>5, <4>1
      <3>7. \A j \in 1 .. L - 1 : m < inbox'[p][j]
        BY <1>4, <1>10, <3>1, <3>2
      <3>8. \A i \in 1 .. H : \A j \in 1 .. L - 1 : heard[p][i][2] < inbox'[p][j]
        BY <1>9, <3>1, <3>2
      <3>9. \A i \in 1 .. H : heard[p][i][2] \in 1 .. came[p]
        BY <1>9
      <3>10. DOMAIN heard'[p] = 1 .. H + 1 /\ DOMAIN inbox'[p] = 1 .. L - 1
        BY <1>4, <1>5, <1>7
      <3>11. ASSUME NEW i \in 1 .. H + 1
             PROVE  /\ heard'[p][i][2] \in 1 .. came[p]
                    /\ \A j \in 1 .. L - 1 : heard'[p][i][2] < inbox'[p][j]
        <4>1. CASE i = H + 1
          BY <1>12, <3>6, <3>7, <4>1
        <4>2. CASE i # H + 1
          BY <3>5, <3>6, <3>8, <3>9, <4>2
        <4> QED BY <4>1, <4>2
      <3> QED BY <1>11, <2>2, <3>3, <3>4, <3>10, <3>11
    <2> QED BY <2>1, <2>2
  <1>19. /\ U!Heard(p) \subseteq U!Heard(p)' /\ m \in U!Heard(p)'
         /\ \A x \in U!Held(p) : x = m \/ x \in U!Held(p)'
         /\ \A x \in U!Heard(p)' : x = m \/ x \in U!Heard(p)
         /\ U!Held(p)' \subseteq U!Held(p) /\ m \in U!Held(p)
         /\ m \notin U!Heard(p) /\ \A x \in U!Held(p) : m <= x
    <2>1. /\ U!Heard(p) = {heard[p][i][2] : i \in 1 .. H}
          /\ U!Heard(p)' = {heard'[p][i][2] : i \in 1 .. H + 1}
          /\ U!Held(p) = {inbox[p][i] : i \in 1 .. L}
          /\ U!Held(p)' = {inbox'[p][i] : i \in 1 .. L - 1}
      <3>1. DOMAIN heard'[p] = 1 .. H + 1 /\ DOMAIN inbox'[p] = 1 .. L - 1
        BY <1>4, <1>5, <1>7
      <3>2. DOMAIN heard[p] = 1 .. H /\ DOMAIN inbox[p] = 1 .. L
        BY <1>4, <1>5
      <3>3. U!Heard(p) = {heard[p][i][2] : i \in 1 .. H} /\ U!Held(p) = {inbox[p][i] : i \in 1 .. L}
        BY <3>2 DEF U!Heard, U!Held
      <3>4. /\ U!Heard(p)' = {heard'[p][i][2] : i \in DOMAIN heard'[p]}
            /\ U!Held(p)' = {inbox'[p][i] : i \in DOMAIN inbox'[p]}
        BY DEF U!Heard, U!Held
      <3> QED BY <3>1, <3>3, <3>4
    <2>2. U!Heard(p) \subseteq U!Heard(p)'
      <3>1. \A i \in 1 .. H : i \in 1 .. H + 1
        BY <1>5
      <3>2. \A i \in 1 .. H : heard'[p][i] = heard[p][i]
        BY <1>5, <1>7
      <3> QED BY <2>1, <3>1, <3>2
    <2>3. m \in U!Heard(p)'
      <3>1. heard'[p][H + 1] = <<p, m>>
        BY <1>5, <1>7
      <3>2. H + 1 \in 1 .. H + 1 /\ <<p, m>>[2] = m
        BY <1>5
      <3> QED BY <2>1, <3>1, <3>2
    <2>4. \A x \in U!Held(p) : x = m \/ x \in U!Held(p)'
      <3> SUFFICES ASSUME NEW i \in 1 .. L, i # 1 PROVE inbox[p][i] \in U!Held(p)'
        BY <1>4, <2>1
      <3>1. i - 1 \in 1 .. L - 1 /\ i - 1 + 1 = i
        BY <1>4
      <3>2. inbox'[p][i - 1] = inbox[p][i]
        BY <1>4, <1>7, <3>1
      <3> QED BY <2>1, <3>1, <3>2
    <2>5. \A x \in U!Heard(p)' : x = m \/ x \in U!Heard(p)
      <3> SUFFICES ASSUME NEW i \in 1 .. H + 1
                   PROVE  heard'[p][i][2] = m \/ heard'[p][i][2] \in U!Heard(p)
        BY <2>1
      <3>1. CASE i = H + 1
        <4>1. heard'[p][i] = <<p, m>> /\ <<p, m>>[2] = m
          BY <1>5, <1>7, <3>1
        <4> QED BY <4>1
      <3>2. CASE i # H + 1
        <4>1. i \in 1 .. H
          BY <1>5, <3>2
        <4>2. heard'[p][i] = heard[p][i]
          BY <1>5, <1>7, <4>1
        <4> QED BY <2>1, <4>1, <4>2
      <3> QED BY <3>1, <3>2
    <2>6. 1 \in 1 .. L /\ \A i \in 1 .. L : i = 1 \/ 1 < i
      BY <1>4
    <2>7. U!Held(p)' \subseteq U!Held(p) /\ m \in U!Held(p)
      <3>1. \A i \in 1 .. L - 1 : i + 1 \in 1 .. L /\ inbox'[p][i] = inbox[p][i + 1]
        BY <1>4, <1>7
      <3> QED BY <1>4, <2>1, <2>6, <3>1
    <2>8. m \notin U!Heard(p)
      <3>1. \A i \in 1 .. H : heard[p][i][2] \in 1 .. came[p] /\ heard[p][i][2] < m
        BY <1>4, <1>9, <2>6
      <3> QED BY <1>11, <2>1, <3>1
    <2>9. \A x \in U!Held(p) : m <= x
      <3>1. \A i \in 1 .. L : inbox[p][i] \in 1 .. came[p] /\ (i = 1 \/ m < inbox[p][i])
        BY <1>4, <1>8, <1>10, <2>6
      <3> QED BY <1>4, <1>11, <2>1, <3>1
    <2> QED BY <2>2, <2>3, <2>4, <2>5, <2>7, <2>8, <2>9
  <1>20. UKept'
    <2> SUFFICES ASSUME NEW q \in Player \ excused
                 PROVE  /\ begun => U!Connected(q)
                        /\ \A i \in 1 .. came[q] : i \in U!Heard(q)' \cup U!Held(q)'
      BY <1>6, <1>13 DEF UKept
    <2>1. (begun => U!Connected(q)) /\ \A i \in 1 .. came[q] : i \in U!Heard(q) \cup U!Held(q)
      BY <1>2 DEF UKept
    <2>2. CASE q # p
      BY <1>7, <2>1, <2>2 DEF U!Heard, U!Held
    <2>3. CASE q = p
      BY <1>19, <2>1, <2>3
    <2> QED BY <2>2, <2>3
  <1>21. UTurns'
    <2>1. \A j \in 1 .. n : Before(j) \in 0 .. n - 1
                           /\ Before(j) = IF j > cur THEN j - 1 - cur ELSE j - 1 - cur + n
      BY <1>2, AsksAll DEF Before, n
    <2>2. \A j \in 1 .. n : Before(j)' = IF j > cur' THEN j - 1 - cur' ELSE j - 1 - cur' + n
      BY <1>6 DEF Before, n
    <2>3. ASSUME NEW j \in 1 .. n
          PROVE  Before(j)' \in 0 .. n - 1
                 /\ (Before(k) < Before(j) => Before(j)' = Before(j) - Before(k) - 1)
      <3>1. PICK c \in 0 .. n - 1, b \in 0 .. n - 1, d \in 0 .. n - 1, e \in 0 .. n - 1 :
               /\ c = cur /\ b = Before(k) /\ d = cur' /\ e = Before(j)
        BY <1>2, <1>14, <2>1
      <3>2. d = IF c + b + 1 < n THEN c + b + 1 ELSE c + b + 1 - n
        BY <1>14, <3>1
      <3>3. e = IF j > c THEN j - 1 - c ELSE j - 1 - c + n
        BY <2>1, <3>1
      <3>4. Before(j)' = IF j > d THEN j - 1 - d ELSE j - 1 - d + n
        BY <2>2, <3>1
      <3>5. Before(j)' \in 0 .. n - 1
        BY <1>2, <3>4
      <3>6. b < e => (IF j > d THEN j - 1 - d ELSE j - 1 - d + n) = e - b - 1
        BY <1>2, <3>2, <3>3
      <3>7. Before(k) < Before(j) => Before(j)' = Before(j) - Before(k) - 1
        BY <3>1, <3>4, <3>6
      <3> QED BY <3>5, <3>7
    <2>4. \A j \in 1 .. n : uconns[j] \in Player /\ U!Connected(uconns[j])
      <3>1. \A j \in 1 .. n : uconns[j] \in Player
        BY <1>2 DEF UFields
      <3>2. \A j \in 1 .. n : U!Connected(uconns[j])
        BY <1>2 DEF U!Connected
      <3> QED BY <3>1, <3>2
    <2>5. ASSUME NEW j \in 1 .. n PROVE waits'[uconns[j]] + Before(j)' <= n - 1
      <3>1. waits'[uconns[j]] = IF uconns[j] # p /\ inbox[uconns[j]] # << >>
                                THEN waits[uconns[j]] + 1 ELSE 0
        BY <1>1, <1>p, <2>4
      <3>2. CASE uconns[j] # p /\ inbox[uconns[j]] # << >>
        <4>1. j # k
          BY <1>p, <3>2
        <4>2. Before(k) <= Before(j)
          BY <1>1, <1>2, <3>2
        <4>3. Before(k) # Before(j)
          <5>1. U!Asked[Before(k)] = uconns[k] /\ U!Asked[Before(j)] = uconns[j]
            BY <1>1, <1>2, AsksAll
          <5> QED BY <1>p, <3>2, <5>1
        <4>4. waits[uconns[j]] + Before(j) <= n - 1 /\ waits[uconns[j]] \in Nat
          BY <1>2, <2>4 DEF UTurns, UFields, n
        <4>5. PICK w \in Nat, b \in 0 .. n - 1, e \in 0 .. n - 1 :
                 w = waits[uconns[j]] /\ b = Before(k) /\ e = Before(j)
          BY <1>14, <2>1, <4>4
        <4>6. b < e
          BY <4>2, <4>3, <4>5
        <4>7. Before(j)' = e - b - 1
          BY <2>3, <4>5, <4>6
        <4>8. w + e <= n - 1 /\ waits'[uconns[j]] = w + 1
          BY <3>1, <3>2, <4>4, <4>5
        <4>9. w + 1 + (e - b - 1) <= n - 1
          <5>1. PICK N \in Nat : N = n
            BY <1>2
          <5>2. w + e <= N - 1 /\ b < e
            BY <4>6, <4>8, <5>1
          <5>3. w \in Nat /\ b \in Nat /\ e \in Nat
            BY <4>5
          <5>4. w + 1 + (e - b - 1) <= N - 1
            BY <5>2, <5>3
          <5> QED BY <5>1, <5>4
        <4> QED BY <4>7, <4>8, <4>9
      <3>3. CASE ~ (uconns[j] # p /\ inbox[uconns[j]] # << >>)
        <4>1. waits'[uconns[j]] = 0
          BY <3>1, <3>3
        <4>2. Before(j)' \in 0 .. n - 1
          BY <2>3
        <4>3. \A b \in 0 .. n - 1 : 0 + b <= n - 1
          BY <1>2
        <4> QED BY <4>1, <4>2, <4>3
      <3> QED BY <3>2, <3>3
    <2>6. \A q \in Player : ~U!Connected(q) => waits'[q] = 0
      BY <1>1
    <2> QED BY <1>2, <1>6, <1>13, <2>5, <2>6 DEF UTurns, n
  <1>22. UTakesOne(p, m)
    <2>1. U!Connected(p) /\ \A q \in Player : U!Connected(q)' = U!Connected(q)
      BY <1>13
    <2>2. /\ UWaiting(p) = U!Held(p) \cup came[p] + 1 .. said[p]
          /\ UWaiting(p)' = U!Held(p)' \cup came[p] + 1 .. said[p]
      BY <1>6 DEF UWaiting
    <2>3. \A x \in UWaiting(p) : m <= x
      <3>1. \A x \in came[p] + 1 .. said[p] : m <= x
        BY <1>11, <1>12
      <3> QED BY <1>19, <2>2, <3>1
    <2>4. U!Heard(p)' \cup UWaiting(p)' = U!Heard(p) \cup UWaiting(p)
      BY <1>19, <2>2
    <2>5. ASSUME NEW q \in Player \ {p}
          PROVE  U!Heard(q)' \cup UWaiting(q)' = U!Heard(q) \cup UWaiting(q)
      <3>1. inbox'[q] = inbox[q] /\ heard'[q] = heard[q] /\ came' = came /\ said' = said
        BY <1>6, <1>7
      <3> QED BY <3>1 DEF UWaiting, U!Heard, U!Held
    <2>6. m \in UWaiting(p)
      BY <1>19, <2>2
    <2> QED BY <1>6, <1>19, <2>1, <2>3, <2>4, <2>5, <2>6 DEF UTakesOne
  <1>23. UInv'
    BY <1>15, <1>16, <1>17, <1>18, <1>20, <1>21 DEF UInv
  <1> QED BY <1>3, <1>12, <1>22, <1>23

LEMMA UDeleteKeeps ==
  ASSUME UInv, NEW p \in Player, U!Delete(IdOf[p])
  PROVE  UInv' /\ UNoneMore /\ UNCHANGED <<begun, said, heard>> /\ p \in excused'
         /\ \E i \in DOMAIN uconns : uconns[i] = p /\ uconns' = U!RemoveAt(uconns, i)
  <1>1. PICK i \in DOMAIN uconns :
          /\ IdOf[uconns[i]] = IdOf[p]
          /\ uconns' = U!RemoveAt(uconns, i)
          /\ cur' = U!Wrapped(cur, Len(uconns) - 1)
          /\ inbox' = [inbox EXCEPT ![uconns[i]] = << >>]
          /\ sendQ' = [sendQ EXCEPT ![uconns[i]] = 0]
          /\ excused' = excused \cup {uconns[i]}
          /\ waits' = [q \in Player |-> 0]
          /\ UNCHANGED <<transport, begun, came, casts, said, heard>>
    BY DEF U!Delete
  <1>2. PICK n \in Nat : n = Len(uconns) /\ DOMAIN uconns = 1 .. n
    BY DEF UInv, UFields
  <1>3. /\ i \in 1 .. n /\ n \in Nat \ {0}
        /\ \A j \in 1 .. n : uconns[j] \in Player
        /\ \A j, k \in 1 .. n : uconns[j] = uconns[k] => j = k
    <2>1. uconns \in Seq(Player) /\ \A j, k \in DOMAIN uconns : uconns[j] = uconns[k] => j = k
      BY DEF UInv, UFields
    <2>2. i \in 1 .. n
      BY <1>1, <1>2
    <2>3. n \in Nat \ {0}
      BY <2>2
    <2> QED BY <1>2, <2>1, <2>2, <2>3
  <1>4. uconns[i] = p
    BY <1>1, <1>3, Sizes
  <1>5. /\ uconns' = [j \in 1 .. n - 1 |-> IF j < i THEN uconns[j] ELSE uconns[j + 1]]
        /\ uconns' \in [1 .. n - 1 -> Player] /\ n - 1 \in Nat
    BY <1>1, <1>2, <1>3 DEF U!RemoveAt
  <1>6. uconns' \in Seq(Player) /\ Len(uconns') = n - 1 /\ DOMAIN uconns' = 1 .. n - 1
    BY <1>5
  <1>7. ASSUME NEW j \in 1 .. n - 1, NEW k \in 1 .. n - 1, uconns'[j] = uconns'[k] PROVE j = k
    <2>1. \A a \in 1 .. n - 1 : (IF a < i THEN a ELSE a + 1) \in 1 .. n
                              /\ uconns'[a] = uconns[IF a < i THEN a ELSE a + 1]
      BY <1>3, <1>5
    <2>2. (IF j < i THEN j ELSE j + 1) = (IF k < i THEN k ELSE k + 1)
      BY <1>3, <1>7, <2>1
    <2> QED BY <1>3, <2>2
  <1>8. \A q \in Player : U!Connected(q)' <=> U!Connected(q) /\ q # p
    <2> SUFFICES ASSUME NEW q \in Player
                 PROVE (\E j \in 1 .. n - 1 : uconns'[j] = q)
                       <=> (\E j \in 1 .. n : uconns[j] = q) /\ q # p
      BY <1>2, <1>6 DEF U!Connected
    <2>1. ASSUME NEW j \in 1 .. n - 1, uconns'[j] = q
          PROVE  (\E k \in 1 .. n : uconns[k] = q) /\ q # p
      <3>1. PICK k \in 1 .. n : k = (IF j < i THEN j ELSE j + 1)
        BY <1>3
      <3>2. uconns'[j] = uconns[k] /\ k # i
        BY <1>3, <1>5, <3>1
      <3> QED BY <1>3, <1>4, <2>1, <3>2
    <2>2. ASSUME NEW j \in 1 .. n, uconns[j] = q, q # p
          PROVE  \E k \in 1 .. n - 1 : uconns'[k] = q
      <3>1. j # i
        BY <1>4, <2>2
      <3>2. PICK k \in 1 .. n - 1 : k = (IF j < i THEN j ELSE j - 1)
        BY <1>3, <3>1
      <3>3. uconns'[k] = uconns[j]
        <4>1. (IF k < i THEN k ELSE k + 1) = j
          BY <1>3, <3>1, <3>2
        <4> QED BY <1>5, <4>1
      <3> QED BY <2>2, <3>3
    <2> QED BY <2>1, <2>2
  <1>9. /\ inbox' \in [Player -> Seq(Nat)] /\ sendQ' \in [Player -> 0 .. MaxSend]
        /\ inbox'[p] = << >> /\ Len(<< >>) = 0 /\ DOMAIN << >> = {}
        /\ \A q \in Player \ {p} : inbox'[q] = inbox[q]
    <2>1. inbox \in [Player -> Seq(Nat)] /\ sendQ \in [Player -> 0 .. MaxSend]
      BY DEF UInv, UFields
    <2>2. << >> \in Seq(Nat) /\ 0 \in 0 .. MaxSend
      BY Sizes
    <2> QED BY <1>1, <1>4, <2>1, <2>2
  <1>10. cur' \in Nat /\ (cur' = 0 \/ cur' < n - 1)
    <2>1. cur \in Nat
      BY DEF UInv, UFields
    <2> QED BY <1>1, <1>2, <2>1 DEF U!Wrapped
  <1>11. Shared'
    BY <1>1, <1>4 DEF UInv, Shared
  <1>12. HeardInOrder'
    BY <1>1 DEF UInv, HeardInOrder
  <1>13. UFields'
    <2>1. \A q \in Player : Len(inbox'[q]) <= MaxReceive /\ (~U!Connected(q)' => inbox'[q] = << >>)
      <3>1. Len(inbox'[p]) <= MaxReceive
        BY <1>9, Sizes
      <3>2. \A q \in Player \ {p} : Len(inbox[q]) <= MaxReceive /\ (~U!Connected(q) => inbox[q] = << >>)
        BY DEF UInv, UFields
      <3> QED BY <1>8, <1>9, <3>1, <3>2
    <2>2. waits' \in [Player -> Nat]
      BY <1>1
    <2>3. begun
      <3>1. uconns # << >>
        BY <1>1
      <3> QED BY <3>1 DEF UInv, UFields
    <2>4. transport' \in Transport /\ came' \in [Player -> 0 .. Lot] /\ casts' \in 0 .. Casts /\ begun'
      BY <1>1, <2>3 DEF UInv, UFields
    <2> QED BY <1>6, <1>7, <1>9, <1>10, <2>1, <2>2, <2>4 DEF UFields
  <1>14. UOrder'
    <2> SUFFICES ASSUME NEW q \in Player
                 PROVE  /\ came[q] <= said[q] /\ InOrder(inbox'[q])
                        /\ \A k \in DOMAIN inbox'[q] : inbox'[q][k] \in 1 .. came[q]
                        /\ \A k \in DOMAIN heard[q] :
                              /\ heard[q][k][2] \in 1 .. came[q]
                              /\ \A j \in DOMAIN inbox'[q] : heard[q][k][2] < inbox'[q][j]
      BY <1>1, Zenon DEF UOrder
    <2>1. CASE q # p
      BY <1>9, <2>1 DEF UInv, UOrder
    <2>2. CASE q = p
      BY <1>9, <2>2 DEF UInv, UOrder, InOrder
    <2> QED BY <2>1, <2>2
  <1>15. UKept'
    <2> SUFFICES ASSUME NEW q \in Player \ excused, q # p
                 PROVE  /\ begun => U!Connected(q)'
                        /\ \A k \in 1 .. came[q] : k \in U!Heard(q)' \cup U!Held(q)'
      BY <1>1, <1>4 DEF UKept
    <2>1. (begun => U!Connected(q)) /\ \A k \in 1 .. came[q] : k \in U!Heard(q) \cup U!Held(q)
      BY DEF UInv, UKept
    <2>2. U!Heard(q)' = U!Heard(q) /\ U!Held(q)' = U!Held(q)
      BY <1>1, <1>9 DEF U!Heard, U!Held
    <2> QED BY <1>8, <2>1, <2>2
  <1>16. UTurns'
    <2>1. \A k \in 1 .. n - 1 : uconns'[k] \in Player /\ waits'[uconns'[k]] = 0
      <3>1. \A k \in 1 .. n - 1 : uconns'[k] \in Player
        BY <1>5
      <3> QED BY <1>1, <3>1
    <2>2. ASSUME NEW k \in 1 .. n - 1 PROVE 0 + Before(k)' <= n - 1 - 1
      <3>1. PICK c \in Nat : c = cur' /\ (c = 0 \/ c < n - 1)
        BY <1>10
      <3>2. Before(k)' = IF k > c THEN k - 1 - c ELSE k - 1 - c + (n - 1)
        BY <1>6, <3>1 DEF Before
      <3>3. (IF k > c THEN k - 1 - c ELSE k - 1 - c + (n - 1)) <= n - 1 - 1
        BY <1>2, <3>1
      <3>4. (IF k > c THEN k - 1 - c ELSE k - 1 - c + (n - 1)) \in Int
        BY <1>2, <3>1
      <3> QED BY <3>2, <3>3, <3>4
    <2>3. \A q \in Player : waits'[q] = 0
      BY <1>1
    <2> QED BY <1>6, <2>1, <2>2, <2>3 DEF UTurns
  <1>17. UNoneMore
    <2>1. U!Held(p)' = {}
      BY <1>9 DEF U!Held
    <2>2. \A q \in Player \ {p} : U!Held(q)' = U!Held(q)
      BY <1>9 DEF U!Held
    <2>3. came' = came /\ said' = said /\ begun' = begun
      BY <1>1
    <2>4. \A q \in Player : UWaiting(q)' \subseteq UWaiting(q)
      BY <2>1, <2>2, <2>3 DEF UWaiting
    <2> QED BY <1>8, <2>3, <2>4 DEF UNoneMore
  <1> QED BY <1>1, <1>4, <1>11, <1>12, <1>13, <1>14, <1>15, <1>16, <1>17 DEF UInv

\* The steps that only send, and those that receive.
LEMMA UOnlySends ==
  ASSUME UNCHANGED <<begun, uconns, said, came, inbox>> PROVE UNoneMore
  BY DEF UNoneMore, UWaiting, U!Held, U!Connected

LEMMA UBeginAwaitsSame == ASSUME UInv, U!Begin PROVE UNoneMore
  <1>1. ~begun /\ UNCHANGED <<said, came, inbox>>
    BY UBeginAll
  <1> QED BY <1>1 DEF UNoneMore, UWaiting, U!Held

LEMMA UReceiveAwaitsSame == ASSUME UInv, NEW p \in Player, U!Receive(p) PROVE UNoneMore
  <1> DEFINE n == came[p] + 1  L == Len(inbox[p])
  <1>1. /\ came[p] < said[p] /\ came' = [came EXCEPT ![p] = n]
        /\ \/ inbox' = [inbox EXCEPT ![p] = Append(@, n)]
           \/ inbox' = inbox
        /\ UNCHANGED <<begun, said, uconns>>
    BY DEF U!Receive, U!Take, U!Miss
  <1>2. /\ came[p] \in Nat /\ said[p] \in Nat /\ came'[p] = n
        /\ \A q \in Player \ {p} : came'[q] = came[q]
    <2>1. came \in [Player -> 0 .. Lot] /\ said \in [Player -> 0 .. Lot]
      BY DEF UInv, UFields, Shared
    <2> QED BY <1>1, <2>1, Sizes
  <1>3. inbox \in [Player -> Seq(Nat)] /\ inbox[p] \in Seq(Nat) /\ L \in Nat /\ DOMAIN inbox[p] = 1 .. L
    BY DEF UInv, UFields
  <1>4. \A q \in Player \ {p} : inbox'[q] = inbox[q]
    BY <1>1, <1>3
  <1>5. U!Held(p)' \subseteq U!Held(p) \cup {n}
    <2>1. CASE inbox' = inbox
      BY <2>1 DEF U!Held
    <2>2. CASE inbox' = [inbox EXCEPT ![p] = Append(@, n)]
      <3>1. inbox'[p] = Append(inbox[p], n) /\ n \in Nat
        BY <1>2, <1>3, <2>2
      <3>2. DOMAIN inbox'[p] = 1 .. L + 1 /\ \A i \in 1 .. L + 1 :
               IF i = L + 1 THEN inbox'[p][i] = n ELSE i \in 1 .. L /\ inbox'[p][i] = inbox[p][i]
        BY <1>3, <3>1
      <3> HIDE DEF n, L
      <3>3. U!Held(p)' = {inbox'[p][i] : i \in 1 .. L + 1} /\ U!Held(p) = {inbox[p][i] : i \in 1 .. L}
        BY <1>3, <3>2 DEF U!Held
      <3> QED BY <3>2, <3>3
    <2> QED BY <1>1, <2>1, <2>2
  <1>6. UWaiting(p)' \subseteq UWaiting(p)
    <2>1. UWaiting(p)' = U!Held(p)' \cup n + 1 .. said[p]
      BY <1>1, <1>2 DEF UWaiting
    <2>2. {n} \cup n + 1 .. said[p] \subseteq n .. said[p]
      BY <1>1, <1>2
    <2> QED BY <1>5, <2>1, <2>2 DEF UWaiting
  <1>7. ASSUME NEW q \in Player \ {p} PROVE UWaiting(q)' = UWaiting(q)
    BY <1>1, <1>2, <1>4 DEF UWaiting, U!Held
  <1>8. \A q : U!Connected(q)' = U!Connected(q)
    BY <1>1 DEF U!Connected
  <1> QED BY <1>1, <1>6, <1>7, <1>8 DEF UNoneMore

\* The next packet of p is the last that is awaited of him.
LEMMA USayAdds ==
  ASSUME UInv, NEW p \in Player, U!Say(p)
  PROVE  UNCHANGED <<begun, heard>> /\ said' = [said EXCEPT ![p] = @ + 1]
         /\ \A q \in Player : /\ U!Connected(q)' = U!Connected(q)
                              /\ UWaiting(q)' = UWaiting(q) \cup (IF q = p THEN {said[p] + 1} ELSE {})
  <1>1. said' = [said EXCEPT ![p] = @ + 1] /\ UNCHANGED <<begun, heard, uconns, came, inbox>>
    BY DEF U!Say, U!ins
  <1>2. said \in [Player -> 0 .. Lot]
    BY DEF UInv, Shared
  <1>3. ASSUME NEW q \in Player
        PROVE  UWaiting(q)' = UWaiting(q) \cup (IF q = p THEN {said[p] + 1} ELSE {})
    <2>1. UWaiting(q)' = U!Held(q) \cup came[q] + 1 .. said'[q]
      BY <1>1 DEF UWaiting, U!Held
    <2>2. CASE q # p
      BY <1>1, <1>2, <2>1, <2>2 DEF UWaiting
    <2>3. CASE q = p
      <3>1. said'[p] = said[p] + 1
        BY <1>1, <1>2
      <3>2. came[p] \in Nat /\ said[p] \in Nat /\ came[p] <= said[p]
        BY <1>2 DEF UInv, UFields, UOrder
      <3>3. came[p] + 1 .. said[p] + 1 = came[p] + 1 .. said[p] \cup {said[p] + 1}
        BY <3>2
      <3> QED BY <2>1, <2>3, <3>1, <3>3 DEF UWaiting
    <2> QED BY <2>2, <2>3
  <1> QED BY <1>1, <1>3 DEF U!Connected

(***************************************************************************)
(* Only: the elements at some places of a sequence.                        *)
(***************************************************************************)
\* f lists, for each i, what the places K hold of the first i elements of s.
Lists(f, s, K, n) ==
    f = [i \in 0 .. n |->
            IF i = 0 THEN << >> ELSE IF i \in K THEN Append(f[i - 1], s[i]) ELSE f[i - 1]]

LEMMA ListsStep ==
  ASSUME NEW n \in Nat, NEW s, NEW K, NEW f
  PROVE  Lists(f, s, K, n) <=>
            /\ f = [i \in 0 .. n |-> f[i]]
            /\ f[0] = << >>
            /\ \A i \in 1 .. n : f[i] = IF i \in K THEN Append(f[i - 1], s[i]) ELSE f[i - 1]
  <1>1. ASSUME Lists(f, s, K, n)
        PROVE  /\ f = [i \in 0 .. n |-> f[i]]
               /\ f[0] = << >>
               /\ \A i \in 1 .. n : f[i] = IF i \in K THEN Append(f[i - 1], s[i]) ELSE f[i - 1]
    <2>1. \A i \in 0 .. n : f[i] = IF i = 0 THEN << >>
                                   ELSE IF i \in K THEN Append(f[i - 1], s[i]) ELSE f[i - 1]
      BY <1>1, Zenon DEF Lists
    <2>2. f = [i \in 0 .. n |-> f[i]]
      BY <1>1, <2>1, Zenon DEF Lists
    <2>3. 0 \in 0 .. n /\ \A i \in 1 .. n : i \in 0 .. n /\ i # 0
      OBVIOUS
    <2> QED BY <2>1, <2>2, <2>3, Zenon
  <1>2. ASSUME /\ f = [i \in 0 .. n |-> f[i]]
               /\ f[0] = << >>
               /\ \A i \in 1 .. n : f[i] = IF i \in K THEN Append(f[i - 1], s[i]) ELSE f[i - 1]
        PROVE  Lists(f, s, K, n)
    <2>1. \A i \in 0 .. n : i = 0 \/ i \in 1 .. n
      OBVIOUS
    <2>2. \A i \in 0 .. n : f[i] = IF i = 0 THEN << >>
                                   ELSE IF i \in K THEN Append(f[i - 1], s[i]) ELSE f[i - 1]
      BY <1>2, <2>1, Zenon
    <2> QED BY <1>2, <2>2, Zenon DEF Lists
  <1> QED BY <1>1, <1>2

LEMMA ListsExist ==
  ASSUME NEW n \in Nat, NEW s, NEW K
  PROVE  \E f : Lists(f, s, K, n)
  <1> DEFINE N == {m \in Nat : \E f : Lists(f, s, K, m)}
  <1>1. 0 \in N
    <2> DEFINE f == [i \in 0 .. 0 |-> << >>]
    <2>1. f = [i \in 0 .. 0 |-> f[i]] /\ f[0] = << >> /\ 1 .. 0 = {}
      OBVIOUS
    <2> HIDE DEF f
    <2>2. Lists(f, s, K, 0)
      BY <2>1, ListsStep
    <2> QED BY <2>2
  <1>2. ASSUME NEW m \in N PROVE m + 1 \in N
    <2>1. m \in Nat /\ m + 1 \in Nat
      OBVIOUS
    <2>2. PICK f : Lists(f, s, K, m)
      OBVIOUS
    <2> DEFINE g == [i \in 0 .. m + 1 |->
                       IF i \in 0 .. m THEN f[i]
                       ELSE IF m + 1 \in K THEN Append(f[m], s[m + 1]) ELSE f[m]]
    <2>3. f[0] = << >> /\ \A i \in 1 .. m : f[i] = IF i \in K THEN Append(f[i - 1], s[i]) ELSE f[i - 1]
      BY <2>1, <2>2, ListsStep
    <2>4. \A i \in 0 .. m : g[i] = f[i]
      BY <2>1
    <2>5. g[m + 1] = IF m + 1 \in K THEN Append(f[m], s[m + 1]) ELSE f[m]
      BY <2>1
    <2>6. g = [i \in 0 .. m + 1 |-> g[i]]
      OBVIOUS
    <2> HIDE DEF g
    <2>7. ASSUME NEW i \in 1 .. m + 1
          PROVE  g[i] = IF i \in K THEN Append(g[i - 1], s[i]) ELSE g[i - 1]
      <3>1. CASE i \in 1 .. m
        <4>1. i \in 0 .. m /\ i - 1 \in 0 .. m
          BY <2>1, <3>1
        <4>2. g[i] = f[i] /\ g[i - 1] = f[i - 1]
          BY <2>4, <4>1
        <4>3. f[i] = IF i \in K THEN Append(f[i - 1], s[i]) ELSE f[i - 1]
          BY <2>3, <3>1
        <4> QED BY <4>2, <4>3
      <3>2. CASE i = m + 1
        <4>1. i - 1 = m /\ m \in 0 .. m
          BY <2>1, <3>2
        <4>2. g[i - 1] = f[m]
          BY <2>4, <4>1
        <4> QED BY <2>5, <3>2, <4>2
      <3> QED BY <2>1, <3>1, <3>2
    <2>8. g[0] = << >>
      BY <2>1, <2>3, <2>4
    <2>9. Lists(g, s, K, m + 1)
      BY <2>1, <2>6, <2>7, <2>8, ListsStep
    <2> QED BY <2>1, <2>9
  <1>3. N = Nat
    <2> HIDE DEF N
    <2>1. N \in SUBSET Nat
      BY DEF N
    <2> QED BY <1>1, <1>2, <2>1, Induction
  <1> QED BY <1>3

LEMMA OnlyIs ==
  ASSUME NEW S, NEW s \in Seq(S), NEW K
  PROVE  \E f : Lists(f, s, K, Len(s)) /\ W!Only(s, K) = f[Len(s)]
  <1> DEFINE kept[i \in 0 .. Len(s)] ==
            IF i = 0 THEN << >>
            ELSE IF i \in K THEN Append(kept[i - 1], s[i]) ELSE kept[i - 1]
  <1>1. \E f : f = [i \in 0 .. Len(s) |->
                      IF i = 0 THEN << >> ELSE IF i \in K THEN Append(f[i - 1], s[i]) ELSE f[i - 1]]
    <2>1. \E f : Lists(f, s, K, Len(s))
      BY ListsExist
    <2> QED BY <2>1, Zenon DEF Lists
  <1>2. Lists(kept, s, K, Len(s))
    BY <1>1, Zenon DEF kept, Lists
  <1>3. W!Only(s, K) = kept[Len(s)]
    BY Zenon DEF W!Only, kept
  <1> QED BY <1>2, <1>3

\* e leads from each place of t to the one of s it is taken from.
Leads(e, t, s, P) ==
    /\ e \in [1 .. Len(t) -> P]
    /\ \A i \in 1 .. Len(t) : t[i] = s[e[i]]
    /\ \A i, j \in 1 .. Len(t) : i < j => e[i] < e[j]
    /\ \A k \in P : \E i \in 1 .. Len(t) : e[i] = k

LEMMA ListsLead ==
  ASSUME NEW S, NEW s \in Seq(S), NEW K, NEW f, Lists(f, s, K, Len(s)), NEW n \in 0 .. Len(s)
  PROVE  /\ f[n] \in Seq(S) /\ Len(f[n]) <= n
         /\ \E e : Leads(e, f[n], s, K \cap 1 .. n)
  <1> DEFINE Fine(i) == /\ f[i] \in Seq(S) /\ Len(f[i]) <= i
                        /\ \E e : Leads(e, f[i], s, K \cap 1 .. i)
             P(i) == i <= Len(s) => Fine(i)
  <1> HIDE DEF Fine, P
  <1>0. Len(s) \in Nat /\ DOMAIN s = 1 .. Len(s) /\ \A i \in 1 .. Len(s) : s[i] \in S
    OBVIOUS
  <1>f. f[0] = << >> /\ \A i \in 1 .. Len(s) : f[i] = IF i \in K THEN Append(f[i - 1], s[i]) ELSE f[i - 1]
    BY <1>0, ListsStep
  <1>1. P(0)
    <2>1. f[0] \in Seq(S) /\ Len(f[0]) = 0 /\ 1 .. 0 = {}
      BY <1>f
    <2>2. Leads([i \in {} |-> 0], f[0], s, K \cap 1 .. 0)
      BY <2>1 DEF Leads
    <2>3. \E e : Leads(e, f[0], s, K \cap 1 .. 0)
      BY <2>2
    <2> QED BY <2>1, <2>3 DEF P, Fine
  <1>2. ASSUME NEW m \in Nat, P(m) PROVE P(m + 1)
    <2> SUFFICES ASSUME m + 1 <= Len(s) PROVE Fine(m + 1)
      BY DEF P
    <2>1. m \in Nat /\ m + 1 \in 1 .. Len(s) /\ m + 1 - 1 = m
      BY <1>0
    <2>2. f[m] \in Seq(S) /\ Len(f[m]) <= m /\ \E e : Leads(e, f[m], s, K \cap 1 .. m)
      <3>1. m <= Len(s)
        BY <1>0, <2>1
      <3> QED BY <1>2, <3>1 DEF P, Fine
    <2>3. PICK e : Leads(e, f[m], s, K \cap 1 .. m)
      BY <2>2
    <2>4. f[m] \in Seq(S) /\ Len(f[m]) \in Nat /\ Len(f[m]) <= m
      BY <2>2
    <2>5. f[m + 1] = IF m + 1 \in K THEN Append(f[m], s[m + 1]) ELSE f[m]
      BY <1>f, <2>1
    <2>6. CASE m + 1 \notin K
      <3>1. K \cap 1 .. m + 1 = K \cap 1 .. m
        BY <2>1, <2>6
      <3>2. f[m + 1] = f[m]
        BY <2>5, <2>6
      <3>3. Len(f[m + 1]) <= m + 1
        BY <2>1, <2>4, <3>2
      <3> QED BY <2>3, <2>4, <3>1, <3>2, <3>3 DEF Fine
    <2>7. CASE m + 1 \in K
      <3> DEFINE L == Len(f[m])  t == f[m + 1]
                 d == [i \in 1 .. L + 1 |-> IF i \in 1 .. L THEN e[i] ELSE m + 1]
      <3>1. t = Append(f[m], s[m + 1]) /\ s[m + 1] \in S
        BY <1>0, <2>1, <2>5, <2>7
      <3>2. /\ t \in Seq(S) /\ Len(t) = L + 1 /\ L \in Nat
            /\ t[L + 1] = s[m + 1] /\ \A i \in 1 .. L : t[i] = f[m][i]
        BY <2>4, <3>1
      <3>3. /\ e \in [1 .. L -> K \cap 1 .. m]
            /\ \A i \in 1 .. L : f[m][i] = s[e[i]]
            /\ \A i, j \in 1 .. L : i < j => e[i] < e[j]
            /\ \A k \in K \cap 1 .. m : \E i \in 1 .. L : e[i] = k
        BY <2>3 DEF Leads
      <3>4. \A i \in 1 .. L : e[i] \in K /\ e[i] \in 1 .. m /\ e[i] \in K \cap 1 .. m + 1 /\ e[i] < m + 1
        BY <2>1, <3>3
      <3>5. \A i \in 1 .. L + 1 : i \in 1 .. L \/ i = L + 1
        BY <3>2
      <3>6. L + 1 \in 1 .. L + 1 /\ L + 1 \notin 1 .. L /\ m + 1 \in K \cap 1 .. m + 1
            /\ \A i \in 1 .. L : i \in 1 .. L + 1
        BY <2>1, <2>7, <3>2
      <3>7. d[L + 1] = m + 1 /\ \A i \in 1 .. L : d[i] = e[i]
        BY <3>6
      <3>8. d \in [1 .. L + 1 -> K \cap 1 .. m + 1]
        BY <3>4, <3>6
      <3> HIDE DEF d, t, L
      <3>9. \A i \in 1 .. L + 1 : t[i] = s[d[i]]
        BY <3>2, <3>3, <3>5, <3>7
      <3>10. ASSUME NEW i \in 1 .. L + 1, NEW j \in 1 .. L + 1, i < j PROVE d[i] < d[j]
        <4>1. i \in 1 .. L
          BY <3>2, <3>10
        <4>2. CASE j \in 1 .. L
          BY <3>3, <3>7, <3>10, <4>1, <4>2
        <4>3. CASE j = L + 1
          BY <3>4, <3>7, <4>1, <4>3
        <4> QED BY <3>5, <4>2, <4>3
      <3>11. ASSUME NEW k \in K \cap 1 .. m + 1 PROVE \E i \in 1 .. L + 1 : d[i] = k
        <4>1. CASE k = m + 1
          BY <3>6, <3>7, <4>1
        <4>2. CASE k # m + 1
          <5>1. k \in K \cap 1 .. m
            BY <2>1, <4>2
          <5> QED BY <3>3, <3>6, <3>7, <5>1
        <4> QED BY <4>1, <4>2
      <3>12. Leads(d, t, s, K \cap 1 .. m + 1)
        BY <3>2, <3>8, <3>9, <3>10, <3>11 DEF Leads
      <3>13. Len(t) <= m + 1
        BY <2>1, <2>4, <3>2 DEF L
      <3>14. t = f[m + 1]
        BY DEF t
      <3> QED BY <3>2, <3>12, <3>13, <3>14 DEF Fine
    <2> QED BY <2>6, <2>7
  <1>3. \A m \in Nat : P(m)
    <2> DEFINE N == {m \in Nat : P(m)}
    <2>1. 0 \in N /\ N \in SUBSET Nat /\ \A m \in N : m + 1 \in N
      BY <1>1, <1>2
    <2> HIDE DEF N
    <2>2. N = Nat
      BY <2>1, Induction
    <2> QED BY <2>2 DEF N
  <1>4. Fine(n)
    BY <1>0, <1>3 DEF P
  <1> QED BY <1>4 DEF Fine

\* What is taken is in order, each element of those places once.
LEMMA OnlyTakes ==
  ASSUME NEW S, NEW s \in Seq(S), NEW K
  PROVE  /\ W!Only(s, K) \in Seq(S) /\ Len(W!Only(s, K)) <= Len(s)
         /\ \E e : Leads(e, W!Only(s, K), s, K \cap 1 .. Len(s))
  <1>1. PICK f : Lists(f, s, K, Len(s)) /\ W!Only(s, K) = f[Len(s)]
    BY OnlyIs
  <1>2. Len(s) \in 0 .. Len(s)
    OBVIOUS
  <1>3. /\ f[Len(s)] \in Seq(S) /\ Len(f[Len(s)]) <= Len(s)
        /\ \E e : Leads(e, f[Len(s)], s, K \cap 1 .. Len(s))
    BY <1>1, <1>2, ListsLead
  <1> QED BY <1>1, <1>3

\* What is taken and what is left are together as long as the whole.
LEMMA OnlyApart ==
  ASSUME NEW S, NEW s \in Seq(S), NEW K, NEW R, \A i \in 1 .. Len(s) : i \in K <=> i \notin R
  PROVE  Len(W!Only(s, K)) + Len(W!Only(s, R)) = Len(s)
  <1>1. PICK f : Lists(f, s, K, Len(s)) /\ W!Only(s, K) = f[Len(s)]
    BY OnlyIs
  <1>2. PICK g : Lists(g, s, R, Len(s)) /\ W!Only(s, R) = g[Len(s)]
    BY OnlyIs
  <1>3. Len(s) \in Nat /\ \A i \in 1 .. Len(s) : s[i] \in S
    OBVIOUS
  <1>4. /\ f[0] = << >> /\ \A i \in 1 .. Len(s) : f[i] = IF i \in K THEN Append(f[i - 1], s[i]) ELSE f[i - 1]
        /\ g[0] = << >> /\ \A i \in 1 .. Len(s) : g[i] = IF i \in R THEN Append(g[i - 1], s[i]) ELSE g[i - 1]
    BY <1>1, <1>2, <1>3, ListsStep
  <1>5. \A i \in 0 .. Len(s) : f[i] \in Seq(S) /\ g[i] \in Seq(S)
    BY <1>1, <1>2, ListsLead
  <1> DEFINE P(i) == i <= Len(s) => Len(f[i]) + Len(g[i]) = i
  <1> HIDE DEF P
  <1>6. P(0)
    BY <1>4 DEF P
  <1>7. ASSUME NEW m \in Nat, P(m) PROVE P(m + 1)
    <2> SUFFICES ASSUME m + 1 <= Len(s) PROVE Len(f[m + 1]) + Len(g[m + 1]) = m + 1
      BY DEF P
    <2>1. m \in Nat /\ m + 1 \in 1 .. Len(s) /\ m + 1 - 1 = m /\ m \in 0 .. Len(s)
      BY <1>3
    <2>2. Len(f[m]) + Len(g[m]) = m /\ f[m] \in Seq(S) /\ g[m] \in Seq(S)
      <3>1. m <= Len(s)
        BY <1>3, <2>1
      <3>2. Len(f[m]) + Len(g[m]) = m
        BY <1>7, <3>1 DEF P
      <3> QED BY <1>5, <2>1, <3>2
    <2>3. Len(f[m]) \in Nat /\ Len(g[m]) \in Nat /\ s[m + 1] \in S
      BY <1>3, <2>1, <2>2
    <2>4. CASE m + 1 \in K
      <3>1. f[m + 1] = Append(f[m], s[m + 1]) /\ g[m + 1] = g[m]
        <4>1. m + 1 \notin R
          BY <2>1, <2>4
        <4>2. f[m + 1] = IF m + 1 \in K THEN Append(f[m + 1 - 1], s[m + 1]) ELSE f[m + 1 - 1]
          BY <1>4, <2>1
        <4>3. g[m + 1] = IF m + 1 \in R THEN Append(g[m + 1 - 1], s[m + 1]) ELSE g[m + 1 - 1]
          BY <1>4, <2>1
        <4> QED BY <2>1, <2>4, <4>1, <4>2, <4>3
      <3>2. Len(f[m + 1]) = Len(f[m]) + 1
        BY <2>2, <2>3, <3>1
      <3>3. PICK a \in Nat, b \in Nat : a = Len(f[m]) /\ b = Len(g[m])
        BY <2>3
      <3>4. a + 1 + b = m + 1
        <4>1. a + b = m
          BY <2>2, <3>3
        <4>2. \A x, y, z \in Nat : x + y = z => x + 1 + y = z + 1
          OBVIOUS
        <4> QED BY <3>3, <4>1, <4>2
      <3> QED BY <3>1, <3>2, <3>3, <3>4
    <2>5. CASE m + 1 \notin K
      <3>1. g[m + 1] = Append(g[m], s[m + 1]) /\ f[m + 1] = f[m]
        <4>1. m + 1 \in R
          BY <2>1, <2>5
        <4>2. f[m + 1] = IF m + 1 \in K THEN Append(f[m + 1 - 1], s[m + 1]) ELSE f[m + 1 - 1]
          BY <1>4, <2>1
        <4>3. g[m + 1] = IF m + 1 \in R THEN Append(g[m + 1 - 1], s[m + 1]) ELSE g[m + 1 - 1]
          BY <1>4, <2>1
        <4> QED BY <2>1, <2>5, <4>1, <4>2, <4>3
      <3>2. Len(g[m + 1]) = Len(g[m]) + 1
        BY <2>2, <2>3, <3>1
      <3>3. PICK a \in Nat, b \in Nat : a = Len(f[m]) /\ b = Len(g[m])
        BY <2>3
      <3>4. a + (b + 1) = m + 1
        <4>1. a + b = m
          BY <2>2, <3>3
        <4>2. \A x, y, z \in Nat : x + y = z => x + (y + 1) = z + 1
          OBVIOUS
        <4> QED BY <3>3, <4>1, <4>2
      <3> QED BY <3>1, <3>2, <3>3, <3>4
    <2> QED BY <2>4, <2>5
  <1>8. \A m \in Nat : P(m)
    <2> DEFINE N == {m \in Nat : P(m)}
    <2>1. 0 \in N /\ N \in SUBSET Nat /\ \A m \in N : m + 1 \in N
      BY <1>6, <1>7
    <2> HIDE DEF N
    <2>2. N = Nat
      BY <2>1, Induction
    <2> QED BY <2>2 DEF N
  <1>9. Len(f[Len(s)]) + Len(g[Len(s)]) = Len(s)
    <2>1. P(Len(s)) /\ Len(s) <= Len(s)
      BY <1>3, <1>8
    <2> QED BY <2>1 DEF P
  <1> QED BY <1>1, <1>2, <1>9

\* s without its a-th element.
Without(s, a) == [i \in 1 .. Len(s) - 1 |-> IF i < a THEN s[i] ELSE s[i + 1]]

LEMMA WithoutLast ==
  ASSUME NEW S, NEW s \in Seq(S), NEW x \in S
  PROVE  Without(Append(s, x), Len(s) + 1) = s
  <1> DEFINE n == Len(s)  t == Append(s, x)
  <1>1. n \in Nat /\ s = [i \in 1 .. n |-> s[i]]
    OBVIOUS
  <1>2. Len(t) - 1 = n /\ \A i \in 1 .. n : t[i] = s[i] /\ i < n + 1
    OBVIOUS
  <1> HIDE DEF n, t
  <1>3. Without(t, n + 1) = [i \in 1 .. n |-> s[i]]
    <2>1. Without(t, n + 1) = [i \in 1 .. n |-> IF i < n + 1 THEN t[i] ELSE t[i + 1]]
      BY <1>2 DEF Without
    <2> QED BY <1>2, <2>1
  <1> QED BY <1>1, <1>3 DEF n, t

LEMMA WithoutAppended ==
  ASSUME NEW S, NEW s \in Seq(S), NEW x \in S, NEW a \in 1 .. Len(s)
  PROVE  Without(Append(s, x), a) = Append(Without(s, a), x)
  <1> DEFINE n == Len(s)  t == Append(s, x)  w == Without(s, a)  v == Append(w, x)
  <1>1. n \in Nat \ {0} /\ a \in 1 .. n /\ \A i \in 1 .. n : s[i] \in S
    OBVIOUS
  <1>2. Len(t) - 1 = n /\ t[n + 1] = x /\ \A i \in 1 .. n : t[i] = s[i]
    OBVIOUS
  <1>3. w = [i \in 1 .. n - 1 |-> IF i < a THEN s[i] ELSE s[i + 1]]
    BY DEF Without
  <1>4. w \in Seq(S) /\ Len(w) = n - 1
    <2>1. w \in [1 .. n - 1 -> S]
      <3> HIDE DEF n, w
      <3>1. \A i \in 1 .. n - 1 : i \in 1 .. n /\ i + 1 \in 1 .. n
        BY <1>1
      <3> QED BY <1>1, <1>3, <3>1
    <2> HIDE DEF n, w
    <2>2. n - 1 \in Nat
      BY <1>1
    <2> QED BY <2>1, <2>2
  <1>5. v \in Seq(S) /\ Len(v) = n /\ v[n] = x /\ (\A i \in 1 .. n - 1 : v[i] = w[i])
        /\ v = [i \in 1 .. n |-> v[i]]
    <2> HIDE DEF n, w
    <2>1. Len(w) + 1 = n
      BY <1>1, <1>4
    <2>2. v \in Seq(S) /\ Len(v) = Len(w) + 1 /\ v[Len(w) + 1] = x /\ \A i \in 1 .. Len(w) : v[i] = w[i]
      BY <1>4
    <2> HIDE DEF v
    <2>3. v = [i \in 1 .. Len(v) |-> v[i]]
      BY <2>2
    <2> QED BY <1>4, <2>1, <2>2, <2>3
  <1>6. Without(t, a) = [i \in 1 .. n |-> IF i < a THEN t[i] ELSE t[i + 1]]
    <2> HIDE DEF n, t
    <2> QED BY <1>2 DEF Without
  <1> HIDE DEF n, t, w, v
  <1>7. ASSUME NEW i \in 1 .. n PROVE (IF i < a THEN t[i] ELSE t[i + 1]) = v[i]
    <2>1. CASE i = n
      <3>1. v[i] = x /\ t[i + 1] = x /\ ~ (i < a)
        BY <1>1, <1>2, <1>5, <2>1
      <3> QED BY <3>1
    <2>2. CASE i # n
      <3>1. i \in 1 .. n - 1 /\ i + 1 \in 1 .. n
        BY <1>1, <2>2
      <3>2. v[i] = IF i < a THEN s[i] ELSE s[i + 1]
        BY <1>3, <1>5, <3>1
      <3> QED BY <1>2, <3>1, <3>2
    <2> QED BY <2>1, <2>2
  <1>8. Without(t, a) = v
    BY <1>5, <1>6, <1>7, Zenon
  <1> QED BY <1>8 DEF t, v, w

\* Without the place j of K the rest stays, in its order.

\* t is s without an x.
TakesOut(x, s, t) == \E a \in 1 .. Len(s) : s[a] = x /\ t = Without(s, a)

LEMMA OnlyWithout ==
  ASSUME NEW S, NEW s \in Seq(S), NEW u \in Seq(S), NEW K, NEW j,
         j \in K \cap 1 .. Len(s), Len(u) = Len(s), \A i \in 1 .. Len(s) : i # j => u[i] = s[i]
  PROVE  TakesOut(s[j], W!Only(s, K), W!Only(u, K \ {j}))
  <1>1. PICK f : Lists(f, s, K, Len(s)) /\ W!Only(s, K) = f[Len(s)]
    BY OnlyIs
  <1>2. PICK g : Lists(g, u, K \ {j}, Len(s)) /\ W!Only(u, K \ {j}) = g[Len(s)]
    BY OnlyIs
  <1>3. PICK n \in Nat : n = Len(s)
    OBVIOUS
  <1>4. j \in 1 .. n /\ j \in K /\ \A i \in 1 .. n : s[i] \in S
    BY <1>3
  <1>5. f[0] = << >> /\ \A i \in 1 .. n : f[i] = IF i \in K THEN Append(f[i - 1], s[i]) ELSE f[i - 1]
    <2>1. Lists(f, s, K, n)
      BY <1>1, <1>3
    <2> QED BY <1>3, <2>1, ListsStep
  <1>6. g[0] = << >> /\ \A i \in 1 .. n : g[i] = IF i \in K \ {j} THEN Append(g[i - 1], u[i]) ELSE g[i - 1]
    BY <1>2, <1>3, ListsStep
  <1>7. \A i \in 0 .. n : f[i] \in Seq(S) /\ Len(f[i]) \in Nat
    <2>1. \A i \in 0 .. n : f[i] \in Seq(S)
      BY <1>1, <1>3, ListsLead
    <2> QED BY <2>1
  <1>8. \A i \in 1 .. n : i # j => g[i] = IF i \in K THEN Append(g[i - 1], s[i]) ELSE g[i - 1]
    BY <1>3, <1>6
  <1>9. g[j] = g[j - 1] /\ f[j] = Append(f[j - 1], s[j])
    BY <1>4, <1>5, <1>6
  <1> DEFINE a == Len(f[j])
             P(i) == i <= n => \/ i < j /\ g[i] = f[i]
                               \/ i >= j /\ a \in 1 .. Len(f[i]) /\ f[i][a] = s[j] /\ g[i] = Without(f[i], a)
  <1> HIDE DEF a, P
  <1>10. P(0)
    BY <1>4, <1>5, <1>6 DEF P
  <1>11. ASSUME NEW m \in Nat, P(m) PROVE P(m + 1)
    <2> SUFFICES ASSUME m + 1 <= n
                 PROVE  \/ m + 1 < j /\ g[m + 1] = f[m + 1]
                        \/ /\ m + 1 >= j /\ a \in 1 .. Len(f[m + 1]) /\ f[m + 1][a] = s[j]
                           /\ g[m + 1] = Without(f[m + 1], a)
      BY DEF P
    <2>1. m + 1 \in 1 .. n /\ m + 1 - 1 = m /\ m \in 0 .. n /\ m <= n
      BY <1>3
    <2>2. f[m] \in Seq(S) /\ Len(f[m]) \in Nat /\ s[m + 1] \in S
      BY <1>4, <1>7, <2>1
    <2>3. f[m + 1] = IF m + 1 \in K THEN Append(f[m], s[m + 1]) ELSE f[m]
      BY <1>5, <2>1
    <2>4. \/ m < j /\ g[m] = f[m]
          \/ m >= j /\ a \in 1 .. Len(f[m]) /\ f[m][a] = s[j] /\ g[m] = Without(f[m], a)
      BY <1>11, <2>1 DEF P
    <2>5. CASE m + 1 < j
      <3>1. g[m + 1] = IF m + 1 \in K THEN Append(g[m], s[m + 1]) ELSE g[m]
        BY <1>8, <2>1, <2>5
      <3>2. g[m] = f[m]
        BY <1>4, <2>4, <2>5
      <3> QED BY <2>3, <2>5, <3>1, <3>2
    <2>6. CASE m + 1 = j
      <3>1. g[m] = f[m] /\ j - 1 = m
        BY <1>4, <2>4, <2>6
      <3>2. f[j] = Append(f[m], s[j]) /\ g[j] = f[m]
        BY <1>9, <3>1
      <3>3. a = Len(f[m]) + 1 /\ a \in 1 .. Len(f[j]) /\ f[j][a] = s[j]
        BY <2>2, <2>6, <3>2 DEF a
      <3>4. Without(f[j], a) = f[m]
        BY <2>2, <2>6, <3>2, <3>3, WithoutLast
      <3>5. m + 1 >= j
        BY <1>4, <2>6
      <3> QED BY <2>6, <3>2, <3>3, <3>4, <3>5, Zenon
    <2>7. CASE m + 1 > j
      <3>1. a \in 1 .. Len(f[m]) /\ f[m][a] = s[j] /\ g[m] = Without(f[m], a)
        BY <1>4, <2>4, <2>7
      <3>2. g[m + 1] = IF m + 1 \in K THEN Append(g[m], s[m + 1]) ELSE g[m]
        BY <1>4, <1>8, <2>1, <2>7
      <3>3. CASE m + 1 \in K
        <4>1. Without(f[m + 1], a) = g[m + 1]
          BY <2>2, <2>3, <3>1, <3>2, <3>3, WithoutAppended
        <4>2. a \in 1 .. Len(f[m + 1]) /\ f[m + 1][a] = s[j]
          BY <2>2, <2>3, <3>1, <3>3
        <4> QED BY <1>4, <2>7, <4>1, <4>2
      <3>4. CASE m + 1 \notin K
        BY <1>4, <2>3, <2>7, <3>1, <3>2, <3>4
      <3> QED BY <3>3, <3>4
    <2> QED BY <1>4, <2>5, <2>6, <2>7
  <1>12. \A m \in Nat : P(m)
    <2> DEFINE N == {m \in Nat : P(m)}
    <2>1. 0 \in N /\ N \in SUBSET Nat /\ \A m \in N : m + 1 \in N
      BY <1>10, <1>11
    <2> HIDE DEF N
    <2>2. N = Nat
      BY <2>1, Induction
    <2> QED BY <2>2 DEF N
  <1>13. a \in 1 .. Len(f[n]) /\ f[n][a] = s[j] /\ g[n] = Without(f[n], a)
    <2>1. P(n) /\ n <= n /\ ~ (n < j)
      BY <1>4, <1>12
    <2> QED BY <2>1 DEF P
  <1>14. PICK t, w : t = f[n] /\ w = g[n]
    OBVIOUS
  <1>15. TakesOut(s[j], t, w)
    BY <1>13, <1>14 DEF TakesOut
  <1> QED BY <1>1, <1>2, <1>3, <1>14, <1>15

(***************************************************************************)
(* WSManagerClass: queues and slots.                                       *)
(***************************************************************************)
\* Of each player, what is later in the queue has the greater number.
Ordered(q) ==
    \A i, j \in DOMAIN q : i < j /\ q[i].from = q[j].from /\ q[i].n > 0 /\ q[j].n > 0 => q[i].n < q[j].n

LEMMA NumbersIn ==
  ASSUME NEW q, NEW p, NEW k
  PROVE  k \in W!InQueue(q, p) <=> \E i \in DOMAIN q : q[i].from = p /\ q[i].n = k
  BY DEF W!InQueue

LEMMA AppendedTo ==
  ASSUME NEW R, NEW q \in Seq(R), NEW m \in R, \A r \in R : r.n \in Nat,
         \A i \in DOMAIN q : q[i].from = m.from /\ q[i].n > 0 /\ m.n > 0 => q[i].n < m.n,
         Ordered(q)
  PROVE  /\ Append(q, m) \in Seq(R) /\ Len(Append(q, m)) = Len(q) + 1
         /\ Ordered(Append(q, m))
         /\ \A p : W!InQueue(Append(q, m), p) = W!InQueue(q, p) \cup (IF m.from = p THEN {m.n} ELSE {})
         /\ \A i \in DOMAIN Append(q, m) : Append(q, m)[i] = m \/ \E j \in DOMAIN q : Append(q, m)[i] = q[j]
  <1> DEFINE t == Append(q, m)
  <1>1. PICK n \in Nat : n = Len(q) /\ DOMAIN q = 1 .. n
    OBVIOUS
  <1>2. /\ t \in Seq(R) /\ Len(t) = n + 1 /\ DOMAIN t = 1 .. n + 1
        /\ t[n + 1] = m /\ \A i \in 1 .. n : t[i] = q[i]
    BY <1>1
  <1> HIDE DEF t
  <1>3. \A i \in 1 .. n + 1 : i \in 1 .. n \/ i = n + 1
    BY <1>1
  <1>4. n + 1 \in 1 .. n + 1 /\ \A i \in 1 .. n : i \in 1 .. n + 1
    BY <1>1
  <1>5. Ordered(t)
    <2> SUFFICES ASSUME NEW i \in 1 .. n + 1, NEW j \in 1 .. n + 1, i < j,
                        t[i].from = t[j].from, t[i].n > 0, t[j].n > 0
                 PROVE  t[i].n < t[j].n
      BY <1>2 DEF Ordered
    <2>1. i \in 1 .. n /\ t[i] = q[i]
      BY <1>1, <1>2
    <2>2. CASE j = n + 1
      <3>1. q[i].n < m.n
        BY <1>1, <1>2, <2>1, <2>2
      <3> QED BY <1>2, <2>1, <2>2, <3>1
    <2>3. CASE j # n + 1
      <3>1. j \in 1 .. n /\ t[j] = q[j]
        BY <1>2, <1>3, <2>3
      <3> QED BY <1>1, <2>1, <3>1 DEF Ordered
    <2> QED BY <2>2, <2>3
  <1>6. ASSUME NEW p
        PROVE  W!InQueue(t, p) = W!InQueue(q, p) \cup (IF m.from = p THEN {m.n} ELSE {})
    <2>1. \A k : k \in W!InQueue(t, p) <=> \E i \in 1 .. n + 1 : t[i].from = p /\ t[i].n = k
      BY <1>2, NumbersIn
    <2>2. \A k : k \in W!InQueue(q, p) <=> \E i \in 1 .. n : q[i].from = p /\ q[i].n = k
      BY <1>1, NumbersIn
    <2>3. \A k : (\E i \in 1 .. n + 1 : t[i].from = p /\ t[i].n = k)
               <=> (\E i \in 1 .. n : q[i].from = p /\ q[i].n = k) \/ (m.from = p /\ m.n = k)
      BY <1>2, <1>3, <1>4
    <2> QED BY <2>1, <2>2, <2>3
  <1>7. \A i \in DOMAIN t : t[i] = m \/ \E j \in DOMAIN q : t[i] = q[j]
    BY <1>1, <1>2, <1>3
  <1>8. Len(t) = Len(q) + 1
    BY <1>1, <1>2
  <1> QED BY <1>2, <1>5, <1>6, <1>7, <1>8 DEF t

LEMMA TakenFrom ==
  ASSUME NEW R, NEW q \in Seq(R), q # << >>, Ordered(q)
  PROVE  /\ Head(q) \in R /\ Tail(q) \in Seq(R) /\ Len(Tail(q)) = Len(q) - 1 /\ Len(q) \in Nat \ {0}
         /\ Ordered(Tail(q))
         /\ \A p : W!InQueue(q, p) = W!InQueue(Tail(q), p) \cup (IF Head(q).from = p THEN {Head(q).n} ELSE {})
         /\ \A k \in W!InQueue(Tail(q), Head(q).from) : Head(q).n > 0 /\ k > 0 => Head(q).n < k
         /\ \A i \in DOMAIN Tail(q) : \E j \in DOMAIN q : Tail(q)[i] = q[j]
         /\ 1 \in DOMAIN q /\ q[1] = Head(q)
  <1> DEFINE t == Tail(q)  m == Head(q)
  <1>1. PICK n \in Nat \ {0} : n = Len(q) /\ DOMAIN q = 1 .. n
    OBVIOUS
  <1>2. /\ t \in Seq(R) /\ Len(t) = n - 1 /\ DOMAIN t = 1 .. n - 1
        /\ m \in R /\ q[1] = m /\ \A i \in 1 .. n - 1 : t[i] = q[i + 1]
    BY <1>1
  <1> HIDE DEF t, m
  <1>3. 1 \in 1 .. n /\ \A i \in 1 .. n - 1 : i + 1 \in 1 .. n /\ 1 < i + 1
    BY <1>1
  <1>4. \A i \in 1 .. n : i = 1 \/ (i - 1 \in 1 .. n - 1 /\ i - 1 + 1 = i)
    BY <1>1
  <1>5. Ordered(t)
    <2> SUFFICES ASSUME NEW i \in 1 .. n - 1, NEW j \in 1 .. n - 1, i < j,
                        t[i].from = t[j].from, t[i].n > 0, t[j].n > 0
                 PROVE  t[i].n < t[j].n
      BY <1>2 DEF Ordered
    <2>1. i + 1 < j + 1 /\ i + 1 \in 1 .. n /\ j + 1 \in 1 .. n
      BY <1>3
    <2> QED BY <1>1, <1>2, <2>1 DEF Ordered
  <1>6. ASSUME NEW p
        PROVE  W!InQueue(q, p) = W!InQueue(t, p) \cup (IF m.from = p THEN {m.n} ELSE {})
    <2>1. \A k : k \in W!InQueue(t, p) <=> \E i \in 1 .. n - 1 : t[i].from = p /\ t[i].n = k
      BY <1>2, NumbersIn
    <2>2. \A k : k \in W!InQueue(q, p) <=> \E i \in 1 .. n : q[i].from = p /\ q[i].n = k
      BY <1>1, NumbersIn
    <2>3. ASSUME NEW k
          PROVE (\E i \in 1 .. n : q[i].from = p /\ q[i].n = k)
               <=> (\E i \in 1 .. n - 1 : t[i].from = p /\ t[i].n = k) \/ (m.from = p /\ m.n = k)
      <3>1. ASSUME NEW i \in 1 .. n, q[i].from = p, q[i].n = k
            PROVE  (\E x \in 1 .. n - 1 : t[x].from = p /\ t[x].n = k) \/ (m.from = p /\ m.n = k)
        <4>1. CASE i = 1
          BY <1>2, <3>1, <4>1
        <4>2. CASE i # 1
          <5>1. i - 1 \in 1 .. n - 1 /\ t[i - 1] = q[i]
            BY <1>2, <1>4, <4>2
          <5> QED BY <3>1, <5>1
        <4> QED BY <4>1, <4>2
      <3> QED BY <1>2, <1>3, <3>1
    <2> QED BY <2>1, <2>2, <2>3
  <1>7. ASSUME NEW k \in W!InQueue(t, m.from), m.n > 0, k > 0 PROVE m.n < k
    <2>1. PICK i \in 1 .. n - 1 : t[i].from = m.from /\ t[i].n = k
      BY <1>2, NumbersIn
    <2>2. q[i + 1].from = q[1].from /\ q[i + 1].n = k /\ q[1] = m
      BY <1>2, <2>1
    <2> QED BY <1>1, <1>3, <1>7, <2>2 DEF Ordered
  <1>8. \A i \in DOMAIN t : \E j \in DOMAIN q : t[i] = q[j]
    BY <1>1, <1>2, <1>3
  <1> QED BY <1>1, <1>2, <1>3, <1>5, <1>6, <1>7, <1>8 DEF t, m

\* The rest of a queue after a purge.
LEMMA OnlyKeeps ==
  ASSUME NEW R, NEW q \in Seq(R), NEW K
  PROVE  LET t == W!Only(q, K) IN
         /\ t \in Seq(R) /\ Len(t) <= Len(q)
         /\ Ordered(q) => Ordered(t)
         /\ \A i \in DOMAIN t : \E k \in DOMAIN q : k \in K /\ t[i] = q[k]
         /\ \A k \in DOMAIN q : k \in K => \E i \in DOMAIN t : t[i] = q[k]
  <1> DEFINE t == W!Only(q, K)
  <1>1. t \in Seq(R) /\ Len(t) <= Len(q) /\ \E e : Leads(e, t, q, K \cap 1 .. Len(q))
    BY OnlyTakes
  <1> HIDE DEF t
  <1>2. PICK e : Leads(e, t, q, K \cap 1 .. Len(q))
    BY <1>1
  <1>3. DOMAIN t = 1 .. Len(t) /\ DOMAIN q = 1 .. Len(q)
    BY <1>1
  <1>4. /\ \A i \in 1 .. Len(t) : e[i] \in K /\ e[i] \in 1 .. Len(q) /\ t[i] = q[e[i]]
        /\ \A i, j \in 1 .. Len(t) : i < j => e[i] < e[j]
        /\ \A k \in K \cap 1 .. Len(q) : \E i \in 1 .. Len(t) : e[i] = k
    BY <1>2 DEF Leads
  <1>5. Ordered(q) => Ordered(t)
    <2> SUFFICES ASSUME Ordered(q), NEW i \in 1 .. Len(t), NEW j \in 1 .. Len(t), i < j,
                        t[i].from = t[j].from, t[i].n > 0, t[j].n > 0
                 PROVE  t[i].n < t[j].n
      BY <1>3 DEF Ordered
    <2>1. e[i] \in 1 .. Len(q) /\ e[j] \in 1 .. Len(q) /\ e[i] < e[j] /\ t[i] = q[e[i]] /\ t[j] = q[e[j]]
      BY <1>4
    <2> QED BY <1>3, <2>1 DEF Ordered
  <1>6. \A i \in DOMAIN t : \E k \in DOMAIN q : k \in K /\ t[i] = q[k]
    BY <1>3, <1>4
  <1>7. \A k \in DOMAIN q : k \in K => \E i \in DOMAIN t : t[i] = q[k]
    BY <1>3, <1>4
  <1> QED BY <1>1, <1>5, <1>6, <1>7 DEF t

(***************************************************************************)
(* WSManagerClass: the invariant.                                          *)
(***************************************************************************)
Message == [id : Nat \ {0}, from : Player, n : 1 .. Lot]
Early == [from : Player, n : 1 .. Lot]
Frame == [from : Player, n : 0 .. Lot]
Connection == {W!Free} \cup [used : {TRUE}, id : Nat \ {0}, cid : Player]

WFields ==
    /\ link \in BOOLEAN /\ seated \subseteq Player
    /\ wconns \in [W!Slot -> Connection]
    /\ private \in Seq(Message) /\ pending \in Seq(Early) /\ wire \in Seq(Frame)
    /\ Len(private) <= MaxQueued /\ Len(pending) <= MaxQueued

HasSlot(p) == \E i \in W!Slot : wconns[i].used /\ wconns[i].cid = p

\* One slot for a client, under his own id.
WSlots ==
    /\ \A i \in W!Slot : wconns[i].used => wconns[i].id = IdOf[wconns[i].cid]
    /\ \A i, j \in W!Slot : wconns[i].used /\ wconns[j].used /\ wconns[i].cid = wconns[j].cid => i = j
    /\ ~begun => \A i \in W!Slot : ~wconns[i].used

WWaits ==
    /\ \A i \in DOMAIN private :
          \E j \in W!Slot : wconns[j] = [used |-> TRUE, id |-> private[i].id, cid |-> private[i].from]
    /\ \A i \in DOMAIN pending : ~HasSlot(pending[i].from)

Below(A, B) == \A a \in A, b \in B : a > 0 /\ b > 0 => a < b
InBoth(p) == W!InQueue(private, p) \cup W!InQueue(pending, p)

\* Of each player: read, then in the queues, then on the wire.
WOrder ==
    /\ Ordered(private) /\ Ordered(pending) /\ Ordered(wire)
    /\ \A p \in Player :
          /\ Below(W!Heard(p), InBoth(p)) /\ Below(W!Heard(p), W!InQueue(wire, p))
          /\ Below(InBoth(p), W!InQueue(wire, p))
          /\ InBoth(p) \cup W!InQueue(wire, p) \subseteq 0 .. said[p]

\* What a player who is not excused said is read or waits.
WKept ==
    \A p \in Player \ excused :
       /\ begun => HasSlot(p)
       /\ 1 .. said[p] \subseteq W!Heard(p) \cup InBoth(p) \cup W!InQueue(wire, p)

WInv == Shared /\ HeardInOrder /\ WFields /\ WSlots /\ WWaits /\ WOrder /\ WKept

Waiting(p) == InBoth(p) \cup W!InQueue(wire, p)

\* A step after which nothing is awaited that was not before; a PEER_LEFT, the
\* packet with number 0, is not awaited by the game.
NoneMore ==
    /\ begun => begun'
    /\ \A p \in Player : /\ begun /\ HasSlot(p)' => HasSlot(p)
                         /\ Waiting(p)' \subseteq Waiting(p) \cup {0}

\* A step that puts the next packet of p behind all others.
AddsOne(p) ==
    /\ said' = [said EXCEPT ![p] = @ + 1] /\ UNCHANGED <<begun, heard>>
    /\ \A q \in Player : /\ HasSlot(q)' = HasSlot(q)
                         /\ Waiting(q)' = Waiting(q) \cup (IF q = p THEN {said[p] + 1} ELSE {})

\* A step that reads packet n of p, the first of his that waits.
TakesOne(p, n) ==
    /\ heard' = [heard EXCEPT ![p] = Append(@, <<p, n>>)] /\ UNCHANGED <<begun, said>>
    /\ HasSlot(p) /\ n \notin W!Heard(p)
    /\ \A k \in Waiting(p) : k > 0 => n <= k
    /\ \A q \in Player : /\ HasSlot(q)' = HasSlot(q)
                         /\ Waiting(q) = Waiting(q)' \cup (IF q = p THEN {n} ELSE {})
                         /\ W!Heard(q)' = W!Heard(q) \cup (IF q = p THEN {n} ELSE {})

\* A set of natural numbers that has an element has a least one.
LEMMA LeastOf ==
  ASSUME NEW S \in SUBSET Nat, S # {}
  PROVE  \E x \in S : \A y \in S : x <= y
  <1>1. IsWellFoundedOn(OpToRel(<, Nat), Nat)
    BY NatLessThanWellFounded
  <1>2. PICK x \in S : \A y \in S : ~ (<<y, x>> \in OpToRel(<, Nat))
    BY <1>1, WFMin
  <1>3. ASSUME NEW y \in S PROVE x <= y
    <2>1. ~ (y < x)
      BY <1>2 DEF OpToRel
    <2>2. x \in Nat /\ y \in Nat
      BY <1>2
    <2> QED BY <2>1, <2>2
  <1> QED BY <1>2, <1>3

LEMMA FirstIs ==
  ASSUME NEW S \in SUBSET W!Slot
  PROVE  /\ W!FirstOf(S) = 0 <=> S = {}
         /\ S # {} => W!FirstOf(S) \in S /\ \A j \in S : W!FirstOf(S) <= j
  <1>1. S \in SUBSET Nat /\ 0 \notin S
    BY Sizes DEF W!Slot
  <1>2. CASE S = {}
    BY <1>2 DEF W!FirstOf
  <1>3. CASE S # {}
    <2>1. \E i \in S : \A j \in S : i <= j
      BY <1>1, <1>3, LeastOf
    <2>2. W!FirstOf(S) = CHOOSE i \in S : \A j \in S : i <= j
      BY <1>3 DEF W!FirstOf
    <2>3. W!FirstOf(S) \in S /\ \A j \in S : W!FirstOf(S) <= j
      BY <2>1, <2>2, Zenon
    <2> QED BY <1>1, <1>3, <2>3
  <1> QED BY <1>2, <1>3

LEMMA Slots ==
  ASSUME WFields
  PROVE  \A i \in W!Slot :
            /\ wconns[i].used \in BOOLEAN
            /\ ~wconns[i].used => wconns[i] = W!Free
            /\ wconns[i].used => /\ wconns[i].id \in Nat \ {0} /\ wconns[i].cid \in Player
                                 /\ wconns[i] = [used |-> TRUE, id |-> wconns[i].id, cid |-> wconns[i].cid]
  <1> TAKE i \in W!Slot
  <1>1. wconns[i] \in Connection
    BY DEF WFields
  <1>2. CASE wconns[i] = W!Free
    BY <1>2 DEF W!Free
  <1>3. CASE wconns[i] \in [used : {TRUE}, id : Nat \ {0}, cid : Player]
    BY <1>3
  <1> QED BY <1>1, <1>2, <1>3 DEF Connection

LEMMA SlotOfClient ==
  ASSUME WFields, WSlots, NEW p
  PROVE  /\ W!SlotOfCid(wconns, p) = 0 <=> ~HasSlot(p)
         /\ \A i \in W!Slot : wconns[i].used /\ wconns[i].cid = p => W!SlotOfCid(wconns, p) = i
         /\ W!SlotOfCid(wconns, p) # 0 =>
               LET i == W!SlotOfCid(wconns, p) IN i \in W!Slot /\ wconns[i].used /\ wconns[i].cid = p
  <1> DEFINE S == {i \in W!Slot : wconns[i].used /\ wconns[i].cid = p}
  <1>1. S \in SUBSET W!Slot /\ W!SlotOfCid(wconns, p) = W!FirstOf(S)
    BY DEF W!SlotOfCid
  <1>2. S = {} <=> ~HasSlot(p)
    BY DEF HasSlot
  <1>3. \A i \in S : i \in W!Slot /\ wconns[i].used /\ wconns[i].cid = p
    OBVIOUS
  <1>4. \A i \in W!Slot : wconns[i].used /\ wconns[i].cid = p => i \in S
    OBVIOUS
  <1> HIDE DEF S
  <1>5. /\ W!FirstOf(S) = 0 <=> S = {}
        /\ S # {} => W!FirstOf(S) \in S
    BY <1>1, FirstIs
  <1>6. \A i, j \in S : i = j
    BY <1>3 DEF WSlots
  <1> QED BY <1>1, <1>2, <1>3, <1>4, <1>5, <1>6

LEMMA SlotWithId ==
  ASSUME WFields, WSlots, NEW id
  PROVE  /\ \A i \in W!Slot : wconns[i].used /\ wconns[i].id = id => W!SlotOfId(wconns, id) = i
         /\ W!SlotOfId(wconns, id) # 0 =>
               LET i == W!SlotOfId(wconns, id) IN i \in W!Slot /\ wconns[i].used /\ wconns[i].id = id
  <1> DEFINE S == {i \in W!Slot : wconns[i].used /\ wconns[i].id = id}
  <1>1. S \in SUBSET W!Slot /\ W!SlotOfId(wconns, id) = W!FirstOf(S)
    BY DEF W!SlotOfId
  <1>3. \A i \in S : i \in W!Slot /\ wconns[i].used /\ wconns[i].id = id
    OBVIOUS
  <1>4. \A i \in W!Slot : wconns[i].used /\ wconns[i].id = id => i \in S
    OBVIOUS
  <1> HIDE DEF S
  <1>5. /\ W!FirstOf(S) = 0 <=> S = {}
        /\ S # {} => W!FirstOf(S) \in S
    BY <1>1, FirstIs
  <1>6. \A i, j \in S : i = j
    <2> SUFFICES ASSUME NEW i \in S, NEW j \in S PROVE wconns[i].cid = wconns[j].cid
      BY <1>3 DEF WSlots
    <2>1. /\ wconns[i].cid \in Player /\ wconns[j].cid \in Player
          /\ IdOf[wconns[i].cid] = id /\ IdOf[wconns[j].cid] = id
      BY <1>3, Slots DEF WSlots
    <2>2. \A a, b \in Player : IdOf[a] = IdOf[b] => a = b
      BY Sizes
    <2> QED BY <2>1, <2>2
  <1> QED BY <1>1, <1>3, <1>4, <1>5, <1>6

(***************************************************************************)
(* WSManagerClass: each operation keeps it.                                *)
(***************************************************************************)
\* What is between the queues and the game is where it was.
LEMMA WSayKeeps == ASSUME WInv, NEW p \in Player, W!Say(p) PROVE WInv' /\ AddsOne(p)
  <1> DEFINE m == [from |-> p, n |-> said[p] + 1]
  <1>1. /\ said[p] < Lot /\ said' = [said EXCEPT ![p] = @ + 1] /\ wire' = Append(wire, m)
        /\ UNCHANGED <<link, begun, wconns, private, pending, seated, heard, excused>>
    BY DEF W!Say, W!manager
  <1>2. /\ said \in [Player -> 0 .. Lot] /\ Lot \in Nat /\ wire \in Seq(Frame) /\ Ordered(wire)
        /\ Shared /\ HeardInOrder
    BY Sizes DEF WInv, Shared, WFields, WOrder
  <1>3. /\ Shared' /\ HeardInOrder'
        /\ \A q \in Player : said[q] <= said'[q] /\ said[q] \in Nat /\ said'[q] \in Nat
    BY <1>1, <1>2, SaysOne
  <1>4. said'[p] = said[p] + 1 /\ \A q \in Player \ {p} : said'[q] = said[q]
    BY <1>1, <1>2
  <1>5. m \in Frame /\ m.from = p /\ m.n = said[p] + 1 /\ m.n \in Nat /\ m.n > 0
    BY <1>1, <1>2, <1>3 DEF Frame
  <1> HIDE DEF m
  <1>6. \A r \in Frame : r.n \in Nat
    BY Sizes DEF Frame
  <1>7. \A i \in DOMAIN wire : wire[i].from = p => wire[i].n < m.n
    <2> SUFFICES ASSUME NEW i \in DOMAIN wire, wire[i].from = p PROVE wire[i].n < m.n
      OBVIOUS
    <2>1. wire[i].n \in W!InQueue(wire, p)
      BY NumbersIn
    <2>2. wire[i].n \in 0 .. said[p]
      BY <2>1 DEF WInv, WOrder
    <2> QED BY <1>3, <1>5, <2>2
  <1>8. /\ wire' \in Seq(Frame) /\ Ordered(wire')
        /\ \A q : W!InQueue(wire', q) = W!InQueue(wire, q) \cup (IF p = q THEN {m.n} ELSE {})
    BY <1>1, <1>2, <1>5, <1>6, <1>7, AppendedTo
  <1>9. WFields' /\ WSlots' /\ WWaits'
    <2>1. WFields'
      BY <1>1, <1>8 DEF WInv, WFields
    <2>2. WSlots'
      BY <1>1 DEF WInv, WSlots
    <2>3. WWaits'
      BY <1>1 DEF WInv, WWaits, HasSlot
    <2> QED BY <2>1, <2>2, <2>3
  <1>10. \A q : W!Heard(q)' = W!Heard(q) /\ InBoth(q)' = InBoth(q)
               /\ W!InQueue(wire, q)' = W!InQueue(wire', q) /\ HasSlot(q)' = HasSlot(q)
    BY <1>1 DEF W!Heard, InBoth, W!InQueue, HasSlot
  <1>11. WOrder'
    <2>1. Ordered(private)' /\ Ordered(pending)' /\ Ordered(wire)'
      BY <1>1, <1>8 DEF WInv, WOrder, Ordered
    <2>2. ASSUME NEW q \in Player
          PROVE  /\ Below(W!Heard(q), InBoth(q)) /\ Below(W!Heard(q), W!InQueue(wire', q))
                 /\ Below(InBoth(q), W!InQueue(wire', q))
                 /\ InBoth(q) \cup W!InQueue(wire', q) \subseteq 0 .. said'[q]
      <3>1. /\ Below(W!Heard(q), InBoth(q)) /\ Below(W!Heard(q), W!InQueue(wire, q))
            /\ Below(InBoth(q), W!InQueue(wire, q))
            /\ InBoth(q) \cup W!InQueue(wire, q) \subseteq 0 .. said[q]
        BY DEF WInv, WOrder
      <3>2. CASE q # p
        BY <1>4, <1>8, <3>1, <3>2
      <3>3. CASE q = p
        <4>1. W!InQueue(wire', p) = W!InQueue(wire, p) \cup {m.n}
          BY <1>8
        <4>2. W!Heard(p) \subseteq 0 .. said[p]
          BY <1>3 DEF WInv, HeardInOrder, W!Heard
        <4>3. \A k \in 0 .. said[p] : k < m.n /\ k \in 0 .. said'[p]
          BY <1>3, <1>4, <1>5
        <4>4. m.n \in 0 .. said'[p]
          BY <1>4, <1>5
        <4>5. Below(W!Heard(p), W!InQueue(wire', p)) /\ Below(InBoth(p), W!InQueue(wire', p))
          BY <3>1, <3>3, <4>1, <4>2, <4>3 DEF Below
        <4>6. InBoth(p) \cup W!InQueue(wire', p) \subseteq 0 .. said'[p]
          BY <3>1, <3>3, <4>1, <4>3, <4>4
        <4> QED BY <3>1, <3>3, <4>5, <4>6
      <3> QED BY <3>2, <3>3
    <2> QED BY <1>10, <2>1, <2>2, Zenon DEF WOrder
  <1>12. WKept'
    <2> SUFFICES ASSUME NEW q \in Player \ excused
                 PROVE  /\ begun => HasSlot(q)
                        /\ 1 .. said'[q] \subseteq W!Heard(q) \cup InBoth(q) \cup W!InQueue(wire', q)
      BY <1>1, <1>10 DEF WKept
    <2>1. /\ begun => HasSlot(q)
          /\ 1 .. said[q] \subseteq W!Heard(q) \cup InBoth(q) \cup W!InQueue(wire, q)
      BY DEF WInv, WKept
    <2>2. \A k \in 1 .. said'[q] : k \in 1 .. said[q] \/ (p = q /\ k = m.n)
      BY <1>3, <1>4, <1>5
    <2> QED BY <1>8, <2>1, <2>2
  <1>13. AddsOne(p)
    BY <1>1, <1>5, <1>8, <1>10 DEF AddsOne, Waiting
  <1> QED BY <1>3, <1>9, <1>11, <1>12, <1>13 DEF WInv

LEMMA WLeaveKeeps == ASSUME WInv, NEW p \in Player, W!Leave(p) PROVE WInv' /\ NoneMore
  <1> DEFINE m == [from |-> p, n |-> 0]
  <1>1. /\ seated' = seated \ {p} /\ wire' = Append(wire, m)
        /\ UNCHANGED <<link, begun, wconns, private, pending, said, heard, excused>>
    BY DEF W!Leave, W!manager
  <1>2. wire \in Seq(Frame) /\ Ordered(wire) /\ seated \subseteq Player
    BY DEF WInv, WFields, WOrder
  <1>5. m \in Frame /\ m.from = p /\ m.n = 0
    BY Sizes DEF Frame
  <1> HIDE DEF m
  <1>6. \A r \in Frame : r.n \in Nat
    BY Sizes DEF Frame
  <1>8. /\ wire' \in Seq(Frame) /\ Ordered(wire')
        /\ \A q : W!InQueue(wire', q) = W!InQueue(wire, q) \cup (IF p = q THEN {0} ELSE {})
    BY <1>1, <1>2, <1>5, <1>6, AppendedTo
  <1>9. WFields' /\ WSlots' /\ WWaits' /\ Shared' /\ HeardInOrder'
    <2>1. WFields'
      BY <1>1, <1>2, <1>8 DEF WInv, WFields
    <2>2. WSlots'
      BY <1>1 DEF WInv, WSlots
    <2>3. WWaits'
      BY <1>1 DEF WInv, WWaits, HasSlot
    <2>4. Shared' /\ HeardInOrder'
      BY <1>1 DEF WInv, Shared, HeardInOrder
    <2> QED BY <2>1, <2>2, <2>3, <2>4
  <1>10. \A q : W!Heard(q)' = W!Heard(q) /\ InBoth(q)' = InBoth(q)
               /\ W!InQueue(wire, q)' = W!InQueue(wire', q) /\ HasSlot(q)' = HasSlot(q)
    BY <1>1 DEF W!Heard, InBoth, W!InQueue, HasSlot
  <1>11. WOrder'
    <2>1. Ordered(private)' /\ Ordered(pending)' /\ Ordered(wire)'
      BY <1>1, <1>8 DEF WInv, WOrder, Ordered
    <2>2. ASSUME NEW q \in Player
          PROVE  /\ Below(W!Heard(q), InBoth(q)) /\ Below(W!Heard(q), W!InQueue(wire', q))
                 /\ Below(InBoth(q), W!InQueue(wire', q))
                 /\ InBoth(q) \cup W!InQueue(wire', q) \subseteq 0 .. said'[q]
      <3>1. /\ Below(W!Heard(q), InBoth(q)) /\ Below(W!Heard(q), W!InQueue(wire, q))
            /\ Below(InBoth(q), W!InQueue(wire, q))
            /\ InBoth(q) \cup W!InQueue(wire, q) \subseteq 0 .. said[q]
        BY DEF WInv, WOrder
      <3>2. said'[q] = said[q] /\ 0 \in 0 .. said[q]
        BY <1>1 DEF WInv, Shared
      <3>3. ~ (0 > 0)
        OBVIOUS
      <3>4. \A k \in W!InQueue(wire', q) : k = 0 \/ k \in W!InQueue(wire, q)
        BY <1>8
      <3>5. Below(W!Heard(q), W!InQueue(wire', q)) /\ Below(InBoth(q), W!InQueue(wire', q))
        BY <3>1, <3>3, <3>4, Zenon DEF Below
      <3> QED BY <3>1, <3>2, <3>4, <3>5
    <2> QED BY <1>10, <2>1, <2>2, Zenon DEF WOrder
  <1>12. WKept'
    <2> SUFFICES ASSUME NEW q \in Player \ excused
                 PROVE  /\ begun => HasSlot(q)
                        /\ 1 .. said[q] \subseteq W!Heard(q) \cup InBoth(q) \cup W!InQueue(wire', q)
      BY <1>1, <1>10 DEF WKept
    <2>1. /\ begun => HasSlot(q)
          /\ 1 .. said[q] \subseteq W!Heard(q) \cup InBoth(q) \cup W!InQueue(wire, q)
      BY DEF WInv, WKept
    <2> QED BY <1>8, <2>1
  <1>13. NoneMore
    BY <1>1, <1>8, <1>10 DEF NoneMore, Waiting
  <1> QED BY <1>9, <1>11, <1>12, <1>13 DEF WInv

\* The head of the wire moves to one of the queues, or is given up.
LEMMA WRelayKeeps == ASSUME WInv, W!ServiceRelay PROVE WInv' /\ NoneMore
  <1>1. PICK m : m = Head(wire)
    OBVIOUS
  <1>2. PICK i : i = W!SlotOfCid(wconns, m.from)
    OBVIOUS
  <1> DEFINE b == W!Bound(m, wconns[i].id)
  <1>3. /\ wire # << >> /\ m.n > 0 /\ wire' = Tail(wire)
        /\ \/ i # 0 /\ private' = W!Queued(private, b) /\ pending' = pending
              /\ excused' = IF W!Room(private) THEN excused ELSE excused \cup {m.from}
           \/ i = 0 /\ pending' = W!Queued(pending, m) /\ private' = private
              /\ excused' = IF W!Room(pending) THEN excused ELSE excused \cup {m.from}
        /\ UNCHANGED <<link, begun, wconns, seated, said, heard>>
    BY <1>1, <1>2 DEF W!ServiceRelay
  <1>4. /\ wire \in Seq(Frame) /\ Ordered(wire) /\ private \in Seq(Message) /\ pending \in Seq(Early)
        /\ Ordered(private) /\ Ordered(pending) /\ MaxQueued \in Nat /\ Lot \in Nat
        /\ Len(private) <= MaxQueued /\ Len(pending) <= MaxQueued
        /\ Len(private) \in Nat /\ Len(pending) \in Nat
    BY Sizes DEF WInv, WFields, WOrder
  <1>5. /\ m \in Frame /\ wire' \in Seq(Frame) /\ Ordered(wire')
        /\ \A q : W!InQueue(wire, q) = W!InQueue(wire', q) \cup (IF m.from = q THEN {m.n} ELSE {})
        /\ \A k \in W!InQueue(wire', m.from) : k > 0 => m.n < k
    BY <1>1, <1>3, <1>4, TakenFrom
  <1>6. m.from \in Player /\ m.n \in 1 .. Lot /\ m \in Early
    <2>1. m.from \in Player /\ m.n \in 0 .. Lot /\ m = [from |-> m.from, n |-> m.n]
      BY <1>5 DEF Frame
    <2>2. m.n \in 1 .. Lot
      BY <1>3, <1>4, <2>1
    <2> QED BY <2>1, <2>2 DEF Early
  <1>7. PICK p \in Player : p = m.from
    BY <1>6
  <1>8. /\ \A q \in Player : /\ Below(W!Heard(q), InBoth(q)) /\ Below(W!Heard(q), W!InQueue(wire, q))
                             /\ Below(InBoth(q), W!InQueue(wire, q))
                             /\ InBoth(q) \cup W!InQueue(wire, q) \subseteq 0 .. said[q]
    BY DEF WInv, WOrder
  <1>9. m.n \in W!InQueue(wire, p) /\ m.n \in 0 .. said[p]
    <2>1. m.n \in W!InQueue(wire, p)
      BY <1>5, <1>7
    <2> QED BY <1>8, <2>1
  <1>10. \A k \in InBoth(p) : k > 0 => k < m.n
    BY <1>3, <1>8, <1>9 DEF Below
  <1>11. excused' \subseteq Player /\ excused \subseteq excused' /\ excused' \subseteq excused \cup {p}
    BY <1>3, <1>7 DEF WInv, Shared
  <1>12. /\ Shared' /\ HeardInOrder' /\ WSlots'
         /\ \A q : HasSlot(q)' = HasSlot(q) /\ W!Heard(q)' = W!Heard(q)
    BY <1>3, <1>11 DEF WInv, Shared, HeardInOrder, WSlots, HasSlot, W!Heard
  \* What each case is shown to do.
  <1> DEFINE Moved(added) ==
        /\ private' \in Seq(Message) /\ pending' \in Seq(Early)
        /\ Len(private') <= MaxQueued /\ Len(pending') <= MaxQueued
        /\ Ordered(private') /\ Ordered(pending') /\ WWaits'
        /\ \A q : InBoth(q)' = InBoth(q) \cup (IF added /\ q = p THEN {m.n} ELSE {})
        /\ added \/ p \in excused'
  <1>13. ASSUME NEW added \in BOOLEAN, Moved(added) PROVE WInv' /\ NoneMore
    <2>1. WFields'
      BY <1>3, <1>5, <1>13 DEF WInv, WFields
    <2>2. \A q : W!InQueue(wire, q)' = W!InQueue(wire', q)
      BY DEF W!InQueue
    <2>3. \A q : InBoth(q)' = InBoth(q) \cup (IF added /\ q = p THEN {m.n} ELSE {})
      BY <1>13
    <2>4. ASSUME NEW q \in Player
          PROVE  /\ Below(W!Heard(q), InBoth(q)') /\ Below(W!Heard(q), W!InQueue(wire', q))
                 /\ Below(InBoth(q)', W!InQueue(wire', q))
                 /\ InBoth(q)' \cup W!InQueue(wire', q) \subseteq 0 .. said[q]
      <3>1. W!InQueue(wire', q) \subseteq W!InQueue(wire, q)
        BY <1>5
      <3>2. /\ Below(W!Heard(q), InBoth(q)) /\ Below(W!Heard(q), W!InQueue(wire, q))
            /\ Below(InBoth(q), W!InQueue(wire, q))
            /\ InBoth(q) \cup W!InQueue(wire, q) \subseteq 0 .. said[q]
        BY <1>8
      <3>3. \A k \in InBoth(q)' : k \in InBoth(q) \/ (q = p /\ k = m.n)
        BY <2>3
      <3>4. q = p => \A k \in W!InQueue(wire', q) : k > 0 => m.n < k
        BY <1>5, <1>7
      <3>5. q = p => m.n \in W!InQueue(wire, q) /\ m.n \in 0 .. said[q]
        BY <1>9
      <3>6. Below(W!Heard(q), InBoth(q)')
        BY <3>2, <3>3, <3>5 DEF Below
      <3>7. Below(W!Heard(q), W!InQueue(wire', q))
        BY <3>1, <3>2 DEF Below
      <3>8. Below(InBoth(q)', W!InQueue(wire', q))
        BY <3>1, <3>2, <3>3, <3>4 DEF Below
      <3>9. InBoth(q)' \cup W!InQueue(wire', q) \subseteq 0 .. said[q]
        BY <3>1, <3>2, <3>3, <3>5
      <3> QED BY <3>6, <3>7, <3>8, <3>9
    <2>5. WOrder'
      <3>1. Ordered(private)' /\ Ordered(pending)' /\ Ordered(wire)'
        BY <1>5, <1>13 DEF Ordered
      <3>2. said' = said
        BY <1>3
      <3> QED BY <1>12, <2>2, <2>4, <3>1, <3>2, Zenon DEF WOrder
    <2>6. WKept'
      <3> SUFFICES ASSUME NEW q \in Player \ excused'
                   PROVE  /\ begun => HasSlot(q)
                          /\ 1 .. said[q] \subseteq W!Heard(q) \cup InBoth(q)' \cup W!InQueue(wire', q)
        BY <1>3, <1>12, <2>2 DEF WKept
      <3>1. /\ begun => HasSlot(q)
            /\ 1 .. said[q] \subseteq W!Heard(q) \cup InBoth(q) \cup W!InQueue(wire, q)
        BY <1>11 DEF WInv, WKept
      <3>2. q = p => added
        BY <1>13
      <3>3. \A k \in W!InQueue(wire, q) : k \in W!InQueue(wire', q) \/ (q = p /\ k = m.n)
        BY <1>5, <1>7
      <3> QED BY <2>3, <3>1, <3>2, <3>3
    <2>7. NoneMore
      <3>1. \A q : W!InQueue(wire', q) \subseteq W!InQueue(wire, q)
        BY <1>5
      <3> QED BY <1>3, <1>9, <1>12, <2>2, <2>3, <3>1 DEF NoneMore, Waiting
    <2> QED BY <1>12, <1>13, <2>1, <2>5, <2>6, <2>7 DEF WInv
  <1>14. CASE i = 0
    <2>1. /\ pending' = W!Queued(pending, m) /\ private' = private
          /\ excused' = IF W!Room(pending) THEN excused ELSE excused \cup {p}
      BY <1>3, <1>7, <1>14
    <2>2. ~HasSlot(p)
      <3>1. WFields /\ WSlots
        BY DEF WInv
      <3> QED BY <1>2, <1>7, <1>14, <3>1, SlotOfClient
    <2>3. CASE ~W!Room(pending)
      <3>1. pending' = pending /\ p \in excused'
        BY <2>1, <2>3 DEF W!Queued
      <3>2. \A q : InBoth(q)' = InBoth(q)
        BY <2>1, <3>1 DEF InBoth, W!InQueue
      <3>3. WWaits'
        BY <1>3, <2>1, <3>1 DEF WInv, WWaits, HasSlot
      <3>4. Moved(FALSE)
        BY <1>4, <2>1, <3>1, <3>2, <3>3
      <3> HIDE DEF Moved
      <3> QED BY <1>13, <3>4
    <2>4. CASE W!Room(pending)
      <3>1. pending' = Append(pending, m) /\ Len(pending) < MaxQueued
        BY <2>1, <2>4 DEF W!Queued, W!Room
      <3>2. \A j \in DOMAIN pending : pending[j].from = m.from /\ pending[j].n > 0 => pending[j].n < m.n
        <4> SUFFICES ASSUME NEW j \in DOMAIN pending, pending[j].from = p, pending[j].n > 0
                     PROVE  pending[j].n < m.n
          BY <1>7
        <4>1. pending[j].n \in InBoth(p)
          BY NumbersIn DEF InBoth
        <4> QED BY <1>10, <4>1
      <3>3. \A r \in Early : r.n \in Nat
        BY Sizes DEF Early
      <3>4. /\ pending' \in Seq(Early) /\ Len(pending') = Len(pending) + 1 /\ Ordered(pending')
            /\ \A q : W!InQueue(pending', q) = W!InQueue(pending, q) \cup (IF m.from = q THEN {m.n} ELSE {})
            /\ \A j \in DOMAIN pending' : pending'[j] = m \/ \E l \in DOMAIN pending : pending'[j] = pending[l]
        BY <1>4, <1>6, <3>1, <3>2, <3>3, AppendedTo
      <3>5. WWaits'
        <4>1. \A j \in DOMAIN pending' : ~HasSlot(pending'[j].from)
          BY <1>7, <2>2, <3>4 DEF WInv, WWaits
        <4> QED BY <1>3, <1>12, <2>1, <4>1 DEF WInv, WWaits
      <3>6. \A q : InBoth(q)' = InBoth(q) \cup (IF q = p THEN {m.n} ELSE {})
        <4>1. \A q : W!InQueue(private, q)' = W!InQueue(private, q) /\ W!InQueue(pending, q)' = W!InQueue(pending', q)
          BY <2>1 DEF W!InQueue
        <4> QED BY <1>7, <3>4, <4>1 DEF InBoth
      <3>7. Len(pending') <= MaxQueued
        BY <1>4, <3>1, <3>4
      <3>8. Moved(TRUE)
        BY <1>4, <2>1, <3>4, <3>5, <3>6, <3>7
      <3> HIDE DEF Moved
      <3> QED BY <1>13, <3>8
    <2> QED BY <2>3, <2>4
  <1>15. CASE i # 0
    <2>1. /\ private' = W!Queued(private, b) /\ pending' = pending
          /\ excused' = IF W!Room(private) THEN excused ELSE excused \cup {p}
      BY <1>3, <1>7, <1>15
    <2>2. i \in W!Slot /\ wconns[i].used /\ wconns[i].cid = p
      <3>1. WFields /\ WSlots
        BY DEF WInv
      <3> QED BY <1>2, <1>7, <1>15, <3>1, SlotOfClient
    <2>3. wconns[i] = [used |-> TRUE, id |-> wconns[i].id, cid |-> p] /\ wconns[i].id \in Nat \ {0}
      <3>1. WFields
        BY DEF WInv
      <3> QED BY <2>2, <3>1, Slots
    <2>4. b = [id |-> wconns[i].id, from |-> p, n |-> m.n]
      BY <1>7 DEF W!Bound
    <2> HIDE DEF b
    <2>5. b \in Message /\ b.from = p /\ b.n = m.n /\ b.id = wconns[i].id
      BY <1>6, <2>3, <2>4 DEF Message
    <2>6. CASE ~W!Room(private)
      <3>1. private' = private /\ p \in excused'
        BY <2>1, <2>6 DEF W!Queued
      <3>2. \A q : InBoth(q)' = InBoth(q)
        BY <2>1, <3>1 DEF InBoth, W!InQueue
      <3>3. WWaits'
        BY <1>3, <2>1, <3>1 DEF WInv, WWaits, HasSlot
      <3>4. Moved(FALSE)
        BY <1>4, <2>1, <3>1, <3>2, <3>3
      <3> HIDE DEF Moved
      <3> QED BY <1>13, <3>4
    <2>7. CASE W!Room(private)
      <3>1. private' = Append(private, b) /\ Len(private) < MaxQueued
        BY <2>1, <2>7 DEF W!Queued, W!Room
      <3>2. \A j \in DOMAIN private : private[j].from = b.from /\ private[j].n > 0 => private[j].n < b.n
        <4> SUFFICES ASSUME NEW j \in DOMAIN private, private[j].from = p, private[j].n > 0
                     PROVE  private[j].n < m.n
          BY <2>5
        <4>1. private[j].n \in InBoth(p)
          BY NumbersIn DEF InBoth
        <4> QED BY <1>10, <4>1
      <3>3. \A r \in Message : r.n \in Nat
        BY Sizes DEF Message
      <3>4. /\ private' \in Seq(Message) /\ Len(private') = Len(private) + 1 /\ Ordered(private')
            /\ \A q : W!InQueue(private', q) = W!InQueue(private, q) \cup (IF b.from = q THEN {b.n} ELSE {})
            /\ \A j \in DOMAIN private' : private'[j] = b \/ \E l \in DOMAIN private : private'[j] = private[l]
        BY <1>4, <2>5, <3>1, <3>2, <3>3, AppendedTo
      <3>5. WWaits'
        <4> SUFFICES ASSUME NEW j \in DOMAIN private'
                     PROVE \E x \in W!Slot : wconns[x] = [used |-> TRUE, id |-> private'[j].id, cid |-> private'[j].from]
          BY <1>3, <1>12, <2>1 DEF WInv, WWaits
        <4>1. CASE private'[j] = b
          BY <2>2, <2>3, <2>5, <4>1
        <4>2. CASE \E l \in DOMAIN private : private'[j] = private[l]
          BY <4>2 DEF WInv, WWaits
        <4> QED BY <3>4, <4>1, <4>2
      <3>6. \A q : InBoth(q)' = InBoth(q) \cup (IF q = p THEN {m.n} ELSE {})
        <4>1. \A q : W!InQueue(private, q)' = W!InQueue(private', q) /\ W!InQueue(pending, q)' = W!InQueue(pending, q)
          BY <2>1 DEF W!InQueue
        <4> QED BY <2>5, <3>4, <4>1 DEF InBoth
      <3>7. Len(private') <= MaxQueued
        BY <1>4, <3>1, <3>4
      <3>8. Moved(TRUE)
        BY <1>4, <2>1, <3>4, <3>5, <3>6, <3>7
      <3> HIDE DEF Moved
      <3> QED BY <1>13, <3>8
    <2> QED BY <2>6, <2>7
  <1> QED BY <1>14, <1>15

\* A packet of a player is read as his.
LEMMA WGetReads ==
  ASSUME WInv, W!Get
  PROVE  /\ private # << >> /\ private' = Tail(private) /\ Head(private) \in Message
         /\ heard' = [heard EXCEPT ![Head(private).from] =
                         Append(@, <<Head(private).from, Head(private).n>>)]
         /\ UNCHANGED <<link, begun, wconns, pending, wire, seated, said, excused>>
  <1>1. PICK m : m = Head(private)
    OBVIOUS
  <1>2. /\ private # << >> /\ private' = Tail(private)
        /\ heard' = [heard EXCEPT ![W!PlayerOf(m.id)] = Append(@, <<m.from, m.n>>)]
        /\ UNCHANGED <<link, begun, wconns, pending, wire, seated, said, excused>>
    BY <1>1 DEF W!Get
  <1>3. m \in Message /\ 1 \in DOMAIN private /\ private[1] = m
    <2>1. private \in Seq(Message)
      BY DEF WInv, WFields
    <2> QED BY <1>1, <1>2, <2>1
  <1>4. PICK j \in W!Slot : wconns[j] = [used |-> TRUE, id |-> m.id, cid |-> m.from]
    BY <1>3 DEF WInv, WWaits
  <1>5. m.id = IdOf[m.from] /\ m.from \in Player
    <2>1. wconns[j].used /\ wconns[j].id = m.id /\ wconns[j].cid = m.from
      BY <1>4
    <2> QED BY <1>3, <2>1 DEF WInv, WSlots, Message
  <1>6. W!PlayerOf(m.id) = m.from
    <2>1. \A q \in Player : IdOf[q] = m.id => q = m.from
      BY <1>5, Sizes
    <2> QED BY <1>5, <2>1 DEF W!PlayerOf
  <1> QED BY <1>1, <1>2, <1>3, <1>6

LEMMA WGetKeeps ==
  ASSUME WInv, W!Get
  PROVE  WInv' /\ \E p \in Player : \E n \in 1 .. said[p] : TakesOne(p, n)
  <1>1. PICK m \in Message : m = Head(private)
    BY WGetReads
  <1>2. PICK p \in Player, n \in 1 .. Lot : p = m.from /\ n = m.n
    BY DEF Message
  <1>3. /\ private # << >> /\ private' = Tail(private)
        /\ heard' = [heard EXCEPT ![p] = Append(@, <<p, n>>)]
        /\ UNCHANGED <<link, begun, wconns, pending, wire, seated, said, excused>>
    BY <1>1, <1>2, WGetReads
  <1>4. /\ private \in Seq(Message) /\ Ordered(private) /\ Len(private) <= MaxQueued /\ MaxQueued \in Nat
        /\ heard \in [Player -> Seq(Player \X Nat)] /\ said \in [Player -> 0 .. Lot] /\ Lot \in Nat
    BY Sizes DEF WInv, WFields, WOrder, Shared
  <1>5. /\ private' \in Seq(Message) /\ Len(private') = Len(private) - 1 /\ Len(private) \in Nat \ {0}
        /\ Ordered(private')
        /\ \A q : W!InQueue(private, q) = W!InQueue(private', q) \cup (IF p = q THEN {n} ELSE {})
        /\ \A k \in W!InQueue(private', p) : n > 0 /\ k > 0 => n < k
        /\ \A i \in DOMAIN private' : \E j \in DOMAIN private : private'[i] = private[j]
        /\ 1 \in DOMAIN private /\ private[1] = m
    BY <1>1, <1>2, <1>3, <1>4, TakenFrom
  <1>6. n \in Nat /\ n > 0 /\ n \in InBoth(p)
    <2>1. n \in W!InQueue(private, p)
      BY <1>5
    <2> QED BY <1>4, <2>1 DEF InBoth
  <1>7. /\ \A q \in Player : /\ Below(W!Heard(q), InBoth(q)) /\ Below(W!Heard(q), W!InQueue(wire, q))
                             /\ Below(InBoth(q), W!InQueue(wire, q))
                             /\ InBoth(q) \cup W!InQueue(wire, q) \subseteq 0 .. said[q]
    BY DEF WInv, WOrder
  <1>8. PICK H \in Nat : H = Len(heard[p]) /\ DOMAIN heard[p] = 1 .. H /\ heard[p] \in Seq(Player \X Nat)
    BY <1>4
  <1>9. /\ heard' \in [Player -> Seq(Player \X Nat)] /\ \A q \in Player \ {p} : heard'[q] = heard[q]
        /\ DOMAIN heard'[p] = 1 .. H + 1 /\ heard'[p][H + 1] = <<p, n>>
        /\ \A i \in 1 .. H : heard'[p][i] = heard[p][i]
    <2>1. /\ Append(heard[p], <<p, n>>) \in Seq(Player \X Nat)
          /\ DOMAIN Append(heard[p], <<p, n>>) = 1 .. H + 1
          /\ Append(heard[p], <<p, n>>)[H + 1] = <<p, n>>
          /\ \A i \in 1 .. H : Append(heard[p], <<p, n>>)[i] = heard[p][i]
      BY <1>6, <1>8
    <2>2. heard' = [heard EXCEPT ![p] = Append(heard[p], <<p, n>>)]
      BY <1>3
    <2> QED BY <1>4, <2>1, <2>2
  <1>10. \A i \in 1 .. H + 1 : i \in 1 .. H \/ i = H + 1
    BY <1>8
  <1>11. H + 1 \in 1 .. H + 1 /\ \A i \in 1 .. H : i \in 1 .. H + 1
    BY <1>8
  <1>12. \A q \in Player : W!Heard(q)' = W!Heard(q) \cup (IF q = p THEN {n} ELSE {})
    <2> TAKE q \in Player
    <2>1. CASE q # p
      BY <1>9, <2>1 DEF W!Heard
    <2>2. CASE q = p
      <3>1. W!Heard(p) = {heard[p][i][2] : i \in 1 .. H}
        BY <1>8 DEF W!Heard
      <3>2. W!Heard(p)' = {heard'[p][i][2] : i \in 1 .. H + 1}
        <4>1. W!Heard(p)' = {heard'[p][i][2] : i \in DOMAIN heard'[p]}
          BY DEF W!Heard
        <4> QED BY <1>9, <4>1
      <3>3. <<p, n>>[2] = n
        OBVIOUS
      <3>4. \A k : k \in W!Heard(p)' <=> \E i \in 1 .. H + 1 : heard'[p][i][2] = k
        BY <3>2
      <3>5. \A k : (\E i \in 1 .. H + 1 : heard'[p][i][2] = k)
                 <=> (\E i \in 1 .. H : heard[p][i][2] = k) \/ k = n
        <4>1. \A i \in 1 .. H : heard'[p][i][2] = heard[p][i][2]
          BY <1>9
        <4>2. heard'[p][H + 1][2] = n
          BY <1>9, <3>3
        <4> QED BY <1>10, <1>11, <4>1, <4>2
      <3> QED BY <2>2, <3>1, <3>4, <3>5
    <2> QED BY <2>1, <2>2
  <1>13. \A i \in 1 .. H : heard[p][i][1] = p /\ heard[p][i][2] \in 1 .. said[p] /\ heard[p][i][2] < n
    <2> TAKE i \in 1 .. H
    <2>1. heard[p][i][1] = p /\ heard[p][i][2] \in 1 .. said[p]
      BY <1>8 DEF WInv, HeardInOrder
    <2>2. heard[p][i][2] \in W!Heard(p)
      BY <1>8 DEF W!Heard
    <2>3. heard[p][i][2] > 0
      BY <1>4, <2>1
    <2> QED BY <1>6, <1>7, <2>1, <2>2, <2>3 DEF Below
  <1>14. n \in 1 .. said[p]
    <2>1. n \in 0 .. said[p]
      BY <1>6, <1>7
    <2>2. said[p] \in Nat
      BY <1>4
    <2> QED BY <1>6, <2>1, <2>2
  <1>15. HeardInOrder'
    <2> SUFFICES ASSUME NEW q \in Player
                 PROVE /\ \A i \in DOMAIN heard'[q] : heard'[q][i][1] = q /\ heard'[q][i][2] \in 1 .. said[q]
                       /\ \A i, j \in DOMAIN heard'[q] : i < j => heard'[q][i][2] < heard'[q][j][2]
      BY <1>3 DEF HeardInOrder
    <2>1. CASE q # p
      BY <1>9, <2>1 DEF WInv, HeardInOrder
    <2>2. CASE q = p
      <3>1. <<p, n>>[1] = p /\ <<p, n>>[2] = n
        OBVIOUS
      <3>2. \A i \in 1 .. H + 1 : heard'[p][i][1] = p /\ heard'[p][i][2] \in 1 .. said[p]
        BY <1>9, <1>10, <1>13, <1>14, <3>1
      <3>3. ASSUME NEW i \in 1 .. H + 1, NEW j \in 1 .. H + 1, i < j
            PROVE  heard'[p][i][2] < heard'[p][j][2]
        <4>1. i \in 1 .. H
          BY <1>8, <3>3
        <4>2. heard'[p][i] = heard[p][i]
          BY <1>9, <4>1
        <4>3. CASE j = H + 1
          BY <1>9, <1>13, <3>1, <4>1, <4>2, <4>3
        <4>4. CASE j # H + 1
          <5>1. j \in 1 .. H
            BY <1>10, <4>4
          <5>2. heard'[p][j] = heard[p][j]
            BY <1>9, <5>1
          <5> QED BY <1>8, <3>3, <4>1, <4>2, <5>1, <5>2 DEF WInv, HeardInOrder
        <4> QED BY <4>3, <4>4
      <3> QED BY <1>9, <2>2, <3>2, <3>3
    <2> QED BY <2>1, <2>2
  <1>16. Shared'
    BY <1>3, <1>9 DEF WInv, Shared
  <1>17. WFields'
    <2>1. Len(private') <= MaxQueued
      BY <1>4, <1>5
    <2> QED BY <1>3, <1>5, <2>1 DEF WInv, WFields
  <1>18. WSlots' /\ \A q : HasSlot(q)' = HasSlot(q)
    BY <1>3 DEF WInv, WSlots, HasSlot
  <1>19. WWaits'
    <2>1. \A i \in DOMAIN private' : \E j \in W!Slot :
             wconns[j] = [used |-> TRUE, id |-> private'[i].id, cid |-> private'[i].from]
      BY <1>5 DEF WInv, WWaits
    <2> QED BY <1>3, <1>18, <2>1 DEF WInv, WWaits
  <1>20. \A q : W!InQueue(wire, q)' = W!InQueue(wire, q)
                /\ InBoth(q) = InBoth(q)' \cup (IF q = p THEN {n} ELSE {})
    <2>1. \A q : W!InQueue(wire, q)' = W!InQueue(wire, q) /\ W!InQueue(pending, q)' = W!InQueue(pending, q)
                 /\ W!InQueue(private, q)' = W!InQueue(private', q)
      BY <1>3 DEF W!InQueue
    <2> QED BY <1>5, <2>1 DEF InBoth
  <1>21. ~HasSlot(p) => FALSE
    <2>1. PICK j \in W!Slot : wconns[j] = [used |-> TRUE, id |-> m.id, cid |-> m.from]
      BY <1>5 DEF WInv, WWaits
    <2> QED BY <1>2, <2>1 DEF HasSlot
  <1>22. \A k \in InBoth(p)' : k > 0 => n < k
    <2>1. W!InQueue(pending, p) = {}
      BY <1>21, NumbersIn DEF WInv, WWaits
    <2>2. InBoth(p)' = W!InQueue(private', p)
      <3>1. W!InQueue(pending, p)' = W!InQueue(pending, p) /\ W!InQueue(private, p)' = W!InQueue(private', p)
        BY <1>3 DEF W!InQueue
      <3> QED BY <2>1, <3>1 DEF InBoth
    <2> QED BY <1>5, <1>6, <2>2
  <1>23. WOrder'
    <2>1. ASSUME NEW q \in Player
          PROVE  /\ Below(W!Heard(q)', InBoth(q)') /\ Below(W!Heard(q)', W!InQueue(wire, q))
                 /\ Below(InBoth(q)', W!InQueue(wire, q))
                 /\ InBoth(q)' \cup W!InQueue(wire, q) \subseteq 0 .. said[q]
      <3>1. /\ Below(W!Heard(q), InBoth(q)) /\ Below(W!Heard(q), W!InQueue(wire, q))
            /\ Below(InBoth(q), W!InQueue(wire, q))
            /\ InBoth(q) \cup W!InQueue(wire, q) \subseteq 0 .. said[q]
        BY <1>7
      <3>2. InBoth(q)' \subseteq InBoth(q)
        BY <1>20
      <3>3. \A k \in W!Heard(q)' : k \in W!Heard(q) \/ (q = p /\ k = n)
        BY <1>12
      <3>4. q = p => n \in InBoth(q) /\ \A k \in InBoth(q)' : k > 0 => n < k
        BY <1>6, <1>22
      <3>5. Below(W!Heard(q)', InBoth(q)')
        BY <3>1, <3>2, <3>3, <3>4 DEF Below
      <3>6. Below(W!Heard(q)', W!InQueue(wire, q))
        BY <3>1, <3>3, <3>4 DEF Below
      <3>7. Below(InBoth(q)', W!InQueue(wire, q))
        BY <3>1, <3>2 DEF Below
      <3> QED BY <3>1, <3>2, <3>5, <3>6, <3>7
    <2>2. Ordered(private)' /\ Ordered(pending)' /\ Ordered(wire)'
      BY <1>3, <1>5 DEF WInv, WOrder, Ordered
    <2>3. said' = said
      BY <1>3
    <2> QED BY <1>20, <2>1, <2>2, <2>3, Zenon DEF WOrder
  <1>24. WKept'
    <2> SUFFICES ASSUME NEW q \in Player \ excused
                 PROVE  /\ begun => HasSlot(q)
                        /\ 1 .. said[q] \subseteq W!Heard(q)' \cup InBoth(q)' \cup W!InQueue(wire, q)
      BY <1>3, <1>18, <1>20 DEF WKept
    <2>1. /\ begun => HasSlot(q)
          /\ 1 .. said[q] \subseteq W!Heard(q) \cup InBoth(q) \cup W!InQueue(wire, q)
      BY DEF WInv, WKept
    <2>2. InBoth(q) = InBoth(q)' \cup (IF q = p THEN {n} ELSE {})
      BY <1>20
    <2>3. W!Heard(q)' = W!Heard(q) \cup (IF q = p THEN {n} ELSE {})
      BY <1>12
    <2> QED BY <2>1, <2>2, <2>3
  <1>25. TakesOne(p, n)
    <2>1. n \notin W!Heard(p)
      BY <1>6, <1>7 DEF Below
    <2>2. ASSUME NEW k \in Waiting(p), k > 0 PROVE n <= k
      <3>1. CASE k \in InBoth(p)
        <4>1. k = n \/ k \in InBoth(p)'
          BY <1>20, <3>1
        <4>2. k \in Nat
          BY <1>4, <1>7, <3>1
        <4> QED BY <1>6, <1>22, <2>2, <4>1, <4>2
      <3>2. CASE k \in W!InQueue(wire, p)
        <4>1. k \in Nat
          BY <1>4, <1>7, <3>2
        <4>2. n < k
          BY <1>6, <1>7, <2>2, <3>2 DEF Below
        <4> QED BY <1>6, <4>1, <4>2
      <3> QED BY <2>2, <3>1, <3>2 DEF Waiting
    <2>3. \A q \in Player : Waiting(q) = Waiting(q)' \cup (IF q = p THEN {n} ELSE {})
      BY <1>20 DEF Waiting
    <2> QED BY <1>3, <1>12, <1>18, <1>21, <2>1, <2>2, <2>3 DEF TakesOne
  <1>26. WInv'
    BY <1>15, <1>16, <1>17, <1>18, <1>19, <1>23, <1>24 DEF WInv
  <1> QED BY <1>14, <1>25, <1>26

\* Clients in P are gone: their slots are freed and what waits of theirs is
\* dropped, and nothing of anybody else.
LEMMA WGone ==
  ASSUME WInv, NEW P \in SUBSET Player,
         link' \in BOOLEAN, UNCHANGED <<begun, said, heard, seated>>, excused' = excused \cup P,
         DOMAIN wconns' = W!Slot, wconns' = [i \in W!Slot |-> wconns'[i]],
         \A i \in W!Slot : wconns'[i] = wconns[i] \/ wconns'[i] = W!Free,
         \A i \in W!Slot : wconns[i].used /\ wconns[i].cid \notin P => wconns'[i] = wconns[i],
         private' \in Seq(Message), pending' \in Seq(Early), wire' \in Seq(Frame),
         Len(private') <= MaxQueued, Len(pending') <= MaxQueued,
         Ordered(private'), Ordered(pending'), Ordered(wire'),
         \A i \in DOMAIN private' : \E j \in DOMAIN private : private'[i] = private[j],
         \A i \in DOMAIN pending' : \E j \in DOMAIN pending : pending'[i] = pending[j],
         \A i \in DOMAIN wire' : \E j \in DOMAIN wire : wire'[i] = wire[j],
         \A j \in DOMAIN private : private[j].from \notin P => \E i \in DOMAIN private' : private'[i] = private[j],
         \A j \in DOMAIN pending : pending[j].from \notin P => \E i \in DOMAIN pending' : pending'[i] = pending[j],
         \A j \in DOMAIN wire : wire[j].from \notin P => \E i \in DOMAIN wire' : wire'[i] = wire[j],
         \A i \in DOMAIN private' : \A j \in W!Slot :
            wconns[j] = [used |-> TRUE, id |-> private'[i].id, cid |-> private'[i].from] => wconns'[j] = wconns[j]
  PROVE  WInv' /\ NoneMore
  <1>1. W!Free.used = FALSE
    BY DEF W!Free
  <1>2. WFields'
    <2>1. wconns' \in [W!Slot -> Connection]
      <3>1. \A i \in W!Slot : wconns'[i] \in Connection
        BY DEF WInv, WFields, Connection
      <3> QED BY <3>1, Zenon
    <2>2. seated' \subseteq Player
      BY DEF WInv, WFields
    <2> QED BY <2>1, <2>2 DEF WFields
  <1>3. \A i \in W!Slot : wconns'[i].used => wconns[i].used /\ wconns'[i] = wconns[i]
    BY <1>1, Zenon
  <1>4. WSlots'
    BY <1>3 DEF WInv, WSlots
  <1>5. \A q : HasSlot(q)' => HasSlot(q)
    BY <1>3 DEF HasSlot
  <1>6. \A q \in Player \ P : HasSlot(q) => HasSlot(q)'
    BY DEF HasSlot
  <1>7. WWaits'
    <2>1. ASSUME NEW i \in DOMAIN private'
          PROVE  \E j \in W!Slot : wconns'[j] = [used |-> TRUE, id |-> private'[i].id, cid |-> private'[i].from]
      <3>1. PICK l \in DOMAIN private : private'[i] = private[l]
        BY <2>1
      <3>2. PICK j \in W!Slot : wconns[j] = [used |-> TRUE, id |-> private[l].id, cid |-> private[l].from]
        BY DEF WInv, WWaits
      <3> QED BY <3>1, <3>2
    <2>2. ASSUME NEW i \in DOMAIN pending', NEW k \in W!Slot, wconns'[k].used, wconns'[k].cid = pending'[i].from
          PROVE  FALSE
      <3>1. PICK j \in DOMAIN pending : pending'[i] = pending[j]
        BY <2>2
      <3>2. wconns[k].used /\ wconns[k].cid = pending[j].from
        BY <1>3, <2>2, <3>1
      <3> QED BY <3>2 DEF WInv, WWaits, HasSlot
    <2> QED BY <2>1, <2>2, Zenon DEF WWaits, HasSlot
  <1>8. /\ \A q : W!InQueue(private, q)' = W!InQueue(private', q)
        /\ \A q : W!InQueue(pending, q)' = W!InQueue(pending', q)
        /\ \A q : W!InQueue(wire, q)' = W!InQueue(wire', q)
    BY DEF W!InQueue
  <1>9. /\ \A q : W!InQueue(private', q) \subseteq W!InQueue(private, q)
        /\ \A q : W!InQueue(pending', q) \subseteq W!InQueue(pending, q)
        /\ \A q : W!InQueue(wire', q) \subseteq W!InQueue(wire, q)
    <2>1. \A q : W!InQueue(private', q) \subseteq W!InQueue(private, q)
      BY NumbersIn
    <2>2. \A q : W!InQueue(pending', q) \subseteq W!InQueue(pending, q)
      BY NumbersIn
    <2>3. \A q : W!InQueue(wire', q) \subseteq W!InQueue(wire, q)
      BY NumbersIn
    <2> QED BY <2>1, <2>2, <2>3
  <1>10. /\ \A q : q \notin P => W!InQueue(private, q) \subseteq W!InQueue(private', q)
         /\ \A q : q \notin P => W!InQueue(pending, q) \subseteq W!InQueue(pending', q)
         /\ \A q : q \notin P => W!InQueue(wire, q) \subseteq W!InQueue(wire', q)
    <2>1. \A q : q \notin P => W!InQueue(private, q) \subseteq W!InQueue(private', q)
      BY NumbersIn
    <2>2. \A q : q \notin P => W!InQueue(pending, q) \subseteq W!InQueue(pending', q)
      BY NumbersIn
    <2>3. \A q : q \notin P => W!InQueue(wire, q) \subseteq W!InQueue(wire', q)
      BY NumbersIn
    <2> QED BY <2>1, <2>2, <2>3
  <1>11. \A q : InBoth(q)' \subseteq InBoth(q) /\ (q \notin P => InBoth(q) \subseteq InBoth(q)')
    BY <1>8, <1>9, <1>10 DEF InBoth
  <1>12. \A q : W!Heard(q)' = W!Heard(q)
    BY DEF W!Heard
  <1>13. WOrder'
    <2>1. ASSUME NEW q \in Player
          PROVE  /\ Below(W!Heard(q), InBoth(q)') /\ Below(W!Heard(q), W!InQueue(wire', q))
                 /\ Below(InBoth(q)', W!InQueue(wire', q))
                 /\ InBoth(q)' \cup W!InQueue(wire', q) \subseteq 0 .. said[q]
      <3>1. /\ Below(W!Heard(q), InBoth(q)) /\ Below(W!Heard(q), W!InQueue(wire, q))
            /\ Below(InBoth(q), W!InQueue(wire, q))
            /\ InBoth(q) \cup W!InQueue(wire, q) \subseteq 0 .. said[q]
        BY DEF WInv, WOrder
      <3>2. InBoth(q)' \subseteq InBoth(q) /\ W!InQueue(wire', q) \subseteq W!InQueue(wire, q)
        BY <1>9, <1>11
      <3>3. Below(W!Heard(q), InBoth(q)') /\ Below(W!Heard(q), W!InQueue(wire', q))
            /\ Below(InBoth(q)', W!InQueue(wire', q))
        BY <3>1, <3>2, Zenon DEF Below
      <3> QED BY <3>1, <3>2, <3>3
    <2>2. Ordered(private)' /\ Ordered(pending)' /\ Ordered(wire)'
      BY DEF Ordered
    <2>3. said' = said
      OBVIOUS
    <2> QED BY <1>8, <1>12, <2>1, <2>2, <2>3, Zenon DEF WOrder
  <1>14. WKept'
    <2> SUFFICES ASSUME NEW q \in Player \ excused, q \notin P
                 PROVE  /\ begun => HasSlot(q)'
                        /\ 1 .. said[q] \subseteq W!Heard(q) \cup InBoth(q)' \cup W!InQueue(wire', q)
      BY <1>8, <1>12 DEF WKept
    <2>1. /\ begun => HasSlot(q)
          /\ 1 .. said[q] \subseteq W!Heard(q) \cup InBoth(q) \cup W!InQueue(wire, q)
      BY DEF WInv, WKept
    <2>2. InBoth(q) \subseteq InBoth(q)' /\ W!InQueue(wire, q) \subseteq W!InQueue(wire', q)
      BY <1>10, <1>11
    <2> QED BY <1>6, <2>1, <2>2
  <1>15. Shared' /\ HeardInOrder'
    BY DEF WInv, Shared, HeardInOrder
  <1>16. NoneMore
    BY <1>5, <1>8, <1>9, <1>11 DEF NoneMore, Waiting
  <1> QED BY <1>2, <1>4, <1>7, <1>13, <1>14, <1>15, <1>16 DEF WInv

LEMMA PendingPurged ==
  ASSUME NEW q \in Seq(Early), Ordered(q), NEW p
  PROVE  LET t == W!Purge_Pending_Private_For_Cid(q, p) IN
         /\ t \in Seq(Early) /\ Len(t) <= Len(q) /\ Len(t) \in Nat /\ Len(q) \in Nat /\ Ordered(t)
         /\ \A i \in DOMAIN t : \E j \in DOMAIN q : q[j].from # p /\ t[i] = q[j]
         /\ \A j \in DOMAIN q : q[j].from # p => \E i \in DOMAIN t : t[i] = q[j]
  <1>1. PICK K : K = {i \in DOMAIN q : q[i].from # p}
    OBVIOUS
  <1> DEFINE t == W!Purge_Pending_Private_For_Cid(q, p)
  <1>2. t = W!Only(q, K)
    BY <1>1 DEF W!Purge_Pending_Private_For_Cid
  <1> HIDE DEF t
  <1>4. /\ t \in Seq(Early) /\ Len(t) <= Len(q) /\ Ordered(t)
        /\ \A i \in DOMAIN t : \E k \in DOMAIN q : k \in K /\ t[i] = q[k]
        /\ \A k \in DOMAIN q : k \in K => \E i \in DOMAIN t : t[i] = q[k]
    BY <1>2, OnlyKeeps
  <1>5. Len(t) \in Nat /\ Len(q) \in Nat
    BY <1>4
  <1>6. /\ \A i \in DOMAIN t : \E j \in DOMAIN q : q[j].from # p /\ t[i] = q[j]
        /\ \A j \in DOMAIN q : q[j].from # p => \E i \in DOMAIN t : t[i] = q[j]
    BY <1>1, <1>4
  <1> QED BY <1>4, <1>5, <1>6 DEF t

LEMMA PrivatePurged ==
  ASSUME NEW q \in Seq(Message), Ordered(q), NEW id
  PROVE  LET t == W!Purge_Private_For_Connection(q, id) IN
         /\ t \in Seq(Message) /\ Len(t) <= Len(q) /\ Len(t) \in Nat /\ Len(q) \in Nat /\ Ordered(t)
         /\ \A i \in DOMAIN t : \E j \in DOMAIN q : q[j].id # id /\ t[i] = q[j]
         /\ \A j \in DOMAIN q : q[j].id # id => \E i \in DOMAIN t : t[i] = q[j]
  <1>1. PICK K : K = {i \in DOMAIN q : q[i].id # id}
    OBVIOUS
  <1> DEFINE t == W!Purge_Private_For_Connection(q, id)
  <1>2. t = W!Only(q, K)
    BY <1>1 DEF W!Purge_Private_For_Connection
  <1> HIDE DEF t
  <1>4. /\ t \in Seq(Message) /\ Len(t) <= Len(q) /\ Ordered(t)
        /\ \A i \in DOMAIN t : \E k \in DOMAIN q : k \in K /\ t[i] = q[k]
        /\ \A k \in DOMAIN q : k \in K => \E i \in DOMAIN t : t[i] = q[k]
    BY <1>2, OnlyKeeps
  <1>5. Len(t) \in Nat /\ Len(q) \in Nat
    BY <1>4
  <1>6. /\ \A i \in DOMAIN t : \E j \in DOMAIN q : q[j].id # id /\ t[i] = q[j]
        /\ \A j \in DOMAIN q : q[j].id # id => \E i \in DOMAIN t : t[i] = q[j]
    BY <1>1, <1>4
  <1> QED BY <1>4, <1>5, <1>6 DEF t

\* Delete_Connection: the slot is freed, and the queues are purged.
LEMMA WDropped ==
  ASSUME WInv, NEW p \in Player, NEW i \in W!Slot, wconns[i].used, wconns[i].cid = p,
         UNCHANGED <<link, begun, said, heard, seated>>, excused' = excused \cup {p},
         wconns' = [wconns EXCEPT ![i] = W!Free],
         private' = W!Purge_Private_For_Connection(private, wconns[i].id),
         pending' \in Seq(Early), wire' \in Seq(Frame), Len(pending') <= MaxQueued,
         Ordered(pending'), Ordered(wire'),
         \A k \in DOMAIN pending' : \E j \in DOMAIN pending : pending'[k] = pending[j],
         \A j \in DOMAIN pending : pending[j].from # p => \E k \in DOMAIN pending' : pending'[k] = pending[j],
         \A k \in DOMAIN wire' : \E j \in DOMAIN wire : wire'[k] = wire[j],
         \A j \in DOMAIN wire : wire[j].from # p => \E k \in DOMAIN wire' : wire'[k] = wire[j]
  PROVE  WInv' /\ NoneMore
  <1>1. WFields /\ WSlots /\ WWaits /\ Ordered(private) /\ MaxQueued \in Nat
    BY Sizes DEF WInv, WOrder
  <1>2. wconns[i].id = IdOf[p]
    BY <1>1 DEF WSlots
  <1>3. /\ private' \in Seq(Message) /\ Len(private') <= Len(private) /\ Len(private') \in Nat
        /\ Len(private) \in Nat /\ Ordered(private')
        /\ \A k \in DOMAIN private' : \E j \in DOMAIN private : private[j].id # IdOf[p] /\ private'[k] = private[j]
        /\ \A j \in DOMAIN private : private[j].id # IdOf[p] => \E k \in DOMAIN private' : private'[k] = private[j]
    <2>1. private \in Seq(Message)
      BY <1>1 DEF WFields
    <2> QED BY <1>1, <1>2, <2>1, PrivatePurged
  <1>4. Len(private') <= MaxQueued
    <2>1. Len(private) <= MaxQueued
      BY <1>1 DEF WFields
    <2> QED BY <1>1, <1>3, <2>1
  <1>5. /\ DOMAIN wconns' = W!Slot /\ wconns' = [k \in W!Slot |-> wconns'[k]]
        /\ \A k \in W!Slot : wconns'[k] = wconns[k] \/ wconns'[k] = W!Free
        /\ \A k \in W!Slot : k # i => wconns'[k] = wconns[k]
    <2>1. DOMAIN wconns = W!Slot
      BY <1>1 DEF WFields
    <2> QED BY <2>1
  <1>6. \A k \in W!Slot : wconns[k].used /\ wconns[k].cid \notin {p} => wconns'[k] = wconns[k]
    <2>1. \A k \in W!Slot : wconns[k].cid \notin {p} => k # i
      OBVIOUS
    <2> QED BY <1>5, <2>1, Zenon
  <1>7. ASSUME NEW j \in DOMAIN private, private[j].from # p PROVE private[j].id # IdOf[p]
    <2>1. PICK k \in W!Slot : wconns[k] = [used |-> TRUE, id |-> private[j].id, cid |-> private[j].from]
      BY <1>1 DEF WWaits
    <2>2. wconns[k].used /\ wconns[k].id = private[j].id /\ wconns[k].cid = private[j].from
      BY <2>1
    <2>3. private[j].id = IdOf[private[j].from] /\ private[j].from \in Player
      BY <1>1, <2>2, Slots DEF WSlots
    <2>4. \A a, b \in Player : IdOf[a] = IdOf[b] => a = b
      BY Sizes
    <2> QED BY <1>7, <2>3, <2>4
  <1>8. \A j \in DOMAIN private : private[j].from \notin {p} => \E k \in DOMAIN private' : private'[k] = private[j]
    BY <1>3, <1>7
  <1>9. \A k \in DOMAIN private' : \E j \in DOMAIN private : private'[k] = private[j]
    BY <1>3
  <1>10. \A k \in DOMAIN private' : \A j \in W!Slot :
            wconns[j] = [used |-> TRUE, id |-> private'[k].id, cid |-> private'[k].from] => wconns'[j] = wconns[j]
    <2> SUFFICES ASSUME NEW k \in DOMAIN private', NEW j \in W!Slot,
                        wconns[j] = [used |-> TRUE, id |-> private'[k].id, cid |-> private'[k].from]
                 PROVE  wconns'[j] = wconns[j]
      OBVIOUS
    <2>1. wconns[j].id = private'[k].id
      OBVIOUS
    <2>2. private'[k].id # IdOf[p]
      BY <1>3
    <2>3. j # i
      BY <1>2, <2>1, <2>2
    <2> QED BY <1>5, <2>3
  <1>11. /\ \A j \in DOMAIN pending : pending[j].from \notin {p} => \E k \in DOMAIN pending' : pending'[k] = pending[j]
         /\ \A j \in DOMAIN wire : wire[j].from \notin {p} => \E k \in DOMAIN wire' : wire'[k] = wire[j]
    OBVIOUS
  <1>12. {p} \in SUBSET Player /\ link' \in BOOLEAN
    BY <1>1 DEF WFields
  <1> QED BY <1>3, <1>4, <1>5, <1>6, <1>8, <1>9, <1>10, <1>11, <1>12, WGone

LEMMA WDeleteKeeps ==
  ASSUME WInv, NEW p \in Player, W!Delete(IdOf[p])
  PROVE  /\ WInv' /\ NoneMore /\ UNCHANGED <<link, begun, wire, seated, said, heard>> /\ excused' = excused \cup {p}
         /\ \E i \in W!Slot : wconns[i].used /\ wconns[i].cid = p /\ wconns' = [wconns EXCEPT ![i] = W!Free]
  <1>1. PICK i : i = W!SlotOfId(wconns, IdOf[p])
    OBVIOUS
  <1>2. /\ i # 0 /\ excused' = excused \cup {W!PlayerOf(IdOf[p])}
        /\ UNCHANGED <<link, begun, wire, seated, said, heard>>
        /\ wconns' = [wconns EXCEPT ![i] = W!Free]
        /\ private' = W!Purge_Private_For_Connection(private, wconns[i].id)
        /\ pending' = W!Purge_Pending_Private_For_Cid(pending, wconns[i].cid)
    BY <1>1 DEF W!Delete, W!Excuse, W!Becomes, W!Deleted, W!Table
  <1>3. i \in W!Slot /\ wconns[i].used /\ wconns[i].id = IdOf[p]
    <2>1. WFields /\ WSlots
      BY DEF WInv
    <2> QED BY <1>1, <1>2, <2>1, SlotWithId
  <1>4. \A a \in Player : IdOf[a] = IdOf[p] => a = p
    BY Sizes
  <1>5. wconns[i].cid = p
    <2>1. WFields /\ WSlots
      BY DEF WInv
    <2>2. wconns[i].cid \in Player /\ wconns[i].id = IdOf[wconns[i].cid]
      BY <1>3, <2>1, Slots DEF WSlots
    <2> QED BY <1>3, <1>4, <2>2
  <1>6. W!PlayerOf(IdOf[p]) = p
    BY <1>4 DEF W!PlayerOf
  <1>7. /\ pending \in Seq(Early) /\ Ordered(pending) /\ Len(pending) <= MaxQueued /\ MaxQueued \in Nat
        /\ wire \in Seq(Frame) /\ Ordered(wire)
    BY Sizes DEF WInv, WFields, WOrder
  <1>8. /\ pending' \in Seq(Early) /\ Len(pending') <= Len(pending) /\ Len(pending') \in Nat
        /\ Len(pending) \in Nat /\ Ordered(pending')
        /\ \A k \in DOMAIN pending' : \E j \in DOMAIN pending : pending'[k] = pending[j]
        /\ \A j \in DOMAIN pending : pending[j].from # p => \E k \in DOMAIN pending' : pending'[k] = pending[j]
    BY <1>2, <1>5, <1>7, PendingPurged
  <1>9. Len(pending') <= MaxQueued
    BY <1>7, <1>8
  <1>10. /\ wire' \in Seq(Frame) /\ Ordered(wire')
         /\ \A k \in DOMAIN wire' : \E j \in DOMAIN wire : wire'[k] = wire[j]
         /\ \A j \in DOMAIN wire : wire[j].from # p => \E k \in DOMAIN wire' : wire'[k] = wire[j]
    BY <1>2, <1>7
  <1>11. UNCHANGED <<link, begun, said, heard, seated>> /\ excused' = excused \cup {p}
    BY <1>2, <1>6
  <1>12. WInv' /\ NoneMore
    BY <1>2, <1>3, <1>5, <1>8, <1>9, <1>10, <1>11, WDropped
  <1> QED BY <1>2, <1>3, <1>5, <1>11, <1>12

LEMMA WLeftKeeps ==
  ASSUME WInv, W!ServiceLeft
  PROVE  WInv' /\ NoneMore /\ UNCHANGED <<link, begun, said, heard>> /\ excused \subseteq excused'
  <1>1. PICK m : m = Head(wire)
    OBVIOUS
  <1>2. /\ wire \in Seq(Frame) /\ Ordered(wire) /\ pending \in Seq(Early) /\ Ordered(pending)
        /\ Len(pending) <= MaxQueued /\ MaxQueued \in Nat /\ WFields /\ WSlots
    BY Sizes DEF WInv, WFields, WOrder
  <1>3. wire # << >> /\ m.n = 0 /\ wire' = Tail(wire) /\ UNCHANGED <<link, begun, seated, said, heard>>
        /\ excused' = excused \cup {m.from}
    BY <1>1 DEF W!ServiceLeft, W!Excuse
  <1>4. /\ m \in Frame /\ wire' \in Seq(Frame) /\ Ordered(wire')
        /\ \A k \in DOMAIN wire' : \E j \in DOMAIN wire : wire'[k] = wire[j]
    BY <1>1, <1>2, <1>3, TakenFrom
  <1>5. PICK p \in Player : p = m.from
    BY <1>4 DEF Frame
  <1>6. \A j \in DOMAIN wire : wire[j].from # p => \E k \in DOMAIN wire' : wire'[k] = wire[j]
    <2> SUFFICES ASSUME NEW j \in DOMAIN wire, wire[j].from # p PROVE \E k \in DOMAIN wire' : wire'[k] = wire[j]
      OBVIOUS
    <2>1. PICK n \in Nat \ {0} : n = Len(wire) /\ DOMAIN wire = 1 .. n /\ wire[1] = m
      BY <1>1, <1>2, <1>3
    <2>2. DOMAIN wire' = 1 .. n - 1 /\ \A k \in 1 .. n - 1 : wire'[k] = wire[k + 1]
      BY <1>2, <1>3, <2>1
    <2>3. j # 1
      BY <1>5, <2>1
    <2>4. j - 1 \in 1 .. n - 1 /\ j - 1 + 1 = j
      BY <2>1, <2>3
    <2> QED BY <2>2, <2>4
  <1>7. PICK q : q = W!Purge_Pending_Private_For_Cid(pending, p)
    OBVIOUS
  <1>8. /\ q \in Seq(Early) /\ Len(q) <= Len(pending) /\ Len(q) \in Nat
        /\ Len(pending) \in Nat /\ Ordered(q)
        /\ \A k \in DOMAIN q : \E j \in DOMAIN pending : q[k] = pending[j]
        /\ \A j \in DOMAIN pending : pending[j].from # p => \E k \in DOMAIN q : q[k] = pending[j]
    BY <1>2, <1>7, PendingPurged
  <1>9. PICK i : i = W!SlotOfCid(wconns, p)
    OBVIOUS
  <1>10. W!Becomes(IF i = 0 THEN [W!Table EXCEPT !.pending = q]
                   ELSE W!Deleted([W!Table EXCEPT !.pending = q], W!SlotOfId(wconns, wconns[i].id)))
    BY <1>1, <1>5, <1>7, <1>9, Zenon DEF W!ServiceLeft, W!Table
  <1>11. CASE i = 0
    <2>1. wconns' = wconns /\ private' = private /\ pending' = q
      BY <1>10, <1>11 DEF W!Becomes, W!Table
    <2>2. /\ DOMAIN wconns' = W!Slot /\ wconns' = [k \in W!Slot |-> wconns'[k]]
          /\ private' \in Seq(Message) /\ Len(private') <= MaxQueued /\ Ordered(private')
      BY <2>1 DEF WInv, WFields, WOrder
    <2>3. Len(pending') <= MaxQueued
      BY <1>2, <1>8, <2>1
    <2>4. {p} \in SUBSET Player /\ link' \in BOOLEAN /\ excused' = excused \cup {p}
      BY <1>2, <1>3, <1>5 DEF WFields
    <2>5. /\ pending' \in Seq(Early) /\ Ordered(pending')
          /\ \A k \in DOMAIN pending' : \E j \in DOMAIN pending : pending'[k] = pending[j]
          /\ \A j \in DOMAIN pending : pending[j].from \notin {p} => \E k \in DOMAIN pending' : pending'[k] = pending[j]
          /\ \A j \in DOMAIN wire : wire[j].from \notin {p} => \E k \in DOMAIN wire' : wire'[k] = wire[j]
      BY <1>6, <1>8, <2>1
    <2>6. /\ \A k \in W!Slot : wconns'[k] = wconns[k] \/ wconns'[k] = W!Free
          /\ \A k \in W!Slot : wconns[k].used /\ wconns[k].cid \notin {p} => wconns'[k] = wconns[k]
          /\ \A k \in DOMAIN private' : \E j \in DOMAIN private : private'[k] = private[j]
          /\ \A j \in DOMAIN private : private[j].from \notin {p} => \E k \in DOMAIN private' : private'[k] = private[j]
          /\ \A k \in DOMAIN private' : \A j \in W!Slot :
                wconns[j] = [used |-> TRUE, id |-> private'[k].id, cid |-> private'[k].from] => wconns'[j] = wconns[j]
      BY <2>1
    <2>7. WInv' /\ NoneMore
      BY <1>3, <1>4, <2>2, <2>3, <2>4, <2>5, <2>6, WGone
    <2> QED BY <1>3, <2>7
  <1>12. CASE i # 0
    <2>1. i \in W!Slot /\ wconns[i].used /\ wconns[i].cid = p
      BY <1>2, <1>9, <1>12, SlotOfClient
    <2>2. W!SlotOfId(wconns, wconns[i].id) = i
      BY <1>2, <2>1, SlotWithId
    <2>3. /\ wconns' = [wconns EXCEPT ![i] = W!Free]
          /\ private' = W!Purge_Private_For_Connection(private, wconns[i].id)
          /\ pending' = W!Purge_Pending_Private_For_Cid(q, p)
      BY <1>10, <1>12, <2>1, <2>2 DEF W!Becomes, W!Deleted, W!Table
    <2>4. /\ pending' \in Seq(Early) /\ Len(pending') <= Len(q) /\ Len(pending') \in Nat /\ Ordered(pending')
          /\ \A k \in DOMAIN pending' : \E j \in DOMAIN q : pending'[k] = q[j]
          /\ \A j \in DOMAIN q : q[j].from # p => \E k \in DOMAIN pending' : pending'[k] = q[j]
      BY <1>8, <2>3, PendingPurged
    <2>5. /\ \A k \in DOMAIN pending' : \E j \in DOMAIN pending : pending'[k] = pending[j]
          /\ \A j \in DOMAIN pending : pending[j].from # p => \E k \in DOMAIN pending' : pending'[k] = pending[j]
      BY <1>8, <2>4
    <2>6. Len(pending') <= MaxQueued
      BY <1>2, <1>8, <2>4
    <2>7. UNCHANGED <<link, begun, said, heard, seated>> /\ excused' = excused \cup {p}
      BY <1>3, <1>5
    <2>8. WInv' /\ NoneMore
      BY <1>4, <1>6, <2>1, <2>3, <2>4, <2>5, <2>6, <2>7, WDropped
    <2> QED BY <1>3, <2>8
  <1> QED BY <1>11, <1>12

LEMMA WEnds ==
  ASSUME WInv, link' = FALSE, wire' = << >>, excused' = excused \cup Player, UNCHANGED <<begun, seated, said, heard>>,
         \/ UNCHANGED <<wconns, private, pending>>
         \/ wconns' = [i \in W!Slot |-> W!Free] /\ private' = << >> /\ pending' = << >>
  PROVE  WInv' /\ NoneMore
  <1>1. /\ << >> \in Seq(Frame) /\ << >> \in Seq(Message) /\ << >> \in Seq(Early)
        /\ Len(<< >>) = 0 /\ 0 <= MaxQueued /\ DOMAIN << >> = {} /\ Ordered(<< >>)
    BY Sizes DEF Ordered
  <1>2. /\ private \in Seq(Message) /\ pending \in Seq(Early) /\ Ordered(private) /\ Ordered(pending)
        /\ Len(private) <= MaxQueued /\ Len(pending) <= MaxQueued /\ wconns \in [W!Slot -> Connection]
    BY DEF WInv, WFields, WOrder
  <1>3. /\ private' \in Seq(Message) /\ pending' \in Seq(Early) /\ Ordered(private') /\ Ordered(pending')
        /\ Len(private') <= MaxQueued /\ Len(pending') <= MaxQueued
        /\ DOMAIN wconns' = W!Slot /\ wconns' = [k \in W!Slot |-> wconns'[k]]
    BY <1>1, <1>2
  <1>4. /\ \A k \in W!Slot : wconns'[k] = wconns[k] \/ wconns'[k] = W!Free
        /\ \A k \in DOMAIN private' : \E j \in DOMAIN private : private'[k] = private[j]
        /\ \A k \in DOMAIN pending' : \E j \in DOMAIN pending : pending'[k] = pending[j]
        /\ \A k \in DOMAIN wire' : \E j \in DOMAIN wire : wire'[k] = wire[j]
        /\ \A k \in DOMAIN private' : \A j \in W!Slot :
              wconns[j] = [used |-> TRUE, id |-> private'[k].id, cid |-> private'[k].from] => wconns'[j] = wconns[j]
    BY <1>1
  <1>5. /\ \A j \in DOMAIN private : private[j].from \in Player
        /\ \A j \in DOMAIN pending : pending[j].from \in Player
        /\ \A j \in DOMAIN wire : wire[j].from \in Player
    <2>1. \A j \in DOMAIN private : private[j] \in Message
      BY <1>2
    <2>2. \A j \in DOMAIN pending : pending[j] \in Early
      BY <1>2
    <2>3. \A j \in DOMAIN wire : wire[j] \in Frame
      BY DEF WInv, WFields
    <2> QED BY <2>1, <2>2, <2>3 DEF Message, Early, Frame
  <1>6. \A k \in W!Slot : wconns[k].used => wconns[k].cid \in Player
    <2>1. WFields
      BY DEF WInv
    <2> QED BY <2>1, Slots
  <1>7. wire' \in Seq(Frame) /\ Ordered(wire') /\ link' \in BOOLEAN
    BY <1>1
  <1> QED BY <1>3, <1>4, <1>5, <1>6, <1>7, WGone

LEMMA WLostKeeps == ASSUME WInv, W!LinkLost PROVE WInv' /\ NoneMore
  BY WEnds DEF W!LinkLost, W!Excuse

LEMMA WShutdownKeeps == ASSUME WInv, W!Shutdown PROVE WInv' /\ NoneMore
  BY WEnds DEF W!Shutdown, W!Excuse, W!Becomes

\* The table when the first i players of the list have their slots.
Filled(t, i) ==
    /\ t.conns = [k \in W!Slot |-> IF k <= i THEN [used |-> TRUE, id |-> IdOf[Order[k]], cid |-> Order[k]]
                                   ELSE W!Free]
    /\ t = [conns |-> t.conns, private |-> t.private, pending |-> t.pending]
    /\ t.private \in Seq(Message) /\ t.pending \in Seq(Early)
    /\ Len(t.private) + Len(t.pending) <= MaxQueued
    /\ Ordered(t.private) /\ Ordered(t.pending)
    /\ \A j \in DOMAIN t.private :
          \E k \in 1 .. i : t.private[j].from = Order[k] /\ t.private[j].id = IdOf[Order[k]]
    /\ \A j \in DOMAIN t.pending : \A k \in 1 .. i : t.pending[j].from # Order[k]
    /\ \A q \in Player : W!InQueue(t.private, q) \cup W!InQueue(t.pending, q) = InBoth(q)

\* The packets of a client that move to the other queue and those that stay.
LEMMA OthersStay ==
  ASSUME NEW q \in Seq(Early), NEW p \in Player, NEW his, NEW rest, Ordered(q),
         his = W!OfClient(q, p), rest = W!Purge_Pending_Private_For_Cid(q, p)
  PROVE  /\ his \in Seq(Early) /\ rest \in Seq(Early) /\ Ordered(his) /\ Ordered(rest)
         /\ Len(his) \in Nat /\ Len(rest) \in Nat /\ Len(his) + Len(rest) = Len(q)
         /\ \A i \in DOMAIN his : his[i].from = p
         /\ \A i \in DOMAIN rest : \E k \in DOMAIN q : q[k].from # p /\ rest[i] = q[k]
         /\ W!InQueue(his, p) = W!InQueue(q, p)
         /\ \A r \in Player \ {p} : W!InQueue(rest, r) = W!InQueue(q, r)
         /\ W!InQueue(rest, p) = {}
  <1>1. PICK K : K = {i \in DOMAIN q : q[i].from = p}
    OBVIOUS
  <1>2. PICK R : R = {i \in DOMAIN q : q[i].from # p}
    OBVIOUS
  <1>3. his = W!Only(q, K) /\ rest = W!Only(q, R)
    BY <1>1, <1>2 DEF W!OfClient, W!Purge_Pending_Private_For_Cid
  <1>4. \A i \in 1 .. Len(q) : i \in K <=> i \notin R
    BY <1>1, <1>2
  <1>5. Len(his) + Len(rest) = Len(q)
    BY <1>3, <1>4, OnlyApart
  <1>6. /\ his \in Seq(Early) /\ Ordered(his)
        /\ \A i \in DOMAIN his : \E k \in DOMAIN q : k \in K /\ his[i] = q[k]
        /\ \A k \in DOMAIN q : k \in K => \E i \in DOMAIN his : his[i] = q[k]
    BY <1>3, OnlyKeeps
  <1>7. /\ rest \in Seq(Early) /\ Ordered(rest)
        /\ \A i \in DOMAIN rest : \E k \in DOMAIN q : k \in R /\ rest[i] = q[k]
        /\ \A k \in DOMAIN q : k \in R => \E i \in DOMAIN rest : rest[i] = q[k]
    BY <1>3, OnlyKeeps
  <1>8. \A i \in DOMAIN his : his[i].from = p
    BY <1>1, <1>6
  <1>9. \A i \in DOMAIN rest : \E k \in DOMAIN q : q[k].from # p /\ rest[i] = q[k]
    BY <1>2, <1>7
  <1>10. W!InQueue(his, p) = W!InQueue(q, p)
    <2>1. \A n : (\E i \in DOMAIN his : his[i].from = p /\ his[i].n = n)
                 <=> (\E k \in DOMAIN q : q[k].from = p /\ q[k].n = n)
      BY <1>1, <1>6
    <2>2. \A n : n \in W!InQueue(his, p) <=> \E i \in DOMAIN his : his[i].from = p /\ his[i].n = n
      BY NumbersIn
    <2>3. \A n : n \in W!InQueue(q, p) <=> \E k \in DOMAIN q : q[k].from = p /\ q[k].n = n
      BY NumbersIn
    <2> QED BY <2>1, <2>2, <2>3
  <1>11. ASSUME NEW r \in Player \ {p} PROVE W!InQueue(rest, r) = W!InQueue(q, r)
    <2>1. \A n : (\E i \in DOMAIN rest : rest[i].from = r /\ rest[i].n = n)
                 <=> (\E k \in DOMAIN q : q[k].from = r /\ q[k].n = n)
      BY <1>2, <1>7
    <2>2. \A n : n \in W!InQueue(rest, r) <=> \E i \in DOMAIN rest : rest[i].from = r /\ rest[i].n = n
      BY NumbersIn
    <2>3. \A n : n \in W!InQueue(q, r) <=> \E k \in DOMAIN q : q[k].from = r /\ q[k].n = n
      BY NumbersIn
    <2> QED BY <2>1, <2>2, <2>3
  <1>12. W!InQueue(rest, p) = {}
    <2>1. \A n : n \notin W!InQueue(rest, p)
      BY <1>9, NumbersIn
    <2> QED BY <2>1
  <1>13. Len(his) \in Nat /\ Len(rest) \in Nat
    BY <1>6, <1>7
  <1> QED BY <1>5, <1>6, <1>7, <1>8, <1>9, <1>10, <1>11, <1>12, <1>13

LEMMA Joined ==
  ASSUME NEW R, NEW s \in Seq(R), NEW u \in Seq(R)
  PROVE  /\ s \o u \in Seq(R) /\ Len(s \o u) = Len(s) + Len(u)
         /\ \A j \in DOMAIN (s \o u) : \/ j \in DOMAIN s /\ (s \o u)[j] = s[j]
                                       \/ j > Len(s) /\ j - Len(s) \in DOMAIN u /\ (s \o u)[j] = u[j - Len(s)]
         /\ \A p : W!InQueue(s \o u, p) = W!InQueue(s, p) \cup W!InQueue(u, p)
  <1>1. PICK a \in Nat, b \in Nat : a = Len(s) /\ b = Len(u) /\ DOMAIN s = 1 .. a /\ DOMAIN u = 1 .. b
    OBVIOUS
  <1> DEFINE t == s \o u
  <1>2. /\ t \in Seq(R) /\ Len(t) = a + b /\ DOMAIN t = 1 .. a + b
        /\ \A j \in 1 .. a + b : t[j] = IF j <= a THEN s[j] ELSE u[j - a]
    BY <1>1
  <1> HIDE DEF t
  <1>3. \A j \in 1 .. a + b : (j \in 1 .. a /\ j <= a) \/ (~(j <= a) /\ j > a /\ j - a \in 1 .. b)
    BY <1>1
  <1>4. \A j \in 1 .. a : j \in 1 .. a + b /\ j <= a
    BY <1>1
  <1>5. \A j \in 1 .. b : j + a \in 1 .. a + b /\ ~(j + a <= a) /\ j + a - a = j
    BY <1>1
  <1>6. \A j \in 1 .. a + b : \/ j \in 1 .. a /\ t[j] = s[j]
                              \/ j > a /\ j - a \in 1 .. b /\ t[j] = u[j - a]
    BY <1>2, <1>3
  <1>7. \A j \in 1 .. a : t[j] = s[j]
    BY <1>2, <1>4
  <1>8. \A j \in 1 .. b : t[j + a] = u[j]
    BY <1>2, <1>5
  <1>9. ASSUME NEW p PROVE W!InQueue(t, p) = W!InQueue(s, p) \cup W!InQueue(u, p)
    <2>1. \A n : n \in W!InQueue(t, p) <=> \E i \in 1 .. a + b : t[i].from = p /\ t[i].n = n
      BY <1>2, NumbersIn
    <2>2. \A n : n \in W!InQueue(s, p) <=> \E i \in 1 .. a : s[i].from = p /\ s[i].n = n
      BY <1>1, NumbersIn
    <2>3. \A n : n \in W!InQueue(u, p) <=> \E i \in 1 .. b : u[i].from = p /\ u[i].n = n
      BY <1>1, NumbersIn
    <2>4. \A n : (\E i \in 1 .. a + b : t[i].from = p /\ t[i].n = n)
                 => (\E i \in 1 .. a : s[i].from = p /\ s[i].n = n) \/ (\E i \in 1 .. b : u[i].from = p /\ u[i].n = n)
      BY <1>6
    <2>5. \A n : (\E i \in 1 .. a : s[i].from = p /\ s[i].n = n) => \E i \in 1 .. a + b : t[i].from = p /\ t[i].n = n
      BY <1>4, <1>7
    <2>6. \A n : (\E i \in 1 .. b : u[i].from = p /\ u[i].n = n) => \E i \in 1 .. a + b : t[i].from = p /\ t[i].n = n
      BY <1>5, <1>8
    <2> QED BY <2>1, <2>2, <2>3, <2>4, <2>5, <2>6
  <1> QED BY <1>1, <1>2, <1>6, <1>9 DEF t

LEMMA ListFits ==
  /\ Len(Order) \in Nat /\ Len(Order) <= MaxConnections
  /\ \A i \in 1 .. Len(Order) : Order[i] \in Player /\ i \in W!Slot
  <1>1. Len(Order) <= Cardinality(Player)
    BY Sizes, FewPlayers
  <1>2. Len(Order) \in Nat /\ \A i \in 1 .. Len(Order) : Order[i] \in Player
    BY Sizes
  <1>3. \A i \in 1 .. Len(Order) : i \in W!Slot
    BY <1>1, <1>2, Sizes DEF W!Slot
  <1> QED BY <1>1, <1>2, <1>3, Sizes

\* Creating the connection of the next player gives him the next slot and
\* all that has waited for him, in its order.
LEMMA CreatedFills ==
  ASSUME NEW i \in Nat, i < Len(Order), NEW t, Filled(t, i)
  PROVE  Filled(W!Created(t, IdOf[Order[i + 1]], Order[i + 1]), i + 1)
  <1>1. /\ i + 1 \in 1 .. Len(Order) /\ i + 1 \in W!Slot /\ Order[i + 1] \in Player
        /\ \A k \in 1 .. i : k \in 1 .. Len(Order) /\ k \in W!Slot /\ Order[k] \in Player /\ k # i + 1
    BY ListFits
  <1>2. PICK p \in Player : p = Order[i + 1]
    BY <1>1
  <1>3. PICK id \in Nat \ {0} : id = IdOf[p]
    BY <1>2, Sizes
  <1>4. \A a, b \in Player : IdOf[a] = IdOf[b] => a = b
    BY Sizes
  <1>5. \A k \in 1 .. i : Order[k] \in Player /\ Order[k] # p /\ IdOf[Order[k]] # id
    <2>1. \A a, b \in DOMAIN Order : Order[a] = Order[b] => a = b
      BY Sizes
    <2>2. DOMAIN Order = 1 .. Len(Order)
      BY Sizes
    <2>3. \A k \in 1 .. i : Order[k] \in Player /\ Order[k] # p
      BY <1>1, <1>2, <2>1, <2>2
    <2> QED BY <1>3, <1>4, <2>3
  <1>6. PICK priv \in Seq(Message), pend \in Seq(Early) : priv = t.private /\ pend = t.pending
    BY DEF Filled
  <1>62. priv \in Seq(Message) /\ pend \in Seq(Early)
    BY <1>6
  <1>61. PICK cs : cs = t.conns
    OBVIOUS
  <1>7. /\ t = [conns |-> cs, private |-> priv, pending |-> pend]
        /\ cs = [k \in W!Slot |-> IF k <= i THEN [used |-> TRUE, id |-> IdOf[Order[k]], cid |-> Order[k]]
                                  ELSE W!Free]
        /\ Len(priv) + Len(pend) <= MaxQueued /\ Ordered(priv) /\ Ordered(pend)
        /\ \A j \in DOMAIN priv : \E k \in 1 .. i : priv[j].from = Order[k] /\ priv[j].id = IdOf[Order[k]]
        /\ \A j \in DOMAIN pend : \A k \in 1 .. i : pend[j].from # Order[k]
        /\ \A q \in Player : W!InQueue(priv, q) \cup W!InQueue(pend, q) = InBoth(q)
    BY <1>6, <1>61 DEF Filled
  <1>8. W!FirstOf({j \in W!Slot : ~cs[j].used \/ cs[j].id = id \/ cs[j].cid = p}) = i + 1
    <2>1. PICK S : S = {j \in W!Slot : ~cs[j].used \/ cs[j].id = id \/ cs[j].cid = p}
      OBVIOUS
    <2>2. ~cs[i + 1].used
      <3>1. cs[i + 1] = W!Free
        BY <1>1, <1>7
      <3> QED BY <3>1 DEF W!Free
    <2>3. i + 1 \in S
      BY <1>1, <2>1, <2>2
    <2>4. ASSUME NEW j \in S PROVE i + 1 <= j
      <3>1. j \in W!Slot /\ j \in Nat \ {0}
        BY <2>1, Sizes DEF W!Slot
      <3>2. CASE j <= i
        <4>1. j \in 1 .. i /\ cs[j] = [used |-> TRUE, id |-> IdOf[Order[j]], cid |-> Order[j]]
          BY <1>7, <3>1, <3>2
        <4>2. cs[j].used /\ cs[j].id = IdOf[Order[j]] /\ cs[j].cid = Order[j]
          BY <4>1
        <4> QED BY <1>5, <2>1, <4>1, <4>2
      <3> QED BY <3>1, <3>2
    <2>5. S \in SUBSET W!Slot /\ S # {}
      BY <2>1, <2>3
    <2>6. W!FirstOf(S) \in S /\ \A j \in S : W!FirstOf(S) <= j
      BY <2>5, FirstIs
    <2>7. W!FirstOf(S) \in Nat
      BY <2>1, <2>6, Sizes DEF W!Slot
    <2>8. W!FirstOf(S) = i + 1
      BY <2>3, <2>4, <2>6, <2>7
    <2> QED BY <2>1, <2>8, Zenon
  <1>9. PICK ds : ds = [cs EXCEPT ![i + 1] = [used |-> TRUE, id |-> id, cid |-> p]]
    OBVIOUS
  <1>10. PICK u : u = [conns |-> ds, private |-> priv, pending |-> pend]
    OBVIOUS
  <1>11. W!Created(t, id, p) = W!Promoted(u, p, id)
    <2>1. [t EXCEPT !.conns[i + 1] = [used |-> TRUE, id |-> id, cid |-> p]] = [t EXCEPT !.conns = ds]
      BY <1>61, <1>9
    <2>3. [t EXCEPT !.conns = ds] = u
      BY <1>7, <1>10
    <2>2. i + 1 # 0
      OBVIOUS
    <2> QED BY <1>61, <1>8, <2>1, <2>2, <2>3 DEF W!Created
  <1>12. PICK his, rest : his = W!OfClient(pend, p) /\ rest = W!Purge_Pending_Private_For_Cid(pend, p)
    OBVIOUS
  <1>13. /\ his \in Seq(Early) /\ rest \in Seq(Early) /\ Ordered(his) /\ Ordered(rest)
         /\ Len(his) \in Nat /\ Len(rest) \in Nat /\ Len(his) + Len(rest) = Len(pend)
         /\ \A j \in DOMAIN his : his[j].from = p
         /\ \A j \in DOMAIN rest : \E k \in DOMAIN pend : pend[k].from # p /\ rest[j] = pend[k]
         /\ W!InQueue(his, p) = W!InQueue(pend, p)
         /\ \A r \in Player \ {p} : W!InQueue(rest, r) = W!InQueue(pend, r)
         /\ W!InQueue(rest, p) = {}
    
    <2>1. p \in Player /\ Ordered(pend)
      BY <1>2, <1>7
    <2>2. his = W!OfClient(pend, p) /\ rest = W!Purge_Pending_Private_For_Cid(pend, p)
      BY <1>12
    <2>3. pend \in Seq(Early) /\ p \in Player /\ Ordered(pend)
      BY <1>62, <2>1
    <2>4. his \in Seq(Early) /\ rest \in Seq(Early)
      BY <2>2, <2>3, OthersStay, Zenon
    <2>5. Ordered(his) /\ Ordered(rest)
      BY <2>2, <2>3, OthersStay, Zenon
    <2>6. Len(his) \in Nat /\ Len(rest) \in Nat
      BY <2>2, <2>3, OthersStay, Zenon
    <2>7. W!InQueue(his, p) = W!InQueue(pend, p)
      BY <2>2, <2>3, OthersStay, Zenon
    <2>8. W!InQueue(rest, p) = {}
      BY <2>2, <2>3, OthersStay, Zenon
    <2>9. Len(his) + Len(rest) = Len(pend)
      <3>1. Len(W!OfClient(pend, p)) + Len(W!Purge_Pending_Private_For_Cid(pend, p)) = Len(pend)
        BY <2>3, OthersStay
      <3> QED BY <2>2, <3>1
    <2>10. \A j \in DOMAIN his : his[j].from = p
      <3>1. \A j \in DOMAIN W!OfClient(pend, p) : W!OfClient(pend, p)[j].from = p
        BY <2>3, OthersStay
      <3> QED BY <2>2, <3>1
    <2>11. \A j \in DOMAIN rest : \E k \in DOMAIN pend : pend[k].from # p /\ rest[j] = pend[k]
      <3>1. \A j \in DOMAIN W!Purge_Pending_Private_For_Cid(pend, p) : \E k \in DOMAIN pend : pend[k].from # p /\ W!Purge_Pending_Private_For_Cid(pend, p)[j] = pend[k]
        BY <2>3, OthersStay
      <3> QED BY <2>2, <3>1
    <2>12. \A r \in Player \ {p} : W!InQueue(rest, r) = W!InQueue(pend, r)
      <3>1. \A r \in Player \ {p} : W!InQueue(W!Purge_Pending_Private_For_Cid(pend, p), r) = W!InQueue(pend, r)
        BY <2>3, OthersStay
      <3> QED BY <2>2, <3>1
    <2> QED BY <2>4, <2>5, <2>6, <2>7, <2>8, <2>9, <2>10, <2>11, <2>12
  <1>14. PICK moved : moved = [x \in 1 .. Len(his) |-> [id |-> id, from |-> his[x].from, n |-> his[x].n]]
    OBVIOUS
  <1>15. W!Least(Len(his), MaxQueued - Len(priv)) = Len(his)
    <2>1. Len(priv) \in Nat /\ Len(pend) \in Nat /\ MaxQueued \in Nat
      BY Sizes
    <2> QED BY <1>7, <1>13, <2>1 DEF W!Least
  <1>16. W!Created(t, id, p) = [conns |-> ds, private |-> priv \o moved, pending |-> rest]
    <2>1. u.private = priv /\ u.pending = pend /\ u.conns = ds
      BY <1>10
    <2>2. W!Promoted(u, p, id)
            = [u EXCEPT !.pending = rest, !.private = priv \o [x \in 1 .. Len(his) |-> W!Bound(his[x], id)]]
      BY <1>12, <1>15, <2>1 DEF W!Promoted
    <2>3. [x \in 1 .. Len(his) |-> W!Bound(his[x], id)] = moved
      BY <1>14 DEF W!Bound
    <2>4. W!Promoted(u, p, id) = [u EXCEPT !.pending = rest, !.private = priv \o moved]
      BY <2>2, <2>3
    <2> QED BY <1>10, <1>11, <2>4
  \* What has moved.
  <1>17. /\ moved \in Seq(Message) /\ DOMAIN moved = DOMAIN his /\ Len(moved) = Len(his)
         /\ \A x \in DOMAIN moved : moved[x].from = p /\ moved[x].id = id /\ moved[x].n = his[x].n
    <2>1. DOMAIN his = 1 .. Len(his) /\ \A x \in 1 .. Len(his) : his[x] \in Early
      BY <1>13
    <2>2. \A x \in 1 .. Len(his) : his[x].from \in Player /\ his[x].n \in 1 .. Lot
      BY <2>1 DEF Early
    <2>3. \A x \in 1 .. Len(his) : [id |-> id, from |-> his[x].from, n |-> his[x].n] \in Message
      BY <2>2 DEF Message
    <2>4. moved \in [1 .. Len(his) -> Message]
      BY <1>14, <2>3
    <2>5. moved \in Seq(Message) /\ DOMAIN moved = 1 .. Len(his) /\ Len(moved) = Len(his)
      <3>1. PICK m \in Nat : m = Len(his)
        BY <1>13
      <3>2. moved \in [1 .. m -> Message]
        BY <2>4, <3>1
      <3> QED BY <3>1, <3>2
    <2>6. \A x \in 1 .. Len(his) : /\ moved[x].from = his[x].from
                                   /\ moved[x].id = id /\ moved[x].n = his[x].n
      BY <1>14
    <2> QED BY <1>13, <2>1, <2>5, <2>6
  <1>18. Ordered(moved)
    BY <1>13, <1>17 DEF Ordered
  <1>19. \A q : W!InQueue(moved, q) = W!InQueue(his, q)
    <2> TAKE q
    <2>1. \A n : (\E x \in DOMAIN moved : moved[x].from = q /\ moved[x].n = n)
                 <=> (\E x \in DOMAIN his : his[x].from = q /\ his[x].n = n)
      BY <1>13, <1>17
    <2>2. \A n : n \in W!InQueue(moved, q) <=> \E x \in DOMAIN moved : moved[x].from = q /\ moved[x].n = n
      BY NumbersIn
    <2>3. \A n : n \in W!InQueue(his, q) <=> \E x \in DOMAIN his : his[x].from = q /\ his[x].n = n
      BY NumbersIn
    <2> QED BY <2>1, <2>2, <2>3
  <1>20. PICK new : new = priv \o moved
    OBVIOUS
  <1>21. /\ new \in Seq(Message) /\ Len(new) = Len(priv) + Len(moved)
         /\ \A j \in DOMAIN new : \/ j \in DOMAIN priv /\ new[j] = priv[j]
                                  \/ j > Len(priv) /\ j - Len(priv) \in DOMAIN moved /\ new[j] = moved[j - Len(priv)]
         /\ \A q : W!InQueue(new, q) = W!InQueue(priv, q) \cup W!InQueue(moved, q)
    
    <2>1. moved \in Seq(Message)
      BY <1>17
    <2> QED BY <1>62, <1>20, <2>1, Joined
  <1>22. \A j \in DOMAIN priv : priv[j].from # p
    BY <1>5, <1>7
  <1>23. Ordered(new)
    <2> SUFFICES ASSUME NEW j \in DOMAIN new, NEW l \in DOMAIN new, j < l,
                        new[j].from = new[l].from, new[j].n > 0, new[l].n > 0
                 PROVE  new[j].n < new[l].n
      BY DEF Ordered
    <2>1. PICK a \in Nat : a = Len(priv) /\ DOMAIN priv = 1 .. a
      OBVIOUS
    <2>2. j \in Nat /\ l \in Nat
      BY <1>21
    <2>3. CASE l \in DOMAIN priv /\ new[l] = priv[l]
      <3>1. j \in DOMAIN priv /\ new[j] = priv[j]
        BY <1>21, <2>1, <2>2, <2>3
      <3> QED BY <1>7, <2>3, <3>1 DEF Ordered
    <2>4. CASE l - a \in DOMAIN moved /\ new[l] = moved[l - a]
      <3>1. new[l].from = p
        BY <1>17, <2>4
      <3>2. j - a \in DOMAIN moved /\ new[j] = moved[j - a]
        BY <1>21, <1>22, <2>1, <3>1
      <3>3. j - a < l - a
        BY <2>1, <2>2
      <3> QED BY <1>18, <2>4, <3>2, <3>3 DEF Ordered
    <2> QED BY <1>21, <2>1, <2>3, <2>4
  <1>24. \A j \in DOMAIN new : \E k \in 1 .. i + 1 : new[j].from = Order[k] /\ new[j].id = IdOf[Order[k]]
    <2> TAKE j \in DOMAIN new
    <2>1. CASE j \in DOMAIN priv /\ new[j] = priv[j]
      <3>1. PICK k \in 1 .. i : priv[j].from = Order[k] /\ priv[j].id = IdOf[Order[k]]
        BY <1>7, <2>1
      <3> QED BY <2>1, <3>1
    <2>2. CASE j - Len(priv) \in DOMAIN moved /\ new[j] = moved[j - Len(priv)]
      <3>1. new[j].from = p /\ new[j].id = id
        BY <1>17, <2>2
      <3>2. i + 1 \in 1 .. i + 1
        OBVIOUS
      <3> QED BY <1>2, <1>3, <3>1, <3>2
    <2> QED BY <1>21, <2>1, <2>2
  <1>25. \A j \in DOMAIN rest : \A k \in 1 .. i + 1 : rest[j].from # Order[k]
    <2> TAKE j \in DOMAIN rest
    <2>1. PICK l \in DOMAIN pend : pend[l].from # p /\ rest[j] = pend[l]
      BY <1>13
    <2> TAKE k \in 1 .. i + 1
    <2>2. k \in 1 .. i \/ k = i + 1
      OBVIOUS
    <2> QED BY <1>2, <1>7, <2>1, <2>2
  <1>26. ASSUME NEW q \in Player PROVE W!InQueue(new, q) \cup W!InQueue(rest, q) = InBoth(q)
    <2>1. CASE q = p
      <3>1. W!InQueue(rest, q) = {} /\ W!InQueue(moved, q) = W!InQueue(pend, q)
        BY <1>13, <1>19, <2>1
      <3> QED BY <1>7, <1>21, <3>1
    <2>2. CASE q # p
      <3>1. W!InQueue(rest, q) = W!InQueue(pend, q)
        BY <1>13, <2>2
      <3>2. \A n : n \notin W!InQueue(moved, q)
        BY <1>17, <2>2, NumbersIn
      <3> QED BY <1>7, <1>21, <3>1, <3>2
    <2> QED BY <2>1, <2>2
  <1>27. ds = [k \in W!Slot |-> IF k <= i + 1 THEN [used |-> TRUE, id |-> IdOf[Order[k]], cid |-> Order[k]]
                                ELSE W!Free]
    <2>1. \A k \in W!Slot : k \in Nat
      BY Sizes DEF W!Slot
    <2>2. \A k \in W!Slot : k <= i + 1 <=> k <= i \/ k = i + 1
      BY <2>1
    <2>3. ~(i + 1 <= i)
      OBVIOUS
    <2> QED BY <1>1, <1>2, <1>3, <1>7, <1>9, <2>2, <2>3
  <1>28. Len(new) + Len(rest) <= MaxQueued
    <2>1. Len(priv) \in Nat /\ Len(pend) \in Nat /\ MaxQueued \in Nat
      BY Sizes
    <2> QED BY <1>7, <1>13, <1>17, <1>21, <2>1
  <1>29. PICK v : v = [conns |-> ds, private |-> new, pending |-> rest]
    OBVIOUS
  <1>30. v.conns = ds /\ v.private = new /\ v.pending = rest
    BY <1>29
  <1>31. Filled(v, i + 1)
    BY <1>13, <1>21, <1>23, <1>24, <1>25, <1>26, <1>27, <1>28, <1>29, <1>30 DEF Filled
  <1>32. W!Created(t, IdOf[Order[i + 1]], Order[i + 1]) = v
    BY <1>2, <1>3, <1>16, <1>20, <1>29
  <1> QED BY <1>31, <1>32

\* f is, for each i, the table t after the first i of n players.
Fills(f, t, n) ==
    f = [i \in 0 .. n |-> IF i = 0 THEN t ELSE W!Created(f[i - 1], IdOf[Order[i]], Order[i])]

LEMMA FillsStep ==
  ASSUME NEW n \in Nat, NEW t, NEW f
  PROVE  Fills(f, t, n) <=>
            /\ f = [i \in 0 .. n |-> f[i]]
            /\ f[0] = t
            /\ \A i \in 1 .. n : f[i] = W!Created(f[i - 1], IdOf[Order[i]], Order[i])
  <1>0. 0 \in 0 .. n /\ \A i \in 1 .. n : i \in 0 .. n /\ i # 0
    OBVIOUS
  <1>1. ASSUME Fills(f, t, n)
        PROVE  /\ f = [i \in 0 .. n |-> f[i]]
               /\ f[0] = t
               /\ \A i \in 1 .. n : f[i] = W!Created(f[i - 1], IdOf[Order[i]], Order[i])
    <2>1. \A i \in 0 .. n : f[i] = IF i = 0 THEN t ELSE W!Created(f[i - 1], IdOf[Order[i]], Order[i])
      BY <1>1, Zenon DEF Fills
    <2>2. f = [i \in 0 .. n |-> f[i]]
      BY <1>1, <2>1, Zenon DEF Fills
    <2> QED BY <1>0, <2>1, <2>2, Zenon
  <1>2. ASSUME /\ f = [i \in 0 .. n |-> f[i]]
               /\ f[0] = t
               /\ \A i \in 1 .. n : f[i] = W!Created(f[i - 1], IdOf[Order[i]], Order[i])
        PROVE  Fills(f, t, n)
    <2>1. \A i \in 0 .. n : i = 0 \/ i \in 1 .. n
      OBVIOUS
    <2>2. \A i \in 0 .. n : f[i] = IF i = 0 THEN t ELSE W!Created(f[i - 1], IdOf[Order[i]], Order[i])
      BY <1>2, <2>1, Zenon
    <2> QED BY <1>2, <2>2, Zenon DEF Fills
  <1> QED BY <1>1, <1>2

LEMMA FillsExist ==
  ASSUME NEW n \in Nat, NEW t
  PROVE  \E f : Fills(f, t, n)
  <1> DEFINE N == {m \in Nat : \E f : Fills(f, t, m)}
  <1>1. 0 \in N
    <2> DEFINE f == [i \in 0 .. 0 |-> t]
    <2>1. f = [i \in 0 .. 0 |-> f[i]] /\ f[0] = t /\ 1 .. 0 = {}
      OBVIOUS
    <2> HIDE DEF f
    <2>2. Fills(f, t, 0)
      BY <2>1, FillsStep
    <2> QED BY <2>2
  <1>2. ASSUME NEW m \in N PROVE m + 1 \in N
    <2>1. m \in Nat /\ m + 1 \in Nat
      OBVIOUS
    <2>2. PICK f : Fills(f, t, m)
      OBVIOUS
    <2> DEFINE g == [i \in 0 .. m + 1 |->
                       IF i \in 0 .. m THEN f[i]
                       ELSE W!Created(f[m], IdOf[Order[m + 1]], Order[m + 1])]
    <2>3. f[0] = t /\ \A i \in 1 .. m : f[i] = W!Created(f[i - 1], IdOf[Order[i]], Order[i])
      BY <2>1, <2>2, FillsStep
    <2>4. \A i \in 0 .. m : g[i] = f[i]
      BY <2>1
    <2>5. g[m + 1] = W!Created(f[m], IdOf[Order[m + 1]], Order[m + 1])
      BY <2>1
    <2>6. g = [i \in 0 .. m + 1 |-> g[i]]
      OBVIOUS
    <2> HIDE DEF g
    <2>7. ASSUME NEW i \in 1 .. m + 1
          PROVE  g[i] = W!Created(g[i - 1], IdOf[Order[i]], Order[i])
      <3>1. CASE i \in 1 .. m
        <4>1. i \in 0 .. m /\ i - 1 \in 0 .. m
          BY <2>1, <3>1
        <4>2. g[i] = f[i] /\ g[i - 1] = f[i - 1]
          BY <2>4, <4>1
        <4>3. f[i] = W!Created(f[i - 1], IdOf[Order[i]], Order[i])
          BY <2>3, <3>1
        <4> QED BY <4>2, <4>3
      <3>2. CASE i = m + 1
        <4>1. i - 1 = m /\ m \in 0 .. m
          BY <2>1, <3>2
        <4>2. g[i - 1] = f[m]
          BY <2>4, <4>1
        <4> QED BY <2>5, <3>2, <4>2
      <3> QED BY <2>1, <3>1, <3>2
    <2>8. g[0] = t
      BY <2>1, <2>3, <2>4
    <2>9. Fills(g, t, m + 1)
      BY <2>1, <2>6, <2>7, <2>8, FillsStep
    <2> QED BY <2>1, <2>9
  <1>3. N = Nat
    <2> HIDE DEF N
    <2>1. N \in SUBSET Nat
      BY DEF N
    <2> QED BY <1>1, <1>2, <2>1, Induction
  <1> QED BY <1>3

LEMMA AllFilled ==
  ASSUME NEW t, Filled(t, 0), NEW f, Fills(f, t, Len(Order))
  PROVE  Filled(f[Len(Order)], Len(Order))
  <1>1. Len(Order) \in Nat
    BY ListFits
  <1>2. /\ f[0] = t
        /\ \A i \in 1 .. Len(Order) : f[i] = W!Created(f[i - 1], IdOf[Order[i]], Order[i])
    BY <1>1, FillsStep
  <1> DEFINE P(m) == m <= Len(Order) => Filled(f[m], m)
             N == {m \in Nat : P(m)}
  <1> HIDE DEF P
  <1>3. 0 \in N
    BY <1>2 DEF P
  <1>4. ASSUME NEW m \in N PROVE m + 1 \in N
    <2>1. m \in Nat /\ m + 1 \in Nat /\ P(m)
      OBVIOUS
    <2>2. ASSUME m + 1 <= Len(Order) PROVE Filled(f[m + 1], m + 1)
      <3>1. m < Len(Order) /\ m <= Len(Order) /\ m + 1 \in 1 .. Len(Order) /\ m + 1 - 1 = m
        BY <1>1, <2>1, <2>2
      <3>2. Filled(f[m], m)
        BY <2>1, <3>1 DEF P
      <3>3. f[m + 1] = W!Created(f[m], IdOf[Order[m + 1]], Order[m + 1])
        BY <1>2, <3>1
      <3> QED BY <2>1, <3>1, <3>2, <3>3, CreatedFills
    <2> QED BY <2>1, <2>2 DEF P
  <1>5. N = Nat
    <2> HIDE DEF N
    <2>1. N \in SUBSET Nat
      BY DEF N
    <2> QED BY <1>3, <1>4, <2>1, Induction
  <1>6. P(Len(Order))
    BY <1>1, <1>5
  <1> QED BY <1>1, <1>6 DEF P

LEMMA WBeginKeeps == ASSUME WInv, W!Begin PROVE WInv' /\ NoneMore
  <1> DEFINE table[i \in 0 .. Len(Order)] ==
            IF i = 0 THEN W!Table ELSE W!Created(table[i - 1], IdOf[Order[i]], Order[i])
  <1>1. PICK n \in Nat : n = Len(Order)
    BY ListFits
  <1>2. \E f : Fills(f, W!Table, Len(Order))
    BY <1>1, FillsExist
  <1>3. Fills(table, W!Table, Len(Order))
    <2>1. \E f : f = [i \in 0 .. Len(Order) |->
                        IF i = 0 THEN W!Table ELSE W!Created(f[i - 1], IdOf[Order[i]], Order[i])]
      BY <1>2, Zenon DEF Fills
    <2> QED BY <2>1, Zenon DEF table, Fills
  <1>4. /\ ~begun /\ begun' = TRUE
        /\ W!Becomes(table[Len(Order)])
        /\ UNCHANGED <<link, wire, seated, said, heard, excused>>
    BY Zenon DEF W!Begin, table
  <1>5. PICK t : t = table[Len(Order)]
    OBVIOUS
  <1> HIDE DEF table
  <1>6. /\ private \in Seq(Message) /\ pending \in Seq(Early) /\ Ordered(private) /\ Ordered(pending)
        /\ Len(private) <= MaxQueued /\ Len(pending) <= MaxQueued /\ wconns \in [W!Slot -> Connection]
        /\ link \in BOOLEAN /\ seated \subseteq Player /\ wire \in Seq(Frame) /\ Ordered(wire)
    BY DEF WInv, WFields, WOrder
  <1>7. wconns = [k \in W!Slot |-> W!Free] /\ private = << >>
    <2>1. \A k \in W!Slot : ~wconns[k].used
      BY <1>4 DEF WInv, WSlots
    <2>2. \A k \in W!Slot : wconns[k] = W!Free
      <3>1. WFields
        BY DEF WInv
      <3> QED BY <2>1, <3>1, Slots
    <2>3. \A i \in DOMAIN private : FALSE
      <3> SUFFICES ASSUME NEW i \in DOMAIN private PROVE FALSE
        OBVIOUS
      <3>1. PICK j \in W!Slot : wconns[j] = [used |-> TRUE, id |-> private[i].id, cid |-> private[i].from]
        BY DEF WInv, WWaits
      <3> QED BY <2>1, <3>1
    <2>4. private = << >>
      <3>1. DOMAIN private = 1 .. Len(private) /\ Len(private) \in Nat
        BY <1>6
      <3>2. Len(private) = 0
        BY <2>3, <3>1
      <3> QED BY <1>6, <3>2
    <2> QED BY <1>6, <2>2, <2>4
  <1>8. Filled(W!Table, 0)
    <2>1. W!Table = [conns |-> wconns, private |-> private, pending |-> pending]
      BY DEF W!Table
    <2>2. PICK s : s = W!Table /\ s.conns = wconns /\ s.private = private /\ s.pending = pending
      BY <2>1
    <2>3. wconns = [k \in W!Slot |-> IF k <= 0 THEN [used |-> TRUE, id |-> IdOf[Order[k]], cid |-> Order[k]]
                                     ELSE W!Free]
      <3>1. \A k \in W!Slot : ~(k <= 0)
        BY Sizes DEF W!Slot
      <3> QED BY <1>7, <3>1
    <2>4. Len(private) + Len(pending) <= MaxQueued
      <3>1. Len(private) = 0 /\ Len(pending) \in Nat /\ MaxQueued \in Nat
        BY <1>6, <1>7, Sizes
      <3> QED BY <1>6, <3>1
    <2>5. \A k \in 1 .. 0 : FALSE
      OBVIOUS
    <2>6. DOMAIN private = {}
      BY <1>7
    <2>7. \A q \in Player : W!InQueue(private, q) \cup W!InQueue(pending, q) = InBoth(q)
      BY DEF InBoth
    <2>8. Filled(s, 0)
      BY <1>6, <2>1, <2>2, <2>3, <2>4, <2>5, <2>6, <2>7 DEF Filled
    <2> QED BY <2>2, <2>8
  <1>9. Filled(t, Len(Order))
    BY <1>3, <1>5, <1>8, AllFilled
  <1>10. wconns' = t.conns /\ private' = t.private /\ pending' = t.pending
    BY <1>4, <1>5 DEF W!Becomes
  <1>11. /\ wconns' = [k \in W!Slot |-> IF k <= n THEN [used |-> TRUE, id |-> IdOf[Order[k]], cid |-> Order[k]]
                                        ELSE W!Free]
         /\ private' \in Seq(Message) /\ pending' \in Seq(Early)
         /\ Len(private') + Len(pending') <= MaxQueued
         /\ Ordered(private') /\ Ordered(pending')
         /\ \A j \in DOMAIN private' :
               \E k \in 1 .. n : private'[j].from = Order[k] /\ private'[j].id = IdOf[Order[k]]
         /\ \A j \in DOMAIN pending' : \A k \in 1 .. n : pending'[j].from # Order[k]
         /\ \A q \in Player : W!InQueue(private', q) \cup W!InQueue(pending', q) = InBoth(q)
    BY <1>1, <1>9, <1>10 DEF Filled
  <1>12. \A k \in 1 .. n : k \in W!Slot /\ Order[k] \in Player
    BY <1>1, ListFits
  <1>13. \A k \in W!Slot : k \in Nat \ {0} /\ (k <= n => k \in 1 .. n)
    BY <1>1, Sizes DEF W!Slot
  <1>14. /\ \A k \in W!Slot : k <= n => wconns'[k] = [used |-> TRUE, id |-> IdOf[Order[k]], cid |-> Order[k]]
         /\ \A k \in W!Slot : ~(k <= n) => wconns'[k] = W!Free
    BY <1>11
  <1>15. \A k \in W!Slot :
            wconns'[k].used => /\ k \in 1 .. n
                               /\ wconns'[k].id = IdOf[Order[k]] /\ wconns'[k].cid = Order[k]
    <2> TAKE k \in W!Slot
    <2>1. CASE k <= n
      <3>1. wconns'[k] = [used |-> TRUE, id |-> IdOf[Order[k]], cid |-> Order[k]] /\ k \in 1 .. n
        BY <1>13, <1>14, <2>1
      <3> QED BY <3>1
    <2>2. CASE ~(k <= n)
      BY <1>14, <2>2 DEF W!Free
    <2> QED BY <2>1, <2>2
  <1>16. \A p \in Player : \E k \in 1 .. n : Order[k] = p
    <2>1. DOMAIN Order = 1 .. Len(Order) /\ \A p \in Player : \E k \in DOMAIN Order : Order[k] = p
      BY Sizes
    <2> QED BY <1>1, <2>1
  <1>17. \A k \in 1 .. n : /\ wconns'[k].used /\ wconns'[k].cid = Order[k]
                           /\ wconns'[k] = [used |-> TRUE, id |-> IdOf[Order[k]], cid |-> Order[k]]
    <2> TAKE k \in 1 .. n
    <2>1. wconns'[k] = [used |-> TRUE, id |-> IdOf[Order[k]], cid |-> Order[k]]
      BY <1>1, <1>12, <1>14
    <2> QED BY <2>1
  <1>18. \A p \in Player : HasSlot(p)'
    <2> TAKE p \in Player
    <2>1. PICK k \in 1 .. n : Order[k] = p
      BY <1>16
    <2>2. k \in W!Slot /\ wconns'[k].used /\ wconns'[k].cid = p
      BY <1>12, <1>17, <2>1
    <2> QED BY <2>2 DEF HasSlot
  <1>19. wconns' \in [W!Slot -> Connection]
    <2>1. \A k \in W!Slot : wconns'[k] \in Connection
      <3> TAKE k \in W!Slot
      <3>1. CASE k <= n
        <4>1. Order[k] \in Player /\ IdOf[Order[k]] \in Nat \ {0}
          BY <1>12, <1>13, <3>1, Sizes
        <4>2. wconns'[k] = [used |-> TRUE, id |-> IdOf[Order[k]], cid |-> Order[k]]
          BY <1>14, <3>1
        <4>3. [used |-> TRUE, id |-> IdOf[Order[k]], cid |-> Order[k]]
                \in [used : {TRUE}, id : Nat \ {0}, cid : Player]
          BY <4>1
        <4> QED BY <4>2, <4>3 DEF Connection
      <3>2. CASE ~(k <= n)
        BY <1>14, <3>2 DEF Connection
      <3> QED BY <3>1, <3>2
    <2> QED BY <1>11, <2>1
  <1>20. WFields'
    <2>1. Len(private') <= MaxQueued /\ Len(pending') <= MaxQueued
      <3>1. Len(private') \in Nat /\ Len(pending') \in Nat /\ MaxQueued \in Nat
        BY <1>11, Sizes
      <3> QED BY <1>11, <3>1
    <2> QED BY <1>4, <1>6, <1>11, <1>19, <2>1 DEF WFields
  <1>21. Shared' /\ HeardInOrder'
    BY <1>4 DEF WInv, Shared, HeardInOrder
  <1>22. WSlots'
    <2>1. \A i, j \in W!Slot : wconns'[i].used /\ wconns'[j].used /\ wconns'[i].cid = wconns'[j].cid => i = j
      <3>1. \A a, b \in 1 .. n : Order[a] = Order[b] => a = b
        <4>1. DOMAIN Order = 1 .. n
          BY <1>1, Sizes
        <4>2. \A a, b \in DOMAIN Order : Order[a] = Order[b] => a = b
          BY Sizes
        <4> QED BY <4>1, <4>2
      <3> QED BY <1>15, <3>1
    <2> QED BY <1>4, <1>15, <2>1 DEF WSlots
  <1>23. WWaits'
    <2>1. \A i \in DOMAIN private' : \E j \in W!Slot :
             wconns'[j] = [used |-> TRUE, id |-> private'[i].id, cid |-> private'[i].from]
      <3> TAKE i \in DOMAIN private'
      <3>1. PICK k \in 1 .. n : private'[i].from = Order[k] /\ private'[i].id = IdOf[Order[k]]
        BY <1>11
      <3> QED BY <1>12, <1>17, <3>1
    <2>2. ASSUME NEW i \in DOMAIN pending' PROVE FALSE
      <3>1. pending'[i] \in Early
        BY <1>11
      <3>2. pending'[i].from \in Player
        BY <3>1 DEF Early
      <3> QED BY <1>11, <1>16, <3>2
    <2> QED BY <2>1, <2>2 DEF WWaits
  <1>24. \A p \in Player : /\ InBoth(p)' = InBoth(p) /\ W!Heard(p)' = W!Heard(p)
                           /\ W!InQueue(wire, p)' = W!InQueue(wire, p)
    <2> TAKE p \in Player
    <2>1. W!InQueue(private, p)' = W!InQueue(private', p) /\ W!InQueue(pending, p)' = W!InQueue(pending', p)
      BY DEF W!InQueue
    <2>2. InBoth(p)' = InBoth(p)
      BY <1>11, <2>1 DEF InBoth
    <2>3. W!Heard(p)' = W!Heard(p) /\ W!InQueue(wire, p)' = W!InQueue(wire, p)
      BY <1>4 DEF W!InQueue, W!Heard
    <2> QED BY <2>2, <2>3
  <1>25. WOrder'
    <2>1. \A p \in Player :
             /\ Below(W!Heard(p), InBoth(p)) /\ Below(W!Heard(p), W!InQueue(wire, p))
             /\ Below(InBoth(p), W!InQueue(wire, p))
             /\ InBoth(p) \cup W!InQueue(wire, p) \subseteq 0 .. said[p]
      BY DEF WInv, WOrder
    <2>2. Ordered(private)' /\ Ordered(pending)' /\ Ordered(wire)'
      BY <1>4, <1>6, <1>11 DEF Ordered
    <2>3. said' = said
      BY <1>4
    <2> QED BY <1>24, <2>1, <2>2, <2>3, Zenon DEF WOrder
  <1>26. WKept'
    <2> SUFFICES ASSUME NEW q \in Player \ excused
                 PROVE  1 .. said[q] \subseteq W!Heard(q)' \cup InBoth(q)' \cup W!InQueue(wire, q)'
      BY <1>4, <1>18 DEF WKept
    <2>1. 1 .. said[q] \subseteq W!Heard(q) \cup InBoth(q) \cup W!InQueue(wire, q)
      BY DEF WInv, WKept
    <2> QED BY <1>24, <2>1
  <1>27. NoneMore
    BY <1>4, <1>24 DEF NoneMore, Waiting
  <1> QED BY <1>20, <1>21, <1>22, <1>23, <1>25, <1>26, <1>27 DEF WInv
(***************************************************************************)
(* The connections in the order the game counts them.                      *)
(***************************************************************************)
LEMMA WIdsAre ==
  ASSUME WFields, WSlots
  PROVE  /\ W!Ids \in Seq(Nat \ {0})
         /\ \A k \in DOMAIN W!Ids : \E p \in Player : IdOf[p] = W!Ids[k]
         /\ \A k, l \in DOMAIN W!Ids : W!Ids[k] = W!Ids[l] => k = l
  <1>1. PICK s : s = [i \in W!Slot |-> wconns[i].id]
    OBVIOUS
  <1>2. PICK K : K = {i \in W!Slot : wconns[i].used}
    OBVIOUS
  <1>3. PICK t : t = W!Ids
    OBVIOUS
  <1>4. s \in Seq(Nat) /\ Len(s) = MaxConnections /\ W!Slot = 1 .. MaxConnections
    <2>1. \A i \in W!Slot : wconns[i].id \in Nat
      <3> TAKE i \in W!Slot
      <3>1. wconns[i].used \in BOOLEAN
        BY Slots
      <3>2. CASE wconns[i].used
        BY <3>2, Slots
      <3>3. CASE ~wconns[i].used
        <4>1. wconns[i] = W!Free
          BY <3>3, Slots
        <4> QED BY <4>1 DEF W!Free
      <3> QED BY <3>1, <3>2, <3>3
    <2>2. PICK m \in Nat : m = MaxConnections
      BY Sizes
    <2>3. W!Slot = 1 .. m
      BY <2>2 DEF W!Slot
    <2>4. s \in [1 .. m -> Nat]
      BY <1>1, <2>1, <2>3
    <2> QED BY <2>2, <2>3, <2>4
  <1>5. t = W!Only(s, K)
    BY <1>1, <1>2, <1>3 DEF W!Ids
  <1>6. t \in Seq(Nat) /\ \E e : Leads(e, t, s, K \cap 1 .. Len(s))
    BY <1>4, <1>5, OnlyTakes
  <1>7. PICK e : Leads(e, t, s, K \cap 1 .. Len(s))
    BY <1>6
  <1>8. DOMAIN t = 1 .. Len(t) /\ Len(t) \in Nat
    BY <1>6
  <1>9. /\ \A k \in DOMAIN t : e[k] \in W!Slot /\ wconns[e[k]].used /\ t[k] = wconns[e[k]].id
        /\ \A k, l \in DOMAIN t : k < l => e[k] < e[l]
    BY <1>1, <1>2, <1>4, <1>7, <1>8 DEF Leads
  <1>10. \A k \in DOMAIN t : /\ wconns[e[k]].cid \in Player /\ wconns[e[k]].id \in Nat \ {0}
                             /\ t[k] = IdOf[wconns[e[k]].cid]
    BY <1>9, Slots DEF WSlots
  <1>11. \A k, l \in DOMAIN t : t[k] = t[l] => k = l
    <2> SUFFICES ASSUME NEW k \in DOMAIN t, NEW l \in DOMAIN t, t[k] = t[l], k < l PROVE FALSE
      BY <1>8
    <2>1. e[k] < e[l] /\ e[k] \in Nat /\ e[l] \in Nat
      BY <1>9, Sizes DEF W!Slot
    <2>2. \A a, b \in Player : IdOf[a] = IdOf[b] => a = b
      BY Sizes
    <2>3. wconns[e[k]].cid = wconns[e[l]].cid
      BY <1>10, <2>2
    <2>4. e[k] = e[l]
      BY <1>9, <2>3 DEF WSlots
    <2> QED BY <2>1, <2>4
  <1>12. t \in Seq(Nat \ {0})
    <2>1. \A k \in DOMAIN t : t[k] \in Nat \ {0}
      BY <1>9, <1>10
    <2>2. PICK m \in Nat : m = Len(t)
      BY <1>8
    <2>3. t \in [1 .. m -> Nat \ {0}]
      BY <1>6, <1>8, <2>1, <2>2
    <2> QED BY <2>3
  <1>13. \A k \in DOMAIN t : \E p \in Player : IdOf[p] = t[k]
    BY <1>10
  <1> QED BY <1>3, <1>11, <1>12, <1>13

LEMMA NoSlots ==
  ASSUME WFields, \A i \in W!Slot : ~wconns[i].used, NEW s, s = [i \in W!Slot |-> wconns[i].id]
  PROVE  W!Only(s, {}) = << >>
  <1>1. PICK m \in Nat : m = MaxConnections
    BY Sizes
  <1>2. \A i \in W!Slot : wconns[i].id \in Nat
    <2> TAKE i \in W!Slot
    <2>1. wconns[i] = W!Free
      BY Slots
    <2> QED BY <2>1 DEF W!Free
  <1>3. s \in [1 .. m -> Nat]
    BY <1>1, <1>2 DEF W!Slot
  <1>4. s \in Seq(Nat)
    BY <1>3
  <1>5. PICK t : t = W!Only(s, {})
    OBVIOUS
  <1>6. t \in Seq(Nat) /\ \E e : Leads(e, t, s, {} \cap 1 .. Len(s))
    BY <1>4, <1>5, OnlyTakes
  <1>7. PICK e : e \in [1 .. Len(t) -> {} \cap 1 .. Len(s)]
    BY <1>6 DEF Leads
  <1>8. \A i \in 1 .. Len(t) : FALSE
    BY <1>7
  <1>9. Len(t) = 0
    BY <1>6, <1>8
  <1> QED BY <1>5, <1>6, <1>9

LEMMA UIdsAre ==
  ASSUME UFields
  PROVE  /\ U!Ids \in Seq(Nat \ {0})
         /\ \A k \in DOMAIN U!Ids : \E p \in Player : IdOf[p] = U!Ids[k]
         /\ \A k, l \in DOMAIN U!Ids : U!Ids[k] = U!Ids[l] => k = l
  <1>1. PICK n \in Nat : n = Len(uconns) /\ DOMAIN uconns = 1 .. n
    BY DEF UFields
  <1>2. \A k \in 1 .. n : uconns[k] \in Player /\ IdOf[uconns[k]] \in Nat \ {0}
    <2>1. \A k \in 1 .. n : uconns[k] \in Player
      BY <1>1 DEF UFields
    <2>2. \A p \in Player : IdOf[p] \in Nat \ {0}
      BY Sizes
    <2> QED BY <2>1, <2>2
  <1>3. U!Ids = [k \in 1 .. n |-> IdOf[uconns[k]]]
    BY <1>1 DEF U!Ids
  <1>4. PICK t : t = U!Ids
    OBVIOUS
  <1>5. t \in [1 .. n -> Nat \ {0}] /\ \A k \in 1 .. n : t[k] = IdOf[uconns[k]]
    BY <1>2, <1>3, <1>4
  <1>6. t \in Seq(Nat \ {0}) /\ DOMAIN t = 1 .. n
    BY <1>5
  <1>7. \A k, l \in 1 .. n : t[k] = t[l] => k = l
    <2>1. \A a, b \in Player : IdOf[a] = IdOf[b] => a = b
      BY Sizes
    <2>2. \A k, l \in 1 .. n : t[k] = t[l] => uconns[k] = uconns[l]
      BY <1>2, <1>5, <2>1
    <2>3. \A k, l \in 1 .. n : uconns[k] = uconns[l] => k = l
      BY <1>1 DEF UFields
    <2> QED BY <2>2, <2>3
  <1> QED BY <1>2, <1>4, <1>5, <1>6, <1>7

(***************************************************************************)
(* The game over either of them.                                           *)
(***************************************************************************)
\* The manager the game did not choose stays as it was.
UIdle ==
    /\ transport \in Transport /\ uconns = << >> /\ cur = 0
    /\ came = [p \in Player |-> 0] /\ inbox = [p \in Player |-> << >>]
    /\ sendQ = [p \in Player |-> 0] /\ casts = 0 /\ waits = [p \in Player |-> 0]
WIdle ==
    /\ link = TRUE /\ wconns = [i \in W!Slot |-> W!Free]
    /\ private = << >> /\ pending = << >> /\ wire = << >> /\ seated = Player

Managed ==
    /\ kind \in Kind
    /\ kind = "wol" => WInv /\ UIdle
    /\ kind = "udp" => UInv /\ WIdle

LEMMA NothingYet == ASSUME Init PROVE Shared /\ HeardInOrder /\ UIdle /\ WIdle /\ ~begun
  <1>1. \A p \in Player : << >> \in Seq(Player \X Nat) /\ 0 \in 0 .. Lot
    BY Sizes
  <1>2. Shared
    BY <1>1 DEF Init, W!Init, Shared
  <1>3. HeardInOrder
    BY DEF Init, W!Init, HeardInOrder
  <1> QED BY <1>2, <1>3 DEF Init, W!Init, U!Init, UIdle, WIdle

LEMMA WInitially == ASSUME Init PROVE WInv
  <1>1. Shared /\ HeardInOrder /\ WIdle /\ ~begun
    BY NothingYet
  <1>2. WFields
    BY <1>1, Sizes DEF WIdle, WFields, Connection
  <1>3. \A i \in W!Slot : ~wconns[i].used
    BY <1>1 DEF WIdle, W!Free
  <1>4. WSlots
    BY <1>3 DEF WSlots
  <1>5. WWaits
    BY <1>1 DEF WIdle, WWaits
  <1>6. \A p : W!InQueue(private, p) = {} /\ W!InQueue(pending, p) = {} /\ W!InQueue(wire, p) = {}
    BY <1>1 DEF WIdle, W!InQueue
  <1>7. WOrder
    <2>1. Ordered(private) /\ Ordered(pending) /\ Ordered(wire)
      BY <1>1 DEF WIdle, Ordered
    <2> QED BY <1>6, <2>1 DEF WOrder, Below, InBoth
  <1>8. WKept
    <2>1. said = [p \in Player |-> 0]
      BY DEF Init, W!Init
    <2> QED BY <1>1, <2>1 DEF WKept
  <1> QED BY <1>1, <1>2, <1>4, <1>5, <1>7, <1>8 DEF WInv

LEMMA UInitially == ASSUME Init PROVE UInv
  <1>1. Shared /\ HeardInOrder /\ UIdle /\ ~begun
    BY NothingYet
  <1>2. \A p \in Player : ~U!Connected(p)
    BY <1>1 DEF UIdle, U!Connected
  <1>3. UFields
    <2>1. \A p \in Player : inbox[p] = << >> /\ Len(inbox[p]) <= MaxReceive
      BY <1>1, Sizes DEF UIdle
    <2>2. << >> \in Seq(Player) /\ << >> \in Seq(Nat) /\ 0 \in 0 .. Lot /\ 0 \in 0 .. MaxSend /\ 0 \in 0 .. Casts
      BY Sizes
    <2> QED BY <1>1, <2>1, <2>2 DEF UIdle, UFields
  <1>4. said = [p \in Player |-> 0] /\ heard = [p \in Player |-> << >>]
    BY DEF Init, W!Init
  <1>5. UOrder
    BY <1>1, <1>4 DEF UIdle, UOrder, InOrder
  <1>6. UKept
    BY <1>1 DEF UIdle, UKept
  <1>7. UTurns
    BY <1>1 DEF UIdle, UTurns
  <1> QED BY <1>1, <1>3, <1>5, <1>6, <1>7 DEF UInv

LEMMA ManagedInitially == Init => Managed
  <1> SUFFICES ASSUME Init PROVE Managed
    OBVIOUS
  <1> QED BY NothingYet, WInitially, UInitially DEF Init, Managed

LEMMA WolKept ==
  ASSUME Managed, Wol, WInv' PROVE Managed'
  BY DEF Managed, Wol, Over, udpVars, UIdle

LEMMA UdpKept ==
  ASSUME Managed, Udp, UInv' PROVE Managed'
  BY DEF Managed, Udp, Over, wolVars, WIdle


LEMMA IdsAre ==
  ASSUME Managed
  PROVE  /\ Ids \in Seq(Nat \ {0}) /\ Len(Ids) \in Nat /\ DOMAIN Ids = 1 .. Len(Ids)
         /\ Len(Ids) <= Cardinality(Player)
         /\ \A k \in DOMAIN Ids : PlayerAt(k) \in Player /\ IdOf[PlayerAt(k)] = Ids[k]
         /\ \A k, l \in DOMAIN Ids : PlayerAt(k) = PlayerAt(l) => k = l
         /\ \A k \in DOMAIN Ids, p \in Player : Ids[k] = IdOf[p] => PlayerAt(k) = p
  <1>1. PICK t : t = Ids
    OBVIOUS
  <1>2. /\ t \in Seq(Nat \ {0})
        /\ \A k \in DOMAIN t : \E p \in Player : IdOf[p] = t[k]
        /\ \A k, l \in DOMAIN t : t[k] = t[l] => k = l
    <2>1. CASE kind = "wol"
      <3>1. WFields /\ WSlots /\ t = W!Ids
        BY <1>1, <2>1 DEF Managed, WInv, Ids
      <3> QED BY <3>1, WIdsAre
    <2>2. CASE kind # "wol"
      <3>1. UFields /\ t = U!Ids
        BY <1>1, <2>2, KindAssumption DEF Managed, UInv, Ids
      <3> QED BY <3>1, UIdsAre
    <2> QED BY <2>1, <2>2
  <1>3. PICK n \in Nat : n = Len(t) /\ DOMAIN t = 1 .. n
    BY <1>2
  <1>4. \A a, b \in Player : IdOf[a] = IdOf[b] => a = b
    BY Sizes
  <1>5. \A k : PlayerAt(k) = CHOOSE p \in Player : IdOf[p] = t[k]
    BY <1>1 DEF PlayerAt
  <1>6. ASSUME NEW k \in DOMAIN t PROVE PlayerAt(k) \in Player /\ IdOf[PlayerAt(k)] = t[k]
    <2>1. \E p \in Player : IdOf[p] = t[k]
      BY <1>2
    <2> QED BY <1>5, <2>1, Zenon
  <1>7. \A k, l \in DOMAIN t : PlayerAt(k) = PlayerAt(l) => k = l
    <2> TAKE k, l \in DOMAIN t
    <2> HAVE PlayerAt(k) = PlayerAt(l)
    <2>1. t[k] = t[l]
      BY <1>6, Zenon
    <2> QED BY <1>2, <2>1
  <1>8. \A k \in DOMAIN t, p \in Player : t[k] = IdOf[p] => PlayerAt(k) = p
    BY <1>4, <1>6
  <1>9. n <= Cardinality(Player)
    <2>1. PICK s : s = [k \in 1 .. n |-> PlayerAt(k)]
      OBVIOUS
    <2>2. s \in [1 .. n -> Player] /\ \A k \in 1 .. n : s[k] = PlayerAt(k)
      BY <1>3, <1>6, <2>1
    <2>3. s \in Seq(Player) /\ Len(s) = n /\ DOMAIN s = 1 .. n
      BY <2>2
    <2>4. \A k, l \in DOMAIN s : s[k] = s[l] => k = l
      BY <1>3, <1>7, <2>2, <2>3
    <2> QED BY <2>3, <2>4, FewPlayers
  <1> QED BY <1>1, <1>2, <1>3, <1>6, <1>7, <1>8, <1>9

\* The same as one formula.
IdsFine ==
    /\ Ids \in Seq(Nat \ {0}) /\ Len(Ids) <= Cardinality(Player)
    /\ \A k \in DOMAIN Ids : k \in 1 .. Cardinality(Player) /\ PlayerAt(k) \in Player

LEMMA IdsAreFine == Managed => IdsFine
  <1> SUFFICES ASSUME Managed PROVE IdsFine
    OBVIOUS
  <1>1. PICK n \in Nat : n = Len(Ids) /\ DOMAIN Ids = 1 .. n /\ n <= Cardinality(Player)
    BY IdsAre
  <1>2. \A k \in 1 .. n : k \in 1 .. Cardinality(Player)
    BY <1>1, Sizes
  <1> QED BY <1>1, <1>2, IdsAre DEF IdsFine

\* Handle_Timeout finds one of the connections.
LEMMA OldestIsListed ==
  ASSUME Managed, theirFrame \in [1 .. Cardinality(Player) -> 0 .. Lot], Ids # << >>
  PROVE  Oldest \in DOMAIN Ids /\ PlayerAt(Oldest) \in Player
  <1>1. PICK n \in Nat : n = Len(Ids) /\ DOMAIN Ids = 1 .. n /\ n <= Cardinality(Player)
    BY IdsAre
  <1>2. n > 0
    <2>1. Ids \in Seq(Nat \ {0})
      BY IdsAre
    <2> QED BY <1>1, <2>1
  <1>3. \A k \in 1 .. n : theirFrame[k] \in Nat
    <2>1. \A k \in 1 .. n : k \in 1 .. Cardinality(Player)
      BY <1>1, Sizes
    <2> QED BY <2>1, Sizes
  <1>4. PICK S : S = {theirFrame[k] : k \in 1 .. n}
    OBVIOUS
  <1>5. 1 \in 1 .. n
    BY <1>2
  <1>6. S \in SUBSET Nat /\ S # {}
    BY <1>3, <1>4, <1>5
  <1>7. PICK x \in S : \A y \in S : x <= y
    BY <1>6, LeastOf
  <1>8. PICK T : T = {k \in 1 .. n : theirFrame[k] = x}
    OBVIOUS
  <1>9. T \in SUBSET Nat /\ T # {}
    BY <1>4, <1>7, <1>8
  <1>10. PICK i \in T : \A k \in T : i <= k
    BY <1>9, LeastOf
  <1>11. i \in 1 .. n /\ theirFrame[i] = x /\ \A k \in 1 .. n : x <= theirFrame[k]
    BY <1>4, <1>7, <1>8, <1>10
  <1>12. \A k \in 1 .. i - 1 : theirFrame[i] < theirFrame[k]
    <2> TAKE k \in 1 .. i - 1
    <2>1. k \in 1 .. n /\ k < i /\ k \in Nat /\ i \in Nat
      BY <1>1, <1>11
    <2>2. k \notin T
      BY <1>9, <1>10, <2>1
    <2>3. theirFrame[k] # x /\ x <= theirFrame[k] /\ theirFrame[k] \in Nat /\ x \in Nat
      BY <1>3, <1>6, <1>7, <1>8, <1>11, <2>1, <2>2
    <2> QED BY <1>11, <2>3
  <1>13. \E j \in DOMAIN Ids : /\ \A k \in DOMAIN Ids : theirFrame[j] <= theirFrame[k]
                               /\ \A k \in 1 .. j - 1 : theirFrame[j] < theirFrame[k]
    BY <1>1, <1>11, <1>12
  <1>14. Oldest \in DOMAIN Ids
    BY <1>13, Zenon DEF Oldest
  <1> QED BY <1>14, IdsAre

LEMMA ManagedKept == ASSUME Managed, theirFrame \in [1 .. Cardinality(Player) -> 0 .. Lot], [Next]_vars PROVE Managed'
  <1>1. CASE WolRuns
    <2>1. Wol /\ WInv
      BY <1>1 DEF WolRuns, Wol, Over, Managed
    <2>2. CASE \E p \in Player : W!Say(p) \/ W!Leave(p)
      BY <2>1, <2>2, WSayKeeps, WLeaveKeeps, WolKept
    <2>3. CASE W!Begin \/ W!ServiceRelay \/ W!LinkLost \/ W!Shutdown
      BY <2>1, <2>3, WBeginKeeps, WRelayKeeps, WLostKeeps, WShutdownKeeps, WolKept
    <2> QED BY <1>1, <2>2, <2>3 DEF WolRuns
  <1>2. CASE WolPeerLeft
    <2>1. Wol /\ WInv /\ W!ServiceLeft
      BY <1>2 DEF WolPeerLeft, Wol, Over, Managed
    <2> QED BY <2>1, WLeftKeeps, WolKept
  <1>3. CASE UdpRuns
    <2>1. Udp /\ UInv
      BY <1>3 DEF UdpRuns, Udp, Over, Managed
    <2>2. CASE \E p \in Player : U!Say(p) \/ U!Sent(p)
      BY <2>1, <2>2, USayKeeps, USentKeeps, UdpKept
    <2>3. CASE U!Begin \/ U!Broadcast
      BY <2>1, <2>3, UBeginKeeps, UBroadcastKeeps, UdpKept
    <2>4. CASE U!Service
      BY <2>1, <2>4, UReceiveKeeps, UdpKept DEF U!Service
    <2> QED BY <1>3, <2>2, <2>3, <2>4 DEF UdpRuns
  <1>4. CASE ReadPacket
    <2>1. CASE Wol /\ W!Get
      <3>1. WInv
        BY <2>1 DEF Wol, Over, Managed
      <3> QED BY <2>1, <3>1, WGetKeeps, WolKept
    <2>2. CASE Udp /\ U!Get
      <3>1. UInv
        BY <2>2 DEF Udp, Over, Managed
      <3> QED BY <2>2, <3>1, UGetKeeps, UdpKept
    <2> QED BY <1>4, <2>1, <2>2 DEF ReadPacket
  <1>5. ASSUME NEW p \in Player, Delete(p) PROVE Managed'
    <2>1. CASE Wol /\ W!Delete(IdOf[p])
      <3>1. WInv
        BY <2>1 DEF Wol, Over, Managed
      <3> QED BY <2>1, <3>1, WDeleteKeeps, WolKept
    <2>2. CASE Udp /\ U!Delete(IdOf[p])
      <3>1. UInv
        BY <2>2 DEF Udp, Over, Managed
      <3> QED BY <2>2, <3>1, UDeleteKeeps, UdpKept
    <2> QED BY <1>5, <2>1, <2>2 DEF Delete
  <1>6. CASE HandleTimeout
    <2>1. Delete(PlayerAt(Oldest)) /\ PlayerAt(Oldest) \in Player
      BY <1>6, OldestIsListed DEF HandleTimeout
    <2> QED BY <1>5, <2>1
  <1>7. ASSUME NEW p \in Player, ExecuteExit(p) \/ SignOff(p) PROVE Managed'
    BY <1>5, <1>7 DEF ExecuteExit, SignOff
  <1>8. CASE UNCHANGED vars
    <2>1. UNCHANGED <<kind, begun, said, heard, excused>> /\ UNCHANGED wolVars /\ UNCHANGED udpVars
      BY <1>8 DEF vars, shared
    <2>2. CASE kind = "wol"
      <3>1. Wol /\ WInv
        BY <2>1, <2>2 DEF Managed, Wol, Over
      <3>2. WFields' /\ WSlots' /\ WWaits' /\ Shared' /\ HeardInOrder'
        BY <2>1, <3>1 DEF WInv, wolVars, WFields, WSlots, WWaits, HasSlot, Shared,
            HeardInOrder
      <3>3. \A p : /\ InBoth(p)' = InBoth(p) /\ W!Heard(p)' = W!Heard(p) /\ HasSlot(p)' = HasSlot(p)
                   /\ W!InQueue(wire, p)' = W!InQueue(wire, p)
        BY <2>1 DEF wolVars, InBoth, W!InQueue, W!Heard, HasSlot
      <3>4. WOrder'
        <4>1. Ordered(private)' /\ Ordered(pending)' /\ Ordered(wire)'
          BY <2>1, <3>1 DEF WInv, WOrder, wolVars, Ordered
        <4>2. said' = said
          BY <2>1
        <4> QED BY <3>1, <3>3, <4>1, <4>2, Zenon DEF WInv, WOrder
      <3>5. WKept'
        BY <2>1, <3>1, <3>3 DEF WInv, WKept
      <3> QED BY <3>1, <3>2, <3>4, <3>5, WolKept DEF WInv
    <2>3. CASE kind = "udp"
      <3>1. Udp /\ UInv
        BY <2>1, <2>3 DEF Managed, Udp, Over
      <3>2. UFields' /\ UOrder' /\ UTurns' /\ Shared' /\ HeardInOrder'
        BY <2>1, <3>1 DEF UInv, udpVars, UFields, UOrder, UTurns, Before, InOrder,
            U!Connected,
                          Shared, HeardInOrder
      <3>3. UKept'
        BY <2>1, <3>1 DEF UInv, udpVars, UKept, U!Connected, U!Heard, U!Held
      <3> QED BY <3>1, <3>2, <3>3, UdpKept DEF UInv
    <2> QED BY <2>2, <2>3, KindAssumption DEF Managed
  <1> QED BY <1>1, <1>2, <1>3, <1>4, <1>6, <1>7, <1>8 DEF Next

(***************************************************************************)
(* The frames the game keeps.                                              *)
(***************************************************************************)
Frames ==
    /\ theirFrame \in [1 .. Cardinality(Player) -> 0 .. Lot] /\ unannounced \in BOOLEAN
    /\ ~begun => /\ \A p \in Player : heard[p] = << >>
                 /\ \A i \in 1 .. Cardinality(Player) : theirFrame[i] = 0
    /\ FramesAreTheirs

Inv == Managed /\ Frames

LEMMA LatestIs ==
  ASSUME Shared, HeardInOrder, NEW p \in Player
  PROVE  Latest(p) \in 0 .. said[p] /\ said[p] \in 0 .. Lot /\ Latest(p) \in 0 .. Lot
  <1>1. said[p] \in 0 .. Lot /\ Lot \in Nat /\ heard[p] \in Seq(Player \X Nat)
    BY Sizes DEF Shared
  <1>2. CASE heard[p] = << >>
    BY <1>1, <1>2 DEF Latest
  <1>3. CASE heard[p] # << >>
    <2>1. Len(heard[p]) \in DOMAIN heard[p]
      BY <1>1, <1>3
    <2>2. heard[p][Len(heard[p])][2] \in 1 .. said[p]
      BY <2>1 DEF HeardInOrder
    <2> QED BY <1>1, <1>3, <2>2 DEF Latest
  <1> QED BY <1>2, <1>3

LEMMA SharedBy == ASSUME Managed PROVE Shared /\ HeardInOrder
  BY KindAssumption DEF Managed, WInv, UInv

LEMMA NoneYet == ASSUME Managed, ~begun PROVE Ids = << >>
  <1>1. CASE kind = "wol"
    <2>1. WFields /\ WSlots
      BY <1>1 DEF Managed, WInv
    <2>2. \A i \in W!Slot : ~wconns[i].used
      BY <2>1 DEF WSlots
    <2>3. PICK s : s = [i \in W!Slot |-> wconns[i].id]
      OBVIOUS
    <2>4. Ids = W!Only(s, {})
      BY <1>1, <2>2, <2>3 DEF Ids, W!Ids
    <2> QED BY <2>1, <2>2, <2>3, <2>4, NoSlots
  <1>2. CASE kind # "wol"
    BY <1>2, KindAssumption DEF Managed, UInv, UFields, Ids, U!Ids
  <1> QED BY <1>1, <1>2

\* Steps after which the same players are connected and nothing new is read.
LEMMA FramesStay ==
  ASSUME Inv, Managed', UNCHANGED <<kind, heard, theirFrame, unannounced>>,
         \/ UNCHANGED begun /\ (Ids' = Ids \/ Ids' = << >>)
         \/ ~begun /\ begun' = TRUE
  PROVE  Frames'
  <1>1. \A p : Latest(p)' = Latest(p)
    BY DEF Latest
  <1>2. FramesAreTheirs'
    <2>1. CASE Ids' = Ids
      <3>1. \A i : PlayerAt(i)' = PlayerAt(i)
        BY <2>1 DEF PlayerAt
      <3> QED BY <1>1, <2>1, <3>1 DEF Inv, Frames, FramesAreTheirs, Latest
    <2>2. CASE Ids' = << >>
      BY <2>2 DEF FramesAreTheirs
    <2>3. CASE ~begun
      <3>1. IdsFine'
        BY IdsAreFine, PTL
      <3> QED BY <2>3, <3>1 DEF IdsFine, Inv, Frames, FramesAreTheirs, Latest
    <2> QED BY <2>1, <2>2, <2>3
  <1> QED BY <1>2 DEF Inv, Frames
\* Delete_Connection takes the player's number out of the list.
LEMMA IdsDelete ==
  ASSUME Managed, NEW p \in Player, Delete(p)
  PROVE  /\ begun /\ UNCHANGED <<kind, begun, said, heard>>
         /\ \E a \in DOMAIN Ids : Ids[a] = IdOf[p] /\ Ids' = Without(Ids, a)
  <1>1. CASE Wol /\ W!Delete(IdOf[p])
    <2>1. WInv /\ kind = "wol" /\ kind' = kind
      BY <1>1 DEF Wol, Over, Managed
    <2>2. PICK i \in W!Slot : wconns[i].used /\ wconns[i].cid = p /\ wconns' = [wconns EXCEPT ![i] = W!Free]
      BY <1>1, <2>1, WDeleteKeeps
    <2>3. UNCHANGED <<begun, said, heard>>
      BY <1>1, <2>1, WDeleteKeeps
    <2>4. WFields /\ WSlots /\ begun
      BY <2>1, <2>2 DEF WInv, WSlots, Shared
    <2>5. PICK s : s = [k \in W!Slot |-> wconns[k].id]
      OBVIOUS
    <2>6. PICK u : u = [k \in W!Slot |-> wconns'[k].id]
      OBVIOUS
    <2>7. PICK K : K = {k \in W!Slot : wconns[k].used}
      OBVIOUS
    <2>8. PICK m \in Nat : m = MaxConnections
      BY Sizes
    <2>9. W!Slot = 1 .. m
      BY <2>8 DEF W!Slot
    <2>10. \A k \in W!Slot : wconns[k].id \in Nat
      <3> TAKE k \in W!Slot
      <3>1. wconns[k].used \in BOOLEAN /\ (wconns[k].used => wconns[k].id \in Nat)
            /\ (~wconns[k].used => wconns[k] = W!Free)
        BY <2>4, Slots
      <3> QED BY <3>1 DEF W!Free
    <2>11. /\ wconns'[i] = W!Free /\ \A k \in W!Slot : k # i => wconns'[k] = wconns[k]
      BY <2>2, <2>4 DEF WFields
    <2>12. \A k \in W!Slot : wconns'[k].id \in Nat
      BY <2>10, <2>11 DEF W!Free
    <2>13. s \in Seq(Nat) /\ u \in Seq(Nat) /\ Len(s) = m /\ Len(u) = m
      <3>1. s \in [1 .. m -> Nat] /\ u \in [1 .. m -> Nat]
        BY <2>5, <2>6, <2>9, <2>10, <2>12
      <3> QED BY <2>8, <3>1
    <2>14. \A k \in 1 .. m : k # i => u[k] = s[k]
      BY <2>5, <2>6, <2>9, <2>11
    <2>15. i \in K \cap 1 .. Len(s) /\ s[i] = IdOf[p]
      BY <2>2, <2>4, <2>5, <2>7, <2>9, <2>13 DEF WSlots
    <2>16. TakesOut(s[i], W!Only(s, K), W!Only(u, K \ {i}))
      <3>1. Len(u) = Len(s) /\ \A k \in 1 .. Len(s) : k # i => u[k] = s[k]
        BY <2>13, <2>14
      <3> QED BY <2>13, <2>15, <3>1, OnlyWithout
    <2>17. {k \in W!Slot : wconns'[k].used} = K \ {i}
      BY <2>7, <2>11 DEF W!Free
    <2>18. Ids = W!Only(s, K)
      BY <2>1, <2>5, <2>7 DEF Ids, W!Ids
    <2>19. Ids' = W!Only(u, K \ {i})
      <3>1. Ids' = W!Only([k \in W!Slot |-> wconns'[k].id], {k \in W!Slot : wconns'[k].used})
        BY <2>1 DEF Ids, W!Ids, W!Slot
      <3> QED BY <2>6, <2>17, <3>1
    <2>20. TakesOut(IdOf[p], Ids, Ids')
      BY <2>15, <2>16, <2>18, <2>19
    <2>21. DOMAIN Ids = 1 .. Len(Ids)
      BY IdsAre
    <2> QED BY <2>1, <2>3, <2>4, <2>20, <2>21 DEF TakesOut
  <1>2. CASE Udp /\ U!Delete(IdOf[p])
    <2>1. UInv /\ kind = "udp" /\ kind' = kind
      BY <1>2 DEF Udp, Over, Managed
    <2>2. PICK i \in DOMAIN uconns : uconns[i] = p /\ uconns' = U!RemoveAt(uconns, i)
      BY <1>2, <2>1, UDeleteKeeps
    <2>3. UNCHANGED <<begun, said, heard>>
      BY <1>2, <2>1, UDeleteKeeps
    <2>4. PICK n \in Nat : n = Len(uconns) /\ DOMAIN uconns = 1 .. n
      BY <2>1 DEF UInv, UFields
    <2>5. begun
      <3>1. begun \in BOOLEAN
        BY <2>1 DEF UInv, Shared
      <3>2. ~begun => uconns = << >>
        BY <2>1 DEF UInv, UFields
      <3> QED BY <2>2, <3>1, <3>2
    <2>6. Ids = [k \in 1 .. n |-> IdOf[uconns[k]]]
      BY <2>1, <2>4 DEF Ids, U!Ids
    <2>7. uconns' = [k \in 1 .. n - 1 |-> IF k < i THEN uconns[k] ELSE uconns[k + 1]]
      BY <2>2, <2>4 DEF U!RemoveAt
    <2>8. Ids' = [k \in 1 .. n - 1 |-> IdOf[uconns'[k]]]
      BY <2>1, <2>7 DEF Ids, U!Ids
    <2>9. PICK t : t = Ids
      OBVIOUS
    <2>10. t \in Seq(Nat \ {0}) /\ DOMAIN t = 1 .. Len(t)
      BY <2>9, IdsAre
    <2>11. Len(t) = n /\ \A k \in 1 .. n : t[k] = IdOf[uconns[k]]
      BY <2>4, <2>6, <2>9, <2>10
    <2>12. \A k \in 1 .. n - 1 : k \in 1 .. n /\ k + 1 \in 1 .. n
      BY <2>4
    <2>13. \A k \in 1 .. n - 1 : IdOf[uconns'[k]] = IF k < i THEN t[k] ELSE t[k + 1]
      BY <2>7, <2>11, <2>12
    <2>14. Ids' = Without(t, i)
      BY <2>8, <2>11, <2>13 DEF Without
    <2> QED BY <2>1, <2>2, <2>3, <2>4, <2>5, <2>6, <2>9, <2>14
  <1> QED BY <1>1, <1>2 DEF Delete

\* The frames move down with the connections behind the one that is deleted.
LEMMA FramesMove ==
  ASSUME Inv, NEW p \in Player, Delete(p), NEW b \in DOMAIN Ids, PlayerAt(b) = p,
         theirFrame' = Shifted(b), UNCHANGED unannounced
  PROVE  Frames'
  <1>1. Managed /\ Frames /\ Shared /\ HeardInOrder
    BY SharedBy DEF Inv
  <1>2. begun /\ UNCHANGED <<kind, begun, said, heard>>
    BY <1>1, IdsDelete
  <1>3. PICK a \in DOMAIN Ids : Ids[a] = IdOf[p] /\ Ids' = Without(Ids, a)
    BY <1>1, IdsDelete
  <1>4. PICK n \in Nat : n = Len(Ids) /\ DOMAIN Ids = 1 .. n /\ n <= Cardinality(Player)
    BY <1>1, IdsAre
  <1>5. a = b
    BY <1>1, <1>3, IdsAre
  <1>6. theirFrame' = [k \in 1 .. Cardinality(Player) |->
                          IF b <= k /\ k < n THEN theirFrame[k + 1] ELSE theirFrame[k]]
    BY <1>1, <1>4 DEF Shifted, Frames
  <1>7. b \in Nat /\ Cardinality(Player) \in Nat
    BY <1>4, Sizes
  <1>8. theirFrame' \in [1 .. Cardinality(Player) -> 0 .. Lot]
    <2> SUFFICES ASSUME NEW k \in 1 .. Cardinality(Player)
                 PROVE  (IF b <= k /\ k < n THEN theirFrame[k + 1] ELSE theirFrame[k]) \in 0 .. Lot
      BY <1>6
    <2>1. k < n => k + 1 \in 1 .. Cardinality(Player)
      BY <1>4, <1>7
    <2> QED BY <1>1, <2>1 DEF Frames
  <1>9. Ids' = [k \in 1 .. n - 1 |-> IF k < b THEN Ids[k] ELSE Ids[k + 1]]
    BY <1>3, <1>4, <1>5 DEF Without
  <1>10. ASSUME NEW k \in 1 .. n - 1, FramesAreTheirs, ~unannounced
         PROVE  theirFrame'[k] = Latest(PlayerAt(k))'
    <2>1. k \in 1 .. n /\ k + 1 \in 1 .. n /\ k < n /\ k \in 1 .. Cardinality(Player) /\ k \in Nat
      BY <1>4, <1>7
    <2>2. \A i \in 1 .. n : theirFrame[i] = Latest(PlayerAt(i))
      BY <1>4, <1>10 DEF FramesAreTheirs
    <2>3. PICK c \in 1 .. n : c = IF k < b THEN k ELSE k + 1
      BY <2>1
    <2>4. Ids'[k] = Ids[c]
      BY <1>9, <2>3
    <2>5. PlayerAt(k)' = PlayerAt(c)
      BY <2>4 DEF PlayerAt
    <2>6. theirFrame'[k] = theirFrame[c]
      BY <1>6, <1>7, <2>1, <2>3
    <2>7. theirFrame[c] = Latest(PlayerAt(c))
      BY <2>2
    <2> QED BY <1>2, <2>5, <2>6, <2>7 DEF Latest
  <1>11. FramesAreTheirs'
    <2>1. DOMAIN Ids' = 1 .. n - 1
      BY <1>9
    <2>2. unannounced' \/ \A k \in 1 .. n - 1 : theirFrame'[k] = Latest(PlayerAt(k))'
      BY <1>1, <1>10 DEF Frames, FramesAreTheirs
    <2> QED BY <2>1, <2>2 DEF FramesAreTheirs
  <1> QED BY <1>1, <1>2, <1>8, <1>11 DEF Frames

\* What is read is the next of somebody who has a connection.
LEMMA ReadsOne ==
  ASSUME Managed, (Wol /\ W!Get) \/ (Udp /\ U!Get)
  PROVE  /\ begun /\ Ids' = Ids /\ UNCHANGED <<kind, begun, said>>
         /\ \E p \in Player, n \in Nat : heard' = [heard EXCEPT ![p] = Append(@, <<p, n>>)]
  <1>1. CASE Wol /\ W!Get
    <2>1. WInv /\ kind = "wol" /\ kind' = kind
      BY <1>1 DEF Wol, Over, Managed
    <2>2. /\ private # << >> /\ Head(private) \in Message
          /\ heard' = [heard EXCEPT ![Head(private).from] =
                          Append(@, <<Head(private).from, Head(private).n>>)]
          /\ UNCHANGED <<begun, wconns, said>>
      BY <1>1, <2>1, WGetReads
    <2>3. Head(private).from \in Player /\ Head(private).n \in Nat
      BY <2>2, Sizes DEF Message
    <2>4. begun
      <3>1. private \in Seq(Message) /\ begun \in BOOLEAN
        BY <2>1 DEF WInv, WFields, Shared
      <3>2. 1 \in DOMAIN private
        BY <2>2, <3>1
      <3>3. PICK j \in W!Slot : wconns[j] = [used |-> TRUE, id |-> private[1].id, cid |-> private[1].from]
        BY <2>1, <3>2 DEF WInv, WWaits
      <3>4. wconns[j].used
        BY <3>3
      <3> QED BY <2>1, <3>1, <3>4 DEF WInv, WSlots
    <2>5. Ids' = Ids
      BY <2>1, <2>2 DEF Ids, W!Ids
    <2> QED BY <2>1, <2>2, <2>3, <2>4, <2>5
  <1>2. CASE Udp /\ U!Get
    <2>1. UInv /\ kind = "udp" /\ kind' = kind
      BY <1>2 DEF Udp, Over, Managed
    <2>2. PICK k \in DOMAIN uconns :
           /\ uconns[k] \in Player /\ inbox[uconns[k]] # << >>
           /\ heard' = [heard EXCEPT ![uconns[k]] = Append(@, <<uconns[k], Head(inbox[uconns[k]])>>)]
           /\ UNCHANGED <<begun, uconns, said>>
      BY <1>2, <2>1, UGetReads
    <2>3. Head(inbox[uconns[k]]) \in Nat
      <3>1. inbox[uconns[k]] \in Seq(Nat)
        BY <2>1, <2>2 DEF UInv, UFields
      <3> QED BY <2>2, <3>1
    <2>4. begun
      BY <2>1, <2>2 DEF UInv, UFields, Shared
    <2>5. Ids' = Ids
      BY <2>1, <2>2, KindAssumption DEF Ids, U!Ids
    <2> QED BY <2>1, <2>2, <2>3, <2>4, <2>5
  <1> QED BY <1>1, <1>2

LEMMA FramesRead == ASSUME Inv, Managed', ReadPacket PROVE Frames'
  <1>1. Managed /\ Frames /\ Shared /\ HeardInOrder
    BY SharedBy DEF Inv
  <1>2. (Wol /\ W!Get) \/ (Udp /\ U!Get)
    BY DEF ReadPacket
  <1>3. begun /\ Ids' = Ids /\ UNCHANGED <<kind, begun, said>>
    BY <1>1, <1>2, ReadsOne
  <1>4. PICK p \in Player, n \in Nat : heard' = [heard EXCEPT ![p] = Append(@, <<p, n>>)]
    BY <1>1, <1>2, ReadsOne
  <1>5. Shared' /\ HeardInOrder'
    BY KindAssumption DEF Managed, WInv, UInv
  <1>6. PICK l \in Nat : l = Len(heard[p])
    BY <1>1 DEF Shared
  <1>7. /\ heard'[p] = Append(heard[p], <<p, n>>) /\ \A q \in Player : q # p => heard'[q] = heard[q]
        /\ Len(heard'[p]) = l + 1 /\ heard'[p][l + 1] = <<p, n>> /\ DOMAIN heard'[p] = 1 .. l + 1
        /\ \A i \in 1 .. l : heard'[p][i] = heard[p][i]
        /\ heard'[p] # heard[p]
    BY <1>1, <1>4, <1>6 DEF Shared
  <1>8. n \in 0 .. Lot /\ Latest(p) <= n /\ Latest(p) \in Nat
    <2>1. l + 1 \in 1 .. l + 1
      BY <1>6
    <2>2. n \in 1 .. said'[p] /\ said'[p] \in 0 .. Lot
      <3>1. said'[p] \in 0 .. Lot
        BY <1>5 DEF Shared
      <3>2. heard'[p][l + 1][2] \in 1 .. said'[p]
        BY <1>5, <1>7, <2>1 DEF HeardInOrder
      <3>3. heard'[p][l + 1][2] = n
        BY <1>7
      <3> QED BY <3>1, <3>2, <3>3
    <2>3. CASE heard[p] = << >>
      BY <2>2, <2>3, Sizes DEF Latest
    <2>4. CASE heard[p] # << >>
      <3>1. l \in 1 .. l + 1 /\ l < l + 1 /\ l \in DOMAIN heard[p] /\ l \in 1 .. l
        BY <1>1, <1>6, <2>4 DEF Shared
      <3>2. heard'[p][l][2] < heard'[p][l + 1][2]
        BY <1>5, <1>7, <2>1, <3>1 DEF HeardInOrder
      <3>3. heard[p][l][2] \in 1 .. said[p]
        BY <1>1, <3>1 DEF HeardInOrder
      <3>4. Latest(p) = heard[p][l][2] /\ heard'[p][l][2] = heard[p][l][2] /\ heard'[p][l + 1][2] = n
        BY <1>6, <1>7, <2>4, <3>1 DEF Latest
      <3>5. Latest(p) < n /\ Latest(p) \in Nat
        BY <3>2, <3>3, <3>4
      <3> QED BY <2>2, <3>5, Sizes
    <2> QED BY <2>3, <2>4
  <1>9. Latest(p)' = n /\ \A q \in Player : q # p => Latest(q)' = Latest(q)
    <2>1. heard'[p] # << >>
      BY <1>6, <1>7
    <2> QED BY <1>7, <2>1 DEF Latest
  <1>10. theirFrame' = [i \in 1 .. Cardinality(Player) |->
            IF i \in DOMAIN Ids /\ heard'[PlayerAt(i)] # heard[PlayerAt(i)]
            THEN Greater(theirFrame[i], heard'[PlayerAt(i)][Len(heard'[PlayerAt(i)])][2])
            ELSE theirFrame[i]]
    BY <1>1 DEF ReadPacket, Frames
  <1>11. \A i \in DOMAIN Ids : PlayerAt(i) \in Player /\ i \in 1 .. Cardinality(Player)
    BY <1>1, IdsAreFine DEF IdsFine
  <1>12. \A i \in 1 .. Cardinality(Player) :
            theirFrame'[i] = IF i \in DOMAIN Ids /\ PlayerAt(i) = p THEN Greater(theirFrame[i], n)
                             ELSE theirFrame[i]
    BY <1>7, <1>10, <1>11
  <1>13. \A i \in 1 .. Cardinality(Player) : theirFrame[i] \in 0 .. Lot
    BY <1>1 DEF Frames
  <1>14. theirFrame' \in [1 .. Cardinality(Player) -> 0 .. Lot]
    <2>1. \A i \in 1 .. Cardinality(Player) : theirFrame'[i] \in 0 .. Lot
      BY <1>8, <1>12, <1>13 DEF Greater
    <2> QED BY <1>10, <2>1
  <1>15. \A i : PlayerAt(i)' = PlayerAt(i)
    BY <1>3 DEF PlayerAt
  <1>16. ASSUME FramesAreTheirs, ~unannounced, NEW i \in DOMAIN Ids
         PROVE  theirFrame'[i] = Latest(PlayerAt(i))'
    <2>1. theirFrame[i] = Latest(PlayerAt(i))
      BY <1>16 DEF FramesAreTheirs
    <2>2. PICK q \in Player : q = PlayerAt(i)
      BY <1>11
    <2>3. CASE q = p
      <3>1. theirFrame'[i] = Greater(Latest(p), n)
        BY <1>11, <1>12, <2>1, <2>2, <2>3
      <3>2. Greater(Latest(p), n) = n
        BY <1>8 DEF Greater
      <3>3. Latest(PlayerAt(i))' = n
        BY <1>9, <1>15, <2>2, <2>3 DEF Latest
      <3> QED BY <3>1, <3>2, <3>3
    <2>4. CASE q # p
      <3>1. theirFrame'[i] = Latest(q)
        BY <1>11, <1>12, <2>1, <2>2, <2>4
      <3>2. Latest(PlayerAt(i))' = Latest(q)
        BY <1>9, <1>15, <2>2, <2>4 DEF Latest
      <3> QED BY <3>1, <3>2
    <2> QED BY <2>3, <2>4
  <1>17. FramesAreTheirs'
    <2>1. unannounced' = unannounced /\ DOMAIN Ids' = DOMAIN Ids
      BY <1>3 DEF ReadPacket
    <2>2. unannounced' \/ \A i \in DOMAIN Ids : theirFrame'[i] = Latest(PlayerAt(i))'
      BY <1>1, <1>16, <2>1 DEF Frames, FramesAreTheirs
    <2> QED BY <2>1, <2>2 DEF FramesAreTheirs
  <1> QED BY <1>1, <1>3, <1>14, <1>17 DEF Frames, ReadPacket
NoneHeld == kind = "wol" /\ \A i \in W!Slot : ~wconns[i].used
NoneListed == Ids = << >>

LEMMA NoneLeft == Managed /\ NoneHeld => NoneListed
  <1> SUFFICES ASSUME Managed, kind = "wol", \A i \in W!Slot : ~wconns[i].used PROVE Ids = << >>
    BY DEF NoneHeld, NoneListed
  <1>1. WFields
    BY DEF Managed, WInv
  <1>2. PICK s : s = [i \in W!Slot |-> wconns[i].id]
    OBVIOUS
  <1>3. Ids = W!Only(s, {})
    BY <1>2 DEF Ids, W!Ids
  <1> QED BY <1>1, <1>2, <1>3, NoSlots

\* From where the players behind a connection no longer matter.
LEMMA FramesOff ==
  ASSUME Inv, UNCHANGED <<kind, begun, heard, theirFrame>>, unannounced' = TRUE
  PROVE  Frames'
  BY DEF Inv, Frames, FramesAreTheirs

LEMMA FramesKept == ASSUME Inv, [Next]_vars PROVE Frames'
  <1>1. Managed' /\ Managed /\ Frames
    BY ManagedKept DEF Inv, Frames
  <1>2. ASSUME UNCHANGED <<kind, begun, heard, theirFrame, unannounced, wconns, uconns>> PROVE Frames'
    <2>1. Ids' = Ids
      BY <1>2 DEF Ids, W!Ids, U!Ids
    <2> QED BY <1>1, <1>2, <2>1, FramesStay
  <1>3. CASE WolRuns
    <2>1. UNCHANGED <<kind, theirFrame, unannounced, uconns>> /\ kind = "wol"
      BY <1>3 DEF WolRuns, Wol, Over, udpVars, gameVars
    <2>2. CASE \E p \in Player : W!Say(p) \/ W!Leave(p)
      BY <1>2, <2>1, <2>2 DEF W!Say, W!Leave, W!manager
    <2>3. CASE W!ServiceRelay \/ W!LinkLost
      BY <1>2, <2>1, <2>3 DEF W!ServiceRelay, W!LinkLost
    <2>4. CASE W!Begin
      <3>1. ~begun /\ begun' = TRUE /\ heard' = heard
        BY <2>4 DEF W!Begin
      <3> QED BY <1>1, <2>1, <3>1, FramesStay
    <2>5. CASE W!Shutdown
      <3>1. UNCHANGED <<begun, heard>> /\ wconns' = [i \in W!Slot |-> W!Free]
        BY <2>5 DEF W!Shutdown, W!Becomes
      <3>2. NoneHeld'
        BY <2>1, <3>1 DEF W!Free, W!Slot, NoneHeld
      <3>3. NoneListed'
        BY <1>1, <3>2, NoneLeft, PTL
      <3>4. Ids' = << >>
        BY <3>3 DEF NoneListed
      <3> QED BY <1>1, <2>1, <3>1, <3>4, FramesStay
    <2> QED BY <1>3, <2>2, <2>3, <2>4, <2>5 DEF WolRuns
  <1>4. CASE WolPeerLeft
    <2>1. /\ UNCHANGED <<kind, theirFrame, uconns>> /\ kind = "wol" /\ WInv /\ W!ServiceLeft
          /\ unannounced' = (unannounced \/ wconns' # wconns)
      BY <1>1, <1>4 DEF WolPeerLeft, Wol, Over, udpVars, Managed
    <2>2. UNCHANGED <<begun, heard>>
      BY <2>1, WLeftKeeps
    <2>3. CASE wconns' = wconns
      <3>1. unannounced' = unannounced
        BY <1>1, <2>1, <2>3 DEF Frames
      <3> QED BY <1>2, <2>1, <2>2, <2>3, <3>1
    <2>4. CASE wconns' # wconns
      <3>1. unannounced' = TRUE
        BY <2>1, <2>4
      <3> QED BY <2>1, <2>2, <3>1, FramesOff
    <2> QED BY <2>3, <2>4
  <1>5. CASE UdpRuns
    <2>1. UNCHANGED <<kind, theirFrame, unannounced, wconns>> /\ kind = "udp"
      BY <1>5 DEF UdpRuns, Udp, Over, wolVars, gameVars
    <2>2. CASE \E p \in Player : U!Say(p) \/ U!Sent(p)
      BY <1>2, <2>1, <2>2 DEF U!Say, U!Sent
    <2>3. CASE U!Broadcast
      BY <1>2, <2>1, <2>3 DEF U!Broadcast
    <2>4. CASE U!Service
      BY <1>2, <2>1, <2>4 DEF U!Service, U!Receive
    <2>5. CASE U!Begin
      <3>1. ~begun /\ begun' = TRUE /\ heard' = heard
        BY <2>5 DEF U!Begin
      <3> QED BY <1>1, <2>1, <3>1, FramesStay
    <2> QED BY <1>5, <2>2, <2>3, <2>4, <2>5 DEF UdpRuns
  <1>6. CASE ReadPacket
    BY <1>1, <1>6, FramesRead
  <1>7. CASE HandleTimeout
    <2>1. PICK b : b = Oldest
      OBVIOUS
    <2>2. Delete(PlayerAt(b)) /\ theirFrame' = Shifted(b) /\ unannounced' = unannounced /\ Ids # << >>
      BY <1>7, <2>1 DEF HandleTimeout
    <2>3. b \in DOMAIN Ids /\ PlayerAt(b) \in Player
      BY <1>1, <2>1, <2>2, OldestIsListed DEF Frames
    <2> QED BY <2>2, <2>3, FramesMove
  <1>8. ASSUME NEW p \in Player, ExecuteExit(p) PROVE Frames'
    <2>1. PICK b : b = IndexOf(p)
      OBVIOUS
    <2>2. Delete(p) /\ theirFrame' = Shifted(b) /\ unannounced' = unannounced /\ b # 0
      BY <1>8, <2>1 DEF ExecuteExit
    <2>3. b \in DOMAIN Ids /\ Ids[b] = IdOf[p]
      <3>1. \E i \in DOMAIN Ids : Ids[i] = IdOf[p]
        BY <2>1, <2>2 DEF IndexOf
      <3>2. b = CHOOSE i \in DOMAIN Ids : Ids[i] = IdOf[p]
        BY <2>1, <3>1 DEF IndexOf
      <3> QED BY <3>1, <3>2, Zenon
    <2>4. PlayerAt(b) = p
      BY <1>1, <2>3, IdsAre
    <2> QED BY <2>2, <2>3, <2>4, FramesMove
  <1>9. ASSUME NEW p \in Player, SignOff(p) PROVE Frames'
    <2>1. Delete(p) /\ unannounced' = TRUE /\ theirFrame' = theirFrame
      BY <1>9 DEF SignOff
    <2>2. UNCHANGED <<kind, begun, heard>>
      BY <1>1, <2>1, IdsDelete
    <2> QED BY <2>1, <2>2, FramesOff
  <1>10. CASE UNCHANGED vars
    BY <1>2, <1>10 DEF vars, gameVars, shared, wolVars, udpVars
  <1> QED BY <1>3, <1>4, <1>5, <1>6, <1>7, <1>8, <1>9, <1>10 DEF Next

LEMMA InvInitially == Init => Inv
  <1> SUFFICES ASSUME Init PROVE Inv
    OBVIOUS
  <1>1. Managed
    BY ManagedInitially
  <1>2. Ids = << >>
    BY <1>1, NothingYet, NoneYet
  <1>3. theirFrame = [i \in 1 .. Cardinality(Player) |-> 0] /\ unannounced = FALSE
        /\ heard = [p \in Player |-> << >>]
    BY DEF Init, W!Init
  <1>4. FramesAreTheirs
    BY <1>2 DEF FramesAreTheirs
  <1>5. Frames
    <2>1. theirFrame \in [1 .. Cardinality(Player) -> 0 .. Lot]
          /\ \A i \in 1 .. Cardinality(Player) : theirFrame[i] = 0
      BY <1>3, Sizes
    <2> QED BY <1>3, <1>4, <2>1 DEF Frames
  <1> QED BY <1>1, <1>5 DEF Inv

LEMMA InvKept == Inv /\ [Next]_vars => Inv'
  <1> SUFFICES ASSUME Inv, [Next]_vars PROVE Inv'
    OBVIOUS
  <1> QED BY ManagedKept, FramesKept DEF Inv, Frames

\* In every state the managers, the queues and the frames fit each other.
THEOREM Invariant == Spec => []Inv
  BY InvInitially, InvKept, PTL DEF Spec

(* Every variable has its type, over either manager, and no queue of theirs  *)
(* is over its limit.                                                        *)
THEOREM TypesFit == Spec => []TypeOK
  <1>1. Inv => TypeOK
    <2> SUFFICES ASSUME Inv PROVE TypeOK
      OBVIOUS
    <2>1. Shared
      BY SharedBy DEF Inv
    <2>2. CASE kind = "wol"
      <3>1. WInv /\ UIdle
        BY <2>2 DEF Inv, Managed
      <3>2. W!TypeOK
        <4>1. \A i \in DOMAIN private : private[i] \in [id : Nat \ {0}, from : Player, n : 1 .. Lot]
          <5>1. private \in Seq(Message)
            BY <3>1 DEF WInv, WFields
          <5>2. \A i \in DOMAIN private : private[i] \in Message
            BY <5>1
          <5> QED BY <5>2, Zenon DEF Message
        <4>2. \A i \in DOMAIN pending : pending[i] \in [from : Player, n : 1 .. Lot]
          <5>1. pending \in Seq(Early)
            BY <3>1 DEF WInv, WFields
          <5>2. \A i \in DOMAIN pending : pending[i] \in Early
            BY <5>1
          <5> QED BY <5>2, Zenon DEF Early
        <4>3. \A i \in DOMAIN wire : wire[i] \in [from : Player, n : 0 .. Lot]
          <5>1. wire \in Seq(Frame)
            BY <3>1 DEF WInv, WFields
          <5>2. \A i \in DOMAIN wire : wire[i] \in Frame
            BY <5>1
          <5> QED BY <5>2, Zenon DEF Frame
        <4>4. /\ link \in BOOLEAN /\ seated \subseteq Player
              /\ wconns \in [W!Slot -> {W!Free} \cup [used : {TRUE}, id : Nat \ {0}, cid : Player]]
              /\ Len(private) <= MaxQueued /\ Len(pending) <= MaxQueued
          BY <3>1 DEF WInv, WFields, Connection
        <4>5. begun \in BOOLEAN /\ excused \subseteq Player /\ said \in [Player -> 0 .. Lot]
          BY <2>1 DEF Shared
        <4> QED BY <4>1, <4>2, <4>3, <4>4, <4>5 DEF W!TypeOK
      <3>3. U!TypeOK
        <4>1. \A p \in Player : Len(inbox[p]) <= MaxReceive /\ DOMAIN inbox[p] = {}
          BY <3>1, Sizes DEF UIdle
        <4>2. transport \in Transport /\ DOMAIN uconns = {} /\ Len(uconns) <= ConnectMax /\ cur \in 0 .. ConnectMax
          BY <3>1, Sizes DEF UIdle
        <4>3. came \in [Player -> 0 .. Lot] /\ sendQ \in [Player -> 0 .. MaxSend] /\ casts \in 0 .. Casts
          BY <3>1, Sizes DEF UIdle
        <4> QED BY <2>1, <4>1, <4>2, <4>3 DEF U!TypeOK, Shared
      <3> QED BY <3>2, <3>3 DEF TypeOK, Inv, Managed, Frames
    <2>3. CASE kind = "udp"
      <3>1. UInv /\ WIdle
        BY <2>3 DEF Inv, Managed
      <3>2. W!TypeOK
        <4>1. DOMAIN private = {} /\ DOMAIN pending = {} /\ DOMAIN wire = {}
              /\ Len(private) <= MaxQueued /\ Len(pending) <= MaxQueued
          BY <3>1, Sizes DEF WIdle
        <4>2. wconns \in [W!Slot -> {W!Free} \cup [used : {TRUE}, id : Nat \ {0}, cid : Player]]
          BY <3>1 DEF WIdle
        <4> QED BY <2>1, <3>1, <4>1, <4>2 DEF W!TypeOK, Shared, WIdle
      <3>3. U!TypeOK
        <4>1. Len(uconns) <= ConnectMax /\ cur \in 0 .. ConnectMax /\ \A i \in DOMAIN uconns : uconns[i] \in Player
          <5>1. PICK n \in Nat : n = Len(uconns)
            BY <3>1 DEF UInv, UFields
          <5>2. n <= ConnectMax
            <6>1. uconns \in Seq(Player) /\ \A i, j \in DOMAIN uconns : uconns[i] = uconns[j] => i = j
              BY <3>1 DEF UInv, UFields
            <6>2. Len(uconns) <= Cardinality(Player)
              BY <6>1, FewPlayers
            <6> QED BY <5>1, <6>2, Sizes
          <5>3. cur \in Nat /\ (cur = 0 \/ cur < n) /\ ConnectMax \in Nat
            BY <3>1, <5>1, Sizes DEF UInv, UFields
          <5>4. uconns \in Seq(Player)
            BY <3>1 DEF UInv, UFields
          <5> QED BY <5>1, <5>2, <5>3, <5>4
        <4>2. ASSUME NEW p \in Player
              PROVE  Len(inbox[p]) <= MaxReceive /\ \A i \in DOMAIN inbox[p] : inbox[p][i] \in 1 .. Lot
          <5>1. Len(inbox[p]) <= MaxReceive /\ came[p] \in 0 .. Lot /\ Lot \in Nat
            BY <3>1, Sizes DEF UInv, UFields
          <5>2. \A i \in DOMAIN inbox[p] : inbox[p][i] \in 1 .. came[p]
            BY <3>1 DEF UInv, UOrder
          <5> QED BY <5>1, <5>2
        <4>3. transport \in Transport /\ came \in [Player -> 0 .. Lot] /\ sendQ \in [Player -> 0 .. MaxSend]
              /\ casts \in 0 .. Casts
          BY <3>1 DEF UInv, UFields
        <4> QED BY <2>1, <4>1, <4>2, <4>3 DEF U!TypeOK, Shared
      <3> QED BY <3>2, <3>3 DEF TypeOK, Inv, Managed, Frames
    <2> QED BY <2>2, <2>3, KindAssumption DEF Inv, Managed
  <1> QED BY <1>1, Invariant, PTL

(* Over WSManagerClass every packet waits where it will be looked for: one   *)
(* that waits for the game has a connection, and none waits with those of    *)
(* clients without one whose player has one (Promote_Pending_Private and the *)
(* purges of Delete_Connection, through all exits, losses and the begin).    *)
THEOREM PacketsWaitWhereRead == Spec => []WaitsWhereRead
  <1>1. Inv => WaitsWhereRead
    <2> SUFFICES ASSUME Inv, kind = "wol" PROVE W!WaitsWhereRead
      BY DEF WaitsWhereRead
    <2>1. WFields /\ WSlots /\ WWaits
      BY DEF Inv, Managed, WInv
    <2>2. \A p : ~HasSlot(p) => W!SlotOfCid(wconns, p) = 0
      BY <2>1, SlotOfClient
    <2> QED BY <2>1, <2>2 DEF W!WaitsWhereRead, WWaits
  <1> QED BY <1>1, Invariant, PTL

(* Over UDPManagerClass no player keeps the game from reading the others:    *)
(* between two deletions of connections, fewer packets are read before a     *)
(* waiting player's than there are players (CurConnection in                 *)
(* Get_Private_Message); a deletion starts the count again, since            *)
(* Delete_Connection may set CurConnection back.                             *)
THEOREM NobodyIsOverheard == Spec => []EveryoneIsRead
  <1>1. Inv => EveryoneIsRead
    <2> SUFFICES ASSUME Inv, kind = "udp", NEW p \in Player PROVE waits[p] < Cardinality(Player)
      BY SameCount DEF EveryoneIsRead, U!EveryoneIsRead
    <2>1. UFields /\ UTurns
      BY DEF Inv, Managed, UInv
    <2>2. PICK n \in Nat, c \in Nat, w \in Nat : n = Len(uconns) /\ c = Cardinality(Player) /\ w = waits[p]
      BY <2>1, Sizes DEF UFields
    <2>3. n <= c
      BY <2>1, <2>2, FewPlayers DEF UFields
    <2>4. CASE U!Connected(p)
      <3>1. PICK k \in DOMAIN uconns : uconns[k] = p
        BY <2>4 DEF U!Connected
      <3>2. w + Before(k) <= n - 1
        BY <2>1, <2>2, <3>1 DEF UTurns
      <3>3. Before(k) \in Nat
        <4>1. k \in 1 .. n /\ cur \in Nat /\ (cur = 0 \/ cur < n)
          BY <2>1, <2>2, <3>1 DEF UFields
        <4> QED BY <2>2, <4>1 DEF Before
      <3>4. w < c
        BY <2>2, <2>3, <3>2, <3>3
      <3> QED BY <2>2, <3>4
    <2>5. CASE ~U!Connected(p)
      <3>1. waits[p] = 0
        BY <2>1, <2>5 DEF UTurns
      <3>2. Cardinality(Player) # 0
        BY Sizes, FS_EmptySet
      <3> QED BY <3>1, <3>2, Sizes
    <2> QED BY <2>4, <2>5
  <1> QED BY <1>1, Invariant, PTL

(* their_frame[i] is the latest frame read of the player of connection i,    *)
(* through all exits and timeouts, for every number of players, as long as   *)
(* connections are deleted only by the lockstep (QUEUE.CPP:1997 and 2977).   *)
THEOREM FramesBelong == Spec => []FramesAreTheirs
  <1>1. Inv => FramesAreTheirs
    BY DEF Inv, Frames
  <1> QED BY <1>1, Invariant, PTL

LEMMA WLosesWithCause ==
  ASSUME WInv, NEW p \in Player, p \notin excused
  PROVE  W!Lost(p) = {}
  <1>1. /\ begun => HasSlot(p)
        /\ 1 .. said[p] \subseteq W!Heard(p) \cup InBoth(p) \cup W!InQueue(wire, p)
    BY DEF WInv, WKept
  <1>2. HasSlot(p) => W!SlotOfCid(wconns, p) # 0
    <2>1. WFields /\ WSlots
      BY DEF WInv
    <2> QED BY <2>1, SlotOfClient
  <1>3. W!Awaited(p) = InBoth(p) \cup W!InQueue(wire, p)
    BY <1>1, <1>2 DEF W!Awaited, InBoth
  <1> QED BY <1>1, <1>3 DEF W!Lost

LEMMA ULosesWithCause ==
  ASSUME UInv, NEW p \in Player, p \notin excused
  PROVE  U!Lost(p) = {}
  <1>1. /\ begun => U!Connected(p)
        /\ \A n \in 1 .. came[p] : n \in U!Heard(p) \cup U!Held(p)
    BY DEF UInv, UKept
  <1>2. came[p] \in Nat /\ said[p] \in Nat
    BY DEF UInv, UFields, Shared
  <1>3. U!Awaited(p) = U!Held(p) \cup came[p] + 1 .. said[p]
    BY <1>1 DEF U!Awaited
  <1>4. \A n \in 1 .. said[p] : n \in 1 .. came[p] \/ n \in came[p] + 1 .. said[p]
    BY <1>2
  <1> QED BY <1>1, <1>3, <1>4 DEF U!Lost

(* Over either manager a player's packets are lost only when a queue refused *)
(* one of his, he left or was removed, or the session ended: nothing done    *)
(* for one player costs another a packet.                                    *)
THEOREM NothingLostWithoutCause == Spec => []LostWithCause
  <1>1. Inv => LostWithCause
    <2> SUFFICES ASSUME Inv, NEW p \in Player, p \notin excused PROVE Lost(p) = {}
      BY DEF LostWithCause
    <2>1. CASE kind = "wol"
      <3>1. WInv
        BY <2>1 DEF Inv, Managed
      <3> QED BY <2>1, <3>1, WLosesWithCause DEF Lost
    <2>2. CASE kind = "udp"
      <3>1. UInv
        BY <2>2 DEF Inv, Managed
      <3> QED BY <2>2, <3>1, ULosesWithCause DEF Lost
    <2> QED BY <2>1, <2>2, KindAssumption DEF Inv, Managed
  <1> QED BY <1>1, Invariant, PTL

(***************************************************************************)
(* The managers keep the promise of Mailbox.                               *)
(***************************************************************************)
\* What will still be read of p, by what the manager in use holds.
Awaits(p) == IF kind = "wol" THEN IF begun /\ ~HasSlot(p) THEN {} ELSE Waiting(p)
             ELSE IF begun /\ ~U!Connected(p) THEN {} ELSE UWaiting(p)

LostAre == \A p \in Player : Lost(p) = 1 .. said[p] \ (Promise!Read(p) \cup Awaits(p))

LEMMA LostIs == Managed => LostAre
  <1> SUFFICES ASSUME Managed, NEW p \in Player
               PROVE  Lost(p) = 1 .. said[p] \ (Promise!Read(p) \cup Awaits(p))
    BY DEF LostAre
  <1>1. CASE kind = "wol"
    <2>1. W!SlotOfCid(wconns, p) = 0 <=> ~HasSlot(p)
      BY <1>1, SlotOfClient DEF Managed, WInv
    <2>2. W!Awaited(p) = Awaits(p)
      BY <1>1, <2>1 DEF W!Awaited, Awaits, Waiting, InBoth
    <2>3. W!Heard(p) = Promise!Read(p)
      BY DEF W!Heard, Promise!Read
    <2> QED BY <1>1, <2>2, <2>3 DEF Lost, W!Lost
  <1>2. CASE kind # "wol"
    <2>1. U!Awaited(p) = Awaits(p)
      BY <1>2 DEF U!Awaited, Awaits, UWaiting
    <2>2. U!Heard(p) = Promise!Read(p)
      BY DEF U!Heard, Promise!Read
    <2> QED BY <1>2, <2>1, <2>2 DEF Lost, U!Lost
  <1> QED BY <1>1, <1>2

\* A step after which no more is awaited loses packets, or none.
LEMMA Loses ==
  ASSUME LostAre, LostAre', UNCHANGED <<said, heard>>,
         \A p \in Player : Awaits(p)' \subseteq Awaits(p) \cup {0}
  PROVE  Promise!Lose
  <1>1. \A p \in Player : Promise!Read(p)' = Promise!Read(p)
    BY DEF Promise!Read
  <1>2. \A p \in Player : Lost(p)' = 1 .. said[p] \ (Promise!Read(p) \cup Awaits(p)')
    BY <1>1 DEF LostAre
  <1>3. ASSUME NEW p \in Player
        PROVE  Lost(p) \subseteq Lost(p)' /\ Lost(p)' \cap Promise!Read(p) = {}
               /\ Lost(p)' \in SUBSET UNION {1 .. said[q] : q \in Player}
    <2>1. 0 \notin 1 .. said[p]
      OBVIOUS
    <2>2. Lost(p) = 1 .. said[p] \ (Promise!Read(p) \cup Awaits(p))
      BY DEF LostAre
    <2> QED BY <1>2, <2>1, <2>2
  <1>4. [p \in Player |-> Lost(p)]' = [p \in Player |-> Lost(p)']
    OBVIOUS
  <1>5. [p \in Player |-> Lost(p)'] \in [Player -> SUBSET UNION {1 .. said[p] : p \in Player}]
    BY <1>3
  <1> QED BY <1>3, <1>4, <1>5 DEF Promise!Lose

\* A step that adds the next packet of p to what is awaited, or to what is
\* lost when nothing is awaited of him any more.
LEMMA Says ==
  ASSUME LostAre, LostAre', Shared, HeardInOrder, NEW p \in Player,
         said' = [said EXCEPT ![p] = @ + 1], UNCHANGED heard,
         \A q \in Player \ {p} : Awaits(q)' = Awaits(q),
         \/ Awaits(p)' = Awaits(p) \cup {said[p] + 1}
         \/ Awaits(p)' = {} /\ Awaits(p) = {}
  PROVE  Promise!Say(p)
  <1>1. \A q \in Player : Promise!Read(q)' = Promise!Read(q)
    BY DEF Promise!Read
  <1>2. said \in [Player -> 0 .. Lot] /\ said[p] \in Nat /\ said'[p] = said[p] + 1
    BY DEF Shared
  <1>3. said[p] + 1 \notin Promise!Read(p)
    BY <1>2 DEF HeardInOrder, Promise!Read
  <1>4. \A q \in Player \ {p} : Lost(q)' = Lost(q)
    BY <1>1, <1>2 DEF LostAre
  <1>5. Lost(p) = 1 .. said[p] \ (Promise!Read(p) \cup Awaits(p))
        /\ Lost(p)' = 1 .. said[p] + 1 \ (Promise!Read(p) \cup Awaits(p)')
    BY <1>1, <1>2 DEF LostAre
  <1>6. \A x : x \in 1 .. said[p] + 1 <=> x \in 1 .. said[p] \/ x = said[p] + 1
    BY <1>2
  <1>7. said[p] + 1 \notin 1 .. said[p]
    BY <1>2
  <1>8. Lost(p)' = Lost(p) \/ Lost(p)' = Lost(p) \cup {said[p] + 1}
    <2>1. CASE Awaits(p)' = Awaits(p) \cup {said[p] + 1}
      BY <1>5, <1>6, <1>7, <2>1
    <2>2. CASE Awaits(p)' = {} /\ Awaits(p) = {}
      BY <1>3, <1>5, <1>6, <2>2
    <2> QED BY <2>1, <2>2
  <1> DEFINE l == [q \in Player |-> Lost(q)]  k == [q \in Player |-> Lost(q)']
  <1>9. k = l \/ k = [l EXCEPT ![p] = @ \cup {said[p] + 1}]
    BY <1>4, <1>8
  <1>10. l' = k
    OBVIOUS
  <1> QED BY <1>9, <1>10 DEF Promise!Say

\* A step that reads the first packet of p that is awaited.
LEMMA Hears ==
  ASSUME LostAre, LostAre', NEW p \in Player, NEW n \in 1 .. said[p], UNCHANGED said,
         heard' = [heard EXCEPT ![p] = Append(@, <<p, n>>)],
         n \in Awaits(p), n \notin Promise!Read(p), \A k \in Awaits(p) : k > 0 => n <= k,
         \A q \in Player : Promise!Read(q)' \cup Awaits(q)' = Promise!Read(q) \cup Awaits(q)
  PROVE  Promise!Hear(p)
  <1>1. \A q \in Player : Lost(q)' = Lost(q)
    BY DEF LostAre
  <1> DEFINE l == [q \in Player |-> Lost(q)]
  <1>2. l' = l
    BY <1>1
  <1>3. l[p] = 1 .. said[p] \ (Promise!Read(p) \cup Awaits(p))
    BY DEF LostAre
  <1>4. n \in 1 .. said[p] \ (l[p] \cup Promise!Read(p))
    BY <1>3
  <1>5. \A k \in 1 .. said[p] \ (l[p] \cup Promise!Read(p)) : n <= k
    <2>1. \A k \in 1 .. said[p] : k > 0
      OBVIOUS
    <2> QED BY <1>3, <2>1
  <1> QED BY <1>2, <1>4, <1>5 DEF Promise!Hear

\* The steps of either manager after which no more is awaited.
LEMMA WLoses ==
  ASSUME Managed, Managed', Wol, NoneMore, UNCHANGED <<said, heard>>
  PROVE  Promise!Lose
  <1>1. LostAre /\ LostAre'
    BY LostIs, PTL
  <1>2. kind = "wol" /\ kind' = "wol"
    BY DEF Wol, Over
  <1>3. ASSUME NEW p \in Player PROVE Awaits(p)' \subseteq Awaits(p) \cup {0}
    <2>1. /\ begun => begun' /\ (begun /\ HasSlot(p)' => HasSlot(p))
          /\ Waiting(p)' \subseteq Waiting(p) \cup {0}
      BY DEF NoneMore
    <2>2. Awaits(p) = IF begun /\ ~HasSlot(p) THEN {} ELSE Waiting(p)
      BY <1>2 DEF Awaits
    <2>3. Awaits(p)' = IF begun' /\ ~HasSlot(p)' THEN {} ELSE Waiting(p)'
      BY <1>2 DEF Awaits
    <2> QED BY <2>1, <2>2, <2>3
  <1> QED BY <1>1, <1>3, Loses

LEMMA ULoses ==
  ASSUME Managed, Managed', Udp, UNoneMore, UNCHANGED <<said, heard>>
  PROVE  Promise!Lose
  <1>1. LostAre /\ LostAre'
    BY LostIs, PTL
  <1>2. kind = "udp" /\ kind' = "udp"
    BY DEF Udp, Over
  <1>3. ASSUME NEW p \in Player PROVE Awaits(p)' \subseteq Awaits(p) \cup {0}
    <2>1. /\ begun => begun' /\ (begun /\ U!Connected(p)' => U!Connected(p))
          /\ UWaiting(p)' \subseteq UWaiting(p)
      BY DEF UNoneMore
    <2>2. Awaits(p) = IF begun /\ ~U!Connected(p) THEN {} ELSE UWaiting(p)
      BY <1>2 DEF Awaits
    <2>3. Awaits(p)' = IF begun' /\ ~U!Connected(p)' THEN {} ELSE UWaiting(p)'
      BY <1>2 DEF Awaits
    <2> QED BY <2>1, <2>2, <2>3
  <1> QED BY <1>1, <1>3, Loses

LEMMA WSays ==
  ASSUME Managed, Managed', Wol, NEW p \in Player, AddsOne(p)
  PROVE  Promise!Say(p)
  <1>1. LostAre /\ LostAre' /\ Shared /\ HeardInOrder
    BY LostIs, SharedBy, PTL
  <1>2. kind = "wol" /\ kind' = "wol"
    BY DEF Wol, Over
  <1>3. ASSUME NEW q \in Player
        PROVE  Awaits(q)' = IF begun /\ ~HasSlot(q) THEN {}
                            ELSE Waiting(q) \cup (IF q = p THEN {said[p] + 1} ELSE {})
    BY <1>2 DEF AddsOne, Awaits
  <1>4. \A q \in Player : Awaits(q) = IF begun /\ ~HasSlot(q) THEN {} ELSE Waiting(q)
    BY <1>2 DEF Awaits
  <1>5. \A q \in Player \ {p} : Awaits(q)' = Awaits(q)
    BY <1>3, <1>4
  <1>6. Awaits(p)' = Awaits(p) \cup {said[p] + 1} \/ (Awaits(p)' = {} /\ Awaits(p) = {})
    BY <1>3, <1>4
  <1>7. said' = [said EXCEPT ![p] = @ + 1] /\ UNCHANGED heard
    BY DEF AddsOne
  <1> QED BY <1>1, <1>5, <1>6, <1>7, Says

LEMMA USays ==
  ASSUME Managed, Managed', Udp, NEW p \in Player, U!Say(p)
  PROVE  Promise!Say(p)
  <1>1. LostAre /\ LostAre' /\ Shared /\ HeardInOrder
    BY LostIs, SharedBy, PTL
  <1>2. kind = "udp" /\ kind' = "udp" /\ UInv
    BY DEF Udp, Over, Managed
  <1>3. /\ UNCHANGED <<begun, heard>> /\ said' = [said EXCEPT ![p] = @ + 1]
        /\ \A q \in Player : /\ U!Connected(q)' = U!Connected(q)
                             /\ UWaiting(q)' = UWaiting(q) \cup (IF q = p THEN {said[p] + 1} ELSE {})
    BY <1>2, USayAdds
  <1>4. ASSUME NEW q \in Player
        PROVE  Awaits(q)' = IF begun /\ ~U!Connected(q) THEN {}
                            ELSE UWaiting(q) \cup (IF q = p THEN {said[p] + 1} ELSE {})
    BY <1>2, <1>3 DEF Awaits
  <1>5. \A q \in Player : Awaits(q) = IF begun /\ ~U!Connected(q) THEN {} ELSE UWaiting(q)
    BY <1>2 DEF Awaits
  <1>6. \A q \in Player \ {p} : Awaits(q)' = Awaits(q)
    BY <1>4, <1>5
  <1>7. Awaits(p)' = Awaits(p) \cup {said[p] + 1} \/ (Awaits(p)' = {} /\ Awaits(p) = {})
    BY <1>4, <1>5
  <1> QED BY <1>1, <1>3, <1>6, <1>7, Says

LEMMA WHears ==
  ASSUME Managed, Managed', Wol, NEW p \in Player, NEW n \in 1 .. said[p], TakesOne(p, n)
  PROVE  Promise!Hear(p)
  <1>1. LostAre /\ LostAre'
    BY LostIs, PTL
  <1>2. kind = "wol" /\ kind' = "wol"
    BY DEF Wol, Over
  <1>3. /\ heard' = [heard EXCEPT ![p] = Append(@, <<p, n>>)] /\ UNCHANGED <<begun, said>>
        /\ HasSlot(p) /\ n \notin W!Heard(p)
        /\ \A k \in Waiting(p) : k > 0 => n <= k
        /\ \A q \in Player : /\ HasSlot(q)' = HasSlot(q)
                             /\ Waiting(q) = Waiting(q)' \cup (IF q = p THEN {n} ELSE {})
                             /\ W!Heard(q)' = W!Heard(q) \cup (IF q = p THEN {n} ELSE {})
    BY DEF TakesOne
  <1>4. \A q : /\ Promise!Read(q) = W!Heard(q) /\ Promise!Read(q)' = W!Heard(q)'
               /\ Awaits(q) = IF begun /\ ~HasSlot(q) THEN {} ELSE Waiting(q)
               /\ Awaits(q)' = IF begun' /\ ~HasSlot(q)' THEN {} ELSE Waiting(q)'
    BY <1>2 DEF Promise!Read, W!Heard, Awaits
  <1>5. Awaits(p) = Waiting(p) /\ n \in Waiting(p)
    BY <1>3, <1>4
  <1>6. ASSUME NEW q \in Player
        PROVE  Promise!Read(q)' \cup Awaits(q)' = Promise!Read(q) \cup Awaits(q)
    <2>1. CASE q = p
      BY <1>3, <1>4, <2>1
    <2>2. CASE q # p
      BY <1>3, <1>4, <2>2
    <2> QED BY <2>1, <2>2
  <1>7. n \notin Promise!Read(p)
    BY <1>3, <1>4
  <1> QED BY <1>1, <1>3, <1>5, <1>6, <1>7, Hears

LEMMA UHears ==
  ASSUME Managed, Managed', Udp, NEW p \in Player, NEW n \in 1 .. said[p], UTakesOne(p, n)
  PROVE  Promise!Hear(p)
  <1>1. LostAre /\ LostAre'
    BY LostIs, PTL
  <1>2. kind = "udp" /\ kind' = "udp"
    BY DEF Udp, Over
  <1>3. /\ heard' = [heard EXCEPT ![p] = Append(@, <<p, n>>)] /\ UNCHANGED <<begun, said>>
        /\ U!Connected(p) /\ n \notin U!Heard(p) /\ n \in UWaiting(p)
        /\ \A k \in UWaiting(p) : n <= k
        /\ \A q \in Player : /\ U!Connected(q)' = U!Connected(q)
                             /\ U!Heard(q)' \cup UWaiting(q)' = U!Heard(q) \cup UWaiting(q)
    BY DEF UTakesOne
  <1>4. \A q : /\ Promise!Read(q) = U!Heard(q) /\ Promise!Read(q)' = U!Heard(q)'
               /\ Awaits(q) = IF begun /\ ~U!Connected(q) THEN {} ELSE UWaiting(q)
               /\ Awaits(q)' = IF begun' /\ ~U!Connected(q)' THEN {} ELSE UWaiting(q)'
    BY <1>2 DEF Promise!Read, U!Heard, Awaits
  <1>5. Awaits(p) = UWaiting(p)
    BY <1>3, <1>4
  <1>6. ASSUME NEW q \in Player
        PROVE  Promise!Read(q)' \cup Awaits(q)' = Promise!Read(q) \cup Awaits(q)
    <2>1. CASE begun /\ ~U!Connected(q)
      <3>1. q # p
        BY <1>3, <2>1
      <3>2. heard'[q] = heard[q]
        BY <1>3, <3>1
      <3>3. Promise!Read(q)' = Promise!Read(q)
        BY <3>2 DEF Promise!Read
      <3> QED BY <1>3, <1>4, <2>1, <3>3
    <2>2. CASE ~ (begun /\ ~U!Connected(q))
      BY <1>3, <1>4, <2>2
    <2> QED BY <2>1, <2>2
  <1>7. n \notin Promise!Read(p)
    BY <1>3, <1>4
  <1> QED BY <1>1, <1>3, <1>5, <1>6, <1>7, Hears

PromisedStep == [Promise!Next]_(Promise!vars)

LEMMA KeptByDelete ==
  ASSUME Managed, Managed', NEW p \in Player, Delete(p)
  PROVE  Promise!Lose
  <1>1. CASE Wol /\ W!Delete(IdOf[p])
    <2>1. WInv
      BY <1>1 DEF Managed, Wol, Over
    <2>2. NoneMore /\ UNCHANGED <<said, heard>>
      BY <1>1, <2>1, WDeleteKeeps
    <2> QED BY <1>1, <2>2, WLoses
  <1>2. CASE Udp /\ U!Delete(IdOf[p])
    <2>1. UInv
      BY <1>2 DEF Managed, Udp, Over
    <2>2. UNoneMore /\ UNCHANGED <<said, heard>>
      BY <1>2, <2>1, UDeleteKeeps
    <2> QED BY <1>2, <2>2, ULoses
  <1> QED BY <1>1, <1>2 DEF Delete

LEMMA PromiseKept == Inv /\ [Next]_vars => PromisedStep
  <1> SUFFICES ASSUME Inv, [Next]_vars PROVE PromisedStep
    OBVIOUS
  <1>1. Managed /\ Managed' /\ theirFrame \in [1 .. Cardinality(Player) -> 0 .. Lot]
    BY ManagedKept DEF Inv, Frames
  <1>2. /\ Promise!Lose => PromisedStep
        /\ \A p \in Player : Promise!Say(p) \/ Promise!Hear(p) => PromisedStep
    BY DEF PromisedStep, Promise!Next
  <1>3. CASE WolRuns
    <2>1. Wol /\ WInv
      BY <1>1, <1>3 DEF WolRuns, Wol, Over, Managed
    <2>2. ASSUME NEW p \in Player, W!Say(p) PROVE PromisedStep
      <3>1. AddsOne(p)
        BY <2>1, <2>2, WSayKeeps
      <3> QED BY <1>1, <1>2, <2>1, <3>1, WSays
    <2>3. ASSUME NEW p \in Player, W!Leave(p) PROVE PromisedStep
      <3>1. NoneMore /\ UNCHANGED <<said, heard>>
        BY <2>1, <2>3, WLeaveKeeps DEF W!Leave
      <3> QED BY <1>1, <1>2, <2>1, <3>1, WLoses
    <2>4. CASE W!Begin \/ W!ServiceRelay \/ W!LinkLost \/ W!Shutdown
      <3>1. NoneMore
        BY <2>1, <2>4, WBeginKeeps, WRelayKeeps, WLostKeeps, WShutdownKeeps
      <3>2. UNCHANGED <<said, heard>>
        BY <2>4 DEF W!Begin, W!ServiceRelay, W!LinkLost, W!Shutdown
      <3> QED BY <1>1, <1>2, <2>1, <3>1, <3>2, WLoses
    <2> QED BY <1>3, <2>2, <2>3, <2>4 DEF WolRuns
  <1>4. CASE WolPeerLeft
    <2>1. Wol /\ WInv /\ W!ServiceLeft
      BY <1>1, <1>4 DEF WolPeerLeft, Wol, Over, Managed
    <2>2. NoneMore /\ UNCHANGED <<said, heard>>
      BY <2>1, WLeftKeeps
    <2> QED BY <1>1, <1>2, <2>1, <2>2, WLoses
  <1>5. CASE UdpRuns
    <2>1. Udp /\ UInv
      BY <1>1, <1>5 DEF UdpRuns, Udp, Over, Managed
    <2>2. ASSUME NEW p \in Player, U!Say(p) PROVE PromisedStep
      BY <1>1, <1>2, <2>1, <2>2, USays
    <2>3. ASSUME NEW p \in Player, U!Sent(p) PROVE PromisedStep
      <3>1. UNoneMore /\ UNCHANGED <<said, heard>>
        BY <2>3, UOnlySends DEF U!Sent, U!ins
      <3> QED BY <1>1, <1>2, <2>1, <3>1, ULoses
    <2>4. CASE U!Broadcast
      <3>1. UNoneMore /\ UNCHANGED <<said, heard>>
        BY <2>4, UOnlySends DEF U!Broadcast, U!ins
      <3> QED BY <1>1, <1>2, <2>1, <3>1, ULoses
    <2>5. CASE U!Begin
      <3>1. UNoneMore /\ UNCHANGED <<said, heard>>
        BY <2>1, <2>5, UBeginAwaitsSame, UBeginAll
      <3> QED BY <1>1, <1>2, <2>1, <3>1, ULoses
    <2>6. CASE U!Service
      <3>1. PICK p \in Player : U!Receive(p)
        BY <2>6 DEF U!Service
      <3>2. UNoneMore
        BY <2>1, <3>1, UReceiveAwaitsSame
      <3>3. UNCHANGED <<said, heard>>
        BY <3>1 DEF U!Receive
      <3> QED BY <1>1, <1>2, <2>1, <3>2, <3>3, ULoses
    <2> QED BY <1>5, <2>2, <2>3, <2>4, <2>5, <2>6 DEF UdpRuns
  <1>6. CASE ReadPacket
    <2>1. CASE Wol /\ W!Get
      <3>1. WInv
        BY <1>1, <2>1 DEF Wol, Over, Managed
      <3>2. PICK p \in Player : \E n \in 1 .. said[p] : TakesOne(p, n)
        BY <2>1, <3>1, WGetKeeps
      <3>3. PICK n \in 1 .. said[p] : TakesOne(p, n)
        BY <3>2
      <3> QED BY <1>1, <1>2, <2>1, <3>3, WHears
    <2>2. CASE Udp /\ U!Get
      <3>1. UInv
        BY <1>1, <2>2 DEF Udp, Over, Managed
      <3>2. PICK p \in Player : \E n \in 1 .. said[p] : UTakesOne(p, n)
        BY <2>2, <3>1, UGetKeeps
      <3>3. PICK n \in 1 .. said[p] : UTakesOne(p, n)
        BY <3>2
      <3> QED BY <1>1, <1>2, <2>2, <3>3, UHears
    <2> QED BY <1>6, <2>1, <2>2 DEF ReadPacket
  <1>7. CASE HandleTimeout
    <2>1. Delete(PlayerAt(Oldest)) /\ PlayerAt(Oldest) \in Player
      BY <1>1, <1>7, OldestIsListed DEF HandleTimeout
    <2> QED BY <1>1, <1>2, <2>1, KeptByDelete
  <1>8. ASSUME NEW p \in Player, ExecuteExit(p) \/ SignOff(p) PROVE PromisedStep
    BY <1>1, <1>2, <1>8, KeptByDelete DEF ExecuteExit, SignOff
  <1>9. CASE UNCHANGED vars
    <2>1. UNCHANGED <<kind, begun, said, heard, wconns, private, pending, wire, uconns,
    came, inbox>>
      BY <1>9 DEF vars, shared, wolVars, udpVars
    <2>2. \A p \in Player : Lost(p)' = Lost(p)
      BY <2>1 DEF Lost, W!Lost, W!Heard, W!Awaited, W!InQueue, U!Lost, U!Heard, U!Awaited,
                  U!Held, U!Connected
    <2> QED BY <2>1, <2>2 DEF PromisedStep, Promise!vars
  <1> QED BY <1>3, <1>4, <1>5, <1>6, <1>7, <1>8, <1>9 DEF Next

LEMMA PromisedAtFirst == Init => Promise!Init
  <1> SUFFICES ASSUME Init PROVE Promise!Init
    OBVIOUS
  <1>1. said = [p \in Player |-> 0] /\ heard = [p \in Player |-> << >>]
    BY DEF Init, W!Init
  <1>2. LostAre
    BY ManagedInitially, LostIs
  <1>3. \A p \in Player : Lost(p) = {}
    BY <1>1, <1>2 DEF LostAre
  <1>4. [p \in Player |-> Lost(p)] = [p \in Player |-> {}]
    BY <1>3
  <1> QED BY <1>1, <1>4 DEF Promise!Init

(* Whichever manager the session has, and whoever leaves, is removed or is   *)
(* refused by a queue: what the game reads as a player's is his, once, in    *)
(* the order he said it, and a packet once lost is never read (the safety    *)
(* part of Mailbox).                                                         *)
THEOREM KeepsThePromise == Spec => Promise!Safety
  BY Invariant, PromiseKept, PromisedAtFirst, PTL DEF Spec, Promise!Safety, PromisedStep
=============================================================================
