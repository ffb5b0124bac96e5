------------------------- MODULE LockstepTogetherProofs -------------------------
(* What the lockstep promises to a game that nobody leaves: machines execute  *)
(* the same commands in the same frames, none of them late.                   *)
EXTENDS LockstepProofs

------------------------------------------------------------------------------
(* The inductive invariant of NeverTooLate, InSync and OrdersInOrder, in a    *)
(* game that nobody leaves and in which MaxAhead changes at most once.        *)

Together == Leavers = {} /\ Impatient = FALSE /\ Timings <= 1

(* The change of MaxAhead, once its TIMING event is among those sent by       *)
(* player 1: the frame it is for, and the new value.                          *)
IsTiming(x) == x.ev.kind = "TIMING"
Timed(s)  == \E k \in 1 .. Len(s) : IsTiming(s[k])
Change(s) == s[CHOOSE k \in 1 .. Len(s) : IsTiming(s[k])]
Clock(s)  == IF Timed(s) THEN [on |-> TRUE, at |-> Change(s).due, val |-> Change(s).ev.val]
             ELSE [on |-> FALSE, at |-> 0, val |-> 0]
clock == Clock(sent[1])

(* The MaxAhead in force in frame f, and the frame in which an event          *)
(* scheduled for frame d is executed.                                         *)
AheadAt(c, f) == IF c.on /\ f > c.at THEN c.val ELSE InitAhead
Final(c, d)   == IF c.on /\ c.val > InitAhead /\ c.at < d /\ d < c.at + c.val
                 THEN c.at + c.val ELSE d

(* Nobody quits, and at most one event is a TIMING, of player 1.              *)
Issued(p) == {sent[p][k].ev : k \in 1 .. Len(sent[p])}
               \cup {outList[p][i] : i \in 1 .. Len(outList[p])}
KindsOK ==
  /\ \A p \in Player : \A e \in Issued(p) :
       e.kind # "EXIT" /\ (e.kind = "TIMING" => p = 1 /\ timings = 1)
  /\ \A d, e \in Issued(1) : d.kind = "TIMING" /\ e.kind = "TIMING" => d.no = e.no

RosterFull == \A p \in Player : /\ ids[p] = [i \in Player |-> i] /\ conns[p] = Peers(p)
                                /\ active[p]

PlacesOK == \A p \in Player : pc[p] # "late" /\ (pc[p] \in {"sync", "full"} \/ frame[p] > 0)

(* Every event is scheduled with the MaxAhead in force where it was sent.     *)
DuesOK ==
  \A p \in Player : \A k \in 1 .. Len(sent[p]) :
    /\ sent[p][k].frame > 0
    /\ sent[p][k].due = sent[p][k].frame + AheadAt(clock, sent[p][k].frame)

(* Can_Advance held in every frame begun so far.                              *)
GatesOK ==
  \A p, q \in Player : p # q =>
    /\ \A f \in 1 .. Begun(p) - 1 : f < theirFrame[p][q] + AheadAt(clock, f)
    /\ pc[p] = "exec" => theirRecv[p][q] >= theirSent[p][q]

Told(l) == \E n \in 1 .. Len(l) : IsTiming(l[n])
TimingOK ==
  \A p \in Player :
    /\ ahead[p] = IF Told(log[p]) THEN clock.val ELSE InitAhead
    /\ window[p] = IF Told(log[p]) /\ clock.val > InitAhead
                   THEN <<clock.at, clock.at + clock.val>> ELSE <<0, 0>>

(* How many events of each player p has in its DoList, or has executed.       *)
reads == [p \in Player |-> [q \in Player |-> IF p = q THEN Len(sent[p]) ELSE theirRecv[p][q]]]

(* Record or DoList entry x is one of the events read, and when it is         *)
(* executed.                                                                  *)
Genuine(x, s, r) == x.ev.no \in 1 .. r[x.owner] /\ x.ev = s[x.owner][x.ev.no].ev
DueOf(x, s)      == s[x.owner][x.ev.no].due
FinalOf(x, s, c) == Final(c, DueOf(x, s))
(* Log l has event k of q. *)
Has(l, q, k) == \E n \in 1 .. Len(l) : l[n].owner = q /\ l[n].ev.no = k

LogGood(l, s, r, c, b) ==
  \A n \in 1 .. Len(l) : Genuine(l[n], s, r) /\ l[n].at = FinalOf(l[n], s, c) /\ l[n].at < b
LogOK == \A p \in Player : LogGood(log[p], sent, reads[p], clock, Begun(p))

Precedes(x, y) == x.owner < y.owner \/ (x.owner = y.owner /\ x.ev.no < y.ev.no)
Sorted(l) == \A m, n \in 1 .. Len(l) : m < n =>
               l[m].at < l[n].at \/ (l[m].at = l[n].at /\ Precedes(l[m], l[n]))
SortedOK == \A p \in Player : Sorted(log[p])

ListGood(d, l, s, r, c) ==
  /\ \A j \in 1 .. Len(d) : /\ Genuine(d[j], s, r)
                            /\ d[j].due = DueOf(d[j], s) \/ d[j].due = FinalOf(d[j], s, c)
                            /\ d[j].done <=> Has(l, d[j].owner, d[j].ev.no)
  /\ \A i, j \in 1 .. Len(d) : i < j /\ d[i].owner = d[j].owner => d[i].ev.no < d[j].ev.no
Covered(d, l, r) ==
  \A q \in Player : \A k \in 1 .. r[q] :
    Has(l, q, k) \/ \E j \in 1 .. Len(d) : d[j].owner = q /\ d[j].ev.no = k
ListOK == \A p \in Player : pc[p] # "full" =>
            /\ ListGood(doList[p], log[p], sent, reads[p], clock)
            /\ Covered(doList[p], log[p], reads[p])

(* What a machine has not executed is not for a frame it has played.          *)
NoneMissed(l, s, c, f) ==
  \A q \in Player : \A k \in 1 .. Len(s[q]) : Has(l, q, k) \/ Final(c, s[q][k].due) >= f
MissedOK == \A p \in Player : NoneMissed(log[p], sent, clock, frame[p])

(* In Execute_DoList, what is due lies ahead of the loops, behind what this   *)
(* frame has executed, and has been moved if it had to be.                    *)
Ready(d, s, c, f) ==
  \A j \in 1 .. Len(d) : \/ d[j].due = FinalOf(d[j], s, c)
                         \/ d[j].due > f /\ FinalOf(d[j], s, c) > f
Ahead(d, l, cur, f) ==
  \A j \in 1 .. Len(d) : d[j].due <= f /\ ~ d[j].done =>
    /\ d[j].owner > cur[1] \/ (d[j].owner = cur[1] /\ j > cur[2])
    /\ \A n \in 1 .. Len(l) : l[n].at = f => Precedes(l[n], d[j])
ExecOK == \A p \in Player : pc[p] = "exec" =>
            /\ Ready(doList[p], sent, clock, frame[p])
            /\ Ahead(doList[p], log[p], cursor[p], frame[p])

PlayInv == /\ KindsOK /\ RosterFull /\ PlacesOK /\ DuesOK /\ GatesOK /\ TimingOK
           /\ LogOK /\ SortedOK /\ ListOK /\ MissedOK /\ ExecOK

------------------------------------------------------------------------------
(* NeverTooLate, InSync and OrdersInOrder: the clock.                         *)

Clocks == [on : BOOLEAN, at : Nat, val : Nat]

LEMMA AheadFacts ==
  ASSUME NEW c \in Clocks, NEW f \in Int
  PROVE  /\ c.at \in Nat /\ c.val \in Nat /\ InitAhead \in Nat /\ InitAhead > 0
         /\ AheadAt(c, f) \in Nat
         /\ ~ c.on => AheadAt(c, f) = InitAhead
         /\ f <= c.at => AheadAt(c, f) = InitAhead
         /\ c.on /\ f > c.at => AheadAt(c, f) = c.val
<1>1. c.at \in Nat /\ c.val \in Nat
  BY DEF Clocks
<1>2. InitAhead \in Nat /\ InitAhead > 0
  BY Aheads
<1>3. f <= c.at => ~ (f > c.at)
  BY <1>1
<1> QED BY <1>1, <1>2, <1>3 DEF AheadAt

LEMMA FinalFacts ==
  ASSUME NEW c \in Clocks, NEW d \in Nat
  PROVE  /\ Final(c, d) \in Nat /\ Final(c, d) >= d
         /\ ~ c.on => Final(c, d) = d
         /\ c.val <= InitAhead => Final(c, d) = d
         /\ d <= c.at => Final(c, d) = d
         /\ d >= c.at + c.val => Final(c, d) = d
         /\ c.on /\ c.val > InitAhead /\ c.at < d /\ d < c.at + c.val => Final(c, d) = c.at + c.val
<1>1. c.at \in Nat /\ c.val \in Nat /\ InitAhead \in Nat /\ c.at + c.val \in Nat
  BY AheadFacts
<1>2. CASE c.on /\ c.val > InitAhead /\ c.at < d /\ d < c.at + c.val
  <2>1. Final(c, d) = c.at + c.val
    BY <1>2 DEF Final
  <2> QED BY <1>1, <1>2, <2>1
<1>3. CASE ~ (c.on /\ c.val > InitAhead /\ c.at < d /\ d < c.at + c.val)
  <2>1. Final(c, d) = d
    BY <1>3 DEF Final
  <2> QED BY <1>3, <2>1
<1> QED BY <1>2, <1>3

(* Commands for an earlier frame are executed first. *)
LEMMA FinalMonotone ==
  ASSUME NEW c \in Clocks, NEW d \in Nat, NEW e \in Nat, d <= e
  PROVE  Final(c, d) <= Final(c, e)
<1>1. c.at \in Nat /\ c.val \in Nat /\ InitAhead \in Nat
  BY AheadFacts
<1>2. CASE Final(c, d) = d
  BY <1>2, FinalFacts
<1>3. CASE Final(c, d) # d
  <2>1. c.on /\ c.val > InitAhead /\ c.at < d /\ d < c.at + c.val
    BY <1>3 DEF Final
  <2>2. Final(c, d) = c.at + c.val
    BY <2>1 DEF Final
  <2>3. CASE e < c.at + c.val
    <3>1. c.at < e
      BY <1>1, <2>1
    <3>2. Final(c, e) = c.at + c.val
      BY <2>1, <2>3, <3>1 DEF Final
    <3> QED BY <1>1, <2>2, <3>2
  <2>4. CASE ~ (e < c.at + c.val)
    <3>1. e >= c.at + c.val
      BY <1>1, <2>4
    <3>2. Final(c, e) \in Nat /\ Final(c, e) >= e
      BY FinalFacts
    <3> QED BY <1>1, <2>2, <3>1, <3>2
  <2> QED BY <2>3, <2>4
<1> QED BY <1>2, <1>3

(* The lockstep's argument.  If Can_Advance held in every frame up to g, with *)
(* a peer heard at frame h, then whatever he sends from frame h on is         *)
(* executed after g, also when MaxAhead changes between.                      *)
LEMMA InTime ==
  ASSUME NEW c \in Clocks, c.on => c.at > 0,
         NEW h \in Int, NEW fs \in Nat, fs >= h, NEW g \in Nat, g > 0,
         \A f \in 1 .. g : f < h + AheadAt(c, f)
  PROVE  Final(c, fs + AheadAt(c, fs)) > g
<1> DEFINE d == fs + AheadAt(c, fs)
<1>t. c.at \in Nat /\ c.val \in Nat /\ InitAhead \in Nat /\ InitAhead > 0 /\ AheadAt(c, fs) \in Nat
  BY AheadFacts
<1>d. d \in Nat /\ Final(c, d) \in Nat /\ Final(c, d) >= d
  BY <1>t, FinalFacts
<1>g. g < h + AheadAt(c, g) /\ g \in Int /\ AheadAt(c, g) \in Nat
  <2>1. g \in 1 .. g
    OBVIOUS
  <2>2. AheadAt(c, g) \in Nat
    BY AheadFacts
  <2> QED BY <2>1, <2>2
<1>1. CASE ~ c.on
  <2>1. AheadAt(c, g) = InitAhead /\ AheadAt(c, fs) = InitAhead
    BY <1>1, AheadFacts
  <2>2. d = fs + InitAhead /\ d > g
    BY <1>g, <1>t, <2>1
  <2> QED BY <1>d, <2>2
<1>2. CASE c.on /\ g <= c.at
  <2>1. AheadAt(c, g) = InitAhead
    BY <1>2, AheadFacts
  <2>2. CASE fs <= c.at
    <3>1. AheadAt(c, fs) = InitAhead
      BY <2>2, AheadFacts
    <3>2. d = fs + InitAhead /\ d > g
      BY <1>g, <1>t, <2>1, <3>1
    <3> QED BY <1>d, <3>2
  <2>3. CASE fs > c.at
    <3>1. d > g \/ AheadAt(c, fs) = 0
      BY <1>2, <1>t, <2>3
    <3>2. d >= fs /\ fs > g
      BY <1>2, <1>t, <2>3
    <3> QED BY <1>d, <3>2
  <2> QED BY <1>t, <2>2, <2>3
<1>3. CASE c.on /\ g > c.at
  <2>1. AheadAt(c, g) = c.val
    BY <1>3, AheadFacts
  <2>2. c.at < h + InitAhead
    <3>1. c.at \in 1 .. g
      BY <1>3, <1>t
    <3>2. AheadAt(c, c.at) = InitAhead
      BY <1>t, AheadFacts
    <3> QED BY <3>1, <3>2
  <2>3. CASE fs > c.at
    <3>1. AheadAt(c, fs) = c.val
      BY <1>3, <2>3, AheadFacts
    <3>2. d = fs + c.val /\ d > g
      BY <1>g, <1>t, <2>1, <3>1
    <3> QED BY <1>d, <3>2
  <2>4. CASE fs <= c.at
    <3>1. d = fs + InitAhead
      BY <2>4, AheadFacts
    <3>2. CASE c.val > InitAhead
      <4>1. c.at < d /\ d < c.at + c.val /\ g < c.at + c.val
        BY <1>g, <1>t, <2>1, <2>2, <2>4, <3>1, <3>2
      <4>2. Final(c, d) = c.at + c.val
        BY <1>3, <1>d, <3>2, <4>1, FinalFacts
      <4> QED BY <4>1, <4>2
    <3>3. CASE c.val <= InitAhead
      <4>1. d > g
        BY <1>g, <1>t, <2>1, <3>1, <3>3
      <4> QED BY <1>d, <4>1
    <3> QED BY <1>t, <3>2, <3>3
  <2> QED BY <1>t, <2>3, <2>4
<1> QED BY <1>1, <1>2, <1>3, <1>t

(* Clock d shows no other time than c up to frame x: it is c, or c was not    *)
(* set and d is set to change no earlier than x.                              *)
Same(c, d, x) == d = c \/ (~ c.on /\ d.on /\ d.at >= x)

LEMMA SameFacts ==
  ASSUME NEW c \in Clocks, NEW d \in Clocks, NEW x \in Int, Same(c, d, x)
  PROVE  /\ \A f \in Int : f <= x => AheadAt(d, f) = AheadAt(c, f)
         /\ \A e \in Nat : /\ Final(d, e) >= Final(c, e)
                           /\ Final(d, e) # Final(c, e) => e > x /\ Final(c, e) = e
<1>1. CASE d = c
  <2>1. \A e \in Nat : Final(c, e) \in Nat
    BY FinalFacts
  <2> QED BY <1>1, <2>1
<1>2. CASE ~ c.on /\ d.on /\ d.at >= x
  <2>1. ASSUME NEW f \in Int, f <= x PROVE AheadAt(d, f) = AheadAt(c, f)
    <3>1. f <= d.at
      BY <1>2, <2>1, AheadFacts
    <3> QED BY <1>2, <3>1, AheadFacts
  <2>2. ASSUME NEW e \in Nat
        PROVE  Final(d, e) >= Final(c, e) /\ (Final(d, e) # Final(c, e) => e > x /\ Final(c, e) = e)
    <3>1. Final(c, e) = e
      BY <1>2, FinalFacts
    <3>2. Final(d, e) >= e /\ (e <= d.at => Final(d, e) = e) /\ d.at \in Nat
      BY FinalFacts, AheadFacts
    <3> QED BY <1>2, <3>1, <3>2
  <2> QED BY <2>1, <2>2
<1> QED BY <1>1, <1>2 DEF Same

(* Nobody has read more than was sent. *)
LEMMA ReadsFacts ==
  ASSUME TypeOK, PromisesOK, NEW p \in Player, NEW q \in Player
  PROVE  /\ reads[p][q] \in Nat /\ reads[p][q] <= Len(sent[q]) /\ Len(sent[q]) \in Nat
         /\ reads[p][q] = IF p = q THEN Len(sent[p]) ELSE theirRecv[p][q]
<1>1. theirRecv[p][q] \in Nat /\ Len(sent[p]) \in Nat /\ Len(sent[q]) \in Nat
  <2>1. sent[p] \in Seq(SentEvents) /\ sent[q] \in Seq(SentEvents)
    BY CountTypes
  <2>2. theirRecv \in [Player -> [Player -> Nat]]
    BY CountTypes
  <2> QED BY <2>1, <2>2
<1>2. reads[p][q] = IF p = q THEN Len(sent[p]) ELSE theirRecv[p][q]
  BY DEF reads
<1>3. theirRecv[p][q] <= Len(sent[q])
  BY DEF PromisesOK
<1> QED BY <1>1, <1>2, <1>3

LEMMA PlayTypes ==
  ASSUME TypeOK
  PROVE  /\ 1 \in Player /\ log \in [Player -> Seq(Records)] /\ doList \in [Player -> Seq(Entries)]
         /\ ahead \in [Player -> Nat] /\ window \in [Player -> Nat \X Nat]
         /\ cursor \in [Player -> Nat \X Nat]
         /\ \A p \in Player : frame[p] \in Nat /\ ahead[p] \in Nat /\ Begun(p) \in Nat
         /\ \A p \in Player : log[p] \in Seq(Records) /\ doList[p] \in Seq(Entries)
         /\ \A p \in Player : sent[p] \in Seq(SentEvents) /\ Len(sent[p]) \in Nat
         /\ \A p, q \in Player : theirFrame[p][q] \in Int /\ theirRecv[p][q] \in Nat
<1>1. /\ log \in [Player -> Seq(Records)] /\ doList \in [Player -> Seq(Entries)]
      /\ window \in [Player -> Nat \X Nat] /\ cursor \in [Player -> Nat \X Nat]
      /\ frame \in [Player -> Nat] /\ ahead \in [Player -> NewAheads \cup {InitAhead}]
      /\ theirRecv \in [Player -> [Player -> Nat]]
      /\ theirFrame \in [Player -> [Player -> Nat \cup {-1}]]
      /\ sent \in [Player -> Seq(SentEvents)]
  BY DEF TypeOK, Records, SentEvents
<1>2. NewAheads \cup {InitAhead} \subseteq Nat
  BY Aheads
<1>3. ahead \in [Player -> Nat]
  BY <1>1, <1>2
<1>4. \A p \in Player : frame[p] \in Nat /\ ahead[p] \in Nat /\ Begun(p) \in Nat
  BY <1>1, <1>3 DEF Begun
<1>5. \A p \in Player : log[p] \in Seq(Records) /\ doList[p] \in Seq(Entries)
  BY <1>1
<1>6. \A p \in Player : sent[p] \in Seq(SentEvents) /\ Len(sent[p]) \in Nat
  BY <1>1
<1>7. \A p, q \in Player : theirFrame[p][q] \in Int /\ theirRecv[p][q] \in Nat
  <2>1. \A p, q \in Player : theirFrame[p][q] \in Nat \cup {-1} /\ theirRecv[p][q] \in Nat
    BY <1>1
  <2> QED BY <2>1
<1>8. 1 \in Player
  BY Players DEF Player
<1> QED BY <1>1, <1>3, <1>4, <1>5, <1>6, <1>7, <1>8

LEMMA EventTypes ==
  ASSUME NEW e \in Events
  PROVE  e.no \in Nat /\ e.val \in Nat /\ (e.kind = "TIMING" => e.val \in NewAheads /\ e.val > 0)
<1>1. NewAheads \subseteq Nat \ {0}
  BY Aheads
<1>2. CASE e \in [kind : {"COMMAND", "EXIT"}, no : Nat, val : {0}]
  BY <1>2
<1>3. CASE e \in [kind : {"TIMING"}, no : Nat, val : NewAheads]
  <2>1. e.val \in NewAheads /\ e.no \in Nat
    BY <1>3
  <2>2. e.val \in Nat \ {0}
    BY <1>1, <2>1
  <2> QED BY <2>1, <2>2
<1> QED BY <1>2, <1>3 DEF Events

LEMMA RecordTypes ==
  ASSUME TypeOK, NEW p \in Player
  PROVE  /\ \A n \in 1 .. Len(log[p]) :
              /\ log[p][n] \in Records /\ log[p][n].at \in Nat /\ log[p][n].owner \in Player
              /\ log[p][n].ev \in Events /\ log[p][n].ev.no \in Nat
         /\ \A j \in 1 .. Len(doList[p]) :
              /\ doList[p][j] \in Entries /\ doList[p][j].due \in Nat /\ doList[p][j].owner \in Player
              /\ doList[p][j].ev \in Events /\ doList[p][j].ev.no \in Nat
              /\ doList[p][j].done \in BOOLEAN
<1>1. log[p] \in Seq(Records) /\ doList[p] \in Seq(Entries)
  BY PlayTypes
<1>2. \A n \in 1 .. Len(log[p]) :
              /\ log[p][n] \in Records /\ log[p][n].at \in Nat /\ log[p][n].owner \in Player
              /\ log[p][n].ev \in Events
  <2> SUFFICES ASSUME NEW n \in 1 .. Len(log[p])
               PROVE  /\ log[p][n] \in Records /\ log[p][n].at \in Nat /\ log[p][n].owner \in Player
                      /\ log[p][n].ev \in Events
    OBVIOUS
  <2>1. log[p][n] \in Records
    BY <1>1
  <2> QED BY <2>1 DEF Records
<1>3. \A j \in 1 .. Len(doList[p]) :
              /\ doList[p][j] \in Entries /\ doList[p][j].due \in Nat /\ doList[p][j].owner \in Player
              /\ doList[p][j].ev \in Events /\ doList[p][j].done \in BOOLEAN
  <2> SUFFICES ASSUME NEW j \in 1 .. Len(doList[p])
               PROVE  /\ doList[p][j] \in Entries /\ doList[p][j].due \in Nat
                      /\ doList[p][j].owner \in Player /\ doList[p][j].ev \in Events
                      /\ doList[p][j].done \in BOOLEAN
    OBVIOUS
  <2>1. doList[p][j] \in Entries
    BY <1>1
  <2> QED BY <2>1 DEF Entries
<1> QED BY <1>2, <1>3, EventTypes

(* The clock is that of the one TIMING event sent.                            *)
LEMMA ClockFacts ==
  ASSUME TypeOK, Numbered, KindsOK
  PROVE  /\ clock \in Clocks
         /\ clock.on => clock.val > 0 /\ \E k \in 1 .. Len(sent[1]) :
              /\ IsTiming(sent[1][k])
              /\ clock.at = sent[1][k].due /\ clock.val = sent[1][k].ev.val
         /\ ~ clock.on => clock = [on |-> FALSE, at |-> 0, val |-> 0]
         /\ \A q \in Player : \A k \in 1 .. Len(sent[q]) : IsTiming(sent[q][k]) =>
              /\ q = 1
              /\ clock = [on |-> TRUE, at |-> sent[q][k].due, val |-> sent[q][k].ev.val]
<1>0. 1 \in Player
  BY PlayTypes
<1>1. CASE Timed(sent[1])
  <2> DEFINE c == CHOOSE k \in 1 .. Len(sent[1]) : IsTiming(sent[1][k])
  <2>1. c \in 1 .. Len(sent[1]) /\ IsTiming(sent[1][c])
    BY <1>1 DEF Timed
  <2>2. clock = [on |-> TRUE, at |-> sent[1][c].due, val |-> sent[1][c].ev.val]
    BY <1>1 DEF clock, Clock, Change
  <2> HIDE DEF c
  <2>3. sent[1][c].due \in Nat /\ sent[1][c].ev \in Events
    BY <1>0, <2>1, SentTypes
  <2>4. sent[1][c].ev.val \in Nat /\ sent[1][c].ev.val > 0
    BY <2>1, <2>3, EventTypes, Aheads DEF IsTiming
  <2>5. clock \in Clocks /\ clock.on /\ clock.val > 0
    BY <2>2, <2>3, <2>4 DEF Clocks
  <2>6. ASSUME NEW q \in Player, NEW k \in 1 .. Len(sent[q]), IsTiming(sent[q][k])
        PROVE  q = 1 /\ clock = [on |-> TRUE, at |-> sent[q][k].due, val |-> sent[q][k].ev.val]
    <3>1. sent[q][k].ev \in Issued(q)
      BY DEF Issued
    <3>2. q = 1
      BY <2>6, <3>1 DEF KindsOK, IsTiming
    <3>3. sent[1][c].ev \in Issued(1) /\ sent[1][k].ev \in Issued(1)
      BY <2>1, <3>1, <3>2 DEF Issued
    <3>4. sent[1][c].ev.no = sent[1][k].ev.no
      BY <2>1, <2>6, <3>2, <3>3 DEF KindsOK, IsTiming
    <3>5. sent[1][c].ev.no = c /\ sent[1][k].ev.no = k
      BY <1>0, <2>1, <3>2 DEF Numbered
    <3> QED BY <2>2, <3>2, <3>4, <3>5
  <2>7. \E k \in 1 .. Len(sent[1]) : /\ IsTiming(sent[1][k])
                                     /\ clock.at = sent[1][k].due /\ clock.val = sent[1][k].ev.val
    BY <2>1, <2>2
  <2> QED BY <2>5, <2>6, <2>7
<1>2. CASE ~ Timed(sent[1])
  <2>1. clock = [on |-> FALSE, at |-> 0, val |-> 0]
    BY <1>2 DEF clock, Clock
  <2>2. clock \in Clocks /\ ~ clock.on
    BY <2>1 DEF Clocks
  <2>3. ASSUME NEW q \in Player, NEW k \in 1 .. Len(sent[q]), IsTiming(sent[q][k]) PROVE FALSE
    <3>1. sent[q][k].ev \in Issued(q)
      BY DEF Issued
    <3>2. q = 1
      BY <2>3, <3>1 DEF KindsOK, IsTiming
    <3> QED BY <1>2, <2>3, <3>2 DEF Timed
  <2> QED BY <2>1, <2>2, <2>3
<1> QED BY <1>1, <1>2

LEMMA ClockSet ==
  ASSUME TypeOK, Numbered, KindsOK, DuesOK, clock.on
  PROVE  clock.at > 0
<1>1. PICK k \in 1 .. Len(sent[1]) : clock.at = sent[1][k].due
  BY ClockFacts
<1>2. sent[1][k].frame > 0 /\ sent[1][k].due = sent[1][k].frame + AheadAt(clock, sent[1][k].frame)
  BY PlayTypes DEF DuesOK
<1>3. sent[1][k].frame \in Nat /\ clock \in Clocks
  BY PlayTypes, SentTypes, ClockFacts
<1>4. AheadAt(clock, sent[1][k].frame) \in Nat
  <2>1. sent[1][k].frame \in Int
    BY <1>3
  <2> QED BY <1>3, <2>1, AheadFacts
<1> QED BY <1>1, <1>2, <1>3, <1>4

(* A machine that has executed the change of MaxAhead has it in its log.      *)
LEMMA ToldFacts ==
  ASSUME TypeOK, CountInv, KindsOK, LogOK, NEW p \in Player
  PROVE  /\ Told(log[p]) => clock.on /\ clock.at < Begun(p)
         /\ \A k \in 1 .. Len(sent[1]) : IsTiming(sent[1][k]) /\ Has(log[p], 1, k) => Told(log[p])
<1>c. Numbered /\ PromisesOK /\ clock \in Clocks
  BY ClockFacts DEF CountInv
<1>l. LogGood(log[p], sent, reads[p], clock, Begun(p))
  BY DEF LogOK
<1>1. ASSUME NEW n \in 1 .. Len(log[p])
      PROVE  /\ log[p][n].owner \in Player
             /\ log[p][n].ev.no \in 1 .. Len(sent[log[p][n].owner])
             /\ log[p][n].ev = sent[log[p][n].owner][log[p][n].ev.no].ev
             /\ log[p][n].at = FinalOf(log[p][n], sent, clock) /\ log[p][n].at < Begun(p)
  <2> DEFINE q == log[p][n].owner
  <2>1. q \in Player
    BY RecordTypes
  <2>2. /\ log[p][n].ev.no \in 1 .. reads[p][q] /\ log[p][n].ev = sent[q][log[p][n].ev.no].ev
        /\ log[p][n].at = FinalOf(log[p][n], sent, clock) /\ log[p][n].at < Begun(p)
    BY <1>l DEF LogGood, Genuine
  <2>3. reads[p][q] \in Nat /\ reads[p][q] <= Len(sent[q]) /\ Len(sent[q]) \in Nat
    BY <1>c, <2>1, ReadsFacts
  <2>4. log[p][n].ev.no \in 1 .. Len(sent[q])
    BY <2>2, <2>3
  <2> QED BY <2>1, <2>2, <2>4
<1>2. ASSUME Told(log[p]) PROVE clock.on /\ clock.at < Begun(p)
  <2>1. PICK n \in 1 .. Len(log[p]) : IsTiming(log[p][n])
    BY <1>2 DEF Told
  <2> DEFINE q == log[p][n].owner
             k == log[p][n].ev.no
  <2>2. q \in Player /\ k \in 1 .. Len(sent[q]) /\ IsTiming(sent[q][k])
    BY <1>1, <2>1 DEF IsTiming
  <2>3. clock.on /\ clock.at = sent[q][k].due
    <3>1. clock = [on |-> TRUE, at |-> sent[q][k].due, val |-> sent[q][k].ev.val]
      BY <1>c, <2>2, ClockFacts
    <3> QED BY <3>1
  <2>4. log[p][n].at = Final(clock, clock.at) /\ log[p][n].at < Begun(p)
    BY <1>1, <2>3 DEF FinalOf, DueOf
  <2>5. clock.at \in Nat /\ clock.at <= clock.at
    BY <1>c, AheadFacts
  <2>6. Final(clock, clock.at) = clock.at
    BY <1>c, <2>5, FinalFacts
  <2> QED BY <2>3, <2>4, <2>6
<1>3. ASSUME NEW k \in 1 .. Len(sent[1]), IsTiming(sent[1][k]), Has(log[p], 1, k) PROVE Told(log[p])
  <2>1. PICK n \in 1 .. Len(log[p]) : log[p][n].owner = 1 /\ log[p][n].ev.no = k
    BY <1>3 DEF Has
  <2>2. IsTiming(log[p][n])
    BY <1>1, <1>3, <2>1 DEF IsTiming
  <2> QED BY <2>2 DEF Told
<1> QED BY <1>2, <1>3

(* Outside Execute_DoList, MaxAhead is the one in force.                      *)
LEMMA AheadNow ==
  ASSUME TypeOK, CountInv, KindsOK, LogOK, TimingOK, MissedOK, NEW p \in Player
  PROVE  /\ pc[p] # "exec" => ahead[p] = AheadAt(clock, frame[p])
         /\ ~ Told(log[p]) /\ clock.on => frame[p] <= clock.at
         /\ ~ clock.on => ahead[p] = InitAhead
<1>c. Numbered /\ clock \in Clocks /\ clock.at \in Nat /\ frame[p] \in Nat
  BY ClockFacts, AheadFacts, PlayTypes DEF CountInv
<1>1. ASSUME pc[p] # "exec", Told(log[p]) PROVE ahead[p] = AheadAt(clock, frame[p])
  <2>1. clock.on /\ clock.at < Begun(p) /\ Begun(p) = frame[p]
    BY <1>1, <1>c, ToldFacts DEF Begun
  <2>2. ahead[p] = clock.val
    BY <1>1 DEF TimingOK
  <2> QED BY <1>c, <2>1, <2>2, AheadFacts
<1>2. ASSUME ~ Told(log[p]), clock.on PROVE frame[p] <= clock.at
  <2>1. PICK k \in 1 .. Len(sent[1]) : IsTiming(sent[1][k]) /\ clock.at = sent[1][k].due
    BY <1>2, <1>c, ClockFacts
  <2>2. ~ Has(log[p], 1, k)
    BY <1>2, <2>1, ToldFacts
  <2>3. Final(clock, clock.at) >= frame[p]
    BY <2>1, <2>2, PlayTypes DEF MissedOK, NoneMissed
  <2>4. Final(clock, clock.at) = clock.at
    BY <1>c, FinalFacts
  <2> QED BY <1>c, <2>3, <2>4
<1>3. ASSUME ~ Told(log[p]) PROVE ahead[p] = AheadAt(clock, frame[p])
  <2>1. ahead[p] = InitAhead
    BY <1>3 DEF TimingOK
  <2> QED BY <1>2, <1>3, <1>c, <2>1, AheadFacts
<1>4. ASSUME ~ clock.on PROVE ahead[p] = InitAhead
  BY <1>4, ToldFacts DEF TimingOK
<1> QED BY <1>1, <1>2, <1>3, <1>4

------------------------------------------------------------------------------
(* What was sent and read stays so while more is, and the clock is set.       *)

Histories == [Player -> Seq(SentEvents)]
Counts == [Player -> Nat]
Grown(s, s2) == \A q \in Player : /\ Len(s[q]) <= Len(s2[q])
                                  /\ \A k \in 1 .. Len(s[q]) : s2[q][k] = s[q][k]
ReadMore(s, r, r2) == \A q \in Player : r[q] <= Len(s[q]) /\ r[q] <= r2[q]

LEMMA HistoryTypes ==
  ASSUME NEW s \in Histories, NEW q \in Player
  PROVE  /\ Len(s[q]) \in Nat
         /\ \A k \in 1 .. Len(s[q]) : /\ s[q][k] \in SentEvents /\ s[q][k].due \in Nat
                                      /\ s[q][k].frame \in Nat /\ s[q][k].ev \in Events
<1>1. s[q] \in Seq(SentEvents)
  BY DEF Histories
<1>2. ASSUME NEW k \in 1 .. Len(s[q])
      PROVE  /\ s[q][k] \in SentEvents /\ s[q][k].due \in Nat
             /\ s[q][k].frame \in Nat /\ s[q][k].ev \in Events
  <2>1. s[q][k] \in SentEvents
    BY <1>1
  <2> QED BY <2>1 DEF SentEvents
<1> QED BY <1>1, <1>2

LEMMA GenuineKept ==
  ASSUME NEW s \in Histories, NEW s2 \in Histories, Grown(s, s2),
         NEW r \in Counts, NEW r2 \in Counts, ReadMore(s, r, r2),
         NEW x, x.owner \in Player, Genuine(x, s, r)
  PROVE  Genuine(x, s2, r2) /\ DueOf(x, s2) = DueOf(x, s) /\ DueOf(x, s) \in Nat
<1> DEFINE q == x.owner
           k == x.ev.no
<1>1. k \in 1 .. r[q] /\ x.ev = s[q][k].ev
  BY DEF Genuine
<1>2. r[q] \in Nat /\ r2[q] \in Nat /\ r[q] <= r2[q] /\ r[q] <= Len(s[q]) /\ Len(s[q]) \in Nat
  BY HistoryTypes DEF Counts, ReadMore
<1>3. k \in 1 .. r2[q] /\ k \in 1 .. Len(s[q])
  BY <1>1, <1>2
<1>4. s2[q][k] = s[q][k]
  BY <1>3 DEF Grown
<1>5. s[q][k].due \in Nat
  BY <1>3, HistoryTypes
<1> QED BY <1>1, <1>3, <1>4, <1>5 DEF Genuine, DueOf

LEMMA LogKept ==
  ASSUME NEW s \in Histories, NEW s2 \in Histories, Grown(s, s2),
         NEW r \in Counts, NEW r2 \in Counts, ReadMore(s, r, r2),
         NEW c \in Clocks, NEW c2 \in Clocks, NEW b \in Nat, NEW b2 \in Nat,
         Same(c, c2, b), b <= b2,
         NEW l \in Seq(Records), LogGood(l, s, r, c, b)
  PROVE  LogGood(l, s2, r2, c2, b2)
<1> SUFFICES ASSUME NEW n \in 1 .. Len(l)
             PROVE  Genuine(l[n], s2, r2) /\ l[n].at = FinalOf(l[n], s2, c2) /\ l[n].at < b2
  BY DEF LogGood
<1> DEFINE x == l[n]
<1>0. x \in Records
  OBVIOUS
<1>1. x.owner \in Player /\ x.at \in Nat
  BY <1>0 DEF Records
<1>2. Genuine(x, s, r) /\ x.at = Final(c, DueOf(x, s)) /\ x.at < b
  BY DEF LogGood, FinalOf
<1>3. Genuine(x, s2, r2) /\ DueOf(x, s2) = DueOf(x, s) /\ DueOf(x, s) \in Nat
  BY <1>1, <1>2, GenuineKept
<1> HIDE DEF x
<1>4. Final(c2, DueOf(x, s)) = Final(c, DueOf(x, s))
  <2>1. b \in Int
    OBVIOUS
  <2>2. Final(c2, DueOf(x, s)) # Final(c, DueOf(x, s)) =>
          DueOf(x, s) > b /\ Final(c, DueOf(x, s)) = DueOf(x, s)
    BY <1>3, <2>1, SameFacts
  <2> QED BY <1>1, <1>2, <1>3, <2>2
<1>5. x.at < b2
  BY <1>1, <1>2
<1> QED BY <1>2, <1>3, <1>4, <1>5 DEF FinalOf, x

LEMMA ListKept ==
  ASSUME NEW s \in Histories, NEW s2 \in Histories, Grown(s, s2),
         NEW r \in Counts, NEW r2 \in Counts, ReadMore(s, r, r2),
         NEW c \in Clocks, NEW c2 \in Clocks, NEW b \in Nat, Same(c, c2, b),
         NEW l, NEW d \in Seq(Entries), ListGood(d, l, s, r, c)
  PROVE  ListGood(d, l, s2, r2, c2)
<1>1. ASSUME NEW j \in 1 .. Len(d)
      PROVE  /\ Genuine(d[j], s2, r2)
             /\ d[j].due = DueOf(d[j], s2) \/ d[j].due = FinalOf(d[j], s2, c2)
             /\ d[j].done <=> Has(l, d[j].owner, d[j].ev.no)
  <2> DEFINE x == d[j]
  <2>0. x \in Entries
    OBVIOUS
  <2>1. x.owner \in Player
    BY <2>0 DEF Entries
  <2>2. /\ Genuine(x, s, r)
        /\ x.due = DueOf(x, s) \/ x.due = Final(c, DueOf(x, s))
        /\ x.done <=> Has(l, x.owner, x.ev.no)
    BY DEF ListGood, FinalOf
  <2>3. Genuine(x, s2, r2) /\ DueOf(x, s2) = DueOf(x, s) /\ DueOf(x, s) \in Nat
    BY <2>1, <2>2, GenuineKept DEF ListGood
  <2> HIDE DEF x
  <2>4. Final(c2, DueOf(x, s)) = Final(c, DueOf(x, s)) \/ Final(c, DueOf(x, s)) = DueOf(x, s)
    <3>1. b \in Int
      OBVIOUS
    <3> QED BY <2>3, <3>1, SameFacts
  <2>5. x.due = DueOf(x, s2) \/ x.due = Final(c2, DueOf(x, s2))
    BY <2>2, <2>3, <2>4
  <2> QED BY <2>2, <2>3, <2>5 DEF FinalOf, x
<1> QED BY <1>1 DEF ListGood

LEMMA MissedKept ==
  ASSUME NEW s \in Histories, NEW s2 \in Histories, Grown(s, s2),
         NEW c \in Clocks, NEW c2 \in Clocks, NEW b \in Nat, Same(c, c2, b),
         NEW f \in Nat, NEW l, NoneMissed(l, s, c, f),
         \A q \in Player : \A k \in 1 .. Len(s2[q]) : k > Len(s[q]) => Final(c2, s2[q][k].due) >= f
  PROVE  NoneMissed(l, s2, c2, f)
<1> SUFFICES ASSUME NEW q \in Player, NEW k \in 1 .. Len(s2[q]), ~ Has(l, q, k)
             PROVE  Final(c2, s2[q][k].due) >= f
  BY DEF NoneMissed
<1>1. Len(s[q]) \in Nat /\ Len(s2[q]) \in Nat
  BY HistoryTypes
<1>2. CASE k > Len(s[q])
  BY <1>2
<1>3. CASE ~ (k > Len(s[q]))
  <2>1. k \in 1 .. Len(s[q])
    BY <1>1, <1>3
  <2>2. s2[q][k] = s[q][k] /\ s[q][k].due \in Nat
    BY <2>1, HistoryTypes DEF Grown
  <2>3. Final(c, s[q][k].due) >= f /\ Final(c, s[q][k].due) \in Nat
    BY <2>1, <2>2, FinalFacts DEF NoneMissed
  <2>4. Final(c2, s[q][k].due) >= Final(c, s[q][k].due) /\ Final(c2, s[q][k].due) \in Nat
    <3>1. b \in Int
      OBVIOUS
    <3> QED BY <2>2, <3>1, SameFacts, FinalFacts
  <2> QED BY <2>2, <2>3, <2>4
<1> QED BY <1>2, <1>3

(* The entries more are the events of q after his number x.                   *)
Brings(more, s, q, x) ==
  \A i \in 1 .. Len(more) : /\ more[i].owner = q /\ more[i].done = FALSE
                            /\ more[i].ev.no = x + i /\ more[i].ev = s[q][x + i].ev
                            /\ more[i].due = s[q][x + i].due

(* Read events put behind the DoList keep it good. *)
LEMMA ListJoin ==
  ASSUME NEW s \in Histories, NEW r \in Counts, NEW r2 \in Counts, ReadMore(s, r2, r2),
         NEW c \in Clocks, NEW b,
         NEW l \in Seq(Records), LogGood(l, s, r, c, b),
         NEW d \in Seq(Entries), ListGood(d, l, s, r, c), Covered(d, l, r),
         NEW q \in Player, NEW more \in Seq(Entries), Brings(more, s, q, r[q]),
         r2[q] = r[q] + Len(more), \A o \in Player : o # q => r2[o] = r[o]
  PROVE  ListGood(d \o more, l, s, r2, c) /\ Covered(d \o more, l, r2)
<1> DEFINE j2 == d \o more
<1>n. Len(d) \in Nat /\ Len(more) \in Nat
  OBVIOUS
<1>r. r[q] \in Nat /\ r2[q] \in Nat /\ \A o \in Player : r[o] \in Nat /\ r[o] <= r2[o]
  <2>1. \A o \in Player : r[o] \in Nat /\ r2[o] \in Nat
    BY DEF Counts
  <2>2. r[q] <= r2[q]
    BY <1>n, <2>1
  <2>3. \A o \in Player : r[o] <= r2[o]
    BY <2>1, <2>2
  <2> QED BY <2>1, <2>3
<1>1. /\ j2 \in Seq(Entries) /\ Len(j2) = Len(d) + Len(more)
      /\ \A j \in 1 .. Len(d) : j2[j] = d[j]
      /\ \A i \in 1 .. Len(more) : j2[Len(d) + i] = more[i]
      /\ \A j \in 1 .. Len(j2) : j \in 1 .. Len(d) \/ \E i \in 1 .. Len(more) : j = Len(d) + i
  <2>1. /\ j2 \in Seq(Entries) /\ Len(j2) = Len(d) + Len(more)
        /\ \A j \in 1 .. Len(d) + Len(more) : j2[j] = IF j <= Len(d) THEN d[j] ELSE more[j - Len(d)]
    BY ConcatProperties
  <2>2. ASSUME NEW j \in 1 .. Len(d) PROVE j2[j] = d[j]
    <3>1. j \in 1 .. Len(d) + Len(more) /\ j <= Len(d)
      BY <1>n
    <3> QED BY <2>1, <3>1
  <2>3. ASSUME NEW i \in 1 .. Len(more) PROVE j2[Len(d) + i] = more[i]
    <3>1. Len(d) + i \in 1 .. Len(d) + Len(more) /\ ~ (Len(d) + i <= Len(d)) /\ (Len(d) + i) - Len(d) = i
      BY <1>n
    <3> QED BY <2>1, <3>1
  <2>4. ASSUME NEW j \in 1 .. Len(j2), j \notin 1 .. Len(d)
        PROVE \E i \in 1 .. Len(more) : j = Len(d) + i
    <3>1. j - Len(d) \in 1 .. Len(more) /\ j = Len(d) + (j - Len(d))
      BY <1>n, <2>1, <2>4
    <3> QED BY <3>1
  <2> QED BY <2>1, <2>2, <2>3, <2>4
<1> HIDE DEF j2
<1>2. ASSUME NEW n \in 1 .. Len(l) PROVE l[n].owner = q => l[n].ev.no <= r[q] /\ l[n].ev.no \in Nat
  <2>1. Genuine(l[n], s, r)
    BY DEF LogGood
  <2> QED BY <1>r, <2>1 DEF Genuine
<1>3. ASSUME NEW j \in 1 .. Len(d)
      PROVE  /\ Genuine(d[j], s, r2) /\ d[j].owner \in Player /\ d[j].ev.no \in Nat
             /\ d[j].ev.no <= r[d[j].owner]
  <2>0. d[j] \in Entries
    OBVIOUS
  <2>1. d[j].owner \in Player
    BY <2>0 DEF Entries
  <2>2. Genuine(d[j], s, r)
    BY DEF ListGood
  <2>3. r[d[j].owner] \in Nat /\ r2[d[j].owner] \in Nat /\ r[d[j].owner] <= r2[d[j].owner]
    BY <1>r, <2>1 DEF Counts
  <2> QED BY <2>1, <2>2, <2>3 DEF Genuine
<1>4. ASSUME NEW i \in 1 .. Len(more)
      PROVE  /\ Genuine(more[i], s, r2) /\ more[i].due = DueOf(more[i], s)
             /\ more[i].owner = q /\ more[i].ev.no = r[q] + i /\ more[i].done = FALSE
             /\ ~ Has(l, q, more[i].ev.no)
  <2>1. /\ more[i].owner = q /\ more[i].ev.no = r[q] + i /\ more[i].ev = s[q][r[q] + i].ev
        /\ more[i].due = s[q][r[q] + i].due /\ more[i].done = FALSE
    BY DEF Brings
  <2>2. r[q] + i \in 1 .. r2[q] /\ r[q] + i > r[q]
    BY <1>n, <1>r
  <2>3. ~ Has(l, q, r[q] + i)
    BY <1>2, <1>r, <2>2 DEF Has
  <2> QED BY <2>1, <2>2, <2>3 DEF Genuine, DueOf
<1>5. ListGood(j2, l, s, r2, c)
  <2>1. ASSUME NEW j \in 1 .. Len(j2)
        PROVE  /\ Genuine(j2[j], s, r2)
               /\ j2[j].due = DueOf(j2[j], s) \/ j2[j].due = FinalOf(j2[j], s, c)
               /\ j2[j].done <=> Has(l, j2[j].owner, j2[j].ev.no)
    <3>1. CASE j \in 1 .. Len(d)
      BY <1>1, <1>3, <3>1 DEF ListGood
    <3>2. ASSUME NEW i \in 1 .. Len(more), j = Len(d) + i
          PROVE  /\ Genuine(j2[j], s, r2)
                 /\ j2[j].due = DueOf(j2[j], s) \/ j2[j].due = FinalOf(j2[j], s, c)
                 /\ j2[j].done <=> Has(l, j2[j].owner, j2[j].ev.no)
      <4>1. j2[j] = more[i]
        BY <1>1, <3>2
      <4> QED BY <1>4, <4>1
    <3> QED BY <1>1, <3>1, <3>2
  <2>2. ASSUME NEW i \in 1 .. Len(j2), NEW j \in 1 .. Len(j2), i < j, j2[i].owner = j2[j].owner
        PROVE  j2[i].ev.no < j2[j].ev.no
    <3>1. CASE j \in 1 .. Len(d)
      <4>1. i \in 1 .. Len(d)
        BY <1>n, <2>2, <3>1
      <4>2. j2[i] = d[i] /\ j2[j] = d[j]
        BY <1>1, <3>1, <4>1
      <4> QED BY <2>2, <3>1, <4>1, <4>2 DEF ListGood
    <3>2. ASSUME NEW k \in 1 .. Len(more), j = Len(d) + k PROVE j2[i].ev.no < j2[j].ev.no
      <4>1. j2[j] = more[k] /\ j2[j].owner = q /\ j2[j].ev.no = r[q] + k
        BY <1>1, <1>4, <3>2
      <4>2. CASE i \in 1 .. Len(d)
        <5>1. j2[i] = d[i] /\ d[i].owner = q
          BY <1>1, <2>2, <4>1, <4>2
        <5>2. d[i].ev.no <= r[q] /\ d[i].ev.no \in Nat
          BY <1>3, <4>2, <5>1
        <5>3. r[q] \in Nat /\ k \in Nat /\ k > 0
          BY <1>n, <1>r
        <5>4. d[i].ev.no < r[q] + k
          BY <5>2, <5>3
        <5> QED BY <4>1, <5>1, <5>4
      <4>3. ASSUME NEW m \in 1 .. Len(more), i = Len(d) + m PROVE j2[i].ev.no < j2[j].ev.no
        <5>1. j2[i].ev.no = r[q] + m
          BY <1>1, <1>4, <4>3
        <5>2. m < k
          BY <1>n, <2>2, <3>2, <4>3
        <5> QED BY <1>r, <4>1, <5>1, <5>2
      <4> QED BY <1>1, <4>2, <4>3
    <3> QED BY <1>1, <3>1, <3>2
  <2> QED BY <2>1, <2>2 DEF ListGood
<1>6. Covered(j2, l, r2)
  <2> SUFFICES ASSUME NEW o \in Player, NEW k \in 1 .. r2[o], ~ Has(l, o, k)
               PROVE  \E j \in 1 .. Len(j2) : j2[j].owner = o /\ j2[j].ev.no = k
    BY DEF Covered
  <2>1. CASE k \in 1 .. r[o]
    <3>1. PICK j \in 1 .. Len(d) : d[j].owner = o /\ d[j].ev.no = k
      BY <2>1 DEF Covered
    <3>2. j \in 1 .. Len(j2) /\ j2[j] = d[j]
      BY <1>1, <1>n
    <3> QED BY <3>1, <3>2
  <2>2. CASE k \notin 1 .. r[o]
    <3>1. o = q
      BY <2>2
    <3>2. k - r[q] \in 1 .. Len(more)
      BY <1>n, <1>r, <2>2, <3>1
    <3>3. /\ Len(d) + (k - r[q]) \in 1 .. Len(d) + Len(more) /\ r[q] + (k - r[q]) = k
      BY <1>n, <1>r, <3>2
    <3>4. j2[Len(d) + (k - r[q])] = more[k - r[q]] /\ Len(d) + (k - r[q]) \in 1 .. Len(j2)
      BY <1>1, <3>2, <3>3
    <3>5. more[k - r[q]].owner = q /\ more[k - r[q]].ev.no = k
      BY <1>4, <3>2, <3>3
    <3> QED BY <3>1, <3>4, <3>5
  <2> QED BY <2>1, <2>2
<1> QED BY <1>5, <1>6 DEF j2

------------------------------------------------------------------------------
(* PlayInv, action by action. *)

LEMMA ClockStill ==
  ASSUME UNCHANGED sent
  PROVE  clock' = clock
  BY DEF clock

LEMMA PlayTypesNext ==
  ASSUME TypeOK'
  PROVE  /\ log' \in [Player -> Seq(Records)] /\ doList' \in [Player -> Seq(Entries)]
         /\ sent' \in Histories
         /\ \A p \in Player : frame'[p] \in Nat /\ Begun(p)' \in Nat
         /\ \A p \in Player : log'[p] \in Seq(Records) /\ doList'[p] \in Seq(Entries)
         /\ \A p, q \in Player : theirFrame'[p][q] \in Int /\ theirRecv'[p][q] \in Nat
<1>1. /\ log' \in [Player -> Seq(Records)] /\ doList' \in [Player -> Seq(Entries)]
      /\ frame' \in [Player -> Nat] /\ sent' \in Histories
      /\ theirRecv' \in [Player -> [Player -> Nat]]
      /\ theirFrame' \in [Player -> [Player -> Nat \cup {-1}]]
  BY DEF TypeOK, Records, SentEvents, Histories
<1>2. \A p, q \in Player : theirFrame'[p][q] \in Nat \cup {-1} /\ theirRecv'[p][q] \in Nat
  BY <1>1
<1>3. \A p \in Player : frame'[p] \in Nat /\ Begun(p)' \in Nat
  BY <1>1 DEF Begun
<1>4. \A p \in Player : log'[p] \in Seq(Records) /\ doList'[p] \in Seq(Entries)
  BY <1>1
<1>5. \A p, q \in Player : theirFrame'[p][q] \in Int /\ theirRecv'[p][q] \in Nat
  BY <1>2
<1> QED BY <1>1, <1>3, <1>4, <1>5

LEMMA PlayParts ==
  ASSUME PlayInv
  PROVE  /\ KindsOK /\ RosterFull /\ PlacesOK /\ DuesOK /\ GatesOK /\ TimingOK
         /\ LogOK /\ SortedOK /\ ListOK /\ MissedOK /\ ExecOK
  BY DEF PlayInv

LEMMA KindsStill ==
  ASSUME KindsOK, UNCHANGED <<sent, outList, timings>>
  PROVE  KindsOK'
  BY DEF KindsOK, Issued

(* Can_Advance's tests stay true while peers are heard of. *)
LEMMA GatesStill ==
  ASSUME TypeOK, TypeOK', CountInv, KindsOK, GatesOK, Quiet, UNCHANGED <<pc, frame, sent>>,
         \A p, q \in Player : theirFrame'[p][q] >= theirFrame[p][q]
  PROVE  GatesOK'
<1> SUFFICES ASSUME NEW p \in Player, NEW q \in Player, p # q,
                    NEW f \in 1 .. Begun(p) - 1
             PROVE  f < theirFrame'[p][q] + AheadAt(clock, f)
  BY ClockStill DEF GatesOK, Begun, Quiet
<1>1. f < theirFrame[p][q] + AheadAt(clock, f)
  BY DEF GatesOK
<1>2. clock \in Clocks /\ f \in Int /\ theirFrame[p][q] \in Int /\ theirFrame'[p][q] \in Int
  <2>1. theirFrame'[p][q] \in Int /\ theirFrame[p][q] \in Int
    BY PlayTypes, PlayTypesNext
  <2> QED BY <2>1, ClockFacts DEF CountInv
<1>3. AheadAt(clock, f) \in Nat
  BY <1>2, AheadFacts
<1> QED BY <1>1, <1>2, <1>3

(* Steps that touch neither schedules nor frames. *)
LEMMA CalmStep ==
  ASSUME TypeOK, TypeOK', CountInv, PlayInv, Quiet, KindsOK',
         UNCHANGED <<pc, frame, ahead, window, ids, conns, theirRecv, doList, cursor, active,
                     sent, log>>,
         \A p, q \in Player : theirFrame'[p][q] >= theirFrame[p][q]
  PROVE  PlayInv'
<1>c. clock' = clock
  BY ClockStill
<1>r. reads' = reads
  BY DEF reads
<1>b. \A p \in Player : Begun(p)' = Begun(p)
  BY DEF Begun
<1>1. RosterFull' /\ PlacesOK' /\ DuesOK' /\ TimingOK'
  BY <1>c DEF PlayInv, RosterFull, PlacesOK, DuesOK, TimingOK
<1>2. GatesOK'
  BY GatesStill DEF PlayInv
<1>3. LogOK' /\ SortedOK' /\ ListOK' /\ MissedOK'
  BY <1>b, <1>c, <1>r DEF PlayInv, LogOK, SortedOK, ListOK, MissedOK
<1>4. ExecOK'
  BY DEF ExecOK, Quiet
<1> QED BY <1>1, <1>2, <1>3, <1>4 DEF PlayInv

LEMMA Raise == \A a \in Int : a >= a
OBVIOUS

(* The player gives a command, or the first one a TIMING event. *)
LEMMA PlayQueue ==
  ASSUME TypeOK, TypeOK', CountInv, PlayInv, Together, Quiet, NEW p \in Player, NEW e, Queued(p, e)
  PROVE  PlayInv'
<1>q. /\ outList' = [outList EXCEPT ![p] = Append(outList[p], e)]
      /\ UNCHANGED <<pc, frame, ahead, window, ids, conns, theirFrame, theirRecv, doList, cursor,
                     active, sent, log>>
      /\ e.kind # "TIMING" => UNCHANGED timings
      /\ e.kind = "TIMING" => ids[p][1] = p /\ timings < Timings /\ timings' = timings + 1
      /\ e.kind = "EXIT" => p \in Leavers
  BY DEF Queued
<1>k. KindsOK /\ RosterFull
  BY DEF PlayInv
<1>t. /\ outList \in [Player -> Seq(Events)] /\ timings \in Nat /\ Timings \in Nat /\ 1 \in Player
      /\ outList[p] \in Seq(Events)
  BY PlayTypes, Bounds DEF TypeOK
<1>1. e.kind # "EXIT"
  BY <1>q DEF Together
<1>2. e.kind = "TIMING" => p = 1 /\ timings = 0 /\ timings' = 1
  <2>1. ids[p][1] = 1
    <3>1. ids[p] = [i \in Player |-> i]
      BY <1>k DEF RosterFull
    <3> QED BY <1>t, <3>1
  <2> QED BY <1>q, <1>t, <2>1 DEF Together
<1>3. ASSUME NEW r \in Player, NEW d \in Issued(r)' PROVE d \in Issued(r) \/ (r = p /\ d = e)
  <2>1. CASE r # p
    BY <1>3, <1>q, <1>t, <2>1 DEF Issued
  <2>2. CASE r = p
    <3>1. outList'[p] = Append(outList[p], e)
      BY <1>q, <1>t
    <3>2. /\ Len(outList'[p]) = Len(outList[p]) + 1 /\ Len(outList[p]) \in Nat
          /\ \A i \in 1 .. Len(outList[p]) : outList'[p][i] = outList[p][i]
          /\ outList'[p][Len(outList[p]) + 1] = e
      BY <1>t, <3>1
    <3>3. CASE \E k \in 1 .. Len(sent[p]) : d = sent[p][k].ev
      BY <2>2, <3>3 DEF Issued
    <3>4. ASSUME NEW i \in 1 .. Len(outList'[p]), d = outList'[p][i] PROVE d \in Issued(p) \/ d = e
      <4>1. i \in 1 .. Len(outList[p]) \/ i = Len(outList[p]) + 1
        BY <3>2
      <4> QED BY <3>2, <3>4, <4>1 DEF Issued
    <3> QED BY <1>3, <1>q, <2>2, <3>3, <3>4 DEF Issued
  <2> QED BY <2>1, <2>2
<1>4. KindsOK'
  <2>1. ASSUME NEW r \in Player, NEW d \in Issued(r)'
        PROVE  d.kind # "EXIT" /\ (d.kind = "TIMING" => r = 1 /\ timings' = 1)
    <3>1. CASE d \in Issued(r)
      <4>1. d.kind # "EXIT" /\ (d.kind = "TIMING" => r = 1 /\ timings = 1)
        BY <1>k, <3>1 DEF KindsOK
      <4>2. timings = 1 => timings' = 1
        BY <1>2, <1>q
      <4> QED BY <4>1, <4>2
    <3>2. CASE r = p /\ d = e
      BY <1>1, <1>2, <3>2
    <3> QED BY <1>3, <3>1, <3>2
  <2>2. ASSUME NEW c \in Issued(1)', NEW d \in Issued(1)', c.kind = "TIMING", d.kind = "TIMING"
        PROVE  c.no = d.no
    <3>1. CASE e.kind = "TIMING"
      <4>1. timings # 1
        BY <1>2, <3>1
      <4>2. c \notin Issued(1) /\ d \notin Issued(1)
        BY <1>k, <1>t, <2>2, <4>1 DEF KindsOK
      <4>3. c = e /\ d = e
        BY <1>3, <1>t, <4>2
      <4> QED BY <4>3
    <3>2. CASE e.kind # "TIMING"
      <4>1. c \in Issued(1) /\ d \in Issued(1)
        BY <1>3, <1>t, <2>2, <3>2
      <4> QED BY <1>k, <2>2, <4>1 DEF KindsOK
    <3> QED BY <3>1, <3>2
  <2> QED BY <2>1, <2>2 DEF KindsOK
<1>5. \A r, s \in Player : theirFrame'[r][s] >= theirFrame[r][s]
  BY <1>q, PlayTypes, Raise
<1> QED BY <1>4, <1>5, <1>q, CalmStep

(* What a packet says of its sender only raises what is known of him. *)
LEMMA HeedRaises ==
  ASSUME TypeOK, NEW p \in Player, NEW q \in Player, NEW f \in Nat, NEW c \in Nat, Heed(p, q, f, c)
  PROVE  \A r, s \in Player : theirFrame'[r][s] >= theirFrame[r][s]
<1> SUFFICES ASSUME NEW r \in Player, NEW s \in Player PROVE theirFrame'[r][s] >= theirFrame[r][s]
  OBVIOUS
<1>1. theirFrame[r][s] \in Int
  BY PlayTypes
<1>2. CASE <<r, s>> # <<p, q>>
  BY <1>1, <1>2, TypeHeed
<1>3. CASE r = p /\ s = q
  <2>1. theirFrame'[p][q] = IF theirFrame[p][q] < f THEN f ELSE theirFrame[p][q]
    BY TypeHeed
  <2> QED BY <1>1, <1>3, <2>1
<1> QED BY <1>2, <1>3

LEMMA PlayHearInfo ==
  ASSUME TypeOK, TypeOK', CountInv, PlayInv, Quiet, NEW p \in Player, NEW m \in info, HearInfo(p, m)
  PROVE  PlayInv'
<1>1. /\ Heed(p, m.from, m.frame, m.count)
      /\ UNCHANGED <<pc, frame, ahead, window, ids, conns, theirRecv, outList, doList,
                     cursor, active, timings, sent, log>>
  BY HearInfoFacts
<1>2. m.from \in Player /\ m.frame \in Nat /\ m.count \in Nat
  BY InfoFacts
<1>3. \A r, s \in Player : theirFrame'[r][s] >= theirFrame[r][s]
  BY <1>1, <1>2, HeedRaises
<1>4. KindsOK'
  BY <1>1, KindsStill DEF PlayInv
<1> QED BY <1>1, <1>3, <1>4, CalmStep

LEMMA ReadsAre ==
  /\ \A a, b \in Player : reads[a][b] = IF a = b THEN Len(sent[a]) ELSE theirRecv[a][b]
  /\ \A a, b \in Player : (reads[a])'[b] = IF a = b THEN Len(sent'[a]) ELSE theirRecv'[a][b]
BY DEF reads

(* The rows of reads are the same when their members are. *)
LEMMA ReadsSame ==
  ASSUME NEW a \in Player, \A b \in Player : (reads[a])'[b] = reads[a][b]
  PROVE  (reads[a])' = reads[a]
<1>1. reads[a] = [b \in Player |-> reads[a][b]] /\ (reads[a])' = [b \in Player |-> (reads[a])'[b]]
  BY DEF reads
<1> QED BY <1>1

(* The types of what the pure lemmas speak of. *)
LEMMA WorldTypes ==
  ASSUME TypeOK, CountInv, KindsOK
  PROVE  /\ sent \in Histories /\ clock \in Clocks
         /\ \A p \in Player : reads[p] \in Counts
         /\ \A p \in Player : ReadMore(sent, reads[p], reads[p])
<1>1. sent \in Histories /\ clock \in Clocks
  BY CountTypes, ClockFacts DEF Histories, CountInv
<1>2. \A p, q \in Player : reads[p][q] \in Nat /\ reads[p][q] <= Len(sent[q])
  BY ReadsFacts DEF CountInv
<1>3. ASSUME NEW p \in Player PROVE reads[p] \in Counts
  <2>1. reads[p] = [q \in Player |-> reads[p][q]]
    BY DEF reads
  <2>2. \A q \in Player : reads[p][q] \in Nat
    BY <1>2
  <2> QED BY <2>1, <2>2 DEF Counts
<1>4. ASSUME NEW p \in Player PROVE ReadMore(sent, reads[p], reads[p])
  BY <1>2 DEF ReadMore
<1> QED BY <1>1, <1>3, <1>4

LEMMA GrownSame ==
  ASSUME NEW s \in Histories
  PROVE  Grown(s, s)
<1>1. \A b \in Player : Len(s[b]) \in Nat
  BY HistoryTypes
<1> QED BY <1>1 DEF Grown

(* A packet of q's commands is taken into the DoList. *)
LEMMA PlayHearCommands ==
  ASSUME TypeOK, TypeOK', CountInv, CountInv', AllFit, PlayInv, Quiet,
         NEW p \in Player, NEW q \in Player, HearCommands(p, q)
  PROVE  PlayInv'
<1> DEFINE w == wire[q][p]
           m == w[1]
           r == theirRecv[p][q]
           n == Least({Len(m.evs), Free(p)})
           more == Scheduled(q, SubSeq(m.evs, 1, n), m.due)
<1>1. /\ Waiting(p) /\ q \in conns[p] /\ Len(w) > 0 /\ m.evs \in Seq(Events)
      /\ m.frame \in Nat /\ m.count \in Nat /\ Heed(p, q, m.frame, m.count)
      /\ doList' = [doList EXCEPT ![p] = doList[p] \o more]
      /\ more \in Seq(Entries) /\ Len(more) = n
      /\ \A i \in 1 .. n : more[i] = [owner |-> q, due |-> m.due, ev |-> m.evs[i], done |-> FALSE]
      /\ \/ /\ n = Len(m.evs) /\ UNCHANGED pc
            /\ theirRecv' = [theirRecv EXCEPT ![p] =
                 [theirRecv[p] EXCEPT ![q] = (r + Len(m.evs)) % CountSpace]]
         \/ pc' = [pc EXCEPT ![p] = "full"] /\ UNCHANGED theirRecv
      /\ UNCHANGED <<frame, ahead, window, ids, conns, outList, cursor, active, timings, sent, log>>
  BY HearFacts
<1> HIDE DEF more, n
<1>i. /\ KindsOK /\ RosterFull /\ PlacesOK /\ DuesOK /\ GatesOK /\ TimingOK
      /\ LogOK /\ SortedOK /\ ListOK /\ MissedOK /\ ExecOK
  BY PlayParts
<1>t. /\ w \in Seq(CommandPackets) /\ r \in Nat /\ sent[q] \in Seq(SentEvents)
      /\ theirRecv \in [Player -> [Player -> Nat]] /\ theirRecv[p] \in [Player -> Nat]
      /\ pc \in [Player -> Places] /\ doList \in [Player -> Seq(Entries)]
  <2>1. /\ theirRecv \in [Player -> [Player -> Nat]] /\ pc \in [Player -> Places]
        /\ wire \in [Player -> [Player -> Seq(CommandPackets)]]
        /\ sent \in [Player -> Seq(SentEvents)]
    BY CountTypes
  <2>2. r \in Nat /\ theirRecv[p] \in [Player -> Nat]
    BY <2>1
  <2>3. w \in Seq(CommandPackets)
    BY <2>1
  <2> QED BY <2>1, <2>2, <2>3, PlayTypes
<1>q. p # q
  BY <1>1, <1>i DEF RosterFull, Peers
<1>f. pc[p] # "full"
  BY <1>1 DEF Waiting
<1>2. /\ Carries(sent[q], m, r) /\ r + Len(m.evs) <= Len(sent[q])
  <2>1. Chain(w, sent[q], r)
    BY <1>f DEF CountInv, ChainOK
  <2>2. 1 \in 1 .. Len(w)
    BY <1>1, <1>t
  <2>3. Carries(sent[q], m, Before(m)) /\ Before(m) = r
    BY <1>1, <2>1, <2>2 DEF Chain
  <2> QED BY <2>3 DEF Carries
<1>e. Len(m.evs) \in Nat /\ Len(more) \in Nat /\ Len(sent[q]) \in Nat /\ r \in Nat
  <2>1. m.evs \in Seq(Events) /\ more \in Seq(Entries)
    BY <1>1
  <2> HIDE DEF m
  <2>2. Len(m.evs) \in Nat /\ Len(more) \in Nat
    BY <2>1
  <2>3. Len(sent[q]) \in Nat /\ r \in Nat
    BY <1>t
  <2> QED BY <2>2, <2>3
<1> HIDE DEF m, r
<1>3. (r + Len(m.evs)) % CountSpace = r + Len(m.evs)
  <2>1. issued[q] = Len(sent[q]) + Len(outList[q]) /\ issued[q] < CountSpace
    BY DEF Numbered, AllFit, CountInv
  <2>2. Len(sent[q]) \in Nat /\ Len(outList[q]) \in Nat /\ CountSpace \in Nat /\ Len(m.evs) \in Nat
    <3>1. outList[q] \in Seq(Events)
      BY CountTypes
    <3> QED BY <1>e, <3>1, Bounds
  <2>3. r + Len(m.evs) \in Nat /\ r + Len(m.evs) < CountSpace
    <3>1. Len(sent[q]) + Len(outList[q]) < CountSpace
      BY <2>1
    <3>2. r + Len(m.evs) \in Nat
      BY <1>e
    <3> QED BY <1>2, <2>2, <3>1, <3>2, Below DEF r
  <2> QED BY <2>2, <2>3, SmallMod
<1>4. \A a, b \in Player : a # p \/ b # q => theirRecv'[a][b] = theirRecv[a][b]
  <2> SUFFICES ASSUME NEW a \in Player, NEW b \in Player, a # p \/ b # q
               PROVE  theirRecv'[a][b] = theirRecv[a][b]
    OBVIOUS
  <2>1. \/ UNCHANGED theirRecv
        \/ theirRecv'[a] = IF a = p THEN [theirRecv[p] EXCEPT ![q] = (r + Len(m.evs)) % CountSpace]
                                    ELSE theirRecv[a]
    BY <1>1, <1>t
  <2>2. CASE a # p \/ UNCHANGED theirRecv
    BY <2>1, <2>2
  <2>3. CASE a = p
    <3>1. b # q
      BY <2>3
    <3> QED BY <1>t, <2>1, <2>3, <3>1
  <2> QED BY <2>2, <2>3
<1>5. \/ UNCHANGED pc /\ theirRecv'[p][q] = r + Len(more) /\ Len(more) = Len(m.evs)
      \/ /\ pc' = [pc EXCEPT ![p] = "full"] /\ theirRecv'[p][q] = r
  <2>1. CASE /\ n = Len(m.evs) /\ UNCHANGED pc
             /\ theirRecv' = [theirRecv EXCEPT ![p] = [theirRecv[p] EXCEPT ![q] = r + Len(m.evs)]]
    <3>1. theirRecv'[p] = [theirRecv[p] EXCEPT ![q] = r + Len(m.evs)]
      BY <1>t, <2>1
    <3> QED BY <1>1, <1>t, <2>1, <3>1
  <2>2. CASE pc' = [pc EXCEPT ![p] = "full"] /\ UNCHANGED theirRecv
    BY <2>2 DEF r
  <2> QED BY <1>1, <1>3, <2>1, <2>2
<1>w. /\ sent \in Histories /\ clock \in Clocks /\ clock' = clock
      /\ \A a \in Player : /\ reads[a] \in Counts /\ (reads[a])' \in Counts
                           /\ ReadMore(sent, reads[a], reads[a])
                           /\ ReadMore(sent, (reads[a])', (reads[a])')
  <2>1. KindsOK' /\ clock' = clock /\ sent' = sent
    BY <1>1, <1>i, ClockStill, KindsStill
  <2>2. /\ sent \in Histories /\ clock \in Clocks
        /\ \A a \in Player : reads[a] \in Counts /\ ReadMore(sent, reads[a], reads[a])
    BY <1>i, WorldTypes
  <2>3. \A a, b \in Player : /\ theirRecv'[a][b] \in Nat /\ theirRecv'[a][b] <= Len(sent[b])
    BY <2>1, PlayTypesNext DEF CountInv, PromisesOK
  <2>4. ASSUME NEW a \in Player PROVE (reads[a])' \in Counts /\ ReadMore(sent, (reads[a])', (reads[a])')
    <3>1. /\ \A b \in Player : (reads[a])'[b] = IF a = b THEN Len(sent[a]) ELSE theirRecv'[a][b]
          /\ (reads[a])' = [b \in Player |-> IF a = b THEN Len(sent'[a]) ELSE theirRecv'[a][b]]
      BY <2>1, ReadsAre DEF reads
    <3>2. \A b \in Player : Len(sent[b]) \in Nat
      BY <2>2, HistoryTypes
    <3>3. \A b \in Player : (reads[a])'[b] \in Nat /\ (reads[a])'[b] <= Len(sent[b])
      BY <2>3, <3>1, <3>2
    <3>4. (reads[a])' \in Counts
      BY <2>1, <2>3, <3>1, <3>2 DEF Counts
    <3>5. \A b \in Player : (reads[a])'[b] <= (reads[a])'[b]
      BY <3>3
    <3> QED BY <3>3, <3>4, <3>5 DEF ReadMore
  <2> QED BY <2>1, <2>2, <2>4
<1>6. /\ \A a \in Player : a # p => (reads[a])' = reads[a]
      /\ \A b \in Player : b # q => (reads[p])'[b] = reads[p][b]
      /\ reads[p][q] = r /\ (reads[p])'[q] = theirRecv'[p][q]
  <2>1. /\ \A a, b \in Player : reads[a][b] = IF a = b THEN Len(sent[a]) ELSE theirRecv[a][b]
        /\ \A a, b \in Player : (reads[a])'[b] = IF a = b THEN Len(sent[a]) ELSE theirRecv'[a][b]
    BY <1>1, ReadsAre
  <2>2. \A a, b \in Player : a # p \/ b # q => (reads[a])'[b] = reads[a][b]
    BY <1>4, <2>1
  <2>3. reads[p][q] = r /\ (reads[p])'[q] = theirRecv'[p][q]
    BY <1>q, <2>1 DEF r
  <2> QED BY <2>2, <2>3, ReadsSame
<1>7. ASSUME NEW a \in Player PROVE ReadMore(sent, reads[a], (reads[a])')
  <2>1. ASSUME NEW b \in Player PROVE reads[a][b] <= (reads[a])'[b]
    <3>1. reads[a][b] \in Nat
      BY <1>w DEF Counts
    <3>2. CASE a # p \/ b # q
      BY <1>6, <3>1, <3>2
    <3>3. CASE a = p /\ b = q
      <4>1. Len(more) \in Nat
        BY <1>1
      <4> QED BY <1>5, <1>6, <3>1, <3>3, <4>1
    <3> QED BY <3>2, <3>3
  <2> QED BY <1>w, <2>1 DEF ReadMore
<1>g. Grown(sent, sent)
  BY <1>w, GrownSame
<1>p. /\ \A a \in Player : /\ pc'[a] # "full" => pc[a] # "full"
                           /\ pc[a] # "exec" /\ pc'[a] # "exec" /\ pc'[a] # "late"
                           /\ a # p => pc'[a] = pc[a]
                           /\ pc'[a] \in {"sync", "full"} \/ frame[a] > 0
  <2>1. \A a \in Player : pc[a] # "exec" /\ pc[a] # "late" /\ (pc[a] \in {"sync", "full"} \/ frame[a] > 0)
    BY <1>i DEF Quiet, PlacesOK
  <2>2. CASE UNCHANGED pc
    BY <2>1, <2>2
  <2>3. CASE pc' = [pc EXCEPT ![p] = "full"]
    BY <1>t, <2>1, <2>3
  <2> QED BY <1>5, <2>2, <2>3
<1>8. RosterFull' /\ PlacesOK' /\ DuesOK' /\ TimingOK' /\ KindsOK'
  <2>1. KindsOK' /\ PlacesOK'
    BY <1>1, <1>i, <1>p, KindsStill DEF PlacesOK
  <2> QED BY <1>1, <1>i, <1>w, <2>1 DEF RosterFull, DuesOK, TimingOK
<1>b. \A a \in Player : Begun(a)' = Begun(a)
  BY <1>1, <1>p DEF Begun
<1>9. GatesOK'
  <2>1. \A a, b \in Player : theirFrame'[a][b] >= theirFrame[a][b]
    BY <1>1, HeedRaises
  <2> SUFFICES ASSUME NEW a \in Player, NEW b \in Player, a # b, NEW f \in 1 .. Begun(a) - 1
               PROVE  f < theirFrame'[a][b] + AheadAt(clock, f)
    BY <1>b, <1>p, <1>w DEF GatesOK
  <2>2. f < theirFrame[a][b] + AheadAt(clock, f)
    BY <1>i DEF GatesOK
  <2>3. f \in Int /\ theirFrame[a][b] \in Int /\ theirFrame'[a][b] \in Int
    BY PlayTypes, PlayTypesNext
  <2>4. AheadAt(clock, f) \in Nat
    BY <1>w, <2>3, AheadFacts
  <2> QED BY <2>1, <2>2, <2>3, <2>4
<1>10. LogOK'
  <2> SUFFICES ASSUME NEW a \in Player PROVE LogGood(log[a], sent, (reads[a])', clock, Begun(a))
    BY <1>1, <1>b, <1>w DEF LogOK
  <2>1. LogGood(log[a], sent, reads[a], clock, Begun(a))
    BY <1>i DEF LogOK
  <2>2. log[a] \in Seq(Records) /\ Begun(a) \in Nat /\ Begun(a) <= Begun(a)
    BY PlayTypes
  <2>3. Same(clock, clock, Begun(a))
    BY DEF Same
  <2> QED BY <1>7, <1>g, <1>w, <2>1, <2>2, <2>3, LogKept
<1>11. SortedOK' /\ MissedOK'
  BY <1>1, <1>i, <1>w DEF SortedOK, MissedOK
<1>12. ListOK'
  <2> SUFFICES ASSUME NEW a \in Player, pc'[a] # "full"
               PROVE  /\ ListGood(doList'[a], log[a], sent, (reads[a])', clock)
                      /\ Covered(doList'[a], log[a], (reads[a])')
    BY <1>1, <1>w DEF ListOK
  <2>1. /\ ListGood(doList[a], log[a], sent, reads[a], clock)
        /\ Covered(doList[a], log[a], reads[a])
    BY <1>i, <1>p DEF ListOK
  <2>2. CASE a # p
    <3>1. doList'[a] = doList[a] /\ (reads[a])' = reads[a]
      BY <1>1, <1>6, <1>t, <2>2
    <3> QED BY <2>1, <3>1
  <2>3. CASE a = p
    <3>1. theirRecv'[p][q] = reads[p][q] + Len(more) /\ Len(more) = Len(m.evs)
      BY <1>5, <1>6, <1>t, <2>3
    <3>2. doList'[p] = doList[p] \o more
      BY <1>1, <1>t
    <3>3. Brings(more, sent, q, reads[p][q])
      <4> SUFFICES ASSUME NEW i \in 1 .. Len(more)
                   PROVE  /\ more[i].owner = q /\ more[i].done = FALSE
                          /\ more[i].ev.no = r + i /\ more[i].ev = sent[q][r + i].ev
                          /\ more[i].due = sent[q][r + i].due
        BY <1>6 DEF Brings
      <4>1. more[i] = [owner |-> q, due |-> m.due, ev |-> m.evs[i], done |-> FALSE]
        BY <1>1
      <4>2. m.evs[i] = sent[q][r + i].ev /\ m.due = sent[q][r + i].due
        BY <1>2, <3>1 DEF Carries
      <4>3. r + i \in 1 .. Len(sent[q])
        <5>1. Len(more) \in Nat /\ r \in Nat /\ Len(sent[q]) \in Nat /\ r + Len(more) <= Len(sent[q])
          BY <1>2, <1>e, <3>1
        <5> QED BY <5>1
      <4>4. sent[q][r + i].ev.no = r + i
        BY <4>3 DEF CountInv, Numbered
      <4> QED BY <4>1, <4>2, <4>4
    <3>4. /\ doList[p] \in Seq(Entries) /\ log[p] \in Seq(Records)
          /\ LogGood(log[p], sent, reads[p], clock, Begun(p))
      BY <1>i, PlayTypes DEF LogOK
    <3>5. (reads[p])'[q] = reads[p][q] + Len(more) /\ \A b \in Player : b # q => (reads[p])'[b] = reads[p][b]
      BY <1>6, <3>1
    <3>6. reads[p] \in Counts /\ (reads[p])' \in Counts /\ ReadMore(sent, (reads[p])', (reads[p])')
      BY <1>w
    <3>7. ListGood(doList[p], log[p], sent, reads[p], clock) /\ Covered(doList[p], log[p], reads[p])
      BY <2>1, <2>3
    <3>8. more \in Seq(Entries) /\ sent \in Histories /\ clock \in Clocks
      BY <1>1, <1>w
    <3>9. /\ ListGood(doList[p] \o more, log[p], sent, (reads[p])', clock)
          /\ Covered(doList[p] \o more, log[p], (reads[p])')
      BY <3>3, <3>4, <3>5, <3>6, <3>7, <3>8, ListJoin
    <3> QED BY <2>3, <3>2, <3>9
  <2> QED BY <2>2, <2>3
<1>13. ExecOK'
  BY <1>p DEF ExecOK
<1> QED BY <1>8, <1>9, <1>10, <1>11, <1>12, <1>13 DEF PlayInv

(* Steps of one machine that send and hear nothing: what must be shown of it. *)
LEMMA PlayOne ==
  ASSUME PlayInv, NEW p \in Player,
         UNCHANGED <<sent, outList, timings, theirSent, theirRecv>>, RosterFull',
         \A a \in Player : a # p =>
           /\ frame'[a] = frame[a] /\ pc'[a] = pc[a] /\ log'[a] = log[a] /\ doList'[a] = doList[a]
           /\ cursor'[a] = cursor[a] /\ ahead'[a] = ahead[a] /\ window'[a] = window[a]
           /\ \A b \in Player : theirFrame'[a][b] = theirFrame[a][b],
         pc'[p] # "late", pc'[p] \in {"sync", "full"} \/ frame'[p] > 0,
         \A q \in Player : p # q =>
           /\ \A f \in 1 .. Begun(p)' - 1 : f < theirFrame'[p][q] + AheadAt(clock, f)
           /\ pc'[p] = "exec" => theirRecv[p][q] >= theirSent[p][q],
         ahead'[p] = IF Told(log'[p]) THEN clock.val ELSE InitAhead,
         window'[p] = IF Told(log'[p]) /\ clock.val > InitAhead
                      THEN <<clock.at, clock.at + clock.val>> ELSE <<0, 0>>,
         LogGood(log'[p], sent, reads[p], clock, Begun(p)'),
         Sorted(log'[p]),
         pc'[p] # "full" => /\ ListGood(doList'[p], log'[p], sent, reads[p], clock)
                            /\ Covered(doList'[p], log'[p], reads[p]),
         NoneMissed(log'[p], sent, clock, frame'[p]),
         pc'[p] = "exec" => /\ Ready(doList'[p], sent, clock, frame'[p])
                            /\ Ahead(doList'[p], log'[p], cursor'[p], frame'[p])
  PROVE  PlayInv'
<1>c. clock' = clock /\ sent' = sent
  BY ClockStill
<1>r. reads' = reads
  BY DEF reads
<1>i. /\ KindsOK /\ PlacesOK /\ DuesOK /\ GatesOK /\ TimingOK
      /\ LogOK /\ SortedOK /\ ListOK /\ MissedOK /\ ExecOK
  BY PlayParts
<1>b. \A a \in Player : a # p => Begun(a)' = Begun(a)
  BY DEF Begun
<1>1. KindsOK' /\ DuesOK'
  BY <1>c, <1>i, KindsStill DEF DuesOK
<1>2. PlacesOK'
  <2> SUFFICES ASSUME NEW a \in Player
               PROVE  pc'[a] # "late" /\ (pc'[a] \in {"sync", "full"} \/ frame'[a] > 0)
    BY DEF PlacesOK
  <2>1. CASE a = p
    BY <2>1
  <2>2. CASE a # p
    BY <1>i, <2>2 DEF PlacesOK
  <2> QED BY <2>1, <2>2
<1>3. GatesOK'
  <2> SUFFICES ASSUME NEW a \in Player, NEW q \in Player, a # q
               PROVE  /\ \A f \in 1 .. Begun(a)' - 1 : f < theirFrame'[a][q] + AheadAt(clock, f)
                      /\ pc'[a] = "exec" => theirRecv[a][q] >= theirSent[a][q]
    BY <1>c DEF GatesOK
  <2>1. CASE a = p
    BY <2>1
  <2>2. CASE a # p
    <3>1. Begun(a)' = Begun(a) /\ theirFrame'[a][q] = theirFrame[a][q] /\ pc'[a] = pc[a]
      BY <1>b, <2>2
    <3> QED BY <1>i, <3>1 DEF GatesOK
  <2> QED BY <2>1, <2>2
<1>4. TimingOK'
  <2> SUFFICES ASSUME NEW a \in Player
               PROVE  /\ ahead'[a] = IF Told(log'[a]) THEN clock.val ELSE InitAhead
                      /\ window'[a] = IF Told(log'[a]) /\ clock.val > InitAhead
                                      THEN <<clock.at, clock.at + clock.val>> ELSE <<0, 0>>
    BY <1>c DEF TimingOK
  <2>1. CASE a = p
    BY <2>1
  <2>2. CASE a # p
    BY <1>i, <2>2 DEF TimingOK
  <2> QED BY <2>1, <2>2
<1>5. LogOK'
  <2> SUFFICES ASSUME NEW a \in Player PROVE LogGood(log'[a], sent, reads[a], clock, Begun(a)')
    BY <1>c, <1>r DEF LogOK
  <2>1. CASE a = p
    BY <2>1
  <2>2. CASE a # p
    BY <1>b, <1>i, <2>2 DEF LogOK
  <2> QED BY <2>1, <2>2
<1>6. SortedOK'
  <2> SUFFICES ASSUME NEW a \in Player PROVE Sorted(log'[a])
    BY DEF SortedOK
  <2>1. CASE a = p
    BY <2>1
  <2>2. CASE a # p
    BY <1>i, <2>2 DEF SortedOK
  <2> QED BY <2>1, <2>2
<1>7. ListOK'
  <2> SUFFICES ASSUME NEW a \in Player, pc'[a] # "full"
               PROVE  /\ ListGood(doList'[a], log'[a], sent, reads[a], clock)
                      /\ Covered(doList'[a], log'[a], reads[a])
    BY <1>c, <1>r DEF ListOK
  <2>1. CASE a = p
    BY <2>1
  <2>2. CASE a # p
    BY <1>i, <2>2 DEF ListOK
  <2> QED BY <2>1, <2>2
<1>8. MissedOK'
  <2> SUFFICES ASSUME NEW a \in Player PROVE NoneMissed(log'[a], sent, clock, frame'[a])
    BY <1>c DEF MissedOK
  <2>1. CASE a = p
    BY <2>1
  <2>2. CASE a # p
    BY <1>i, <2>2 DEF MissedOK
  <2> QED BY <2>1, <2>2
<1>9. ExecOK'
  <2> SUFFICES ASSUME NEW a \in Player, pc'[a] = "exec"
               PROVE  /\ Ready(doList'[a], sent, clock, frame'[a])
                      /\ Ahead(doList'[a], log'[a], cursor'[a], frame'[a])
    BY <1>c DEF ExecOK
  <2>1. CASE a = p
    BY <2>1
  <2>2. CASE a # p
    BY <1>i, <2>2 DEF ExecOK
  <2> QED BY <2>1, <2>2
<1> QED BY <1>1, <1>2, <1>3, <1>4, <1>5, <1>6, <1>7, <1>8, <1>9 DEF PlayInv

(* Nothing is executed in frame 0. *)
LEMMA PlayBegin ==
  ASSUME TypeOK, TypeOK', HeardOK, CountInv, PlayInv, NEW p \in Player, Begin(p)
  PROVE  PlayInv'
<1>1. /\ pc[p] = "sync" /\ frame' = [frame EXCEPT ![p] = 1] /\ pc' = [pc EXCEPT ![p] = "play"]
      /\ theirFrame' = [theirFrame EXCEPT ![p] = [q \in Player |-> 0]]
      /\ UNCHANGED <<ahead, window, ids, conns, theirSent, theirRecv, outList, doList,
                     cursor, active, timings, sent, log>>
  BY BeginFacts
<1>i. /\ KindsOK /\ RosterFull /\ PlacesOK /\ DuesOK /\ GatesOK /\ TimingOK
      /\ LogOK /\ SortedOK /\ ListOK /\ MissedOK /\ ExecOK
  BY PlayParts
<1>t. /\ pc \in [Player -> Places] /\ frame \in [Player -> Nat]
      /\ theirFrame \in [Player -> [Player -> Nat \cup {-1}]]
      /\ frame[p] = 0 /\ Begun(p) = 0 /\ clock \in Clocks
  BY <1>1, <1>i, CountTypes, ClockFacts DEF HeardOK, Begun, CountInv
<1>2. frame'[p] = 1 /\ pc'[p] = "play" /\ Begun(p)' = 1
  BY <1>1, <1>t DEF Begun
<1>3. \A a \in Player : a # p => /\ frame'[a] = frame[a] /\ pc'[a] = pc[a]
                                 /\ \A b \in Player : theirFrame'[a][b] = theirFrame[a][b]
  BY <1>1, <1>t
<1>4. LogGood(log[p], sent, reads[p], clock, 1)
  <2>1. LogGood(log[p], sent, reads[p], clock, 0)
    BY <1>i, <1>t DEF LogOK
  <2>2. \A n \in 1 .. Len(log[p]) : log[p][n].at \in Nat
    BY RecordTypes
  <2> QED BY <2>1, <2>2 DEF LogGood
<1>5. NoneMissed(log[p], sent, clock, 1)
  <2> SUFFICES ASSUME NEW q \in Player, NEW k \in 1 .. Len(sent[q])
               PROVE  Final(clock, sent[q][k].due) >= 1
    BY DEF NoneMissed
  <2>1. /\ sent[q][k].frame > 0
        /\ sent[q][k].due = sent[q][k].frame + AheadAt(clock, sent[q][k].frame)
    BY <1>i DEF DuesOK
  <2>2. sent[q][k].frame \in Nat /\ sent[q][k].due \in Nat
    BY SentTypes
  <2>3. AheadAt(clock, sent[q][k].frame) \in Nat
    <3>1. sent[q][k].frame \in Int
      BY <2>2
    <3> QED BY <1>t, <3>1, AheadFacts
  <2>4. sent[q][k].due >= 1
    BY <2>1, <2>2, <2>3
  <2>5. Final(clock, sent[q][k].due) >= sent[q][k].due /\ Final(clock, sent[q][k].due) \in Nat
    BY <1>t, <2>2, FinalFacts
  <2> QED BY <2>2, <2>4, <2>5
<1>6. RosterFull'
  BY <1>1, <1>i DEF RosterFull
<1>7. /\ ahead[p] = IF Told(log[p]) THEN clock.val ELSE InitAhead
      /\ window[p] = IF Told(log[p]) /\ clock.val > InitAhead
                     THEN <<clock.at, clock.at + clock.val>> ELSE <<0, 0>>
      /\ Sorted(log[p])
      /\ ListGood(doList[p], log[p], sent, reads[p], clock)
      /\ Covered(doList[p], log[p], reads[p])
  BY <1>1, <1>i DEF TimingOK, SortedOK, ListOK
<1>8. 1 .. Begun(p)' - 1 = {}
  BY <1>2
<1> QED BY <1>1, <1>2, <1>3, <1>4, <1>5, <1>6, <1>7, <1>8, PlayOne

LEMMA RescheduleFacts ==
  ASSUME NEW e \in Entries, NEW w \in Nat \X Nat
  PROVE  /\ Reschedule(e, w) \in Entries /\ Reschedule(e, w).owner = e.owner
         /\ Reschedule(e, w).ev = e.ev /\ Reschedule(e, w).done = e.done
         /\ Reschedule(e, w).due = IF e.due > w[1] /\ e.due < w[2] THEN w[2] ELSE e.due
<1>1. w[2] \in Nat /\ w[1] \in Nat
  OBVIOUS
<1>2. CASE e.due > w[1] /\ e.due < w[2]
  <2>1. Reschedule(e, w) = [e EXCEPT !.due = w[2]]
    BY <1>2 DEF Reschedule
  <2> QED BY <1>1, <1>2, <2>1 DEF Entries
<1>3. CASE ~ (e.due > w[1] /\ e.due < w[2])
  <2>1. Reschedule(e, w) = e
    BY <1>3 DEF Reschedule
  <2> QED BY <1>3, <2>1
<1> QED BY <1>2, <1>3

(* The period of vulnerability moves an entry to the frame it is for.         *)
LEMMA Moved ==
  ASSUME NEW c \in Clocks, NEW f \in Nat, NEW told \in BOOLEAN,
         ~ told /\ c.on => f <= c.at, told => c.on,
         NEW w \in Nat \X Nat,
         w = IF told /\ c.val > InitAhead THEN <<c.at, c.at + c.val>> ELSE <<0, 0>>,
         NEW d \in Nat, NEW e \in Nat, e = d \/ e = Final(c, d),
         NEW x, x = IF e > w[1] /\ e < w[2] THEN w[2] ELSE e
  PROVE  /\ x = d \/ x = Final(c, d)
         /\ x = Final(c, d) \/ (x > f /\ Final(c, d) > f)
<1>t. c.at \in Nat /\ c.val \in Nat /\ InitAhead \in Nat /\ Final(c, d) \in Nat /\ Final(c, d) >= d
  BY AheadFacts, FinalFacts
<1>1. CASE told /\ c.val > InitAhead
  <2>1. w[1] = c.at /\ w[2] = c.at + c.val /\ c.on
    BY <1>1
  <2>2. CASE e > c.at /\ e < c.at + c.val
    <3>1. x = c.at + c.val
      BY <2>1, <2>2
    <3>2. e = d
      BY <1>1, <1>t, <2>1, <2>2, FinalFacts
    <3>3. Final(c, d) = c.at + c.val
      BY <1>1, <2>1, <2>2, <3>2, FinalFacts
    <3> QED BY <3>1, <3>3
  <2>3. CASE ~ (e > c.at /\ e < c.at + c.val)
    <3>1. x = e
      BY <2>1, <2>3
    <3>2. e = d => Final(c, d) = d
      BY <1>t, <2>3, FinalFacts
    <3> QED BY <3>1, <3>2
  <2> QED BY <2>2, <2>3
<1>2. CASE ~ (told /\ c.val > InitAhead)
  <2>1. w[1] = 0 /\ w[2] = 0
    BY <1>2
  <2>2. x = e
    BY <2>1
  <2>3. CASE told \/ ~ c.on
    <3>1. Final(c, d) = d
      BY <1>2, <1>t, <2>3, FinalFacts
    <3> QED BY <2>2, <3>1
  <2>4. CASE ~ told /\ c.on
    <3>1. CASE e = Final(c, d)
      BY <2>2, <3>1
    <3>2. CASE e = d /\ d # Final(c, d)
      <4>1. d > c.at
        BY <1>t, <3>2, FinalFacts
      <4>2. d > f /\ Final(c, d) > f
        BY <1>t, <2>4, <4>1
      <4> QED BY <2>2, <3>2, <4>2
    <3> QED BY <3>1, <3>2
  <2> QED BY <2>3, <2>4
<1> QED BY <1>1, <1>2

(* The gates of the new frame. *)
LEMMA GatesAdvance ==
  ASSUME TypeOK, CountInv, PlayInv, NEW p \in Player, pc[p] = "wait", CanAdvance(p),
         NEW q \in Player, p # q
  PROVE  /\ frame[p] < theirFrame[p][q] + AheadAt(clock, frame[p])
         /\ theirRecv[p][q] >= theirSent[p][q]
<1>i. KindsOK /\ RosterFull /\ TimingOK /\ LogOK /\ MissedOK
  BY DEF PlayInv
<1>1. Len(ids[p]) # 1
  <2>1. ids[p] = [i \in Player |-> i] /\ ids[p] \in Seq(Player)
    BY <1>i DEF RosterFull, TypeOK
  <2>2. DOMAIN ids[p] = 1 .. Len(ids[p]) /\ DOMAIN ids[p] = Player
    BY <2>1
  <2>3. ASSUME Len(ids[p]) = 1 PROVE FALSE
    <3>1. p \in 1 .. 1 /\ q \in 1 .. 1
      BY <2>2, <2>3
    <3> QED BY <3>1
  <2> QED BY <2>3
<1>2. q \in conns[p]
  BY <1>i DEF RosterFull, Peers
<1>3. ahead[p] = AheadAt(clock, frame[p])
  BY <1>i, AheadNow
<1> QED BY <1>1, <1>2, <1>3 DEF CanAdvance

(* Can_Advance lets a machine begin Execute_DoList. *)
LEMMA PlayAdvance ==
  ASSUME TypeOK, TypeOK', CountInv, PlayInv, NEW p \in Player, Advance(p)
  PROVE  PlayInv'
<1> DEFINE moved == [n \in 1 .. Len(doList[p]) |-> Reschedule(doList[p][n], window[p])]
<1>1. /\ pc[p] = "wait" /\ CanAdvance(p) /\ pc' = [pc EXCEPT ![p] = "exec"]
      /\ cursor' = [cursor EXCEPT ![p] = <<1, 0>>]
      /\ doList' = [doList EXCEPT ![p] = moved]
      /\ UNCHANGED <<frame, ahead, window, ids, conns, theirFrame, theirSent, theirRecv,
                     outList, active, timings, sent, log>>
  BY AdvanceFacts
<1>i. /\ KindsOK /\ RosterFull /\ PlacesOK /\ DuesOK /\ GatesOK /\ TimingOK
      /\ LogOK /\ SortedOK /\ ListOK /\ MissedOK /\ ExecOK
  BY PlayParts
<1>t. /\ pc \in [Player -> Places] /\ cursor \in [Player -> Nat \X Nat]
      /\ doList \in [Player -> Seq(Entries)] /\ window[p] \in Nat \X Nat /\ frame[p] \in Nat
      /\ clock \in Clocks /\ Begun(p) = frame[p] /\ doList[p] \in Seq(Entries)
      /\ Begun(p) \in Nat /\ log[p] \in Seq(Records) /\ Len(doList[p]) \in Nat
  <2>1. doList[p] \in Seq(Entries) /\ window \in [Player -> Nat \X Nat]
    BY PlayTypes
  <2>2. window[p] \in Nat \X Nat /\ Len(doList[p]) \in Nat
    BY <2>1
  <2>3. pc \in [Player -> Places] /\ clock \in Clocks
    BY <1>i, CountTypes, WorldTypes
  <2>4. frame[p] \in Nat /\ log[p] \in Seq(Records) /\ cursor \in [Player -> Nat \X Nat]
        /\ doList \in [Player -> Seq(Entries)]
    BY PlayTypes
  <2>5. Begun(p) = frame[p]
    BY <1>1, <2>4 DEF Begun
  <2> QED BY <2>1, <2>2, <2>3, <2>4, <2>5
<1>2. pc'[p] = "exec" /\ cursor'[p] = <<1, 0>> /\ doList'[p] = moved /\ Begun(p)' = frame[p] + 1
  BY <1>1, <1>t DEF Begun
<1>3. \A a \in Player : a # p => pc'[a] = pc[a] /\ cursor'[a] = cursor[a] /\ doList'[a] = doList[a]
  BY <1>1, <1>t
<1>4. Len(moved) = Len(doList[p]) /\ \A n \in 1 .. Len(doList[p]) : moved[n] = Reschedule(doList[p][n], window[p])
  BY <1>t
<1> HIDE DEF moved
<1>5. ASSUME NEW n \in 1 .. Len(doList[p])
      PROVE  /\ moved[n].owner = doList[p][n].owner /\ moved[n].ev = doList[p][n].ev
             /\ moved[n].done = doList[p][n].done
             /\ moved[n].due = IF doList[p][n].due > window[p][1] /\ doList[p][n].due < window[p][2]
                               THEN window[p][2] ELSE doList[p][n].due
  <2>1. doList[p][n] \in Entries
    BY <1>t
  <2>2. moved[n] = Reschedule(doList[p][n], window[p])
    BY <1>4
  <2>3. window[p] \in Nat \X Nat
    BY <1>t
  <2> QED BY <2>1, <2>2, <2>3, RescheduleFacts
<1>6. /\ ListGood(doList[p], log[p], sent, reads[p], clock)
      /\ Covered(doList[p], log[p], reads[p])
  BY <1>1, <1>i DEF ListOK
<1>7. ASSUME NEW n \in 1 .. Len(doList[p])
      PROVE  /\ Genuine(moved[n], sent, reads[p])
             /\ moved[n].due = DueOf(moved[n], sent) \/ moved[n].due = FinalOf(moved[n], sent, clock)
             /\ \/ moved[n].due = FinalOf(moved[n], sent, clock)
                \/ moved[n].due > frame[p] /\ FinalOf(moved[n], sent, clock) > frame[p]
             /\ moved[n].done <=> Has(log[p], moved[n].owner, moved[n].ev.no)
  <2> DEFINE e == doList[p][n]
             d == DueOf(e, sent)
  <2>1. /\ Genuine(e, sent, reads[p])
        /\ e.due = d \/ e.due = Final(clock, d)
        /\ e.done <=> Has(log[p], e.owner, e.ev.no)
    BY <1>6 DEF ListGood, FinalOf
  <2>2. e.due \in Nat /\ e.owner \in Player
    BY RecordTypes
  <2>3. d \in Nat
    BY <1>i, <2>1, <2>2, WorldTypes, GenuineKept, GrownSame
  <2>4. /\ Genuine(moved[n], sent, reads[p]) /\ DueOf(moved[n], sent) = d
        /\ moved[n].done <=> Has(log[p], moved[n].owner, moved[n].ev.no)
    BY <1>5, <2>1 DEF Genuine, DueOf
  <2>5. moved[n].due = IF e.due > window[p][1] /\ e.due < window[p][2] THEN window[p][2] ELSE e.due
    BY <1>5
  <2> DEFINE told == Told(log[p])
             x == moved[n].due
  <2>6. told \in BOOLEAN
    BY DEF Told
  <2>7. window[p] = IF told /\ clock.val > InitAhead THEN <<clock.at, clock.at + clock.val>> ELSE <<0, 0>>
    BY <1>i DEF TimingOK
  <2>8. (~ told /\ clock.on => frame[p] <= clock.at) /\ (told => clock.on)
    BY <1>i, AheadNow, ToldFacts
  <2>9. x = IF e.due > window[p][1] /\ e.due < window[p][2] THEN window[p][2] ELSE e.due
    BY <2>5
  <2> HIDE DEF e, d, told, x
  <2>10. /\ x = d \/ x = Final(clock, d)
         /\ x = Final(clock, d) \/ (x > frame[p] /\ Final(clock, d) > frame[p])
    <3>1. e.due \in Nat /\ (e.due = d \/ e.due = Final(clock, d))
      BY <2>1, <2>2 DEF e
    <3>2. clock \in Clocks /\ frame[p] \in Nat /\ window[p] \in Nat \X Nat
      BY <1>t
    <3>3. told \in BOOLEAN /\ (~ told /\ clock.on => frame[p] <= clock.at) /\ (told => clock.on)
      BY <2>6, <2>8
    <3> QED BY <2>3, <2>7, <2>9, <3>1, <3>2, <3>3, Moved
  <2> QED BY <2>4, <2>10 DEF FinalOf, x
<1>8. ListGood(moved, log[p], sent, reads[p], clock)
  <2>1. ASSUME NEW i \in 1 .. Len(doList[p]), NEW j \in 1 .. Len(doList[p]), i < j,
               moved[i].owner = moved[j].owner
        PROVE  moved[i].ev.no < moved[j].ev.no
    BY <1>5, <1>6, <2>1 DEF ListGood
  <2> QED BY <1>4, <1>7, <2>1 DEF ListGood
<1>9. Covered(moved, log[p], reads[p])
  <2> SUFFICES ASSUME NEW q \in Player, NEW k \in 1 .. reads[p][q], ~ Has(log[p], q, k)
               PROVE  \E j \in 1 .. Len(moved) : moved[j].owner = q /\ moved[j].ev.no = k
    BY DEF Covered
  <2>1. PICK j \in 1 .. Len(doList[p]) : doList[p][j].owner = q /\ doList[p][j].ev.no = k
    BY <1>6 DEF Covered
  <2> QED BY <1>4, <1>5, <2>1
<1>10. Ready(moved, sent, clock, frame[p])
  BY <1>4, <1>7 DEF Ready
<1>11. LogGood(log[p], sent, reads[p], clock, frame[p]) /\ \A n \in 1 .. Len(log[p]) : log[p][n].at \in Nat
  BY <1>i, <1>t, RecordTypes DEF LogOK
<1>12. Ahead(moved, log[p], <<1, 0>>, frame[p])
  <2> SUFFICES ASSUME NEW j \in 1 .. Len(moved)
               PROVE  /\ moved[j].owner > 1 \/ (moved[j].owner = 1 /\ j > 0)
                      /\ \A n \in 1 .. Len(log[p]) : log[p][n].at # frame[p]
    BY DEF Ahead
  <2>1. moved[j].owner \in Player
    BY <1>4, <1>5, RecordTypes
  <2>2. moved[j].owner > 1 \/ moved[j].owner = 1
    BY <2>1, Players DEF Player
  <2>3. \A n \in 1 .. Len(log[p]) : log[p][n].at # frame[p]
    BY <1>11, <1>t DEF LogGood
  <2> QED BY <1>4, <1>t, <2>2, <2>3
<1>13. LogGood(log[p], sent, reads[p], clock, frame[p] + 1)
  BY <1>11, <1>t DEF LogGood
<1>14. ASSUME NEW q \in Player, p # q
       PROVE  /\ \A f \in 1 .. (frame[p] + 1) - 1 : f < theirFrame[p][q] + AheadAt(clock, f)
              /\ theirRecv[p][q] >= theirSent[p][q]
  <2>1. \A f \in 1 .. frame[p] - 1 : f < theirFrame[p][q] + AheadAt(clock, f)
    BY <1>14, <1>i, <1>t DEF GatesOK
  <2>2. frame[p] < theirFrame[p][q] + AheadAt(clock, frame[p]) /\ theirRecv[p][q] >= theirSent[p][q]
    BY <1>1, <1>14, GatesAdvance
  <2>3. \A f \in 1 .. (frame[p] + 1) - 1 : f \in 1 .. frame[p] - 1 \/ f = frame[p]
    BY <1>t
  <2> QED BY <2>1, <2>2, <2>3
<1>15. RosterFull'
  BY <1>1, <1>i DEF RosterFull
<1>16. /\ ahead[p] = IF Told(log[p]) THEN clock.val ELSE InitAhead
       /\ window[p] = IF Told(log[p]) /\ clock.val > InitAhead
                      THEN <<clock.at, clock.at + clock.val>> ELSE <<0, 0>>
       /\ Sorted(log[p]) /\ NoneMissed(log[p], sent, clock, frame[p]) /\ frame[p] > 0
  <2>1. frame[p] > 0
    BY <1>1, <1>i DEF PlacesOK
  <2> QED BY <1>i, <2>1 DEF TimingOK, SortedOK, MissedOK
<1> QED BY <1>1, <1>2, <1>3, <1>8, <1>9, <1>10, <1>12, <1>13, <1>14, <1>15, <1>16, PlayOne

(* One record more in a log. *)
LEMMA LogAppend ==
  ASSUME NEW l \in Seq(Records), NEW x \in Records
  PROVE  /\ Append(l, x) \in Seq(Records) /\ Len(l) \in Nat
         /\ Len(Append(l, x)) = Len(l) + 1 /\ Append(l, x)[Len(l) + 1] = x
         /\ \A n \in 1 .. Len(l) : n \in 1 .. Len(Append(l, x)) /\ Append(l, x)[n] = l[n]
         /\ \A n \in 1 .. Len(Append(l, x)) : n \in 1 .. Len(l) \/ n = Len(l) + 1
         /\ \A o, k : Has(Append(l, x), o, k) <=> Has(l, o, k) \/ (x.owner = o /\ x.ev.no = k)
<1> DEFINE m == Append(l, x)
<1>1. /\ m \in Seq(Records) /\ Len(l) \in Nat /\ Len(m) = Len(l) + 1 /\ m[Len(l) + 1] = x
      /\ \A n \in 1 .. Len(l) : m[n] = l[n]
  BY AppendProperties
<1> HIDE DEF m
<1>2. /\ \A n \in 1 .. Len(l) : n \in 1 .. Len(m)
      /\ \A n \in 1 .. Len(m) : n \in 1 .. Len(l) \/ n = Len(l) + 1
      /\ Len(l) + 1 \in 1 .. Len(m)
  BY <1>1
<1>3. ASSUME NEW o, NEW k PROVE Has(m, o, k) <=> Has(l, o, k) \/ (x.owner = o /\ x.ev.no = k)
  <2>1. ASSUME Has(m, o, k) PROVE Has(l, o, k) \/ (x.owner = o /\ x.ev.no = k)
    <3>1. PICK n \in 1 .. Len(m) : m[n].owner = o /\ m[n].ev.no = k
      BY <2>1 DEF Has
    <3>2. CASE n \in 1 .. Len(l)
      BY <1>1, <3>1, <3>2 DEF Has
    <3>3. CASE n = Len(l) + 1
      BY <1>1, <3>1, <3>3
    <3> QED BY <1>2, <3>2, <3>3
  <2>2. ASSUME Has(l, o, k) PROVE Has(m, o, k)
    <3>1. PICK n \in 1 .. Len(l) : l[n].owner = o /\ l[n].ev.no = k
      BY <2>2 DEF Has
    <3>2. n \in 1 .. Len(m) /\ m[n] = l[n]
      BY <1>1, <1>2
    <3> QED BY <3>1, <3>2 DEF Has
  <2>3. ASSUME x.owner = o, x.ev.no = k PROVE Has(m, o, k)
    BY <1>1, <1>2, <2>3 DEF Has
  <2> QED BY <2>1, <2>2, <2>3
<1> QED BY <1>1, <1>2, <1>3 DEF m

(* What lies ahead of the loops is in Todo. *)
LEMMA TodoHas ==
  ASSUME TypeOK, RosterFull, NEW p \in Player, NEW j \in 1 .. Len(doList[p]),
         doList[p][j].due <= frame[p], ~ doList[p][j].done,
         \/ doList[p][j].owner > cursor[p][1]
         \/ doList[p][j].owner = cursor[p][1] /\ j > cursor[p][2]
  PROVE  <<doList[p][j].owner, j>> \in Todo(p)
<1> DEFINE o == doList[p][j].owner
           c == <<o, j>>
<1>1. o \in Player /\ doList[p][j].due \in Nat /\ frame[p] \in Nat /\ doList[p] \in Seq(Entries)
  BY RecordTypes, PlayTypes
<1>2. ids[p] = [i \in Player |-> i]
  BY DEF RosterFull
<1>3. DOMAIN ids[p] = Player /\ ids[p][o] = o
  BY <1>1, <1>2
<1>4. j \in DOMAIN doList[p] /\ frame[p] >= doList[p][j].due
  BY <1>1
<1>5. Pending(p, o, j)
  BY <1>3, <1>4 DEF Pending
<1>6. c[1] = o /\ c[2] = j /\ c \in (DOMAIN ids[p]) \X (DOMAIN doList[p])
  BY <1>1, <1>3, <1>4
<1>7. c[1] > cursor[p][1] \/ (c[1] = cursor[p][1] /\ c[2] > cursor[p][2])
  BY <1>6
<1>8. Pending(p, c[1], c[2])
  BY <1>5, <1>6
<1> HIDE DEF c
<1> QED BY <1>6, <1>7, <1>8 DEF Todo, c

(* The next event is for the frame at hand. *)
LEMMA NextDue ==
  ASSUME TypeOK, CountInv, PlayInv, NEW p \in Player, pc[p] = "exec", NEW c \in Todo(p)
  PROVE  /\ c[2] \in 1 .. Len(doList[p]) /\ c[1] = doList[p][c[2]].owner
         /\ c \in Nat \X Nat
         /\ doList[p][c[2]].due = frame[p] /\ ~ doList[p][c[2]].done
         /\ FinalOf(doList[p][c[2]], sent, clock) = frame[p]
         /\ Genuine(doList[p][c[2]], sent, reads[p])
         /\ ~ Has(log[p], doList[p][c[2]].owner, doList[p][c[2]].ev.no)
<1> DEFINE e == doList[p][c[2]]
           q == e.owner
           k == e.ev.no
<1>i. RosterFull /\ ListOK /\ MissedOK /\ ExecOK /\ KindsOK
  BY DEF PlayInv
<1>1. c \in Nat \X Nat /\ c[1] \in 1 .. Len(ids[p]) /\ c[2] \in 1 .. Len(doList[p])
  BY TodoFacts
<1>2. e.owner = ids[p][c[1]] /\ frame[p] >= e.due /\ ~ e.done
  BY DEF Todo, Pending
<1>3. c[1] = e.owner
  <2>1. ids[p] = [i \in Player |-> i] /\ ids[p] \in Seq(Player)
    BY <1>i DEF RosterFull, TypeOK
  <2>2. c[1] \in DOMAIN ids[p] /\ DOMAIN ids[p] = Player
    BY <1>1, <2>1
  <2>3. ids[p][c[1]] = c[1]
    BY <2>1, <2>2
  <2> QED BY <1>2, <2>3
<1>4. /\ Genuine(e, sent, reads[p]) /\ (e.done <=> Has(log[p], q, k))
      /\ Ready(doList[p], sent, clock, frame[p])
  BY <1>1, <1>i DEF ListOK, ListGood, ExecOK
<1>5. q \in Player /\ e.due \in Nat /\ frame[p] \in Nat
  BY <1>1, RecordTypes, PlayTypes
<1>6. k \in 1 .. Len(sent[q])
  <2>1. k \in 1 .. reads[p][q]
    BY <1>4 DEF Genuine
  <2>2. reads[p][q] \in Nat /\ reads[p][q] <= Len(sent[q]) /\ Len(sent[q]) \in Nat
    BY <1>5, ReadsFacts DEF CountInv
  <2> QED BY <2>1, <2>2
<1>7. FinalOf(e, sent, clock) >= frame[p]
  <2>1. ~ Has(log[p], q, k)
    BY <1>2, <1>4
  <2>2. Final(clock, sent[q][k].due) >= frame[p]
    BY <1>5, <1>6, <1>i, <2>1 DEF MissedOK, NoneMissed
  <2> QED BY <2>2 DEF FinalOf, DueOf
<1>8. \/ e.due = FinalOf(e, sent, clock)
      \/ e.due > frame[p] /\ FinalOf(e, sent, clock) > frame[p]
  BY <1>1, <1>4 DEF Ready
<1>9. e.due = frame[p] /\ FinalOf(e, sent, clock) = frame[p]
  <2>1. e.due = FinalOf(e, sent, clock)
    BY <1>2, <1>5, <1>8
  <2> QED BY <1>2, <1>5, <1>7, <2>1
<1> QED BY <1>1, <1>2, <1>3, <1>4, <1>9

(* A TIMING event is executed once, when it is due. *)
LEMMA TimingOnce ==
  ASSUME TypeOK, CountInv, PlayInv, NEW p \in Player, NEW x, x.owner \in Player,
         Genuine(x, sent, reads[p]), IsTiming(x), ~ Has(log[p], x.owner, x.ev.no)
  PROVE  /\ clock.on /\ clock.val = x.ev.val /\ FinalOf(x, sent, clock) = clock.at
         /\ ~ Told(log[p])
<1> DEFINE q == x.owner
           k == x.ev.no
<1>i. Numbered /\ PromisesOK /\ KindsOK /\ LogOK
  BY PlayParts DEF CountInv
<1>1. k \in 1 .. Len(sent[q]) /\ x.ev = sent[q][k].ev /\ DueOf(x, sent) = sent[q][k].due
  <2>1. k \in 1 .. reads[p][q] /\ x.ev = sent[q][k].ev
    BY DEF Genuine
  <2>2. reads[p][q] \in Nat /\ reads[p][q] <= Len(sent[q]) /\ Len(sent[q]) \in Nat
    BY <1>i, ReadsFacts
  <2> HIDE DEF q, k
  <2>3. k \in 1 .. Len(sent[q])
    BY <2>1, <2>2
  <2> QED BY <2>1, <2>3 DEF DueOf, q, k
<1>2. IsTiming(sent[q][k])
  BY <1>1 DEF IsTiming
<1>3. q = 1 /\ clock = [on |-> TRUE, at |-> sent[q][k].due, val |-> sent[q][k].ev.val] /\ clock \in Clocks
  <2> HIDE DEF q, k
  <2>1. q \in Player
    BY DEF q
  <2> QED BY <1>i, <1>1, <1>2, <2>1, ClockFacts
<1>4. clock.on /\ clock.at = DueOf(x, sent) /\ clock.val = x.ev.val
  BY <1>1, <1>3
<1>5. FinalOf(x, sent, clock) = clock.at
  <2>1. clock.at \in Nat
    BY <1>3, AheadFacts
  <2>2. clock.at <= clock.at
    BY <2>1
  <2>3. Final(clock, clock.at) = clock.at
    BY <1>3, <2>1, <2>2, FinalFacts
  <2> QED BY <1>4, <2>3 DEF FinalOf
<1>6. ASSUME Told(log[p]) PROVE FALSE
  <2>1. PICK n \in 1 .. Len(log[p]) : IsTiming(log[p][n])
    BY <1>6 DEF Told
  <2> DEFINE y == log[p][n]
  <2>2. Genuine(y, sent, reads[p]) /\ y.owner \in Player
    BY <1>i, RecordTypes DEF LogOK, LogGood
  <2>3. y.ev.no \in 1 .. reads[p][y.owner] /\ y.ev = sent[y.owner][y.ev.no].ev
    BY <2>2 DEF Genuine
  <2>4. reads[p][y.owner] \in Nat /\ reads[p][y.owner] <= Len(sent[y.owner]) /\ Len(sent[y.owner]) \in Nat
    BY <1>i, <2>2, ReadsFacts
  <2>5. y.ev.no \in 1 .. Len(sent[y.owner])
    BY <2>3, <2>4
  <2>6. IsTiming(sent[y.owner][y.ev.no])
    BY <2>1, <2>3 DEF IsTiming
  <2>7. y.owner = 1
    BY <1>i, <2>2, <2>5, <2>6, ClockFacts
  <2>8. y.ev \in Issued(1) /\ x.ev \in Issued(1)
    BY <1>1, <1>3, <2>3, <2>5, <2>7 DEF Issued
  <2>9. y.ev.no = x.ev.no
    BY <1>i, <2>1, <2>8 DEF KindsOK, IsTiming
  <2> QED BY <1>3, <2>7, <2>9 DEF Has
<1> QED BY <1>4, <1>5, <1>6

(* What executing event e leaves in the records and in the DoList.            *)
LEMMA ExecuteRecords ==
  ASSUME TypeOK, CountInv, PlayInv, NEW p \in Player, pc[p] = "exec", NEW c \in Todo(p),
         \A d \in Todo(p) : Earlier(c, d),
         NEW x \in Records,
         x.at = frame[p], x.owner = doList[p][c[2]].owner, x.ev = doList[p][c[2]].ev,
         NEW l, l = Append(log[p], x),
         NEW d \in Seq(Entries), Len(d) = Len(doList[p]), d[c[2]].done,
         \A j \in 1 .. Len(d) : /\ d[j].owner = doList[p][j].owner /\ d[j].ev = doList[p][j].ev
                                /\ d[j].due = doList[p][j].due
                                /\ j # c[2] => d[j].done = doList[p][j].done
  PROVE  /\ LogGood(l, sent, reads[p], clock, frame[p] + 1) /\ Sorted(l)
         /\ ListGood(d, l, sent, reads[p], clock) /\ Covered(d, l, reads[p])
         /\ NoneMissed(l, sent, clock, frame[p])
         /\ Ready(d, sent, clock, frame[p]) /\ Ahead(d, l, c, frame[p])
<1> DEFINE e == doList[p][c[2]]
           old == doList[p]
           len == Len(log[p])
<1>i. /\ RosterFull /\ LogOK /\ SortedOK /\ ListOK /\ MissedOK /\ ExecOK
  BY PlayParts
<1>t. frame[p] \in Nat /\ log[p] \in Seq(Records) /\ Begun(p) = frame[p] + 1 /\ cursor[p] \in Nat \X Nat
  BY PlayTypes DEF Begun
<1>e. /\ c[2] \in 1 .. Len(old) /\ c[1] = e.owner /\ c[1] \in Nat /\ c[2] \in Nat
      /\ e.due = frame[p] /\ ~ e.done /\ FinalOf(e, sent, clock) = frame[p]
      /\ Genuine(e, sent, reads[p]) /\ ~ Has(log[p], e.owner, e.ev.no)
  <2>1. c \in Nat \X Nat
    BY NextDue
  <2>2. c[1] \in Nat /\ c[2] \in Nat
    BY <2>1
  <2> QED BY <2>2, NextDue
<1>l. /\ l \in Seq(Records) /\ len \in Nat /\ Len(l) = len + 1 /\ l[len + 1] = x
      /\ \A n \in 1 .. len : n \in 1 .. Len(l) /\ l[n] = log[p][n]
      /\ \A n \in 1 .. Len(l) : n \in 1 .. len \/ n = len + 1
      /\ \A o, k : Has(l, o, k) <=> Has(log[p], o, k) \/ (x.owner = o /\ x.ev.no = k)
  BY <1>t, LogAppend
<1>o. /\ LogGood(log[p], sent, reads[p], clock, frame[p] + 1) /\ Sorted(log[p])
      /\ ListGood(old, log[p], sent, reads[p], clock) /\ Covered(old, log[p], reads[p])
      /\ NoneMissed(log[p], sent, clock, frame[p])
      /\ Ready(old, sent, clock, frame[p]) /\ Ahead(old, log[p], cursor[p], frame[p])
  <2>1. pc[p] # "full"
    OBVIOUS
  <2> QED BY <1>i, <1>t, <2>1 DEF LogOK, SortedOK, ListOK, MissedOK, ExecOK
<1>r. \A n \in 1 .. len : log[p][n].at \in Nat
  BY RecordTypes
<1>d. \A j \in 1 .. Len(old) : old[j].due \in Nat /\ old[j].owner \in Player /\ old[j].ev.no \in Nat
                               /\ old[j].owner \in Nat
  <2>1. \A j \in 1 .. Len(old) : old[j].due \in Nat /\ old[j].owner \in Player /\ old[j].ev.no \in Nat
    BY RecordTypes
  <2> QED BY <2>1 DEF Player
<1>n. Len(old) \in Nat /\ \A j \in 1 .. Len(d) : j \in 1 .. Len(old)
  <2>1. doList[p] \in Seq(Entries)
    BY PlayTypes
  <2> QED BY <2>1
<1>1. LogGood(l, sent, reads[p], clock, frame[p] + 1)
  <2> SUFFICES ASSUME NEW n \in 1 .. Len(l)
               PROVE  /\ Genuine(l[n], sent, reads[p]) /\ l[n].at = FinalOf(l[n], sent, clock)
                      /\ l[n].at < frame[p] + 1
    BY DEF LogGood
  <2>1. CASE n \in 1 .. len
    BY <1>l, <1>o, <2>1 DEF LogGood
  <2>2. CASE n = len + 1
    <3>1. l[n] = x
      BY <1>l, <2>2
    <3>2. Genuine(x, sent, reads[p]) /\ FinalOf(x, sent, clock) = frame[p]
      BY <1>e DEF Genuine, FinalOf, DueOf
    <3> QED BY <1>t, <3>1, <3>2
  <2> QED BY <1>l, <2>1, <2>2
<1>2. Sorted(l)
  <2> SUFFICES ASSUME NEW m \in 1 .. Len(l), NEW n \in 1 .. Len(l), m < n
               PROVE  l[m].at < l[n].at \/ (l[m].at = l[n].at /\ Precedes(l[m], l[n]))
    BY DEF Sorted
  <2>1. m \in 1 .. len
    BY <1>l
  <2>2. l[m] = log[p][m]
    BY <1>l, <2>1
  <2>3. CASE n \in 1 .. len
    <3>1. l[n] = log[p][n]
      BY <1>l, <2>3
    <3> QED BY <1>o, <2>1, <2>2, <2>3, <3>1 DEF Sorted
  <2>4. CASE n = len + 1
    <3>1. l[n] = x
      BY <1>l, <2>4
    <3>2. log[p][m].at < frame[p] + 1 /\ log[p][m].at \in Nat
      BY <1>o, <1>r, <2>1 DEF LogGood
    <3>3. log[p][m].at = frame[p] => Precedes(log[p][m], e)
      <4>1. e.due <= frame[p]
        BY <1>e, <1>t
      <4> QED BY <1>e, <1>o, <2>1, <4>1 DEF Ahead
    <3>4. Precedes(log[p][m], e) => Precedes(log[p][m], x)
      BY DEF Precedes
    <3> QED BY <1>t, <2>2, <3>1, <3>2, <3>3, <3>4
  <2> QED BY <1>l, <2>3, <2>4
<1>3. ASSUME NEW j \in 1 .. Len(d)
      PROVE  /\ Genuine(d[j], sent, reads[p])
             /\ DueOf(d[j], sent) = DueOf(old[j], sent)
             /\ FinalOf(d[j], sent, clock) = FinalOf(old[j], sent, clock)
  <2>1. Genuine(old[j], sent, reads[p])
    BY <1>n, <1>o DEF ListGood
  <2>2. d[j].owner = old[j].owner /\ d[j].ev = old[j].ev
    OBVIOUS
  <2> QED BY <2>1, <2>2 DEF Genuine, FinalOf, DueOf
<1>4. ASSUME NEW j \in 1 .. Len(d), d[j].owner = x.owner, d[j].ev.no = x.ev.no PROVE j = c[2]
  <2>1. old[j].owner = e.owner /\ old[j].ev.no = e.ev.no /\ j \in 1 .. Len(old)
    BY <1>4, <1>n
  <2>2. ~ j < c[2] /\ ~ c[2] < j
    <3>1. \A i, k \in 1 .. Len(old) : i < k /\ old[i].owner = old[k].owner => old[i].ev.no < old[k].ev.no
      BY <1>o DEF ListGood
    <3>2. ~ (e.ev.no < e.ev.no)
      BY <1>d, <1>e
    <3> QED BY <1>e, <2>1, <3>1, <3>2
  <2> QED BY <1>e, <2>2
<1>5. ListGood(d, l, sent, reads[p], clock)
  <2>1. ASSUME NEW j \in 1 .. Len(d) PROVE d[j].done <=> Has(l, d[j].owner, d[j].ev.no)
    <3>1. CASE j = c[2]
      <4>1. d[j].owner = x.owner /\ d[j].ev.no = x.ev.no /\ d[j].done
        BY <3>1
      <4> QED BY <1>l, <4>1
    <3>2. CASE j # c[2]
      <4>1. d[j].done = old[j].done /\ d[j].owner = old[j].owner /\ d[j].ev = old[j].ev
        BY <3>2
      <4>2. old[j].done <=> Has(log[p], old[j].owner, old[j].ev.no)
        BY <1>n, <1>o DEF ListGood
      <4>3. ~ (x.owner = d[j].owner /\ x.ev.no = d[j].ev.no)
        BY <1>4, <3>2
      <4> QED BY <1>l, <4>1, <4>2, <4>3
    <3> QED BY <3>1, <3>2
  <2>2. ASSUME NEW j \in 1 .. Len(d)
        PROVE  d[j].due = DueOf(d[j], sent) \/ d[j].due = FinalOf(d[j], sent, clock)
    BY <1>3, <1>n, <1>o DEF ListGood
  <2>3. ASSUME NEW i \in 1 .. Len(d), NEW j \in 1 .. Len(d), i < j, d[i].owner = d[j].owner
        PROVE  d[i].ev.no < d[j].ev.no
    BY <1>n, <1>o, <2>3 DEF ListGood
  <2> QED BY <1>3, <2>1, <2>2, <2>3 DEF ListGood
<1>6. Covered(d, l, reads[p])
  <2> SUFFICES ASSUME NEW q \in Player, NEW k \in 1 .. reads[p][q], ~ Has(l, q, k)
               PROVE  \E j \in 1 .. Len(d) : d[j].owner = q /\ d[j].ev.no = k
    BY DEF Covered
  <2>1. ~ Has(log[p], q, k)
    BY <1>l
  <2>2. PICK j \in 1 .. Len(old) : old[j].owner = q /\ old[j].ev.no = k
    BY <1>o, <2>1 DEF Covered
  <2> QED BY <2>2
<1>7. NoneMissed(l, sent, clock, frame[p])
  BY <1>l, <1>o DEF NoneMissed
<1>8. Ready(d, sent, clock, frame[p])
  BY <1>3, <1>n, <1>o DEF Ready
<1>9. Ahead(d, l, c, frame[p])
  <2> SUFFICES ASSUME NEW j \in 1 .. Len(d), d[j].due <= frame[p], ~ d[j].done
               PROVE  /\ d[j].owner > c[1] \/ (d[j].owner = c[1] /\ j > c[2])
                      /\ \A n \in 1 .. Len(l) : l[n].at = frame[p] => Precedes(l[n], d[j])
    BY DEF Ahead
  <2>1. j # c[2] /\ j \in 1 .. Len(old) /\ old[j].due <= frame[p] /\ ~ old[j].done
        /\ d[j].owner = old[j].owner /\ d[j].ev = old[j].ev
    BY <1>n
  <2>2. /\ old[j].owner > cursor[p][1] \/ (old[j].owner = cursor[p][1] /\ j > cursor[p][2])
        /\ \A n \in 1 .. len : log[p][n].at = frame[p] => Precedes(log[p][n], old[j])
    BY <1>o, <2>1 DEF Ahead
  <2>3. <<old[j].owner, j>> \in Todo(p)
    BY <1>i, <2>1, <2>2, TodoHas
  <2>4. Earlier(c, <<old[j].owner, j>>)
    BY <2>3
  <2>5. c[1] < old[j].owner \/ (c[1] = old[j].owner /\ c[2] <= j)
    BY <2>4 DEF Earlier
  <2>6. old[j].owner \in Nat /\ j \in Nat
    BY <1>d, <2>1
  <2>7. old[j].owner > c[1] \/ (old[j].owner = c[1] /\ j > c[2])
    BY <1>e, <2>1, <2>5, <2>6
  <2>8. Precedes(x, old[j])
    <3>1. CASE old[j].owner > c[1]
      BY <1>e, <2>6, <3>1 DEF Precedes
    <3>2. CASE old[j].owner = c[1] /\ j > c[2]
      <4>1. c[2] < j
        BY <1>e, <2>6, <3>2
      <4>2. e.ev.no < old[j].ev.no
        BY <1>e, <1>o, <2>1, <3>2, <4>1 DEF ListGood
      <4> QED BY <1>e, <3>2, <4>2 DEF Precedes
    <3> QED BY <2>7, <3>1, <3>2
  <2>9. ASSUME NEW n \in 1 .. Len(l), l[n].at = frame[p] PROVE Precedes(l[n], d[j])
    <3>1. Precedes(l[n], old[j])
      <4>1. CASE n \in 1 .. len
        BY <1>l, <2>2, <2>9, <4>1
      <4>2. CASE n = len + 1
        BY <1>l, <2>8, <4>2
      <4> QED BY <1>l, <4>1, <4>2
    <3> QED BY <2>1, <3>1 DEF Precedes
  <2> QED BY <2>1, <2>7, <2>9
<1> QED BY <1>1, <1>2, <1>5, <1>6, <1>7, <1>8, <1>9

(* Execute_DoList runs the next event. *)
LEMMA PlayExecute ==
  ASSUME TypeOK, TypeOK', CountInv, PlayInv, NEW p \in Player, ExecuteEvent(p)
  PROVE  PlayInv'
<1>i. /\ Numbered /\ PromisesOK /\ KindsOK /\ RosterFull /\ PlacesOK /\ GatesOK /\ TimingOK /\ LogOK
  BY PlayParts DEF CountInv
<1>t. /\ pc \in [Player -> Places] /\ cursor \in [Player -> Nat \X Nat] /\ frame[p] \in Nat
      /\ ahead \in [Player -> Nat] /\ window \in [Player -> Nat \X Nat]
      /\ log \in [Player -> Seq(Records)] /\ log[p] \in Seq(Records)
      /\ doList \in [Player -> Seq(Entries)] /\ doList[p] \in Seq(Entries)
      /\ active \in [Player -> BOOLEAN]
  <2>1. pc \in [Player -> Places] /\ active \in [Player -> BOOLEAN]
    BY DEF TypeOK
  <2>2. frame[p] \in Nat /\ log[p] \in Seq(Records) /\ doList[p] \in Seq(Entries)
    BY PlayTypes
  <2>3. /\ ahead \in [Player -> Nat] /\ window \in [Player -> Nat \X Nat]
        /\ log \in [Player -> Seq(Records)] /\ doList \in [Player -> Seq(Entries)]
        /\ cursor \in [Player -> Nat \X Nat]
    BY PlayTypes
  <2> QED BY <2>1, <2>2, <2>3
<1>f. /\ pc[p] = "exec"
      /\ UNCHANGED <<frame, theirFrame, theirSent, theirRecv, outList, timings, sent>>
  BY ExecuteFacts
<1>p. PICK c \in Todo(p) :
        /\ \A d \in Todo(p) : Earlier(c, d)
        /\ cursor' = [cursor EXCEPT ![p] = c]
        /\ \/ /\ frame[p] > doList[p][c[2]].due
              /\ pc' = [pc EXCEPT ![p] = "late"]
           \/ /\ Effect(p, doList[p][c[2]])
              /\ doList' = [doList EXCEPT ![p] =
                   [doList[p] EXCEPT ![c[2]] = [doList[p][c[2]] EXCEPT !.done = TRUE]]]
              /\ log' = [log EXCEPT ![p] = Append(log[p],
                   [at |-> frame[p], owner |-> doList[p][c[2]].owner, ev |-> doList[p][c[2]].ev])]
              /\ UNCHANGED pc
  BY ExecuteFacts
<1> DEFINE e == doList[p][c[2]]
           x == [at |-> frame[p], owner |-> e.owner, ev |-> e.ev]
           l == Append(log[p], x)
           d == [doList[p] EXCEPT ![c[2]] = [e EXCEPT !.done = TRUE]]
<1>e. /\ c[2] \in 1 .. Len(doList[p]) /\ e.due = frame[p]
      /\ FinalOf(e, sent, clock) = frame[p]
      /\ Genuine(e, sent, reads[p]) /\ ~ Has(log[p], e.owner, e.ev.no)
  BY <1>f, NextDue
<1>y. e \in Entries /\ e.owner \in Player /\ e.ev \in Events
  BY <1>e, RecordTypes
<1>1. /\ Effect(p, e) /\ doList' = [doList EXCEPT ![p] = d] /\ log' = [log EXCEPT ![p] = l]
      /\ UNCHANGED pc
  <2>1. ~ frame[p] > e.due
    BY <1>e, <1>t
  <2> QED BY <1>p, <2>1
<1>2. x \in Records /\ x.at = frame[p] /\ x.owner = e.owner /\ x.ev = e.ev
  BY <1>t, <1>y DEF Records
<1>3. /\ d \in Seq(Entries) /\ Len(d) = Len(doList[p]) /\ d[c[2]].done
      /\ \A j \in 1 .. Len(d) : /\ d[j].owner = doList[p][j].owner /\ d[j].ev = doList[p][j].ev
                                /\ d[j].due = doList[p][j].due
                                /\ j # c[2] => d[j].done = doList[p][j].done
  <2> DEFINE e2 == [e EXCEPT !.done = TRUE]
  <2>1. e2 \in Entries /\ e2.done /\ e2.owner = e.owner /\ e2.ev = e.ev /\ e2.due = e.due
    BY <1>y DEF Entries
  <2> HIDE DEF e2
  <2>2. d = [doList[p] EXCEPT ![c[2]] = e2]
    BY DEF e2
  <2>3. d \in Seq(Entries) /\ Len(d) = Len(doList[p])
    BY <1>e, <1>t, <2>1, <2>2
  <2>4. d[c[2]] = e2 /\ \A j \in 1 .. Len(doList[p]) : j # c[2] => d[j] = doList[p][j]
    BY <1>e, <1>t, <2>2
  <2> QED BY <2>1, <2>3, <2>4
<1>4. doList'[p] = d /\ log'[p] = l /\ cursor'[p] = c /\ pc'[p] = "exec" /\ frame'[p] = frame[p]
  BY <1>1, <1>f, <1>p, <1>t
<1> HIDE DEF d, x
<1>5. ASSUME NEW a \in Player, a # p
      PROVE  /\ frame'[a] = frame[a] /\ pc'[a] = pc[a] /\ log'[a] = log[a] /\ doList'[a] = doList[a]
             /\ cursor'[a] = cursor[a] /\ ahead'[a] = ahead[a] /\ window'[a] = window[a]
             /\ \A b \in Player : theirFrame'[a][b] = theirFrame[a][b]
  <2>1. ahead'[a] = ahead[a] /\ window'[a] = window[a]
    BY <1>1, <1>5, <1>t DEF Effect, timing
  <2> QED BY <1>1, <1>5, <1>f, <1>p, <1>t, <2>1
<1>6. e.ev.kind # "EXIT"
  <2>1. e.ev.no \in 1 .. reads[p][e.owner] /\ e.ev = sent[e.owner][e.ev.no].ev
    BY <1>e DEF Genuine
  <2>2. reads[p][e.owner] \in Nat /\ reads[p][e.owner] <= Len(sent[e.owner]) /\ Len(sent[e.owner]) \in Nat
    BY <1>i, <1>y, ReadsFacts
  <2>3. e.ev.no \in 1 .. Len(sent[e.owner])
    BY <2>1, <2>2
  <2>4. e.ev \in Issued(e.owner)
    BY <2>1, <2>3 DEF Issued
  <2> QED BY <1>i, <1>y, <2>4 DEF KindsOK
<1>7. RosterFull'
  <2>1. UNCHANGED <<ids, conns>>
    BY <1>1, <1>6 DEF Effect, roster
  <2>2. \A a \in Player : active[a]
    BY <1>i DEF RosterFull
  <2>3. \A a \in Player : active'[a]
    <3>1. active' = [active EXCEPT ![p] = active[p] /\ ~ (e.ev.kind = "EXIT" /\ e.owner = p)]
      BY <1>1 DEF Effect
    <3>2. \A a \in Player : a # p => active'[a] = active[a]
      BY <1>t, <3>1
    <3>3. active'[p] = (active[p] /\ ~ (e.ev.kind = "EXIT" /\ e.owner = p))
      BY <1>t, <3>1
    <3> QED BY <1>6, <2>2, <3>2, <3>3
  <2> QED BY <1>i, <2>1, <2>3 DEF RosterFull
<1>8. Told(l) <=> Told(log[p]) \/ IsTiming(e)
  <2>1. IsTiming(x) <=> IsTiming(e)
    BY <1>2 DEF IsTiming
  <2>2. /\ Len(l) = Len(log[p]) + 1 /\ l[Len(log[p]) + 1] = x /\ Len(log[p]) \in Nat
        /\ \A n \in 1 .. Len(log[p]) : n \in 1 .. Len(l) /\ l[n] = log[p][n]
        /\ \A n \in 1 .. Len(l) : n \in 1 .. Len(log[p]) \/ n = Len(log[p]) + 1
    BY <1>2, <1>t, LogAppend
  <2> HIDE DEF l
  <2>3. Len(log[p]) + 1 \in 1 .. Len(l)
    BY <2>2
  <2>4. Told(l) => Told(log[p]) \/ IsTiming(e)
    BY <2>1, <2>2 DEF Told
  <2>5. Told(log[p]) => Told(l)
    BY <2>2 DEF Told
  <2>6. IsTiming(e) => Told(l)
    BY <2>1, <2>2, <2>3 DEF Told
  <2> QED BY <2>4, <2>5, <2>6
<1>9. /\ ahead[p] = IF Told(log[p]) THEN clock.val ELSE InitAhead
      /\ window[p] = IF Told(log[p]) /\ clock.val > InitAhead
                     THEN <<clock.at, clock.at + clock.val>> ELSE <<0, 0>>
  BY <1>i DEF TimingOK
<1>10. /\ ahead'[p] = IF Told(l) THEN clock.val ELSE InitAhead
       /\ window'[p] = IF Told(l) /\ clock.val > InitAhead
                       THEN <<clock.at, clock.at + clock.val>> ELSE <<0, 0>>
  <2>1. CASE IsTiming(e)
    <3>1. /\ clock.val = e.ev.val /\ frame[p] = clock.at /\ ~ Told(log[p])
      BY <1>e, <1>y, <2>1, TimingOnce
    <3>2. ahead[p] = InitAhead /\ window[p] = <<0, 0>>
      BY <1>9, <3>1
    <3>3. e.ev.kind = "TIMING"
      BY <2>1 DEF IsTiming
    <3>4. ahead'[p] = e.ev.val
      BY <1>1, <1>t, <3>3 DEF Effect
    <3>5. window'[p] = IF e.ev.val > ahead[p] THEN <<frame[p], frame[p] + e.ev.val>> ELSE window[p]
      BY <1>1, <1>t, <3>3 DEF Effect
    <3> QED BY <1>8, <2>1, <3>1, <3>2, <3>4, <3>5
  <2>2. CASE ~ IsTiming(e)
    <3>1. UNCHANGED <<ahead, window>>
      BY <1>1, <2>2 DEF Effect, IsTiming, timing
    <3> QED BY <1>8, <1>9, <2>2, <3>1
  <2> QED BY <2>1, <2>2
<1>11. /\ LogGood(l, sent, reads[p], clock, frame[p] + 1) /\ Sorted(l)
       /\ ListGood(d, l, sent, reads[p], clock) /\ Covered(d, l, reads[p])
       /\ NoneMissed(l, sent, clock, frame[p])
       /\ Ready(d, sent, clock, frame[p]) /\ Ahead(d, l, c, frame[p])
  <2> HIDE DEF l
  <2>1. l = Append(log[p], x)
    BY DEF l
  <2> HIDE DEF e
  <2>2. x.owner = doList[p][c[2]].owner /\ x.ev = doList[p][c[2]].ev
    BY <1>2 DEF e
  <2>3. \A a \in Todo(p) : Earlier(c, a)
    BY <1>p
  <2> QED BY <1>2, <1>3, <1>f, <2>1, <2>2, <2>3, ExecuteRecords
<1>12. Begun(p)' = frame[p] + 1 /\ Begun(p) = frame[p] + 1
  BY <1>4, <1>f DEF Begun
<1>13. ASSUME NEW q \in Player, p # q
       PROVE  /\ \A f \in 1 .. (frame[p] + 1) - 1 : f < theirFrame'[p][q] + AheadAt(clock, f)
              /\ theirRecv[p][q] >= theirSent[p][q]
  <2>1. /\ \A f \in 1 .. Begun(p) - 1 : f < theirFrame[p][q] + AheadAt(clock, f)
        /\ pc[p] = "exec" => theirRecv[p][q] >= theirSent[p][q]
    BY <1>13, <1>i DEF GatesOK
  <2>2. theirFrame' = theirFrame
    BY <1>f
  <2> QED BY <1>12, <1>f, <2>1, <2>2
<1>14. frame[p] > 0
  BY <1>f, <1>i DEF PlacesOK
<1> HIDE DEF l
<1> QED BY <1>f, <1>4, <1>5, <1>7, <1>10, <1>11, <1>12, <1>13, <1>14, PlayOne

(* Clean_DoList keeps what is still to be executed. *)
LEMMA PlayEndFrame ==
  ASSUME TypeOK, TypeOK', HeardOK, CountInv, PlayInv, NEW p \in Player, EndFrame(p)
  PROVE  PlayInv'
<1> DEFINE f == frame[p]
           d == Cleaned(p)
           old == doList[p]
<1>i. /\ Numbered /\ PromisesOK /\ AfterOK /\ KindsOK /\ RosterFull /\ PlacesOK /\ DuesOK /\ GatesOK
      /\ TimingOK /\ LogOK /\ SortedOK /\ ListOK /\ MissedOK /\ ExecOK
  BY PlayParts DEF CountInv
<1>1. /\ pc[p] = "exec" /\ Todo(p) = {}
      /\ doList' = [doList EXCEPT ![p] = d]
      /\ frame' = [frame EXCEPT ![p] = frame[p] + 1]
      /\ pc' = [pc EXCEPT ![p] = IF active[p] THEN "play" ELSE "left"]
      /\ UNCHANGED <<ahead, window, ids, conns, theirFrame, theirSent, theirRecv,
                     outList, cursor, active, timings, sent, log>>
  BY EndFrameFacts
<1>t. /\ pc \in [Player -> Places] /\ frame \in [Player -> Nat] /\ f \in Nat
      /\ doList \in [Player -> Seq(Entries)] /\ old \in Seq(Entries) /\ Len(old) \in Nat
  <2>1. pc \in [Player -> Places] /\ frame \in [Player -> Nat]
    BY CountTypes
  <2>2. frame[p] \in Nat /\ doList \in [Player -> Seq(Entries)] /\ doList[p] \in Seq(Entries)
    BY PlayTypes
  <2> QED BY <2>1, <2>2
<1>w. clock \in Clocks /\ (clock.on => clock.at > 0)
  <2>1. clock \in Clocks
    BY <1>i, WorldTypes
  <2>2. clock.on => clock.at > 0
    BY <1>i, ClockSet
  <2> QED BY <2>1, <2>2
<1>c. PICK n \in Nat : /\ n <= Len(old) /\ \A i \in 1 .. n : i \notin Kept(p)
                       /\ d \in Seq(Entries) /\ Len(d) = Len(old) - n
                       /\ \A i \in 1 .. Len(old) - n : d[i] = old[n + i]
  BY CleanedFacts
<1> HIDE DEF d
<1>a. active[p]
  BY <1>i DEF RosterFull
<1>2. /\ pc'[p] = "play" /\ frame'[p] = f + 1 /\ doList'[p] = d /\ Begun(p)' = f + 1
      /\ Begun(p) = f + 1
  <2>1. pc'[p] = "play" /\ frame'[p] = f + 1 /\ doList'[p] = d
    BY <1>1, <1>a, <1>t
  <2> QED BY <1>1, <1>t, <2>1 DEF Begun
<1>3. \A a \in Player : a # p => frame'[a] = frame[a] /\ pc'[a] = pc[a] /\ doList'[a] = doList[a]
  BY <1>1, <1>t
<1>o. /\ ListGood(old, log[p], sent, reads[p], clock) /\ Covered(old, log[p], reads[p])
      /\ NoneMissed(log[p], sent, clock, f) /\ Ready(old, sent, clock, f)
      /\ Ahead(old, log[p], cursor[p], f)
      /\ LogGood(log[p], sent, reads[p], clock, f + 1) /\ Sorted(log[p])
  <2>1. pc[p] # "full"
    BY <1>1
  <2> QED BY <1>1, <1>2, <1>i, <2>1 DEF ListOK, MissedOK, ExecOK, LogOK, SortedOK
<1>4. ASSUME NEW j \in 1 .. Len(old), ~ old[j].done
      PROVE  old[j].due > f /\ FinalOf(old[j], sent, clock) > f
  <2>1. old[j].due \in Nat
    BY RecordTypes
  <2>2. ~ old[j].due <= f
    <3>1. ASSUME old[j].due <= f PROVE FALSE
      <4>1. old[j].owner > cursor[p][1] \/ (old[j].owner = cursor[p][1] /\ j > cursor[p][2])
        BY <1>4, <1>o, <3>1 DEF Ahead
      <4>2. <<old[j].owner, j>> \in Todo(p)
        BY <1>4, <1>i, <3>1, <4>1, TodoHas
      <4> QED BY <1>1, <4>2
    <3> QED BY <3>1
  <2>3. old[j].due > f
    BY <1>t, <2>1, <2>2
  <2> QED BY <1>o, <2>3 DEF Ready
<1>5. ASSUME NEW i \in 1 .. Len(d) PROVE n + i \in 1 .. Len(old) /\ d[i] = old[n + i]
  BY <1>c, <1>t
<1>6. ListGood(d, log[p], sent, reads[p], clock)
  <2>1. ASSUME NEW i \in 1 .. Len(d), NEW j \in 1 .. Len(d), i < j, d[i].owner = d[j].owner
        PROVE  d[i].ev.no < d[j].ev.no
    <3>1. n + i < n + j
      BY <1>c, <2>1
    <3>2. n + i \in 1 .. Len(old) /\ n + j \in 1 .. Len(old) /\ d[i] = old[n + i] /\ d[j] = old[n + j]
      BY <1>5
    <3> QED BY <1>o, <2>1, <3>1, <3>2 DEF ListGood
  <2>2. ASSUME NEW j \in 1 .. Len(d)
        PROVE  /\ Genuine(d[j], sent, reads[p])
               /\ d[j].due = DueOf(d[j], sent) \/ d[j].due = FinalOf(d[j], sent, clock)
               /\ d[j].done <=> Has(log[p], d[j].owner, d[j].ev.no)
    BY <1>5, <1>o DEF ListGood
  <2> QED BY <2>1, <2>2 DEF ListGood
<1>7. Covered(d, log[p], reads[p])
  <2> SUFFICES ASSUME NEW q \in Player, NEW k \in 1 .. reads[p][q], ~ Has(log[p], q, k)
               PROVE  \E j \in 1 .. Len(d) : d[j].owner = q /\ d[j].ev.no = k
    BY DEF Covered
  <2>1. PICK j \in 1 .. Len(old) : old[j].owner = q /\ old[j].ev.no = k
    BY <1>o DEF Covered
  <2>2. ~ old[j].done
    BY <1>o, <2>1 DEF ListGood
  <2>3. old[j].due \in Nat /\ old[j].due > f
    BY <1>4, <2>2, RecordTypes
  <2>4. j \in Kept(p)
    <3>1. j \in DOMAIN doList[p] /\ frame[p] <= doList[p][j].due
      BY <1>t, <2>3
    <3> QED BY <2>2, <3>1 DEF Kept
  <2>5. j - n \in 1 .. Len(d) /\ n + (j - n) = j
    BY <1>c, <1>t, <2>4
  <2>6. d[j - n] = old[j]
    BY <1>5, <2>5
  <2> QED BY <2>1, <2>5, <2>6
<1>8. NoneMissed(log[p], sent, clock, f + 1)
  <2> SUFFICES ASSUME NEW q \in Player, NEW k \in 1 .. Len(sent[q]), ~ Has(log[p], q, k)
               PROVE  Final(clock, sent[q][k].due) >= f + 1
    BY DEF NoneMissed
  <2>r. /\ reads[p][q] \in Nat /\ Len(sent[q]) \in Nat
        /\ reads[p][q] = IF p = q THEN Len(sent[p]) ELSE theirRecv[p][q]
    BY <1>i, ReadsFacts
  <2>s. sent[q][k].frame \in Nat /\ sent[q][k].due \in Nat /\ Final(clock, sent[q][k].due) \in Nat
    <3>1. sent[q][k].frame \in Nat /\ sent[q][k].due \in Nat
      BY SentTypes
    <3> QED BY <1>w, <3>1, FinalFacts
  <2>1. CASE k <= reads[p][q]
    <3>1. k \in 1 .. reads[p][q]
      BY <2>1, <2>r
    <3>2. PICK j \in 1 .. Len(old) : old[j].owner = q /\ old[j].ev.no = k
      BY <1>o, <3>1 DEF Covered
    <3>3. ~ old[j].done
      BY <1>o, <3>2 DEF ListGood
    <3>4. FinalOf(old[j], sent, clock) > f
      BY <1>4, <3>3
    <3>5. FinalOf(old[j], sent, clock) = Final(clock, sent[q][k].due)
      BY <3>2 DEF FinalOf, DueOf
    <3> QED BY <1>t, <2>s, <3>4, <3>5
  <2>2. CASE ~ k <= reads[p][q]
    <3>1. p # q
      BY <2>2, <2>r
    <3>2. /\ \A g \in 1 .. (f + 1) - 1 : g < theirFrame[p][q] + AheadAt(clock, g)
          /\ theirRecv[p][q] >= theirSent[p][q]
      BY <1>1, <1>2, <1>i, <3>1 DEF GatesOK
    <3>3. theirFrame[p][q] \in Int /\ theirRecv[p][q] \in Nat
      BY PlayTypes
    <3>4. sent[q][k].frame >= theirFrame[p][q]
      <4>1. After(sent[q], theirSent[p][q], theirFrame[p][q])
        BY <1>i DEF AfterOK
      <4>2. theirSent \in [Player -> [Player -> Nat]]
        BY CountTypes
      <4>3. theirSent[p][q] \in Nat
        BY <4>2
      <4>4. k > theirSent[p][q]
        BY <2>2, <2>r, <3>1, <3>2, <3>3, <4>3
      <4> QED BY <4>1, <4>4 DEF After
    <3>5. sent[q][k].due = sent[q][k].frame + AheadAt(clock, sent[q][k].frame)
      BY <1>i DEF DuesOK
    <3>6. f > 0
      BY <1>1, <1>i DEF PlacesOK
    <3>7. \A g \in 1 .. f : g < theirFrame[p][q] + AheadAt(clock, g)
      BY <1>t, <3>2
    <3>8. Final(clock, sent[q][k].frame + AheadAt(clock, sent[q][k].frame)) > f
      <4> HIDE DEF f
      <4> QED BY <1>t, <1>w, <2>s, <3>3, <3>4, <3>6, <3>7, InTime
    <3> QED BY <1>t, <2>s, <3>5, <3>8
  <2> QED BY <2>1, <2>2
<1>9. RosterFull'
  BY <1>1, <1>i DEF RosterFull
<1>10. ASSUME NEW q \in Player, p # q
       PROVE  \A g \in 1 .. (f + 1) - 1 : g < theirFrame[p][q] + AheadAt(clock, g)
  BY <1>2, <1>10, <1>i DEF GatesOK
<1>11. /\ ahead[p] = IF Told(log[p]) THEN clock.val ELSE InitAhead
       /\ window[p] = IF Told(log[p]) /\ clock.val > InitAhead
                      THEN <<clock.at, clock.at + clock.val>> ELSE <<0, 0>>
  BY <1>i DEF TimingOK
<1>12. frame'[p] > 0
  BY <1>2, <1>t
<1> QED BY <1>1, <1>2, <1>3, <1>6, <1>7, <1>8, <1>9, <1>10, <1>11, <1>12, <1>o, PlayOne

(* What Send_Packets does to the records of what was sent and to the DoList.  *)
LEMMA SendGrows ==
  ASSUME TypeOK, NEW p \in Player, NEW load \in Loads, Send(p, load)
  PROVE  /\ pc[p] = "play"
         /\ \E n \in Nat : \E more \in Seq(Entries) :
              /\ n <= Len(outList[p]) /\ Len(sent'[p]) = Len(sent[p]) + n /\ Len(more) = n
              /\ \A k \in 1 .. Len(sent[p]) : sent'[p][k] = sent[p][k]
              /\ \A i \in 1 .. n : sent'[p][Len(sent[p]) + i] =
                   [frame |-> frame[p], due |-> frame[p] + ahead[p], ev |-> outList[p][i]]
              /\ \A i \in 1 .. n : more[i] =
                   [owner |-> p, due |-> frame[p] + ahead[p], ev |-> outList[p][i], done |-> FALSE]
              /\ doList'[p] = doList[p] \o more
         /\ \A q \in Player : Issued(q)' \subseteq Issued(q)
         /\ \A q \in Player : q # p => sent'[q] = sent[q] /\ doList'[q] = doList[q] /\ pc'[q] = pc[q]
         /\ pc'[p] \in {"wait", "hung"}
         /\ UNCHANGED <<frame, ahead, window, ids, conns, theirFrame, theirSent, theirRecv,
                        cursor, active, timings, log>>
<1> DEFINE n == Leaving(p, load)
           first == SubSeq(outList[p], 1, n)
           more == Scheduled(p, first, frame[p] + ahead[p])
           s == sent[p]
           t == Outgoing(p, n)
           rest == SubSeq(outList[p], n + 1, Len(outList[p]))
<1>1. /\ n \in Nat /\ n <= Len(outList[p]) /\ pc[p] = "play"
      /\ first \in Seq(Events) /\ Len(first) = n /\ \A i \in 1 .. n : first[i] = outList[p][i]
      /\ outList' = [outList EXCEPT ![p] = rest]
      /\ doList' = [doList EXCEPT ![p] = doList[p] \o more]
      /\ sent' = [sent EXCEPT ![p] = s \o t]
      /\ pc' = [pc EXCEPT ![p] = "wait"] \/ pc' = [pc EXCEPT ![p] = "hung"]
      /\ UNCHANGED <<frame, ahead, window, ids, conns, theirFrame, theirSent, theirRecv,
                     cursor, active, timings, log>>
  BY SendFacts
<1> HIDE DEF n
<1>t. /\ outList \in [Player -> Seq(Events)] /\ outList[p] \in Seq(Events)
      /\ doList \in [Player -> Seq(Entries)] /\ sent \in [Player -> Seq(SentEvents)]
      /\ s \in Seq(SentEvents) /\ Len(s) \in Nat /\ frame[p] + ahead[p] \in Nat
      /\ pc \in [Player -> Places]
  <2>1. /\ outList \in [Player -> Seq(Events)] /\ sent \in [Player -> Seq(SentEvents)]
        /\ pc \in [Player -> Places]
    BY CountTypes
  <2>2. doList \in [Player -> Seq(Entries)] /\ sent[p] \in Seq(SentEvents) /\ Len(sent[p]) \in Nat
    BY PlayTypes
  <2>3. frame[p] + ahead[p] \in Nat
    BY AheadType
  <2> QED BY <2>1, <2>2, <2>3
<1>2. /\ more \in Seq(Entries) /\ Len(more) = n
      /\ \A i \in 1 .. n : more[i] =
           [owner |-> p, due |-> frame[p] + ahead[p], ev |-> outList[p][i], done |-> FALSE]
  <2>1. /\ more \in Seq(Entries) /\ Len(more) = Len(first)
        /\ \A i \in 1 .. Len(first) : more[i] =
             [owner |-> p, due |-> frame[p] + ahead[p], ev |-> first[i], done |-> FALSE]
    BY <1>1, <1>t, ScheduledFacts
  <2> HIDE DEF more, first
  <2> QED BY <1>1, <2>1
<1>3. /\ t \in Seq(SentEvents) /\ Len(t) = n
      /\ \A i \in 1 .. n : t[i] =
           [frame |-> frame[p], due |-> frame[p] + ahead[p], ev |-> outList[p][i]]
  BY <1>1, OutgoingFacts
<1>4. /\ rest \in Seq(Events) /\ Len(rest) = Len(outList[p]) - n
      /\ \A i \in 1 .. Len(outList[p]) - n : rest[i] = outList[p][n + i]
  BY <1>1, <1>t, RestFacts
<1> HIDE DEF more, first, t, rest
<1>5. sent'[p] = s \o t /\ outList'[p] = rest /\ doList'[p] = doList[p] \o more
  BY <1>1, <1>t
<1>6. /\ Len(s \o t) = Len(s) + n
      /\ \A k \in 1 .. Len(s) : (s \o t)[k] = s[k]
      /\ \A i \in 1 .. n : (s \o t)[Len(s) + i] = t[i]
  <2> HIDE DEF s
  <2>1. /\ Len(s \o t) = Len(s) + Len(t)
        /\ \A k \in 1 .. Len(s) + Len(t) :
             (s \o t)[k] = IF k <= Len(s) THEN s[k] ELSE t[k - Len(s)]
    BY <1>3, <1>t, ConcatProperties
  <2>2. Len(t) = n /\ n \in Nat /\ Len(s) \in Nat
    BY <1>1, <1>3, <1>t
  <2> QED BY <2>1, <2>2
<1>7. \A q \in Player : q # p => /\ sent'[q] = sent[q] /\ doList'[q] = doList[q] /\ pc'[q] = pc[q]
                                 /\ outList'[q] = outList[q]
  BY <1>1, <1>t
<1>8. ASSUME NEW q \in Player, NEW e \in Issued(q)' PROVE e \in Issued(q)
  <2>1. CASE q # p
    BY <1>7, <1>8, <2>1 DEF Issued
  <2>2. CASE q = p
    <3>l. Len(outList[p]) \in Nat
      BY <1>t
    <3>1. ASSUME NEW k \in 1 .. Len(sent'[p]), e = sent'[p][k].ev PROVE e \in Issued(p)
      <4>1. k \in 1 .. Len(s) \/ (k - Len(s) \in 1 .. n /\ k = Len(s) + (k - Len(s)))
        BY <1>1, <1>5, <1>6, <1>t
      <4>2. CASE k \in 1 .. Len(s)
        <5>1. e = sent[p][k].ev
          BY <1>5, <1>6, <3>1, <4>2
        <5> QED BY <4>2, <5>1 DEF Issued
      <4>3. CASE k - Len(s) \in 1 .. n /\ k = Len(s) + (k - Len(s))
        <5>1. sent'[p][k] = t[k - Len(s)]
          BY <1>5, <1>6, <4>3
        <5>2. e = outList[p][k - Len(s)]
          BY <1>3, <3>1, <4>3, <5>1
        <5>3. k - Len(s) \in 1 .. Len(outList[p])
          BY <1>1, <3>l, <4>3
        <5> QED BY <5>2, <5>3 DEF Issued
      <4> QED BY <4>1, <4>2, <4>3
    <3>2. ASSUME NEW i \in 1 .. Len(outList'[p]), e = outList'[p][i] PROVE e \in Issued(p)
      <4>1. i \in 1 .. Len(outList[p]) - n /\ e = rest[i]
        BY <1>4, <1>5, <3>2
      <4>2. n + i \in 1 .. Len(outList[p]) /\ e = outList[p][n + i]
        BY <1>1, <1>4, <3>l, <4>1
      <4> QED BY <4>2 DEF Issued
    <3> QED BY <1>8, <2>2, <3>1, <3>2 DEF Issued
  <2> QED BY <2>1, <2>2
<1>9. pc'[p] \in {"wait", "hung"}
  BY <1>1, <1>t
<1>10. \A i \in 1 .. n : sent'[p][Len(s) + i] =
         [frame |-> frame[p], due |-> frame[p] + ahead[p], ev |-> outList[p][i]]
  BY <1>3, <1>5, <1>6
<1>11. /\ Len(sent'[p]) = Len(s) + n /\ \A k \in 1 .. Len(s) : sent'[p][k] = s[k]
  BY <1>5, <1>6
<1> QED BY <1>1, <1>2, <1>5, <1>7, <1>8, <1>9, <1>10, <1>11

(* While MaxAhead has not been changed, nobody is more than InitAhead frames  *)
(* ahead of player 1.                                                         *)
LEMMA FramesNear ==
  ASSUME TypeOK, HeardOK, CountInv, PlayInv, Quiet, ~ clock.on, NEW r \in Player
  PROVE  Begun(r) <= frame[1] + InitAhead
<1>i. KindsOK /\ GatesOK
  BY PlayParts
<1>t. /\ 1 \in Player /\ frame[r] \in Nat /\ frame[1] \in Nat /\ theirFrame[r][1] \in Int
      /\ InitAhead \in Nat /\ InitAhead > 0 /\ clock \in Clocks
  <2>1. 1 \in Player
    BY PlayTypes
  <2>2. frame[r] \in Nat /\ frame[1] \in Nat /\ theirFrame[r][1] \in Int
    BY <2>1, PlayTypes
  <2>3. clock \in Clocks
    BY <1>i, WorldTypes
  <2> QED BY <2>1, <2>2, <2>3, Aheads
<1>1. Begun(r) = frame[r]
  BY <1>t DEF Quiet, Begun
<1>2. CASE r = 1
  BY <1>1, <1>2, <1>t
<1>3. CASE r # 1 /\ frame[r] > 1
  <2>1. frame[r] - 1 \in 1 .. Begun(r) - 1
    BY <1>1, <1>3, <1>t
  <2>2. frame[r] - 1 < theirFrame[r][1] + AheadAt(clock, frame[r] - 1)
    BY <1>3, <1>i, <1>t, <2>1 DEF GatesOK
  <2>3. AheadAt(clock, frame[r] - 1) = InitAhead
    BY <1>t, AheadFacts
  <2>4. theirFrame[r][1] <= frame[1]
    BY <1>t DEF HeardOK
  <2> QED BY <1>1, <1>t, <2>2, <2>3, <2>4
<1>4. CASE r # 1 /\ ~ frame[r] > 1
  BY <1>1, <1>4, <1>t
<1> QED BY <1>2, <1>3, <1>4

(* A TIMING event that is sent changes MaxAhead in a frame nobody has begun.  *)
LEMMA SendClock ==
  ASSUME TypeOK, TypeOK', HeardOK, CountInv, CountInv', PlayInv, Quiet,
         NEW p \in Player, NEW load \in Loads, Send(p, load)
  PROVE  /\ KindsOK' /\ clock' \in Clocks
         /\ \A r \in Player : Same(clock, clock', Begun(r))
         /\ clock'.on => clock'.at > 0
<1>i. Numbered /\ Numbered' /\ KindsOK /\ DuesOK /\ PlacesOK /\ TimingOK /\ LogOK /\ MissedOK
  BY PlayParts DEF CountInv
<1>p. PICK n \in Nat :
        /\ n <= Len(outList[p]) /\ Len(sent'[p]) = Len(sent[p]) + n
        /\ \A k \in 1 .. Len(sent[p]) : sent'[p][k] = sent[p][k]
        /\ \A i \in 1 .. n : sent'[p][Len(sent[p]) + i] =
             [frame |-> frame[p], due |-> frame[p] + ahead[p], ev |-> outList[p][i]]
  BY SendGrows
<1>q. /\ pc[p] = "play" /\ \A q \in Player : Issued(q)' \subseteq Issued(q)
      /\ \A q \in Player : q # p => sent'[q] = sent[q]
      /\ UNCHANGED <<frame, timings>>
  BY SendGrows
<1>t. /\ 1 \in Player /\ clock \in Clocks /\ frame[p] \in Nat /\ frame[p] > 0
      /\ Len(sent[p]) \in Nat /\ Len(outList[p]) \in Nat /\ outList[p] \in Seq(Events)
      /\ ahead[p] \in Nat /\ InitAhead \in Nat
  <2>1. 1 \in Player /\ frame[p] \in Nat /\ ahead[p] \in Nat /\ Len(sent[p]) \in Nat
    BY PlayTypes
  <2>2. clock \in Clocks
    BY <1>i, WorldTypes
  <2>3. outList[p] \in Seq(Events)
    BY CountTypes
  <2>4. frame[p] > 0
    BY <1>i, <1>q DEF PlacesOK
  <2> QED BY <2>1, <2>2, <2>3, <2>4, Aheads
<1>1. KindsOK'
  BY <1>i, <1>q, <1>t DEF KindsOK
<1>2. CASE \/ sent'[1] = sent[1]
           \/ /\ Timed(sent[1]) <=> Timed(sent'[1])
              /\ Change(sent'[1]) = Change(sent[1])
           \/ ~ Timed(sent[1]) /\ ~ Timed(sent'[1])
  <2>1. clock' = clock
    BY <1>2 DEF clock, Clock
  <2>2. clock.on => clock.at > 0
    BY <1>i, ClockSet
  <2> QED BY <1>1, <1>t, <2>1, <2>2 DEF Same
<1>3. CASE p = 1 /\ Timed(sent[1])
  <2> DEFINE c == CHOOSE k \in 1 .. Len(sent[1]) : IsTiming(sent[1][k])
             d == CHOOSE k \in 1 .. Len(sent'[1]) : IsTiming(sent'[1][k])
  <2>1. c \in 1 .. Len(sent[1]) /\ IsTiming(sent[1][c])
    BY <1>3 DEF Timed
  <2>2. c \in 1 .. Len(sent'[1]) /\ sent'[1][c] = sent[1][c]
    <3> HIDE DEF c
    <3>1. Len(sent'[1]) = Len(sent[1]) + n /\ Len(sent[1]) \in Nat
      BY <1>3, <1>p, <1>t
    <3>2. c \in 1 .. Len(sent'[1])
      BY <2>1, <3>1
    <3> QED BY <1>3, <1>p, <2>1, <3>2
  <2>3. d \in 1 .. Len(sent'[1]) /\ IsTiming(sent'[1][d]) /\ Timed(sent'[1])
    BY <2>1, <2>2 DEF Timed
  <2>4. Change(sent[1]) = sent[1][c] /\ Change(sent'[1]) = sent'[1][d]
    BY DEF Change
  <2> HIDE DEF c, d
  <2>5. sent'[1][c].ev \in Issued(1)' /\ sent'[1][d].ev \in Issued(1)'
    BY <2>2, <2>3 DEF Issued
  <2>6. sent'[1][c].ev \in Issued(1) /\ sent'[1][d].ev \in Issued(1)
    BY <1>q, <1>t, <2>5
  <2>7. sent'[1][c].ev.no = sent'[1][d].ev.no
    BY <1>i, <2>1, <2>2, <2>3, <2>6 DEF KindsOK, IsTiming
  <2>8. sent'[1][c].ev.no = c /\ sent'[1][d].ev.no = d
    BY <1>i, <1>t, <2>2, <2>3 DEF Numbered
  <2> QED BY <1>2, <1>3, <2>2, <2>3, <2>4, <2>7, <2>8
<1>4. CASE p = 1 /\ ~ Timed(sent[1]) /\ Timed(sent'[1])
  <2> DEFINE d == CHOOSE k \in 1 .. Len(sent'[1]) : IsTiming(sent'[1][k])
  <2>1. d \in 1 .. Len(sent'[1]) /\ IsTiming(sent'[1][d])
    BY <1>4 DEF Timed
  <2>2. clock' = [on |-> TRUE, at |-> sent'[1][d].due, val |-> sent'[1][d].ev.val]
    BY <1>4 DEF clock, Clock, Change
  <2> HIDE DEF d
  <2>3. d \notin 1 .. Len(sent[1])
    <3>1. d \in 1 .. Len(sent[1]) => IsTiming(sent[1][d])
      BY <1>4, <1>p, <2>1
    <3> QED BY <1>4, <3>1 DEF Timed
  <2>4. d - Len(sent[1]) \in 1 .. n /\ Len(sent[1]) + (d - Len(sent[1])) = d
    <3>1. Len(sent'[1]) = Len(sent[1]) + n /\ Len(sent[1]) \in Nat
      BY <1>4, <1>p, <1>t
    <3> QED BY <2>1, <2>3, <3>1
  <2> DEFINE i == d - Len(sent[1])
  <2>5. sent'[1][d] = [frame |-> frame[1], due |-> frame[1] + ahead[1], ev |-> outList[1][i]]
    BY <1>4, <1>p, <2>4
  <2>6. clock' = [on |-> TRUE, at |-> frame[1] + ahead[1], val |-> outList[1][i].val]
    BY <2>2, <2>5
  <2>7. outList[1][i].val \in Nat
    <3>1. i \in 1 .. Len(outList[1])
      BY <1>4, <1>p, <1>t, <2>4
    <3>2. outList[1][i] \in Events
      BY <1>4, <1>t, <3>1
    <3> QED BY <3>2, EventTypes
  <2> HIDE DEF i
  <2>8. clock' \in Clocks /\ clock'.on /\ clock'.at = frame[1] + ahead[1]
    BY <1>4, <1>t, <2>6, <2>7 DEF Clocks
  <2>9. ~ clock.on
    BY <1>4 DEF clock, Clock
  <2>10. ahead[1] = InitAhead
    BY <1>i, <1>t, <2>9, AheadNow
  <2>11. \A r \in Player : Begun(r) <= frame[1] + InitAhead
    BY <2>9, FramesNear
  <2>12. \A r \in Player : clock'.at >= Begun(r)
    <3>1. \A r \in Player : Begun(r) \in Nat
      BY PlayTypes
    <3> QED BY <1>4, <1>t, <2>8, <2>10, <2>11, <3>1
  <2>13. clock'.at > 0
    BY <1>4, <1>t, <2>8
  <2> QED BY <1>1, <2>8, <2>9, <2>12, <2>13 DEF Same
<1> QED BY <1>2, <1>3, <1>4, <1>q, <1>t

(* Nobody has begun a frame in which a command that is being sent is due.     *)
LEMMA SendMissed ==
  ASSUME NEW c \in Clocks, c.on => c.at > 0, NEW fs \in Nat, fs > 0, NEW g \in Nat,
         NEW h \in Int, h <= fs, \A f \in 1 .. g - 1 : f < h + AheadAt(c, f)
  PROVE  Final(c, fs + AheadAt(c, fs)) >= g
<1> DEFINE d == fs + AheadAt(c, fs)
<1>1. AheadAt(c, fs) \in Nat
  BY AheadFacts
<1>2. d \in Nat /\ d >= fs
  BY <1>1
<1> HIDE DEF d
<1>3. Final(c, d) \in Nat /\ Final(c, d) >= d
  BY <1>2, FinalFacts
<1>4. CASE g <= 1
  BY <1>2, <1>3, <1>4 DEF d
<1>5. CASE g > 1
  <2>1. g - 1 \in Nat /\ g - 1 > 0
    BY <1>5
  <2>2. Final(c, fs + AheadAt(c, fs)) > g - 1
    BY <2>1, InTime
  <2> QED BY <1>3, <2>2 DEF d
<1> QED BY <1>4, <1>5

(* Send_Packets sends events and schedules them in the sender's DoList.       *)
LEMMA PlaySend ==
  ASSUME TypeOK, TypeOK', HeardOK, CountInv, CountInv', PlayInv, Quiet,
         NEW p \in Player, NEW load \in Loads, Send(p, load)
  PROVE  PlayInv'
<1>i. /\ Numbered /\ PromisesOK /\ PromisesOK' /\ Numbered'
      /\ KindsOK /\ RosterFull /\ PlacesOK /\ DuesOK /\ GatesOK /\ TimingOK
      /\ LogOK /\ SortedOK /\ ListOK /\ MissedOK /\ ExecOK
  BY PlayParts DEF CountInv
<1>p. PICK n \in Nat : \E more \in Seq(Entries) :
        /\ n <= Len(outList[p]) /\ Len(sent'[p]) = Len(sent[p]) + n /\ Len(more) = n
        /\ \A k \in 1 .. Len(sent[p]) : sent'[p][k] = sent[p][k]
        /\ \A i \in 1 .. n : sent'[p][Len(sent[p]) + i] =
             [frame |-> frame[p], due |-> frame[p] + ahead[p], ev |-> outList[p][i]]
        /\ \A i \in 1 .. n : more[i] =
             [owner |-> p, due |-> frame[p] + ahead[p], ev |-> outList[p][i], done |-> FALSE]
        /\ doList'[p] = doList[p] \o more
  BY SendGrows
<1>m. PICK more \in Seq(Entries) :
        /\ n <= Len(outList[p]) /\ Len(sent'[p]) = Len(sent[p]) + n /\ Len(more) = n
        /\ \A k \in 1 .. Len(sent[p]) : sent'[p][k] = sent[p][k]
        /\ \A i \in 1 .. n : sent'[p][Len(sent[p]) + i] =
             [frame |-> frame[p], due |-> frame[p] + ahead[p], ev |-> outList[p][i]]
        /\ \A i \in 1 .. n : more[i] =
             [owner |-> p, due |-> frame[p] + ahead[p], ev |-> outList[p][i], done |-> FALSE]
        /\ doList'[p] = doList[p] \o more
  BY <1>p
<1>q. /\ pc[p] = "play" /\ pc'[p] \in {"wait", "hung"}
      /\ \A q \in Player : q # p => sent'[q] = sent[q] /\ doList'[q] = doList[q] /\ pc'[q] = pc[q]
      /\ UNCHANGED <<frame, ahead, window, ids, conns, theirFrame, theirSent, theirRecv,
                     cursor, active, timings, log>>
  BY SendGrows
<1>c. /\ KindsOK' /\ clock' \in Clocks
      /\ clock'.on => clock'.at > 0
      /\ \A r \in Player : Same(clock, clock', Begun(r))
  BY SendClock
<1>w. /\ sent \in Histories /\ clock \in Clocks
      /\ \A a \in Player : reads[a] \in Counts /\ ReadMore(sent, reads[a], reads[a])
  BY <1>i, WorldTypes
<1>v. /\ sent' \in Histories
      /\ \A a \in Player : log[a] \in Seq(Records) /\ doList[a] \in Seq(Entries)
                           /\ Begun(a) \in Nat /\ frame[a] \in Nat /\ ahead[a] \in Nat
      /\ \A a, b \in Player : theirFrame[a][b] \in Int /\ theirRecv[a][b] \in Nat
      /\ \A a \in Player : Len(sent[a]) \in Nat
  BY PlayTypes, PlayTypesNext
<1>l. Len(sent[p]) \in Nat
  BY <1>v
<1>1. /\ \A a \in Player : Begun(a)' = Begun(a) /\ Begun(a) = frame[a]
      /\ \A a \in Player : pc[a] # "exec" /\ pc'[a] # "exec"
  <2>1. \A a \in Player : pc[a] # "exec" /\ pc'[a] # "exec"
    BY <1>q DEF Quiet
  <2> QED BY <1>q, <1>v, <2>1 DEF Begun
<1>2. ASSUME NEW r \in Player
      PROVE  /\ \A f \in Int : f <= frame[r] => AheadAt(clock', f) = AheadAt(clock, f)
             /\ \A e \in Nat : Final(clock', e) >= Final(clock, e)
  <2>1. Same(clock, clock', frame[r]) /\ frame[r] \in Int
    BY <1>1, <1>c, <1>v
  <2> QED BY <1>c, <1>w, <2>1, SameFacts
<1>3. Grown(sent, sent')
  <2> SUFFICES ASSUME NEW q \in Player
               PROVE  /\ Len(sent[q]) <= Len(sent'[q])
                      /\ \A k \in 1 .. Len(sent[q]) : sent'[q][k] = sent[q][k]
    BY DEF Grown
  <2>1. Len(sent[q]) \in Nat
    BY <1>v
  <2>2. CASE q = p
    <3>1. Len(sent[p]) <= Len(sent[p]) + n
      BY <1>l
    <3> QED BY <1>m, <2>2, <3>1
  <2>3. CASE q # p
    <3>1. sent'[q] = sent[q] /\ Len(sent[q]) <= Len(sent[q])
      BY <1>q, <2>1, <2>3
    <3> QED BY <3>1
  <2> QED BY <2>2, <2>3
<1>4. /\ \A a \in Player : a # p => (reads[a])' = reads[a]
      /\ \A b \in Player : b # p => (reads[p])'[b] = reads[p][b]
      /\ reads[p][p] = Len(sent[p]) /\ (reads[p])'[p] = Len(sent[p]) + n
  <2>1. /\ \A a, b \in Player : reads[a][b] = IF a = b THEN Len(sent[a]) ELSE theirRecv[a][b]
        /\ \A a, b \in Player : (reads[a])'[b] = IF a = b THEN Len(sent'[a]) ELSE theirRecv[a][b]
    BY <1>q, ReadsAre
  <2>2. \A a, b \in Player : a # p \/ b # p => (reads[a])'[b] = reads[a][b]
    BY <1>q, <2>1
  <2> QED BY <1>m, <2>1, <2>2, ReadsSame
<1>5. ASSUME NEW a \in Player
      PROVE  (reads[a])' \in Counts /\ ReadMore(sent', (reads[a])', (reads[a])')
             /\ ReadMore(sent, reads[a], (reads[a])')
  <2>1. /\ \A b \in Player : (reads[a])'[b] = IF a = b THEN Len(sent'[a]) ELSE theirRecv'[a][b]
        /\ (reads[a])' = [b \in Player |-> IF a = b THEN Len(sent'[a]) ELSE theirRecv'[a][b]]
    BY ReadsAre DEF reads
  <2>2. \A b \in Player : Len(sent'[b]) \in Nat /\ theirRecv'[a][b] \in Nat /\ theirRecv'[a][b] <= Len(sent'[b])
    <3>1. \A b \in Player : Len(sent'[b]) \in Nat
      BY <1>v, HistoryTypes
    <3> QED BY <1>i, <3>1, PlayTypesNext DEF PromisesOK
  <2>3. \A b \in Player : (reads[a])'[b] \in Nat /\ (reads[a])'[b] <= Len(sent'[b])
    BY <2>1, <2>2
  <2>4. (reads[a])' \in Counts
    BY <2>1, <2>2 DEF Counts
  <2>5. \A b \in Player : (reads[a])'[b] <= (reads[a])'[b]
    BY <2>3
  <2>6. \A b \in Player : reads[a][b] <= Len(sent[b]) /\ reads[a][b] <= reads[a][b]
    BY <1>w DEF ReadMore
  <2>7. ASSUME NEW b \in Player PROVE reads[a][b] <= (reads[a])'[b]
    <3>1. CASE a # p \/ b # p
      BY <1>4, <2>6, <3>1
    <3>2. CASE a = p /\ b = p
      BY <1>4, <1>l, <3>2
    <3> QED BY <3>1, <3>2
  <2> QED BY <2>3, <2>4, <2>5, <2>6, <2>7 DEF ReadMore
<1>6. frame[p] > 0 /\ frame[p] \in Nat /\ ahead[p] \in Nat
      /\ ahead[p] = AheadAt(clock, frame[p]) /\ ahead[p] = AheadAt(clock', frame[p])
  <2>1. frame[p] > 0 /\ frame[p] \in Nat /\ ahead[p] \in Nat
    BY <1>i, <1>q, <1>v DEF PlacesOK
  <2>2. ahead[p] = AheadAt(clock, frame[p])
    BY <1>i, <1>q, AheadNow
  <2>3. frame[p] \in Int /\ frame[p] <= frame[p]
    BY <2>1
  <2>4. AheadAt(clock', frame[p]) = AheadAt(clock, frame[p])
    BY <1>2, <2>3
  <2> QED BY <2>1, <2>2, <2>4
<1>7. ASSUME NEW q \in Player, NEW k \in 1 .. Len(sent'[q])
      PROVE  \/ k \in 1 .. Len(sent[q]) /\ sent'[q][k] = sent[q][k]
             \/ /\ q = p /\ k > Len(sent[p]) /\ sent'[q][k].frame = frame[p]
                /\ sent'[q][k].due = frame[p] + ahead[p]
  <2>1. CASE q # p
    BY <1>q, <2>1
  <2>2. CASE q = p
    <3>1. CASE k \in 1 .. Len(sent[p])
      BY <1>m, <2>2, <3>1
    <3>2. CASE k \notin 1 .. Len(sent[p])
      <4>1. k - Len(sent[p]) \in 1 .. n /\ Len(sent[p]) + (k - Len(sent[p])) = k /\ k > Len(sent[p])
        BY <1>l, <1>m, <2>2, <3>2
      <4>2. sent'[p][k] = [frame |-> frame[p], due |-> frame[p] + ahead[p],
                           ev |-> outList[p][k - Len(sent[p])]]
        BY <1>m, <4>1
      <4> QED BY <2>2, <4>1, <4>2
    <3> QED BY <3>1, <3>2
  <2> QED BY <2>1, <2>2
<1>8. DuesOK'
  <2> SUFFICES ASSUME NEW q \in Player, NEW k \in 1 .. Len(sent'[q])
               PROVE  /\ sent'[q][k].frame > 0
                      /\ sent'[q][k].due = sent'[q][k].frame + AheadAt(clock', sent'[q][k].frame)
    BY DEF DuesOK
  <2>1. CASE k \in 1 .. Len(sent[q]) /\ sent'[q][k] = sent[q][k]
    <3>1. /\ sent[q][k].frame > 0
          /\ sent[q][k].due = sent[q][k].frame + AheadAt(clock, sent[q][k].frame)
      BY <1>i, <2>1 DEF DuesOK
    <3>2. sent[q][k].frame \in Nat /\ sent[q][k].frame <= frame[q]
      BY <1>i, <2>1, SentTypes DEF Numbered
    <3>3. AheadAt(clock', sent[q][k].frame) = AheadAt(clock, sent[q][k].frame)
      <4>1. sent[q][k].frame \in Int
        BY <3>2
      <4> QED BY <1>2, <3>2, <4>1
    <3> QED BY <2>1, <3>1, <3>3
  <2>2. CASE sent'[q][k].frame = frame[p] /\ sent'[q][k].due = frame[p] + ahead[p]
    BY <1>6, <2>2
  <2> QED BY <1>7, <2>1, <2>2
<1>9. ASSUME NEW a \in Player, NEW b \in Player, a # b, NEW f \in 1 .. frame[a] - 1
      PROVE  f < theirFrame[a][b] + AheadAt(clock', f)
  <2>1. f \in 1 .. Begun(a) - 1
    BY <1>1
  <2>2. f < theirFrame[a][b] + AheadAt(clock, f)
    BY <1>9, <1>i, <2>1 DEF GatesOK
  <2>3. f \in Int /\ f <= frame[a]
    BY <1>v
  <2>4. AheadAt(clock', f) = AheadAt(clock, f)
    BY <1>2, <2>3
  <2> QED BY <2>2, <2>4
<1>10. GatesOK'
  <2>1. ASSUME NEW a \in Player, NEW b \in Player, a # b
        PROVE  \A f \in 1 .. Begun(a)' - 1 : f < theirFrame'[a][b] + AheadAt(clock', f)
    <3>1. Begun(a)' = frame[a] /\ theirFrame' = theirFrame
      BY <1>1, <1>q
    <3> QED BY <1>9, <2>1, <3>1
  <2>2. \A a \in Player : pc'[a] # "exec"
    BY <1>1
  <2> QED BY <2>1, <2>2 DEF GatesOK
<1>11. TimingOK'
  <2> SUFFICES ASSUME NEW a \in Player
               PROVE  /\ ahead[a] = IF Told(log[a]) THEN clock'.val ELSE InitAhead
                      /\ window[a] = IF Told(log[a]) /\ clock'.val > InitAhead
                                     THEN <<clock'.at, clock'.at + clock'.val>> ELSE <<0, 0>>
    BY <1>q DEF TimingOK
  <2>1. /\ ahead[a] = IF Told(log[a]) THEN clock.val ELSE InitAhead
        /\ window[a] = IF Told(log[a]) /\ clock.val > InitAhead
                       THEN <<clock.at, clock.at + clock.val>> ELSE <<0, 0>>
    BY <1>i DEF TimingOK
  <2>2. Told(log[a]) => clock' = clock
    <3>1. Told(log[a]) => clock.on
      BY <1>i, ToldFacts
    <3> QED BY <1>c, <3>1 DEF Same
  <2> QED BY <2>1, <2>2
<1>12. ASSUME NEW a \in Player, NEW r \in Counts, ReadMore(sent, reads[a], r)
       PROVE  /\ LogGood(log[a], sent', r, clock', Begun(a))
              /\ pc[a] # "full" => ListGood(doList[a], log[a], sent', r, clock')
  <2>1. LogGood(log[a], sent, reads[a], clock, Begun(a))
    BY <1>i DEF LogOK
  <2>2. Begun(a) <= Begun(a) /\ Begun(a) \in Nat
    BY <1>v
  <2>3. log[a] \in Seq(Records) /\ doList[a] \in Seq(Entries)
    BY <1>v
  <2>4. Same(clock, clock', Begun(a)) /\ clock \in Clocks /\ clock' \in Clocks
    BY <1>c, <1>w
  <2>5. sent \in Histories /\ sent' \in Histories /\ reads[a] \in Counts
    BY <1>v, <1>w
  <2>6. LogGood(log[a], sent', r, clock', Begun(a))
    BY <1>12, <1>3, <2>1, <2>2, <2>3, <2>4, <2>5, LogKept
  <2>7. ASSUME pc[a] # "full" PROVE ListGood(doList[a], log[a], sent', r, clock')
    <3>1. ListGood(doList[a], log[a], sent, reads[a], clock)
      BY <1>i, <2>7 DEF ListOK
    <3> QED BY <1>12, <1>3, <2>2, <2>3, <2>4, <2>5, <3>1, ListKept
  <2> QED BY <2>6, <2>7
<1>13. LogOK'
  <2> SUFFICES ASSUME NEW a \in Player PROVE LogGood(log[a], sent', (reads[a])', clock', Begun(a))
    BY <1>1, <1>q DEF LogOK
  <2> QED BY <1>5, <1>12
<1>14. ListOK'
  <2> SUFFICES ASSUME NEW a \in Player, pc'[a] # "full"
               PROVE  /\ ListGood(doList'[a], log[a], sent', (reads[a])', clock')
                      /\ Covered(doList'[a], log[a], (reads[a])')
    BY <1>q DEF ListOK
  <2>1. pc[a] # "full"
    BY <1>q
  <2>2. Covered(doList[a], log[a], reads[a])
    BY <1>i, <2>1 DEF ListOK
  <2>3. CASE a # p
    <3>1. doList'[a] = doList[a] /\ (reads[a])' = reads[a]
      BY <1>4, <1>q, <2>3
    <3>2. ListGood(doList[a], log[a], sent', (reads[a])', clock')
      BY <1>5, <1>12, <2>1
    <3> QED BY <2>2, <3>1, <3>2
  <2>4. CASE a = p
    <3>1. ReadMore(sent, reads[p], reads[p]) /\ reads[p] \in Counts
      BY <1>w
    <3>2. /\ LogGood(log[p], sent', reads[p], clock', Begun(p))
          /\ ListGood(doList[p], log[p], sent', reads[p], clock')
      BY <1>12, <2>1, <2>4, <3>1
    <3>3. Brings(more, sent', p, reads[p][p])
      <4> SUFFICES ASSUME NEW i \in 1 .. n
                   PROVE  /\ more[i].owner = p /\ more[i].done = FALSE
                          /\ more[i].ev.no = Len(sent[p]) + i
                          /\ more[i].ev = sent'[p][Len(sent[p]) + i].ev
                          /\ more[i].due = sent'[p][Len(sent[p]) + i].due
        BY <1>4, <1>m DEF Brings
      <4>1. more[i] = [owner |-> p, due |-> frame[p] + ahead[p], ev |-> outList[p][i], done |-> FALSE]
        BY <1>m
      <4>2. sent'[p][Len(sent[p]) + i] =
              [frame |-> frame[p], due |-> frame[p] + ahead[p], ev |-> outList[p][i]]
        BY <1>m
      <4>3. outList[p][i].no = Len(sent[p]) + i
        <5>1. outList[p] \in Seq(Events)
          BY CountTypes
        <5>2. Len(outList[p]) \in Nat
          BY <5>1
        <5>3. i \in 1 .. Len(outList[p])
          BY <1>m, <5>2
        <5> QED BY <1>i, <5>3 DEF Numbered
      <4> QED BY <4>1, <4>2, <4>3
    <3>4. /\ (reads[p])'[p] = reads[p][p] + Len(more)
          /\ \A b \in Player : b # p => (reads[p])'[b] = reads[p][b]
      BY <1>4, <1>m
    <3>5. (reads[p])' \in Counts /\ ReadMore(sent', (reads[p])', (reads[p])')
      BY <1>5
    <3>6. /\ doList[p] \in Seq(Entries) /\ log[p] \in Seq(Records) /\ sent' \in Histories
          /\ clock' \in Clocks
      BY <1>c, <1>v
    <3>7. Covered(doList[p], log[p], reads[p])
      BY <2>2, <2>4
    <3>8. /\ ListGood(doList[p] \o more, log[p], sent', (reads[p])', clock')
          /\ Covered(doList[p] \o more, log[p], (reads[p])')
      BY <3>1, <3>2, <3>3, <3>4, <3>5, <3>6, <3>7, ListJoin
    <3> QED BY <1>m, <2>4, <3>8
  <2> QED BY <2>3, <2>4
<1>15. MissedOK'
  <2> SUFFICES ASSUME NEW a \in Player PROVE NoneMissed(log[a], sent', clock', frame[a])
    BY <1>q DEF MissedOK
  <2>1. NoneMissed(log[a], sent, clock, frame[a])
    BY <1>i DEF MissedOK
  <2>2. ASSUME NEW q \in Player, NEW k \in 1 .. Len(sent'[q]), k > Len(sent[q])
        PROVE  Final(clock', sent'[q][k].due) >= frame[a]
    <3>1. ~ (k \in 1 .. Len(sent[q]))
      BY <1>v, <2>2
    <3>2. q = p /\ sent'[q][k].due = frame[p] + AheadAt(clock', frame[p])
      BY <1>6, <1>7, <3>1
    <3> DEFINE d == frame[p] + AheadAt(clock', frame[p])
    <3>3. d \in Nat /\ d >= frame[p]
      BY <1>6
    <3>4. CASE a = p
      <4> HIDE DEF d
      <4>1. Final(clock', d) \in Nat /\ Final(clock', d) >= d
        BY <1>c, <3>3, FinalFacts
      <4> QED BY <1>6, <3>2, <3>3, <3>4, <4>1 DEF d
    <3>5. CASE a # p
      <4>1. \A f \in 1 .. frame[a] - 1 : f < theirFrame[a][p] + AheadAt(clock', f)
        BY <1>9, <3>5
      <4>2. theirFrame[a][p] \in Int /\ theirFrame[a][p] <= frame[p] /\ frame[a] \in Nat
        BY <1>v DEF HeardOK
      <4>3. Final(clock', d) >= frame[a]
        BY <1>6, <1>c, <4>1, <4>2, SendMissed
      <4> QED BY <3>2, <4>3
    <3> QED BY <3>4, <3>5
  <2>3. Same(clock, clock', frame[a]) /\ frame[a] \in Nat
    BY <1>1, <1>c, <1>v
  <2>4. sent \in Histories /\ sent' \in Histories /\ clock \in Clocks /\ clock' \in Clocks
    BY <1>c, <1>v, <1>w
  <2> QED BY <1>3, <2>1, <2>2, <2>3, <2>4, MissedKept
<1>16. RosterFull' /\ SortedOK' /\ PlacesOK' /\ ExecOK'
  <2>1. RosterFull' /\ SortedOK'
    BY <1>i, <1>q DEF RosterFull, SortedOK
  <2>2. PlacesOK'
    BY <1>6, <1>i, <1>q DEF PlacesOK
  <2>3. ExecOK'
    BY <1>1 DEF ExecOK
  <2> QED BY <2>1, <2>2, <2>3
<1> QED BY <1>c, <1>8, <1>10, <1>11, <1>13, <1>14, <1>15, <1>16 DEF PlayInv

LEMMA PlayInit ==
  ASSUME Init, TypeOK
  PROVE  PlayInv
<1>1. /\ pc = [p \in Player |-> "sync"] /\ frame = [p \in Player |-> 0]
      /\ ahead = [p \in Player |-> InitAhead] /\ window = [p \in Player |-> <<0, 0>>]
      /\ ids = [p \in Player |-> [i \in Player |-> i]] /\ conns = [p \in Player |-> Peers(p)]
      /\ theirRecv = [p \in Player |-> [q \in Player |-> 0]]
      /\ outList = [p \in Player |-> << >>] /\ doList = [p \in Player |-> << >>]
      /\ active = [p \in Player |-> TRUE]
      /\ sent = [p \in Player |-> << >>] /\ log = [p \in Player |-> << >>]
  BY DEF Init
<1>2. \A p \in Player : /\ pc[p] = "sync" /\ frame[p] = 0 /\ ahead[p] = InitAhead /\ window[p] = <<0, 0>>
                        /\ outList[p] = << >> /\ doList[p] = << >> /\ sent[p] = << >> /\ log[p] = << >>
  BY <1>1
<1>3. Len(<< >>) = 0 /\ 1 .. 0 = {} /\ 1 \in Player
  BY PlayTypes
<1>4. clock = [on |-> FALSE, at |-> 0, val |-> 0]
  <2>1. ~ Timed(sent[1])
    BY <1>2, <1>3 DEF Timed
  <2> QED BY <2>1 DEF clock, Clock
<1>5. \A p \in Player : Issued(p) = {}
  BY <1>2, <1>3 DEF Issued
<1>6. KindsOK
  BY <1>3, <1>5 DEF KindsOK
<1>7. RosterFull
  BY <1>1 DEF RosterFull
<1>8. PlacesOK /\ DuesOK
  BY <1>2, <1>3 DEF PlacesOK, DuesOK
<1>9. GatesOK
  <2>1. \A p \in Player : Begun(p) = 0 /\ pc[p] # "exec" /\ 1 .. Begun(p) - 1 = {}
    BY <1>2 DEF Begun
  <2> QED BY <2>1 DEF GatesOK
<1>10. TimingOK
  <2>1. \A p \in Player : ~ Told(log[p])
    BY <1>2, <1>3 DEF Told
  <2> QED BY <1>2, <2>1 DEF TimingOK
<1>11. LogOK /\ SortedOK
  BY <1>2, <1>3 DEF LogOK, LogGood, SortedOK, Sorted
<1>12. ListOK
  <2>1. \A p, q \in Player : reads[p][q] = 0
    BY <1>1, <1>2, <1>3, ReadsAre
  <2> SUFFICES ASSUME NEW p \in Player
               PROVE  /\ ListGood(doList[p], log[p], sent, reads[p], clock)
                      /\ Covered(doList[p], log[p], reads[p])
    BY DEF ListOK
  <2>2. ListGood(doList[p], log[p], sent, reads[p], clock)
    BY <1>2, <1>3 DEF ListGood
  <2>3. Covered(doList[p], log[p], reads[p])
    BY <1>3, <2>1 DEF Covered
  <2> QED BY <2>2, <2>3
<1>13. MissedOK
  BY <1>2, <1>3 DEF MissedOK, NoneMissed
<1>14. ExecOK
  BY <1>2 DEF ExecOK
<1> QED BY <1>6, <1>7, <1>8, <1>9, <1>10, <1>11, <1>12, <1>13, <1>14 DEF PlayInv

LEMMA PlayNext ==
  ASSUME Together, TypeOK, TypeOK', HeardOK, CountInv, CountInv', AllFit, PlayInv, [Next]_vars
  PROVE  PlayInv'
<1>t. \A a, b \in Player : theirFrame[a][b] \in Int
  BY PlayTypes
<1>1. ASSUME NEW p \in Player, Quiet, Command(p) \/ Exit(p) \/ \E a \in NewAheads : Timing(p, a)
      PROVE  PlayInv'
  BY <1>1, QueueFacts, PlayQueue
<1>2. ASSUME NEW p \in Player, Quiet, NEW load \in Loads, Send(p, load) PROVE PlayInv'
  BY <1>2, PlaySend
<1>3. ASSUME NEW p \in Player, Quiet, Resync(p) PROVE PlayInv'
  <2>1. UNCHANGED <<pc, frame, ahead, window, ids, conns, theirFrame, theirRecv, doList, cursor,
                    active, sent, log, outList, timings>>
    BY <1>3, ResyncFacts
  <2>2. KindsOK'
    BY <2>1, PlayParts, KindsStill
  <2>3. \A a, b \in Player : theirFrame'[a][b] >= theirFrame[a][b]
    BY <1>t, <2>1, Raise
  <2> QED BY <1>3, <2>1, <2>2, <2>3, CalmStep
<1>4. ASSUME NEW p \in Player, Quiet, NEW m \in info, HearInfo(p, m) PROVE PlayInv'
  BY <1>4, PlayHearInfo
<1>5. ASSUME NEW p \in Player, Quiet, NEW q \in Player, HearCommands(p, q) PROVE PlayInv'
  BY <1>5, PlayHearCommands
<1>6. ASSUME NEW p \in Player, NEW q \in Player, HandleTimeout(p, q) PROVE FALSE
  BY <1>6, TimeoutFacts DEF Together
<1>7. ASSUME NEW p \in Player, Begin(p) PROVE PlayInv'
  BY <1>7, PlayBegin
<1>8. ASSUME NEW p \in Player, GiveUp(p) PROVE FALSE
  BY <1>8, GiveUpFacts DEF Together
<1>9. ASSUME NEW p \in Player, Advance(p) PROVE PlayInv'
  BY <1>9, PlayAdvance
<1>10. ASSUME NEW p \in Player, ExecuteEvent(p) PROVE PlayInv'
  BY <1>10, PlayExecute
<1>11. ASSUME NEW p \in Player, EndFrame(p) PROVE PlayInv'
  BY <1>11, PlayEndFrame
<1>12. ASSUME UNCHANGED vars PROVE PlayInv'
  <2>1. /\ UNCHANGED <<pc, frame, ahead, window, ids, conns, theirFrame, theirSent, theirRecv, doList>>
        /\ UNCHANGED <<cursor, active, sent, log, outList, timings>>
    BY <1>12 DEF vars, timing, roster, heard, budget, past
  <2>2. clock' = clock
    BY <2>1, ClockStill
  <2>3. \A p \in Player : (reads[p])' = reads[p] /\ Begun(p)' = Begun(p)
    BY <2>1, ReadsAre, ReadsSame DEF Begun
  <2>4. KindsOK' /\ RosterFull' /\ PlacesOK' /\ DuesOK' /\ SortedOK' /\ MissedOK'
    BY <2>1, <2>2, PlayParts, KindsStill DEF RosterFull, PlacesOK, DuesOK, SortedOK, MissedOK
  <2>5. GatesOK' /\ TimingOK'
    BY <2>1, <2>2, <2>3, PlayParts DEF GatesOK, TimingOK
  <2>6. LogOK' /\ ListOK' /\ ExecOK'
    BY <2>1, <2>2, <2>3, PlayParts DEF LogOK, ListOK, ExecOK
  <2> QED BY <2>4, <2>5, <2>6 DEF PlayInv
<1> QED BY <1>1, <1>2, <1>3, <1>4, <1>5, <1>6, <1>7, <1>8, <1>9, <1>10, <1>11, <1>12, NextCases

(* The invariants of the two proof modules together. *)
TogetherInv == TypeOK /\ HeardOK /\ (AllFit => CountInv /\ PlayInv)

LEMMA TogetherInit == Init => TogetherInv
<1> SUFFICES ASSUME Init PROVE TogetherInv
  OBVIOUS
<1>1. TypeOK /\ HeardOK
  BY TypeInit, SkewInit DEF SkewInv
<1>2. CountInv
  BY CountInit
<1>3. PlayInv
  BY <1>1, PlayInit
<1> QED BY <1>1, <1>2, <1>3 DEF TogetherInv

LEMMA TogetherNext ==
  ASSUME Together, TogetherInv, [Next]_vars
  PROVE  TogetherInv'
<1>1. TypeOK /\ HeardOK
  BY DEF TogetherInv
<1>2. TypeOK' /\ HeardOK'
  BY <1>1, TypeNext, HeardNext
<1>3. ASSUME AllFit' PROVE CountInv' /\ PlayInv'
  <2>1. AllFit
    BY <1>1, <1>2, <1>3, FitBefore
  <2>2. CountInv /\ PlayInv
    BY <2>1 DEF TogetherInv
  <2>3. CountInv'
    BY <1>1, <1>2, <2>1, <2>2, CountNext
  <2> QED BY <1>1, <1>2, <2>1, <2>2, <2>3, PlayNext
<1> QED BY <1>2, <1>3 DEF TogetherInv

------------------------------------------------------------------------------
(* NeverTooLate                                                               *)

(* In a game that nobody leaves and in which MaxAhead changes at most once,   *)
(* no machine reaches a command after the frame it was scheduled for, as long *)
(* as no counter wraps: Can_Advance held with the MaxAhead the sender used,   *)
(* and what was sent before the change is moved behind the period of          *)
(* vulnerability.                                                             *)
THEOREM NoneTooLate ==
  ASSUME Together
  PROVE  Safety => [](AllFit => NeverTooLate)
<1>1. Init => TogetherInv
  BY TogetherInit
<1>2. TogetherInv /\ [Next]_vars => TogetherInv'
  BY TogetherNext
<1>3. TogetherInv => (AllFit => NeverTooLate)
  <2> SUFFICES ASSUME PlayInv PROVE NeverTooLate
    BY DEF TogetherInv
  <2>1. PlacesOK
    BY PlayParts
  <2> QED BY <2>1 DEF PlacesOK, NeverTooLate
<1> QED BY <1>1, <1>2, <1>3, PTL DEF Safety

------------------------------------------------------------------------------
(* InSync                                                                     *)

(* The order of the records. *)
ComesBefore(x, y) == x.at < y.at \/ (x.at = y.at /\ Precedes(x, y))

LEMMA OrderStrict ==
  ASSUME NEW x \in Records, NEW y \in Records, ComesBefore(x, y)
  PROVE  x # y /\ ~ ComesBefore(y, x) /\ x.at <= y.at
<1>1. /\ x.at \in Nat /\ y.at \in Nat /\ x.owner \in Nat /\ y.owner \in Nat
      /\ x.ev.no \in Nat /\ y.ev.no \in Nat
  BY EventTypes DEF Records, Player
<1>2. x.at < y.at \/ (x.at = y.at /\ (x.owner < y.owner \/ (x.owner = y.owner /\ x.ev.no < y.ev.no)))
  BY DEF ComesBefore, Precedes
<1>3. ~ ComesBefore(y, x)
  BY <1>1, <1>2 DEF ComesBefore, Precedes
<1>4. x # y
  <2>1. CASE x = y
    BY <2>1, <1>3
  <2> QED BY <2>1
<1> QED BY <1>1, <1>2, <1>3, <1>4

(* Two sorted logs with the same records up to frame f are the same up to it. *)
LEMMA SortedAgree ==
  ASSUME NEW l \in Seq(Records), NEW h \in Seq(Records), Sorted(l), Sorted(h), NEW f \in Nat,
         \A n \in 1 .. Len(l) : l[n].at <= f => \E j \in 1 .. Len(h) : h[j] = l[n],
         \A n \in 1 .. Len(h) : h[n].at <= f => \E j \in 1 .. Len(l) : l[j] = h[n]
  PROVE  \A n \in 1 .. Len(l) : l[n].at <= f => n \in 1 .. Len(h) /\ h[n] = l[n]
<1> DEFINE S == {n \in 1 .. Len(l) : l[n].at <= f /\ ~ (n \in 1 .. Len(h) /\ h[n] = l[n])}
<1> SUFFICES ASSUME S # {} PROVE FALSE
  OBVIOUS
<1>t. /\ Len(l) \in Nat /\ Len(h) \in Nat
      /\ \A n \in 1 .. Len(l) : l[n] \in Records /\ l[n].at \in Nat
      /\ \A n \in 1 .. Len(h) : h[n] \in Records /\ h[n].at \in Nat
  <2>1. /\ Len(l) \in Nat /\ Len(h) \in Nat
        /\ \A n \in 1 .. Len(l) : l[n] \in Records
        /\ \A n \in 1 .. Len(h) : h[n] \in Records
    OBVIOUS
  <2>2. \A x \in Records : x.at \in Nat
    BY DEF Records
  <2> QED BY <2>1, <2>2
<1>s. /\ \A i, j \in 1 .. Len(l) : i < j => ComesBefore(l[i], l[j])
      /\ \A i, j \in 1 .. Len(h) : i < j => ComesBefore(h[i], h[j])
  BY DEF Sorted, ComesBefore
<1>1. S \subseteq Nat
  BY <1>t
<1>2. PICK n : n \in S /\ \A m \in S : n <= m
  BY <1>1, LeastIs
<1>3. n \in 1 .. Len(l) /\ l[n].at <= f /\ ~ (n \in 1 .. Len(h) /\ h[n] = l[n])
  BY <1>2
<1>4. ASSUME NEW i \in 1 .. Len(l), i < n PROVE i \in 1 .. Len(h) /\ h[i] = l[i] /\ ComesBefore(l[i], l[n])
  <2>1. ComesBefore(l[i], l[n])
    BY <1>3, <1>4, <1>s
  <2>2. l[i].at <= f
    <3>1. l[i].at <= l[n].at /\ l[i].at \in Nat /\ l[n].at \in Nat
      BY <1>3, <1>t, <2>1, OrderStrict
    <3> QED BY <1>3, <3>1
  <2>3. i \notin S
    <3>1. i \in Nat /\ n \in Nat /\ ~ (n <= i)
      BY <1>1, <1>2, <1>4
    <3> QED BY <1>2, <3>1
  <2> QED BY <2>1, <2>2, <2>3
<1> HIDE DEF S
<1>5. PICK j \in 1 .. Len(h) : h[j] = l[n]
  BY <1>3
<1>6. j > n
  <2>1. j # n
    BY <1>3, <1>5
  <2>2. ASSUME j < n PROVE FALSE
    <3>1. j \in 1 .. Len(l)
      BY <1>3, <1>t, <2>2
    <3>2. h[j] = l[j] /\ ComesBefore(l[j], l[n])
      BY <1>4, <2>2, <3>1
    <3> QED BY <1>3, <1>5, <1>t, <3>1, <3>2, OrderStrict
  <2> QED BY <1>3, <1>t, <2>1, <2>2
<1>7. n \in 1 .. Len(h) /\ ComesBefore(h[n], l[n])
  <2>1. n \in 1 .. Len(h)
    BY <1>3, <1>6, <1>t
  <2> QED BY <1>5, <1>6, <1>s, <2>1
<1>8. h[n].at <= f
  <2>1. h[n].at <= l[n].at /\ h[n].at \in Nat /\ l[n].at \in Nat
    BY <1>3, <1>7, <1>t, OrderStrict
  <2> QED BY <1>3, <2>1
<1>9. PICK i \in 1 .. Len(l) : l[i] = h[n]
  BY <1>7, <1>8
<1>10. CASE i < n
  <2>1. i \in 1 .. Len(h) /\ h[i] = l[i]
    BY <1>4, <1>10
  <2>2. ComesBefore(h[i], h[n])
    BY <1>7, <1>10, <1>s, <2>1
  <2> QED BY <1>7, <1>9, <1>t, <2>1, <2>2, OrderStrict
<1>11. CASE i = n
  BY <1>3, <1>7, <1>9, <1>11
<1>12. CASE i > n
  <2>1. ComesBefore(l[n], l[i])
    BY <1>3, <1>12, <1>s
  <2> QED BY <1>3, <1>7, <1>9, <1>t, <2>1, OrderStrict
<1> QED BY <1>3, <1>10, <1>11, <1>12, <1>t

(* What one machine executed in frame f another one that has played frame f   *)
(* has executed too.                                                          *)
LEMMA ExecutedByAll ==
  ASSUME TypeOK, CountInv, PlayInv, NEW p \in Player, NEW q \in Player,
         NEW n \in 1 .. Len(log[p]), log[p][n].at < frame[q]
  PROVE  \E j \in 1 .. Len(log[q]) : log[q][j] = log[p][n]
<1> DEFINE x == log[p][n]
<1>i. PromisesOK /\ KindsOK /\ LogOK /\ MissedOK
  BY PlayParts DEF CountInv
<1>1. /\ Genuine(x, sent, reads[p]) /\ x.at = FinalOf(x, sent, clock)
      /\ x.owner \in Player /\ x.at \in Nat /\ x \in Records
  BY <1>i, RecordTypes DEF LogOK, LogGood
<1>2. x.ev.no \in 1 .. Len(sent[x.owner]) /\ x.ev = sent[x.owner][x.ev.no].ev
  <2>1. x.ev.no \in 1 .. reads[p][x.owner] /\ x.ev = sent[x.owner][x.ev.no].ev
    BY <1>1 DEF Genuine
  <2>2. /\ reads[p][x.owner] \in Nat /\ reads[p][x.owner] <= Len(sent[x.owner])
        /\ Len(sent[x.owner]) \in Nat
    BY <1>1, <1>i, ReadsFacts
  <2> HIDE DEF x
  <2> QED BY <2>1, <2>2
<1>3. x.at = Final(clock, sent[x.owner][x.ev.no].due)
  BY <1>1 DEF FinalOf, DueOf
<1>4. frame[q] \in Nat
  BY PlayTypes
<1>5. Has(log[q], x.owner, x.ev.no)
  <2>1. \/ Has(log[q], x.owner, x.ev.no)
        \/ Final(clock, sent[x.owner][x.ev.no].due) >= frame[q]
    BY <1>1, <1>2, <1>i DEF MissedOK, NoneMissed
  <2> QED BY <1>1, <1>3, <1>4, <2>1
<1>6. PICK j \in 1 .. Len(log[q]) : log[q][j].owner = x.owner /\ log[q][j].ev.no = x.ev.no
  BY <1>5 DEF Has
<1> DEFINE y == log[q][j]
<1>7. Genuine(y, sent, reads[q]) /\ y.at = FinalOf(y, sent, clock) /\ y \in Records
  BY <1>i, RecordTypes DEF LogOK, LogGood
<1>8. y.ev = x.ev /\ y.at = x.at /\ y.owner = x.owner
  <2>1. y.ev = sent[y.owner][y.ev.no].ev
    BY <1>7 DEF Genuine
  <2>2. y.at = Final(clock, sent[y.owner][y.ev.no].due)
    BY <1>7 DEF FinalOf, DueOf
  <2> QED BY <1>2, <1>3, <1>6, <2>1, <2>2
<1> HIDE DEF x, y
<1>9. y = x
  BY <1>1, <1>7, <1>8 DEF Records
<1> QED BY <1>9 DEF x, y

LEMMA PlayedTheSame ==
  ASSUME TypeOK, CountInv, PlayInv, NEW p \in Player, NEW q \in Player, NEW f \in Nat,
         f < frame[p], f < frame[q]
  PROVE  Played(p, f) \subseteq Played(q, f)
<1> DEFINE l == log[p]
           h == log[q]
<1>t. l \in Seq(Records) /\ h \in Seq(Records) /\ frame[p] \in Nat /\ frame[q] \in Nat
  BY PlayTypes
<1>r. /\ \A n \in 1 .. Len(l) : l[n].at \in Nat
      /\ \A n \in 1 .. Len(h) : h[n].at \in Nat
  BY RecordTypes
<1>1. Sorted(l) /\ Sorted(h)
  BY PlayParts DEF SortedOK
<1>2. ASSUME NEW n \in 1 .. Len(l), l[n].at <= f PROVE \E j \in 1 .. Len(h) : h[j] = l[n]
  <2>1. l[n].at < frame[q]
    BY <1>2, <1>r, <1>t
  <2> QED BY <2>1, ExecutedByAll
<1>3. ASSUME NEW n \in 1 .. Len(h), h[n].at <= f PROVE \E j \in 1 .. Len(l) : l[j] = h[n]
  <2>1. h[n].at < frame[p]
    BY <1>3, <1>r, <1>t
  <2> QED BY <2>1, ExecutedByAll
<1>4. \A n \in 1 .. Len(l) : l[n].at <= f => n \in 1 .. Len(h) /\ h[n] = l[n]
  <2> HIDE DEF l, h
  <2> QED BY <1>t, <1>1, <1>2, <1>3, SortedAgree
<1>5. DOMAIN l = 1 .. Len(l) /\ DOMAIN h = 1 .. Len(h)
  BY <1>t
<1>6. ASSUME NEW e \in Played(p, f) PROVE e \in Played(q, f)
  <2>1. PICK n \in DOMAIN l : l[n].at <= f /\ e = <<n, l[n]>>
    BY DEF Played
  <2>2. n \in DOMAIN h /\ h[n] = l[n]
    BY <1>4, <1>5, <2>1
  <2> QED BY <2>1, <2>2 DEF Played
<1> QED BY <1>6

(* In a game that nobody leaves and in which MaxAhead changes at most once,   *)
(* any two machines that have both played a frame have executed the same      *)
(* events up to it, in the same order, whatever happened to the packets       *)
(* between them, as long as no counter wraps.                                 *)
THEOREM StaysInSync ==
  ASSUME Together
  PROVE  Safety => [](AllFit => InSync)
<1>1. Init => TogetherInv
  BY TogetherInit
<1>2. TogetherInv /\ [Next]_vars => TogetherInv'
  BY TogetherNext
<1>3. TogetherInv => (AllFit => InSync)
  <2> SUFFICES ASSUME TypeOK, CountInv, PlayInv, NEW p \in Player, NEW q \in Player,
                      NEW f \in 0 .. LastFrame, f < frame[p], f < frame[q]
               PROVE  Played(p, f) = Played(q, f)
    BY DEF TogetherInv, InSync
  <2>1. f \in Nat
    BY Bounds
  <2>2. Played(p, f) \subseteq Played(q, f) /\ Played(q, f) \subseteq Played(p, f)
    BY <2>1, PlayedTheSame
  <2> QED BY <2>2
<1> QED BY <1>1, <1>2, <1>3, PTL DEF Safety

------------------------------------------------------------------------------
(* OrdersInOrder                                                              *)

NeverShrinks == \A a \in NewAheads : a >= InitAhead

(* Events sent later are executed no earlier. *)
LEMMA LaterIsLater ==
  ASSUME NeverShrinks, TypeOK, CountInv, PlayInv, NEW q \in Player,
         NEW i \in 1 .. Len(sent[q]), NEW k \in 1 .. Len(sent[q]), i <= k
  PROVE  Final(clock, sent[q][i].due) <= Final(clock, sent[q][k].due)
<1>i. Numbered /\ KindsOK /\ DuesOK
  BY PlayParts DEF CountInv
<1>t. /\ clock \in Clocks
      /\ sent[q][i].frame \in Nat /\ sent[q][i].due \in Nat
      /\ sent[q][k].frame \in Nat /\ sent[q][k].due \in Nat
  BY <1>i, WorldTypes, SentTypes
<1> DEFINE a == sent[q][i].frame
           b == sent[q][k].frame
<1>1. a <= b
  BY <1>i DEF Numbered
<1>2. sent[q][i].due = a + AheadAt(clock, a) /\ sent[q][k].due = b + AheadAt(clock, b)
  BY <1>i DEF DuesOK
<1>3. clock.on => clock.val >= InitAhead
  <2> SUFFICES ASSUME clock.on PROVE clock.val >= InitAhead
    OBVIOUS
  <2>1. PICK n \in 1 .. Len(sent[1]) : IsTiming(sent[1][n]) /\ clock.val = sent[1][n].ev.val
    BY <1>i, ClockFacts
  <2>2. sent[1][n].ev \in Events
    BY PlayTypes, SentTypes
  <2>3. clock.val \in NewAheads
    BY <2>1, <2>2, EventTypes DEF IsTiming
  <2> QED BY <2>3 DEF NeverShrinks
<1>4. AheadAt(clock, a) <= AheadAt(clock, b) /\ AheadAt(clock, a) \in Nat /\ AheadAt(clock, b) \in Nat
  <2>0. a \in Nat /\ b \in Nat /\ a \in Int /\ b \in Int
    BY <1>t
  <2> HIDE DEF a, b
  <2>1. /\ clock.at \in Nat /\ clock.val \in Nat /\ InitAhead \in Nat
        /\ AheadAt(clock, a) \in Nat
        /\ ~ clock.on => AheadAt(clock, a) = InitAhead
        /\ a <= clock.at => AheadAt(clock, a) = InitAhead
        /\ clock.on /\ a > clock.at => AheadAt(clock, a) = clock.val
    BY <1>t, <2>0, AheadFacts
  <2>2. /\ AheadAt(clock, b) \in Nat
        /\ ~ clock.on => AheadAt(clock, b) = InitAhead
        /\ b <= clock.at => AheadAt(clock, b) = InitAhead
        /\ clock.on /\ b > clock.at => AheadAt(clock, b) = clock.val
    BY <1>t, <2>0, AheadFacts
  <2> QED BY <1>1, <1>3, <2>0, <2>1, <2>2
<1>5. sent[q][i].due <= sent[q][k].due
  BY <1>1, <1>2, <1>4, <1>t
<1> QED BY <1>5, <1>t, FinalMonotone

(* In a game that nobody leaves and in which MaxAhead changes at most once,   *)
(* and then only grows, every machine executes the events of a player in the  *)
(* order he gave them, each at most once, as long as no counter wraps.        *)
THEOREM EventsKeepOrder ==
  ASSUME Together, NeverShrinks
  PROVE  Safety => [](AllFit => OrdersInOrder)
<1>1. Init => TogetherInv
  BY TogetherInit
<1>2. TogetherInv /\ [Next]_vars => TogetherInv'
  BY TogetherNext
<1>3. TogetherInv => (AllFit => OrdersInOrder)
  <2> SUFFICES ASSUME TypeOK, CountInv, PlayInv, NEW p \in Player,
                      NEW m \in DOMAIN log[p], NEW n \in DOMAIN log[p], m < n,
                      log[p][m].owner = log[p][n].owner
               PROVE  log[p][m].ev.no < log[p][n].ev.no
    BY DEF TogetherInv, OrdersInOrder
  <2> DEFINE x == log[p][m]
             y == log[p][n]
             q == x.owner
  <2>i. PromisesOK /\ KindsOK /\ LogOK /\ SortedOK
    BY PlayParts DEF CountInv
  <2>1. m \in 1 .. Len(log[p]) /\ n \in 1 .. Len(log[p])
    <3>1. log[p] \in Seq(Records)
      BY PlayTypes
    <3>2. DOMAIN log[p] = 1 .. Len(log[p])
      BY <3>1
    <3> QED BY <3>2
  <2>2. /\ x \in Records /\ y \in Records /\ q \in Player /\ x.at \in Nat /\ y.at \in Nat
        /\ x.ev.no \in Nat /\ y.ev.no \in Nat /\ q \in Nat
    <3>1. /\ x \in Records /\ y \in Records /\ q \in Player /\ x.at \in Nat /\ y.at \in Nat
          /\ x.ev.no \in Nat /\ y.ev.no \in Nat
      BY <2>1, RecordTypes
    <3> QED BY <3>1 DEF Player
  <2>3. /\ Genuine(x, sent, reads[p]) /\ x.at = FinalOf(x, sent, clock)
        /\ Genuine(y, sent, reads[p]) /\ y.at = FinalOf(y, sent, clock)
    BY <2>1, <2>i DEF LogOK, LogGood
  <2>4. y.owner = q
    OBVIOUS
  <2>5. x.ev.no \in 1 .. Len(sent[q]) /\ y.ev.no \in 1 .. Len(sent[q])
    <3>1. x.ev.no \in 1 .. reads[p][q] /\ y.ev.no \in 1 .. reads[p][q]
      BY <2>3, <2>4 DEF Genuine
    <3>2. reads[p][q] \in Nat /\ reads[p][q] <= Len(sent[q]) /\ Len(sent[q]) \in Nat
      BY <2>2, <2>i, ReadsFacts
    <3> HIDE DEF x, y, q
    <3> QED BY <3>1, <3>2
  <2>6. x.at = Final(clock, sent[q][x.ev.no].due) /\ y.at = Final(clock, sent[q][y.ev.no].due)
    BY <2>3, <2>4 DEF FinalOf, DueOf
  <2>7. x.at < y.at \/ (x.at = y.at /\ Precedes(x, y))
    BY <2>1, <2>i DEF SortedOK, Sorted
  <2> HIDE DEF x, y, q
  <2>8. CASE x.at = y.at /\ Precedes(x, y)
    <3>1. x.owner = q
      BY DEF q
    <3>2. x.ev.no < y.ev.no
      BY <2>2, <2>4, <2>8, <3>1 DEF Precedes
    <3> QED BY <3>2 DEF x, y
  <2>9. CASE x.at < y.at
    <3>1. ASSUME y.ev.no <= x.ev.no PROVE FALSE
      <4>1. Final(clock, sent[q][y.ev.no].due) <= Final(clock, sent[q][x.ev.no].due)
        BY <2>2, <2>5, <3>1, LaterIsLater
      <4> QED BY <2>2, <2>6, <2>9, <4>1
    <3>2. x.ev.no < y.ev.no
      BY <2>2, <3>1
    <3> QED BY <3>2 DEF x, y
  <2> QED BY <2>7, <2>8, <2>9
<1> QED BY <1>1, <1>2, <1>3, PTL DEF Safety
===============================================================================
