---------------------------- MODULE LockstepProofs ----------------------------
(* The safety of Lockstep for every value of its constants: its types, how    *)
(* far machines drift apart, and what their counts of commands are worth.     *)
EXTENDS Lockstep, SequenceTheorems, WellFoundedInduction, TLAPS

------------------------------------------------------------------------------
(* The inductive invariant of SkewBounded.                                    *)

(* MultiplayerID holds this machine's player and those it is connected to,    *)
(* each once.                                                                 *)
RosterOK ==
  \A p \in Player :
    /\ \A i, j \in DOMAIN ids[p] : ids[p][i] = ids[p][j] => i = j
    /\ {ids[p][i] : i \in DOMAIN ids[p]} = conns[p] \cup {p}
    /\ p \notin conns[p]

(* Nobody is said to be further than he is, and frames only go up.            *)
HeardOK ==
  /\ \A p, q \in Player : theirFrame[p][q] <= frame[q]
  /\ \A m \in info : m.frame <= frame[m.from]
  /\ \A p, q \in Player : \A k \in 1 .. Len(wire[p][q]) : wire[p][q][k].frame <= frame[p]
  /\ \A p \in Player : pc[p] = "sync" => frame[p] = 0

(* The frame a machine has begun. *)
Begun(p) == frame[p] + (IF pc[p] = "exec" THEN 1 ELSE 0)

(* Can_Advance was true when the frame began.                                 *)
SkewOK ==
  \A p \in Player : \A q \in conns[p] :
    \E a \in NewAheads \cup {InitAhead} : Begun(p) <= frame[q] + a

SkewInv == RosterOK /\ HeardOK /\ SkewOK

------------------------------------------------------------------------------
(* The inductive invariant of CountsTellTruth, as long as no counter wraps.   *)

AllFit == \A p \in Player : issued[p] < CountSpace

(* A player's events are numbered in the order given: first those sent, then  *)
(* those in OutList.                                                          *)
Numbered ==
  \A p \in Player :
    /\ issued[p] = Len(sent[p]) + Len(outList[p])
    /\ \A i \in 1 .. Len(outList[p]) : outList[p][i].no = Len(sent[p]) + i
    /\ \A k \in 1 .. Len(sent[p]) : sent[p][k].ev.no = k /\ sent[p][k].frame <= frame[p]
    /\ \A k, l \in 1 .. Len(sent[p]) : k <= l => sent[p][k].frame <= sent[p][l].frame
    /\ pc[p] # "hung" => mySent[p] = Len(sent[p])

(* Packet m holds the events of a player that follow his number a, where s is *)
(* all he sent.                                                               *)
Carries(s, m, a) ==
  /\ a \in Nat /\ Len(m.evs) > 0 /\ a + Len(m.evs) <= Len(s)
  /\ \A i \in 1 .. Len(m.evs) : m.evs[i] = s[a + i].ev /\ m.due = s[a + i].due

Before(m) == m.evs[1].no - 1

(* The packets w follow one another, and the first follows number r.          *)
Chain(w, s, r) ==
  /\ \A k \in 1 .. Len(w) : Carries(s, w[k], Before(w[k]))
  /\ Len(w) > 0 => Before(w[1]) = r
  /\ \A k \in 1 .. Len(w) - 1 : Before(w[k + 1]) = Before(w[k]) + Len(w[k].evs)

(* The number of the last event in them, or taken before them.                *)
LastIn(w, r) == IF Len(w) = 0 THEN r ELSE Before(w[Len(w)]) + Len(w[Len(w)].evs)
LastOn(q, p) == LastIn(wire[q][p], theirRecv[p][q])

(* The packets on their way from q to p continue what p has taken.            *)
ChainOK == \A p, q \in Player : pc[p] # "full" => Chain(wire[q][p], sent[q], theirRecv[p][q])

(* No count promises more than was sent to p, and a machine that is connected *)
(* to p has sent it everything.                                               *)
PromisesOK ==
  \A p, q \in Player :
    /\ theirRecv[p][q] <= Len(sent[q])
    /\ pc[p] # "full" =>
         /\ p \in conns[q] => LastOn(q, p) = Len(sent[q])
         /\ LastOn(q, p) <= Len(sent[q])
         /\ theirSent[p][q] <= LastOn(q, p)
         /\ \A m \in info : m.from = q /\ m.to = p => m.count <= LastOn(q, p)
         /\ \A k \in 1 .. Len(wire[q][p]) : wire[q][p][k].count <= LastOn(q, p)

(* Whoever says he is at frame f and has sent c events sends no others before *)
(* frame f.                                                                   *)
After(s, c, f) == \A k \in 1 .. Len(s) : k > c => s[k].frame >= f
AfterOK ==
  /\ \A m \in info : After(sent[m.from], m.count, m.frame)
  /\ \A p, q \in Player : \A k \in 1 .. Len(wire[q][p]) :
       After(sent[q], wire[q][p][k].count, wire[q][p][k].frame)
  /\ \A p, q \in Player : After(sent[q], theirSent[p][q], theirFrame[p][q])

CountInv == Numbered /\ ChainOK /\ PromisesOK /\ AfterOK

------------------------------------------------------------------------------
(* Operators *)

(* The least-number principle, for Least. *)
LEMMA LeastIs ==
  ASSUME NEW S, S \subseteq Nat, S # {}
  PROVE  Least(S) \in S /\ \A m \in S : Least(S) <= m
<1>1. IsWellFoundedOn(OpToRel(<, Nat), Nat)
  BY NatLessThanWellFounded
<1>2. PICK x \in S : \A y \in S : ~ (<<y, x>> \in OpToRel(<, Nat))
  BY <1>1, WFMin
<1>3. \A y \in S : ~ (y < x)
  BY <1>2 DEF OpToRel
<1>4. \A y \in S : x <= y
  BY <1>3
<1> QED BY <1>4 DEF Least

LEMMA LeastOfTwo == 
  ASSUME NEW a \in Nat, NEW b \in Nat 
  PROVE  /\ Least({a, b}) \in Nat /\ Least({a, b}) <= a /\ Least({a, b}) <= b
         /\ Least({a, b}) = a \/ Least({a, b}) = b
<1>1. {a, b} \subseteq Nat /\ {a, b} # {} /\ a \in {a, b} /\ b \in {a, b}
  OBVIOUS
<1>2. Least({a, b}) \in {a, b} /\ \A m \in {a, b} : Least({a, b}) <= m
  BY <1>1, LeastIs
<1> QED BY <1>2

LEMMA LeastOfThree ==
  ASSUME NEW a \in Nat, NEW b \in Nat, NEW c \in Nat
  PROVE  /\ Least({a, b, c}) \in Nat
         /\ Least({a, b, c}) <= a /\ Least({a, b, c}) <= b /\ Least({a, b, c}) <= c
<1>1. {a, b, c} \subseteq Nat /\ {a, b, c} # {} /\ a \in {a, b, c} /\ b \in {a, b, c} /\ c \in {a, b, c}
  OBVIOUS
<1>2. Least({a, b, c}) \in {a, b, c} /\ \A m \in {a, b, c} : Least({a, b, c}) <= m
  BY <1>1, LeastIs
<1> QED BY <1>2

(* Send_Packets takes no more out of OutList than there is and than the       *)
(* DoList has room for, and when its loop ends, my_sent grows by what left.   *)
LEMMA LeavingFacts ==
  ASSUME TypeOK, NEW p \in Player, NEW load \in Loads
  PROVE  /\ Leaving(p, load) \in Nat /\ Cap(p, load) \in Nat
         /\ Leaving(p, load) <= Len(outList[p])
         /\ Len(doList[p]) + Leaving(p, load) <= DoListMax
         /\ LoopEnds(p, load) => Cap(p, load) = Leaving(p, load)
<1> DEFINE len == Len(outList[p])
           wanted == CASE load = "full" -> 0 [] load = "some" -> SomeCap [] load = "light" -> len
           free == Free(p)
<1>1. len \in Nat /\ Len(doList[p]) \in Nat /\ outList[p] \in Seq(Events)
  BY DEF TypeOK
<1>2. free \in Nat /\ Len(doList[p]) + free = DoListMax
  BY <1>1, Bounds DEF Free, TypeOK
<1>3. wanted \in Nat
  BY <1>1, Bounds, Modes
<1>4. Cap(p, load) = IF Online THEN len ELSE Least({wanted, len, free})
  BY DEF Cap
<1>5. /\ Least({wanted, len, free}) \in Nat /\ Least({wanted, len, free}) <= len
      /\ Least({wanted, len, free}) <= free
  <2> HIDE DEF len, wanted, free
  <2> QED BY <1>1, <1>2, <1>3, LeastOfThree
<1>6. Cap(p, load) \in Nat /\ Cap(p, load) <= len /\ (~ Online => Cap(p, load) <= free)
  <2> HIDE DEF len, wanted, free
  <2> QED BY <1>1, <1>4, <1>5
<1>7. Least({len, free}) \in Nat /\ Least({len, free}) <= len /\ Least({len, free}) <= free
  <2> HIDE DEF len, wanted, free
  <2> QED BY <1>1, <1>2, LeastOfTwo
<1>8. CASE Once(load)
  <2>1. ~ Online /\ Leaving(p, load) = Least({Cap(p, load), len})
    BY <1>8 DEF Leaving, Once
  <2>2. Least({Cap(p, load), len}) = Cap(p, load)
    <3> DEFINE c == Cap(p, load)
    <3>1. c \in Nat /\ c <= len
      BY <1>6
    <3> HIDE DEF c, len
    <3>2. Least({c, len}) = c \/ (Least({c, len}) = len /\ Least({c, len}) <= c)
      BY <1>1, <3>1, LeastOfTwo
    <3>3. Least({c, len}) = c
      BY <1>1, <3>1, <3>2
    <3> QED BY <3>3 DEF c
  <2> QED BY <1>2, <1>6, <2>1, <2>2, <1>1
<1>9. CASE ~ Once(load)
  <2>1. Leaving(p, load) = Least({len, free})
    BY <1>9 DEF Leaving
  <2>2. LoopEnds(p, load) => Leaving(p, load) = len
    BY <1>9 DEF LoopEnds
  <2>3. Leaving(p, load) = len => Cap(p, load) = len
    <3>1. CASE Online
      BY <3>1, <1>4
    <3>2. CASE ~ Online
      <4>1. load = "light"
        BY <1>9, <3>2 DEF Once
      <4>2. wanted = len
        BY <4>1
      <4>3. SUFFICES ASSUME Least({len, free}) = len PROVE Cap(p, load) = len
        BY <2>1
      <4>4. len <= free
        BY <4>3, <1>7
      <4>5. Least({len, len, free}) = len
        <5> HIDE DEF len, free, wanted
        <5>1. {len, len, free} = {len, free}
          OBVIOUS
        <5> QED BY <5>1, <4>3
      <4> QED BY <1>4, <3>2, <4>2, <4>5
    <3> QED BY <3>1, <3>2
  <2> QED BY <1>1, <1>2, <1>6, <1>7, <2>1, <2>2, <2>3
<1> QED BY <1>8, <1>9

LEMMA DivideUp ==
  ASSUME NEW n \in Nat, NEW size \in Nat \ {0}
  PROVE  LET count == (n + size - 1) \div size IN
           /\ count \in Nat /\ count * size >= n /\ (count = 0 <=> n = 0)
           /\ count > 0 => (count - 1) * size < n
  OBVIOUS

LEMMA Multiples ==
  ASSUME NEW k \in Nat, NEW l \in Nat, NEW size \in Nat
  PROVE  /\ k * size \in Nat /\ (k + 1) * size = k * size + size
         /\ k <= l => k * size <= l * size
  OBVIOUS

LEMMA AheadType ==
  ASSUME TypeOK, NEW p \in Player
  PROVE  /\ ahead[p] \in Nat \ {0} /\ InitAhead \in Nat \ {0}
         /\ frame[p] \in Nat /\ frame[p] + ahead[p] \in Nat
<1>1. ahead[p] \in NewAheads \cup {InitAhead}
  BY DEF TypeOK
<1>2. \A a \in NewAheads \cup {InitAhead} : a \in Nat \ {0}
  BY Aheads
<1>3. frame[p] \in Nat
  BY DEF TypeOK
<1>4. ahead[p] \in Nat \ {0}
  BY <1>1, <1>2
<1> QED BY <1>3, <1>4, Aheads

(* Build_Send_Packet and Add_Compressed_Events cut the first n events of      *)
(* OutList into packets that follow one another.                              *)
LEMMA PacketsFacts ==
  ASSUME TypeOK, NEW p \in Player, NEW n \in Nat, n <= Len(outList[p])
  PROVE  /\ Packets(p, n) \in Seq(CommandPackets)
         /\ Packets(p, n) = << >> <=> n = 0
         /\ \A k \in 1 .. Len(Packets(p, n)) :
              /\ Packets(p, n)[k].frame = frame[p]
              /\ Packets(p, n)[k].due = frame[p] + ahead[p]
              /\ Packets(p, n)[k].count = mySent[p]
         /\ \E at \in [1 .. Len(Packets(p, n)) -> Nat] :
              \A k \in 1 .. Len(Packets(p, n)) :
                /\ Len(Packets(p, n)[k].evs) \in Nat \ {0}
                /\ at[k] + Len(Packets(p, n)[k].evs) <= n
                /\ \A i \in 1 .. Len(Packets(p, n)[k].evs) :
                     Packets(p, n)[k].evs[i] = outList[p][at[k] + i]
                /\ k = 1 => at[k] = 0
                /\ k < Len(Packets(p, n)) => at[k + 1] = at[k] + Len(Packets(p, n)[k].evs)
                /\ k = Len(Packets(p, n)) => at[k] + Len(Packets(p, n)[k].evs) = n
<1> DEFINE size  == PerPacket
           count == (n + size - 1) \div size
           first(k) == (k - 1) * size
           last(k) == Least({n, k * size})
           evs(k) == SubSeq(outList[p], first(k) + 1, last(k))
           pack(k) == [frame |-> frame[p], due |-> frame[p] + ahead[p], count |-> mySent[p],
                       evs |-> evs(k)]
           all == Packets(p, n)
<1>0. size \in Nat \ {0}
  BY Bounds
<1>1. /\ count \in Nat /\ count * size >= n /\ (count = 0 <=> n = 0)
      /\ count > 0 => (count - 1) * size < n
  BY <1>0, DivideUp
<1>2. all = [k \in 1 .. count |-> pack(k)]
  BY DEF Packets
<1> HIDE DEF count
<1>3. ASSUME NEW k \in 1 .. count
      PROVE  /\ first(k) \in Nat /\ last(k) \in Nat /\ first(k) < last(k) /\ last(k) <= n
             /\ k < count => last(k) = first(k + 1)
             /\ k = count => last(k) = n
             /\ k = 1 => first(k) = 0
  <2>1. k \in Nat /\ k - 1 \in Nat /\ k >= 1 /\ count - 1 \in Nat /\ k - 1 <= count - 1 /\ count > 0
    BY <1>1
  <2>2. first(k) \in Nat /\ k * size \in Nat /\ k * size = first(k) + size
    <3>1. /\ (k - 1) * size \in Nat
          /\ ((k - 1) + 1) * size = (k - 1) * size + size
      BY <1>0, <2>1, Multiples
    <3>2. (k - 1) + 1 = k
      BY <2>1
    <3> HIDE DEF size
    <3> QED BY <1>0, <3>1, <3>2 
  <2>3. first(k) < n
    <3>1. (k - 1) * size <= (count - 1) * size
      BY <1>0, <2>1, Multiples
    <3>2. (count - 1) * size \in Nat
      BY <1>0, <2>1, Multiples
    <3> DEFINE a == (k - 1) * size 
               b == (count - 1) * size
    <3>3. a \in Nat /\ b \in Nat /\ a <= b /\ b < n
      BY <1>1, <2>1, <2>2, <3>1, <3>2
    <3>4. a < n
      <4> HIDE DEF a, b
      <4> QED BY <3>3
    <3> QED BY <3>4
  <2>4. /\ last(k) \in Nat /\ last(k) <= n /\ last(k) <= k * size 
        /\ last(k) = n \/ last(k) = k * size
    BY <2>2, LeastOfTwo
  <2>5. first(k) < last(k)
    <3> DEFINE a == first(k) 
               b == last(k) 
               c == k * size 
               s == size
    <3>1. a \in Nat /\ b \in Nat /\ c = a + s /\ s \in Nat \ {0} /\ a < n /\ (b = n \/ b = c)
      BY <1>0, <2>2, <2>3, <2>4
    <3>2. a < b
      <4> HIDE DEF a, b, c, s
      <4> QED BY <3>1
    <3> QED BY <3>2
  <2>6. ASSUME k < count PROVE last(k) = first(k + 1)
    <3>1. k <= count - 1 /\ (k + 1) - 1 = k
      BY <2>1, <1>1, <2>6
    <3>2. k * size <= (count - 1) * size /\ (count - 1) * size \in Nat
      BY <1>0, <2>1, <3>1, Multiples
    <3> DEFINE c == k * size 
               d == (count - 1) * size 
               b == last(k)
    <3>3. c \in Nat /\ d \in Nat /\ c <= d /\ d < n /\ b \in Nat /\ b <= c /\ (b = n \/ b = c)
      BY <2>1, <2>2, <2>4, <3>2, <1>1
    <3>4. b = c
      <4> HIDE DEF b, c, d
      <4> QED BY <3>3
    <3> QED BY <3>1, <3>4
  <2>7. ASSUME k = count PROVE last(k) = n
    <3> DEFINE c == k * size 
               b == last(k)
    <3>1. c \in Nat /\ c >= n /\ b \in Nat /\ (b = n \/ b = c) /\ b <= n
      BY <1>1, <2>2, <2>4, <2>7
    <3>2. b = n
      <4> HIDE DEF b, c
      <4> QED BY <3>1
    <3> QED BY <3>2
  <2>8. k = 1 => first(k) = 0
    BY <1>0
  <2> HIDE DEF first, last
  <2> QED BY <2>2, <2>4, <2>5, <2>6, <2>7, <2>8
<1> HIDE DEF first, last
<1>4. outList[p] \in Seq(Events) /\ Len(outList[p]) \in Nat
  BY DEF TypeOK
<1>5. ASSUME NEW k \in 1 .. count
      PROVE  /\ evs(k) \in Seq(Events) /\ Len(evs(k)) = last(k) - first(k)
             /\ \A i \in 1 .. Len(evs(k)) : evs(k)[i] = outList[p][first(k) + i]
  <2>1. /\ first(k) \in Nat /\ last(k) \in Nat /\ first(k) < last(k) /\ last(k) <= n
    BY <1>3
  <2>2. \A i \in first(k) + 1 .. last(k) : outList[p][i] \in Events
    BY <1>4, <2>1
  <2>3. /\ evs(k) \in Seq(Events)
        /\ Len(evs(k)) = IF first(k) + 1 <= last(k) THEN last(k) - (first(k) + 1) + 1 ELSE 0
        /\ \A i \in 1 .. last(k) - (first(k) + 1) + 1 :
             evs(k)[i] = outList[p][(first(k) + 1) + i - 1]
    <3> DEFINE a == first(k) + 1
               b == last(k)
    <3>1. a \in Int /\ b \in Int
      BY <2>1
    <3> HIDE DEF a, b
    <3>2. \A i \in a .. b : outList[p][i] \in Events
      BY <2>2 DEF a, b
    <3>3. /\ SubSeq(outList[p], a, b) \in Seq(Events)
          /\ Len(SubSeq(outList[p], a, b)) = IF a <= b THEN b - a + 1 ELSE 0
          /\ \A i \in 1 .. b - a + 1 : SubSeq(outList[p], a, b)[i] = outList[p][a + i - 1]
      BY ONLY <3>1, <3>2, SubSeqProperties
    <3> QED BY <3>3 DEF a, b
  <2> HIDE DEF evs
  <2>4. Len(evs(k)) = last(k) - first(k)
    BY <2>1, <2>3
  <2>5. \A i \in 1 .. Len(evs(k)) : evs(k)[i] = outList[p][first(k) + i]
    <3> TAKE i \in 1 .. Len(evs(k))
    <3>1. i \in 1 .. last(k) - (first(k) + 1) + 1 /\ (first(k) + 1) + i - 1 = first(k) + i
      BY <2>1, <2>4
    <3> QED BY <2>3, <3>1
  <2> QED BY <2>3, <2>4, <2>5
<1> HIDE DEF evs
<1>6. \A k \in 1 .. count : pack(k) \in CommandPackets
  <2>1. frame[p] \in Nat /\ frame[p] + ahead[p] \in Nat /\ mySent[p] \in Nat
    BY AheadType DEF TypeOK
  <2> QED BY <1>5, <2>1 DEF CommandPackets
<1>7. all \in Seq(CommandPackets) /\ Len(all) = count /\ \A k \in 1 .. count : all[k] = pack(k)
  <2> HIDE DEF pack, all
  <2> QED BY <1>1, <1>2, <1>6
<1> HIDE DEF all
<1>8. \A k \in 1 .. count : all[k].evs = evs(k)
  BY <1>7
<1>9. all = << >> <=> n = 0
  BY <1>1, <1>7
<1>10. [k \in 1 .. count |-> first(k)] \in [1 .. Len(all) -> Nat]
  BY <1>3, <1>7
<1>11. ASSUME NEW k \in 1 .. count
       PROVE  LET at == [j \in 1 .. count |-> first(j)] IN
                /\ Len(all[k].evs) \in Nat \ {0}
                /\ at[k] + Len(all[k].evs) <= n
                /\ \A i \in 1 .. Len(all[k].evs) :
                     all[k].evs[i] = outList[p][at[k] + i]
                /\ k = 1 => at[k] = 0
                /\ k < Len(all) => at[k + 1] = at[k] + Len(all[k].evs)
                /\ k = Len(all) => at[k] + Len(all[k].evs) = n
  <2>1. /\ first(k) \in Nat /\ last(k) \in Nat /\ first(k) < last(k) /\ last(k) <= n
        /\ k < count => last(k) = first(k + 1)
        /\ k = count => last(k) = n
        /\ k = 1 => first(k) = 0
    BY <1>3
  <2>2. /\ all[k].evs = evs(k) /\ Len(evs(k)) = last(k) - first(k)
        /\ \A i \in 1 .. Len(evs(k)) : evs(k)[i] = outList[p][first(k) + i]
    BY <1>5, <1>8
  <2>3. Len(all) = count /\ count \in Nat
    BY <1>1, <1>7
  <2>4. k < count => k + 1 \in 1 .. count
    BY <1>1
  <2> QED BY <2>1, <2>2, <2>3, <2>4
<1>12. \A k \in 1 .. count : /\ all[k].frame = frame[p]
                             /\ all[k].due = frame[p] + ahead[p]
                             /\ all[k].count = mySent[p]
  BY <1>7
<1> QED BY <1>7, <1>9, <1>10, <1>11, <1>12 DEF all

(* What Extract_Compressed_Events puts into the DoList. *)
LEMMA ScheduledFacts ==
  ASSUME NEW q \in Player, NEW evs \in Seq(Events), NEW due \in Nat
  PROVE  /\ Scheduled(q, evs, due) \in Seq(Entries)
         /\ Len(Scheduled(q, evs, due)) = Len(evs)
         /\ \A n \in 1 .. Len(evs) : Scheduled(q, evs, due)[n] =
              [owner |-> q, due |-> due, ev |-> evs[n], done |-> FALSE]
<1>1. Len(evs) \in Nat /\ DOMAIN evs = 1 .. Len(evs)
  OBVIOUS
<1>2. \A n \in 1 .. Len(evs) :
        [owner |-> q, due |-> due, ev |-> evs[n], done |-> FALSE] \in Entries
  BY DEF Entries
<1>3. Scheduled(q, evs, due) = [n \in 1 .. Len(evs) |->
        [owner |-> q, due |-> due, ev |-> evs[n], done |-> FALSE]]
  BY <1>1 DEF Scheduled
<1> QED BY <1>1, <1>2, <1>3

(* The first n of a sequence. *)
LEMMA FirstFacts ==
  ASSUME NEW S, NEW s \in Seq(S), NEW n \in Nat, n <= Len(s)
  PROVE  /\ SubSeq(s, 1, n) \in Seq(S) /\ Len(SubSeq(s, 1, n)) = n
         /\ \A i \in 1 .. n : SubSeq(s, 1, n)[i] = s[i]
<1>1. \A i \in 1 .. n : s[i] \in S
  OBVIOUS
<1>2. /\ SubSeq(s, 1, n) \in Seq(S)
      /\ Len(SubSeq(s, 1, n)) = IF 1 <= n THEN n - 1 + 1 ELSE 0
      /\ \A i \in 1 .. n - 1 + 1 : SubSeq(s, 1, n)[i] = s[1 + i - 1]
  BY <1>1, SubSeqProperties
<1>3. \A i \in 1 .. n : i \in 1 .. n - 1 + 1 /\ 1 + i - 1 = i
  OBVIOUS
<1> QED BY <1>2, <1>3

(* What is left behind them. *)
LEMMA RestFacts ==
  ASSUME NEW S, NEW s \in Seq(S), NEW n \in Nat, n <= Len(s)
  PROVE  /\ SubSeq(s, n + 1, Len(s)) \in Seq(S)
         /\ Len(SubSeq(s, n + 1, Len(s))) = Len(s) - n
         /\ \A i \in 1 .. Len(s) - n : SubSeq(s, n + 1, Len(s))[i] = s[n + i]
<1>0. Len(s) \in Nat
  OBVIOUS
<1>1. \A i \in n + 1 .. Len(s) : s[i] \in S
  OBVIOUS
<1>2. /\ SubSeq(s, n + 1, Len(s)) \in Seq(S)
      /\ Len(SubSeq(s, n + 1, Len(s))) = IF n + 1 <= Len(s) THEN Len(s) - (n + 1) + 1 ELSE 0
      /\ \A i \in 1 .. Len(s) - (n + 1) + 1 : SubSeq(s, n + 1, Len(s))[i] = s[(n + 1) + i - 1]
  BY <1>0, <1>1, SubSeqProperties
<1>3. \A i \in 1 .. Len(s) - n : i \in 1 .. Len(s) - (n + 1) + 1 /\ (n + 1) + i - 1 = n + i
  BY <1>0
<1> QED BY <1>0, <1>2, <1>3

(* The history of what one Send_Packets sends. *)
Outgoing(p, n) == [i \in 1 .. n |-> [frame |-> frame[p], due |-> frame[p] + ahead[p],
                                     ev |-> outList[p][i]]]
SentEvents == [frame : Nat, due : Nat, ev : Events]
Records == [at : Nat, owner : Player, ev : Events]

LEMMA OutgoingFacts ==
  ASSUME TypeOK, NEW p \in Player, NEW n \in Nat, n <= Len(outList[p])
  PROVE  /\ Outgoing(p, n) \in Seq(SentEvents) /\ Len(Outgoing(p, n)) = n
         /\ \A i \in 1 .. n : Outgoing(p, n)[i] =
              [frame |-> frame[p], due |-> frame[p] + ahead[p], ev |-> outList[p][i]]
<1>1. outList[p] \in Seq(Events) /\ frame[p] \in Nat /\ frame[p] + ahead[p] \in Nat
  BY AheadType DEF TypeOK
<1>2. \A i \in 1 .. n : [frame |-> frame[p], due |-> frame[p] + ahead[p], ev |-> outList[p][i]]
                          \in SentEvents
  BY <1>1 DEF SentEvents
<1> QED BY <1>2 DEF Outgoing

LEMMA BroadcastType ==
  ASSUME TypeOK, NEW p \in Player, NEW f \in Nat
  PROVE  Broadcast(p, f) \subseteq [from : Player, to : Player, frame : Nat, count : Nat]
<1>1. \A q \in conns[p] : q \in Player
  BY DEF TypeOK
<1>2. mySent[p] \in Nat
  BY DEF TypeOK
<1>3. \A q \in conns[p] : [from |-> p, to |-> q, frame |-> f, count |-> mySent[p]]
                               \in [from : Player, to : Player, frame : Nat, count : Nat]
  BY <1>1, <1>2
<1>4. info \subseteq [from : Player, to : Player, frame : Nat, count : Nat]
  BY DEF TypeOK
<1> QED BY <1>3, <1>4 DEF Broadcast

LEMMA TypeInit == Init => TypeOK
<1> SUFFICES ASSUME Init PROVE TypeOK
  OBVIOUS
<1>1. N \in Nat \ {0} /\ InitAhead \in Nat \ {0} /\ DoListMax \in Nat
  BY Players, Aheads, Bounds
<1>2. [i \in Player |-> i] \in Seq(Player)
  BY <1>1 DEF Player
<1>3. info \subseteq [from : Player, to : Player, frame : Nat, count : Nat]
  BY DEF Init, Peers
<1>4. ids \in [Player -> Seq(Player)] /\ conns \in [Player -> SUBSET Player]
  BY <1>2 DEF Init, Peers
<1>5. /\ outList \in [Player -> Seq(Events)] /\ doList \in [Player -> Seq(Entries)]
      /\ \A p \in Player : Len(doList[p]) <= DoListMax
      /\ wire \in [Player -> [Player -> Seq(CommandPackets)]]
      /\ sent \in [Player -> Seq([frame : Nat, due : Nat, ev : Events])]
      /\ log \in [Player -> Seq([at : Nat, owner : Player, ev : Events])]
  BY <1>1 DEF Init
<1>6. /\ pc \in [Player -> Places] /\ frame \in [Player -> Nat]
      /\ ahead \in [Player -> NewAheads \cup {InitAhead}]
      /\ window \in [Player -> Nat \X Nat]
      /\ theirFrame \in [Player -> [Player -> Nat \cup {-1}]]
      /\ theirSent \in [Player -> [Player -> Nat]]
      /\ theirRecv \in [Player -> [Player -> Nat]]
      /\ mySent \in [Player -> Nat] /\ cursor \in [Player -> Nat \X Nat]
      /\ active \in [Player -> BOOLEAN]
      /\ issued \in [Player -> Nat] /\ timings \in Nat
  BY <1>1 DEF Init, Places
<1> QED BY <1>3, <1>4, <1>5, <1>6 DEF TypeOK

LEMMA OthersType == 
  ASSUME TypeOK, NEW p \in Player, NEW q \in Player
  PROVE  Others(p, q) \in Seq(Player)
<1> DEFINE i == CHOOSE n \in DOMAIN ids[p] : ids[p][n] = q
           o == [n \in 1 .. Len(ids[p]) - 1 |-> ids[p][IF n < i THEN n ELSE n + 1]]
<1>1. ids[p] \in Seq(Player) /\ Len(ids[p]) \in Nat
  BY DEF TypeOK
<1>2. ASSUME NEW n \in 1 .. Len(ids[p]) - 1
      PROVE  ids[p][IF n < i THEN n ELSE n + 1] \in Player
  <2>1. (IF n < i THEN n ELSE n + 1) \in 1 .. Len(ids[p])
    <3> HIDE DEF i
    <3> QED BY <1>1
  <2> HIDE DEF i
  <2> QED BY <1>1, <2>1
<1>3. o \in Seq(Player)
  <2>1. CASE Len(ids[p]) = 0
    <3>1. o = << >>
      BY <2>1
    <3> HIDE DEF o
    <3> QED BY <3>1, EmptySeq
  <2>2. CASE Len(ids[p]) > 0
    <3> HIDE DEF i
    <3>1. Len(ids[p]) - 1 \in Nat
      BY <1>1, <2>2
    <3> QED BY <1>2, <3>1
  <2> QED BY <1>1, <2>1, <2>2
<1> QED BY <1>3 DEF Others

LEMMA DestroyType ==
  ASSUME TypeOK, NEW p \in Player, NEW q \in Player, Destroy(p, q)
  PROVE  ids' \in [Player -> Seq(Player)] /\ conns' \in [Player -> SUBSET Player]
<1>1. Others(p, q) \in Seq(Player)
  BY OthersType
<1>2. ids' = [ids EXCEPT ![p] = Others(p, q)] /\ conns' = [conns EXCEPT ![p] = conns[p] \ {q}]
  BY DEF Destroy
<1>3. ids \in [Player -> Seq(Player)] /\ conns \in [Player -> SUBSET Player]
  BY DEF TypeOK
<1> QED BY <1>1, <1>2, <1>3

LEMMA TypeQueue ==
  ASSUME TypeOK, NEW p \in Player, NEW kind, NEW val, Queue(p, kind, val), timings' \in Nat,
         \A n \in Nat : [kind |-> kind, no |-> n, val |-> val] \in Events
  PROVE  TypeOK'
<1>1. issued[p] \in Nat /\ issued[p] + 1 \in Nat
  BY DEF TypeOK
<1>2. Append(outList[p], [kind |-> kind, no |-> issued[p] + 1, val |-> val]) \in Seq(Events)
  BY <1>1 DEF TypeOK
<1>3. outList' = [outList EXCEPT ![p] = Append(outList[p], [kind |-> kind, no |-> issued[p] + 1, val |-> val])]
  BY DEF Queue
<1>4. outList' \in [Player -> Seq(Events)]
  BY <1>2, <1>3 DEF TypeOK
<1>5. issued' \in [Player -> Nat]
  BY <1>1 DEF Queue, TypeOK
<1> QED BY <1>4, <1>5 DEF Queue, TypeOK, timing, roster, heard, net, past

LEMMA TypeHeed ==
  ASSUME TypeOK, NEW p \in Player, NEW q \in Player, NEW f \in Nat, NEW c \in Nat,
         Heed(p, q, f, c)
  PROVE  /\ theirFrame' \in [Player -> [Player -> Nat \cup {-1}]]
         /\ theirSent' \in [Player -> [Player -> Nat]]
         /\ \A r, s \in Player : <<r, s>> # <<p, q>> => /\ theirFrame'[r][s] = theirFrame[r][s]
                                                        /\ theirSent'[r][s] = theirSent[r][s]
         /\ theirFrame'[p][q] = IF theirFrame[p][q] < f THEN f ELSE theirFrame[p][q]
         /\ theirSent'[p][q] = IF c > theirSent[p][q] THEN c ELSE theirSent[p][q]
<1>1. theirFrame \in [Player -> [Player -> Nat \cup {-1}]] /\ theirSent \in [Player -> [Player -> Nat]]
  BY DEF TypeOK
<1> DEFINE a == IF theirFrame[p][q] < f THEN f ELSE theirFrame[p][q]
           b == IF c > theirSent[p][q] THEN c ELSE theirSent[p][q]
<1>2. theirFrame' = [theirFrame EXCEPT ![p] = [theirFrame[p] EXCEPT ![q] = a]]
  BY DEF Heed
<1>3. theirSent' = [theirSent EXCEPT ![p] = [theirSent[p] EXCEPT ![q] = b]]
  BY DEF Heed
<1>4. a \in Nat \cup {-1} /\ b \in Nat
  BY <1>1
<1> HIDE DEF a, b
<1>5. [theirFrame[p] EXCEPT ![q] = a] \in [Player -> Nat \cup {-1}]
  BY <1>1, <1>4
<1>6. [theirSent[p] EXCEPT ![q] = b] \in [Player -> Nat]
  BY <1>1, <1>4
<1>7. theirFrame'[p][q] = a /\ theirSent'[p][q] = b
  BY <1>1, <1>2, <1>3
<1>8. /\ theirFrame' \in [Player -> [Player -> Nat \cup {-1}]]
      /\ theirSent' \in [Player -> [Player -> Nat]]
  BY <1>1, <1>2, <1>3, <1>5, <1>6
<1>9. ASSUME NEW r \in Player, NEW s \in Player, <<r, s>> # <<p, q>>
      PROVE theirFrame'[r][s] = theirFrame[r][s] /\ theirSent'[r][s] = theirSent[r][s]
  BY <1>1, <1>2, <1>3, <1>9
<1> QED BY <1>7, <1>8, <1>9 DEF a, b

(* What Send changes, in terms of the events that leave. *)
LEMMA SendFacts ==
  ASSUME TypeOK, NEW p \in Player, NEW load \in Loads, Send(p, load)
  PROVE  LET n == Leaving(p, load) 
             first == SubSeq(outList[p], 1, n) IN
         /\ n \in Nat /\ n <= Len(outList[p]) /\ pc[p] = "play"
         /\ first \in Seq(Events) /\ Len(first) = n /\ \A i \in 1 .. n : first[i] = outList[p][i]
         /\ outList' = [outList EXCEPT ![p] = SubSeq(outList[p], n + 1, Len(outList[p]))]
         /\ doList' = [doList EXCEPT ![p] =
              doList[p] \o Scheduled(p, first, frame[p] + ahead[p])]
         /\ Len(doList[p]) + n <= DoListMax
         /\ wire' = [wire EXCEPT ![p] = [q \in Player |->
              IF q \in conns[p] THEN wire[p][q] \o Packets(p, n) ELSE wire[p][q]]]
         /\ info' = IF n = 0 THEN Broadcast(p, frame[p]) ELSE info
         /\ sent' = [sent EXCEPT ![p] = sent[p] \o Outgoing(p, n)]
         /\ \/ /\ pc' = [pc EXCEPT ![p] = "wait"]
               /\ mySent' = [mySent EXCEPT ![p] = (mySent[p] + n) % CountSpace]
            \/ pc' = [pc EXCEPT ![p] = "hung"] /\ UNCHANGED mySent
         /\ UNCHANGED <<frame, ahead, window, ids, conns, theirFrame, theirSent, theirRecv,
                        cursor, active, issued, timings, log>>
<1> DEFINE n == Leaving(p, load)
           first == SubSeq(outList[p], 1, n)
<1>1. /\ n \in Nat /\ n <= Len(outList[p]) /\ Len(doList[p]) + n <= DoListMax
      /\ LoopEnds(p, load) => Cap(p, load) = n
  BY LeavingFacts
<1> HIDE DEF n
<1>2. first \in Seq(Events) /\ Len(first) = n /\ \A i \in 1 .. n : first[i] = outList[p][i]
  <2>1. outList[p] \in Seq(Events)
    BY DEF TypeOK
  <2> QED BY <1>1, <2>1, FirstFacts
<1>3. /\ pc[p] = "play"
      /\ outList' = [outList EXCEPT ![p] = SubSeq(outList[p], n + 1, Len(outList[p]))]
      /\ doList' = [doList EXCEPT ![p] = doList[p] \o Scheduled(p, first, frame[p] + ahead[p])]
      /\ wire' = [wire EXCEPT ![p] = [q \in Player |->
              IF q \in conns[p] THEN wire[p][q] \o Packets(p, n) ELSE wire[p][q]]]
      /\ info' = IF n = 0 THEN Broadcast(p, frame[p]) ELSE info
      /\ sent' = [sent EXCEPT ![p] = sent[p] \o Outgoing(p, n)]
  BY DEF Send, Outgoing, n
<1>4. \/ /\ pc' = [pc EXCEPT ![p] = "wait"]
         /\ mySent' = [mySent EXCEPT ![p] = (mySent[p] + n) % CountSpace]
      \/ pc' = [pc EXCEPT ![p] = "hung"] /\ UNCHANGED mySent
  BY <1>1 DEF Send, n
<1>5. UNCHANGED <<frame, ahead, window, ids, conns, theirFrame, theirSent, theirRecv,
                  cursor, active, issued, timings, log>>
  BY DEF Send, timing, roster, heard, budget
<1> HIDE DEF first
<1> QED BY <1>1, <1>2, <1>3, <1>4, <1>5 DEF n, first

LEMMA TypeSend ==
  ASSUME TypeOK, NEW p \in Player, NEW load \in Loads, Send(p, load)
  PROVE  TypeOK'
<1> DEFINE n == Leaving(p, load)
           first == SubSeq(outList[p], 1, n)
           more == Scheduled(p, first, frame[p] + ahead[p])
<1>1. /\ n \in Nat /\ n <= Len(outList[p]) 
      /\ first \in Seq(Events) /\ Len(first) = n 
      /\ outList' = [outList EXCEPT ![p] = SubSeq(outList[p], n + 1, Len(outList[p]))]
      /\ doList' = [doList EXCEPT ![p] = doList[p] \o more]
      /\ Len(doList[p]) + n <= DoListMax
      /\ wire' = [wire EXCEPT ![p] = [q \in Player |->
           IF q \in conns[p] THEN wire[p][q] \o Packets(p, n) ELSE wire[p][q]]]
      /\ info' = IF n = 0 THEN Broadcast(p, frame[p]) ELSE info
      /\ sent' = [sent EXCEPT ![p] = sent[p] \o Outgoing(p, n)]
      /\ \/ /\ pc' = [pc EXCEPT ![p] = "wait"]
            /\ mySent' = [mySent EXCEPT ![p] = (mySent[p] + n) % CountSpace]
         \/ pc' = [pc EXCEPT ![p] = "hung"] /\ UNCHANGED mySent
      /\ UNCHANGED <<frame, ahead, window, ids, conns, theirFrame, theirSent, theirRecv,
                     cursor, active, issued, timings, log>>
  BY SendFacts
<1>2. frame[p] + ahead[p] \in Nat /\ frame[p] \in Nat
  BY AheadType
<1>3. more \in Seq(Entries) /\ Len(more) = n
  <2> HIDE DEF n, first
  <2> QED BY <1>1, <1>2, ScheduledFacts
<1> HIDE DEF n, first, more
<1>4. outList' \in [Player -> Seq(Events)]
  <2>1. outList[p] \in Seq(Events) /\ outList \in [Player -> Seq(Events)]
    BY DEF TypeOK
  <2>2. SubSeq(outList[p], n + 1, Len(outList[p])) \in Seq(Events)
    BY <1>1, <2>1, RestFacts
  <2> QED BY <1>1, <2>1, <2>2
<1>5. /\ doList' \in [Player -> Seq(Entries)]
      /\ \A q \in Player : Len(doList'[q]) <= DoListMax
  <2>1. doList[p] \in Seq(Entries) /\ doList \in [Player -> Seq(Entries)]
        /\ \A q \in Player : Len(doList[q]) <= DoListMax
    BY DEF TypeOK
  <2>2. doList[p] \o more \in Seq(Entries) /\ Len(doList[p] \o more) = Len(doList[p]) + n
    BY <1>3, <2>1, ConcatProperties
  <2> QED BY <1>1, <2>1, <2>2
<1>6. wire' \in [Player -> [Player -> Seq(CommandPackets)]]
  <2>1. Packets(p, n) \in Seq(CommandPackets)
    BY <1>1, PacketsFacts
  <2>2. wire \in [Player -> [Player -> Seq(CommandPackets)]]
    BY DEF TypeOK
  <2>3. \A q \in Player : wire[p][q] \o Packets(p, n) \in Seq(CommandPackets)
    BY <2>1, <2>2, ConcatProperties
  <2>4. [q \in Player |-> IF q \in conns[p] THEN wire[p][q] \o Packets(p, n) ELSE wire[p][q]]
          \in [Player -> Seq(CommandPackets)]
    BY <2>2, <2>3
  <2> QED BY <1>1, <2>2, <2>4
<1>7. info' \subseteq [from : Player, to : Player, frame : Nat, count : Nat]
  BY <1>1, <1>2, BroadcastType DEF TypeOK
<1>8. sent' \in [Player -> Seq([frame : Nat, due : Nat, ev : Events])]
  <2>1. Outgoing(p, n) \in Seq(SentEvents)
    BY <1>1, OutgoingFacts
  <2>2. sent \in [Player -> Seq(SentEvents)]
    BY DEF TypeOK, SentEvents
  <2>3. sent[p] \o Outgoing(p, n) \in Seq(SentEvents)
    BY <2>1, <2>2, ConcatProperties
  <2>4. sent' \in [Player -> Seq(SentEvents)]
    BY <1>1, <2>2, <2>3
  <2> QED BY <2>4 DEF SentEvents
<1>9. pc' \in [Player -> Places]
  BY <1>1 DEF TypeOK, Places
<1>10. mySent' \in [Player -> Nat]
  <2>1. mySent \in [Player -> Nat] /\ CountSpace \in Nat \ {0}
    BY Bounds DEF TypeOK
  <2>2. (mySent[p] + n) % CountSpace \in Nat
    BY <1>1, <2>1
  <2> QED BY <1>1, <2>1, <2>2
<1> QED BY <1>1, <1>4, <1>5, <1>6, <1>7, <1>8, <1>9, <1>10 DEF TypeOK

LEMMA HearFacts ==
  ASSUME TypeOK, NEW p \in Player, NEW q \in Player, HearCommands(p, q)
  PROVE  LET m == wire[q][p][1]
             n == Least({Len(m.evs), Free(p)})
             more == Scheduled(q, SubSeq(m.evs, 1, n), m.due) IN
         /\ Waiting(p) /\ q \in conns[p] /\ Len(wire[q][p]) > 0
         /\ m \in CommandPackets /\ m.evs \in Seq(Events)
         /\ m.frame \in Nat /\ m.due \in Nat /\ m.count \in Nat
         /\ n \in Nat /\ n <= Len(m.evs) /\ Len(doList[p]) + n <= DoListMax
         /\ Heed(p, q, m.frame, m.count)
         /\ doList' = [doList EXCEPT ![p] = doList[p] \o more]
         /\ more \in Seq(Entries) /\ Len(more) = n
         /\ \A i \in 1 .. n : more[i] = [owner |-> q, due |-> m.due, ev |-> m.evs[i], done |-> FALSE]
         /\ \/ /\ n = Len(m.evs) /\ UNCHANGED pc
               /\ theirRecv' = [theirRecv EXCEPT ![p] =
                    [theirRecv[p] EXCEPT ![q] = (theirRecv[p][q] + Len(m.evs)) % CountSpace]]
            \/ pc' = [pc EXCEPT ![p] = "full"] /\ UNCHANGED theirRecv
         /\ wire' = [wire EXCEPT ![q] = [wire[q] EXCEPT ![p] = Tail(wire[q][p])]]
         /\ UNCHANGED <<frame, ahead, window, ids, conns, mySent, outList, cursor, active, info,
                        issued, timings, sent, log>>
<1> DEFINE m == wire[q][p][1]
           n == Least({Len(m.evs), Free(p)})
           first == SubSeq(m.evs, 1, n)
           more == Scheduled(q, first, m.due)
<1>1. /\ Waiting(p) /\ q \in conns[p] /\ wire[q][p] # << >>
      /\ Heed(p, q, Head(wire[q][p]).frame, Head(wire[q][p]).count)
      /\ doList' = [doList EXCEPT ![p] = doList[p] \o Scheduled(q,
            SubSeq(Head(wire[q][p]).evs, 1, Least({Len(Head(wire[q][p]).evs), Free(p)})), Head(wire[q][p]).due)]
      /\ IF Len(Head(wire[q][p]).evs) <= Free(p)
            THEN /\ theirRecv' = [theirRecv EXCEPT ![p] =
                    [theirRecv[p] EXCEPT ![q] = (theirRecv[p][q] + Len(Head(wire[q][p]).evs)) % CountSpace]]
                 /\ UNCHANGED pc
            ELSE /\ pc' = [pc EXCEPT ![p] = "full"]
                 /\ UNCHANGED theirRecv
      /\ wire' = [wire EXCEPT ![q] = [wire[q] EXCEPT ![p] = Tail(wire[q][p])]]
      /\ UNCHANGED <<frame, ahead, window, ids, conns, mySent, outList, cursor, active, info,
                     issued, timings, sent, log>>
  BY DEF HearCommands, timing, roster, budget, past
<1>2. wire[q][p] \in Seq(CommandPackets)
  BY DEF TypeOK
<1>3. Head(wire[q][p]) = m /\ Len(wire[q][p]) > 0 /\ m \in CommandPackets
  BY <1>1, <1>2
<1>4. m.evs \in Seq(Events) /\ m.frame \in Nat /\ m.due \in Nat /\ m.count \in Nat
  BY <1>3 DEF CommandPackets
<1> HIDE DEF m
<1>5. Free(p) \in Nat /\ Len(doList[p]) + Free(p) = DoListMax /\ Len(doList[p]) \in Nat
  BY Bounds DEF Free, TypeOK
<1>6. Len(m.evs) \in Nat
  BY <1>4
<1>7. n \in Nat /\ n <= Len(m.evs) /\ n <= Free(p) /\ (n = Len(m.evs) \/ n = Free(p))
  <2> DEFINE a == Len(m.evs) b == Free(p)
  <2>1. a \in Nat /\ b \in Nat
    BY <1>5, <1>6
  <2>2. n = Least({a, b})
    OBVIOUS
  <2> HIDE DEF a, b, n
  <2>3. n \in Nat /\ n <= a /\ n <= b /\ (n = a \/ n = b)
    BY <2>1, <2>2, LeastOfTwo
  <2> QED BY <2>3 DEF a, b
<1> HIDE DEF n
<1>8. first \in Seq(Events) /\ Len(first) = n /\ \A i \in 1 .. n : first[i] = m.evs[i]
  BY <1>4, <1>7, FirstFacts
<1> HIDE DEF first
<1>9. /\ more \in Seq(Entries) /\ Len(more) = n
      /\ \A i \in 1 .. n : more[i] = [owner |-> q, due |-> m.due, ev |-> m.evs[i], done |-> FALSE]
  BY <1>4, <1>8, ScheduledFacts
<1>10. doList' = [doList EXCEPT ![p] = doList[p] \o more]
  BY <1>1, <1>3 DEF first, n
<1>11. Len(m.evs) <= Free(p) => n = Len(m.evs)
  BY <1>5, <1>6, <1>7
<1> HIDE DEF more
<1>12. \/ /\ n = Len(m.evs) /\ UNCHANGED pc
          /\ theirRecv' = [theirRecv EXCEPT ![p] =
               [theirRecv[p] EXCEPT ![q] = (theirRecv[p][q] + Len(m.evs)) % CountSpace]]
       \/ pc' = [pc EXCEPT ![p] = "full"] /\ UNCHANGED theirRecv
  BY <1>1, <1>3, <1>11
<1>13. Len(doList[p]) + n <= DoListMax
  BY <1>5, <1>7
<1>14. Heed(p, q, m.frame, m.count)
  BY <1>1, <1>3
<1> QED BY <1>1, <1>3, <1>4, <1>7, <1>9, <1>10, <1>12, <1>13, <1>14 DEF m, n, more, first

LEMMA TypeHear ==
  ASSUME TypeOK, NEW p \in Player, NEW q \in Player, HearCommands(p, q)
  PROVE  TypeOK'
<1> DEFINE m == wire[q][p][1]
           n == Least({Len(m.evs), Free(p)})
           more == Scheduled(q, SubSeq(m.evs, 1, n), m.due)
<1>1. /\ Len(wire[q][p]) > 0
      /\ m \in CommandPackets /\ m.evs \in Seq(Events)
      /\ m.frame \in Nat /\ m.due \in Nat /\ m.count \in Nat
      /\ n \in Nat /\ n <= Len(m.evs) /\ Len(doList[p]) + n <= DoListMax
      /\ Heed(p, q, m.frame, m.count)
      /\ doList' = [doList EXCEPT ![p] = doList[p] \o more]
      /\ more \in Seq(Entries) /\ Len(more) = n
      /\ \/ /\ n = Len(m.evs) /\ UNCHANGED pc
            /\ theirRecv' = [theirRecv EXCEPT ![p] =
                 [theirRecv[p] EXCEPT ![q] = (theirRecv[p][q] + Len(m.evs)) % CountSpace]]
         \/ pc' = [pc EXCEPT ![p] = "full"] /\ UNCHANGED theirRecv
      /\ wire' = [wire EXCEPT ![q] = [wire[q] EXCEPT ![p] = Tail(wire[q][p])]]
      /\ UNCHANGED <<frame, ahead, window, ids, conns, mySent, outList, cursor, active, info,
                     issued, timings, sent, log>>
  BY HearFacts
<1> HIDE DEF m, n, more
<1>2. /\ theirFrame' \in [Player -> [Player -> Nat \cup {-1}]]
      /\ theirSent' \in [Player -> [Player -> Nat]]
  BY <1>1, TypeHeed
<1>3. /\ doList' \in [Player -> Seq(Entries)]
      /\ \A r \in Player : Len(doList'[r]) <= DoListMax
  <2>1. doList[p] \in Seq(Entries) /\ doList \in [Player -> Seq(Entries)]
        /\ \A r \in Player : Len(doList[r]) <= DoListMax
    BY DEF TypeOK
  <2>2. doList[p] \o more \in Seq(Entries) /\ Len(doList[p] \o more) = Len(doList[p]) + n
    <3>1. more \in Seq(Entries) /\ Len(more) = n /\ doList[p] \in Seq(Entries)
      BY <1>1, <2>1
    <3> QED BY <3>1, ConcatProperties
  <2> QED BY <1>1, <2>1, <2>2
<1>4. wire' \in [Player -> [Player -> Seq(CommandPackets)]]
  <2>0. wire \in [Player -> [Player -> Seq(CommandPackets)]]
    BY DEF TypeOK
  <2>1. wire \in [Player -> [Player -> Seq(CommandPackets)]] /\ wire[q][p] \in Seq(CommandPackets)
    BY <2>0
  <2>2. Tail(wire[q][p]) \in Seq(CommandPackets)
    BY <1>1, <2>1
  <2>3. [wire[q] EXCEPT ![p] = Tail(wire[q][p])] \in [Player -> Seq(CommandPackets)]
    BY <2>1, <2>2
  <2> QED BY <1>1, <2>1, <2>3
<1>5. theirRecv' \in [Player -> [Player -> Nat]]
  <2>0. theirRecv \in [Player -> [Player -> Nat]]
    BY DEF TypeOK
  <2>1. theirRecv \in [Player -> [Player -> Nat]] /\ CountSpace \in Nat \ {0} /\ Len(m.evs) \in Nat
    <3>1. m.evs \in Seq(Events)
      BY <1>1
    <3>2. Len(m.evs) \in Nat
      BY <3>1
    <3> QED BY <2>0, <3>2, Bounds
  <2>2. (theirRecv[p][q] + Len(m.evs)) % CountSpace \in Nat
    <3>1. theirRecv[p][q] + Len(m.evs) \in Nat
      BY <2>1
    <3> QED BY <2>1, <3>1
  <2>3. [theirRecv[p] EXCEPT ![q] = (theirRecv[p][q] + Len(m.evs)) % CountSpace] \in [Player -> Nat]
    BY <2>1, <2>2
  <2> QED BY <1>1, <2>1, <2>3
<1>6. pc' \in [Player -> Places]
  BY <1>1 DEF TypeOK, Places
<1> QED BY <1>1, <1>2, <1>3, <1>4, <1>5, <1>6 DEF TypeOK

LEMMA TypeAdvance ==
  ASSUME TypeOK, NEW p \in Player, Advance(p)
  PROVE  TypeOK'
<1> DEFINE moved == [n \in 1 .. Len(doList[p]) |-> Reschedule(doList[p][n], window[p])]
<1>1. doList[p] \in Seq(Entries) /\ window[p] \in Nat \X Nat /\ Len(doList[p]) <= DoListMax
      /\ DOMAIN doList[p] = 1 .. Len(doList[p]) /\ Len(doList[p]) \in Nat
  BY DEF TypeOK
<1>2. ASSUME NEW n \in 1 .. Len(doList[p])
      PROVE  Reschedule(doList[p][n], window[p]) \in Entries
  <2>1. doList[p][n] \in Entries /\ window[p][2] \in Nat
    BY <1>1
  <2> QED BY <2>1 DEF Reschedule, Entries
<1>3. moved \in Seq(Entries) /\ Len(moved) = Len(doList[p])
  BY <1>1, <1>2
<1>4. doList' = [doList EXCEPT ![p] = moved]
  BY <1>1 DEF Advance
<1> HIDE DEF moved
<1>5. /\ doList' \in [Player -> Seq(Entries)]
      /\ \A r \in Player : Len(doList'[r]) <= DoListMax
  BY <1>1, <1>3, <1>4 DEF TypeOK
<1>6. pc' \in [Player -> Places] /\ cursor' \in [Player -> Nat \X Nat]
  BY DEF Advance, TypeOK, Places
<1> QED BY <1>5, <1>6 DEF Advance, TypeOK, timing, roster, heard, net, budget, past

LEMMA TypeEffect ==
  ASSUME TypeOK, NEW p \in Player, NEW e \in Entries, Effect(p, e)
  PROVE  /\ window' \in [Player -> Nat \X Nat] /\ ahead' \in [Player -> NewAheads \cup {InitAhead}]
         /\ active' \in [Player -> BOOLEAN]
         /\ ids' \in [Player -> Seq(Player)] /\ conns' \in [Player -> SUBSET Player]
<1>1. e.ev \in Events /\ e.owner \in Player
  BY DEF Entries
<1>2. CASE e.ev.kind = "TIMING"
  <2>1. e.ev.val \in NewAheads /\ e.ev.val \in Nat
    BY <1>1, <1>2, Aheads DEF Events
  <2>2. frame[p] \in Nat /\ frame[p] + e.ev.val \in Nat
    BY <2>1, AheadType
  <2>3. ahead' = [ahead EXCEPT ![p] = e.ev.val]
    BY <1>2 DEF Effect
  <2>4. window' = [window EXCEPT ![p] = <<frame[p], frame[p] + e.ev.val>>] \/ window' = window
    BY <1>2 DEF Effect
  <2>5. window' \in [Player -> Nat \X Nat] /\ ahead' \in [Player -> NewAheads \cup {InitAhead}]
    <3>1. window \in [Player -> Nat \X Nat] /\ ahead \in [Player -> NewAheads \cup {InitAhead}]
      BY DEF TypeOK
    <3>2. ahead' \in [Player -> NewAheads \cup {InitAhead}]
      BY <2>1, <2>3, <3>1
    <3>3. <<frame[p], frame[p] + e.ev.val>> \in Nat \X Nat
      BY <2>2
    <3>4. window' \in [Player -> Nat \X Nat]
      BY <2>4, <3>1, <3>3
    <3> QED BY <3>2, <3>4
  <2>6. UNCHANGED roster
    BY <1>2 DEF Effect
  <2> QED BY <2>5, <2>6 DEF Effect, TypeOK, roster
<1>3. CASE e.ev.kind # "TIMING"
  <2>1. UNCHANGED timing
    BY <1>3 DEF Effect
  <2>2. UNCHANGED roster \/ Destroy(p, e.owner)
    BY DEF Effect
  <2>3. ids' \in [Player -> Seq(Player)] /\ conns' \in [Player -> SUBSET Player]
    BY <1>1, <2>2, DestroyType DEF TypeOK, roster
  <2> QED BY <2>1, <2>3 DEF Effect, TypeOK, timing
<1> QED BY <1>2, <1>3

LEMMA TodoFacts ==
  ASSUME TypeOK, NEW p \in Player, NEW c \in Todo(p)
  PROVE  /\ c \in Nat \X Nat /\ c[1] \in 1 .. Len(ids[p]) /\ c[2] \in 1 .. Len(doList[p])
         /\ doList[p][c[2]] \in Entries
<1>1. c \in (DOMAIN ids[p]) \X (DOMAIN doList[p])
  BY DEF Todo
<1>2. ids[p] \in Seq(Player) /\ doList[p] \in Seq(Entries)
  BY DEF TypeOK
<1>3. c \in (1 .. Len(ids[p])) \X (1 .. Len(doList[p]))
  BY <1>1, <1>2
<1> QED BY <1>2, <1>3

(* What ExecuteEvent changes, for the entry it has come to. *)
LEMMA ExecuteFacts ==
  ASSUME TypeOK, NEW p \in Player, ExecuteEvent(p)
  PROVE  /\ pc[p] = "exec"
         /\ \E c \in Todo(p) :
              /\ \A d \in Todo(p) : Earlier(c, d)
              /\ cursor' = [cursor EXCEPT ![p] = c]
              /\ \/ /\ frame[p] > doList[p][c[2]].due
                    /\ pc' = [pc EXCEPT ![p] = "late"]
                    /\ UNCHANGED <<ahead, window, active, ids, conns, doList, log>>
                 \/ /\ ~ frame[p] > doList[p][c[2]].due
                    /\ Effect(p, doList[p][c[2]])
                    /\ doList' = [doList EXCEPT ![p] =
                         [doList[p] EXCEPT ![c[2]] = [doList[p][c[2]] EXCEPT !.done = TRUE]]]
                    /\ log' = [log EXCEPT ![p] = Append(log[p],
                         [at |-> frame[p], owner |-> doList[p][c[2]].owner, ev |-> doList[p][c[2]].ev])]
                    /\ UNCHANGED pc
         /\ UNCHANGED <<frame, theirFrame, theirSent, theirRecv, mySent, outList, info, wire,
                        issued, timings, sent>>
  BY DEF ExecuteEvent, timing, roster, heard, net, budget

LEMMA TypeExecute ==
  ASSUME TypeOK, NEW p \in Player, ExecuteEvent(p)
  PROVE  TypeOK'
<1>1. PICK c \in Todo(p) :
              /\ cursor' = [cursor EXCEPT ![p] = c]
              /\ \/ /\ frame[p] > doList[p][c[2]].due
                    /\ pc' = [pc EXCEPT ![p] = "late"]
                    /\ UNCHANGED <<ahead, window, active, ids, conns, doList, log>>
                 \/ /\ Effect(p, doList[p][c[2]])
                    /\ doList' = [doList EXCEPT ![p] =
                         [doList[p] EXCEPT ![c[2]] = [doList[p][c[2]] EXCEPT !.done = TRUE]]]
                    /\ log' = [log EXCEPT ![p] = Append(log[p],
                         [at |-> frame[p], owner |-> doList[p][c[2]].owner, ev |-> doList[p][c[2]].ev])]
                    /\ UNCHANGED pc
  BY ExecuteFacts
<1>2. UNCHANGED <<frame, theirFrame, theirSent, theirRecv, mySent, outList, info, wire,
                  issued, timings, sent>>
  BY ExecuteFacts
<1>3. c \in Nat \X Nat /\ c[2] \in 1 .. Len(doList[p]) /\ doList[p][c[2]] \in Entries
  BY TodoFacts
<1>4. cursor' \in [Player -> Nat \X Nat]
  BY <1>1, <1>3 DEF TypeOK
<1>5. CASE UNCHANGED <<ahead, window, active, ids, conns, doList, log>> 
           /\ pc' = [pc EXCEPT ![p] = "late"]
  BY <1>2, <1>4, <1>5 DEF TypeOK, Places
<1>6. CASE /\ Effect(p, doList[p][c[2]])
           /\ doList' = [doList EXCEPT ![p] =
                [doList[p] EXCEPT ![c[2]] = [doList[p][c[2]] EXCEPT !.done = TRUE]]]
           /\ log' = [log EXCEPT ![p] = Append(log[p],
                [at |-> frame[p], owner |-> doList[p][c[2]].owner, ev |-> doList[p][c[2]].ev])]
           /\ UNCHANGED pc
  <2> DEFINE e == doList[p][c[2]]
             done == [e EXCEPT !.done = TRUE]
             rec == [at |-> frame[p], owner |-> e.owner, ev |-> e.ev]
  <2>1. /\ window' \in [Player -> Nat \X Nat] /\ ahead' \in [Player -> NewAheads \cup {InitAhead}]
        /\ active' \in [Player -> BOOLEAN]
        /\ ids' \in [Player -> Seq(Player)] /\ conns' \in [Player -> SUBSET Player]
    BY <1>3, <1>6, TypeEffect
  <2>2. done \in Entries /\ rec \in Records
    BY <1>3 DEF Entries, Records, TypeOK
  <2> HIDE DEF e, done, rec
  <2>3. [doList[p] EXCEPT ![c[2]] = done] \in Seq(Entries) 
        /\ Len([doList[p] EXCEPT ![c[2]] = done]) = Len(doList[p])
    BY <1>3, <2>2, ExceptSeq DEF TypeOK
  <2>4. doList' = [doList EXCEPT ![p] = [doList[p] EXCEPT ![c[2]] = done]]
    BY <1>6 DEF e, done
  <2>5. /\ doList' \in [Player -> Seq(Entries)]
        /\ \A r \in Player : Len(doList'[r]) <= DoListMax
    BY <2>3, <2>4 DEF TypeOK
  <2>6. log' = [log EXCEPT ![p] = Append(log[p], rec)]
    BY <1>6 DEF e, rec
  <2>7. log' \in [Player -> Seq(Records)]
    <3>1. log \in [Player -> Seq(Records)]
      BY DEF TypeOK, Records
    <3>2. Append(log[p], rec) \in Seq(Records)
      BY <2>2, <3>1, AppendProperties
    <3> QED BY <2>6, <3>1, <3>2
  <2> QED BY <1>2, <1>4, <1>6, <2>1, <2>5, <2>7 DEF TypeOK, Records
<1> QED BY <1>1, <1>5, <1>6

(* Clean_DoList cuts the DoList at the first entry that is neither executed   *)
(* nor past.                                                                  *)
LEMMA CleanedFacts ==
  ASSUME TypeOK, NEW p \in Player
  PROVE  \E n \in Nat :
           /\ n <= Len(doList[p])
           /\ \A i \in 1 .. n : i \notin Kept(p)
           /\ Cleaned(p) \in Seq(Entries) /\ Len(Cleaned(p)) = Len(doList[p]) - n
           /\ \A i \in 1 .. Len(doList[p]) - n : Cleaned(p)[i] = doList[p][n + i]
<1> DEFINE len == Len(doList[p])
           from == Least(Kept(p) \cup {len + 1})
<1>1. doList[p] \in Seq(Entries) /\ len \in Nat /\ DOMAIN doList[p] = 1 .. len
  BY DEF TypeOK
<1>2. Kept(p) \subseteq 1 .. len
  BY <1>1 DEF Kept
<1>3. Kept(p) \cup {len + 1} \subseteq Nat /\ Kept(p) \cup {len + 1} # {}
  BY <1>1, <1>2
<1>4. from \in Kept(p) \cup {len + 1} /\ \A m \in Kept(p) \cup {len + 1} : from <= m
  BY <1>3, LeastIs
<1> HIDE DEF from, len
<1>5. from - 1 \in Nat /\ from - 1 <= len /\ (from - 1) + 1 = from
  BY <1>1, <1>2, <1>4
<1>6. \A i \in 1 .. from - 1 : i \notin Kept(p)
  BY <1>4, <1>5
<1>7. Cleaned(p) = SubSeq(doList[p], (from - 1) + 1, Len(doList[p]))
  BY <1>5 DEF Cleaned, from, len
<1>8. /\ Cleaned(p) \in Seq(Entries)
      /\ Len(Cleaned(p)) = Len(doList[p]) - (from - 1)
      /\ \A i \in 1 .. Len(doList[p]) - (from - 1) : Cleaned(p)[i] = doList[p][(from - 1) + i]
  BY <1>1, <1>5, <1>7, RestFacts DEF len
<1> QED BY <1>5, <1>6, <1>8 DEF len

LEMMA TypeEndFrame ==
  ASSUME TypeOK, NEW p \in Player, EndFrame(p)
  PROVE  TypeOK'
<1>1. PICK n \in Nat : /\ n <= Len(doList[p])
                       /\ Cleaned(p) \in Seq(Entries) /\ Len(Cleaned(p)) = Len(doList[p]) - n
  BY CleanedFacts
<1>2. doList' = [doList EXCEPT ![p] = Cleaned(p)]
  BY DEF EndFrame
<1>3. Len(doList[p]) \in Nat /\ Len(doList[p]) <= DoListMax /\ DoListMax \in Nat
  BY Bounds DEF TypeOK
<1>4. /\ doList' \in [Player -> Seq(Entries)]
      /\ \A r \in Player : Len(doList'[r]) <= DoListMax
  <2>1. doList \in [Player -> Seq(Entries)] /\ \A r \in Player : Len(doList[r]) <= DoListMax
    BY DEF TypeOK
  <2>2. Len(Cleaned(p)) <= DoListMax
    BY <1>1, <1>3
  <2> QED BY <1>1, <1>2, <2>1, <2>2
<1>5. pc' \in [Player -> Places] /\ frame' \in [Player -> Nat]
  <2>1. pc \in [Player -> Places] /\ frame \in [Player -> Nat]
    BY DEF TypeOK
  <2>2. /\ pc' = [pc EXCEPT ![p] = IF active[p] THEN "play" ELSE "left"]
        /\ frame' = [frame EXCEPT ![p] = frame[p] + 1]
    BY DEF EndFrame
  <2>3. "play" \in Places /\ "left" \in Places
    BY DEF Places
  <2> QED BY <2>1, <2>2, <2>3
<1> QED BY <1>4, <1>5 DEF EndFrame, TypeOK, timing, roster, heard, net, budget, past

(* The steps there are: what a proof about Next goes through. *)
LEMMA NextCases ==
  ASSUME Next
  PROVE  \E p \in Player :
           \/ Quiet /\ \/ Command(p) \/ Exit(p)
                       \/ \E a \in NewAheads : Timing(p, a)
                       \/ \E load \in Loads : Send(p, load)
                       \/ Resync(p)
                       \/ \E m \in info : HearInfo(p, m)
                       \/ \E q \in Player : HearCommands(p, q)
                       \/ \E q \in Player : HandleTimeout(p, q)
                       \/ Begin(p) \/ GiveUp(p) \/ Advance(p)
           \/ ExecuteEvent(p) \/ EndFrame(p)
  BY DEF Next, Talk

LEMMA InfoFacts ==
  ASSUME TypeOK, NEW m \in info
  PROVE  m.from \in Player /\ m.to \in Player /\ m.frame \in Nat /\ m.count \in Nat
  BY DEF TypeOK

LEMMA TypeNext == TypeOK /\ [Next]_vars => TypeOK'
<1> SUFFICES ASSUME TypeOK, [Next]_vars PROVE TypeOK'
  OBVIOUS
<1>1. CASE UNCHANGED vars
  BY <1>1 DEF TypeOK, vars, timing, roster, heard, net, budget, past
<1>2. ASSUME NEW p \in Player, Command(p) PROVE TypeOK'
  <2>1. \A n \in Nat : [kind |-> "COMMAND", no |-> n, val |-> 0] \in Events
    BY DEF Events
  <2> QED BY <1>2, <2>1, TypeQueue DEF Command, TypeOK
<1>3. ASSUME NEW p \in Player, Exit(p) PROVE TypeOK'
  <2>1. \A n \in Nat : [kind |-> "EXIT", no |-> n, val |-> 0] \in Events
    BY DEF Events
  <2> QED BY <1>3, <2>1, TypeQueue DEF Exit, TypeOK
<1>4. ASSUME NEW p \in Player, NEW a \in NewAheads, Timing(p, a) PROVE TypeOK'
  <2>1. \A n \in Nat : [kind |-> "TIMING", no |-> n, val |-> a] \in Events
    BY DEF Events
  <2>2. timings' \in Nat
    BY <1>4 DEF Timing, TypeOK
  <2> QED BY <1>4, <2>1, <2>2, TypeQueue DEF Timing
<1>5. ASSUME NEW p \in Player, Resync(p) PROVE TypeOK'
  <2>1. frame[p] \in Nat
    BY AheadType
  <2>2. info' \subseteq [from : Player, to : Player, frame : Nat, count : Nat]
    BY <1>5, <2>1, BroadcastType DEF Resync
  <2> QED BY <1>5, <2>2 DEF Resync, TypeOK, timing, roster, heard, budget, past
<1>6. ASSUME NEW p \in Player, NEW m \in info, HearInfo(p, m) PROVE TypeOK'
  <2>1. m.from \in Player /\ m.frame \in Nat /\ m.count \in Nat
    BY InfoFacts
  <2>2. /\ theirFrame' \in [Player -> [Player -> Nat \cup {-1}]]
        /\ theirSent' \in [Player -> [Player -> Nat]]
    BY <1>6, <2>1, TypeHeed DEF HearInfo
  <2> QED BY <1>6, <2>2 DEF HearInfo, TypeOK, timing, roster, net, budget, past
<1>7. ASSUME NEW p \in Player, NEW q \in Player, HandleTimeout(p, q) PROVE TypeOK'
  <2>1. ids' \in [Player -> Seq(Player)] /\ conns' \in [Player -> SUBSET Player]
    BY <1>7, DestroyType DEF HandleTimeout
  <2> QED BY <1>7, <2>1 DEF HandleTimeout, TypeOK, timing, heard, net, budget, past
<1>8. ASSUME NEW p \in Player, Begin(p) PROVE TypeOK'
  <2>1. info' \subseteq [from : Player, to : Player, frame : Nat, count : Nat]
    BY <1>8, BroadcastType DEF Begin
  <2>2. theirFrame' \in [Player -> [Player -> Nat \cup {-1}]]
    BY <1>8 DEF Begin, TypeOK
  <2>3. frame' \in [Player -> Nat] /\ pc' \in [Player -> Places]
    BY <1>8 DEF Begin, TypeOK, Places
  <2> QED BY <1>8, <2>1, <2>2, <2>3 DEF Begin, TypeOK, timing, roster, budget, past
<1>9. ASSUME NEW p \in Player, GiveUp(p) PROVE TypeOK'
  <2>1. pc' \in [Player -> Places]
    BY <1>9 DEF GiveUp, TypeOK, Places
  <2> QED BY <1>9, <2>1 DEF GiveUp, TypeOK, timing, roster, heard, net, budget, past
<1> QED BY <1>1, <1>2, <1>3, <1>4, <1>5, <1>6, <1>7, <1>8, <1>9, NextCases,
           TypeSend, TypeHear, TypeAdvance, TypeExecute, TypeEndFrame

(* Type correctness, for every number of players and every setting.           *)
THEOREM TypeCorrect == Safety => []TypeOK
<1>1. Init => TypeOK
  BY TypeInit
<1>2. TypeOK /\ [Next]_vars => TypeOK'
  BY TypeNext
<1> QED BY <1>1, <1>2, PTL DEF Safety

------------------------------------------------------------------------------
(* SkewBounded *)

(* Destroy_Connection takes one player out of MultiplayerID and leaves the    *)
(* others.                                                                    *)
LEMMA OthersFacts ==
  ASSUME TypeOK, RosterOK, NEW p \in Player, NEW q \in conns[p]
  PROVE  /\ \A i, j \in DOMAIN Others(p, q) : Others(p, q)[i] = Others(p, q)[j] => i = j
         /\ {Others(p, q)[i] : i \in DOMAIN Others(p, q)} = (conns[p] \ {q}) \cup {p}
<1> DEFINE len == Len(ids[p])
           k == CHOOSE n \in DOMAIN ids[p] : ids[p][n] = q
           o == [n \in 1 .. len - 1 |-> ids[p][IF n < k THEN n ELSE n + 1]]
<1>0. ids[p] \in Seq(Player)
  BY DEF TypeOK
<1>1. ids[p] \in Seq(Player) /\ len \in Nat /\ DOMAIN ids[p] = 1 .. len /\ q # p
  BY <1>0 DEF RosterOK
<1>2. {ids[p][i] : i \in DOMAIN ids[p]} = conns[p] \cup {p} /\
      \A i, j \in DOMAIN ids[p] : ids[p][i] = ids[p][j] => i = j
  BY DEF RosterOK
<1>3. k \in 1 .. len /\ ids[p][k] = q
  <2>1. \E n \in DOMAIN ids[p] : ids[p][n] = q
    BY <1>2
  <2> QED BY <1>1, <2>1
<1>4. Others(p, q) = o /\ DOMAIN o = 1 .. len - 1
  BY DEF Others
<1> HIDE DEF len, k
<1>5. ASSUME NEW n \in 1 .. len - 1
      PROVE  /\ (IF n < k THEN n ELSE n + 1) \in 1 .. len
             /\ (IF n < k THEN n ELSE n + 1) # k
             /\ o[n] = ids[p][IF n < k THEN n ELSE n + 1]
  BY <1>1, <1>3
<1>6. \A i, j \in 1 .. len - 1 : o[i] = o[j] => i = j
  <2> SUFFICES ASSUME NEW i \in 1 .. len - 1, NEW j \in 1 .. len - 1, o[i] = o[j] PROVE i = j
    OBVIOUS
  <2>1. (IF i < k THEN i ELSE i + 1) = (IF j < k THEN j ELSE j + 1)
    BY <1>1, <1>2, <1>5
  <2> QED BY <1>1, <1>3, <2>1
<1>7. ASSUME NEW i \in 1 .. len - 1 PROVE o[i] \in (conns[p] \ {q}) \cup {p}
  <2>1. o[i] \in conns[p] \cup {p}
    BY <1>1, <1>2, <1>5
  <2>2. o[i] # q
    BY <1>1, <1>2, <1>3, <1>5
  <2> QED BY <2>1, <2>2
<1>8. ASSUME NEW r \in (conns[p] \ {q}) \cup {p} PROVE \E i \in 1 .. len - 1 : o[i] = r
  <2>1. PICK n \in 1 .. len : ids[p][n] = r
    BY <1>1, <1>2
  <2>2. n # k
    BY <1>1, <1>3, <2>1
  <2>3. CASE n < k
    <3>1. n \in 1 .. len - 1
      BY <1>1, <1>3, <2>3
    <3> QED BY <1>5, <2>1, <2>3, <3>1
  <2>4. CASE n > k
    <3>1. n - 1 \in 1 .. len - 1 /\ ~ (n - 1 < k) /\ (n - 1) + 1 = n
      BY <1>1, <1>3, <2>4
    <3> QED BY <1>5, <2>1, <3>1
  <2> QED BY <1>1, <1>3, <2>2, <2>3, <2>4
<1> HIDE DEF o
<1> QED BY <1>4, <1>6, <1>7, <1>8

LEMMA RosterDestroy ==
  ASSUME TypeOK, RosterOK, NEW p \in Player, NEW q \in conns[p], Destroy(p, q)
  PROVE  RosterOK'
<1>1. ids' = [ids EXCEPT ![p] = Others(p, q)] /\ conns' = [conns EXCEPT ![p] = conns[p] \ {q}]
  BY DEF Destroy
<1>2. ids \in [Player -> Seq(Player)] /\ conns \in [Player -> SUBSET Player]
  BY DEF TypeOK
<1>3. /\ \A i, j \in DOMAIN Others(p, q) : Others(p, q)[i] = Others(p, q)[j] => i = j
      /\ {Others(p, q)[i] : i \in DOMAIN Others(p, q)} = (conns[p] \ {q}) \cup {p}
  BY OthersFacts
<1>4. ASSUME NEW r \in Player
      PROVE  /\ \A i, j \in DOMAIN ids'[r] : ids'[r][i] = ids'[r][j] => i = j
             /\ {ids'[r][i] : i \in DOMAIN ids'[r]} = conns'[r] \cup {r}
             /\ r \notin conns'[r]
  <2>1. CASE r = p
    <3>1. ids'[r] = Others(p, q) /\ conns'[r] = conns[p] \ {q} /\ p \notin conns[p]
      BY <1>1, <1>2, <2>1 DEF RosterOK
    <3> QED BY <1>3, <2>1, <3>1
  <2>2. CASE r # p
    <3>1. ids'[r] = ids[r] /\ conns'[r] = conns[r]
      BY <1>1, <1>2, <2>2
    <3> QED BY <3>1 DEF RosterOK
  <2> QED BY <2>1, <2>2
<1> QED BY <1>4 DEF RosterOK

LEMMA EffectRoster ==
  ASSUME TypeOK, NEW p \in Player, NEW e, Effect(p, e)
  PROVE  UNCHANGED <<ids, conns>> \/ (e.owner \in conns[p] /\ Destroy(p, e.owner))
  BY DEF Effect, roster

LEMMA RosterNext ==
  ASSUME TypeOK, RosterOK, [Next]_vars
  PROVE  RosterOK'
<1>1. CASE UNCHANGED <<ids, conns>>
  BY <1>1 DEF RosterOK
<1>2. ASSUME NEW p \in Player, NEW q \in Player, HandleTimeout(p, q) PROVE RosterOK'
  BY <1>2, RosterDestroy DEF HandleTimeout
<1>3. ASSUME NEW p \in Player, ExecuteEvent(p) PROVE RosterOK'
  <2>1. PICK c \in Todo(p) : UNCHANGED <<ids, conns>> \/ Effect(p, doList[p][c[2]])
    BY <1>3, ExecuteFacts
  <2>2. UNCHANGED <<ids, conns>> \/ \E q \in conns[p] : Destroy(p, q)
    BY <2>1, EffectRoster
  <2> QED BY <1>1, <2>2, RosterDestroy
<1>4. ASSUME NEW p \in Player, Command(p) \/ Exit(p) \/ Resync(p) \/ Begin(p) \/ GiveUp(p) 
               \/ Advance(p) \/ EndFrame(p)
      PROVE UNCHANGED <<ids, conns>>
  BY <1>4 DEF Command, Exit, Queue, Resync, Begin, GiveUp, Advance, EndFrame, roster
<1>5. ASSUME NEW p \in Player, NEW a \in NewAheads, Timing(p, a) PROVE UNCHANGED <<ids, conns>>
  BY <1>5 DEF Timing, Queue, roster
<1>6. ASSUME NEW p \in Player, NEW load \in Loads, Send(p, load) PROVE UNCHANGED <<ids, conns>>
  BY <1>6 DEF Send, roster
<1>7. ASSUME NEW p \in Player, NEW m \in info, HearInfo(p, m) PROVE UNCHANGED <<ids, conns>>
  BY <1>7 DEF HearInfo, roster
<1>8. ASSUME NEW p \in Player, NEW q \in Player, HearCommands(p, q) PROVE UNCHANGED <<ids, conns>>
  BY <1>8 DEF HearCommands, roster
<1>9. UNCHANGED vars => UNCHANGED <<ids, conns>>
  BY DEF vars, roster
<1> QED BY <1>1, <1>2, <1>3, <1>4, <1>5, <1>6, <1>7, <1>8, <1>9, NextCases

(* Frames only go up. *)
FramesRise == \A p \in Player : frame'[p] >= frame[p]

LEMMA FrameNext ==
  ASSUME TypeOK, HeardOK, [Next]_vars
  PROVE  FramesRise
<1>0. \A p \in Player : frame[p] \in Nat
  BY AheadType
<1>1. CASE UNCHANGED frame
  BY <1>0, <1>1 DEF FramesRise
<1>2. ASSUME NEW p \in Player, Begin(p) PROVE FramesRise
  <2>1. frame' = [frame EXCEPT ![p] = 1] /\ frame[p] = 0 /\ frame \in [Player -> Nat]
    BY <1>2 DEF Begin, HeardOK, TypeOK
  <2> QED BY <1>0, <2>1 DEF FramesRise
<1>3. ASSUME NEW p \in Player, EndFrame(p) PROVE FramesRise
  <2>1. frame' = [frame EXCEPT ![p] = frame[p] + 1] /\ frame \in [Player -> Nat]
    BY <1>3 DEF EndFrame, TypeOK
  <2> QED BY <1>0, <2>1 DEF FramesRise
<1>4. ASSUME NEW p \in Player, Command(p) \/ Exit(p) \/ Resync(p) \/ GiveUp(p) \/ Advance(p) 
      PROVE UNCHANGED frame
  BY <1>4 DEF Command, Exit, Queue, Resync, GiveUp, Advance
<1>5. ASSUME NEW p \in Player, NEW a \in NewAheads, Timing(p, a) PROVE UNCHANGED frame
  BY <1>5 DEF Timing, Queue
<1>6. ASSUME NEW p \in Player, NEW load \in Loads, Send(p, load) PROVE UNCHANGED frame
  BY <1>6 DEF Send
<1>7. ASSUME NEW p \in Player, NEW m \in info, HearInfo(p, m) PROVE UNCHANGED frame
  BY <1>7 DEF HearInfo
<1>8. ASSUME NEW p \in Player, NEW q \in Player, HearCommands(p, q) \/ HandleTimeout(p, q)
      PROVE UNCHANGED frame
  BY <1>8 DEF HearCommands, HandleTimeout
<1>9. ASSUME NEW p \in Player, ExecuteEvent(p) PROVE UNCHANGED frame
  BY <1>9 DEF ExecuteEvent
<1>10. UNCHANGED vars => UNCHANGED frame
  BY DEF vars
<1> QED BY <1>1, <1>2, <1>3, <1>4, <1>5, <1>6, <1>7, <1>8, <1>9, <1>10, NextCases

(* What the smaller steps change.  An event is put into OutList: *)
Queued(p, e) ==
  /\ pc[p] = "play"
  /\ outList' = [outList EXCEPT ![p] = Append(outList[p], e)]
  /\ e.no = issued[p] + 1 /\ e.kind \in {"COMMAND", "EXIT", "TIMING"}
  /\ issued' = [issued EXCEPT ![p] = issued[p] + 1]
  /\ UNCHANGED <<pc, frame, ahead, window, ids, conns, theirFrame, theirSent, theirRecv,
                 mySent, doList, cursor, active, info, wire, sent, log>>
  /\ e.kind # "TIMING" => UNCHANGED timings
  /\ e.kind = "TIMING" => ids[p][1] = p /\ timings < Timings /\ timings' = timings + 1
  /\ e.kind = "EXIT" => p \in Leavers

LEMMA QueueFacts ==
  ASSUME NEW p \in Player, Command(p) \/ Exit(p) \/ \E a \in NewAheads : Timing(p, a)
  PROVE  \E e : Queued(p, e)
<1>1. CASE Command(p)
  <2> DEFINE e == [kind |-> "COMMAND", no |-> issued[p] + 1, val |-> 0]
  <2>1. Queued(p, e)
    BY <1>1 DEF Command, Queue, Queued, timing, roster, heard, net, past
  <2> QED BY <2>1
<1>2. CASE Exit(p)
  <2> DEFINE e == [kind |-> "EXIT", no |-> issued[p] + 1, val |-> 0]
  <2>1. Queued(p, e)
    BY <1>2 DEF Exit, Queue, Queued, timing, roster, heard, net, past
  <2> QED BY <2>1
<1>3. ASSUME NEW a \in NewAheads, Timing(p, a)
      PROVE  \E e : Queued(p, e)
  <2> DEFINE e == [kind |-> "TIMING", no |-> issued[p] + 1, val |-> a]
  <2>1. Queued(p, e)
    BY <1>3 DEF Timing, Queue, Queued, timing, roster, heard, net, past
  <2> QED BY <2>1
<1> QED BY <1>1, <1>2, <1>3

LEMMA ResyncFacts ==
  ASSUME NEW p \in Player, Resync(p)
  PROVE  /\ Waiting(p) /\ info' = Broadcast(p, frame[p])
         /\ UNCHANGED <<pc, frame, ahead, window, ids, conns, theirFrame, theirSent, theirRecv,
                        mySent, outList, doList, cursor, active, wire, issued, timings, sent, log>>
  BY DEF Resync, timing, roster, heard, budget, past

LEMMA HearInfoFacts ==
  ASSUME NEW p \in Player, NEW m \in info, HearInfo(p, m)
  PROVE  /\ Waiting(p) /\ m.to = p /\ m.from \in conns[p]
         /\ Heed(p, m.from, m.frame, m.count)
         /\ UNCHANGED <<pc, frame, ahead, window, ids, conns, theirRecv, mySent, outList, doList,
                        cursor, active, info, wire, issued, timings, sent, log>>
  BY DEF HearInfo, timing, roster, net, budget, past

LEMMA BeginFacts ==
  ASSUME NEW p \in Player, Begin(p)
  PROVE  /\ pc[p] = "sync"
         /\ theirFrame' = [theirFrame EXCEPT ![p] = [q \in Player |-> 0]]
         /\ info' = Broadcast(p, 0)
         /\ frame' = [frame EXCEPT ![p] = 1]
         /\ pc' = [pc EXCEPT ![p] = "play"]
         /\ UNCHANGED <<ahead, window, ids, conns, theirSent, theirRecv, mySent, outList, doList,
                        cursor, active, wire, issued, timings, sent, log>>
  BY DEF Begin, timing, roster, budget, past

LEMMA GiveUpFacts ==
  ASSUME NEW p \in Player, GiveUp(p)
  PROVE  /\ pc[p] = "sync" /\ pc' = [pc EXCEPT ![p] = "stopped"] /\ Impatient
         /\ UNCHANGED <<frame, ahead, window, ids, conns, theirFrame, theirSent, theirRecv,
                        mySent, outList, doList, cursor, active, info, wire, issued, timings,
                        sent, log>>
  BY DEF GiveUp, timing, roster, heard, net, budget, past

LEMMA TimeoutFacts ==
  ASSUME NEW p \in Player, NEW q \in Player, HandleTimeout(p, q)
  PROVE  /\ pc[p] = "wait" /\ q \in conns[p] /\ Impatient
         /\ conns' = [conns EXCEPT ![p] = conns[p] \ {q}]
         /\ UNCHANGED <<pc, frame, ahead, window, theirFrame, theirSent, theirRecv,
                        mySent, outList, doList, cursor, active, info, wire, issued, timings,
                        sent, log>>
  BY DEF HandleTimeout, Destroy, timing, heard, net, budget, past

LEMMA AdvanceFacts ==
  ASSUME TypeOK, NEW p \in Player, Advance(p)
  PROVE  /\ pc[p] = "wait" /\ CanAdvance(p) /\ pc' = [pc EXCEPT ![p] = "exec"]
         /\ cursor' = [cursor EXCEPT ![p] = <<1, 0>>]
         /\ doList' = [doList EXCEPT ![p] =
              [n \in 1 .. Len(doList[p]) |-> Reschedule(doList[p][n], window[p])]]
         /\ UNCHANGED <<frame, ahead, window, ids, conns, theirFrame, theirSent, theirRecv,
                        mySent, outList, active, info, wire, issued, timings, sent, log>>
<1>1. doList[p] \in Seq(Entries)
  BY DEF TypeOK
<1>2. DOMAIN doList[p] = 1 .. Len(doList[p])
  BY <1>1
<1> QED BY <1>2 DEF Advance, timing, roster, heard, net, budget, past

LEMMA EndFrameFacts ==
  ASSUME NEW p \in Player, EndFrame(p)
  PROVE  /\ pc[p] = "exec" /\ Todo(p) = {}
         /\ doList' = [doList EXCEPT ![p] = Cleaned(p)]
         /\ frame' = [frame EXCEPT ![p] = frame[p] + 1]
         /\ pc' = [pc EXCEPT ![p] = IF active[p] THEN "play" ELSE "left"]
         /\ UNCHANGED <<ahead, window, ids, conns, theirFrame, theirSent, theirRecv,
                        mySent, outList, cursor, active, info, wire, issued, timings, sent, log>>
  BY DEF EndFrame, timing, roster, heard, net, budget, past

(* Nothing is said of a frame that its sender has not reached. *)
LEMMA HeardHeed ==
  ASSUME TypeOK, HeardOK, NEW p \in Player, NEW q \in Player, NEW f \in Nat, NEW c \in Nat,
         Heed(p, q, f, c), f <= frame[q]
  PROVE  \A r, s \in Player : theirFrame'[r][s] <= frame[s]
<1> SUFFICES ASSUME NEW r \in Player, NEW s \in Player PROVE theirFrame'[r][s] <= frame[s]
  OBVIOUS
<1>1. theirFrame[r][s] <= frame[s]
  BY DEF HeardOK
<1>2. CASE <<r, s>> # <<p, q>>
  BY <1>1, <1>2, TypeHeed
<1>3. CASE <<r, s>> = <<p, q>>
  <2>1. theirFrame'[p][q] = IF theirFrame[p][q] < f THEN f ELSE theirFrame[p][q]
    BY TypeHeed
  <2>2. r = p /\ s = q
    BY <1>3
  <2> QED BY <1>1, <2>1, <2>2
<1> QED BY <1>2, <1>3

LEMMA HeardNext ==
  ASSUME TypeOK, HeardOK, [Next]_vars
  PROVE  HeardOK'
<1>t. /\ \A p \in Player : frame[p] \in Nat /\ frame'[p] \in Nat
      /\ \A p, q \in Player : theirFrame[p][q] \in Nat \cup {-1}
      /\ \A m \in info : m.from \in Player /\ m.frame \in Nat
      /\ \A p, q \in Player : wire[p][q] \in Seq(CommandPackets)
      /\ pc \in [Player -> Places] /\ frame \in [Player -> Nat]
      /\ wire \in [Player -> [Player -> Seq(CommandPackets)]]
  <2>1. frame \in [Player -> Nat]
    BY DEF TypeOK
  <2>2. frame' \in [Player -> Nat]
    BY TypeNext DEF TypeOK
  <2>3. theirFrame \in [Player -> [Player -> Nat \cup {-1}]]
    BY DEF TypeOK
  <2>4. wire \in [Player -> [Player -> Seq(CommandPackets)]]
    BY DEF TypeOK
  <2>5. pc \in [Player -> Places]
    BY DEF TypeOK
  <2> QED BY <2>1, <2>2, <2>3, <2>4, <2>5, InfoFacts
<1>r. \A p \in Player : frame'[p] >= frame[p]
  BY FrameNext DEF FramesRise
<1>h. /\ \A p, q \in Player : theirFrame[p][q] <= frame[q]
      /\ \A m \in info : m.frame <= frame[m.from]
      /\ \A p, q \in Player : \A k \in 1 .. Len(wire[p][q]) : wire[p][q][k].frame <= frame[p]
      /\ \A p \in Player : pc[p] = "sync" => frame[p] = 0
  BY DEF HeardOK
<1> DEFINE A == \A p, q \in Player : theirFrame'[p][q] <= frame'[q]
           B == \A m \in info' : m.frame <= frame'[m.from]
           C == \A p, q \in Player : \A k \in 1 .. Len(wire'[p][q]) : wire'[p][q][k].frame <= frame'[p]
           D == \A p \in Player : pc'[p] = "sync" => frame'[p] = 0
<1>a. A
  <2>1. CASE \A p, q \in Player : theirFrame'[p][q] <= frame[q]
    <3>1. theirFrame' \in [Player -> [Player -> Nat \cup {-1}]]
      BY TypeNext DEF TypeOK
    <3>2. \A p, q \in Player : theirFrame'[p][q] \in Nat \cup {-1}
      BY <3>1
    <3> SUFFICES ASSUME NEW p \in Player, NEW q \in Player PROVE theirFrame'[p][q] <= frame'[q]
      OBVIOUS
    <3>3. theirFrame'[p][q] <= frame[q] /\ theirFrame'[p][q] \in Int
      BY <2>1, <3>2
    <3>4. frame'[q] >= frame[q] /\ frame[q] \in Nat /\ frame'[q] \in Nat
      BY <1>t, <1>r
    <3> QED BY <3>3, <3>4
  <2>2. CASE UNCHANGED theirFrame
    BY <1>h, <2>1, <2>2
  <2>3. ASSUME NEW p \in Player, NEW m \in info, HearInfo(p, m) 
        PROVE \A r, s \in Player : theirFrame'[r][s] <= frame[s]
    BY <2>3, <1>h, HearInfoFacts, HeardHeed, InfoFacts
  <2>4. ASSUME NEW p \in Player, NEW q \in Player, HearCommands(p, q) 
        PROVE \A r, s \in Player : theirFrame'[r][s] <= frame[s]
    <3> DEFINE m == wire[q][p][1]
    <3>1. Heed(p, q, m.frame, m.count) /\ m.frame \in Nat /\ m.count \in Nat /\ Len(wire[q][p]) > 0
      BY <2>4, HearFacts
    <3>2. 1 \in 1 .. Len(wire[q][p])
      BY <1>t, <3>1
    <3>3. m.frame <= frame[q]
      BY <1>h, <3>2
    <3> QED BY <3>1, <3>3, HeardHeed
  <2>5. ASSUME NEW p \in Player, Begin(p)
        PROVE \A r, s \in Player : theirFrame'[r][s] <= frame[s]
    <3>1. theirFrame' = [theirFrame EXCEPT ![p] = [q \in Player |-> 0]]
      BY <2>5, BeginFacts
    <3>2. theirFrame \in [Player -> [Player -> Nat \cup {-1}]]
      BY DEF TypeOK
    <3> QED BY <1>t, <1>h, <3>1, <3>2
  <2>6. ASSUME NEW p \in Player, Command(p) \/ Exit(p) \/ \E a \in NewAheads : Timing(p, a)
        PROVE UNCHANGED theirFrame
    BY <2>6, QueueFacts DEF Queued
  <2>7. ASSUME NEW p \in Player, Resync(p) \/ GiveUp(p) \/ Advance(p) \/ EndFrame(p) \/ ExecuteEvent(p)
        PROVE UNCHANGED theirFrame
    BY <2>7, ResyncFacts, GiveUpFacts, AdvanceFacts, EndFrameFacts, ExecuteFacts
  <2>8. ASSUME NEW p \in Player, NEW q \in Player, HandleTimeout(p, q) PROVE UNCHANGED theirFrame
    BY <2>8, TimeoutFacts
  <2>9. ASSUME NEW p \in Player, NEW load \in Loads, Send(p, load) PROVE UNCHANGED theirFrame
    BY <2>9, SendFacts
  <2>10. UNCHANGED vars => UNCHANGED theirFrame
    BY DEF vars, heard
  <2> HIDE DEF A
  <2> QED BY <2>1, <2>2, <2>3, <2>4, <2>5, <2>6, <2>7, <2>8, <2>9, <2>10, NextCases
<1>b. B
  <2>1. CASE UNCHANGED info
    BY <1>t, <1>r, <1>h, <2>1
  <2>2. ASSUME NEW p \in Player, NEW f \in Nat, f <= frame[p], info' = Broadcast(p, f) PROVE B
    <3> SUFFICES ASSUME NEW m \in info' PROVE m.frame <= frame'[m.from]
      OBVIOUS
    <3>1. CASE m \in info
      BY <1>t, <1>r, <1>h, <3>1
    <3>2. CASE m \notin info
      <4>1. m.from = p /\ m.frame = f
        BY <2>2, <3>2 DEF Broadcast
      <4> QED BY <1>t, <1>r, <2>2, <4>1
    <3> QED BY <3>1, <3>2
  <2>3. ASSUME NEW p \in Player, Command(p) \/ Exit(p) \/ \E a \in NewAheads : Timing(p, a)
        PROVE UNCHANGED info
    BY <2>3, QueueFacts DEF Queued
  <2>4. ASSUME NEW p \in Player, Resync(p) PROVE B
    <3>1. info' = Broadcast(p, frame[p])
      BY <2>4, ResyncFacts
    <3>2. frame[p] \in Nat /\ frame[p] <= frame[p]
      BY <1>t
    <3> QED BY <2>2, <3>1, <3>2
  <2>5. ASSUME NEW p \in Player, Begin(p) PROVE B
    BY <1>t, <2>2, <2>5, BeginFacts
  <2>6. ASSUME NEW p \in Player, GiveUp(p) \/ Advance(p) \/ EndFrame(p) \/ ExecuteEvent(p)
        PROVE UNCHANGED info
    BY <2>6, GiveUpFacts, AdvanceFacts, EndFrameFacts, ExecuteFacts
  <2>7. ASSUME NEW p \in Player, NEW q \in Player, HandleTimeout(p, q) PROVE UNCHANGED info
    BY <2>7, TimeoutFacts
  <2>8. ASSUME NEW p \in Player, NEW q \in Player, HearCommands(p, q) PROVE UNCHANGED info
    BY <2>8, HearFacts
  <2>9. ASSUME NEW p \in Player, NEW m \in info, HearInfo(p, m) PROVE UNCHANGED info
    BY <2>9, HearInfoFacts
  <2>10. ASSUME NEW p \in Player, NEW load \in Loads, Send(p, load) PROVE B
    <3>1. UNCHANGED info \/ info' = Broadcast(p, frame[p])
      BY <2>10, SendFacts
    <3> QED BY <1>t, <2>1, <2>2, <3>1
  <2>11. UNCHANGED vars => UNCHANGED info
    BY DEF vars, net
  <2> HIDE DEF B
  <2> QED BY <2>1, <2>3, <2>4, <2>5, <2>6, <2>7, <2>8, <2>9, <2>10, <2>11, NextCases
<1>c. C
  <2>1. CASE UNCHANGED wire
    <3> SUFFICES ASSUME NEW p \in Player, NEW q \in Player, NEW k \in 1 .. Len(wire[p][q])
                 PROVE wire[p][q][k].frame <= frame'[p]
      BY <1>t, <2>1
    <3>1. wire[p][q][k] \in CommandPackets
      BY <1>t
    <3>2. wire[p][q][k].frame \in Nat
      BY <3>1 DEF CommandPackets
    <3> QED BY <1>t, <1>r, <1>h, <3>2
  <2>2. ASSUME NEW p \in Player, NEW q \in Player, HearCommands(p, q) PROVE C
    <3>1. /\ wire' = [wire EXCEPT ![q] = [wire[q] EXCEPT ![p] = Tail(wire[q][p])]]
          /\ Len(wire[q][p]) > 0 /\ UNCHANGED frame
      BY <2>2, HearFacts
    <3>2. /\ Tail(wire[q][p]) \in Seq(CommandPackets) /\ Len(Tail(wire[q][p])) = Len(wire[q][p]) - 1
          /\ \A k \in 1 .. Len(Tail(wire[q][p])) : Tail(wire[q][p])[k] = wire[q][p][k + 1]
      BY <1>t, <3>1, HeadTailProperties
    <3> SUFFICES ASSUME NEW r \in Player, NEW s \in Player, NEW k \in 1 .. Len(wire'[r][s])
                 PROVE wire'[r][s][k].frame <= frame[r]
      BY <3>1
    <3>3. CASE r = q /\ s = p
      <4>1. wire'[r][s] = Tail(wire[q][p])
        BY <1>t, <3>1, <3>3
      <4>2. k \in 1 .. Len(Tail(wire[q][p])) /\ k + 1 \in 1 .. Len(wire[q][p])
        <5>1. k \in 1 .. Len(wire[q][p]) - 1 /\ Len(wire[q][p]) \in Nat
          BY <1>t, <3>2, <4>1
        <5> QED BY <3>2, <5>1
      <4> QED BY <1>h, <3>2, <3>3, <4>1, <4>2
    <3>4. CASE ~ (r = q /\ s = p)
      <4>1. wire'[r][s] = wire[r][s]
        BY <1>t, <3>1, <3>4
      <4> QED BY <1>t, <1>h, <4>1
    <3> QED BY <3>3, <3>4
  <2>3. ASSUME NEW p \in Player, NEW load \in Loads, Send(p, load) PROVE C
    <3> DEFINE n == Leaving(p, load)
    <3>1. /\ wire' = [wire EXCEPT ![p] = [q \in Player |->
               IF q \in conns[p] THEN wire[p][q] \o Packets(p, n) ELSE wire[p][q]]]
          /\ UNCHANGED frame /\ n \in Nat /\ n <= Len(outList[p])
      BY <2>3, SendFacts
    <3> HIDE DEF n
    <3>2. /\ Packets(p, n) \in Seq(CommandPackets)
          /\ \A k \in 1 .. Len(Packets(p, n)) : Packets(p, n)[k].frame = frame[p]
      BY <3>1, PacketsFacts
    <3> SUFFICES ASSUME NEW r \in Player, NEW s \in Player, NEW k \in 1 .. Len(wire'[r][s])
                 PROVE wire'[r][s][k].frame <= frame[r]
      BY <3>1
    <3>3. CASE r = p /\ s \in conns[p]
      <4>1. wire'[r][s] = wire[p][s] \o Packets(p, n)
        BY <1>t, <3>1, <3>3
      <4>2. /\ wire'[r][s] \in Seq(CommandPackets)
            /\ Len(wire'[r][s]) = Len(wire[p][s]) + Len(Packets(p, n))
            /\ \A i \in 1 .. Len(wire[p][s]) + Len(Packets(p, n)) : wire'[r][s][i] =
                 IF i <= Len(wire[p][s]) THEN wire[p][s][i] ELSE Packets(p, n)[i - Len(wire[p][s])]
        BY <1>t, <3>2, <4>1, ConcatProperties
      <4>3. k \in 1 .. Len(wire[p][s]) + Len(Packets(p, n)) /\ Len(wire[p][s]) \in Nat
            /\ Len(Packets(p, n)) \in Nat
        BY <1>t, <3>2, <4>2
      <4>4. CASE k <= Len(wire[p][s])
        <5>1. k \in 1 .. Len(wire[p][s])
          BY <4>3, <4>4
        <5> QED BY <1>h, <3>3, <4>2, <4>3, <4>4, <5>1
      <4>5. CASE k > Len(wire[p][s])
        <5>1. k - Len(wire[p][s]) \in 1 .. Len(Packets(p, n)) /\ ~ (k <= Len(wire[p][s]))
          BY <4>3, <4>5
        <5>2. wire'[r][s][k] = Packets(p, n)[k - Len(wire[p][s])]
          BY <4>2, <4>3, <5>1
        <5>3. wire'[r][s][k].frame = frame[p]
          BY <3>2, <5>1, <5>2
        <5> QED BY <1>t, <3>3, <5>3
      <4> QED BY <4>3, <4>4, <4>5
    <3>4. CASE ~ (r = p /\ s \in conns[p])
      <4>1. wire'[r][s] = wire[r][s]
        BY <1>t, <3>1, <3>4
      <4> QED BY <1>t, <1>h, <4>1
    <3> QED BY <3>3, <3>4
  <2>4. ASSUME NEW p \in Player, Command(p) \/ Exit(p) \/ \E a \in NewAheads : Timing(p, a)
        PROVE UNCHANGED wire
    BY <2>4, QueueFacts DEF Queued
  <2>5. ASSUME NEW p \in Player, Resync(p) \/ Begin(p) \/ GiveUp(p) \/ Advance(p) \/ EndFrame(p)
                                   \/ ExecuteEvent(p)
        PROVE UNCHANGED wire
    BY <2>5, ResyncFacts, BeginFacts, GiveUpFacts, AdvanceFacts, EndFrameFacts, ExecuteFacts
  <2>6. ASSUME NEW p \in Player, NEW q \in Player, HandleTimeout(p, q) PROVE UNCHANGED wire
    BY <2>6, TimeoutFacts
  <2>7. ASSUME NEW p \in Player, NEW m \in info, HearInfo(p, m) PROVE UNCHANGED wire
    BY <2>7, HearInfoFacts
  <2>8. UNCHANGED vars => UNCHANGED wire
    BY DEF vars, net
  <2> HIDE DEF C
  <2> QED BY <2>1, <2>2, <2>3, <2>4, <2>5, <2>6, <2>7, <2>8, NextCases
<1>d. D
  <2>1. ASSUME NEW p \in Player, EndFrame(p) PROVE D
    <3>1. /\ pc' = [pc EXCEPT ![p] = IF active[p] THEN "play" ELSE "left"]
          /\ frame' = [frame EXCEPT ![p] = frame[p] + 1]
      BY <2>1, EndFrameFacts
    <3> QED BY <1>t, <1>h, <3>1
  <2>2. ASSUME NEW p \in Player, Begin(p) PROVE D
    BY <1>t, <1>h, <2>2, BeginFacts
  <2>3. CASE UNCHANGED <<pc, frame>>
    BY <1>h, <2>3
  <2>4. ASSUME NEW p \in Player, NEW v, v # "sync", pc' = [pc EXCEPT ![p] = v], UNCHANGED frame PROVE D
    BY <1>t, <1>h, <2>4
  <2>5. ASSUME NEW p \in Player, Command(p) \/ Exit(p) \/ \E a \in NewAheads : Timing(p, a)
        PROVE UNCHANGED <<pc, frame>>
    BY <2>5, QueueFacts DEF Queued
  <2>6. ASSUME NEW p \in Player, GiveUp(p) PROVE D
    BY <2>4, <2>6, GiveUpFacts
  <2>7. ASSUME NEW p \in Player, Advance(p) PROVE D
    BY <2>4, <2>7, AdvanceFacts
  <2>8. ASSUME NEW p \in Player, ExecuteEvent(p) PROVE D
    <3>1. UNCHANGED frame /\ (UNCHANGED pc \/ pc' = [pc EXCEPT ![p] = "late"])
      BY <2>8, ExecuteFacts
    <3> QED BY <2>3, <2>4, <3>1
  <2>9. ASSUME NEW p \in Player, NEW q \in Player, HandleTimeout(p, q) PROVE D
    BY <2>3, <2>9, TimeoutFacts
  <2>10. ASSUME NEW p \in Player, NEW m \in info, HearInfo(p, m) PROVE D
    BY <2>3, <2>10, HearInfoFacts
  <2>11. ASSUME NEW p \in Player, NEW q \in Player, HearCommands(p, q) PROVE D
    <3>1. UNCHANGED frame /\ (UNCHANGED pc \/ pc' = [pc EXCEPT ![p] = "full"])
      BY <2>11, HearFacts
    <3> QED BY <2>3, <2>4, <3>1
  <2>12. ASSUME NEW p \in Player, NEW load \in Loads, Send(p, load) PROVE D
    <3>1. UNCHANGED frame /\ (pc' = [pc EXCEPT ![p] = "wait"] \/ pc' = [pc EXCEPT ![p] = "hung"])
      BY <2>12, SendFacts
    <3> QED BY <2>4, <3>1
  <2>13. ASSUME NEW p \in Player, Resync(p) PROVE D
    BY <2>3, <2>13, ResyncFacts
  <2>14. UNCHANGED vars => UNCHANGED <<pc, frame>>
    BY DEF vars
  <2> HIDE DEF D
  <2> QED BY <2>1, <2>2, <2>3, <2>5, <2>6, <2>7, <2>8, <2>9, <2>10, <2>11, <2>12, <2>13, <2>14,
             NextCases
<1> QED BY <1>a, <1>b, <1>c, <1>d DEF HeardOK


(* A machine begins a frame only where Can_Advance, or the first wait, let it. *)
LEMMA BegunNext ==
  ASSUME TypeOK, HeardOK, [Next]_vars, NEW p \in Player
  PROVE  \/ Begun(p)' <= Begun(p)
         \/ Begin(p) /\ Begun(p)' = 1
         \/ Advance(p) /\ CanAdvance(p) /\ Begun(p)' = frame[p] + 1 /\ UNCHANGED <<frame, ids, conns>>
<1>t. frame \in [Player -> Nat] /\ pc \in [Player -> Places]
  BY DEF TypeOK
<1>1. CASE UNCHANGED <<pc, frame>>
  BY <1>t, <1>1 DEF Begun
<1>2. ASSUME NEW r \in Player, NEW v, v # "exec", UNCHANGED frame, pc' = [pc EXCEPT ![r] = v]
      PROVE  Begun(p)' <= Begun(p)
  <2>1. CASE r = p
    <3>1. pc'[p] = v /\ frame'[p] = frame[p] /\ frame[p] \in Nat
      BY <1>t, <1>2, <2>1
    <3> QED BY <1>2, <3>1 DEF Begun
  <2>2. CASE r # p
    <3>1. pc'[p] = pc[p] /\ frame'[p] = frame[p] /\ frame[p] \in Nat
      BY <1>t, <1>2, <2>2
    <3> QED BY <3>1 DEF Begun
  <2> QED BY <2>1, <2>2
<1>3. ASSUME NEW r \in Player, EndFrame(r) PROVE Begun(p)' <= Begun(p)
  <2>1. /\ pc[r] = "exec" /\ frame' = [frame EXCEPT ![r] = frame[r] + 1]
        /\ pc' = [pc EXCEPT ![r] = IF active[r] THEN "play" ELSE "left"]
    BY <1>3, EndFrameFacts
  <2>2. CASE r = p
    <3>1. frame'[p] = frame[p] + 1 /\ pc'[p] # "exec" /\ pc[p] = "exec" /\ frame[p] \in Nat
      BY <1>t, <2>1, <2>2
    <3> QED BY <3>1 DEF Begun
  <2>3. CASE r # p
    <3>1. pc'[p] = pc[p] /\ frame'[p] = frame[p] /\ frame[p] \in Nat
      BY <1>t, <2>1, <2>3
    <3> QED BY <3>1 DEF Begun
  <2> QED BY <2>2, <2>3
<1>4. ASSUME NEW r \in Player, Begin(r)
      PROVE  Begun(p)' <= Begun(p) \/ (Begin(p) /\ Begun(p)' = 1)
  <2>1. frame' = [frame EXCEPT ![r] = 1] /\ pc' = [pc EXCEPT ![r] = "play"]
    BY <1>4, BeginFacts
  <2>2. CASE r = p
    <3>1. frame'[p] = 1 /\ pc'[p] = "play"
      BY <1>t, <2>1, <2>2
    <3> QED BY <1>4, <2>2, <3>1 DEF Begun
  <2>3. CASE r # p
    <3>1. pc'[p] = pc[p] /\ frame'[p] = frame[p] /\ frame[p] \in Nat
      BY <1>t, <2>1, <2>3
    <3> QED BY <3>1 DEF Begun
  <2> QED BY <2>2, <2>3
<1>5. ASSUME NEW r \in Player, Advance(r)
      PROVE  \/ Begun(p)' <= Begun(p)
             \/ Advance(p) /\ CanAdvance(p) /\ Begun(p)' = frame[p] + 1 /\ UNCHANGED <<frame, ids, conns>>
  <2>1. pc' = [pc EXCEPT ![r] = "exec"] /\ UNCHANGED <<frame, ids, conns>> /\ CanAdvance(r)
    BY <1>5, AdvanceFacts
  <2>2. CASE r = p
    <3>1. frame'[p] = frame[p] /\ pc'[p] = "exec"
      BY <1>t, <2>1, <2>2
    <3> QED BY <1>5, <2>1, <2>2, <3>1 DEF Begun
  <2>3. CASE r # p
    <3>1. pc'[p] = pc[p] /\ frame'[p] = frame[p] /\ frame[p] \in Nat
      BY <1>t, <2>1, <2>3
    <3> QED BY <3>1 DEF Begun
  <2> QED BY <2>2, <2>3
<1>6. ASSUME NEW r \in Player, Command(r) \/ Exit(r) \/ \E a \in NewAheads : Timing(r, a)
      PROVE UNCHANGED <<pc, frame>>
  BY <1>6, QueueFacts DEF Queued
<1>7. ASSUME NEW r \in Player, GiveUp(r) PROVE Begun(p)' <= Begun(p)
  BY <1>2, <1>7, GiveUpFacts
<1>8. ASSUME NEW r \in Player, ExecuteEvent(r) PROVE Begun(p)' <= Begun(p)
  <2>1. UNCHANGED frame /\ (UNCHANGED pc \/ pc' = [pc EXCEPT ![r] = "late"])
    BY <1>8, ExecuteFacts
  <2>2. CASE UNCHANGED <<pc, frame>>
    BY <1>t, <2>2 DEF Begun
  <2> QED BY <1>2, <2>1, <2>2
<1>9. ASSUME NEW r \in Player, NEW q \in Player, HandleTimeout(r, q) PROVE UNCHANGED <<pc, frame>>
  BY <1>9, TimeoutFacts
<1>10. ASSUME NEW r \in Player, NEW m \in info, HearInfo(r, m) PROVE UNCHANGED <<pc, frame>>
  BY <1>10, HearInfoFacts
<1>11. ASSUME NEW r \in Player, NEW q \in Player, HearCommands(r, q) PROVE Begun(p)' <= Begun(p)
  <2>1. UNCHANGED frame /\ (UNCHANGED pc \/ pc' = [pc EXCEPT ![r] = "full"])
    BY <1>11, HearFacts
  <2>2. CASE UNCHANGED <<pc, frame>>
    BY <1>t, <2>2 DEF Begun
  <2> QED BY <1>2, <2>1, <2>2
<1>12. ASSUME NEW r \in Player, NEW load \in Loads, Send(r, load) PROVE Begun(p)' <= Begun(p)
  <2>1. UNCHANGED frame /\ (pc' = [pc EXCEPT ![r] = "wait"] \/ pc' = [pc EXCEPT ![r] = "hung"])
    BY <1>12, SendFacts
  <2> QED BY <1>2, <2>1
<1>13. ASSUME NEW r \in Player, Resync(r) PROVE UNCHANGED <<pc, frame>>
  BY <1>13, ResyncFacts
<1>14. UNCHANGED vars => UNCHANGED <<pc, frame>>
  BY DEF vars
<1> QED BY <1>1, <1>3, <1>4, <1>5, <1>6, <1>7, <1>8, <1>9, <1>10, <1>11, <1>12, <1>13, <1>14,
           NextCases

(* Connections are only ever given up. *)
LEMMA ConnsNext ==
  ASSUME TypeOK, [Next]_vars, NEW p \in Player
  PROVE  conns'[p] \subseteq conns[p]
<1>t. conns \in [Player -> SUBSET Player]
  BY DEF TypeOK
<1>1. CASE UNCHANGED conns
  BY <1>1
<1>2. ASSUME NEW r \in Player, NEW q, conns' = [conns EXCEPT ![r] = conns[r] \ {q}]
      PROVE conns'[p] \subseteq conns[p]
  BY <1>t, <1>2
<1>3. ASSUME NEW r \in Player, NEW q \in Player, HandleTimeout(r, q)
      PROVE conns'[p] \subseteq conns[p]
  BY <1>2, <1>3, TimeoutFacts
<1>4. ASSUME NEW r \in Player, ExecuteEvent(r) PROVE conns'[p] \subseteq conns[p]
  <2>1. PICK c \in Todo(r) : UNCHANGED conns \/ Effect(r, doList[r][c[2]])
    BY <1>4, ExecuteFacts
  <2>2. UNCHANGED conns \/ \E q : conns' = [conns EXCEPT ![r] = conns[r] \ {q}]
    BY <2>1, EffectRoster DEF Destroy
  <2> QED BY <1>1, <1>2, <2>2
<1>5. ASSUME NEW r \in Player, Command(r) \/ Exit(r) \/ \E a \in NewAheads : Timing(r, a)
      PROVE UNCHANGED conns
  BY <1>5, QueueFacts DEF Queued
<1>6. ASSUME NEW r \in Player, Resync(r) \/ Begin(r) \/ GiveUp(r) \/ Advance(r) \/ EndFrame(r)
      PROVE UNCHANGED conns
  BY <1>6, ResyncFacts, BeginFacts, GiveUpFacts, AdvanceFacts, EndFrameFacts
<1>7. ASSUME NEW r \in Player, NEW m \in info, HearInfo(r, m) PROVE UNCHANGED conns
  BY <1>7, HearInfoFacts
<1>8. ASSUME NEW r \in Player, NEW q \in Player, HearCommands(r, q) PROVE UNCHANGED conns
  BY <1>8, HearFacts
<1>9. ASSUME NEW r \in Player, NEW load \in Loads, Send(r, load) PROVE UNCHANGED conns
  BY <1>9, SendFacts
<1>10. UNCHANGED vars => UNCHANGED conns
  BY DEF vars, roster
<1> QED BY <1>1, <1>3, <1>4, <1>5, <1>6, <1>7, <1>8, <1>9, <1>10, NextCases

(* With nobody else in the list there is no connection left. *)
LEMMA AloneFacts ==
  ASSUME TypeOK, RosterOK, NEW p \in Player, Len(ids[p]) = 1
  PROVE  conns[p] = {}
<1>1. ids[p] \in Seq(Player)
  BY DEF TypeOK
<1>2. DOMAIN ids[p] = {1}
  BY <1>1
<1>3. {ids[p][i] : i \in DOMAIN ids[p]} = {ids[p][1]}
  BY <1>2
<1>4. {ids[p][1]} = conns[p] \cup {p} /\ p \notin conns[p]
  BY <1>3 DEF RosterOK
<1> QED BY <1>4

LEMMA SkewNext ==
  ASSUME TypeOK, SkewInv, [Next]_vars
  PROVE  SkewOK'
<1>t. /\ \A p \in Player : frame[p] \in Nat /\ frame'[p] \in Nat
      /\ \A p, q \in Player : theirFrame[p][q] \in Nat \cup {-1}
  <2>1. frame \in [Player -> Nat] /\ theirFrame \in [Player -> [Player -> Nat \cup {-1}]]
    BY DEF TypeOK
  <2>2. frame' \in [Player -> Nat]
    BY TypeNext DEF TypeOK
  <2> QED BY <2>1, <2>2
<1>i. RosterOK /\ HeardOK /\ SkewOK
  BY DEF SkewInv
<1>r. \A p \in Player : frame'[p] >= frame[p]
  BY <1>i, FrameNext DEF FramesRise
<1>a. \A a \in NewAheads \cup {InitAhead} : a \in Nat /\ a > 0
  BY Aheads
<1> SUFFICES ASSUME NEW p \in Player, NEW q \in conns'[p]
             PROVE  \E a \in NewAheads \cup {InitAhead} : Begun(p)' <= frame'[q] + a
  BY DEF SkewOK, Begun
<1>1. q \in conns[p] /\ q \in Player
  BY ConnsNext DEF TypeOK
<1>2. Begun(p) \in Nat /\ Begun(p)' \in Nat
  BY <1>t DEF Begun
<1>3. CASE Begun(p)' <= Begun(p)
  <2>1. PICK a \in NewAheads \cup {InitAhead} : Begun(p) <= frame[q] + a
    BY <1>1, <1>i DEF SkewOK, Begun
  <2>2. a \in Nat /\ frame'[q] >= frame[q] /\ frame[q] \in Nat /\ frame'[q] \in Nat
    BY <1>t, <1>r, <1>a, <1>1
  <2>3. Begun(p)' <= frame'[q] + a
    BY <1>2, <1>3, <2>1, <2>2
  <2> QED BY <2>3
<1>4. CASE Begun(p)' = 1
  <2>1. InitAhead \in Nat /\ InitAhead > 0 /\ frame'[q] \in Nat
    BY <1>t, <1>1, <1>a
  <2>2. Begun(p)' <= frame'[q] + InitAhead
    BY <1>4, <2>1
  <2> QED BY <2>2
<1>5. CASE CanAdvance(p) /\ Begun(p)' = frame[p] + 1
  <2>1. Len(ids[p]) # 1
    BY <1>1, <1>i, AloneFacts
  <2>2. frame[p] < theirFrame[p][q] + ahead[p]
    BY <1>1, <1>5, <2>1 DEF CanAdvance
  <2>3. theirFrame[p][q] <= frame[q] /\ frame'[q] >= frame[q]
    BY <1>1, <1>i, <1>r DEF HeardOK
  <2>4. ahead[p] \in NewAheads \cup {InitAhead}
    BY DEF TypeOK
  <2>5. ahead[p] \in Nat /\ theirFrame[p][q] \in Int /\ frame[p] \in Nat /\ frame[q] \in Nat /\ frame'[q] \in Nat
    BY <1>t, <1>1, <1>a, <2>4
  <2>6. Begun(p)' <= frame'[q] + ahead[p]
    BY <1>5, <2>2, <2>3, <2>5
  <2> QED BY <2>4, <2>6
<1> QED BY <1>i, <1>3, <1>4, <1>5, BegunNext

LEMMA SkewInit == Init => SkewInv
<1> SUFFICES ASSUME Init PROVE SkewInv
  OBVIOUS
<1>1. N \in Nat \ {0} /\ InitAhead \in Nat \ {0}
  BY Players, Aheads
<1>2. RosterOK
  <2> SUFFICES ASSUME NEW p \in Player
               PROVE  /\ \A i, j \in DOMAIN ids[p] : ids[p][i] = ids[p][j] => i = j
                      /\ {ids[p][i] : i \in DOMAIN ids[p]} = conns[p] \cup {p}
                      /\ p \notin conns[p]
    BY DEF RosterOK
  <2>1. ids[p] = [i \in Player |-> i] /\ conns[p] = Player \ {p}
    BY DEF Init, Peers
  <2>2. DOMAIN ids[p] = Player /\ \A i \in Player : ids[p][i] = i
    BY <2>1
  <2> QED BY <2>1, <2>2
<1>3. HeardOK
  <2>1. \A p \in Player : frame[p] = 0
    BY DEF Init
  <2>2. \A p, q \in Player : theirFrame[p][q] = -1 /\ wire[p][q] = << >>
    BY DEF Init
  <2>3. \A m \in info : m.from \in Player /\ m.frame = 0
    BY DEF Init, Peers
  <2> QED BY <2>1, <2>2, <2>3 DEF HeardOK
<1>4. SkewOK
  <2>1. \A p \in Player : frame[p] = 0 /\ pc[p] = "sync" /\ conns[p] \subseteq Player
    BY DEF Init, Peers
  <2> SUFFICES ASSUME NEW p \in Player, NEW q \in conns[p]
               PROVE  \E a \in NewAheads \cup {InitAhead} :
                        frame[p] + (IF pc[p] = "exec" THEN 1 ELSE 0) <= frame[q] + a
    BY DEF SkewOK, Begun
  <2>2. frame[p] + (IF pc[p] = "exec" THEN 1 ELSE 0) <= frame[q] + InitAhead
    BY <1>1, <2>1
  <2> QED BY <2>2
<1> QED BY <1>2, <1>3, <1>4 DEF SkewInv

(* No machine out-runs another one it still plays with by more than the      *)
(* largest MaxAhead in use: Can_Advance lets no machine start a frame that   *)
(* is further ahead, and nobody is said to be further than he is.            *)
THEOREM SkewIsBounded == Safety => []SkewBounded
<1>1. Init => TypeOK /\ SkewInv
  BY TypeInit, SkewInit
<1>2. TypeOK /\ SkewInv /\ [Next]_vars => (TypeOK /\ SkewInv)'
  <2> SUFFICES ASSUME TypeOK, SkewInv, [Next]_vars PROVE TypeOK' /\ RosterOK' /\ HeardOK' /\ SkewOK'
    BY DEF SkewInv
  <2> QED BY TypeNext, RosterNext, HeardNext, SkewNext DEF SkewInv
<1>3. TypeOK /\ SkewInv => SkewBounded
  <2> SUFFICES ASSUME TypeOK, SkewInv, NEW p \in Player, NEW q \in Player, q \in conns[p]
               PROVE  \E a \in NewAheads \cup {InitAhead} : frame[p] <= frame[q] + a
    BY DEF SkewBounded
  <2>1. PICK a \in NewAheads \cup {InitAhead} :
          frame[p] + (IF pc[p] = "exec" THEN 1 ELSE 0) <= frame[q] + a
    BY DEF SkewInv, SkewOK, Begun
  <2>2. frame[p] \in Nat /\ frame[q] \in Nat /\ a \in Nat
    BY AheadType, Aheads
  <2> QED BY <2>1, <2>2
<1> QED BY <1>1, <1>2, <1>3, PTL DEF Safety

------------------------------------------------------------------------------
(* CountsTellTruth *)

LEMMA Shifting ==
  /\ \A x, y \in Nat : \A i \in Nat : i > 0 => (x + y) + i > x /\ ((x + y) + i) - x = y + i
  /\ \A x, y \in Nat : y = x - 1 /\ x > 1 => y # 0 /\ y \in 1 .. y /\ y + 1 = x /\ x # 0
OBVIOUS

LEMMA CarriesMore ==
  ASSUME NEW s \in Seq(SentEvents), NEW t \in Seq(SentEvents), NEW m, NEW a, Carries(s, m, a),
         m.evs \in Seq(Events)
  PROVE  Carries(s \o t, m, a)
<1>1. /\ Len(s \o t) = Len(s) + Len(t) /\ Len(s) \in Nat /\ Len(t) \in Nat
      /\ \A i \in 1 .. Len(s) + Len(t) : (s \o t)[i] = IF i <= Len(s) THEN s[i] ELSE t[i - Len(s)]
  BY ConcatProperties
<1>2. /\ a \in Nat /\ Len(m.evs) > 0 /\ a + Len(m.evs) <= Len(s) /\ Len(m.evs) \in Nat
      /\ \A i \in 1 .. Len(m.evs) : m.evs[i] = s[a + i].ev /\ m.due = s[a + i].due
  BY DEF Carries
<1>3. \A i \in 1 .. Len(m.evs) : (s \o t)[a + i] = s[a + i]
  BY <1>1, <1>2
<1>4. a + Len(m.evs) <= Len(s \o t)
  BY <1>1, <1>2
<1>5. \A i \in 1 .. Len(m.evs) : m.evs[i] = (s \o t)[a + i].ev /\ m.due = (s \o t)[a + i].due
  BY <1>2, <1>3
<1> HIDE <1>1, <1>3
<1> QED BY <1>2, <1>4, <1>5 DEF Carries

LEMMA ChainMore ==
  ASSUME NEW w \in Seq(CommandPackets), NEW s \in Seq(SentEvents), NEW t \in Seq(SentEvents), NEW r,
         Chain(w, s, r)
  PROVE  Chain(w, s \o t, r)
<1>1. ASSUME NEW k \in 1 .. Len(w) PROVE Carries(s \o t, w[k], Before(w[k]))
  <2>0. w[k] \in CommandPackets
    OBVIOUS
  <2>1. w[k].evs \in Seq(Events)
    BY <2>0 DEF CommandPackets
  <2>2. Carries(s, w[k], Before(w[k]))
    BY DEF Chain
  <2> QED BY <2>1, <2>2, CarriesMore
<1> QED BY <1>1 DEF Chain

(* Taking the first packet of a chain. *)
LEMMA ChainTail ==
  ASSUME NEW w \in Seq(CommandPackets), NEW s \in Seq(SentEvents), NEW r \in Nat,
         Chain(w, s, r), Len(w) > 0
  PROVE  /\ Chain(Tail(w), s, r + Len(w[1].evs))
         /\ LastIn(Tail(w), r + Len(w[1].evs)) = LastIn(w, r)
         /\ r + Len(w[1].evs) <= Len(s) /\ Len(w[1].evs) \in Nat
         /\ \A i \in 1 .. Len(w[1].evs) : /\ w[1].evs[i] = s[r + i].ev
                                          /\ w[1].due = s[r + i].due
<1>1. /\ Tail(w) \in Seq(CommandPackets) /\ Len(Tail(w)) = Len(w) - 1 /\ Len(w) \in Nat
      /\ \A i \in 1 .. Len(Tail(w)) : Tail(w)[i] = w[i + 1]
  <2>1. w # << >>
    OBVIOUS
  <2> QED BY <2>1, HeadTailProperties
<1>2. 1 \in 1 .. Len(w)
  BY <1>1
<1>3. Carries(s, w[1], r) /\ Before(w[1]) = r
  BY <1>2 DEF Chain
<1>4. w[1].evs \in Seq(Events)
  <2>1. w[1] \in CommandPackets
    BY <1>2
  <2> QED BY <2>1 DEF CommandPackets
<1>5. Len(w[1].evs) \in Nat
  BY <1>4
<1>6. r + Len(w[1].evs) <= Len(s) /\ \A i \in 1 .. Len(w[1].evs) : /\ w[1].evs[i] = s[r + i].ev
                                                               /\ w[1].due = s[r + i].due
  BY <1>3 DEF Carries
<1>7. \A k \in 1 .. Len(Tail(w)) : Carries(s, Tail(w)[k], Before(Tail(w)[k]))
  <2> SUFFICES ASSUME NEW k \in 1 .. Len(Tail(w)) PROVE Carries(s, Tail(w)[k], Before(Tail(w)[k]))
    OBVIOUS
  <2>1. k + 1 \in 1 .. Len(w) /\ Tail(w)[k] = w[k + 1]
    BY <1>1
  <2> QED BY <2>1 DEF Chain
<1>8. Len(Tail(w)) > 0 => Before(Tail(w)[1]) = r + Len(w[1].evs)
  <2> SUFFICES ASSUME Len(Tail(w)) > 0 PROVE Before(Tail(w)[1]) = r + Len(w[1].evs)
    OBVIOUS
  <2>1. 1 \in 1 .. Len(w) - 1 /\ 1 \in 1 .. Len(Tail(w)) /\ 1 + 1 = 2
    BY <1>1
  <2>2. Tail(w)[1] = w[1 + 1]
    BY <1>1, <2>1
  <2>3. Before(w[1 + 1]) = Before(w[1]) + Len(w[1].evs)
    BY <2>1 DEF Chain
  <2> QED BY <1>3, <2>2, <2>3
<1>9. \A k \in 1 .. Len(Tail(w)) - 1 :
        Before(Tail(w)[k + 1]) = Before(Tail(w)[k]) + Len(Tail(w)[k].evs)
  <2> SUFFICES ASSUME NEW k \in 1 .. Len(Tail(w)) - 1
               PROVE  Before(Tail(w)[k + 1]) = Before(Tail(w)[k]) + Len(Tail(w)[k].evs)
    OBVIOUS
  <2>1. k + 1 \in 1 .. Len(w) - 1 /\ k \in 1 .. Len(Tail(w)) /\ k + 1 \in 1 .. Len(Tail(w))
    BY <1>1
  <2>2. Tail(w)[k] = w[k + 1] /\ Tail(w)[k + 1] = w[(k + 1) + 1]
    BY <1>1, <2>1
  <2>3. Before(w[(k + 1) + 1]) = Before(w[k + 1]) + Len(w[k + 1].evs)
    BY <2>1 DEF Chain
  <2> QED BY <2>2, <2>3
<1>10. LastIn(Tail(w), r + Len(w[1].evs)) = LastIn(w, r)
  <2>1. CASE Len(w) = 1
    <3>1. Len(Tail(w)) = 0
      BY <1>1, <2>1
    <3> QED BY <1>3, <2>1, <3>1 DEF LastIn
  <2>2. CASE Len(w) > 1
    <3>4. Len(Tail(w)) \in Nat
      BY <1>1
    <3>0. Len(w) \in Nat /\ Len(Tail(w)) = Len(w) - 1 /\ Len(Tail(w)) \in Nat /\ Len(w) > 1
      BY <1>1, <2>2, <3>4
    <3>1. Len(Tail(w)) # 0 /\ Len(Tail(w)) \in 1 .. Len(Tail(w)) /\ Len(Tail(w)) + 1 = Len(w) /\ Len(w) # 0
      BY <3>0, Shifting
    <3>2. Tail(w)[Len(Tail(w))] = w[Len(w)]
      BY <1>1, <3>1
    <3> QED BY <3>1, <3>2 DEF LastIn
  <2> QED BY <1>1, <2>1, <2>2
<1>11. Chain(Tail(w), s, r + Len(w[1].evs))
  BY <1>7, <1>8, <1>9 DEF Chain
<1> QED BY <1>5, <1>6, <1>10, <1>11

(* The packets b carry the events t, each from its place at[k] on, and these  *)
(* are numbered from d on.                                                    *)
Fills(b, t, at, d) ==
  \A k \in 1 .. Len(b) :
    /\ Len(b[k].evs) \in Nat \ {0}
    /\ at[k] + Len(b[k].evs) <= Len(t)
    /\ \A i \in 1 .. Len(b[k].evs) : /\ b[k].evs[i] = t[at[k] + i].ev
                                     /\ b[k].due = t[at[k] + i].due
                                     /\ b[k].evs[i].no = d + (at[k] + i)
    /\ k = 1 => at[k] = 0
    /\ k < Len(b) => at[k + 1] = at[k] + Len(b[k].evs)
    /\ k = Len(b) => at[k] + Len(b[k].evs) = Len(t)

(* Putting the packets b, which carry the new events t, behind a chain that   *)
(* holds all that was sent.                                                   *)
LEMMA ChainJoin ==
  ASSUME NEW w \in Seq(CommandPackets), NEW s \in Seq(SentEvents), NEW r \in Nat,
         Chain(w, s, r), LastIn(w, r) = Len(s),
         NEW b \in Seq(CommandPackets), NEW t \in Seq(SentEvents),
         Len(b) = 0 <=> Len(t) = 0,
         NEW at \in [1 .. Len(b) -> Nat],
         Fills(b, t, at, Len(s))
  PROVE  Chain(w \o b, s \o t, r) /\ LastIn(w \o b, r) = Len(s \o t)
<1> DEFINE v == w \o b
<1>f. \A k \in 1 .. Len(b) :
        /\ Len(b[k].evs) \in Nat \ {0}
        /\ at[k] + Len(b[k].evs) <= Len(t)
        /\ \A i \in 1 .. Len(b[k].evs) : /\ b[k].evs[i] = t[at[k] + i].ev
                                         /\ b[k].due = t[at[k] + i].due
                                         /\ b[k].evs[i].no = Len(s) + (at[k] + i)
        /\ k = 1 => at[k] = 0
        /\ k < Len(b) => at[k + 1] = at[k] + Len(b[k].evs)
        /\ k = Len(b) => at[k] + Len(b[k].evs) = Len(t)
  BY DEF Fills
<1>1. /\ Len(s \o t) = Len(s) + Len(t) /\ Len(s) \in Nat /\ Len(t) \in Nat
      /\ \A i \in 1 .. Len(s) + Len(t) : (s \o t)[i] = IF i <= Len(s) THEN s[i] ELSE t[i - Len(s)]
  BY ConcatProperties
<1>2. /\ v \in Seq(CommandPackets) /\ Len(v) = Len(w) + Len(b) /\ Len(w) \in Nat /\ Len(b) \in Nat
      /\ \A i \in 1 .. Len(w) + Len(b) : v[i] = IF i <= Len(w) THEN w[i] ELSE b[i - Len(w)]
  BY ConcatProperties
<1> HIDE DEF v
<1>3. ASSUME NEW k \in 1 .. Len(b)
      PROVE  Before(b[k]) = Len(s) + at[k] /\ Carries(s \o t, b[k], Len(s) + at[k])
  <2>1. /\ Len(b[k].evs) \in Nat \ {0}
        /\ at[k] + Len(b[k].evs) <= Len(t)
        /\ \A i \in 1 .. Len(b[k].evs) : /\ b[k].evs[i] = t[at[k] + i].ev
                                         /\ b[k].due = t[at[k] + i].due
                                         /\ b[k].evs[i].no = Len(s) + (at[k] + i)
        /\ at[k] \in Nat
    BY <1>f
  <2>2. 1 \in 1 .. Len(b[k].evs)
    BY <2>1
  <2>3. b[k].evs[1].no = Len(s) + (at[k] + 1)
    BY <2>1, <2>2
  <2>4. Before(b[k]) = Len(s) + at[k]
    BY <1>1, <2>1, <2>3 DEF Before
  <2>5. \A i \in 1 .. Len(b[k].evs) : (s \o t)[(Len(s) + at[k]) + i] = t[at[k] + i]
    <3> SUFFICES ASSUME NEW i \in 1 .. Len(b[k].evs)
                 PROVE  (s \o t)[(Len(s) + at[k]) + i] = t[at[k] + i]
      OBVIOUS
    <3>0. /\ Len(s) \in Nat /\ Len(t) \in Nat /\ at[k] \in Nat /\ Len(b[k].evs) \in Nat
          /\ at[k] + Len(b[k].evs) <= Len(t)
      BY <1>1, <2>1
    <3>1. (Len(s) + at[k]) + i \in 1 .. Len(s) + Len(t)
      BY <3>0
    <3>4. i \in Nat /\ i > 0
      BY <3>0
    <3>2. (Len(s) + at[k]) + i > Len(s) /\ ((Len(s) + at[k]) + i) - Len(s) = at[k] + i
      BY <3>0, <3>4, Shifting
    <3>3. (s \o t)[(Len(s) + at[k]) + i] = t[((Len(s) + at[k]) + i) - Len(s)]
      BY <1>1, <3>0, <3>1, <3>2
    <3> QED BY <3>2, <3>3
  <2>6. Len(s) + at[k] \in Nat /\ (Len(s) + at[k]) + Len(b[k].evs) <= Len(s \o t)
    BY <1>1, <2>1
  <2>8. \A i \in 1 .. Len(b[k].evs) : /\ b[k].evs[i] = (s \o t)[(Len(s) + at[k]) + i].ev
                                      /\ b[k].due = (s \o t)[(Len(s) + at[k]) + i].due
    BY <2>1, <2>5
  <2>9. Len(b[k].evs) > 0
    BY <2>1
  <2>7. Carries(s \o t, b[k], Len(s) + at[k])
    BY <2>6, <2>8, <2>9 DEF Carries
  <2> QED BY <2>4, <2>7
<1>4. \A k \in 1 .. Len(v) : Carries(s \o t, v[k], Before(v[k]))
  <2> SUFFICES ASSUME NEW k \in 1 .. Len(v) PROVE Carries(s \o t, v[k], Before(v[k]))
    OBVIOUS
  <2>1. CASE k <= Len(w)
    <3>1. k \in 1 .. Len(w) /\ v[k] = w[k]
      BY <1>2, <2>1
    <3>2. Chain(w, s \o t, r)
      BY ChainMore
    <3> QED BY <3>1, <3>2 DEF Chain
  <2>2. CASE k > Len(w)
    <3>1. k - Len(w) \in 1 .. Len(b) /\ v[k] = b[k - Len(w)]
      BY <1>2, <2>2
    <3> QED BY <1>3, <3>1
  <2> QED BY <1>2, <2>1, <2>2
<1>5. Len(v) > 0 => Before(v[1]) = r
  <2> SUFFICES ASSUME Len(v) > 0 PROVE Before(v[1]) = r
    OBVIOUS
  <2>1. CASE Len(w) > 0
    <3>1. v[1] = w[1]
      BY <1>2, <2>1
    <3> QED BY <2>1, <3>1 DEF Chain
  <2>2. CASE Len(w) = 0
    <3>6. Len(b) \in Nat /\ Len(w) + Len(b) = Len(v)
      BY <1>2
    <3>5. Len(w) + Len(b) > 0 /\ Len(w) = 0 /\ Len(b) \in Nat
      BY <2>2, <3>6
    <3>0. Len(b) > 0 /\ Len(b) \in Nat
      BY <3>5
    <3>4. 1 \in 1 .. Len(b) /\ 1 \in 1 .. Len(w) + Len(b) /\ ~ (1 <= Len(w)) /\ 1 - Len(w) = 1
      BY <3>0, <2>2
    <3>1. v[1] = b[1] /\ 1 \in 1 .. Len(b)
      BY <1>2, <3>4
    <3>2. Before(b[1]) = Len(s) + at[1] /\ at[1] = 0
      BY <1>3, <1>f, <3>1
    <3>3. r = Len(s)
      BY <2>2 DEF LastIn
    <3> QED BY <3>1, <3>2, <3>3
  <2> QED BY <1>2, <2>1, <2>2
<1>6. \A k \in 1 .. Len(v) - 1 : Before(v[k + 1]) = Before(v[k]) + Len(v[k].evs)
  <2> SUFFICES ASSUME NEW k \in 1 .. Len(v) - 1 PROVE Before(v[k + 1]) = Before(v[k]) + Len(v[k].evs)
    OBVIOUS
  <2>1. CASE k < Len(w)
    <3>1. k \in 1 .. Len(w) - 1 /\ v[k] = w[k] /\ v[k + 1] = w[k + 1]
      BY <1>2, <2>1
    <3> QED BY <3>1 DEF Chain
  <2>2. CASE k = Len(w)
    <3>4. Len(w) \in Nat /\ Len(b) \in Nat /\ Len(v) = Len(w) + Len(b) /\ k \in 1 .. Len(v) - 1
      BY <1>2
    <3>5. /\ 1 \in 1 .. Len(b) /\ Len(w) # 0 /\ k \in 1 .. Len(w) + Len(b) /\ k <= Len(w)
          /\ k + 1 \in 1 .. Len(w) + Len(b) /\ ~ (k + 1 <= Len(w)) /\ (k + 1) - Len(w) = 1
      BY <2>2, <3>4
    <3>1. 1 \in 1 .. Len(b) /\ v[k] = w[Len(w)] /\ v[k + 1] = b[1] /\ Len(w) # 0
      BY <1>2, <2>2, <3>5
    <3>2. Before(b[1]) = Len(s) + at[1] /\ at[1] = 0
      BY <1>3, <1>f, <3>1
    <3>3. Before(w[Len(w)]) + Len(w[Len(w)].evs) = Len(s)
      BY <3>1 DEF LastIn
    <3> QED BY <1>1, <3>1, <3>2, <3>3
  <2>3. CASE k > Len(w)
    <3> DEFINE j == k - Len(w)
    <3>1. j \in 1 .. Len(b) /\ j + 1 \in 1 .. Len(b) /\ j < Len(b) /\ v[k] = b[j] /\ v[k + 1] = b[j + 1]
      <4>0. Len(w) \in Nat /\ Len(b) \in Nat /\ Len(v) = Len(w) + Len(b) /\ k \in 1 .. Len(v) - 1
        BY <1>2
      <4>1. /\ k + 1 \in 1 .. Len(w) + Len(b) /\ k \in 1 .. Len(w) + Len(b)
            /\ ~ (k <= Len(w)) /\ ~ (k + 1 <= Len(w))
        BY <2>3, <4>0
      <4>2. /\ (k + 1) - Len(w) = j + 1 /\ j \in 1 .. Len(b) /\ j + 1 \in 1 .. Len(b) /\ j < Len(b)
        BY <2>3, <4>0
      <4>3. v[k] = b[k - Len(w)] /\ v[k + 1] = b[(k + 1) - Len(w)]
        BY <1>2, <4>1
      <4> QED BY <4>2, <4>3
    <3> HIDE DEF j
    <3>2. Before(b[j]) = Len(s) + at[j] /\ Before(b[j + 1]) = Len(s) + at[j + 1]
      BY <1>3, <3>1
    <3>3. at[j + 1] = at[j] + Len(b[j].evs) /\ at[j] \in Nat /\ Len(b[j].evs) \in Nat
      BY <1>f, <3>1
    <3> QED BY <1>1, <3>1, <3>2, <3>3
  <2> QED BY <1>2, <2>1, <2>2, <2>3
<1>7. LastIn(v, r) = Len(s \o t)
  <2>1. CASE Len(b) = 0
    <3>1. Len(v) = Len(w) /\ Len(t) = 0
      BY <1>2, <2>1
    <3>2. Len(w) > 0 => v[Len(v)] = w[Len(w)]
      BY <1>2, <3>1
    <3>3. LastIn(v, r) = LastIn(w, r)
      BY <1>2, <3>1, <3>2 DEF LastIn
    <3> QED BY <1>1, <3>1, <3>3
  <2>2. CASE Len(b) > 0
    <3>1. Len(b) \in Nat /\ Len(w) \in Nat /\ Len(w) + Len(b) = Len(v)
      BY <1>2
    <3>2. /\ Len(b) \in 1 .. Len(b) /\ Len(w) + Len(b) # 0 /\ ~ (Len(w) + Len(b) <= Len(w))
          /\ (Len(w) + Len(b)) - Len(w) = Len(b) /\ Len(w) + Len(b) \in 1 .. Len(w) + Len(b)
      BY <2>2, <3>1
    <3>3. v[Len(w) + Len(b)] = b[Len(b)]
      BY <1>2, <3>2
    <3>4. Len(b) \in 1 .. Len(b) /\ v[Len(v)] = b[Len(b)] /\ Len(v) # 0
      BY <3>1, <3>2, <3>3
    <3>5. Before(b[Len(b)]) = Len(s) + at[Len(b)] /\ at[Len(b)] + Len(b[Len(b)].evs) = Len(t)
      BY <1>3, <1>f, <3>4
    <3>6. at[Len(b)] \in Nat /\ Len(b[Len(b)].evs) \in Nat
      BY <1>f, <3>4
    <3>7. LastIn(v, r) = Before(b[Len(b)]) + Len(b[Len(b)].evs)
      BY <3>4 DEF LastIn
    <3>8. Len(s) \in Nat /\ Len(t) \in Nat /\ Len(s \o t) = Len(s) + Len(t)
      BY <1>1
    <3> DEFINE last == b[Len(b)]
    <3> HIDE DEF last
    <3>9. /\ Before(last) = Len(s) + at[Len(b)] /\ at[Len(b)] + Len(last.evs) = Len(t)
          /\ Len(last.evs) \in Nat /\ LastIn(v, r) = Before(last) + Len(last.evs)
      BY <3>5, <3>6, <3>7 DEF last
    <3>10. (Len(s) + at[Len(b)]) + Len(last.evs) = Len(s) + (at[Len(b)] + Len(last.evs))
      BY <3>6, <3>8, <3>9
    <3> QED BY <3>8, <3>9, <3>10
  <2> QED BY <1>2, <2>1, <2>2
<1>8. Chain(v, s \o t, r)
  BY <1>4, <1>5, <1>6 DEF Chain
<1> QED BY <1>7, <1>8 DEF v

(* Events appended later do not break a promise made about a frame before     *)
(* them, and one made after all that was sent says nothing.                   *)
LEMMA AfterMore ==
  ASSUME NEW s \in Seq(SentEvents), NEW t \in Seq(SentEvents), NEW c, NEW f, After(s, c, f),
         \A i \in 1 .. Len(t) : t[i].frame >= f
  PROVE  After(s \o t, c, f)
<1>1. /\ Len(s \o t) = Len(s) + Len(t) /\ Len(s) \in Nat /\ Len(t) \in Nat
      /\ \A i \in 1 .. Len(s) + Len(t) : (s \o t)[i] = IF i <= Len(s) THEN s[i] ELSE t[i - Len(s)]
  BY ConcatProperties
<1> SUFFICES ASSUME NEW k \in 1 .. Len(s) + Len(t), k > c PROVE (s \o t)[k].frame >= f
  BY <1>1 DEF After
<1>2. CASE k <= Len(s)
  <2>1. k \in 1 .. Len(s) /\ (s \o t)[k] = s[k]
    BY <1>1, <1>2
  <2> QED BY <2>1 DEF After
<1>3. CASE k > Len(s)
  <2>1. k - Len(s) \in 1 .. Len(t) /\ (s \o t)[k] = t[k - Len(s)]
    BY <1>1, <1>3
  <2> QED BY <2>1
<1> QED BY <1>1, <1>2, <1>3

(* The types the counting argument needs. *)
LEMMA CountTypes ==
  ASSUME TypeOK
  PROVE  /\ frame \in [Player -> Nat] /\ mySent \in [Player -> Nat] /\ issued \in [Player -> Nat]
         /\ sent \in [Player -> Seq(SentEvents)] /\ outList \in [Player -> Seq(Events)]
         /\ theirRecv \in [Player -> [Player -> Nat]] /\ theirSent \in [Player -> [Player -> Nat]]
         /\ theirFrame \in [Player -> [Player -> Nat \cup {-1}]]
         /\ wire \in [Player -> [Player -> Seq(CommandPackets)]]
         /\ pc \in [Player -> Places] /\ conns \in [Player -> SUBSET Player]
  BY DEF TypeOK, SentEvents

LEMMA SentTypes ==
  ASSUME TypeOK, NEW p \in Player, NEW k \in 1 .. Len(sent[p])
  PROVE  /\ sent[p][k] \in SentEvents /\ sent[p][k].frame \in Nat /\ sent[p][k].due \in Nat
         /\ sent[p][k].ev \in Events
<1>1. sent[p] \in Seq(SentEvents)
  BY CountTypes
<1>2. sent[p][k] \in SentEvents
  BY <1>1
<1> QED BY <1>2 DEF SentEvents

LEMMA WireTypes ==
  ASSUME TypeOK, NEW p \in Player, NEW q \in Player, NEW k \in 1 .. Len(wire[p][q])
  PROVE  /\ wire[p][q][k] \in CommandPackets
         /\ wire[p][q][k].frame \in Nat /\ wire[p][q][k].count \in Nat
         /\ wire[p][q][k].due \in Nat /\ wire[p][q][k].evs \in Seq(Events)
<1>1. wire[p][q] \in Seq(CommandPackets)
  BY CountTypes
<1>2. wire[p][q][k] \in CommandPackets
  BY <1>1
<1> QED BY <1>2 DEF CommandPackets

(* Steps that move neither commands nor counts. *)
CountsKept ==
  /\ UNCHANGED <<wire, theirSent, theirRecv, mySent, sent>> /\ FramesRise
  /\ \A p \in Player : /\ conns'[p] \subseteq conns[p]
                       /\ pc'[p] = "full" <=> pc[p] = "full"
                       /\ pc[p] = "hung" => pc'[p] = "hung"

(* What a packet that has just been sent may say. *)
Honest(m) == /\ m.from \in Player /\ pc[m.from] # "hung"
             /\ m.to \in conns[m.from] /\ m.count = mySent[m.from]

LEMMA NumberedStill ==
  ASSUME TypeOK, TypeOK', Numbered, CountsKept, UNCHANGED <<outList, issued>>
  PROVE  Numbered'
<1> SUFFICES ASSUME NEW p \in Player
             PROVE  /\ issued[p] = Len(sent[p]) + Len(outList[p])
                    /\ \A i \in 1 .. Len(outList[p]) : outList[p][i].no = Len(sent[p]) + i
                    /\ \A k \in 1 .. Len(sent[p]) : sent[p][k].ev.no = k /\ sent[p][k].frame <= frame'[p]
                    /\ \A k, l \in 1 .. Len(sent[p]) : k <= l => sent[p][k].frame <= sent[p][l].frame
                    /\ pc'[p] # "hung" => mySent[p] = Len(sent[p])
  BY DEF Numbered, CountsKept
<1>1. \A k \in 1 .. Len(sent[p]) : sent[p][k].frame \in Nat
  BY SentTypes
<1>2. frame[p] \in Nat /\ frame'[p] \in Nat /\ frame'[p] >= frame[p]
  BY CountTypes, TypeOK' DEF TypeOK, CountsKept, FramesRise
<1>3. \A k \in 1 .. Len(sent[p]) : sent[p][k].ev.no = k /\ sent[p][k].frame <= frame'[p]
  <2> SUFFICES ASSUME NEW k \in 1 .. Len(sent[p])
               PROVE  sent[p][k].ev.no = k /\ sent[p][k].frame <= frame'[p]
    OBVIOUS
  <2>1. sent[p][k].ev.no = k /\ sent[p][k].frame <= frame[p]
    BY DEF Numbered
  <2> QED BY <1>1, <1>2, <2>1
<1> QED BY <1>3 DEF Numbered, CountsKept

LEMMA ChainStill ==
  ASSUME ChainOK, CountsKept
  PROVE  ChainOK'
<1> SUFFICES ASSUME NEW p \in Player, NEW q \in Player, pc'[p] # "full"
             PROVE  Chain(wire[q][p], sent[q], theirRecv[p][q])
  BY DEF ChainOK, CountsKept
<1> QED BY DEF ChainOK, CountsKept

LEMMA PromisesStill ==
  ASSUME TypeOK, Numbered, PromisesOK, CountsKept, \A m \in info' : m \in info \/ Honest(m)
  PROVE  PromisesOK'
<1> SUFFICES ASSUME NEW p \in Player, NEW q \in Player
             PROVE  /\ theirRecv[p][q] <= Len(sent[q])
                    /\ pc'[p] # "full" =>
                         /\ p \in conns'[q] => LastOn(q, p) = Len(sent[q])
                         /\ LastOn(q, p) <= Len(sent[q])
                         /\ theirSent[p][q] <= LastOn(q, p)
                         /\ \A m \in info' : m.from = q /\ m.to = p => m.count <= LastOn(q, p)
                         /\ \A k \in 1 .. Len(wire[q][p]) : wire[q][p][k].count <= LastOn(q, p)
  BY DEF PromisesOK, LastOn, CountsKept
<1>1. pc'[p] # "full" => pc[p] # "full"
  BY DEF CountsKept
<1>2. ASSUME pc[p] # "full", NEW m \in info', m.from = q, m.to = p PROVE m.count <= LastOn(q, p)
  <2>1. CASE m \in info
    BY <1>2, <2>1 DEF PromisesOK
  <2>2. CASE Honest(m)
    <3>1. p \in conns[q] /\ m.count = mySent[q] /\ mySent[q] = Len(sent[q])
      BY <1>2, <2>2 DEF Honest, Numbered
    <3>2. LastOn(q, p) = Len(sent[q])
      BY <1>2, <3>1 DEF PromisesOK
    <3>3. Len(sent[q]) \in Nat
      BY CountTypes
    <3> QED BY <3>1, <3>2, <3>3
  <2> QED BY <2>1, <2>2
<1>3. p \in conns'[q] => p \in conns[q]
  BY DEF CountsKept
<1> QED BY <1>1, <1>2, <1>3 DEF PromisesOK

LEMMA AfterStill ==
  ASSUME TypeOK, Numbered, AfterOK, CountsKept, \A m \in info' : m \in info \/ Honest(m),
         \A p, q \in Player : theirFrame'[p][q] = theirFrame[p][q] \/ theirFrame'[p][q] = 0
  PROVE  AfterOK'
<1>1. \A m \in info' : After(sent[m.from], m.count, m.frame)
  <2> SUFFICES ASSUME NEW m \in info' PROVE After(sent[m.from], m.count, m.frame)
    OBVIOUS
  <2>1. CASE m \in info
    BY <2>1 DEF AfterOK
  <2>2. CASE Honest(m)
    <3>1. m.count = Len(sent[m.from]) /\ m.from \in Player
      BY <2>2 DEF Honest, Numbered
    <3>2. Len(sent[m.from]) \in Nat
      BY <3>1, CountTypes
    <3> QED BY <3>1, <3>2 DEF After
  <2> QED BY <2>1, <2>2
<1>2. ASSUME NEW p \in Player, NEW q \in Player
      PROVE  After(sent[q], theirSent[p][q], theirFrame'[p][q])
  <2>1. CASE theirFrame'[p][q] = theirFrame[p][q]
    BY <2>1 DEF AfterOK
  <2>2. CASE theirFrame'[p][q] = 0
    <3>1. \A k \in 1 .. Len(sent[q]) : sent[q][k].frame \in Nat
      BY SentTypes
    <3> QED BY <2>2, <3>1 DEF After
  <2> QED BY <2>1, <2>2
<1> QED BY <1>1, <1>2 DEF AfterOK, CountsKept

LEMMA CountStill ==
  ASSUME TypeOK, TypeOK', CountInv, CountsKept, UNCHANGED <<outList, issued>>,
         \A m \in info' : m \in info \/ Honest(m),
         \A p, q \in Player : theirFrame'[p][q] = theirFrame[p][q] \/ theirFrame'[p][q] = 0
  PROVE  CountInv'
  BY NumberedStill, ChainStill, PromisesStill, AfterStill DEF CountInv

LEMMA OneMore == \A a, b \in Nat : (a + b) + 1 = a + (b + 1)
OBVIOUS

(* An event put into OutList gets the next number. *)
LEMMA CountQueue ==
  ASSUME TypeOK, TypeOK', CountInv, NEW p \in Player, NEW e, Queued(p, e)
  PROVE  CountInv'
<1>q. /\ outList' = [outList EXCEPT ![p] = Append(outList[p], e)]
      /\ e.no = issued[p] + 1 /\ issued' = [issued EXCEPT ![p] = issued[p] + 1]
      /\ UNCHANGED <<pc, frame, conns, theirFrame, theirSent, theirRecv, mySent, info, wire, sent>>
  BY DEF Queued
<1>1. CountsKept
  BY <1>q, CountTypes DEF CountsKept, FramesRise
<1>2. Numbered'
  <2>a. \A r \in Player :
          /\ \A k \in 1 .. Len(sent[r]) : sent[r][k].ev.no = k /\ sent[r][k].frame <= frame[r]
          /\ \A k, l \in 1 .. Len(sent[r]) : k <= l => sent[r][k].frame <= sent[r][l].frame
          /\ pc[r] # "hung" => mySent[r] = Len(sent[r])
    BY DEF CountInv, Numbered
  <2>b. UNCHANGED <<sent, frame, pc, mySent>>
    BY <1>q
  <2> SUFFICES ASSUME NEW r \in Player
               PROVE  /\ issued'[r] = Len(sent[r]) + Len(outList'[r])
                      /\ \A i \in 1 .. Len(outList'[r]) : outList'[r][i].no = Len(sent[r]) + i
    BY <2>a, <2>b DEF Numbered
  <2>1. /\ issued[r] = Len(sent[r]) + Len(outList[r])
        /\ \A i \in 1 .. Len(outList[r]) : outList[r][i].no = Len(sent[r]) + i
    BY DEF CountInv, Numbered
  <2>2. /\ outList \in [Player -> Seq(Events)] /\ issued \in [Player -> Nat]
        /\ Len(sent[r]) \in Nat /\ Len(outList[r]) \in Nat
    <3>1. outList[r] \in Seq(Events) /\ sent[r] \in Seq(SentEvents)
      BY CountTypes
    <3>2. outList \in [Player -> Seq(Events)] /\ issued \in [Player -> Nat]
      BY CountTypes
    <3> QED BY <3>1, <3>2
  <2>3. CASE r # p
    BY <1>q, <2>1, <2>2, <2>3
  <2>4. CASE r = p
    <3>1. outList'[p] = Append(outList[p], e) /\ issued'[p] = issued[p] + 1
      BY <1>q, <2>2
    <3>2. e \in Events
      <4>1. outList'[p] \in Seq(Events)
        BY DEF TypeOK
      <4>2. Append(outList[p], e) \in Seq(Events)
        BY <3>1, <4>1
      <4>3. Len(Append(outList[p], e)) = Len(outList[p]) + 1 /\ Append(outList[p], e)[Len(outList[p]) + 1] = e
        BY <2>2
      <4>4. Len(outList[p]) + 1 \in 1 .. Len(Append(outList[p], e))
        BY <2>2, <2>4, <4>3
      <4> QED BY <4>2, <4>3, <4>4
    <3>3. /\ Len(outList'[p]) = Len(outList[p]) + 1
          /\ \A i \in 1 .. Len(outList[p]) : outList'[p][i] = outList[p][i]
          /\ outList'[p][Len(outList[p]) + 1] = e
      BY <2>2, <3>1, <3>2, AppendProperties
    <3>4. ASSUME NEW i \in 1 .. Len(outList'[p]) PROVE outList'[p][i].no = Len(sent[p]) + i
      <4>1. CASE i <= Len(outList[p])
        BY <2>1, <2>2, <2>4, <3>3, <4>1
      <4>2. CASE i = Len(outList[p]) + 1
        <5>1. outList'[p][i].no = issued[p] + 1 /\ issued[p] = Len(sent[p]) + Len(outList[p])
          BY <1>q, <2>1, <2>4, <3>3, <4>2
        <5>2. Len(sent[p]) \in Nat /\ Len(outList[p]) \in Nat
          BY <2>2, <2>4
        <5> QED BY <4>2, <5>1, <5>2, OneMore
      <4> QED BY <2>2, <2>4, <3>3, <4>1, <4>2
    <3>5. issued'[p] = Len(sent[p]) + Len(outList'[p])
      <4>1. issued[p] = Len(sent[p]) + Len(outList[p]) /\ Len(sent[p]) \in Nat /\ Len(outList[p]) \in Nat
        BY <2>1, <2>2, <2>4
      <4>2. issued'[p] = issued[p] + 1 /\ Len(outList'[p]) = Len(outList[p]) + 1
        BY <3>1, <3>3
      <4> QED BY <4>1, <4>2, OneMore
    <3> QED BY <2>4, <3>4, <3>5
  <2> QED BY <2>3, <2>4
<1>3. /\ \A m \in info' : m \in info \/ Honest(m)
      /\ \A r, s \in Player : theirFrame'[r][s] = theirFrame[r][s] \/ theirFrame'[r][s] = 0
  BY <1>q
<1> QED BY <1>1, <1>2, <1>3, ChainStill, PromisesStill, AfterStill DEF CountInv

LEMMA SmallMod == \A a, n \in Nat : a < n => a % n = a
OBVIOUS

LEMMA Below == \A a, b, c, n \in Nat : a <= b /\ b + c < n => a < n
OBVIOUS

LEMMA Room == \A a, b, c, n \in Nat : c <= b /\ a + b < n => a + c < n
OBVIOUS

LEMMA Split == \A a, b, n \in Nat : n <= b => a + b = (a + n) + (b - n)
OBVIOUS

LEMMA AfterMax ==
  ASSUME TypeOK, NEW q \in Player, NEW c \in Nat, NEW d \in Nat, NEW f \in Int, NEW g \in Int,
         After(sent[q], c, f), After(sent[q], d, g)
  PROVE  After(sent[q], IF d > c THEN d ELSE c, IF f < g THEN g ELSE f)
<1> SUFFICES ASSUME NEW k \in 1 .. Len(sent[q]), k > IF d > c THEN d ELSE c
             PROVE  sent[q][k].frame >= IF f < g THEN g ELSE f
  BY DEF After
<1>1. k \in Nat /\ sent[q][k].frame \in Nat
  BY SentTypes
<1>2. k > c /\ k > d
  BY <1>1
<1>3. sent[q][k].frame >= f /\ sent[q][k].frame >= g
  BY <1>2 DEF After
<1> QED BY <1>1, <1>3

(* What a machine makes of frame f and count c, which q is right to tell it. *)
LEMMA AfterHeed ==
  ASSUME TypeOK, AfterOK, NEW p \in Player, NEW q \in Player, NEW f \in Nat, NEW c \in Nat,
         Heed(p, q, f, c), After(sent[q], c, f)
  PROVE  \A r, s \in Player : After(sent[s], theirSent'[r][s], theirFrame'[r][s])
<1> SUFFICES ASSUME NEW r \in Player, NEW s \in Player
             PROVE  After(sent[s], theirSent'[r][s], theirFrame'[r][s])
  OBVIOUS
<1>1. After(sent[s], theirSent[r][s], theirFrame[r][s])
  BY DEF AfterOK
<1>2. CASE <<r, s>> # <<p, q>>
  BY <1>1, <1>2, TypeHeed
<1>3. CASE r = p /\ s = q
  <2>1. /\ theirFrame'[p][q] = IF theirFrame[p][q] < f THEN f ELSE theirFrame[p][q]
        /\ theirSent'[p][q] = IF c > theirSent[p][q] THEN c ELSE theirSent[p][q]
    BY TypeHeed
  <2>2. theirFrame[p][q] \in Int /\ theirSent[p][q] \in Nat
    <3>1. /\ theirFrame \in [Player -> [Player -> Nat \cup {-1}]]
          /\ theirSent \in [Player -> [Player -> Nat]]
      BY CountTypes
    <3>2. theirFrame[p][q] \in Nat \cup {-1} /\ theirSent[p][q] \in Nat
      BY <3>1
    <3> QED BY <3>2
  <2>3. After(sent[q], IF c > theirSent[p][q] THEN c ELSE theirSent[p][q],
                       IF theirFrame[p][q] < f THEN f ELSE theirFrame[p][q])
    BY <1>1, <1>3, <2>2, AfterMax
  <2> QED BY <1>3, <2>1, <2>3
<1> QED BY <1>2, <1>3

(* A FRAMEINFO or FRAMESYNC packet is heard. *)
LEMMA CountHearInfo ==
  ASSUME TypeOK, CountInv, NEW p \in Player, NEW m \in info, HearInfo(p, m)
  PROVE  CountInv'
<1> DEFINE q == m.from
<1>1. /\ Waiting(p) /\ m.to = p /\ Heed(p, q, m.frame, m.count)
      /\ UNCHANGED <<pc, frame, conns, theirRecv, mySent, outList, info, wire, issued, sent>>
  BY HearInfoFacts
<1>2. q \in Player /\ m.frame \in Nat /\ m.count \in Nat
  BY InfoFacts
<1>3. Numbered'
  BY <1>1 DEF CountInv, Numbered
<1>4. ChainOK'
  BY <1>1 DEF CountInv, ChainOK
<1>5. PromisesOK'
  <2>1. PromisesOK
    BY DEF CountInv
  <2> SUFFICES ASSUME NEW r \in Player, NEW s \in Player, pc[r] # "full"
               PROVE  theirSent'[r][s] <= LastOn(s, r)
    BY <1>1, <2>1 DEF PromisesOK, LastOn
  <2>2. theirSent[r][s] <= LastOn(s, r)
    BY <2>1 DEF PromisesOK
  <2>3. CASE <<r, s>> # <<p, q>>
    BY <1>1, <1>2, <2>2, <2>3, TypeHeed
  <2>4. CASE r = p /\ s = q
    <3>1. m.count <= LastOn(q, p)
      BY <1>1, <1>2, <2>1, <2>4 DEF PromisesOK
    <3>2. theirSent'[p][q] = IF m.count > theirSent[p][q] THEN m.count ELSE theirSent[p][q]
      BY <1>1, <1>2, TypeHeed
    <3> QED BY <2>2, <2>4, <3>1, <3>2
  <2> QED BY <2>3, <2>4
<1>6. AfterOK'
  <2>1. AfterOK /\ After(sent[q], m.count, m.frame)
    BY DEF CountInv, AfterOK
  <2>2. \A r, s \in Player : After(sent[s], theirSent'[r][s], theirFrame'[r][s])
    BY <1>1, <1>2, <2>1, AfterHeed
  <2> QED BY <1>1, <2>1, <2>2 DEF AfterOK
<1> QED BY <1>3, <1>4, <1>5, <1>6 DEF CountInv

(* The first command packet on its way is taken. *)
LEMMA CountHearCommands ==
  ASSUME TypeOK, TypeOK', CountInv, AllFit, NEW p \in Player, NEW q \in Player, HearCommands(p, q)
  PROVE  CountInv'
<1> DEFINE w == wire[q][p]
           m == w[1]
           r == theirRecv[p][q]
<1>1. /\ Waiting(p) /\ q \in conns[p] /\ Len(w) > 0 /\ Heed(p, q, m.frame, m.count)
      /\ m.frame \in Nat /\ m.count \in Nat
      /\ \/ /\ UNCHANGED pc
            /\ theirRecv' = [theirRecv EXCEPT ![p] =
                 [theirRecv[p] EXCEPT ![q] = (r + Len(m.evs)) % CountSpace]]
         \/ pc' = [pc EXCEPT ![p] = "full"] /\ UNCHANGED theirRecv
      /\ wire' = [wire EXCEPT ![q] = [wire[q] EXCEPT ![p] = Tail(w)]]
      /\ UNCHANGED <<frame, conns, mySent, outList, info, issued, sent>>
  BY HearFacts
<1>t. /\ w \in Seq(CommandPackets) /\ r \in Nat /\ sent[q] \in Seq(SentEvents)
      /\ \A a, b \in Player : theirSent[a][b] \in Nat
      /\ \A a, b \in Player : wire[a][b] \in Seq(CommandPackets)
      /\ theirRecv \in [Player -> [Player -> Nat]]
      /\ wire \in [Player -> [Player -> Seq(CommandPackets)]]
      /\ pc \in [Player -> Places]
  <2>1. /\ theirRecv \in [Player -> [Player -> Nat]] /\ theirSent \in [Player -> [Player -> Nat]]
        /\ wire \in [Player -> [Player -> Seq(CommandPackets)]]
        /\ pc \in [Player -> Places] /\ sent \in [Player -> Seq(SentEvents)]
    BY CountTypes
  <2>2. r \in Nat
    BY <2>1
  <2>3. \A a, b \in Player : wire[a][b] \in Seq(CommandPackets)
    BY <2>1
  <2>4. \A a, b \in Player : theirSent[a][b] \in Nat
    BY <2>1
  <2> QED BY <2>1, <2>2, <2>3, <2>4
<1>i. Numbered /\ ChainOK /\ PromisesOK /\ AfterOK
  BY DEF CountInv
<1>f. pc[p] # "full"
  BY <1>1 DEF Waiting
<1>2. /\ Chain(Tail(w), sent[q], r + Len(m.evs))
      /\ LastIn(Tail(w), r + Len(m.evs)) = LastIn(w, r)
      /\ r + Len(m.evs) <= Len(sent[q]) /\ Len(m.evs) \in Nat
  <2>1. Chain(w, sent[q], r)
    BY <1>f, <1>i DEF ChainOK
  <2>2. m = w[1]
    OBVIOUS
  <2>3. w \in Seq(CommandPackets) /\ sent[q] \in Seq(SentEvents) /\ r \in Nat /\ Len(w) > 0
    BY <1>1, <1>t
  <2> HIDE DEF w, m, r
  <2> QED BY <2>1, <2>2, <2>3, ChainTail
<1>3. (r + Len(m.evs)) % CountSpace = r + Len(m.evs)
  <2>1. issued[q] = Len(sent[q]) + Len(outList[q]) /\ issued[q] < CountSpace
    BY <1>i DEF Numbered, AllFit
  <2>2. Len(sent[q]) \in Nat /\ Len(outList[q]) \in Nat /\ CountSpace \in Nat
    <3>1. outList[q] \in Seq(Events)
      BY CountTypes
    <3> QED BY <1>t, <3>1, Bounds
  <2>3. r + Len(m.evs) \in Nat /\ r + Len(m.evs) < CountSpace
    <3>1. Len(sent[q]) + Len(outList[q]) < CountSpace
      BY <2>1
    <3>2. r + Len(m.evs) \in Nat
      BY <1>t, <1>2
    <3> QED BY <1>2, <2>2, <3>1, <3>2, Below
  <2> QED BY <2>2, <2>3, SmallMod
<1>4. /\ Tail(w) \in Seq(CommandPackets)
      /\ \A k \in 1 .. Len(Tail(w)) : k + 1 \in 1 .. Len(w) /\ Tail(w)[k] = w[k + 1]
  <2>1. /\ Tail(w) \in Seq(CommandPackets) /\ Len(Tail(w)) = Len(w) - 1 /\ Len(w) \in Nat
        /\ \A k \in 1 .. Len(Tail(w)) : Tail(w)[k] = w[k + 1]
    BY <1>1, <1>t, HeadTailProperties
  <2> QED BY <2>1
<1>5. 1 \in 1 .. Len(w)
  BY <1>1, <1>t
<1>6. \A a, b \in Player : <<a, b>> # <<q, p>> => wire'[a][b] = wire[a][b]
  <2> SUFFICES ASSUME NEW a \in Player, NEW b \in Player, <<a, b>> # <<q, p>>
               PROVE  wire'[a][b] = wire[a][b]
    OBVIOUS
  <2>1. wire'[a] = IF a = q THEN [wire[q] EXCEPT ![p] = Tail(w)] ELSE wire[a]
    BY <1>1, <1>t
  <2>2. CASE a # q
    BY <2>1, <2>2
  <2>3. CASE a = q
    <3>1. b # p
      BY <2>3
    <3>2. wire[q] \in [Player -> Seq(CommandPackets)]
      BY <1>t
    <3> QED BY <2>1, <2>3, <3>1, <3>2
  <2> QED BY <2>2, <2>3
<1>7. wire'[q][p] = Tail(w)
  <2>1. wire'[q] = [wire[q] EXCEPT ![p] = Tail(w)]
    BY <1>1, <1>t
  <2>2. wire[q] \in [Player -> Seq(CommandPackets)]
    BY <1>t
  <2> QED BY <2>1, <2>2
<1>8. \A a, b \in Player : <<a, b>> # <<p, q>> => theirRecv'[a][b] = theirRecv[a][b]
  <2> SUFFICES ASSUME NEW a \in Player, NEW b \in Player, <<a, b>> # <<p, q>>
               PROVE  theirRecv'[a][b] = theirRecv[a][b]
    OBVIOUS
  <2>1. \/ UNCHANGED theirRecv
        \/ theirRecv'[a] = IF a = p THEN [theirRecv[p] EXCEPT ![q] = (r + Len(m.evs)) % CountSpace]
                                    ELSE theirRecv[a]
    BY <1>1, <1>t
  <2>2. CASE a # p \/ UNCHANGED theirRecv
    BY <2>1, <2>2
  <2>3. CASE a = p
    <3>1. b # q
      BY <2>3
    <3>2. theirRecv[p] \in [Player -> Nat]
      BY <1>t
    <3> QED BY <2>1, <2>3, <3>1, <3>2
  <2> QED BY <2>2, <2>3
<1>9. \/ UNCHANGED pc /\ theirRecv'[p][q] = r + Len(m.evs)
      \/ pc'[p] = "full" /\ theirRecv'[p][q] = r
  <2>1. CASE /\ UNCHANGED pc
             /\ theirRecv' = [theirRecv EXCEPT ![p] = [theirRecv[p] EXCEPT ![q] = r + Len(m.evs)]]
    <3>1. theirRecv'[p] = [theirRecv[p] EXCEPT ![q] = r + Len(m.evs)]
      BY <1>t, <2>1
    <3>2. theirRecv[p] \in [Player -> Nat]
      BY <1>t
    <3> QED BY <2>1, <3>1, <3>2
  <2>2. CASE pc' = [pc EXCEPT ![p] = "full"] /\ UNCHANGED theirRecv
    BY <1>t, <2>2
  <2> QED BY <1>1, <1>3, <2>1, <2>2
<1>10. \A a \in Player : /\ pc'[a] # "full" => pc[a] # "full"
                         /\ pc'[a] # "hung" => pc[a] # "hung"
  <2> SUFFICES ASSUME NEW a \in Player PROVE /\ pc'[a] # "full" => pc[a] # "full"
                                             /\ pc'[a] # "hung" => pc[a] # "hung"
    OBVIOUS
  <2>1. CASE UNCHANGED pc
    BY <2>1
  <2>2. CASE pc' = [pc EXCEPT ![p] = "full"]
    <3>1. pc[p] # "hung"
      BY <1>1 DEF Waiting
    <3> QED BY <1>t, <2>2, <3>1
  <2> QED BY <1>1, <2>1, <2>2
<1> HIDE DEF w, m, r
<1>11. Numbered'
  BY <1>1, <1>i, <1>10 DEF Numbered
<1>12. \A a, b \in Player : pc'[a] # "full" => LastOn(b, a)' = LastOn(b, a)
  <2> SUFFICES ASSUME NEW a \in Player, NEW b \in Player, pc'[a] # "full"
               PROVE  LastIn(wire'[b][a], theirRecv'[a][b]) = LastIn(wire[b][a], theirRecv[a][b])
    BY DEF LastOn
  <2>1. CASE <<a, b>> # <<p, q>>
    <3>1. wire'[b][a] = wire[b][a] /\ theirRecv'[a][b] = theirRecv[a][b]
      BY <1>6, <1>8, <2>1
    <3> QED BY <3>1
  <2>2. CASE a = p /\ b = q
    BY <1>2, <1>7, <1>9, <2>2 DEF w, r
  <2> QED BY <2>1, <2>2
<1>13. ChainOK'
  <2> SUFFICES ASSUME NEW a \in Player, NEW b \in Player, pc'[a] # "full"
               PROVE  Chain(wire'[b][a], sent[b], theirRecv'[a][b])
    BY <1>1 DEF ChainOK
  <2>1. CASE <<a, b>> # <<p, q>>
    <3>1. wire'[b][a] = wire[b][a] /\ theirRecv'[a][b] = theirRecv[a][b] /\ pc[a] # "full"
      BY <1>6, <1>8, <1>10, <2>1
    <3> QED BY <1>i, <3>1 DEF ChainOK
  <2>2. CASE a = p /\ b = q
    BY <1>2, <1>7, <1>9, <2>2
  <2> QED BY <2>1, <2>2
<1>14. \A a, b \in Player : pc'[a] # "full" => theirSent'[a][b] <= LastOn(b, a)
  <2> SUFFICES ASSUME NEW a \in Player, NEW b \in Player, pc[a] # "full"
               PROVE  theirSent'[a][b] <= LastOn(b, a)
    BY <1>10
  <2>1. theirSent[a][b] <= LastOn(b, a)
    BY <1>i DEF PromisesOK
  <2>2. CASE <<a, b>> # <<p, q>>
    <3>1. theirSent'[a][b] = theirSent[a][b]
      <4>1. Heed(p, q, m.frame, m.count) /\ m.frame \in Nat /\ m.count \in Nat
        BY <1>1
      <4> HIDE DEF m
      <4> QED BY <2>2, <4>1, TypeHeed
    <3> QED BY <2>1, <3>1
  <2>3. CASE a = p /\ b = q
    <3>1. m.count <= LastOn(q, p)
      BY <1>5, <1>f, <1>i DEF PromisesOK, w, m
    <3>2. theirSent'[p][q] = IF m.count > theirSent[p][q] THEN m.count ELSE theirSent[p][q]
      BY <1>1, TypeHeed
    <3> QED BY <2>1, <2>3, <3>1, <3>2
  <2> QED BY <2>2, <2>3
<1>15. \A a, b \in Player : \A k \in 1 .. Len(wire'[b][a]) :
         \E l \in 1 .. Len(wire[b][a]) : wire'[b][a][k] = wire[b][a][l]
  <2> SUFFICES ASSUME NEW a \in Player, NEW b \in Player, NEW k \in 1 .. Len(wire'[b][a])
               PROVE  \E l \in 1 .. Len(wire[b][a]) : wire'[b][a][k] = wire[b][a][l]
    OBVIOUS
  <2>1. CASE <<a, b>> # <<p, q>>
    <3>1. wire'[b][a] = wire[b][a]
      BY <1>6, <2>1
    <3> QED BY <3>1
  <2>2. CASE a = p /\ b = q
    <3>1. k + 1 \in 1 .. Len(w) /\ wire'[b][a][k] = w[k + 1]
      BY <1>4, <1>7, <2>2
    <3> QED BY <2>2, <3>1 DEF w
  <2> QED BY <2>1, <2>2
<1>16. PromisesOK'
  <2> SUFFICES ASSUME NEW a \in Player, NEW b \in Player
               PROVE  /\ theirRecv'[a][b] <= Len(sent[b])
                      /\ pc'[a] # "full" =>
                           /\ a \in conns[b] => LastOn(b, a)' = Len(sent[b])
                           /\ LastOn(b, a)' <= Len(sent[b])
                           /\ theirSent'[a][b] <= LastOn(b, a)'
                           /\ \A x \in info : x.from = b /\ x.to = a => x.count <= LastOn(b, a)'
                           /\ \A k \in 1 .. Len(wire'[b][a]) : wire'[b][a][k].count <= LastOn(b, a)'
    BY <1>1 DEF PromisesOK
  <2>1. theirRecv'[a][b] <= Len(sent[b])
    <3>1. CASE <<a, b>> # <<p, q>>
      BY <1>8, <1>i, <3>1 DEF PromisesOK
    <3>2. CASE a = p /\ b = q
      <4>1. r <= Len(sent[q])
        BY <1>i DEF PromisesOK, r
      <4> QED BY <1>2, <1>9, <3>2, <4>1
    <3> QED BY <3>1, <3>2
  <2>2. ASSUME pc'[a] # "full"
        PROVE  /\ a \in conns[b] => LastOn(b, a) = Len(sent[b])
               /\ LastOn(b, a) <= Len(sent[b])
               /\ \A x \in info : x.from = b /\ x.to = a => x.count <= LastOn(b, a)
               /\ \A k \in 1 .. Len(wire'[b][a]) : wire'[b][a][k].count <= LastOn(b, a)
    BY <1>10, <1>15, <1>i, <2>2 DEF PromisesOK
  <2> QED BY <1>12, <1>14, <2>1, <2>2
<1>17. AfterOK'
  <2>1. After(sent[q], m.count, m.frame)
    BY <1>5, <1>i DEF AfterOK, w, m
  <2>2. \A a, b \in Player : After(sent[b], theirSent'[a][b], theirFrame'[a][b])
    BY <1>1, <1>i, <2>1, AfterHeed
  <2>3. \A a, b \in Player : \A k \in 1 .. Len(wire'[b][a]) :
          After(sent[b], wire'[b][a][k].count, wire'[b][a][k].frame)
    <3> SUFFICES ASSUME NEW a \in Player, NEW b \in Player, NEW k \in 1 .. Len(wire'[b][a])
                 PROVE  After(sent[b], wire'[b][a][k].count, wire'[b][a][k].frame)
      OBVIOUS
    <3>1. PICK l \in 1 .. Len(wire[b][a]) : wire'[b][a][k] = wire[b][a][l]
      BY <1>15
    <3>2. After(sent[b], wire[b][a][l].count, wire[b][a][l].frame)
      BY <1>i DEF AfterOK
    <3> QED BY <3>1, <3>2
  <2> QED BY <1>1, <1>i, <2>2, <2>3 DEF AfterOK
<1> QED BY <1>11, <1>13, <1>16, <1>17 DEF CountInv

LEMMA LastType ==
  ASSUME NEW w \in Seq(CommandPackets), NEW s, NEW r \in Nat, Chain(w, s, r)
  PROVE  LastIn(w, r) \in Nat
<1>1. CASE Len(w) = 0
  BY <1>1 DEF LastIn
<1>2. CASE Len(w) # 0
  <2>1. Len(w) \in 1 .. Len(w)
    BY <1>2
  <2>2. Before(w[Len(w)]) \in Nat
    BY <2>1 DEF Chain, Carries
  <2>3. w[Len(w)] \in CommandPackets
    BY <2>1
  <2>4. Len(w[Len(w)].evs) \in Nat
    BY <2>3 DEF CommandPackets
  <2> QED BY <1>2, <2>2, <2>4 DEF LastIn
<1> QED BY <1>1, <1>2

LEMMA JoinFacts ==
  ASSUME NEW S, NEW v \in Seq(S), NEW w \in Seq(S), NEW k \in 1 .. Len(v \o w)
  PROVE  \/ \E l \in 1 .. Len(v) : (v \o w)[k] = v[l]
         \/ \E l \in 1 .. Len(w) : (v \o w)[k] = w[l]
<1>1. /\ Len(v \o w) = Len(v) + Len(w) /\ Len(v) \in Nat /\ Len(w) \in Nat
      /\ \A i \in 1 .. Len(v) + Len(w) : (v \o w)[i] = IF i <= Len(v) THEN v[i] ELSE w[i - Len(v)]
  BY ConcatProperties
<1>2. CASE k <= Len(v)
  <2>1. k \in 1 .. Len(v) /\ (v \o w)[k] = v[k]
    BY <1>1, <1>2
  <2> QED BY <2>1
<1>3. CASE k > Len(v)
  <2>1. k - Len(v) \in 1 .. Len(w) /\ (v \o w)[k] = w[k - Len(v)]
    BY <1>1, <1>3
  <2> QED BY <2>1
<1> QED BY <1>1, <1>2, <1>3

(* Events leave for every peer: the packets that carry them follow those on   *)
(* their way.                                                                 *)
LEMMA CountSend ==
  ASSUME TypeOK, TypeOK', HeardOK, CountInv, AllFit, NEW p \in Player, NEW load \in Loads,
         Send(p, load)
  PROVE  CountInv'
<1> DEFINE n == Leaving(p, load)
           s == sent[p]
           t == Outgoing(p, n)
           b == Packets(p, n)
<1>1. /\ n \in Nat /\ n <= Len(outList[p]) /\ pc[p] = "play"
      /\ outList' = [outList EXCEPT ![p] = SubSeq(outList[p], n + 1, Len(outList[p]))]
      /\ wire' = [wire EXCEPT ![p] = [q \in Player |->
           IF q \in conns[p] THEN wire[p][q] \o b ELSE wire[p][q]]]
      /\ info' = IF n = 0 THEN Broadcast(p, frame[p]) ELSE info
      /\ sent' = [sent EXCEPT ![p] = s \o t]
      /\ \/ /\ pc' = [pc EXCEPT ![p] = "wait"]
            /\ mySent' = [mySent EXCEPT ![p] = (mySent[p] + n) % CountSpace]
         \/ pc' = [pc EXCEPT ![p] = "hung"] /\ UNCHANGED mySent
      /\ UNCHANGED <<frame, conns, theirFrame, theirSent, theirRecv, issued>>
  BY SendFacts
<1> HIDE DEF n
<1>i. Numbered /\ ChainOK /\ PromisesOK /\ AfterOK
  BY DEF CountInv
<1>t. /\ outList[p] \in Seq(Events) /\ s \in Seq(SentEvents) /\ frame[p] \in Nat
      /\ outList \in [Player -> Seq(Events)] /\ sent \in [Player -> Seq(SentEvents)]
      /\ wire \in [Player -> [Player -> Seq(CommandPackets)]]
      /\ \A q, r \in Player : wire[q][r] \in Seq(CommandPackets)
      /\ \A q, r \in Player : theirRecv[q][r] \in Nat
      /\ \A q, r \in Player : theirSent[q][r] \in Nat
      /\ pc \in [Player -> Places] /\ mySent \in [Player -> Nat]
      /\ \A q \in Player : sent[q] \in Seq(SentEvents)
  <2>1. /\ outList \in [Player -> Seq(Events)] /\ sent \in [Player -> Seq(SentEvents)]
        /\ frame \in [Player -> Nat]
        /\ wire \in [Player -> [Player -> Seq(CommandPackets)]]
        /\ pc \in [Player -> Places] /\ mySent \in [Player -> Nat]
        /\ theirRecv \in [Player -> [Player -> Nat]] /\ theirSent \in [Player -> [Player -> Nat]]
    BY CountTypes
  <2>2. \A q, r \in Player : wire[q][r] \in Seq(CommandPackets)
    BY <2>1
  <2>3. \A q, r \in Player : theirRecv[q][r] \in Nat /\ theirSent[q][r] \in Nat
    BY <2>1
  <2>4. \A q \in Player : sent[q] \in Seq(SentEvents)
    BY <2>1
  <2> QED BY <2>1, <2>2, <2>3, <2>4
<1>l. Len(s) \in Nat /\ Len(outList[p]) \in Nat
  BY <1>t
<1>o. /\ t \in Seq(SentEvents) /\ Len(t) = n
      /\ \A i \in 1 .. n : t[i] = [frame |-> frame[p], due |-> frame[p] + ahead[p], ev |-> outList[p][i]]
  BY <1>1, OutgoingFacts
<1>b. /\ b \in Seq(CommandPackets) /\ (b = << >> <=> n = 0)
      /\ \A k \in 1 .. Len(b) : /\ b[k].frame = frame[p]
                                /\ b[k].due = frame[p] + ahead[p]
                                /\ b[k].count = mySent[p]
  BY <1>1, PacketsFacts
<1>n. /\ issued[p] = Len(s) + Len(outList[p]) /\ mySent[p] = Len(s)
      /\ \A i \in 1 .. Len(outList[p]) : outList[p][i].no = Len(s) + i
  BY <1>1, <1>i DEF Numbered
<1>m. (mySent[p] + n) % CountSpace = Len(s) + n /\ Len(s) + n \in Nat
  <2>1. Len(s) + Len(outList[p]) < CountSpace /\ CountSpace \in Nat
    BY <1>n, Bounds DEF AllFit
  <2>2. Len(s) + n \in Nat /\ Len(s) + n < CountSpace
    <3>1. Len(s) + n \in Nat
      BY <1>1, <1>l
    <3> QED BY <1>1, <1>l, <2>1, <3>1, Room
  <2> QED BY <1>n, <2>1, <2>2, SmallMod
<1> HIDE DEF s, t, b
<1>c. /\ s \o t \in Seq(SentEvents) /\ Len(s \o t) = Len(s) + n
      /\ \A k \in 1 .. Len(s) : (s \o t)[k] = s[k]
      /\ \A i \in 1 .. n : (s \o t)[Len(s) + i] = t[i]
  <2>1. /\ s \o t \in Seq(SentEvents) /\ Len(s \o t) = Len(s) + Len(t)
        /\ \A k \in 1 .. Len(s) + Len(t) : (s \o t)[k] = IF k <= Len(s) THEN s[k] ELSE t[k - Len(s)]
    BY <1>o, <1>t, ConcatProperties
  <2>2. ASSUME NEW k \in 1 .. Len(s) PROVE (s \o t)[k] = s[k]
    <3>1. k \in 1 .. Len(s) + Len(t) /\ k <= Len(s)
      BY <1>1, <1>l, <1>o
    <3> QED BY <2>1, <3>1
  <2>3. ASSUME NEW i \in 1 .. n PROVE (s \o t)[Len(s) + i] = t[i]
    <3>1. Len(s) + i \in 1 .. Len(s) + Len(t) /\ ~ (Len(s) + i <= Len(s)) /\ (Len(s) + i) - Len(s) = i
      BY <1>1, <1>l, <1>o
    <3> QED BY <2>1, <3>1
  <2> QED BY <1>o, <2>1, <2>2, <2>3
<1>s. /\ sent'[p] = s \o t /\ \A q \in Player : q # p => sent'[q] = sent[q]
  BY <1>1, <1>t
<1>w. /\ \A q \in conns[p] : wire'[p][q] = wire[p][q] \o b
      /\ \A q, r \in Player : q # p \/ r \notin conns[p] => wire'[q][r] = wire[q][r]
      /\ conns[p] \subseteq Player
  <2>1. conns[p] \subseteq Player
    BY DEF TypeOK
  <2> QED BY <1>1, <1>t, <2>1
<1>p. /\ \A q \in Player : pc'[q] # "full" => pc[q] # "full"
      /\ \A q \in Player : pc'[q] # "hung" => pc[q] # "hung"
      /\ \A q \in Player : pc[q] # "hung" => mySent[q] = Len(sent[q])
  BY <1>1, <1>i, <1>t DEF Numbered
(* the new Numbered *)
<1>2. Numbered'
  <2> SUFFICES ASSUME NEW q \in Player
               PROVE  /\ issued[q] = Len(sent'[q]) + Len(outList'[q])
                      /\ \A i \in 1 .. Len(outList'[q]) : outList'[q][i].no = Len(sent'[q]) + i
                      /\ \A k \in 1 .. Len(sent'[q]) : sent'[q][k].ev.no = k /\ sent'[q][k].frame <= frame[q]
                      /\ \A k, l \in 1 .. Len(sent'[q]) : k <= l => sent'[q][k].frame <= sent'[q][l].frame
                      /\ pc'[q] # "hung" => mySent'[q] = Len(sent'[q])
    BY <1>1 DEF Numbered
  <2>1. CASE q # p
    <3>1. sent'[q] = sent[q] /\ outList'[q] = outList[q] /\ pc'[q] = pc[q] /\ mySent'[q] = mySent[q]
      BY <1>1, <1>s, <1>t, <2>1
    <3> QED BY <1>i, <3>1 DEF Numbered
  <2>2. CASE q = p
    <3> DEFINE o == outList'[p]
    <3>1. /\ Len(o) = Len(outList[p]) - n
          /\ \A i \in 1 .. Len(outList[p]) - n : o[i] = outList[p][n + i]
      <4>1. o = SubSeq(outList[p], n + 1, Len(outList[p]))
        BY <1>1, <1>t
      <4> QED BY <1>1, <1>t, <4>1, RestFacts
    <3> HIDE DEF o
    <3>2. issued[p] = Len(s \o t) + Len(o)
      <4>1. Len(s) + Len(outList[p]) = (Len(s) + n) + (Len(outList[p]) - n)
        BY <1>1, <1>l, Split
      <4> QED BY <1>c, <1>n, <3>1, <4>1
    <3>3. ASSUME NEW i \in 1 .. Len(o) PROVE o[i].no = Len(s \o t) + i
      <4>1. n + i \in 1 .. Len(outList[p]) /\ o[i] = outList[p][n + i] /\ i \in Nat
        BY <1>1, <1>l, <3>1
      <4>2. o[i].no = Len(s) + (n + i)
        BY <1>n, <4>1
      <4>3. Len(s) + (n + i) = (Len(s) + n) + i
        BY <1>1, <1>l, <4>1
      <4> QED BY <1>c, <4>2, <4>3
    <3>4. ASSUME NEW k \in 1 .. Len(s \o t)
          PROVE  /\ (s \o t)[k].ev.no = k /\ (s \o t)[k].frame \in Nat
                 /\ (s \o t)[k].frame <= frame[p]
                 /\ k > Len(s) => (s \o t)[k].frame = frame[p]
      <4>1. CASE k <= Len(s)
        <5>1. k \in 1 .. Len(s) /\ (s \o t)[k] = s[k]
          BY <1>c, <1>l, <4>1
        <5>2. s[k].ev.no = k /\ s[k].frame <= frame[p] /\ s[k].frame \in Nat
          BY <1>i, <5>1, SentTypes DEF Numbered, s
        <5> QED BY <1>l, <4>1, <5>1, <5>2
      <4>2. CASE k > Len(s)
        <5>1. PICK i \in 1 .. n : k = Len(s) + i
          <6>1. k - Len(s) \in 1 .. n /\ k = Len(s) + (k - Len(s))
            BY <1>1, <1>c, <1>l, <4>2
          <6> QED BY <6>1
        <5>2. (s \o t)[k] = t[i] /\ t[i].frame = frame[p] /\ t[i].ev = outList[p][i]
          BY <1>c, <1>o, <5>1
        <5>3. i \in 1 .. Len(outList[p])
          BY <1>1, <1>l
        <5>4. t[i].ev.no = k
          BY <1>n, <5>1, <5>2, <5>3
        <5> QED BY <1>t, <5>2, <5>4
      <4> QED BY <1>c, <1>l, <1>1, <4>1, <4>2
    <3>5. ASSUME NEW k \in 1 .. Len(s \o t), NEW l \in 1 .. Len(s \o t), k <= l
          PROVE  (s \o t)[k].frame <= (s \o t)[l].frame
      <4>1. CASE l > Len(s)
        BY <3>4, <4>1
      <4>2. CASE l <= Len(s)
        <5>1. k \in 1 .. Len(s) /\ l \in 1 .. Len(s)
          BY <1>l, <1>c, <1>1, <3>5, <4>2
        <5>2. s[k].frame <= s[l].frame
          BY <1>i, <3>5, <5>1 DEF Numbered, s
        <5> QED BY <1>c, <5>1, <5>2
      <4> QED BY <1>l, <1>c, <1>1, <4>1, <4>2
    <3>6. pc'[p] # "hung" => mySent'[p] = Len(s \o t)
      BY <1>1, <1>c, <1>m, <1>t
    <3> QED BY <1>s, <2>2, <3>2, <3>3, <3>4, <3>5, <3>6 DEF o
  <2> QED BY <2>1, <2>2
(* every chain to p's peers now ends with the last event sent *)
<1>3. ASSUME NEW q \in conns[p], pc[q] # "full"
      PROVE  /\ Chain(wire'[p][q], s \o t, theirRecv[q][p])
             /\ LastIn(wire'[p][q], theirRecv[q][p]) = Len(s \o t)
  <2> DEFINE w == wire[p][q]
             r == theirRecv[q][p]
  <2>0. q \in Player
    BY <1>w
  <2>1. w \in Seq(CommandPackets) /\ r \in Nat /\ wire'[p][q] = w \o b
    BY <1>t, <1>w, <2>0
  <2>2. Chain(w, s, r) /\ LastIn(w, r) = Len(s)
    BY <1>3, <1>i, <2>0 DEF ChainOK, PromisesOK, LastOn, s
  <2> HIDE DEF w, r
  <2>3. PICK at \in [1 .. Len(b) -> Nat] : \A k \in 1 .. Len(b) :
          /\ Len(b[k].evs) \in Nat \ {0}
          /\ at[k] + Len(b[k].evs) <= n
          /\ \A i \in 1 .. Len(b[k].evs) : b[k].evs[i] = outList[p][at[k] + i]
          /\ k = 1 => at[k] = 0
          /\ k < Len(b) => at[k + 1] = at[k] + Len(b[k].evs)
          /\ k = Len(b) => at[k] + Len(b[k].evs) = n
    BY <1>1, PacketsFacts DEF b
  <2>4. ASSUME NEW k \in 1 .. Len(b), NEW i \in 1 .. Len(b[k].evs)
        PROVE  /\ b[k].evs[i] = t[at[k] + i].ev /\ b[k].due = t[at[k] + i].due
               /\ b[k].evs[i].no = Len(s) + (at[k] + i)
    <3>1. at[k] \in Nat /\ Len(b[k].evs) \in Nat /\ at[k] + Len(b[k].evs) <= n
      BY <2>3
    <3>2. at[k] + i \in 1 .. n /\ at[k] + i \in 1 .. Len(outList[p])
      BY <1>1, <1>l, <3>1
    <3>3. b[k].evs[i] = outList[p][at[k] + i]
      BY <2>3
    <3>4. t[at[k] + i].ev = outList[p][at[k] + i] /\ t[at[k] + i].due = frame[p] + ahead[p]
      BY <1>o, <3>2
    <3> QED BY <1>b, <1>n, <3>2, <3>3, <3>4
  <2>5. Len(b) = 0 <=> Len(t) = 0
    BY <1>b, <1>o
  <2>6. Fills(b, t, at, Len(s))
    BY <1>o, <2>3, <2>4 DEF Fills
  <2>7. s \in Seq(SentEvents) /\ t \in Seq(SentEvents) /\ b \in Seq(CommandPackets)
    BY <1>t, <1>o, <1>b
  <2>8. Chain(w \o b, s \o t, r) /\ LastIn(w \o b, r) = Len(s \o t)
    BY <2>1, <2>2, <2>5, <2>6, <2>7, ChainJoin
  <2> QED BY <2>1, <2>8 DEF r
<1>4. ChainOK'
  <2> SUFFICES ASSUME NEW q \in Player, NEW r \in Player, pc[q] # "full"
               PROVE  Chain(wire'[r][q], sent'[r], theirRecv[q][r])
    BY <1>1, <1>p DEF ChainOK
  <2>0. Chain(wire[r][q], sent[r], theirRecv[q][r])
    BY <1>i DEF ChainOK
  <2>1. CASE r # p
    BY <1>s, <1>w, <2>0, <2>1
  <2>2. CASE r = p /\ q \in conns[p]
    BY <1>3, <1>s, <2>2
  <2>3. CASE r = p /\ q \notin conns[p]
    <3>1. wire'[r][q] = wire[p][q] /\ wire[p][q] \in Seq(CommandPackets)
      BY <1>w, <1>t, <2>3
    <3>2. Chain(wire[p][q], s \o t, theirRecv[q][p])
      BY <1>t, <1>o, <2>0, <2>3, <3>1, ChainMore DEF s
    <3> QED BY <1>s, <2>3, <3>1, <3>2
  <2> QED BY <2>1, <2>2, <2>3
<1>5. \A q, r \in Player : pc[q] # "full" => \/ LastOn(r, q)' = LastOn(r, q)
                                             \/ /\ r = p /\ q \in conns[p]
                                                /\ LastOn(r, q) = Len(s) /\ LastOn(r, q)' = Len(s) + n
  <2> SUFFICES ASSUME NEW q \in Player, NEW r \in Player, pc[q] # "full"
               PROVE  \/ LastIn(wire'[r][q], theirRecv[q][r]) = LastOn(r, q)
                      \/ /\ r = p /\ q \in conns[p]
                         /\ LastOn(r, q) = Len(s) /\ LastIn(wire'[r][q], theirRecv[q][r]) = Len(s) + n
    BY <1>1 DEF LastOn
  <2>1. CASE r # p \/ q \notin conns[p]
    BY <1>w, <2>1 DEF LastOn
  <2>2. CASE r = p /\ q \in conns[p]
    <3>1. LastOn(p, q) = Len(s)
      BY <1>i, <2>2 DEF PromisesOK, s
    <3> QED BY <1>3, <1>c, <2>2, <3>1
  <2> QED BY <2>1, <2>2
<1>6. PromisesOK'
  <2> SUFFICES ASSUME NEW q \in Player, NEW r \in Player
               PROVE  /\ theirRecv[q][r] <= Len(sent'[r])
                      /\ pc'[q] # "full" =>
                           /\ q \in conns[r] => LastOn(r, q)' = Len(sent'[r])
                           /\ LastOn(r, q)' <= Len(sent'[r])
                           /\ theirSent[q][r] <= LastOn(r, q)'
                           /\ \A m \in info' : m.from = r /\ m.to = q => m.count <= LastOn(r, q)'
                           /\ \A k \in 1 .. Len(wire'[r][q]) : wire'[r][q][k].count <= LastOn(r, q)'
    BY <1>1 DEF PromisesOK
  <2>1. Len(sent[r]) \in Nat /\ Len(sent'[r]) \in Nat /\ Len(sent[r]) <= Len(sent'[r])
        /\ (r = p => Len(sent'[r]) = Len(s) + n) /\ (r # p => sent'[r] = sent[r])
    <3>1. CASE r = p
      BY <1>1, <1>c, <1>l, <1>s, <3>1 DEF s
    <3>2. CASE r # p
      <4>1. sent[r] \in Seq(SentEvents) /\ sent'[r] = sent[r]
        BY <1>t, <1>s, <3>2
      <4> QED BY <3>2, <4>1
    <3> QED BY <3>1, <3>2
  <2>2. theirRecv[q][r] <= Len(sent'[r])
    <3>1. theirRecv[q][r] \in Nat /\ theirRecv[q][r] <= Len(sent[r])
      BY <1>i, <1>t DEF PromisesOK
    <3> QED BY <2>1, <3>1
  <2> SUFFICES ASSUME pc[q] # "full"
               PROVE  /\ q \in conns[r] => LastOn(r, q)' = Len(sent'[r])
                      /\ LastOn(r, q)' <= Len(sent'[r])
                      /\ theirSent[q][r] <= LastOn(r, q)'
                      /\ \A m \in info' : m.from = r /\ m.to = q => m.count <= LastOn(r, q)'
                      /\ \A k \in 1 .. Len(wire'[r][q]) : wire'[r][q][k].count <= LastOn(r, q)'
    BY <1>p, <2>2
  <2>3. /\ q \in conns[r] => LastOn(r, q) = Len(sent[r])
        /\ LastOn(r, q) <= Len(sent[r])
        /\ theirSent[q][r] <= LastOn(r, q)
        /\ \A m \in info : m.from = r /\ m.to = q => m.count <= LastOn(r, q)
        /\ \A k \in 1 .. Len(wire[r][q]) : wire[r][q][k].count <= LastOn(r, q)
    BY <1>i DEF PromisesOK
  <2>4. LastOn(r, q) \in Nat
    <3>1. Chain(wire[r][q], sent[r], theirRecv[q][r])
      BY <1>i DEF ChainOK
    <3> QED BY <1>t, <3>1, LastType DEF LastOn
  <2>5. \/ LastOn(r, q)' = LastOn(r, q)
        \/ /\ r = p /\ q \in conns[p] /\ LastOn(r, q) = Len(s) /\ LastOn(r, q)' = Len(s) + n
    BY <1>5
  <2>6. /\ LastOn(r, q) <= LastOn(r, q)' /\ LastOn(r, q)' \in Nat
        /\ LastOn(r, q)' <= Len(sent'[r])
        /\ q \in conns[r] => LastOn(r, q)' = Len(sent'[r])
    <3>1. CASE r # p
      BY <2>1, <2>3, <2>4, <2>5, <3>1
    <3>2. CASE r = p /\ q \notin conns[p]
      BY <2>1, <2>3, <2>4, <2>5, <3>2
    <3>3. CASE r = p /\ q \in conns[p]
      <4>1. LastIn(wire'[p][q], theirRecv[q][p]) = Len(s) + n
        BY <1>3, <1>c, <3>3
      <4>2. LastOn(r, q)' = Len(s) + n
        BY <1>1, <3>3, <4>1 DEF LastOn
      <4>3. LastOn(r, q) = Len(s)
        BY <2>3, <3>3 DEF s
      <4> QED BY <1>1, <1>l, <2>1, <3>3, <4>2, <4>3
    <3> QED BY <3>1, <3>2, <3>3
  <2>7. theirSent[q][r] <= LastOn(r, q)'
    <3>1. theirSent[q][r] \in Nat
      BY <1>t
    <3> QED BY <2>3, <2>4, <2>6, <3>1
  <2>8. ASSUME NEW m \in info', m.from = r, m.to = q PROVE m.count <= LastOn(r, q)'
    <3>1. CASE m \in info
      <4>1. m.count \in Nat /\ m.count <= LastOn(r, q)
        BY <2>3, <2>8, <3>1, InfoFacts
      <4> QED BY <2>4, <2>6, <4>1
    <3>2. CASE m \notin info
      <4>1. n = 0 /\ m.from = p /\ m.to \in conns[p] /\ m.count = mySent[p]
        BY <1>1, <3>2 DEF Broadcast
      <4>2. LastOn(r, q) = Len(s)
        BY <2>3, <2>8, <4>1 DEF s
      <4> QED BY <1>l, <1>n, <2>6, <4>1, <4>2
    <3> QED BY <3>1, <3>2
  <2>9. ASSUME NEW k \in 1 .. Len(wire'[r][q]) PROVE wire'[r][q][k].count <= LastOn(r, q)'
    <3>1. CASE r # p \/ q \notin conns[p]
      <4>1. wire'[r][q] = wire[r][q] /\ LastOn(r, q)' = LastOn(r, q)
        BY <1>w, <1>1, <3>1 DEF LastOn
      <4> QED BY <2>3, <4>1
    <3>2. CASE r = p /\ q \in conns[p]
      <4>1. LastOn(r, q) = Len(s)
        BY <2>3, <3>2 DEF s
      <4>2. wire'[p][q] = wire[p][q] \o b /\ wire[p][q] \in Seq(CommandPackets)
        BY <1>w, <1>t, <3>2
      <4>3. \/ \E l \in 1 .. Len(wire[p][q]) : wire'[p][q][k] = wire[p][q][l]
            \/ \E l \in 1 .. Len(b) : wire'[p][q][k] = b[l]
        BY <1>b, <3>2, <4>2, JoinFacts
      <4>4. CASE \E l \in 1 .. Len(wire[p][q]) : wire'[p][q][k] = wire[p][q][l]
        <5>1. PICK l \in 1 .. Len(wire[p][q]) : wire'[p][q][k] = wire[p][q][l]
          BY <4>4
        <5>2. wire[p][q][l].count <= LastOn(r, q) /\ wire[p][q][l].count \in Nat
          BY <2>3, <3>2, WireTypes
        <5> QED BY <2>4, <2>6, <3>2, <5>1, <5>2
      <4>5. CASE \E l \in 1 .. Len(b) : wire'[p][q][k] = b[l]
        <5>1. wire'[p][q][k].count = Len(s)
          BY <1>b, <1>n, <4>5
        <5> QED BY <1>l, <2>6, <3>2, <4>1, <5>1
      <4> QED BY <4>3, <4>4, <4>5
    <3> QED BY <3>1, <3>2
  <2> QED BY <2>6, <2>7, <2>8, <2>9
<1>7. AfterOK'
  <2>1. ASSUME NEW q \in Player, NEW c, NEW f, After(sent[q], c, f), f <= frame[q]
        PROVE  After(sent'[q], c, f)
    <3>1. CASE q # p
      BY <1>s, <2>1, <3>1
    <3>2. CASE q = p
      <4>1. \A i \in 1 .. Len(t) : t[i].frame >= f
        BY <1>o, <2>1, <3>2
      <4> QED BY <1>s, <1>t, <1>o, <2>1, <3>2, <4>1, AfterMore DEF s
    <3> QED BY <3>1, <3>2
  <2>2. After(s \o t, Len(s), frame[p])
    <3> SUFFICES ASSUME NEW k \in 1 .. Len(s \o t), k > Len(s) PROVE (s \o t)[k].frame >= frame[p]
      BY DEF After
    <3>1. k - Len(s) \in 1 .. n /\ k = Len(s) + (k - Len(s))
      BY <1>1, <1>c, <1>l
    <3>2. (s \o t)[k] = t[k - Len(s)]
      BY <1>c, <3>1
    <3>3. (s \o t)[k].frame = frame[p]
      BY <1>o, <3>1, <3>2
    <3> QED BY <1>t, <3>3
  <2>3. ASSUME NEW m \in info' PROVE After(sent'[m.from], m.count, m.frame)
    <3>1. CASE m \in info
      <4>1. m.from \in Player /\ m.frame <= frame[m.from] /\ After(sent[m.from], m.count, m.frame)
        BY <1>i, <3>1, InfoFacts DEF HeardOK, AfterOK
      <4> QED BY <2>1, <4>1
    <3>2. CASE m \notin info
      <4>1. m.from = p /\ m.count = Len(s) /\ m.frame = frame[p]
        BY <1>1, <1>n, <3>2 DEF Broadcast
      <4> QED BY <1>s, <2>2, <4>1
    <3> QED BY <3>1, <3>2
  <2>4. ASSUME NEW q \in Player, NEW r \in Player, NEW k \in 1 .. Len(wire'[r][q])
        PROVE  After(sent'[r], wire'[r][q][k].count, wire'[r][q][k].frame)
    <3>1. ASSUME NEW l \in 1 .. Len(wire[r][q]), wire'[r][q][k] = wire[r][q][l]
          PROVE  After(sent'[r], wire'[r][q][k].count, wire'[r][q][k].frame)
      <4>1. /\ wire[r][q][l].frame <= frame[r]
            /\ After(sent[r], wire[r][q][l].count, wire[r][q][l].frame)
        BY <1>i DEF HeardOK, AfterOK
      <4> QED BY <2>1, <3>1, <4>1
    <3>2. CASE r # p \/ q \notin conns[p]
      <4>1. wire'[r][q] = wire[r][q]
        BY <1>w, <3>2
      <4> QED BY <3>1, <4>1
    <3>3. CASE r = p /\ q \in conns[p]
      <4>2. wire'[p][q] = wire[p][q] \o b /\ wire[p][q] \in Seq(CommandPackets)
        BY <1>w, <1>t, <3>3
      <4>3. \/ \E l \in 1 .. Len(wire[p][q]) : wire'[p][q][k] = wire[p][q][l]
            \/ \E l \in 1 .. Len(b) : wire'[p][q][k] = b[l]
        BY <1>b, <3>3, <4>2, JoinFacts
      <4>4. CASE \E l \in 1 .. Len(wire[p][q]) : wire'[p][q][k] = wire[p][q][l]
        BY <3>1, <3>3, <4>4
      <4>5. CASE \E l \in 1 .. Len(b) : wire'[p][q][k] = b[l]
        <5>1. wire'[p][q][k].count = Len(s) /\ wire'[p][q][k].frame = frame[p]
          BY <1>b, <1>n, <4>5
        <5> QED BY <1>s, <2>2, <3>3, <5>1
      <4> QED BY <4>3, <4>4, <4>5
    <3> QED BY <3>2, <3>3
  <2>5. ASSUME NEW q \in Player, NEW r \in Player
        PROVE  After(sent'[r], theirSent[q][r], theirFrame[q][r])
    <3>1. After(sent[r], theirSent[q][r], theirFrame[q][r]) /\ theirFrame[q][r] <= frame[r]
      BY <1>i DEF HeardOK, AfterOK
    <3> QED BY <2>1, <3>1
  <2> QED BY <1>1, <2>3, <2>4, <2>5 DEF AfterOK
<1> QED BY <1>2, <1>4, <1>6, <1>7 DEF CountInv

LEMMA CountNext ==
  ASSUME TypeOK, TypeOK', HeardOK, CountInv, AllFit, [Next]_vars
  PROVE  CountInv'
<1>r. FramesRise /\ \A p \in Player : conns'[p] \subseteq conns[p]
  BY FrameNext, ConnsNext
<1>t. pc \in [Player -> Places]
  BY CountTypes
<1>n. \A p \in Player : pc[p] # "hung" => mySent[p] = Len(sent[p])
  BY DEF CountInv, Numbered
<1>k. ASSUME UNCHANGED <<wire, theirSent, theirRecv, mySent, sent, outList, issued>>,
             NEW p \in Player, NEW v, v \notin {"full", "hung"}, pc[p] \notin {"full", "hung"},
             UNCHANGED pc \/ pc' = [pc EXCEPT ![p] = v],
             \A m \in info' : m \in info \/ Honest(m),
             \A q, r \in Player : theirFrame'[q][r] = theirFrame[q][r] \/ theirFrame'[q][r] = 0
      PROVE  CountInv'
  <2>1. CountsKept
    BY <1>r, <1>t, <1>k DEF CountsKept
  <2> QED BY <1>k, <2>1, CountStill
<1>b. ASSUME NEW p \in Player, NEW f, info' = Broadcast(p, f), pc[p] # "hung"
      PROVE  \A m \in info' : m \in info \/ Honest(m)
  BY <1>b DEF Broadcast, Honest
<1>1. ASSUME NEW p \in Player, Command(p) \/ Exit(p) \/ \E a \in NewAheads : Timing(p, a)
      PROVE  CountInv'
  BY <1>1, QueueFacts, CountQueue
<1>2. ASSUME NEW p \in Player, NEW load \in Loads, Send(p, load) PROVE CountInv'
  BY <1>2, CountSend
<1>3. ASSUME NEW p \in Player, Resync(p) PROVE CountInv'
  <2>1. /\ Waiting(p) /\ info' = Broadcast(p, frame[p])
        /\ UNCHANGED <<pc, theirFrame, wire, theirSent, theirRecv, mySent, sent, outList, issued>>
    BY <1>3, ResyncFacts
  <2>2. pc[p] \notin {"full", "hung"}
    BY <2>1 DEF Waiting
  <2>3. \A m \in info' : m \in info \/ Honest(m)
    BY <1>b, <2>1, <2>2
  <2> QED BY <1>k, <2>1, <2>2, <2>3
<1>4. ASSUME NEW p \in Player, NEW m \in info, HearInfo(p, m) PROVE CountInv'
  BY <1>4, CountHearInfo
<1>5. ASSUME NEW p \in Player, NEW q \in Player, HearCommands(p, q) PROVE CountInv'
  BY <1>5, CountHearCommands
<1>6. ASSUME NEW p \in Player, NEW q \in Player, HandleTimeout(p, q) PROVE CountInv'
  <2>1. /\ pc[p] = "wait"
        /\ UNCHANGED <<pc, theirFrame, wire, theirSent, theirRecv, mySent, sent, outList, issued, info>>
    BY <1>6, TimeoutFacts
  <2> QED BY <1>k, <2>1
<1>7. ASSUME NEW p \in Player, Begin(p) PROVE CountInv'
  <2>1. /\ pc[p] = "sync" /\ pc' = [pc EXCEPT ![p] = "play"] /\ info' = Broadcast(p, 0)
        /\ theirFrame' = [theirFrame EXCEPT ![p] = [q \in Player |-> 0]]
        /\ UNCHANGED <<wire, theirSent, theirRecv, mySent, sent, outList, issued>>
    BY <1>7, BeginFacts
  <2>2. \A m \in info' : m \in info \/ Honest(m)
    BY <1>b, <2>1
  <2>3. \A q, r \in Player : theirFrame'[q][r] = theirFrame[q][r] \/ theirFrame'[q][r] = 0
    BY <2>1, CountTypes
  <2>4. "play" \notin {"full", "hung"} /\ pc[p] \notin {"full", "hung"}
    BY <2>1
  <2> QED BY <1>k, <2>1, <2>2, <2>3, <2>4
<1>8. ASSUME NEW p \in Player, GiveUp(p) PROVE CountInv'
  <2>1. /\ pc[p] = "sync" /\ pc' = [pc EXCEPT ![p] = "stopped"]
        /\ UNCHANGED <<theirFrame, wire, theirSent, theirRecv, mySent, sent, outList, issued, info>>
    BY <1>8, GiveUpFacts
  <2>2. "stopped" \notin {"full", "hung"} /\ pc[p] \notin {"full", "hung"}
    BY <2>1
  <2>3. /\ \A m \in info' : m \in info \/ Honest(m)
        /\ \A q, r \in Player : theirFrame'[q][r] = theirFrame[q][r] \/ theirFrame'[q][r] = 0
    BY <2>1
  <2> QED BY <1>k, <2>1, <2>2, <2>3
<1>9. ASSUME NEW p \in Player, Advance(p) PROVE CountInv'
  <2>1. /\ pc[p] = "wait" /\ pc' = [pc EXCEPT ![p] = "exec"]
        /\ UNCHANGED <<theirFrame, wire, theirSent, theirRecv, mySent, sent, outList, issued, info>>
    BY <1>9, AdvanceFacts
  <2>2. "exec" \notin {"full", "hung"} /\ pc[p] \notin {"full", "hung"}
    BY <2>1
  <2>3. /\ \A m \in info' : m \in info \/ Honest(m)
        /\ \A q, r \in Player : theirFrame'[q][r] = theirFrame[q][r] \/ theirFrame'[q][r] = 0
    BY <2>1
  <2> QED BY <1>k, <2>1, <2>2, <2>3
<1>10. ASSUME NEW p \in Player, ExecuteEvent(p) PROVE CountInv'
  <2>1. /\ pc[p] = "exec" /\ (UNCHANGED pc \/ pc' = [pc EXCEPT ![p] = "late"])
        /\ UNCHANGED <<theirFrame, wire, theirSent, theirRecv, mySent, sent, outList, issued, info>>
    BY <1>10, ExecuteFacts
  <2> QED BY <1>k, <2>1
<1>11. ASSUME NEW p \in Player, EndFrame(p) PROVE CountInv'
  <2>1. /\ pc[p] = "exec" /\ pc' = [pc EXCEPT ![p] = IF active[p] THEN "play" ELSE "left"]
        /\ UNCHANGED <<theirFrame, wire, theirSent, theirRecv, mySent, sent, outList, issued, info>>
    BY <1>11, EndFrameFacts
  <2>2. (IF active[p] THEN "play" ELSE "left") \notin {"full", "hung"}
    OBVIOUS
  <2> QED BY <1>k, <2>1, <2>2
<1>12. ASSUME UNCHANGED vars PROVE CountInv'
  <2>1. UNCHANGED <<pc, theirFrame, wire, theirSent, theirRecv, mySent, sent, outList, issued, info>>
    BY <1>12 DEF vars, heard, net, budget, past
  <2>2. CountsKept
    BY <1>r, <2>1 DEF CountsKept
  <2> QED BY <2>1, <2>2, CountStill
<1> QED BY <1>1, <1>2, <1>3, <1>4, <1>5, <1>6, <1>7, <1>8, <1>9, <1>10, <1>11, <1>12, NextCases

LEMMA CountInit == Init => CountInv
<1> SUFFICES ASSUME Init PROVE CountInv
  OBVIOUS
<1>1. /\ \A p \in Player : sent[p] = << >> /\ outList[p] = << >> /\ issued[p] = 0 /\ mySent[p] = 0
      /\ \A p, q \in Player : wire[p][q] = << >> /\ theirRecv[p][q] = 0 /\ theirSent[p][q] = 0
      /\ \A m \in info : m.from \in Player /\ m.count = 0
  BY DEF Init, Peers
<1>2. Len(<< >>) = 0
  OBVIOUS
<1>3. Numbered
  <2>1. \A p \in Player : /\ Len(sent[p]) = 0 /\ Len(outList[p]) = 0 /\ 1 .. Len(sent[p]) = {}
                          /\ 1 .. Len(outList[p]) = {}
    BY <1>1, <1>2
  <2> SUFFICES ASSUME NEW p \in Player
               PROVE  /\ issued[p] = Len(sent[p]) + Len(outList[p])
                      /\ \A i \in 1 .. Len(outList[p]) : outList[p][i].no = Len(sent[p]) + i
                      /\ \A k \in 1 .. Len(sent[p]) : sent[p][k].ev.no = k /\ sent[p][k].frame <= frame[p]
                      /\ \A k, l \in 1 .. Len(sent[p]) : k <= l => sent[p][k].frame <= sent[p][l].frame
                      /\ pc[p] # "hung" => mySent[p] = Len(sent[p])
    BY DEF Numbered
  <2>2. issued[p] = Len(sent[p]) + Len(outList[p]) /\ mySent[p] = Len(sent[p])
    <3>1. issued[p] = 0 /\ mySent[p] = 0
      BY <1>1
    <3>2. Len(sent[p]) = 0 /\ Len(outList[p]) = 0
      BY <2>1
    <3> QED BY <3>1, <3>2
  <2> QED BY <2>1, <2>2
<1>4. ChainOK
  BY <1>1 DEF ChainOK, Chain
<1>5. PromisesOK
  <2>1. \A p, q \in Player : LastOn(q, p) = 0 /\ Len(sent[q]) = 0
    BY <1>1, <1>2 DEF LastOn, LastIn
  <2> QED BY <1>1, <2>1 DEF PromisesOK
<1>6. AfterOK
  BY <1>1 DEF AfterOK, After
<1> QED BY <1>3, <1>4, <1>5, <1>6 DEF CountInv

(* Counters only grow. *)
LEMMA FitBefore ==
  ASSUME TypeOK, TypeOK', [Next]_vars, AllFit'
  PROVE  AllFit
<1>t. issued \in [Player -> Nat] /\ issued' \in [Player -> Nat] /\ CountSpace \in Nat
  BY Bounds DEF TypeOK
<1>1. \A p \in Player : issued[p] <= issued'[p]
  <2>1. CASE UNCHANGED issued
    BY <1>t, <2>1
  <2>2. ASSUME NEW p \in Player, Command(p) \/ Exit(p) \/ \E a \in NewAheads : Timing(p, a)
        PROVE  \A q \in Player : issued[q] <= issued'[q]
    <3>1. issued' = [issued EXCEPT ![p] = issued[p] + 1]
      BY <2>2, QueueFacts DEF Queued
    <3> QED BY <1>t, <3>1
  <2>3. ASSUME NEW p \in Player, NEW load \in Loads, Send(p, load) PROVE UNCHANGED issued
    BY <2>3, SendFacts
  <2>4. ASSUME NEW p \in Player, Resync(p) \/ Begin(p) \/ GiveUp(p) \/ Advance(p) \/ EndFrame(p)
                                   \/ ExecuteEvent(p)
        PROVE UNCHANGED issued
    BY <2>4, ResyncFacts, BeginFacts, GiveUpFacts, AdvanceFacts, EndFrameFacts, ExecuteFacts
  <2>5. ASSUME NEW p \in Player, NEW q \in Player, HandleTimeout(p, q) \/ HearCommands(p, q)
        PROVE UNCHANGED issued
    BY <2>5, TimeoutFacts, HearFacts
  <2>6. ASSUME NEW p \in Player, NEW m \in info, HearInfo(p, m) PROVE UNCHANGED issued
    BY <2>6, HearInfoFacts
  <2>7. UNCHANGED vars => UNCHANGED issued
    BY DEF vars, budget
  <2> QED BY <2>1, <2>2, <2>3, <2>4, <2>5, <2>6, <2>7, NextCases
<1>2. ASSUME NEW p \in Player PROVE issued[p] < CountSpace
  <2>1. issued'[p] < CountSpace /\ issued[p] <= issued'[p] /\ issued[p] \in Nat /\ issued'[p] \in Nat
    BY <1>t, <1>1 DEF AllFit
  <2> QED BY <1>t, <2>1
<1> QED BY <1>2 DEF AllFit

(* A machine that has taken every command packet sent to it knows that        *)
(* nothing is missing, as long as no player has given CountSpace events: the  *)
(* packets on their way continue what was taken, and no count that anybody    *)
(* could still hear promises more than they hold.                             *)
THEOREM CountsAreTrue == Safety => [](AllFit => CountsTellTruth)
<1> DEFINE Inv == TypeOK /\ HeardOK /\ (AllFit => CountInv)
<1>1. Init => Inv
  BY TypeInit, SkewInit, CountInit DEF SkewInv
<1>2. Inv /\ [Next]_vars => Inv'
  <2> SUFFICES ASSUME TypeOK, HeardOK, AllFit => CountInv, [Next]_vars
               PROVE  TypeOK' /\ HeardOK' /\ (AllFit' => CountInv')
    OBVIOUS
  <2>1. TypeOK' /\ HeardOK'
    BY TypeNext, HeardNext
  <2>2. ASSUME AllFit' PROVE CountInv'
    <3>1. AllFit
      BY <2>1, <2>2, FitBefore
    <3> QED BY <2>1, <3>1, CountNext
  <2> QED BY <2>1, <2>2
<1>3. Inv => (AllFit => CountsTellTruth)
  <2> SUFFICES ASSUME TypeOK, CountInv, NEW p \in Player, NEW q \in Player,
                      Waiting(p), wire[q][p] = << >>
               PROVE  theirRecv[p][q] >= theirSent[p][q]
    BY DEF CountsTellTruth
  <2>1. LastOn(q, p) = theirRecv[p][q]
    BY DEF LastOn, LastIn
  <2>2. theirSent[p][q] <= LastOn(q, p)
    BY DEF CountInv, PromisesOK, Waiting
  <2>3. theirRecv[p][q] \in Nat /\ theirSent[p][q] \in Nat
    BY CountTypes
  <2> QED BY <2>1, <2>2, <2>3
<1> QED BY <1>1, <1>2, <1>3, PTL DEF Safety
===============================================================================
