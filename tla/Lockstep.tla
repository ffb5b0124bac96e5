------------------------------- MODULE Lockstep -------------------------------
(* The frame lockstep of QUEUE.CPP (Queue_AI_Multiplayer and what it calls)   *)
(* among the machines of one multiplayer game.  Every machine runs the same   *)
(* simulation; only the players' commands travel.  A command is scheduled     *)
(* MaxAhead frames into the future, and no machine executes a frame before it *)
(* has every command scheduled for it.                                        *)
(*                                                                            *)
(* Packets go out only on frames that are multiples of FrameSendRate, and     *)
(* MaxAhead is kept a multiple of it too, so time is counted in send periods: *)
(* one step of "frame" is FrameSendRate frames.  Packets that carry commands  *)
(* need an ACK and arrive once and in order (module NonSeqConn); FRAMEINFO    *)
(* and FRAMESYNC packets are sent once, and may be lost, repeated or late.    *)
(* FRAMEINFO entries, which only trigger the CRC comparison, are not put in   *)
(* the DoList.  The arrays indexed by connection are functions of the player. *)
EXTENDS Integers, Sequences, FiniteSets

CONSTANTS N,             \* players; their MultiplayerIDs are 1 .. N on all machines
          InitAhead,     \* MultiplayerMaxAhead at the start
          NewAheads,     \* values a TIMING event may set it to
          Loads,         \* readings of Private_Num_Send that may occur
          SomeCap,       \* events sent while the send queue is half full (5)
          PerPacket,     \* events that fit in one packet
          OutListMax,    \* entries in OutList (64)
          DoListMax,     \* entries in DoList (512)
          CountSpace,    \* my_sent and their_recv are below it: 2^16
          Online,        \* Is_Online_Game(GameToPlay)
          Leavers,       \* players that may quit
          Impatient,     \* whether a wait may time out
          Commands,      \* bound: p gives no command after its event Commands[p]
          Timings,       \* bound: TIMING events generated
          LastFrame      \* bound: frames played

Player == 1 .. N
ASSUME Players == N \in Nat \ {0}
ASSUME Aheads  == InitAhead \in Nat \ {0} /\ NewAheads \subseteq Nat \ {0}
ASSUME Bounds  == /\ SomeCap \in Nat /\ PerPacket \in Nat /\ SomeCap <= PerPacket /\ PerPacket > 0
                  /\ OutListMax \in Nat /\ DoListMax \in Nat
                  /\ CountSpace \in Nat \ {0}
                  /\ Commands \in [Player -> Nat] /\ Timings \in Nat /\ LastFrame \in Nat
ASSUME Modes   == /\ Loads \subseteq {"light", "some", "full"} /\ Leavers \subseteq Player
                  /\ Online \in BOOLEAN /\ Impatient \in BOOLEAN

VARIABLES pc,            \* where in Queue_AI the machine is, or how its game ended
          frame,         \* Frame
          ahead,         \* MultiplayerMaxAhead
          window,        \* <<NewMaxAheadFrame1, NewMaxAheadFrame2>>
          ids,           \* MultiplayerID[0 .. MultiplayerPlayerCount - 1]
          conns,         \* players there is a connection to
          theirFrame, theirSent, theirRecv, mySent,
          outList, doList,
          cursor,        \* <<i, j>> of Execute_DoList
          active,        \* GameActive
          info,          \* unacknowledged packets sent so far
          wire,          \* wire[p][q]: command packets from p to q
          issued,        \* history: how many events each player has issued
          timings,       \* TIMING events generated
          sent,          \* history: the events each machine has sent, in order
          log            \* history: events each machine has executed

heard   == <<theirFrame, theirSent, theirRecv>>
roster  == <<ids, conns>>
timing  == <<ahead, window>>
net     == <<info, wire>>
budget  == <<issued, timings>>
past    == <<sent, log>>
vars == <<pc, frame, timing, roster, heard, mySent, outList, doList, cursor,
          active, net, budget, past>>

Peers(p) == Player \ {p}

(* An unacknowledged packet to every connection, with the frame and my_sent.  *)
Broadcast(p, f) == info \cup {[from |-> p, to |-> q, frame |-> f, count |-> mySent[p]] :
                                 q \in conns[p]}

(* Every machine is in its first Wait_For_Players and has sent a FRAMESYNC.   *)
Init ==
  /\ pc = [p \in Player |-> "sync"]
  /\ frame = [p \in Player |-> 0]
  /\ ahead = [p \in Player |-> InitAhead]
  /\ window = [p \in Player |-> <<0, 0>>]
  /\ ids = [p \in Player |-> [i \in Player |-> i]]
  /\ conns = [p \in Player |-> Peers(p)]
  /\ theirFrame = [p \in Player |-> [q \in Player |-> -1]]
  /\ theirSent = [p \in Player |-> [q \in Player |-> 0]]
  /\ theirRecv = [p \in Player |-> [q \in Player |-> 0]]
  /\ mySent = [p \in Player |-> 0]
  /\ outList = [p \in Player |-> << >>]
  /\ doList = [p \in Player |-> << >>]
  /\ cursor = [p \in Player |-> <<1, 0>>]
  /\ active = [p \in Player |-> TRUE]
  /\ info = UNION {{[from |-> p, to |-> q, frame |-> 0, count |-> 0] : q \in Peers(p)} :
                     p \in Player}
  /\ wire = [p \in Player |-> [q \in Player |-> << >>]]
  /\ issued = [p \in Player |-> 0]
  /\ timings = 0
  /\ sent = [p \in Player |-> << >>]
  /\ log = [p \in Player |-> << >>]

------------------------------------------------------------------------------
(* Between frames: the player's input and the timing events fill OutList.     *)

Queue(p, kind, val) ==
  /\ pc[p] = "play"
  /\ Len(outList[p]) < OutListMax
  /\ outList' = [outList EXCEPT ![p] =
       Append(@, [kind |-> kind, no |-> issued[p] + 1, val |-> val])]
  /\ issued' = [issued EXCEPT ![p] = @ + 1]
  /\ UNCHANGED <<pc, frame, timing, roster, heard, mySent, doList, cursor,
                 active, net, past>>

Command(p) == /\ issued[p] < Commands[p]
              /\ Queue(p, "COMMAND", 0)
              /\ UNCHANGED timings

(* Generate_Real_Timing_Event: only the first player of the list, with a      *)
(* MaxAhead that depends on response times nobody controls.                   *)
Timing(p, a) == /\ ids[p][1] = p
                /\ timings < Timings
                /\ Queue(p, "TIMING", a)
                /\ timings' = timings + 1

Exiting(p) == \/ \E n \in DOMAIN outList[p] : outList[p][n].kind = "EXIT"
              \/ \E n \in DOMAIN doList[p] : /\ doList[p][n].owner = p
                                             /\ doList[p][n].ev.kind = "EXIT"
Exit(p) == /\ p \in Leavers /\ ~ Exiting(p)
           /\ Queue(p, "EXIT", 0)
           /\ UNCHANGED timings

------------------------------------------------------------------------------
(* Send_Packets: the events of this frame go into one packet after another.   *)
(* "load" stands for Private_Num_Send: below 2, below 4, or more.             *)
Least(S) == CHOOSE n \in S : \A m \in S : n <= m

Free(p) == DoListMax - Len(doList[p])
(* mutant: the cap is not limited to what is in OutList *)
Cap_Unlimited(p, load) ==
  CASE load = "full" -> 0 [] load = "some" -> SomeCap [] load = "light" -> Len(outList[p])
Cap(p, load) ==
  LET wanted == CASE load = "full" -> 0 [] load = "some" -> SomeCap
                  [] load = "light" -> Len(outList[p])
  IN IF Online THEN Len(outList[p])
     ELSE Least({wanted, Len(outList[p]), Free(p)})
Once(load) == load # "light" /\ ~ Online

(* How many events leave OutList: one packet's worth, or all there is room    *)
(* for in the DoList.                                                         *)
Leaving(p, load) == IF Once(load) THEN Least({Cap(p, load), Len(outList[p])})
                    ELSE Least({Len(outList[p]), Free(p)})
(* The loop ends when it has sent a packet once, or OutList is empty.         *)
LoopEnds(p, load) == Once(load) \/ Leaving(p, load) = Len(outList[p])

(* mutant: the last packet's events are sent first *)
Packets_Reversed(p, n) ==
  [k \in 1 .. n |->
     [frame |-> frame[p], due |-> frame[p] + ahead[p], count |-> mySent[p],
      evs |-> <<outList[p][n + 1 - k]>>]]
(* mutant: the delay is taken off the frame *)
Packets_Backward(p, n) ==
  [k \in 1 .. n |->
     [frame |-> frame[p], due |-> frame[p] - ahead[p], count |-> mySent[p],
      evs |-> <<outList[p][k]>>]]
Packets(p, n) ==
  [k \in 1 .. (n + PerPacket - 1) \div PerPacket |->
     [frame |-> frame[p], due |-> frame[p] + ahead[p], count |-> mySent[p],
      evs |-> SubSeq(outList[p], (k - 1) * PerPacket + 1,
                     Least({n, k * PerPacket}))]]

Scheduled(p, evs, due) ==
  [n \in DOMAIN evs |-> [owner |-> p, due |-> due, ev |-> evs[n], done |-> FALSE]]

Send(p, load) ==
  LET n == Leaving(p, load) IN
  /\ pc[p] = "play" /\ frame[p] <= LastFrame
  /\ outList' = [outList EXCEPT ![p] = SubSeq(@, n + 1, Len(@))]
  /\ doList' = [doList EXCEPT ![p] =
       @ \o Scheduled(p, SubSeq(outList[p], 1, n), frame[p] + ahead[p])]
  /\ wire' = [wire EXCEPT ![p] =
       [q \in Player |-> IF q \in conns[p] THEN @[q] \o Packets(p, n) ELSE @[q]]]
  /\ info' = IF n = 0 THEN Broadcast(p, frame[p]) ELSE info
  /\ sent' = [sent EXCEPT ![p] = @ \o
       [i \in 1 .. n |-> [frame |-> frame[p], due |-> frame[p] + ahead[p],
                         ev |-> outList[p][i]]]]
  /\ IF LoopEnds(p, load)
       THEN /\ pc' = [pc EXCEPT ![p] = "wait"]
            /\ mySent' = [mySent EXCEPT ![p] = (@ + Cap(p, load)) % CountSpace]
       ELSE /\ pc' = [pc EXCEPT ![p] = "hung"]
            /\ UNCHANGED mySent
  /\ UNCHANGED <<frame, timing, roster, heard, cursor, active, budget, log>>

------------------------------------------------------------------------------
(* Wait_For_Players *)

Waiting(p) == pc[p] \in {"sync", "wait"}

(* Send_FrameSync, when the retry timer runs out.                             *)
Resync(p) ==
  /\ Waiting(p)
  /\ info' = Broadcast(p, frame[p])
  /\ UNCHANGED <<pc, frame, timing, roster, heard, mySent, outList, doList,
                 cursor, active, wire, budget, past>>

(* Process_Receive_Packet: what every packet tells of its sender.             *)
Heed(p, q, f, c) ==
  /\ theirFrame' = [theirFrame EXCEPT ![p][q] = IF @ < f THEN f ELSE @]
  /\ theirSent' = [theirSent EXCEPT ![p][q] = IF c > @ THEN c ELSE @]

HearInfo(p, m) ==
  /\ Waiting(p) /\ m.to = p /\ m.from \in conns[p]
  /\ Heed(p, m.from, m.frame, m.count)
  /\ UNCHANGED <<pc, frame, timing, roster, theirRecv, mySent, outList, doList,
                 cursor, active, net, budget, past>>

(* ... and the commands in it, which Extract_Compressed_Events schedules; a   *)
(* full DoList ends the game (RC_DOLIST_FULL).                                *)
HearCommands(p, q) ==
  /\ Waiting(p) /\ q \in conns[p] /\ wire[q][p] # << >>
  /\ LET m == Head(wire[q][p]) IN
       /\ Heed(p, q, m.frame, m.count)
       /\ doList' = [doList EXCEPT ![p] = @ \o Scheduled(q,
            SubSeq(m.evs, 1, Least({Len(m.evs), Free(p)})), m.due)]
       /\ IF Len(m.evs) <= Free(p)
            THEN /\ theirRecv' = [theirRecv EXCEPT ![p][q] = (@ + Len(m.evs)) % CountSpace]
                 /\ UNCHANGED pc
            ELSE /\ pc' = [pc EXCEPT ![p] = "full"]
                 /\ UNCHANGED theirRecv
  /\ wire' = [wire EXCEPT ![q][p] = Tail(@)]
  /\ UNCHANGED <<frame, timing, roster, mySent, outList, cursor, active, info,
                 budget, past>>

(* Destroy_Connection *)
Others(p, q) ==
  LET i == CHOOSE n \in DOMAIN ids[p] : ids[p][n] = q
  IN [n \in 1 .. Len(ids[p]) - 1 |-> ids[p][IF n < i THEN n ELSE n + 1]]
Destroy(p, q) == /\ conns' = [conns EXCEPT ![p] = @ \ {q}]
                 /\ ids' = [ids EXCEPT ![p] = Others(p, q)]

(* Can_Advance *)
(* mutants: commands not counted; one frame too far *)
CanAdvance_NoCount(p) == \A q \in conns[p] : frame[p] < theirFrame[p][q] + ahead[p]
CanAdvance_OneMore(p) == \A q \in conns[p] : /\ theirRecv[p][q] >= theirSent[p][q]
                                              /\ frame[p] <= theirFrame[p][q] + ahead[p]
CanAdvance(p) == \/ Len(ids[p]) = 1
                 \/ \A q \in conns[p] : /\ theirRecv[p][q] >= theirSent[p][q]
                                        /\ frame[p] < theirFrame[p][q] + ahead[p]

(* The first wait ends when every peer was heard; frame 0 has no commands.    *)
Begin(p) ==
  /\ pc[p] = "sync"
  /\ \A q \in conns[p] : theirFrame[p][q] # -1
  /\ theirFrame' = [theirFrame EXCEPT ![p] = [q \in Player |-> 0]]
  /\ info' = Broadcast(p, 0)
  /\ frame' = [frame EXCEPT ![p] = 1]
  /\ pc' = [pc EXCEPT ![p] = "play"]
  /\ UNCHANGED <<timing, roster, theirSent, theirRecv, mySent, outList, doList,
                 cursor, active, wire, budget, past>>

(* The wait times out: the first one gives the game up, a later one drops the *)
(* player who is furthest behind (Handle_Timeout).                            *)
GiveUp(p) ==
  /\ Impatient /\ pc[p] = "sync"
  /\ pc' = [pc EXCEPT ![p] = "stopped"]
  /\ UNCHANGED <<frame, timing, roster, heard, mySent, outList, doList, cursor,
                 active, net, budget, past>>

(* mutant: only the first wait times out *)
HandleTimeout_FirstWait(p, q) ==
  /\ Impatient /\ pc[p] = "sync" /\ q \in conns[p]
  /\ Destroy(p, q)
  /\ UNCHANGED <<pc, frame, timing, heard, mySent, outList, doList, cursor,
                 active, net, budget, past>>
HandleTimeout(p, q) ==
  /\ Impatient /\ pc[p] = "wait" /\ ~ CanAdvance(p)
  /\ q \in conns[p] /\ \A r \in conns[p] : theirFrame[p][q] <= theirFrame[p][r]
  /\ Destroy(p, q)
  /\ UNCHANGED <<pc, frame, timing, heard, mySent, outList, doList, cursor,
                 active, net, budget, past>>

------------------------------------------------------------------------------
(* Execute_DoList touches nothing another machine sees, so a machine in it    *)
(* runs alone.                                                                *)
Quiet == \A p \in Player : pc[p] # "exec"

(* Events scheduled inside the period of vulnerability move to its end.       *)
(* mutant: no rescheduling *)
Reschedule_Never(e, w) == e
Reschedule(e, w) == IF e.due > w[1] /\ e.due < w[2] THEN [e EXCEPT !.due = w[2]] ELSE e

Advance(p) ==
  /\ pc[p] = "wait" /\ CanAdvance(p)
  /\ pc' = [pc EXCEPT ![p] = "exec"]
  /\ cursor' = [cursor EXCEPT ![p] = <<1, 0>>]
  /\ doList' = [doList EXCEPT ![p] = [n \in DOMAIN @ |-> Reschedule(@[n], window[p])]]
  /\ UNCHANGED <<frame, timing, roster, heard, mySent, outList, active, net,
                 budget, past>>

(* The loops over MultiplayerID and the DoList, from the cursor on: the next  *)
(* entry of the DoList that belongs to the player at hand and is due.         *)
Pending(p, i, j) == LET e == doList[p][j] IN
                    e.owner = ids[p][i] /\ frame[p] >= e.due /\ ~ e.done
Todo(p) == {c \in (DOMAIN ids[p]) \X (DOMAIN doList[p]) :
               /\ c[1] > cursor[p][1] \/ (c[1] = cursor[p][1] /\ c[2] > cursor[p][2])
               /\ Pending(p, c[1], c[2])}
(* mutant: the DoList is the outer loop *)
Earlier_ByEntry(c, d) == c[2] < d[2] \/ (c[2] = d[2] /\ c[1] <= d[1])
Earlier(c, d) == c[1] < d[1] \/ (c[1] = d[1] /\ c[2] <= d[2])

(* EventClass::Execute, and what Execute_DoList does itself for EXIT.         *)
Effect(p, e) ==
  /\ IF e.ev.kind = "TIMING"
       THEN /\ window' = IF e.ev.val > ahead[p]
                           THEN [window EXCEPT ![p] = <<frame[p], frame[p] + e.ev.val>>]
                           ELSE window
            /\ ahead' = [ahead EXCEPT ![p] = e.ev.val]
       ELSE UNCHANGED timing
  /\ active' = [active EXCEPT ![p] = @ /\ ~ (e.ev.kind = "EXIT" /\ e.owner = p)]
  /\ IF e.ev.kind = "EXIT" /\ e.owner \in conns[p] THEN Destroy(p, e.owner)
     ELSE UNCHANGED roster

ExecuteEvent(p) ==
  /\ pc[p] = "exec"
  /\ \E c \in Todo(p) :
       LET e == doList[p][c[2]] IN
       /\ \A d \in Todo(p) : Earlier(c, d)
       /\ cursor' = [cursor EXCEPT ![p] = c]
       /\ IF frame[p] > e.due
            THEN /\ pc' = [pc EXCEPT ![p] = "late"]
                 /\ UNCHANGED <<timing, active, roster, doList, log>>
            ELSE /\ Effect(p, e)
                 /\ doList' = [doList EXCEPT ![p][c[2]].done = TRUE]
                 /\ log' = [log EXCEPT ![p] =
                      Append(@, [at |-> frame[p], owner |-> e.owner, ev |-> e.ev])]
                 /\ UNCHANGED pc
  /\ UNCHANGED <<frame, heard, mySent, outList, net, budget, sent>>

(* Clean_DoList drops entries from the head while they are executed or past.  *)
Kept(p) == {n \in DOMAIN doList[p] : ~ doList[p][n].done /\ frame[p] <= doList[p][n].due}
Cleaned(p) == SubSeq(doList[p], Least(Kept(p) \cup {Len(doList[p]) + 1}), Len(doList[p]))

EndFrame(p) ==
  /\ pc[p] = "exec" /\ Todo(p) = {}
  /\ doList' = [doList EXCEPT ![p] = Cleaned(p)]
  /\ frame' = [frame EXCEPT ![p] = @ + 1]
  /\ pc' = [pc EXCEPT ![p] = IF active[p] THEN "play" ELSE "left"]
  /\ UNCHANGED <<timing, roster, heard, mySent, outList, cursor, active, net,
                 budget, past>>

Talk == \E p \in Player : \/ Command(p) \/ Exit(p)
                          \/ \E a \in NewAheads : Timing(p, a)
                          \/ \E load \in Loads : Send(p, load)
                          \/ Resync(p)
                          \/ \E m \in info : HearInfo(p, m)
                          \/ \E q \in Player : HearCommands(p, q) \/ HandleTimeout(p, q)
                          \/ Begin(p) \/ GiveUp(p) \/ Advance(p)
Next == \/ Quiet /\ Talk
        \/ \E p \in Player : ExecuteEvent(p) \/ EndFrame(p)

Safety == Init /\ [][Next]_vars

(* Fairness: a machine keeps running its main loop, its retry timer keeps     *)
(* going off, command packets arrive, and of the unacknowledged packets sent  *)
(* again and again one arrives in the end; a wait that lasts times out.       *)
Run(p) == \/ \E load \in Loads : Quiet /\ Send(p, load)
          \/ Quiet /\ (Begin(p) \/ Advance(p))
          \/ ExecuteEvent(p) \/ EndFrame(p)
News(p, q) == \E m \in info :
                /\ m.from = q /\ Quiet /\ HearInfo(p, m)
                /\ \A l \in info : l.from = q /\ l.to = p => l.frame <= m.frame /\ l.count <= m.count
Fairness == \A p \in Player :
  /\ WF_vars(Run(p)) /\ WF_vars(Quiet /\ Resync(p))
  /\ WF_vars(Quiet /\ \E q \in Player : HandleTimeout(p, q))
  /\ \A q \in Player : SF_vars(News(p, q)) /\ SF_vars(Quiet /\ HearCommands(p, q))

Spec == Safety /\ Fairness

------------------------------------------------------------------------------
(* Properties *)

Places == {"sync", "play", "wait", "exec", "left", "stopped", "full", "late", "hung"}
Events == [kind : {"COMMAND", "EXIT"}, no : Nat, val : {0}]
            \cup [kind : {"TIMING"}, no : Nat, val : NewAheads]
Entries == [owner : Player, due : Nat, ev : Events, done : BOOLEAN]
CommandPackets == [frame : Nat, due : Nat, count : Nat, evs : Seq(Events)]

(* Every variable has its type. *)
TypeOK ==
  /\ pc \in [Player -> Places]
  /\ frame \in [Player -> Nat] /\ ahead \in [Player -> NewAheads \cup {InitAhead}]
  /\ window \in [Player -> Nat \X Nat]
  /\ ids \in [Player -> Seq(Player)] /\ conns \in [Player -> SUBSET Player]
  /\ theirFrame \in [Player -> [Player -> Nat \cup {-1}]]
  /\ theirSent \in [Player -> [Player -> Nat]]
  /\ theirRecv \in [Player -> [Player -> Nat]]
  /\ mySent \in [Player -> Nat]
  /\ outList \in [Player -> Seq(Events)] /\ doList \in [Player -> Seq(Entries)]
  /\ \A p \in Player : Len(doList[p]) <= DoListMax
  /\ cursor \in [Player -> Nat \X Nat]
  /\ active \in [Player -> BOOLEAN]
  /\ info \subseteq [from : Player, to : Player, frame : Nat, count : Nat]
  /\ wire \in [Player -> [Player -> Seq(CommandPackets)]]
  /\ issued \in [Player -> Nat] /\ timings \in Nat
  /\ sent \in [Player -> Seq([frame : Nat, due : Nat, ev : Events])]
  /\ log \in [Player -> Seq([at : Nat, owner : Player, ev : Events])]

(* Two machines still connected to each other that have both played a frame  *)
(* have executed the same events up to it, in the same order, however their  *)
(* packets were delayed: Execute_DoList goes through the players in          *)
(* MultiplayerID order for this reason.                                      *)
Played(p, f) == {<<n, log[p][n]>> : n \in {m \in DOMAIN log[p] : log[p][m].at <= f}}
InSync == \A p, q \in Player : q \in conns[p] /\ p \in conns[q] =>
            \A f \in 0 .. LastFrame : f < frame[p] /\ f < frame[q] => Played(p, f) = Played(q, f)

(* No machine reaches a command after the frame it was scheduled for, also   *)
(* while MaxAhead changes: Can_Advance and the period of vulnerability keep   *)
(* it from "packet received too late".                                       *)
NeverTooLate == \A p \in Player : pc[p] # "late"

(* No machine out-runs another one it still plays with by more than the      *)
(* largest MaxAhead in use.                                                  *)
SkewBounded == \A p, q \in Player : q \in conns[p] =>
                 \E a \in NewAheads \cup {InitAhead} : frame[p] <= frame[q] + a

(* A player's events are executed in the order he gave them, each at most    *)
(* once, on every machine, also when some were rescheduled because MaxAhead  *)
(* grew.  This holds where MaxAhead does not shrink: after it has shrunk, a  *)
(* later event may be due before an earlier one.                             *)
OrdersInOrder ==
  \A p \in Player : \A m, n \in DOMAIN log[p] :
    m < n /\ log[p][m].owner = log[p][n].owner => log[p][m].ev.no < log[p][n].ev.no

(* A machine that has taken every command packet sent to it knows that       *)
(* nothing is missing: Can_Advance's test their_recv >= their_sent does not   *)
(* hold it up.  True as long as fewer than CountSpace events were given.     *)
CountsTellTruth ==
  \A p, q \in Player : Waiting(p) /\ q \in conns[p] /\ wire[q][p] = << >>
                         => theirRecv[p][q] >= theirSent[p][q]

(* Send_Packets returns: the limit on the number of events keeps its loop     *)
(* from going round for ever with a full DoList and events left in OutList.  *)
SendReturns == \A p \in Player : pc[p] # "hung"

(* Nobody waits for ever: every machine plays on to the last frame, although *)
(* each waits for all others and any unacknowledged packet may be lost,      *)
(* unless its player quits or the game never got started.                    *)
GameGoesOn == \A p \in Player : <>(frame[p] > LastFrame \/ pc[p] \in {"left", "stopped"})
===============================================================================
