----------------------------- MODULE NonSeqConn ------------------------------
(* NonSequencedConnClass (NOSEQCON.CPP) over a CommBufferClass (COMBUF.CPP), *)
(* serviced as ConnectionClass::Service does (CONNECT.CPP): the acknowledged *)
(* datagram connection every in-game packet between two machines goes       *)
(* through.  Two ends exchange packets over a network that may lose,         *)
(* duplicate and reorder them.                                               *)
(*                                                                           *)
(* A queue is a set of entries.  The order of the receive queue is the       *)
(* arrival stamp "at" (CommBufferClass::ReceiveTotal when the entry was      *)
(* queued); the order of the send queue decides nothing.  Times are kept as  *)
(* elapsed ticks that saturate just above the limit they are compared with.  *)
(* PacketIDs are 32-bit; NoId stands for the initial 0xffffffff, whose       *)
(* successor is 0, and IdWidth says that no counter wraps onto it.           *)
EXTENDS Integers, FiniteSets, Sequences

CONSTANTS Left, Right,   \* the two ends
          Msg,           \* payloads
          MaxSend,       \* entries in a send queue (CommBufferClass::MaxSend)
          MaxReceive,    \* entries in a receive queue
          RetryDelta,    \* ticks before an unacknowledged entry is sent again
          MaxRetries,    \* sends of one entry before the connection is bad
          Timeout,       \* ticks from first send before the connection is bad
          Window,        \* messages the game lets its peer leave unread
          IdSpace,       \* PacketIDs are below it: 2^32
          AckBudget,     \* bound: acknowledged messages each end ever sends
          NoAckBudget,   \* bound: unacknowledged messages each end ever sends
          Lossy,         \* whether packets are removed, not just left undelivered
          MaxDup         \* bound: unacknowledged packets the network repeats

NoLimit == -1            \* UINT32_MAX: the limit is switched off
NoId    == -1            \* 0xffffffff: nothing received or read yet
End     == {Left, Right}
Peer(e) == IF e = Left THEN Right ELSE Left

ASSUME Ends   == Left # Right
ASSUME Sizes  == MaxSend \in Nat /\ MaxReceive \in Nat /\ MaxReceive >= 2
ASSUME Limits == /\ RetryDelta \in Nat
                 /\ MaxRetries \in Nat \cup {NoLimit}
                 /\ Timeout \in Nat \cup {NoLimit}
ASSUME IdWidth == /\ IdSpace \in Nat /\ Window \in Nat
                  /\ AckBudget \in [End -> Nat]
                  /\ NoAckBudget \in [End -> Nat]
                  /\ MaxDup \in Nat /\ Lossy \in BOOLEAN
                  /\ \A e \in End : AckBudget[e] < IdSpace /\ NoAckBudget[e] < IdSpace

Code == {"DATA_ACK", "DATA_NOACK"}

VARIABLES sendQ,         \* sendQ[e]: entries waiting to be sent or acknowledged
          recvQ,         \* recvQ[e]: entries received
          recvTotal,     \* recvTotal[e]: entries ever queued for reception
          numSendAck, numSendNoAck,   \* PacketID of the next message of each code
          lastSeqID,     \* last PacketID received with none missing before it
          lastReadID,    \* last PacketID the game has read
          ok,            \* ok[e]: what Service last returned
          data, acks,    \* packets in flight
          dups,          \* repeated deliveries so far
          sent, got      \* history: messages accepted and messages read

connVars == <<sendQ, recvQ, recvTotal, numSendAck, numSendNoAck,
              lastSeqID, lastReadID, ok>>
vars == <<connVars, data, acks, dups, sent, got>>

Init ==
  /\ sendQ = [e \in End |-> {}]
  /\ recvQ = [e \in End |-> {}]
  /\ recvTotal = [e \in End |-> 0]
  /\ numSendAck = [e \in End |-> 0]
  /\ numSendNoAck = [e \in End |-> 0]
  /\ lastSeqID = [e \in End |-> NoId]
  /\ lastReadID = [e \in End |-> NoId]
  /\ ok = [e \in End |-> TRUE]
  /\ data = {}
  /\ acks = {}
  /\ dups = 0
  /\ sent = [e \in End |-> << >>]
  /\ got  = [e \in End |-> << >>]

-----------------------------------------------------------------------------
(* Sending *)

(* Queue_Send: the entry is due at once, LastTime being 0. *)
SendEntry(c, i, m) ==
  [code |-> c, id |-> i, msg |-> m, isAck |-> FALSE,
   idle |-> RetryDelta + 1, age |-> 0, sends |-> 0]

SendAcked(e, m) ==
  /\ numSendAck[e] < AckBudget[e]
  /\ Cardinality(sendQ[e]) < MaxSend
  /\ sendQ' = [sendQ EXCEPT ![e] = @ \cup {SendEntry("DATA_ACK", numSendAck[e], m)}]
  /\ numSendAck' = [numSendAck EXCEPT ![e] = @ + 1]
  /\ sent' = [sent EXCEPT ![e] = Append(@, m)]
  /\ UNCHANGED <<recvQ, recvTotal, numSendNoAck, lastSeqID, lastReadID, ok,
                 data, acks, dups, got>>

SendUnacked(e, m) ==
  /\ numSendNoAck[e] < NoAckBudget[e]
  /\ Cardinality(sendQ[e]) < MaxSend
  /\ sendQ' = [sendQ EXCEPT ![e] = @ \cup {SendEntry("DATA_NOACK", numSendNoAck[e], m)}]
  /\ numSendNoAck' = [numSendNoAck EXCEPT ![e] = @ + 1]
  /\ UNCHANGED <<recvQ, recvTotal, numSendAck, lastSeqID, lastReadID, ok,
                 data, acks, dups, sent, got>>

-----------------------------------------------------------------------------
(* Receiving: Receive_Packet, one action per packet code.  A delivered       *)
(* packet may be delivered again until the network loses it; repetitions of  *)
(* an unacknowledged one, which each take a slot, are bounded.               *)

Held(e, i) == \E q \in recvQ[e] : q.code = "DATA_ACK" /\ q.id = i

ReceiveAck(e, p) ==
  /\ p \in acks /\ p.to = e
  /\ sendQ' = [sendQ EXCEPT ![e] =
       {IF q.code = "DATA_ACK" /\ q.id = p.id THEN [q EXCEPT !.isAck = TRUE] ELSE q
          : q \in sendQ[e]}]
  /\ UNCHANGED <<recvQ, recvTotal, numSendAck, numSendNoAck, lastSeqID,
                 lastReadID, ok, data, acks, dups, sent, got>>

(* mutant: the arrival counter is read before it is set *)
RecvEntry_Early(e, p) == [code |-> p.code, id |-> p.id, msg |-> p.msg,
                          read |-> FALSE, at |-> recvTotal[e] - 1]
RecvEntry(e, p) == [code |-> p.code, id |-> p.id, msg |-> p.msg,
                    read |-> FALSE, at |-> recvTotal[e]]

Enqueue(e, p) ==
  /\ recvQ' = [recvQ EXCEPT ![e] = @ \cup {RecvEntry(e, p)}]
  /\ recvTotal' = [recvTotal EXCEPT ![e] = @ + 1]

(* One slot is kept free of packets that are not the next one in sequence. *)
Spare(e) == MaxReceive - Cardinality(recvQ[e]) > 1

ReceiveUnacked(e, p, keep) ==
  /\ p \in data /\ p.to = e /\ p.code = "DATA_NOACK"
  /\ keep => dups < MaxDup
  /\ IF Spare(e) THEN Enqueue(e, p) ELSE UNCHANGED <<recvQ, recvTotal>>
  /\ data' = IF keep THEN data ELSE data \ {p}
  /\ dups' = IF keep THEN dups + 1 ELSE dups
  /\ UNCHANGED <<sendQ, numSendAck, numSendNoAck, lastSeqID, lastReadID, ok,
                 acks, sent, got>>

(* The packet is old or already queued, or it does not fit. *)
(* mutant: the next packet in sequence counts as old *)
IsRepeat_Next(e, p) == p.id <= lastSeqID[e] + 1 \/ Held(e, p.id)
IsRepeat(e, p) == p.id <= lastSeqID[e] \/ Held(e, p.id)
(* mutant: no slot is reserved *)
Fits_AnySlot(e, p) == Cardinality(recvQ[e]) < MaxReceive
Fits(e, p) == /\ Cardinality(recvQ[e]) < MaxReceive
              /\ Spare(e) \/ p.id = lastSeqID[e] + 1

(* lastSeqID moves over every PacketID queued without a gap after p. *)
(* mutant: packets already queued are not passed *)
AdvanceSeq_One(e, p) == lastSeqID' = IF p.id = lastSeqID[e] + 1
                                       THEN [lastSeqID EXCEPT ![e] = p.id] ELSE lastSeqID
AdvanceSeq(e, p) ==
  IF p.id = lastSeqID[e] + 1
    THEN \E last \in {p.id} \cup {q.id : q \in recvQ[e]} :
           /\ last >= p.id
           /\ \A i \in p.id + 1 .. last : Held(e, i)
           /\ ~ Held(e, last + 1)
           /\ lastSeqID' = [lastSeqID EXCEPT ![e] = last]
    ELSE UNCHANGED lastSeqID

SendAck(e, p) == acks' = acks \cup {[to |-> Peer(e), id |-> p.id]}

ReceiveData(e, p) ==
  /\ p \in data /\ p.to = e /\ p.code = "DATA_ACK"
  /\ \/ /\ IsRepeat(e, p)
        /\ SendAck(e, p)
        /\ UNCHANGED <<recvQ, recvTotal, lastSeqID>>
     \/ /\ ~ IsRepeat(e, p) /\ Fits(e, p)
        /\ Enqueue(e, p)
        /\ AdvanceSeq(e, p)
        /\ SendAck(e, p)
     \/ /\ ~ IsRepeat(e, p) /\ ~ Fits(e, p)
        /\ UNCHANGED <<recvQ, recvTotal, lastSeqID, acks>>
  /\ UNCHANGED <<sendQ, numSendAck, numSendNoAck, lastReadID, ok, data, dups,
                 sent, got>>

-----------------------------------------------------------------------------
(* Reading: Get_Packet returns the first entry, in arrival order, that is    *)
(* unread and either the next PacketID or not sequenced at all.              *)
(* mutant: any unread entry will do *)
Readable_Any(e) == {q \in recvQ[e] : ~ q.read}
Readable(e) == {q \in recvQ[e] : /\ ~ q.read
                                 /\ \/ q.code = "DATA_ACK" /\ q.id = lastReadID[e] + 1
                                    \/ q.code = "DATA_NOACK"}

GetPacket(e) ==
  /\ \E q \in Readable(e) :
       /\ \A r \in Readable(e) : q.at <= r.at
       /\ recvQ' = [recvQ EXCEPT ![e] = (@ \ {q}) \cup {[q EXCEPT !.read = TRUE]}]
       /\ IF q.code = "DATA_ACK"
            THEN /\ lastReadID' = [lastReadID EXCEPT ![e] = q.id]
                 /\ got' = [got EXCEPT ![e] = Append(@, q.msg)]
            ELSE UNCHANGED <<lastReadID, got>>
  /\ UNCHANGED <<sendQ, recvTotal, numSendAck, numSendNoAck, lastSeqID, ok,
                 data, acks, dups, sent>>

-----------------------------------------------------------------------------
(* Service: acknowledged entries go, due entries are (re)sent, and unless    *)
(* that found the connection bad the receive queue is cleared of entries     *)
(* already read.                                                             *)
Sat(n, limit) == IF limit = NoLimit THEN (IF n > 1 THEN 1 ELSE n)
                 ELSE IF n > limit + 1 THEN limit + 1 ELSE n

(* mutant: acknowledged entries are not dequeued *)
Unacked_All(e) == sendQ[e]
Unacked(e) == {q \in sendQ[e] : ~ q.isAck}
(* mutant: an entry is sent only once *)
Due_Once(e) == {q \in Unacked(e) : q.sends = 0}
Due(e)     == {q \in Unacked(e) : q.idle > RetryDelta}

Resent(q) == [q EXCEPT !.idle = 0,
                       !.sends = Sat(@ + 1, MaxRetries),
                       !.isAck = (q.sends = 0 /\ q.code = "DATA_NOACK")]

GivenUp(q) == \/ MaxRetries # NoLimit /\ q.sends + 1 > MaxRetries
              \/ Timeout # NoLimit /\ q.age > Timeout

(* mutant: entries below LastSeqID go unread *)
Removable_Unread(e) == {q \in recvQ[e] : q.code = "DATA_NOACK" \/ q.id < lastSeqID[e]}
Removable(e) == {q \in recvQ[e] : /\ q.read
                                  /\ q.code = "DATA_NOACK" \/ q.id < lastSeqID[e]}

Service(e) ==
  /\ sendQ' = [sendQ EXCEPT ![e] = (Unacked(e) \ Due(e)) \cup {Resent(q) : q \in Due(e)}]
  /\ data' = data \cup {[to |-> Peer(e), code |-> q.code, id |-> q.id, msg |-> q.msg]
                          : q \in Due(e)}
  /\ ok' = [ok EXCEPT ![e] = \A q \in Due(e) : ~ GivenUp(q)]
  /\ recvQ' = IF ok'[e] THEN [recvQ EXCEPT ![e] = @ \ Removable(e)] ELSE recvQ
  /\ UNCHANGED <<recvTotal, numSendAck, numSendNoAck, lastSeqID, lastReadID,
                 acks, dups, sent, got>>

-----------------------------------------------------------------------------
(* The clock and the network *)
Aged(q) == [q EXCEPT !.idle = IF @ > RetryDelta THEN @ ELSE @ + 1,
                     !.age  = IF q.sends = 0 \/ Timeout = NoLimit THEN 0 ELSE Sat(@ + 1, Timeout)]

Tick == /\ sendQ' = [e \in End |-> {Aged(q) : q \in sendQ[e]}]
        /\ UNCHANGED <<recvQ, recvTotal, numSendAck, numSendNoAck, lastSeqID,
                       lastReadID, ok, data, acks, dups, sent, got>>

Lose == /\ Lossy
        /\ \/ \E p \in data : data' = data \ {p} /\ UNCHANGED acks
           \/ \E p \in acks : acks' = acks \ {p} /\ UNCHANGED data
        /\ UNCHANGED <<connVars, dups, sent, got>>

(* Not this class but its user keeps a sender within a window: Can_Advance   *)
(* (QUEUE.CPP) stops a player who is MaxAhead frames ahead of the last frame *)
(* its peer is known to have reached, here Window messages beyond what that  *)
(* peer has read.                                                            *)
Paced(e) == numSendAck[e] - Len(got[Peer(e)]) < Window

Next == \/ \E e \in End, m \in Msg : Paced(e) /\ SendAcked(e, m)
        \/ \E e \in End, m \in Msg : SendUnacked(e, m)
        \/ \E e \in End, p \in acks : ReceiveAck(e, p)
        \/ \E e \in End, p \in data : ReceiveData(e, p)
        \/ \E e \in End, p \in data, keep \in BOOLEAN : ReceiveUnacked(e, p, keep)
        \/ \E e \in End : GetPacket(e) \/ Service(e)
        \/ Tick
        \/ Lose

Safety == Init /\ [][Next]_vars

(* Fairness: the main loop keeps calling Service and Get_Packet at both ends  *)
(* and time passes; a packet that is put on the wire again and again arrives *)
(* in the end (the network may lose any packet, never every copy of one).    *)
DataArrives(e, i) == \E p \in data : p.id = i /\ ReceiveData(e, p)
AckArrives(e, i)  == \E p \in acks : p.id = i /\ ReceiveAck(e, p)

Fairness ==
  /\ WF_vars(Tick)
  /\ \A e \in End :
       /\ WF_vars(Service(e)) /\ WF_vars(GetPacket(e))
       /\ \A i \in 0 .. AckBudget[e] - 1 : /\ SF_vars(DataArrives(Peer(e), i))
                                           /\ SF_vars(AckArrives(e, i))

Spec == Safety /\ Fairness

-----------------------------------------------------------------------------
(* Properties *)

SendEntries == [code : Code, id : Nat, msg : Msg, isAck : BOOLEAN,
                idle : Nat, age : Nat, sends : Nat]
RecvEntries == [code : Code, id : Nat, msg : Msg, read : BOOLEAN, at : Nat]
DataPackets == [to : End, code : Code, id : Nat, msg : Msg]

(* Every variable has its type. *)
TypeOK ==
  /\ sendQ \in [End -> SUBSET SendEntries]
  /\ recvQ \in [End -> SUBSET RecvEntries]
  /\ recvTotal \in [End -> Nat]
  /\ numSendAck \in [End -> Nat] /\ numSendNoAck \in [End -> Nat]
  /\ lastSeqID \in [End -> Nat \cup {NoId}]
  /\ lastReadID \in [End -> Nat \cup {NoId}]
  /\ ok \in [End -> BOOLEAN]
  /\ data \in SUBSET DataPackets
  /\ acks \in SUBSET [to : End, id : Nat]
  /\ dups \in Nat
  /\ sent \in [End -> Seq(Msg)] /\ got \in [End -> Seq(Msg)]

(* What an end has read of the acknowledged messages is a prefix of what its *)
(* peer had accepted for sending: none is lost, repeated or reordered,       *)
(* whatever the network and the retries do (Receive_Packet, Get_Packet).     *)
InOrderDelivery ==
  \A e \in End : /\ Len(got[Peer(e)]) <= Len(sent[e])
                 /\ \A n \in 1 .. Len(got[Peer(e)]) : got[Peer(e)][n] = sent[e][n]

(* A message leaves the sender's queue, or is marked acknowledged in it,     *)
(* only once the peer has taken it over: an ACK never releases a message the *)
(* receiver refused (the full-queue returns of Receive_Packet send no ACK).  *)
Waiting(e, i) == \E q \in sendQ[e] : q.code = "DATA_ACK" /\ q.id = i /\ ~ q.isAck
Taken(e, i)   == i <= lastSeqID[e] \/ Held(e, i)
ReleasedOnlyIfTaken ==
  \A e \in End : \A i \in 0 .. numSendAck[e] - 1 : Waiting(e, i) \/ Taken(Peer(e), i)

(* Everything up to LastSeqID that the game has not read is still queued and *)
(* unread: the advance over queued PacketIDs and the clearing in             *)
(* Service_Receive_Queue never skip or drop a message.                       *)
UnreadIsQueued ==
  \A e \in End : /\ lastReadID[e] <= lastSeqID[e]
                 /\ \A i \in lastReadID[e] + 1 .. lastSeqID[e] :
                      \E q \in recvQ[e] : q.code = "DATA_ACK" /\ q.id = i /\ ~ q.read

(* The receive queue never wedges: when the game has read all it can and     *)
(* Service has cleared what it may, the next packet in sequence fits.  The   *)
(* entry with PacketID = LastSeqID stays in the queue, and out-of-order and  *)
(* unacknowledged packets may fill it only up to the reserved slot.  This    *)
(* holds as long as Window <= MaxReceive.                                    *)
NextAlwaysFits ==
  \A e \in End : \/ Readable(e) # {} \/ Removable(e) # {}
                 \/ Cardinality(recvQ[e]) < MaxReceive

(* The sender is released: an acknowledged message does not stay in the send *)
(* queue for ever, so a full queue takes messages again.                     *)
QueuedToSend(e, i) == \E q \in sendQ[e] : q.code = "DATA_ACK" /\ q.id = i
SendQueueDrains ==
  \A e \in End : \A i \in 0 .. AckBudget[e] - 1 : QueuedToSend(e, i) ~> ~ QueuedToSend(e, i)

(* The connection implements the reliable, ordered channel.                  *)
Channel == INSTANCE ReliableChannel WITH End <- End, Msg <- Msg, sent <- sent, got <- got
ImplementsChannel == Channel!Spec
ImplementsChannelSafety == Channel!Safety
-----------------------------------------------------------------------------
(* The inductive invariant behind the safety properties. *)

(* Queues and network only hold messages of the stream they belong to. *)
InStream(s, x) == x.code = "DATA_ACK" => x.id < Len(s) /\ x.msg = s[x.id + 1]
FromStream(e, x) == InStream(sent[e], x)
StreamsAgree ==
  /\ \A e \in End : /\ numSendAck[e] = Len(sent[e])
                    /\ \A q \in sendQ[e] : FromStream(e, q)
                    /\ \A q \in recvQ[e] : FromStream(Peer(e), q)
  /\ \A p \in data : FromStream(Peer(p.to), p)

(* One entry per PacketID; it is read exactly when LastReadID has reached it. *)
OneEntryPerID ==
  \A e \in End : \A q \in recvQ[e] : q.code = "DATA_ACK" =>
     /\ q.read <=> q.id <= lastReadID[e]
     /\ \A r \in recvQ[e] : r.code = "DATA_ACK" /\ r.id = q.id => r = q

(* LastSeqID is the largest PacketID below which nothing is missing. *)
SeqIsMaximal == \A e \in End : /\ ~ Held(e, lastSeqID[e] + 1)
                               /\ lastSeqID[e] < Len(sent[Peer(e)])
                               /\ Len(got[e]) = lastReadID[e] + 1

(* A packet is acknowledged only after it was taken. *)
AcksAreTrue == \A a \in acks : Taken(Peer(a.to), a.id)

IInv == /\ TypeOK /\ StreamsAgree /\ OneEntryPerID /\ SeqIsMaximal
        /\ UnreadIsQueued /\ InOrderDelivery /\ AcksAreTrue /\ ReleasedOnlyIfTaken
==============================================================================
