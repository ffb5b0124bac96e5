-------------------------- MODULE NonSeqConnProofs ---------------------------
(* The safety of NonSeqConn for every value of its constants.                *)
EXTENDS NonSeqConn, FiniteSetTheorems, TLAPS

(* Each end is the peer of the other. *)
LEMMA PeerFacts == \A e \in End : Peer(e) \in End /\ Peer(e) # e /\ Peer(Peer(e)) = e
  BY Ends DEF End, Peer

LEMMA SatType == \A n \in Nat, limit \in Nat \cup {NoLimit} : Sat(n, limit) \in Nat
  BY DEF Sat, NoLimit

(* Every variable keeps its type (the C++ declarations of CommBufferClass    *)
(* and NonSequencedConnClass).                                               *)
LEMMA TypeInit == Init => TypeOK
  BY DEF Init, TypeOK, NoId

(* Queue_Receive keeps the types of the receive queue and its total. *)
LEMMA EnqueueType ==
  ASSUME TypeOK, NEW e \in End, NEW p, RecvEntry(e, p) \in RecvEntries, Enqueue(e, p)
  PROVE  recvQ' \in [End -> SUBSET RecvEntries] /\ recvTotal' \in [End -> Nat]
<1>1. recvQ[e] \cup {RecvEntry(e, p)} \in SUBSET RecvEntries
  BY DEF TypeOK
<1>2. recvQ' = [recvQ EXCEPT ![e] = recvQ[e] \cup {RecvEntry(e, p)}]
  BY DEF Enqueue
<1>3. recvTotal' = [recvTotal EXCEPT ![e] = recvTotal[e] + 1]
  BY DEF Enqueue
<1>4. recvQ' \in [End -> SUBSET RecvEntries]
  BY <1>1, <1>2 DEF TypeOK
<1>5. recvTotal' \in [End -> Nat]
  BY <1>3 DEF TypeOK
<1> QED BY <1>4, <1>5

LEMMA TypeNext == TypeOK /\ [Next]_vars => TypeOK'
<1> SUFFICES ASSUME TypeOK, [Next]_vars PROVE TypeOK'
  OBVIOUS
<1>a. RetryDelta \in Nat
  BY Limits
<1>1. ASSUME NEW e \in End, NEW m \in Msg, SendAcked(e, m) PROVE TypeOK'
  <2>1. SendEntry("DATA_ACK", numSendAck[e], m) \in SendEntries
    BY <1>a DEF SendEntry, SendEntries, Code, TypeOK
  <2>2. sendQ' \in [End -> SUBSET SendEntries]
    BY <1>1, <2>1 DEF SendAcked, TypeOK
  <2>3. sent' \in [End -> Seq(Msg)] /\ numSendAck' \in [End -> Nat]
    BY <1>1 DEF SendAcked, TypeOK
  <2> QED BY <1>1, <2>2, <2>3 DEF SendAcked, TypeOK
<1>2. ASSUME NEW e \in End, NEW m \in Msg, SendUnacked(e, m) PROVE TypeOK'
  <2>1. SendEntry("DATA_NOACK", numSendNoAck[e], m) \in SendEntries
    BY <1>a DEF SendEntry, SendEntries, Code, TypeOK
  <2>2. sendQ' \in [End -> SUBSET SendEntries] /\ numSendNoAck' \in [End -> Nat]
    BY <1>2, <2>1 DEF SendUnacked, TypeOK
  <2> QED BY <1>2, <2>2 DEF SendUnacked, TypeOK
<1>3. ASSUME NEW e \in End, NEW p \in acks, ReceiveAck(e, p) PROVE TypeOK'
  <2>1. \A q \in sendQ[e] : q \in SendEntries
    BY DEF TypeOK
  <2>2. \A q \in sendQ[e] : [q EXCEPT !.isAck = TRUE] \in SendEntries
    BY <2>1 DEF SendEntries
  <2>3. sendQ' \in [End -> SUBSET SendEntries]
    BY <1>3, <2>1, <2>2 DEF ReceiveAck, TypeOK
  <2> QED BY <1>3, <2>3 DEF ReceiveAck, TypeOK
<1>4. ASSUME NEW e \in End, NEW p \in data, ReceiveData(e, p) PROVE TypeOK'
  <2>1. p \in DataPackets /\ p.id \in Nat
    BY DEF DataPackets, TypeOK
  <2>2. RecvEntry(e, p) \in RecvEntries
    BY <2>1 DEF RecvEntry, RecvEntries, DataPackets, TypeOK
  <2>3. \A q \in recvQ[e] : q.id \in Nat
    BY DEF RecvEntries, TypeOK
  <2>4. recvQ' \in [End -> SUBSET RecvEntries] /\ recvTotal' \in [End -> Nat]
    <3>1. CASE UNCHANGED <<recvQ, recvTotal>>
      BY <3>1 DEF TypeOK
    <3>2. CASE Enqueue(e, p)
      BY <2>2, <3>2, EnqueueType
    <3> QED BY <1>4, <3>1, <3>2 DEF ReceiveData
  <2>5. lastSeqID' \in [End -> Nat \cup {NoId}]
    <3>1. CASE UNCHANGED lastSeqID
      BY <3>1 DEF TypeOK
    <3>2. CASE /\ AdvanceSeq(e, p)
               /\ p.id = lastSeqID[e] + 1
      <4>1. PICK last \in {p.id} \cup {q.id : q \in recvQ[e]} :
               lastSeqID' = [lastSeqID EXCEPT ![e] = last]
        BY <3>2 DEF AdvanceSeq
      <4>2. last \in Nat
        BY <2>1, <2>3
      <4> QED BY <4>1, <4>2 DEF TypeOK
    <3> QED BY <1>4, <3>1, <3>2 DEF ReceiveData, AdvanceSeq
  <2>6. acks' \in SUBSET [to : End, id : Nat]
    BY <1>4, <2>1, PeerFacts DEF ReceiveData, SendAck, TypeOK
  <2> QED BY <1>4, <2>4, <2>5, <2>6 DEF ReceiveData, TypeOK
<1>5. ASSUME NEW e \in End, NEW p \in data, NEW keep \in BOOLEAN,
             ReceiveUnacked(e, p, keep)
      PROVE TypeOK'
  <2>1. RecvEntry(e, p) \in RecvEntries
    BY DEF RecvEntry, RecvEntries, DataPackets, TypeOK
  <2>2. recvQ' \in [End -> SUBSET RecvEntries] /\ recvTotal' \in [End -> Nat]
    <3>1. CASE Spare(e)
      <4>1. Enqueue(e, p)
        BY <1>5, <3>1 DEF ReceiveUnacked
      <4> QED BY <2>1, <4>1, EnqueueType
    <3>2. CASE ~ Spare(e)
      BY <1>5, <3>2 DEF ReceiveUnacked, TypeOK
    <3> QED BY <3>1, <3>2
  <2>3. data' \in SUBSET DataPackets /\ dups' \in Nat
    BY <1>5 DEF ReceiveUnacked, TypeOK
  <2> QED BY <1>5, <2>2, <2>3 DEF ReceiveUnacked, TypeOK
<1>6. ASSUME NEW e \in End, GetPacket(e) PROVE TypeOK'
  <2>1. PICK q \in Readable(e) :
           /\ recvQ' = [recvQ EXCEPT ![e] = (@ \ {q}) \cup {[q EXCEPT !.read = TRUE]}]
           /\ IF q.code = "DATA_ACK"
                THEN /\ lastReadID' = [lastReadID EXCEPT ![e] = q.id]
                     /\ got' = [got EXCEPT ![e] = Append(@, q.msg)]
                ELSE UNCHANGED <<lastReadID, got>>
    BY <1>6 DEF GetPacket
  <2>2. q \in RecvEntries
    BY DEF Readable, TypeOK
  <2>3. [q EXCEPT !.read = TRUE] \in RecvEntries /\ q.id \in Nat /\ q.msg \in Msg
    BY <2>2 DEF RecvEntries
  <2>4. recvQ' \in [End -> SUBSET RecvEntries]
    BY <2>1, <2>3 DEF TypeOK
  <2>5. lastReadID' \in [End -> Nat \cup {NoId}] /\ got' \in [End -> Seq(Msg)]
    <3>1. CASE q.code = "DATA_ACK"
      <4>1. got[e] \in Seq(Msg) /\ Append(got[e], q.msg) \in Seq(Msg)
        BY <2>3 DEF TypeOK
      <4>2. got' \in [End -> Seq(Msg)]
        BY <2>1, <3>1, <4>1 DEF TypeOK
      <4>3. lastReadID' \in [End -> Nat \cup {NoId}]
        BY <2>1, <2>3, <3>1 DEF TypeOK
      <4> QED BY <4>2, <4>3
    <3>2. CASE q.code # "DATA_ACK"
      BY <2>1, <3>2 DEF TypeOK
    <3> QED BY <3>1, <3>2
  <2> QED BY <1>6, <2>4, <2>5 DEF GetPacket, TypeOK
<1>7. ASSUME NEW e \in End, Service(e) PROVE TypeOK'
  <2>1. \A q \in sendQ[e] : q \in SendEntries
    BY DEF TypeOK
  <2>2. \A q \in SendEntries : Resent(q) \in SendEntries
    <3> SUFFICES ASSUME NEW q \in SendEntries PROVE Resent(q) \in SendEntries
      OBVIOUS
    <3>a. q.sends + 1 \in Nat
      BY DEF SendEntries
    <3>1. Sat(q.sends + 1, MaxRetries) \in Nat
      BY <3>a, SatType, Limits
    <3>2. ASSUME NEW n \in Nat, NEW b \in BOOLEAN
          PROVE  [q EXCEPT !.idle = 0, !.sends = n, !.isAck = b] \in SendEntries
      BY DEF SendEntries
    <3> DEFINE b == q.sends = 0 /\ q.code = "DATA_NOACK"
    <3>3. b \in BOOLEAN
      OBVIOUS
    <3>4. Resent(q) = [q EXCEPT !.idle = 0, !.sends = Sat(q.sends + 1, MaxRetries),
                                !.isAck = b]
      BY DEF Resent, SendEntries
    <3> HIDE DEF b
    <3> QED BY <3>1, <3>2, <3>3, <3>4
  <2>3. \A q \in SendEntries : [to |-> Peer(e), code |-> q.code, id |-> q.id,
                                msg |-> q.msg] \in DataPackets
    BY PeerFacts DEF SendEntries, DataPackets
  <2>4. sendQ' \in [End -> SUBSET SendEntries]
    BY <1>7, <2>1, <2>2 DEF Service, Due, Unacked, TypeOK
  <2>5. data' \in SUBSET DataPackets
    BY <1>7, <2>1, <2>3 DEF Service, Due, Unacked, TypeOK
  <2>6. ok' \in [End -> BOOLEAN]
    <3>1. (\A q \in Due(e) : ~ GivenUp(q)) \in BOOLEAN
      OBVIOUS
    <3> QED BY <1>7, <3>1 DEF Service, TypeOK
  <2>7. recvQ' \in [End -> SUBSET RecvEntries]
    BY <1>7 DEF Service, TypeOK
  <2> QED BY <1>7, <2>4, <2>5, <2>6, <2>7 DEF Service, TypeOK
<1>8. ASSUME Tick PROVE TypeOK'
  <2>1. \A q \in SendEntries : Aged(q) \in SendEntries
    <3> SUFFICES ASSUME NEW q \in SendEntries PROVE Aged(q) \in SendEntries
      OBVIOUS
    <3>a. q.age + 1 \in Nat
      BY DEF SendEntries
    <3>1. Sat(q.age + 1, Timeout) \in Nat
      BY <3>a, SatType, Limits
    <3>2. ASSUME NEW n \in Nat, NEW m \in Nat
          PROVE  [q EXCEPT !.idle = n, !.age = m] \in SendEntries
      BY DEF SendEntries
    <3> DEFINE n == IF q.idle > RetryDelta THEN q.idle ELSE q.idle + 1
               m == IF q.sends = 0 \/ Timeout = NoLimit THEN 0 ELSE Sat(q.age + 1, Timeout)
    <3>3. n \in Nat /\ m \in Nat
      BY <3>1 DEF SendEntries
    <3>4. Aged(q) = [q EXCEPT !.idle = n, !.age = m]
      BY DEF Aged, SendEntries
    <3> HIDE DEF n, m
    <3> QED BY <3>2, <3>3, <3>4
  <2>2. sendQ' \in [End -> SUBSET SendEntries]
    BY <1>8, <2>1 DEF Tick, TypeOK
  <2> QED BY <1>8, <2>2 DEF Tick, TypeOK
<1>9. ASSUME Lose PROVE TypeOK'
  <2>1. data' \in SUBSET DataPackets /\ acks' \in SUBSET [to : End, id : Nat]
    BY <1>9 DEF Lose, TypeOK
  <2> QED BY <1>9, <2>1 DEF Lose, connVars, TypeOK
<1>10. CASE UNCHANGED vars
  BY <1>10 DEF vars, connVars, TypeOK
<1> QED BY <1>1, <1>2, <1>3, <1>4, <1>5, <1>6, <1>7, <1>8, <1>9, <1>10 DEF Next

THEOREM TypeCorrect == Safety => []TypeOK
  BY TypeInit, TypeNext, PTL DEF Safety
-----------------------------------------------------------------------------
(* The inductive invariant, one lemma per action. *)

LEMMA InvInit == Init => IInv
<1> SUFFICES ASSUME Init PROVE IInv
  OBVIOUS
<1>1. TypeOK
  BY TypeInit
<1>2. StreamsAgree
  BY PeerFacts DEF Init, StreamsAgree
<1>3. OneEntryPerID /\ UnreadIsQueued /\ AcksAreTrue
  BY PeerFacts DEF Init, OneEntryPerID, UnreadIsQueued, AcksAreTrue, NoId
<1>4. SeqIsMaximal
  BY PeerFacts DEF Init, SeqIsMaximal, Held, NoId
<1>5. InOrderDelivery /\ ReleasedOnlyIfTaken
  BY PeerFacts DEF Init, InOrderDelivery, ReleasedOnlyIfTaken
<1> QED BY <1>1, <1>2, <1>3, <1>4, <1>5 DEF IInv

(* A step that changes neither what was received and read nor the streams    *)
(* keeps the facts about reception.                                          *)
LEMMA ReceptionKept ==
  ASSUME IInv, UNCHANGED <<recvQ, lastSeqID, lastReadID, sent, got>>
  PROVE  OneEntryPerID' /\ SeqIsMaximal' /\ UnreadIsQueued' /\ InOrderDelivery'
<1>1. OneEntryPerID'
  BY DEF IInv, OneEntryPerID
<1>2. SeqIsMaximal'
  BY DEF IInv, SeqIsMaximal, Held
<1>3. UnreadIsQueued'
  BY DEF IInv, UnreadIsQueued
<1>4. InOrderDelivery'
  BY DEF IInv, InOrderDelivery
<1> QED BY <1>1, <1>2, <1>3, <1>4

LEMMA SendAckedKeeps ==
  ASSUME IInv, NEW e \in End, NEW m \in Msg, SendAcked(e, m), TypeOK'
  PROVE  IInv'
<1> DEFINE k == numSendAck[e]
           q0 == SendEntry("DATA_ACK", k, m)
<1>0. \A f \in End : sent[f] \in Seq(Msg) /\ Len(sent[f]) \in Nat
  BY DEF IInv, TypeOK
<1>1. /\ k = Len(sent[e])
      /\ Len(sent'[e]) = Len(sent[e]) + 1
      /\ sent'[e][Len(sent[e]) + 1] = m
      /\ \A n \in 1 .. Len(sent[e]) : sent'[e][n] = sent[e][n]
  BY <1>0 DEF SendAcked, IInv, TypeOK, StreamsAgree
<1>2. \A f \in End : f # e => sent'[f] = sent[f]
  BY DEF SendAcked, IInv, TypeOK
<1>3. ASSUME NEW f \in End, NEW x, x.id \in Nat, InStream(sent[f], x)
      PROVE  InStream(sent'[f], x)
  <2>1. CASE f = e
    <3>1. x.id < Len(sent[e]) => x.id + 1 \in 1 .. Len(sent[e])
      BY <1>0, <1>3
    <3> QED BY <1>0, <1>1, <1>3, <2>1, <3>1 DEF InStream
  <2>2. CASE f # e
    BY <1>2, <1>3, <2>2
  <2> QED BY <2>1, <2>2
<1>4. StreamsAgree'
  <2>1. \A f \in End : numSendAck'[f] = Len(sent'[f])
    BY <1>1, <1>2 DEF SendAcked, IInv, StreamsAgree, TypeOK
  <2>2. \A f \in End : \A q \in sendQ'[f] : InStream(sent'[f], q)
    <3>1. InStream(sent'[e], q0)
      BY <1>0, <1>1 DEF InStream, SendEntry
    <3>2. \A f \in End : \A q \in sendQ[f] : q.id \in Nat /\ InStream(sent[f], q)
      BY DEF IInv, StreamsAgree, TypeOK, SendEntries, FromStream
    <3>3. \A f \in End : \A q \in sendQ'[f] : q \in sendQ[f] \/ (f = e /\ q = q0)
      BY DEF SendAcked, IInv, TypeOK
    <3> QED BY <1>3, <3>1, <3>2, <3>3
  <2>3. \A f \in End : \A q \in recvQ'[f] : InStream(sent'[Peer(f)], q)
    <3>1. \A f \in End : \A q \in recvQ[f] : q.id \in Nat /\ InStream(sent[Peer(f)], q)
      BY DEF IInv, StreamsAgree, TypeOK, RecvEntries, FromStream
    <3> QED BY <1>3, <3>1, PeerFacts DEF SendAcked
  <2>4. \A p \in data' : InStream(sent'[Peer(p.to)], p)
    <3>1. \A p \in data : /\ p.id \in Nat /\ Peer(p.to) \in End
                          /\ InStream(sent[Peer(p.to)], p)
      BY PeerFacts DEF IInv, StreamsAgree, TypeOK, DataPackets, FromStream
    <3> QED BY <1>3, <3>1 DEF SendAcked
  <2> QED BY <2>1, <2>2, <2>3, <2>4 DEF StreamsAgree, FromStream
<1>5. OneEntryPerID' /\ UnreadIsQueued'
  BY DEF SendAcked, IInv, OneEntryPerID, UnreadIsQueued
<1>6. SeqIsMaximal'
  <2>1. \A f \in End : Len(sent[f]) <= Len(sent'[f]) /\ Len(sent'[f]) \in Nat
    BY <1>0, <1>1, <1>2
  <2>2. \A f \in End : lastSeqID[f] \in Int /\ lastSeqID[f] < Len(sent[Peer(f)])
    <3>1. \A f \in End : lastSeqID[f] \in Int
      BY DEF IInv, TypeOK, NoId
    <3>2. \A f \in End : lastSeqID[f] < Len(sent[Peer(f)])
      BY DEF IInv, SeqIsMaximal
    <3> QED BY <3>1, <3>2
  <2>3. \A f \in End : lastSeqID'[f] < Len(sent'[Peer(f)])
    BY <1>0, <2>1, <2>2, PeerFacts DEF SendAcked
  <2> QED BY <2>3 DEF SendAcked, IInv, SeqIsMaximal, Held
<1>7. InOrderDelivery'
  <2> SUFFICES ASSUME NEW f \in End
               PROVE  /\ Len(got'[Peer(f)]) <= Len(sent'[f])
                      /\ \A n \in 1 .. Len(got'[Peer(f)]) : got'[Peer(f)][n] = sent'[f][n]
    BY DEF InOrderDelivery
  <2>1. /\ got' = got /\ Len(got[Peer(f)]) \in Nat
        /\ Len(got[Peer(f)]) <= Len(sent[f])
        /\ \A n \in 1 .. Len(got[Peer(f)]) : got[Peer(f)][n] = sent[f][n]
    <3>1. got' = got /\ Len(got[Peer(f)]) \in Nat
      BY PeerFacts DEF SendAcked, IInv, TypeOK
    <3>2. /\ Len(got[Peer(f)]) <= Len(sent[f])
          /\ \A n \in 1 .. Len(got[Peer(f)]) : got[Peer(f)][n] = sent[f][n]
      BY DEF IInv, InOrderDelivery
    <3> QED BY <3>1, <3>2
  <2>2. CASE f = e
    BY <1>0, <1>1, <2>1, <2>2
  <2>3. CASE f # e
    BY <1>2, <2>1, <2>3
  <2> QED BY <2>2, <2>3
<1>8. AcksAreTrue'
  BY DEF SendAcked, IInv, AcksAreTrue, Taken, Held
<1>9. ReleasedOnlyIfTaken'
  <2>1. \A f \in End, i \in Nat : Taken(f, i) => Taken(f, i)'
    BY DEF SendAcked, Taken, Held
  <2>2. \A f \in End, i \in Nat : Waiting(f, i) => Waiting(f, i)'
    BY DEF SendAcked, Waiting, IInv, TypeOK
  <2>3. \E q \in sendQ'[e] : q.code = "DATA_ACK" /\ q.id = k /\ ~ q.isAck
    <3>1. q0 \in sendQ'[e]
      BY DEF SendAcked, IInv, TypeOK
    <3> QED BY <3>1 DEF SendEntry
  <2> SUFFICES ASSUME NEW f \in End, NEW i \in 0 .. numSendAck'[f] - 1
               PROVE  Waiting(f, i)' \/ Taken(Peer(f), i)'
    BY DEF ReleasedOnlyIfTaken
  <2>4. i \in Nat /\ (i \in 0 .. numSendAck[f] - 1 \/ (f = e /\ i = k))
    BY DEF SendAcked, IInv, TypeOK
  <2>5. CASE i \in 0 .. numSendAck[f] - 1
    BY <2>1, <2>2, <2>4, <2>5, PeerFacts DEF IInv, ReleasedOnlyIfTaken
  <2>6. CASE f = e /\ i = k
    BY <2>3, <2>6 DEF Waiting
  <2> QED BY <2>4, <2>5, <2>6
<1> QED BY <1>4, <1>5, <1>6, <1>7, <1>8, <1>9 DEF IInv

(* A step that only rewrites send queues, keeping the messages that wait and *)
(* inventing none.                                                           *)
LEMMA SendQueueStep ==
  ASSUME IInv, TypeOK',
         UNCHANGED <<recvQ, numSendAck, lastSeqID, lastReadID, sent, got, data, acks>>,
         \A f \in End : \A q \in sendQ'[f] : FromStream(f, q),
         \A f \in End, i \in Nat : Waiting(f, i) => Waiting(f, i)' \/ Taken(Peer(f), i)
  PROVE  IInv'
<1>1. StreamsAgree'
  BY DEF IInv, StreamsAgree, FromStream, InStream
<1>2. AcksAreTrue'
  BY DEF IInv, AcksAreTrue, Taken, Held
<1>3. ReleasedOnlyIfTaken'
  <2>1. \A f \in End, i \in Nat : Taken(f, i) => Taken(f, i)'
    BY DEF Taken, Held
  <2>2. \A f \in End : \A i \in 0 .. numSendAck'[f] - 1 :
           i \in Nat /\ i \in 0 .. numSendAck[f] - 1
    BY DEF IInv, TypeOK
  <2> QED BY <2>1, <2>2, PeerFacts DEF IInv, ReleasedOnlyIfTaken
<1> QED BY <1>1, <1>2, <1>3, ReceptionKept DEF IInv

LEMMA SendUnackedKeeps ==
  ASSUME IInv, NEW e \in End, NEW m \in Msg, SendUnacked(e, m), TypeOK'
  PROVE  IInv'
<1>1. \A f \in End : /\ sendQ[f] \subseteq sendQ'[f]
                     /\ \A q \in sendQ'[f] : q \in sendQ[f] \/ q.code = "DATA_NOACK"
  BY DEF SendUnacked, SendEntry, IInv, TypeOK
<1>2. \A f \in End : \A q \in sendQ'[f] : FromStream(f, q)
  BY <1>1 DEF FromStream, InStream, IInv, StreamsAgree
<1>3. \A f \in End, i \in Nat : Waiting(f, i) => Waiting(f, i)'
  BY <1>1 DEF Waiting
<1> QED BY <1>2, <1>3, SendQueueStep DEF SendUnacked

LEMMA ReceiveAckKeeps ==
  ASSUME IInv, NEW e \in End, NEW p \in acks, ReceiveAck(e, p), TypeOK'
  PROVE  IInv'
<1>1. \A f \in End : f # e => sendQ'[f] = sendQ[f]
  BY DEF ReceiveAck, IInv, TypeOK
<1>2. sendQ'[e] = {IF q.code = "DATA_ACK" /\ q.id = p.id
                     THEN [q EXCEPT !.isAck = TRUE] ELSE q : q \in sendQ[e]}
  BY DEF ReceiveAck, IInv, TypeOK
<1>3. \A q \in sendQ[e] : /\ [q EXCEPT !.isAck = TRUE].code = q.code
                          /\ [q EXCEPT !.isAck = TRUE].id = q.id
                          /\ [q EXCEPT !.isAck = TRUE].msg = q.msg
  BY DEF IInv, TypeOK, SendEntries
<1>4. \A f \in End : \A q \in sendQ'[f] : FromStream(f, q)
  <2>1. \A q \in sendQ'[e] : \E r \in sendQ[e] : q.code = r.code /\ q.id = r.id /\ q.msg = r.msg
    BY <1>2, <1>3
  <2>2. \A f \in End : \A r \in sendQ[f] : FromStream(f, r)
    BY DEF IInv, StreamsAgree
  <2>3. \A q \in sendQ'[e] : FromStream(e, q)
    BY <2>1, <2>2 DEF FromStream, InStream
  <2> QED BY <1>1, <2>2, <2>3
<1>5. Taken(Peer(e), p.id)
  BY DEF IInv, AcksAreTrue, ReceiveAck
<1>6. ASSUME NEW f \in End, NEW i \in Nat, Waiting(f, i)
      PROVE  Waiting(f, i)' \/ Taken(Peer(f), i)
  <2>1. CASE f # e
    BY <1>1, <1>6, <2>1 DEF Waiting
  <2>2. CASE f = e /\ i = p.id
    BY <1>5, <2>2
  <2>3. CASE f = e /\ i # p.id
    BY <1>2, <1>6, <2>3 DEF Waiting
  <2> QED BY <2>1, <2>2, <2>3
<1> QED BY <1>4, <1>6, SendQueueStep DEF ReceiveAck

LEMMA TickKeeps == ASSUME IInv, Tick, TypeOK' PROVE IInv'
<1>1. \A f \in End : sendQ'[f] = {Aged(q) : q \in sendQ[f]}
  BY DEF Tick
<1>2. \A f \in End : \A q \in sendQ[f] :
         /\ Aged(q).code = q.code /\ Aged(q).id = q.id
         /\ Aged(q).msg = q.msg /\ Aged(q).isAck = q.isAck
  BY DEF IInv, TypeOK, SendEntries, Aged
<1>3. \A f \in End : \A q \in sendQ'[f] : FromStream(f, q)
  BY <1>1, <1>2 DEF FromStream, InStream, IInv, StreamsAgree
<1>4. \A f \in End, i \in Nat : Waiting(f, i) => Waiting(f, i)'
  BY <1>1, <1>2 DEF Waiting
<1> QED BY <1>3, <1>4, SendQueueStep DEF Tick

LEMMA LoseKeeps == ASSUME IInv, Lose, TypeOK' PROVE IInv'
<1>1. data' \subseteq data /\ acks' \subseteq acks
  BY DEF Lose
<1>2. StreamsAgree'
  BY <1>1 DEF Lose, connVars, IInv, StreamsAgree, FromStream, InStream
<1>3. AcksAreTrue'
  BY <1>1 DEF Lose, connVars, IInv, AcksAreTrue, Taken, Held
<1>4. ReleasedOnlyIfTaken'
  BY DEF Lose, connVars, IInv, ReleasedOnlyIfTaken, Waiting, Taken, Held
<1> QED BY <1>2, <1>3, <1>4, ReceptionKept DEF IInv, Lose, connVars
LEMMA ServiceKeeps ==
  ASSUME IInv, NEW e \in End, Service(e), TypeOK'
  PROVE  IInv'
<1>1. \A f \in End : f # e => sendQ'[f] = sendQ[f]
  BY DEF Service, IInv, TypeOK
<1>2. sendQ'[e] = (Unacked(e) \ Due(e)) \cup {Resent(q) : q \in Due(e)}
  BY DEF Service, IInv, TypeOK
<1>3. \A q \in sendQ[e] : /\ Resent(q).code = q.code /\ Resent(q).id = q.id
                          /\ Resent(q).msg = q.msg
                          /\ q.code = "DATA_ACK" => ~ Resent(q).isAck
  <2> SUFFICES ASSUME NEW q \in sendQ[e]
               PROVE  /\ Resent(q).code = q.code /\ Resent(q).id = q.id
                      /\ Resent(q).msg = q.msg
                      /\ q.code = "DATA_ACK" => ~ Resent(q).isAck
    OBVIOUS
  <2>1. q \in SendEntries
    BY DEF IInv, TypeOK
  <2>2. /\ Resent(q).code = q.code /\ Resent(q).id = q.id /\ Resent(q).msg = q.msg
        /\ Resent(q).isAck = (q.sends = 0 /\ q.code = "DATA_NOACK")
    BY <2>1 DEF SendEntries, Resent
  <2> QED BY <2>2
<1>4. \A f \in End : \A q \in sendQ[f] : FromStream(f, q)
  BY DEF IInv, StreamsAgree
<1>5. \A f \in End : \A q \in sendQ'[f] : FromStream(f, q)
  <2>1. \A q \in sendQ'[e] : \E r \in sendQ[e] : q.code = r.code /\ q.id = r.id /\ q.msg = r.msg
    BY <1>2, <1>3 DEF Due, Unacked
  <2>2. \A q \in sendQ'[e] : FromStream(e, q)
    BY <1>4, <2>1 DEF FromStream, InStream
  <2> QED BY <1>1, <1>4, <2>2
<1>6. \A f \in End : /\ recvQ'[f] \subseteq recvQ[f]
                     /\ \A q \in recvQ[f] : \/ q \in recvQ'[f]
                                            \/ q.read /\ (q.code = "DATA_NOACK"
                                                          \/ q.id < lastSeqID[f])
  BY DEF Service, Removable, IInv, TypeOK
<1>7. StreamsAgree'
  <2>1. \A p \in data' : FromStream(Peer(p.to), p)
    <3> SUFFICES ASSUME NEW p \in data', p \notin data PROVE FromStream(Peer(p.to), p)
      BY DEF IInv, StreamsAgree
    <3>1. PICK q \in Due(e) : p = [to |-> Peer(e), code |-> q.code, id |-> q.id,
                                   msg |-> q.msg]
      BY DEF Service
    <3>2. p.to = Peer(e) /\ p.code = q.code /\ p.id = q.id /\ p.msg = q.msg
      BY <3>1
    <3>3. FromStream(e, q)
      BY <1>4 DEF Due, Unacked
    <3> QED BY <3>2, <3>3, PeerFacts DEF FromStream, InStream
  <2>2. \A f \in End : numSendAck[f] = Len(sent[f])
                       /\ \A q \in recvQ'[f] : FromStream(Peer(f), q)
    BY <1>6 DEF IInv, StreamsAgree
  <2> QED BY <1>5, <2>1, <2>2 DEF Service, StreamsAgree, FromStream
<1>8. OneEntryPerID'
  BY <1>6 DEF Service, IInv, OneEntryPerID
<1>9. SeqIsMaximal'
  BY <1>6 DEF Service, IInv, SeqIsMaximal, Held
<1>10. UnreadIsQueued'
  <2> SUFFICES ASSUME NEW f \in End
               PROVE  /\ lastReadID[f] <= lastSeqID[f]
                      /\ \A i \in lastReadID[f] + 1 .. lastSeqID[f] :
                           \E q \in recvQ'[f] : q.code = "DATA_ACK" /\ q.id = i /\ ~ q.read
    BY DEF Service, UnreadIsQueued
  <2> QED BY <1>6 DEF IInv, UnreadIsQueued
<1>11. InOrderDelivery'
  BY DEF Service, IInv, InOrderDelivery
<1>12. \A f \in End, i \in Nat : Taken(f, i) => Taken(f, i)'
  <2> SUFFICES ASSUME NEW f \in End, NEW i \in Nat, Held(f, i), ~ (i <= lastSeqID[f])
               PROVE  \E q \in recvQ'[f] : q.code = "DATA_ACK" /\ q.id = i
    BY DEF Service, Taken, Held
  <2>1. lastSeqID[f] \in Int
    BY DEF IInv, TypeOK, NoId
  <2> QED BY <1>6, <2>1 DEF Held
<1>13. AcksAreTrue'
  <2>1. \A a \in acks : a.id \in Nat /\ Peer(a.to) \in End /\ Taken(Peer(a.to), a.id)
    BY PeerFacts DEF IInv, AcksAreTrue, TypeOK
  <2> QED BY <1>12, <2>1 DEF Service, AcksAreTrue
<1>14. ReleasedOnlyIfTaken'
  <2>1. \A f \in End, i \in Nat : Waiting(f, i) => Waiting(f, i)'
    <3>1. ASSUME NEW i \in Nat, Waiting(e, i) PROVE Waiting(e, i)'
      <4>1. PICK q \in sendQ[e] : q.code = "DATA_ACK" /\ q.id = i /\ ~ q.isAck
        BY <3>1 DEF Waiting
      <4>2. CASE q \in Due(e)
        BY <1>2, <1>3, <4>1, <4>2 DEF Waiting
      <4>3. CASE q \notin Due(e)
        BY <1>2, <4>1, <4>3 DEF Waiting, Unacked
      <4> QED BY <4>2, <4>3
    <3> QED BY <1>1, <3>1 DEF Waiting
  <2>2. \A f \in End : \A i \in 0 .. numSendAck'[f] - 1 :
           i \in Nat /\ i \in 0 .. numSendAck[f] - 1
    BY DEF Service, IInv, TypeOK
  <2> QED BY <1>12, <2>1, <2>2, PeerFacts DEF IInv, ReleasedOnlyIfTaken
<1> QED BY <1>7, <1>8, <1>9, <1>10, <1>11, <1>13, <1>14 DEF IInv
(* A received packet is queued behind everything already taken.              *)
LEMMA ReceiveUnackedKeeps ==
  ASSUME IInv, NEW e \in End, NEW p \in data, NEW keep \in BOOLEAN,
         ReceiveUnacked(e, p, keep), TypeOK'
  PROVE  IInv'
<1>1. \A f \in End : /\ recvQ[f] \subseteq recvQ'[f]
                     /\ \A q \in recvQ'[f] : q \in recvQ[f] \/ q.code = "DATA_NOACK"
  <2>1. CASE Spare(e)
    <3>1. /\ recvQ' = [recvQ EXCEPT ![e] = @ \cup {RecvEntry(e, p)}]
          /\ p.code = "DATA_NOACK"
      BY <2>1 DEF ReceiveUnacked, Enqueue
    <3>2. RecvEntry(e, p).code = "DATA_NOACK"
      BY <3>1 DEF RecvEntry
    <3>3. \A f \in End : recvQ'[f] = recvQ[f] \/ recvQ'[f] = recvQ[f] \cup {RecvEntry(e, p)}
      BY <3>1 DEF IInv, TypeOK
    <3> QED BY <3>2, <3>3
  <2>2. CASE ~ Spare(e)
    BY <2>2 DEF ReceiveUnacked
  <2> QED BY <2>1, <2>2
<1>2. data' \subseteq data
  BY DEF ReceiveUnacked
<1>3. StreamsAgree'
  <2>1. \A f \in End : \A q \in recvQ'[f] : FromStream(Peer(f), q)
    BY <1>1 DEF FromStream, InStream, IInv, StreamsAgree
  <2> QED BY <1>2, <2>1 DEF ReceiveUnacked, IInv, StreamsAgree, FromStream
<1>4. OneEntryPerID'
  BY <1>1 DEF ReceiveUnacked, IInv, OneEntryPerID
<1>5. SeqIsMaximal'
  BY <1>1 DEF ReceiveUnacked, IInv, SeqIsMaximal, Held
<1>6. UnreadIsQueued' /\ InOrderDelivery'
  BY <1>1 DEF ReceiveUnacked, IInv, UnreadIsQueued, InOrderDelivery
<1>7. \A f \in End : \A i : Taken(f, i) => (i <= lastSeqID'[f]
                              \/ \E q \in recvQ'[f] : q.code = "DATA_ACK" /\ q.id = i)
  BY <1>1 DEF ReceiveUnacked, Taken, Held
<1>8. AcksAreTrue'
  <2>1. \A a \in acks : Peer(a.to) \in End
    BY PeerFacts DEF IInv, TypeOK
  <2> QED BY <1>7, <2>1 DEF ReceiveUnacked, IInv, AcksAreTrue, Taken, Held
<1>9. ReleasedOnlyIfTaken'
  BY <1>7, PeerFacts DEF ReceiveUnacked, IInv, ReleasedOnlyIfTaken, Waiting, Taken, Held
<1> QED BY <1>3, <1>4, <1>5, <1>6, <1>8, <1>9 DEF IInv

(* The accepting branch of ReceiveData, with LastSeqID moved to "last".      *)
LEMMA AcceptKeeps ==
  ASSUME IInv, NEW e \in End, NEW p \in data, ReceiveData(e, p), TypeOK',
         ~ IsRepeat(e, p), Enqueue(e, p), AdvanceSeq(e, p), SendAck(e, p)
  PROVE  IInv'
<1> DEFINE q0 == RecvEntry(e, p)
<1>0. /\ p \in DataPackets /\ p.id \in Nat /\ p.to = e /\ p.code = "DATA_ACK"
      /\ lastSeqID[e] \in Int /\ lastReadID[e] \in Int
      /\ lastReadID[e] <= lastSeqID[e]
  <2>1. p \in DataPackets /\ lastSeqID[e] \in Int /\ lastReadID[e] \in Int
    BY DEF IInv, TypeOK, NoId
  <2>2. p.id \in Nat
    BY <2>1 DEF DataPackets
  <2> QED BY <2>1, <2>2 DEF ReceiveData, IInv, UnreadIsQueued
<1>1. /\ q0.code = "DATA_ACK" /\ q0.id = p.id /\ q0.msg = p.msg /\ ~ q0.read
  BY <1>0 DEF RecvEntry
<1>2. /\ recvQ'[e] = recvQ[e] \cup {q0}
      /\ \A f \in End : f # e => recvQ'[f] = recvQ[f]
  BY DEF Enqueue, IInv, TypeOK
<1>3. ~ (p.id <= lastSeqID[e]) /\ ~ Held(e, p.id)
  BY DEF IsRepeat
<1>4. \A f \in End : f # e => lastSeqID'[f] = lastSeqID[f]
  BY DEF AdvanceSeq, IInv, TypeOK
<1>5. /\ lastSeqID'[e] \in Int
      /\ lastSeqID[e] <= lastSeqID'[e]
      /\ \A i \in lastSeqID[e] + 1 .. lastSeqID'[e] : i = p.id \/ Held(e, i)
      /\ ~ Held(e, lastSeqID'[e] + 1) /\ lastSeqID'[e] + 1 # p.id
      /\ lastSeqID'[e] = lastSeqID[e] \/ lastSeqID'[e] = p.id \/ Held(e, lastSeqID'[e])
  <2>1. CASE p.id = lastSeqID[e] + 1
    <3>1. PICK last \in {p.id} \cup {q.id : q \in recvQ[e]} :
             /\ last >= p.id
             /\ \A i \in p.id + 1 .. last : Held(e, i)
             /\ ~ Held(e, last + 1)
             /\ lastSeqID' = [lastSeqID EXCEPT ![e] = last]
      BY <2>1 DEF AdvanceSeq
    <3>2. \A q \in recvQ[e] : q.id \in Nat
      BY DEF IInv, TypeOK, RecvEntries
    <3>3. last \in Nat
      BY <1>0, <3>1, <3>2
    <3>4. lastSeqID'[e] = last
      BY <3>1 DEF IInv, TypeOK
    <3>5. \A i \in lastSeqID[e] + 1 .. last : i = p.id \/ i \in p.id + 1 .. last
      BY <1>0, <2>1, <3>3
    <3>6. last = p.id \/ Held(e, last)
      BY <1>0, <3>1, <3>3
    <3> QED BY <1>0, <2>1, <3>1, <3>3, <3>4, <3>5, <3>6
  <2>2. CASE p.id # lastSeqID[e] + 1
    <3>1. lastSeqID' = lastSeqID
      BY <2>2 DEF AdvanceSeq
    <3>2. ~ Held(e, lastSeqID[e] + 1)
      BY DEF IInv, SeqIsMaximal
    <3> QED BY <1>0, <2>2, <3>1, <3>2
  <2> QED BY <2>1, <2>2
<1>6. UNCHANGED <<sendQ, numSendAck, lastReadID, data, sent, got>>
  BY DEF ReceiveData
<1>7. StreamsAgree'
  <2>1. FromStream(Peer(e), p)
    BY <1>0 DEF IInv, StreamsAgree
  <2>2. FromStream(Peer(e), q0)
    BY <1>0, <1>1, <2>1 DEF FromStream, InStream
  <2>3. \A f \in End : \A q \in recvQ'[f] : FromStream(Peer(f), q)
    BY <1>2, <2>2 DEF IInv, StreamsAgree
  <2> QED BY <1>6, <2>3 DEF IInv, StreamsAgree, FromStream
<1>8. OneEntryPerID'
  <2> SUFFICES ASSUME NEW f \in End, NEW q \in recvQ'[f], q.code = "DATA_ACK"
               PROVE  /\ q.read <=> q.id <= lastReadID[f]
                      /\ \A r \in recvQ'[f] : r.code = "DATA_ACK" /\ r.id = q.id => r = q
    BY <1>6 DEF OneEntryPerID
  <2>1. CASE f # e
    BY <1>2, <2>1 DEF IInv, OneEntryPerID
  <2>2. CASE f = e /\ q = q0
    <3>1. ~ (p.id <= lastReadID[e])
      BY <1>0, <1>3
    <3> QED BY <1>1, <1>2, <1>3, <2>2, <3>1 DEF Held
  <2>3. CASE f = e /\ q \in recvQ[e]
    BY <1>1, <1>2, <1>3, <2>3 DEF IInv, OneEntryPerID, Held
  <2> QED BY <1>2, <2>1, <2>2, <2>3
<1>9. SeqIsMaximal'
  <2>1. ~ \E q \in recvQ'[e] : q.code = "DATA_ACK" /\ q.id = lastSeqID'[e] + 1
    BY <1>1, <1>2, <1>5 DEF Held
  <2>2. lastSeqID'[e] < Len(sent[Peer(e)])
    <3>1. p.id < Len(sent[Peer(e)])
      BY <1>0 DEF IInv, StreamsAgree, FromStream, InStream
    <3>2. \A q \in recvQ[e] : q.code = "DATA_ACK" => q.id < Len(sent[Peer(e)])
      BY DEF IInv, StreamsAgree, FromStream, InStream
    <3>3. lastSeqID[e] < Len(sent[Peer(e)])
      BY DEF IInv, SeqIsMaximal
    <3> QED BY <1>5, <3>1, <3>2, <3>3 DEF Held
  <2>3. \A f \in End : f # e =>
           /\ ~ \E q \in recvQ'[f] : q.code = "DATA_ACK" /\ q.id = lastSeqID'[f] + 1
           /\ lastSeqID'[f] < Len(sent[Peer(f)])
    BY <1>2, <1>4 DEF IInv, SeqIsMaximal, Held
  <2>4. \A f \in End : Len(got[f]) = lastReadID[f] + 1
    BY DEF IInv, SeqIsMaximal
  <2> QED BY <1>6, <2>1, <2>2, <2>3, <2>4 DEF SeqIsMaximal, Held
<1>10. UnreadIsQueued'
  <2>1. ASSUME NEW i \in lastReadID[e] + 1 .. lastSeqID'[e]
        PROVE  \E q \in recvQ'[e] : q.code = "DATA_ACK" /\ q.id = i /\ ~ q.read
    <3>1. CASE i <= lastSeqID[e]
      <4>1. i \in lastReadID[e] + 1 .. lastSeqID[e]
        BY <1>0, <1>5, <3>1
      <4> QED BY <1>2, <4>1 DEF IInv, UnreadIsQueued
    <3>2. CASE i = p.id
      BY <1>1, <1>2, <3>2
    <3>3. CASE Held(e, i) /\ ~ (i <= lastSeqID[e])
      <4>1. PICK q \in recvQ[e] : q.code = "DATA_ACK" /\ q.id = i
        BY <3>3 DEF Held
      <4>2. ~ (i <= lastReadID[e])
        BY <1>0, <1>5
      <4>3. ~ q.read
        BY <4>1, <4>2 DEF IInv, OneEntryPerID
      <4> QED BY <1>2, <4>1, <4>3
    <3>4. i <= lastSeqID[e] \/ i \in lastSeqID[e] + 1 .. lastSeqID'[e]
      BY <1>0, <1>5
    <3> QED BY <1>5, <3>1, <3>2, <3>3, <3>4
  <2>2. lastReadID[e] <= lastSeqID'[e]
    BY <1>0, <1>5
  <2>3. \A f \in End : f # e => recvQ'[f] = recvQ[f] /\ lastSeqID'[f] = lastSeqID[f]
    BY <1>2, <1>4
  <2> QED BY <1>6, <2>1, <2>2, <2>3 DEF IInv, UnreadIsQueued
<1>11. InOrderDelivery'
  BY <1>6 DEF IInv, InOrderDelivery
<1>12. \A f \in End, i \in Nat : Taken(f, i) => Taken(f, i)'
  <2> SUFFICES ASSUME NEW f \in End, NEW i \in Nat, Taken(f, i)
               PROVE  \/ i <= lastSeqID'[f]
                      \/ \E q \in recvQ'[f] : q.code = "DATA_ACK" /\ q.id = i
    BY DEF Taken, Held
  <2>1. CASE f # e
    BY <1>2, <1>4, <2>1 DEF Taken, Held
  <2>2. CASE f = e
    BY <1>0, <1>2, <1>5, <2>2 DEF Taken, Held
  <2> QED BY <2>1, <2>2
<1>13. AcksAreTrue'
  <2>1. \A a \in acks : a.id \in Nat /\ Peer(a.to) \in End /\ Taken(Peer(a.to), a.id)
    BY PeerFacts DEF IInv, AcksAreTrue, TypeOK
  <2>2. \E q \in recvQ'[e] : q.code = "DATA_ACK" /\ q.id = p.id
    BY <1>1, <1>2
  <2>3. \A a \in acks' : a \in acks \/ (Peer(a.to) = e /\ a.id = p.id)
    BY PeerFacts DEF SendAck
  <2> QED BY <1>12, <2>1, <2>2, <2>3 DEF AcksAreTrue, Taken, Held
<1>14. ReleasedOnlyIfTaken'
  <2>1. \A f \in End : \A i \in 0 .. numSendAck[f] - 1 : i \in Nat
    BY DEF IInv, TypeOK
  <2> QED BY <1>6, <1>12, <2>1, PeerFacts DEF IInv, ReleasedOnlyIfTaken, Waiting
<1> QED BY <1>7, <1>8, <1>9, <1>10, <1>11, <1>13, <1>14 DEF IInv

LEMMA ReceiveDataKeeps ==
  ASSUME IInv, NEW e \in End, NEW p \in data, ReceiveData(e, p), TypeOK'
  PROVE  IInv'
<1>1. CASE ~ IsRepeat(e, p) /\ Enqueue(e, p) /\ AdvanceSeq(e, p) /\ SendAck(e, p)
  BY <1>1, AcceptKeeps
<1>2. CASE /\ UNCHANGED <<recvQ, lastSeqID>>
           /\ UNCHANGED acks \/ (IsRepeat(e, p) /\ SendAck(e, p))
  <2>1. UNCHANGED <<sendQ, numSendAck, lastReadID, data, sent, got>>
    BY DEF ReceiveData
  <2>2. StreamsAgree'
    BY <1>2, <2>1 DEF IInv, StreamsAgree, FromStream
  <2>3. \A a \in acks' : a \in acks \/ (IsRepeat(e, p) /\ Peer(a.to) = e /\ a.id = p.id)
    BY <1>2, PeerFacts DEF SendAck
  <2>4. IsRepeat(e, p) => Taken(e, p.id)
    BY DEF IsRepeat, Taken
  <2>5. AcksAreTrue'
    BY <1>2, <2>3, <2>4 DEF IInv, AcksAreTrue, Taken, Held
  <2>6. ReleasedOnlyIfTaken'
    BY <1>2, <2>1 DEF IInv, ReleasedOnlyIfTaken, Waiting, Taken, Held
  <2> QED BY <1>2, <2>1, <2>2, <2>5, <2>6, ReceptionKept DEF IInv
<1> QED BY <1>1, <1>2 DEF ReceiveData
(* The game reads the entry q: the next one in sequence, or an unsequenced   *)
(* one.                                                                      *)
LEMMA ReadKeeps ==
  ASSUME IInv, NEW e \in End, GetPacket(e), TypeOK',
         NEW q \in Readable(e),
         recvQ' = [recvQ EXCEPT ![e] = (@ \ {q}) \cup {[q EXCEPT !.read = TRUE]}],
         IF q.code = "DATA_ACK"
           THEN /\ lastReadID' = [lastReadID EXCEPT ![e] = q.id]
                /\ got' = [got EXCEPT ![e] = Append(@, q.msg)]
           ELSE UNCHANGED <<lastReadID, got>>
  PROVE  IInv'
<1> DEFINE r0 == [q EXCEPT !.read = TRUE]
<1>0. UNCHANGED <<sendQ, numSendAck, lastSeqID, data, acks, sent>>
  BY DEF GetPacket
<1>1. /\ q \in recvQ[e] /\ q \in RecvEntries /\ q.id \in Nat /\ ~ q.read
      /\ lastReadID[e] \in Int /\ lastSeqID[e] \in Int
  <2>1. q \in recvQ[e] /\ ~ q.read
    BY DEF Readable
  <2>2. q \in RecvEntries /\ lastReadID[e] \in Int /\ lastSeqID[e] \in Int
    BY <2>1 DEF IInv, TypeOK, NoId
  <2> QED BY <2>1, <2>2 DEF RecvEntries
<1>2. r0.code = q.code /\ r0.id = q.id /\ r0.msg = q.msg /\ r0.read
  BY <1>1 DEF RecvEntries
<1>3. /\ recvQ'[e] = (recvQ[e] \ {q}) \cup {r0}
      /\ \A f \in End : f # e => /\ recvQ'[f] = recvQ[f]
                                 /\ lastReadID'[f] = lastReadID[f]
                                 /\ got'[f] = got[f]
  BY DEF IInv, TypeOK
<1>4. q.code = "DATA_ACK" =>
        /\ q.id = lastReadID[e] + 1
        /\ q.id <= lastSeqID[e]
  <2>1. q.code = "DATA_ACK" => q.id = lastReadID[e] + 1
    BY DEF Readable
  <2>2. lastReadID[e] <= lastSeqID[e]
    BY DEF IInv, UnreadIsQueued
  <2>3. q.code = "DATA_ACK" => q.id # lastSeqID[e] + 1
    BY <1>1 DEF IInv, SeqIsMaximal, Held
  <2> QED BY <1>1, <2>1, <2>2, <2>3
<1>5. /\ q.code = "DATA_ACK" => lastReadID'[e] = q.id /\ got'[e] = Append(got[e], q.msg)
      /\ q.code # "DATA_ACK" => lastReadID' = lastReadID /\ got' = got
  BY DEF IInv, TypeOK
<1>6. /\ \A f \in End : \A i : Held(f, i) <=> Held(f, i)'
      /\ \A f \in End : \A x \in recvQ'[f] :
            \E y \in recvQ[f] : x.code = y.code /\ x.id = y.id /\ x.msg = y.msg
  <2>1. \A x \in recvQ'[e] : \E y \in recvQ[e] : x.code = y.code /\ x.id = y.id /\ x.msg = y.msg
    BY <1>1, <1>2, <1>3
  <2>2. \A y \in recvQ[e] : \E x \in recvQ'[e] : x.code = y.code /\ x.id = y.id
    BY <1>1, <1>2, <1>3
  <2>3. ASSUME NEW i
        PROVE  Held(e, i) <=> \E x \in recvQ'[e] : x.code = "DATA_ACK" /\ x.id = i
    <3>1. ASSUME Held(e, i) PROVE \E x \in recvQ'[e] : x.code = "DATA_ACK" /\ x.id = i
      <4>1. PICK y \in recvQ[e] : y.code = "DATA_ACK" /\ y.id = i
        BY <3>1 DEF Held
      <4> QED BY <2>2, <4>1
    <3>2. ASSUME NEW x \in recvQ'[e], x.code = "DATA_ACK", x.id = i PROVE Held(e, i)
      BY <2>1, <3>2 DEF Held
    <3> QED BY <3>1, <3>2
  <2>4. \A f \in End : f # e => recvQ'[f] = recvQ[f]
    BY <1>3
  <2>5. ASSUME NEW f \in End, NEW i PROVE Held(f, i) <=> Held(f, i)'
    BY <2>3, <2>4 DEF Held
  <2>6. ASSUME NEW f \in End, NEW x \in recvQ'[f]
        PROVE  \E y \in recvQ[f] : x.code = y.code /\ x.id = y.id /\ x.msg = y.msg
    BY <2>1, <2>4
  <2> QED BY <2>5, <2>6
<1>7. StreamsAgree'
  <2>1. \A f \in End : \A y \in recvQ[f] : FromStream(Peer(f), y)
    BY DEF IInv, StreamsAgree
  <2>2. \A f \in End : \A x \in recvQ'[f] : FromStream(Peer(f), x)
    BY <1>6, <2>1 DEF FromStream, InStream
  <2> QED BY <1>0, <2>2 DEF IInv, StreamsAgree, FromStream
<1>8. OneEntryPerID'
  <2> SUFFICES ASSUME NEW f \in End, NEW x \in recvQ'[f], x.code = "DATA_ACK"
               PROVE  /\ x.read <=> x.id <= lastReadID'[f]
                      /\ \A y \in recvQ'[f] : y.code = "DATA_ACK" /\ y.id = x.id => y = x
    BY DEF OneEntryPerID
  <2>1. CASE f # e
    BY <1>3, <2>1 DEF IInv, OneEntryPerID
  <2>2. CASE f = e /\ x = r0
    <3>1. \A y \in recvQ[e] : y.code = "DATA_ACK" /\ y.id = q.id => y = q
      BY <1>1, <1>2, <2>2 DEF IInv, OneEntryPerID
    <3> QED BY <1>1, <1>2, <1>3, <1>5, <2>2, <3>1
  <2>3. CASE f = e /\ x \in recvQ[e] /\ x # q
    <3>1. x.id \in Nat
      BY <2>3 DEF IInv, TypeOK, RecvEntries
    <3>2. /\ x.read <=> x.id <= lastReadID[e]
          /\ \A y \in recvQ[e] : y.code = "DATA_ACK" /\ y.id = x.id => y = x
      BY <2>3 DEF IInv, OneEntryPerID
    <3>3. q.code = "DATA_ACK" => x.id # q.id
      BY <1>1, <2>3, <3>2
    <3>4. x.read <=> x.id <= lastReadID'[e]
      BY <1>1, <1>4, <1>5, <3>1, <3>2, <3>3
    <3> QED BY <1>2, <1>3, <2>3, <3>2, <3>3, <3>4
  <2> QED BY <1>3, <2>1, <2>2, <2>3
<1>9. SeqIsMaximal'
  <2>1. \A f \in End : /\ ~ \E x \in recvQ'[f] : x.code = "DATA_ACK" /\ x.id = lastSeqID[f] + 1
                       /\ lastSeqID[f] < Len(sent[Peer(f)])
    BY <1>6 DEF IInv, SeqIsMaximal, Held
  <2>2. \A f \in End : Len(got[f]) = lastReadID[f] + 1 /\ got[f] \in Seq(Msg)
    BY DEF IInv, SeqIsMaximal, TypeOK
  <2>3. Len(got'[e]) = lastReadID'[e] + 1
    <3>1. CASE q.code = "DATA_ACK"
      BY <1>1, <1>4, <1>5, <2>2, <3>1
    <3>2. CASE q.code # "DATA_ACK"
      BY <1>5, <2>2, <3>2
    <3> QED BY <3>1, <3>2
  <2> QED BY <1>0, <1>3, <2>1, <2>2, <2>3 DEF SeqIsMaximal, Held
<1>10. UnreadIsQueued'
  <2> SUFFICES ASSUME NEW f \in End
               PROVE  /\ lastReadID'[f] <= lastSeqID[f]
                      /\ \A i \in lastReadID'[f] + 1 .. lastSeqID[f] :
                           \E x \in recvQ'[f] : x.code = "DATA_ACK" /\ x.id = i /\ ~ x.read
    BY <1>0 DEF UnreadIsQueued
  <2>1. /\ lastReadID[f] <= lastSeqID[f]
        /\ \A i \in lastReadID[f] + 1 .. lastSeqID[f] :
             \E x \in recvQ[f] : x.code = "DATA_ACK" /\ x.id = i /\ ~ x.read
    BY DEF IInv, UnreadIsQueued
  <2>2. CASE f # e
    BY <1>3, <2>1, <2>2
  <2>3. CASE f = e /\ q.code = "DATA_ACK"
    <3>1. ASSUME NEW i \in lastReadID'[e] + 1 .. lastSeqID[e]
          PROVE  i \in lastReadID[e] + 1 .. lastSeqID[e] /\ i # q.id
      BY <1>1, <1>4, <1>5, <2>3
    <3> QED BY <1>1, <1>3, <1>4, <1>5, <2>1, <2>3, <3>1
  <2>4. CASE f = e /\ q.code # "DATA_ACK"
    BY <1>3, <1>5, <2>1, <2>4
  <2> QED BY <2>2, <2>3, <2>4
<1>11. q.code = "DATA_ACK" => /\ Len(got[e]) = q.id
                              /\ q.id < Len(sent[Peer(e)])
                              /\ q.msg = sent[Peer(e)][Len(got[e]) + 1]
  <2>1. FromStream(Peer(e), q)
    BY <1>1 DEF IInv, StreamsAgree
  <2>2. Len(got[e]) = lastReadID[e] + 1
    BY DEF IInv, SeqIsMaximal
  <2> QED BY <1>4, <2>1, <2>2 DEF FromStream, InStream
<1>12. InOrderDelivery'
  <2> SUFFICES ASSUME NEW f \in End
               PROVE  /\ Len(got'[Peer(f)]) <= Len(sent[f])
                      /\ \A n \in 1 .. Len(got'[Peer(f)]) : got'[Peer(f)][n] = sent[f][n]
    BY <1>0 DEF InOrderDelivery
  <2>1. /\ Len(got[Peer(f)]) <= Len(sent[f])
        /\ \A n \in 1 .. Len(got[Peer(f)]) : got[Peer(f)][n] = sent[f][n]
    BY DEF IInv, InOrderDelivery
  <2>2. CASE Peer(f) = e /\ q.code = "DATA_ACK"
    <3>1. got[e] \in Seq(Msg) /\ Len(sent[f]) \in Nat /\ f = Peer(e)
      BY <2>2, PeerFacts DEF IInv, TypeOK
    <3>2. /\ Len(got'[e]) = Len(got[e]) + 1
          /\ got'[e][Len(got[e]) + 1] = q.msg
          /\ \A n \in 1 .. Len(got[e]) : got'[e][n] = got[e][n]
      BY <1>5, <2>2, <3>1
    <3>3. Len(got[e]) \in Nat /\ Len(got[e]) < Len(sent[f]) /\ q.msg = sent[f][Len(got[e]) + 1]
      BY <1>11, <2>2, <3>1
    <3>4. \A n \in 1 .. Len(got[e]) + 1 : got'[e][n] = sent[f][n]
      <4> SUFFICES ASSUME NEW n \in 1 .. Len(got[e]) + 1 PROVE got'[e][n] = sent[f][n]
        OBVIOUS
      <4>1. CASE n = Len(got[e]) + 1
        BY <3>2, <3>3, <4>1
      <4>2. CASE n # Len(got[e]) + 1
        <5>1. n \in 1 .. Len(got[e])
          BY <3>3, <4>2
        <5> QED BY <2>1, <2>2, <3>2, <5>1
      <4> QED BY <4>1, <4>2
    <3> QED BY <2>2, <3>1, <3>2, <3>3, <3>4
  <2>3. CASE Peer(f) # e \/ q.code # "DATA_ACK"
    BY <1>3, <1>5, <2>1, <2>3, PeerFacts
  <2> QED BY <2>2, <2>3
<1>13. AcksAreTrue'
  <2>1. \A a \in acks : Peer(a.to) \in End
    BY PeerFacts DEF IInv, TypeOK
  <2> QED BY <1>0, <1>6, <2>1 DEF IInv, AcksAreTrue, Taken
<1>14. ReleasedOnlyIfTaken'
  BY <1>0, <1>6, PeerFacts DEF IInv, ReleasedOnlyIfTaken, Waiting, Taken
<1> QED BY <1>7, <1>8, <1>9, <1>10, <1>12, <1>13, <1>14 DEF IInv

LEMMA GetPacketKeeps ==
  ASSUME IInv, NEW e \in End, GetPacket(e), TypeOK'
  PROVE  IInv'
BY ReadKeeps DEF GetPacket

LEMMA InvNext == IInv /\ [Next]_vars => IInv'
<1> SUFFICES ASSUME IInv, [Next]_vars PROVE IInv'
  OBVIOUS
<1>1. TypeOK'
  BY TypeNext DEF IInv
<1>2. CASE UNCHANGED vars
  <2>1. StreamsAgree' /\ AcksAreTrue' /\ ReleasedOnlyIfTaken'
    BY <1>2 DEF vars, connVars, IInv, StreamsAgree, FromStream, AcksAreTrue,
                ReleasedOnlyIfTaken, Waiting, Taken, Held
  <2> QED BY <1>1, <1>2, <2>1, ReceptionKept DEF IInv, vars, connVars
<1>3. ASSUME NEW e \in End, NEW m \in Msg, SendAcked(e, m) PROVE IInv'
  BY <1>1, <1>3, SendAckedKeeps
<1>4. ASSUME NEW e \in End, NEW m \in Msg, SendUnacked(e, m) PROVE IInv'
  BY <1>1, <1>4, SendUnackedKeeps
<1>5. ASSUME NEW e \in End, NEW p \in acks, ReceiveAck(e, p) PROVE IInv'
  BY <1>1, <1>5, ReceiveAckKeeps
<1>6. ASSUME NEW e \in End, NEW p \in data, ReceiveData(e, p) PROVE IInv'
  BY <1>1, <1>6, ReceiveDataKeeps
<1>7. ASSUME NEW e \in End, NEW p \in data, NEW keep \in BOOLEAN,
             ReceiveUnacked(e, p, keep)
      PROVE IInv'
  BY <1>1, <1>7, ReceiveUnackedKeeps
<1>8. ASSUME NEW e \in End, GetPacket(e) PROVE IInv'
  BY <1>1, <1>8, GetPacketKeeps
<1>9. ASSUME NEW e \in End, Service(e) PROVE IInv'
  BY <1>1, <1>9, ServiceKeeps
<1>10. CASE Tick
  BY <1>1, <1>10, TickKeeps
<1>11. CASE Lose
  BY <1>1, <1>11, LoseKeeps
<1> QED
  BY <1>2, <1>3, <1>4, <1>5, <1>6, <1>7, <1>8, <1>9, <1>10, <1>11 DEF Next

THEOREM Invariance == Safety => []IInv
  BY InvInit, InvNext, PTL DEF Safety

(* The game reads, in each direction, a prefix of the acknowledged messages  *)
(* accepted by the other end, whatever is lost, repeated or reordered below. *)
THEOREM DeliveryInOrder == Safety => []InOrderDelivery
<1>1. IInv => InOrderDelivery
  BY DEF IInv
<1> QED BY <1>1, Invariance, PTL

(* The sender lets go of a message only when the receiver has it.            *)
THEOREM NothingReleasedEarly == Safety => []ReleasedOnlyIfTaken
<1>1. IInv => ReleasedOnlyIfTaken
  BY DEF IInv
<1> QED BY <1>1, Invariance, PTL

(* Nothing below LastSeqID is dropped before it is read.                     *)
THEOREM NothingSkipped == Safety => []UnreadIsQueued
<1>1. IInv => UnreadIsQueued
  BY DEF IInv
<1> QED BY <1>1, Invariance, PTL

-----------------------------------------------------------------------------
(* Every step of the connection is a step of the reliable channel or leaves  *)
(* it alone.                                                                 *)
LEMMA ChannelStep == IInv /\ [Next]_vars => [Channel!Next]_<<sent, got>>
<1> SUFFICES ASSUME IInv, [Next]_vars, ~ UNCHANGED <<sent, got>>
             PROVE  Channel!Next
  BY DEF Channel!vars
<1>1. CASE \E e \in End, m \in Msg : SendAcked(e, m)
  BY <1>1 DEF SendAcked, Channel!Next, Channel!Send
<1>2. ASSUME NEW e \in End, GetPacket(e)
      PROVE  Channel!Next
  <2>1. PICK q \in Readable(e) :
           IF q.code = "DATA_ACK"
             THEN /\ lastReadID' = [lastReadID EXCEPT ![e] = q.id]
                  /\ got' = [got EXCEPT ![e] = Append(@, q.msg)]
             ELSE UNCHANGED <<lastReadID, got>>
    BY <1>2 DEF GetPacket
  <2>2. sent' = sent
    BY <1>2 DEF GetPacket
  <2>3. q.code = "DATA_ACK" /\ got' = [got EXCEPT ![e] = Append(@, q.msg)]
    BY <2>1, <2>2
  <2>4. /\ q \in recvQ[e] /\ q.id \in Nat /\ q.id = lastReadID[e] + 1
        /\ Len(got[e]) = lastReadID[e] + 1
    <3>1. q \in recvQ[e] /\ q.id = lastReadID[e] + 1
      BY <2>3 DEF Readable
    <3>2. q \in RecvEntries
      BY <3>1 DEF IInv, TypeOK
    <3> QED BY <3>1, <3>2 DEF RecvEntries, IInv, SeqIsMaximal
  <2>5. FromStream(Peer(e), q)
    BY <2>4 DEF IInv, StreamsAgree
  <2>6. Len(got[e]) < Len(sent[Peer(e)]) /\ q.msg = sent[Peer(e)][Len(got[e]) + 1]
    BY <2>3, <2>4, <2>5 DEF FromStream, InStream
  <2>7. Channel!Deliver(Peer(e), e)
    BY <2>2, <2>3, <2>6, PeerFacts DEF Channel!Deliver, IInv, TypeOK
  <2> QED BY <2>7, PeerFacts DEF Channel!Next
<1>3. CASE \E e \in End : GetPacket(e)
  BY <1>2, <1>3
<1> QED BY <1>1, <1>3 DEF Next, vars, connVars, SendUnacked, ReceiveAck, ReceiveData,
           ReceiveUnacked, Service, Tick, Lose

(* The connection implements the safety part of the reliable channel.        *)
THEOREM ImplementsReliableChannel == Safety => ImplementsChannelSafety
<1>1. Init => Channel!Init
  BY DEF Init, Channel!Init
<1>2. IInv /\ [Next]_vars => [Channel!Next]_(Channel!vars)
  BY ChannelStep DEF Channel!vars
<1> QED BY <1>1, <1>2, Invariance, PTL DEF Safety, ImplementsChannelSafety, Channel!Safety
------------------------------------------------------------------------------
(* The receive queue does not wedge: the packets held beyond LastSeqID never  *)
(* take the last two slots, one of which is kept for the packet of LastSeqID, *)
(* the other for the next in sequence.                                        *)

Crowd(e) == {q \in recvQ[e] : q.code = "DATA_ACK" /\ q.id > lastSeqID[e]}

RoomOK ==
  \A e \in End :
    /\ IsFiniteSet(recvQ[e])
    /\ numSendAck[Peer(e)] <= lastReadID[e] + 1 + Window
    /\ lastSeqID[e] >= 0 => Held(e, lastSeqID[e]) /\ Cardinality(Crowd(e)) <= MaxReceive - 2

(* There are no more entries than PacketIDs. *)
LEMMA EntriesInRange ==
  ASSUME NEW Q, NEW a \in Int, NEW b \in Int,
         \A q \in Q : q.id \in a .. b,
         \A q, r \in Q : q.id = r.id => q = r
  PROVE  IsFiniteSet(Q) /\ Cardinality(Q) <= IF a > b THEN 0 ELSE b - a + 1
<1> DEFINE f == [q \in Q |-> q.id]
<1>1. f \in [Q -> a .. b]
  OBVIOUS
<1>2. \A q, r \in Q : f[q] = f[r] => q = r
  OBVIOUS
<1>3. f \in Injection(Q, a .. b)
  BY <1>1, <1>2 DEF Injection, IsInjective
<1>4. IsFiniteSet(a .. b) /\ Cardinality(a .. b) = IF a > b THEN 0 ELSE b - a + 1
  BY FS_Interval
<1> QED BY <1>3, <1>4, FS_Injection

LEMMA RoomTypes ==
  ASSUME IInv, NEW e \in End
  PROVE  /\ lastSeqID[e] \in Int /\ lastSeqID[e] >= -1
         /\ lastReadID[e] \in Int /\ lastReadID[e] >= -1 /\ lastReadID[e] <= lastSeqID[e]
         /\ numSendAck[Peer(e)] \in Nat /\ numSendAck[e] \in Nat
         /\ \A q \in recvQ[e] : q \in RecvEntries /\ q.id \in Nat /\ q.code \in Code
         /\ \A q \in recvQ[e] : q.code = "DATA_ACK" => q.id < numSendAck[Peer(e)]
         /\ \A q, r \in recvQ[e] : q.code = "DATA_ACK" /\ r.code = "DATA_ACK" /\ q.id = r.id => q = r
         /\ \A q \in recvQ[e] : q.code = "DATA_ACK" => q.id # lastSeqID[e] + 1
         /\ MaxReceive \in Nat /\ MaxReceive >= 2 /\ Window \in Nat
<1>0. Peer(e) \in End
  BY PeerFacts
<1>1. /\ lastSeqID[e] \in Nat \cup {-1} /\ lastReadID[e] \in Nat \cup {-1}
      /\ lastReadID[e] <= lastSeqID[e]
  BY DEF IInv, TypeOK, UnreadIsQueued, NoId
<1>2. numSendAck[Peer(e)] \in Nat /\ numSendAck[e] \in Nat
  BY <1>0 DEF IInv, TypeOK
<1>3. \A q \in recvQ[e] : q \in RecvEntries
  BY DEF IInv, TypeOK
<1>4. \A q \in recvQ[e] : q.id \in Nat /\ q.code \in Code
  BY <1>3 DEF RecvEntries
<1>5. \A q \in recvQ[e] : q.code = "DATA_ACK" => q.id < numSendAck[Peer(e)]
  BY <1>0 DEF IInv, StreamsAgree, FromStream, InStream
<1>6. \A q, r \in recvQ[e] : q.code = "DATA_ACK" /\ r.code = "DATA_ACK" /\ q.id = r.id => q = r
  BY DEF IInv, OneEntryPerID
<1>7. \A q \in recvQ[e] : q.code = "DATA_ACK" => q.id # lastSeqID[e] + 1
  BY DEF IInv, SeqIsMaximal, Held
<1> QED BY <1>1, <1>2, <1>3, <1>4, <1>5, <1>6, <1>7, Sizes, IdWidth

(* Nothing has been taken in sequence yet: few packets can be waiting. *)
LEMMA FewBeforeFirst ==
  ASSUME IInv, RoomOK, NEW e \in End, lastSeqID[e] = -1, NEW Q \in SUBSET recvQ[e], NEW a \in Nat,
         \A q \in Q : q.code = "DATA_ACK" /\ q.id >= a
  PROVE  IsFiniteSet(Q) /\ Cardinality(Q) <= IF a > Window - 1 THEN 0 ELSE Window - a
<1>1. lastReadID[e] = -1 /\ numSendAck[Peer(e)] <= Window /\ Window \in Nat
  BY RoomTypes DEF RoomOK
<1>2. \A q \in Q : q.id \in a .. Window - 1
  BY <1>1, RoomTypes
<1>3. \A q, r \in Q : q.id = r.id => q = r
  BY RoomTypes
<1>4. a \in Int /\ Window - 1 \in Int
  BY <1>1
<1>5. IsFiniteSet(Q) /\ Cardinality(Q) <= IF a > Window - 1 THEN 0 ELSE (Window - 1) - a + 1
  BY <1>2, <1>3, <1>4, EntriesInRange
<1>6. (Window - 1) - a + 1 = Window - a
  BY <1>1
<1> QED BY <1>5, <1>6

(* A queue that gains and loses only what is not beyond LastSeqID. *)
LEMMA CrowdKept ==
  ASSUME IInv, RoomOK, NEW e \in End,
         IsFiniteSet(recvQ'[e]), lastSeqID'[e] = lastSeqID[e],
         \A q \in recvQ'[e] : q.code = "DATA_ACK" /\ q.id > lastSeqID[e] => q \in recvQ[e],
         lastSeqID[e] >= 0 => \E q \in recvQ'[e] : q.code = "DATA_ACK" /\ q.id = lastSeqID[e]
  PROVE  lastSeqID'[e] >= 0 => Held(e, lastSeqID[e])' /\ Cardinality(Crowd(e)') <= MaxReceive - 2
<1> SUFFICES ASSUME lastSeqID[e] >= 0
             PROVE  Held(e, lastSeqID[e])' /\ Cardinality(Crowd(e)') <= MaxReceive - 2
  OBVIOUS
<1>1. Crowd(e)' \in SUBSET Crowd(e)
  BY DEF Crowd
<1>2. IsFiniteSet(Crowd(e)) /\ Cardinality(Crowd(e)) <= MaxReceive - 2
  <2>1. Crowd(e) \in SUBSET recvQ[e] /\ IsFiniteSet(recvQ[e])
    BY DEF Crowd, RoomOK
  <2> QED BY <2>1, FS_Subset DEF RoomOK
<1>3. /\ IsFiniteSet(Crowd(e)') /\ Cardinality(Crowd(e)') <= Cardinality(Crowd(e))
  BY <1>1, <1>2, FS_Subset
<1>4. Cardinality(Crowd(e)') \in Nat /\ Cardinality(Crowd(e)) \in Nat
  BY <1>2, <1>3, FS_CardinalityType
<1>5. Held(e, lastSeqID[e])'
  BY DEF Held
<1>6. MaxReceive \in Nat
  BY Sizes
<1> QED BY <1>2, <1>3, <1>4, <1>5, <1>6

LEMMA RoomReceiveUnacked ==
  ASSUME IInv, RoomOK, NEW e \in End, NEW p \in data, NEW keep \in BOOLEAN,
         ReceiveUnacked(e, p, keep)
  PROVE  RoomOK'
<1>0. UNCHANGED <<numSendAck, lastSeqID, lastReadID>>
  BY DEF ReceiveUnacked
<1> SUFFICES ASSUME NEW f \in End
             PROVE  /\ IsFiniteSet(recvQ'[f])
                    /\ numSendAck[Peer(f)] <= lastReadID[f] + 1 + Window
                    /\ lastSeqID'[f] >= 0 => /\ Held(f, lastSeqID[f])'
                                             /\ Cardinality(Crowd(f)') <= MaxReceive - 2
  BY <1>0 DEF RoomOK
<1>1. PICK x : (recvQ'[f] = recvQ[f] \/ recvQ'[f] = recvQ[f] \cup {x}) /\ x.code = "DATA_NOACK"
  <2> DEFINE x == RecvEntry(e, p)
  <2>1. x.code = "DATA_NOACK"
    BY DEF ReceiveUnacked, RecvEntry
  <2>2. recvQ'[f] = recvQ[f] \/ recvQ'[f] = recvQ[f] \cup {x}
    BY DEF ReceiveUnacked, Enqueue, IInv, TypeOK
  <2> QED BY <2>1, <2>2
<1>2. IsFiniteSet(recvQ[f])
  BY DEF RoomOK
<1>3. IsFiniteSet(recvQ'[f])
  BY <1>1, <1>2, FS_AddElement
<1>4. \A q \in recvQ'[f] : q.code = "DATA_ACK" => q \in recvQ[f]
  BY <1>1
<1>5. recvQ[f] \subseteq recvQ'[f]
  BY <1>1
<1>6. lastSeqID[f] >= 0 => \E q \in recvQ'[f] : q.code = "DATA_ACK" /\ q.id = lastSeqID[f]
  BY <1>5 DEF RoomOK, Held
<1> QED BY <1>0, <1>3, <1>4, <1>6, CrowdKept DEF RoomOK

LEMMA RoomService ==
  ASSUME IInv, RoomOK, NEW e \in End, Service(e)
  PROVE  RoomOK'
<1>0. UNCHANGED <<numSendAck, lastSeqID, lastReadID>>
  BY DEF Service
<1> SUFFICES ASSUME NEW f \in End
             PROVE  /\ IsFiniteSet(recvQ'[f])
                    /\ numSendAck[Peer(f)] <= lastReadID[f] + 1 + Window
                    /\ lastSeqID'[f] >= 0 => /\ Held(f, lastSeqID[f])'
                                             /\ Cardinality(Crowd(f)') <= MaxReceive - 2
  BY <1>0 DEF RoomOK
<1>1. recvQ'[f] = recvQ[f] \/ (f = e /\ recvQ'[f] = recvQ[f] \ Removable(f))
  BY DEF Service, IInv, TypeOK
<1>2. recvQ'[f] \in SUBSET recvQ[f] /\ IsFiniteSet(recvQ[f])
  BY <1>1 DEF RoomOK
<1>3. IsFiniteSet(recvQ'[f])
  BY <1>2, FS_Subset
<1>4. lastSeqID[f] >= 0 => \E q \in recvQ'[f] : q.code = "DATA_ACK" /\ q.id = lastSeqID[f]
  <2> SUFFICES ASSUME lastSeqID[f] >= 0
               PROVE  \E q \in recvQ'[f] : q.code = "DATA_ACK" /\ q.id = lastSeqID[f]
    OBVIOUS
  <2>1. PICK q \in recvQ[f] : q.code = "DATA_ACK" /\ q.id = lastSeqID[f]
    BY DEF RoomOK, Held
  <2>2. q \notin Removable(f)
    BY <2>1, RoomTypes DEF Removable
  <2> QED BY <1>1, <2>1, <2>2
<1> QED BY <1>0, <1>2, <1>3, <1>4, CrowdKept DEF RoomOK

LEMMA RoomGetPacket ==
  ASSUME IInv, RoomOK, NEW e \in End, GetPacket(e)
  PROVE  RoomOK'
<1>0. UNCHANGED <<numSendAck, lastSeqID>>
  BY DEF GetPacket
<1>1. PICK q \in Readable(e) :
         /\ recvQ' = [recvQ EXCEPT ![e] = (recvQ[e] \ {q}) \cup {[q EXCEPT !.read = TRUE]}]
         /\ IF q.code = "DATA_ACK"
              THEN lastReadID' = [lastReadID EXCEPT ![e] = q.id]
              ELSE UNCHANGED lastReadID
  BY DEF GetPacket
<1> DEFINE r == [q EXCEPT !.read = TRUE]
<1>2. q \in recvQ[e] /\ q.id \in Nat /\ r.code = q.code /\ r.id = q.id
  <2>1. q \in recvQ[e]
    BY DEF Readable
  <2>2. q \in RecvEntries /\ q.id \in Nat
    BY <2>1, RoomTypes
  <2> QED BY <2>1, <2>2 DEF RecvEntries
<1>3. q.code = "DATA_ACK" => q.id = lastReadID[e] + 1 /\ q.id <= lastSeqID[e]
  <2>1. q.code = "DATA_ACK" => q.id = lastReadID[e] + 1
    BY DEF Readable
  <2> QED BY <1>2, <2>1, RoomTypes
<1> SUFFICES ASSUME NEW f \in End
             PROVE  /\ IsFiniteSet(recvQ'[f])
                    /\ numSendAck[Peer(f)] <= lastReadID'[f] + 1 + Window
                    /\ lastSeqID'[f] >= 0 => /\ Held(f, lastSeqID[f])'
                                             /\ Cardinality(Crowd(f)') <= MaxReceive - 2
  BY <1>0 DEF RoomOK
<1>4. numSendAck[Peer(f)] <= lastReadID'[f] + 1 + Window
  <2>1. lastReadID'[f] = lastReadID[f] \/ lastReadID'[f] = lastReadID[f] + 1
    BY <1>1, <1>3 DEF IInv, TypeOK
  <2>2. numSendAck[Peer(f)] <= lastReadID[f] + 1 + Window
    BY DEF RoomOK
  <2> QED BY <2>1, <2>2, RoomTypes
<1>5. recvQ'[f] = recvQ[f] \/ (f = e /\ recvQ'[f] = (recvQ[f] \ {q}) \cup {r})
  BY <1>1 DEF IInv, TypeOK
<1> HIDE DEF r
<1>6. IsFiniteSet(recvQ[f])
  BY DEF RoomOK
<1>7. IsFiniteSet(recvQ'[f])
  <2>1. IsFiniteSet(recvQ[f] \ {q})
    BY <1>6, FS_RemoveElement
  <2>2. IsFiniteSet((recvQ[f] \ {q}) \cup {r})
    BY <2>1, FS_AddElement
  <2> QED BY <1>5, <1>6, <2>2
<1>8. \A x \in recvQ'[f] : x.code = "DATA_ACK" /\ x.id > lastSeqID[f] => x \in recvQ[f]
  BY <1>2, <1>3, <1>5, RoomTypes
<1>9. lastSeqID[f] >= 0 => \E x \in recvQ'[f] : x.code = "DATA_ACK" /\ x.id = lastSeqID[f]
  <2> SUFFICES ASSUME lastSeqID[f] >= 0
               PROVE  \E x \in recvQ'[f] : x.code = "DATA_ACK" /\ x.id = lastSeqID[f]
    OBVIOUS
  <2>1. PICK x \in recvQ[f] : x.code = "DATA_ACK" /\ x.id = lastSeqID[f]
    BY DEF RoomOK, Held
  <2> QED BY <1>2, <1>5, <2>1
<1> QED BY <1>0, <1>4, <1>7, <1>8, <1>9, CrowdKept

(* The packet next in sequence: LastSeqID moves, and the crowd thins. *)
LEMMA RoomNextTaken ==
  ASSUME IInv, RoomOK, Window <= MaxReceive, NEW e \in End, NEW q0, NEW last \in Nat,
         q0.code = "DATA_ACK", q0.id \in Nat, q0.id = lastSeqID[e] + 1, last >= q0.id,
         recvQ'[e] = recvQ[e] \cup {q0}, lastSeqID'[e] = last,
         \A i \in q0.id + 1 .. last : Held(e, i),
         ~ Held(e, last + 1)
  PROVE  Held(e, lastSeqID[e])' /\ Cardinality(Crowd(e)') <= MaxReceive - 2
<1>t. /\ lastSeqID[e] \in Int /\ lastSeqID[e] >= -1 /\ MaxReceive \in Nat /\ MaxReceive >= 2
      /\ Window \in Nat /\ \A q \in recvQ[e] : q.id \in Nat
  BY RoomTypes
<1>1. Held(e, lastSeqID[e])'
  <2>1. CASE last = q0.id
    BY <2>1 DEF Held
  <2>2. CASE last > q0.id
    <3>1. Held(e, last)
      BY <2>2
    <3> QED BY <3>1 DEF Held
  <2> QED BY <2>1, <2>2
<1>2. Crowd(e)' = {q \in recvQ[e] : q.code = "DATA_ACK" /\ q.id > last}
  BY DEF Crowd
<1> DEFINE K == {q \in recvQ[e] : q.code = "DATA_ACK" /\ q.id > last}
<1>3. K \in SUBSET recvQ[e]
  OBVIOUS
<1>4. Cardinality(K) <= MaxReceive - 2
  <2>1. CASE lastSeqID[e] >= 0
    <3>1. K \in SUBSET Crowd(e)
      BY <1>t DEF Crowd
    <3>2. Crowd(e) \in SUBSET recvQ[e] /\ IsFiniteSet(recvQ[e])
      BY DEF Crowd, RoomOK
    <3>3. IsFiniteSet(Crowd(e))
      BY <3>2, FS_Subset
    <3> HIDE DEF K
    <3>4. IsFiniteSet(K) /\ Cardinality(K) <= Cardinality(Crowd(e))
      BY <3>1, <3>3, FS_Subset
    <3>5. Cardinality(Crowd(e)) <= MaxReceive - 2
      BY <2>1 DEF RoomOK
    <3>6. Cardinality(K) \in Nat /\ Cardinality(Crowd(e)) \in Nat
      BY <3>3, <3>4, FS_CardinalityType
    <3> QED BY <1>t, <3>4, <3>5, <3>6
  <2>2. CASE lastSeqID[e] = -1
    <3>1. \A q \in K : q.code = "DATA_ACK" /\ q.id >= last + 2
      BY <1>t DEF Held
    <3>2. last + 2 \in Nat
      OBVIOUS
    <3> HIDE DEF K
    <3>3. IsFiniteSet(K) /\ Cardinality(K) <= IF last + 2 > Window - 1 THEN 0 ELSE Window - (last + 2)
      BY <1>3, <2>2, <3>1, <3>2, FewBeforeFirst
    <3>4. Cardinality(K) \in Nat
      BY <3>3, FS_CardinalityType
    <3> QED BY <1>t, <3>3, <3>4
  <2> QED BY <1>t, <2>1, <2>2
<1> QED BY <1>1, <1>2, <1>4

(* A packet beyond the next in sequence: two slots were free. *)
LEMMA RoomLaterTaken ==
  ASSUME IInv, RoomOK, NEW e \in End, NEW q0,
         q0.code = "DATA_ACK", q0.id \in Nat, q0.id > lastSeqID[e] + 1, Spare(e),
         recvQ'[e] = recvQ[e] \cup {q0}, lastSeqID'[e] = lastSeqID[e], lastSeqID[e] >= 0
  PROVE  Held(e, lastSeqID[e])' /\ Cardinality(Crowd(e)') <= MaxReceive - 2
<1>t. lastSeqID[e] \in Int /\ MaxReceive \in Nat
  BY RoomTypes
<1>1. PICK h \in recvQ[e] : h.code = "DATA_ACK" /\ h.id = lastSeqID[e]
  BY DEF RoomOK, Held
<1>2. Held(e, lastSeqID[e])'
  BY <1>1 DEF Held
<1>3. Crowd(e)' = Crowd(e) \cup {q0}
  BY <1>t DEF Crowd
<1>4. IsFiniteSet(recvQ[e]) /\ Crowd(e) \in SUBSET (recvQ[e] \ {h})
  <2>1. \A q \in Crowd(e) : q \in recvQ[e] /\ q.id > lastSeqID[e]
    BY DEF Crowd
  <2>2. h \notin Crowd(e)
    BY <1>1, <1>t, <2>1
  <2> QED BY <2>1, <2>2 DEF RoomOK
<1>5. /\ IsFiniteSet(recvQ[e] \ {h})
      /\ Cardinality(recvQ[e] \ {h}) = Cardinality(recvQ[e]) - 1
  BY <1>1, <1>4, FS_RemoveElement
<1>6. IsFiniteSet(Crowd(e)) /\ Cardinality(Crowd(e)) <= Cardinality(recvQ[e] \ {h})
  BY <1>4, <1>5, FS_Subset
<1>7. Cardinality(Crowd(e) \cup {q0}) <= Cardinality(Crowd(e)) + 1
  <2>1. Cardinality(Crowd(e) \cup {q0}) =
          IF q0 \in Crowd(e) THEN Cardinality(Crowd(e)) ELSE Cardinality(Crowd(e)) + 1
    BY <1>6, FS_AddElement
  <2>2. Cardinality(Crowd(e)) \in Nat
    BY <1>6, FS_CardinalityType
  <2> QED BY <2>1, <2>2
<1>8. /\ Cardinality(recvQ[e]) \in Nat /\ Cardinality(Crowd(e)) \in Nat
      /\ Cardinality(Crowd(e) \cup {q0}) \in Nat
  BY <1>4, <1>6, FS_AddElement, FS_CardinalityType
<1>9. MaxReceive - Cardinality(recvQ[e]) > 1
  BY DEF Spare
<1> QED BY <1>2, <1>3, <1>5, <1>6, <1>7, <1>8, <1>9, <1>t

LEMMA RoomReceiveData ==
  ASSUME IInv, RoomOK, Window <= MaxReceive, NEW e \in End, NEW p \in data, ReceiveData(e, p)
  PROVE  RoomOK'
<1>0. UNCHANGED <<numSendAck, lastReadID>> /\ p.code = "DATA_ACK" /\ p.id \in Nat
  BY DEF ReceiveData, IInv, TypeOK, DataPackets
<1>1. CASE UNCHANGED <<recvQ, lastSeqID>>
  BY <1>0, <1>1 DEF RoomOK, Held, Crowd
<1>2. CASE ~ IsRepeat(e, p) /\ Fits(e, p) /\ Enqueue(e, p) /\ AdvanceSeq(e, p)
  <2> DEFINE q0 == RecvEntry(e, p)
  <2>1. q0.code = "DATA_ACK" /\ q0.id = p.id
    BY <1>0 DEF RecvEntry
  <2>2. /\ recvQ'[e] = recvQ[e] \cup {q0}
        /\ \A f \in End : f # e => recvQ'[f] = recvQ[f]
    BY <1>2 DEF Enqueue, IInv, TypeOK
  <2>3. \A f \in End : f # e => lastSeqID'[f] = lastSeqID[f]
    BY <1>2 DEF AdvanceSeq, IInv, TypeOK
  <2>t. lastSeqID[e] \in Int /\ \A q \in recvQ[e] : q.id \in Nat
    BY RoomTypes
  <2>4. lastSeqID'[e] >= 0 => Held(e, lastSeqID[e])' /\ Cardinality(Crowd(e)') <= MaxReceive - 2
    <3>1. CASE p.id = lastSeqID[e] + 1
      <4>1. PICK last \in {p.id} \cup {q.id : q \in recvQ[e]} :
               /\ last >= p.id
               /\ \A i \in p.id + 1 .. last : Held(e, i)
               /\ ~ Held(e, last + 1)
               /\ lastSeqID' = [lastSeqID EXCEPT ![e] = last]
        BY <1>2, <3>1 DEF AdvanceSeq
      <4>2. last \in Nat /\ lastSeqID'[e] = last
        BY <1>0, <2>t, <4>1 DEF IInv, TypeOK
      <4> HIDE DEF q0
      <4> QED BY <1>0, <2>1, <2>2, <3>1, <4>1, <4>2, RoomNextTaken
    <3>2. CASE p.id # lastSeqID[e] + 1
      <4>1. lastSeqID'[e] = lastSeqID[e]
        BY <1>2, <3>2 DEF AdvanceSeq
      <4>2. Spare(e) /\ p.id > lastSeqID[e] + 1
        BY <1>0, <1>2, <2>t, <3>2 DEF Fits, IsRepeat
      <4> HIDE DEF q0
      <4> QED BY <1>0, <2>1, <2>2, <4>1, <4>2, RoomLaterTaken
    <3> QED BY <3>1, <3>2
  <2>5. IsFiniteSet(recvQ'[e])
    <3>1. IsFiniteSet(recvQ[e])
      BY DEF RoomOK
    <3> HIDE DEF q0
    <3> QED BY <2>2, <3>1, FS_AddElement
  <2>6. \A f \in End : f # e =>
          /\ IsFiniteSet(recvQ'[f])
          /\ lastSeqID'[f] >= 0 => /\ Held(f, lastSeqID[f])'
                                   /\ Cardinality(Crowd(f)') <= MaxReceive - 2
    BY <2>2, <2>3 DEF RoomOK, Held, Crowd
  <2> QED BY <1>0, <2>4, <2>5, <2>6 DEF RoomOK
<1> QED BY <1>1, <1>2 DEF ReceiveData

LEMMA RoomNext ==
  ASSUME IInv, RoomOK, Window <= MaxReceive, [Next]_vars
  PROVE  RoomOK'
<1>1. CASE UNCHANGED <<recvQ, numSendAck, lastSeqID, lastReadID>>
  BY <1>1 DEF RoomOK, Held, Crowd
<1>2. ASSUME NEW e \in End, NEW m \in Msg, Paced(e), SendAcked(e, m) PROVE RoomOK'
  <2>1. UNCHANGED <<recvQ, lastSeqID, lastReadID>>
    BY <1>2 DEF SendAcked
  <2>2. \A f \in End : numSendAck'[Peer(f)] <= lastReadID[f] + 1 + Window
    <3> SUFFICES ASSUME NEW f \in End PROVE numSendAck'[Peer(f)] <= lastReadID[f] + 1 + Window
      OBVIOUS
    <3>1. CASE Peer(f) = e
      <4>1. Peer(e) = f
        BY <3>1, PeerFacts
      <4>2. Len(got[f]) = lastReadID[f] + 1
        BY DEF IInv, SeqIsMaximal
      <4>3. numSendAck'[e] = numSendAck[e] + 1
        BY <1>2 DEF SendAcked, IInv, TypeOK
      <4>4. numSendAck[e] - Len(got[f]) < Window
        BY <1>2, <4>1 DEF Paced
      <4>5. numSendAck[e] \in Nat /\ lastReadID[f] \in Int /\ Window \in Nat
        BY RoomTypes
      <4> QED BY <3>1, <4>2, <4>3, <4>4, <4>5
    <3>2. CASE Peer(f) # e
      <4>1. numSendAck'[Peer(f)] = numSendAck[Peer(f)]
        BY <1>2, <3>2, PeerFacts DEF SendAcked, IInv, TypeOK
      <4> QED BY <4>1 DEF RoomOK
    <3> QED BY <3>1, <3>2
  <2> QED BY <2>1, <2>2 DEF RoomOK, Held, Crowd
<1>3. ASSUME NEW e \in End, NEW m \in Msg, SendUnacked(e, m) PROVE RoomOK'
  BY <1>1, <1>3 DEF SendUnacked
<1>4. ASSUME NEW e \in End, NEW p \in acks, ReceiveAck(e, p) PROVE RoomOK'
  BY <1>1, <1>4 DEF ReceiveAck
<1>5. ASSUME NEW e \in End, NEW p \in data, ReceiveData(e, p) PROVE RoomOK'
  BY <1>5, RoomReceiveData
<1>6. ASSUME NEW e \in End, NEW p \in data, NEW keep \in BOOLEAN, ReceiveUnacked(e, p, keep)
      PROVE  RoomOK'
  BY <1>6, RoomReceiveUnacked
<1>7. ASSUME NEW e \in End, GetPacket(e) PROVE RoomOK'
  BY <1>7, RoomGetPacket
<1>8. ASSUME NEW e \in End, Service(e) PROVE RoomOK'
  BY <1>8, RoomService
<1>9. ASSUME Tick \/ Lose PROVE RoomOK'
  BY <1>1, <1>9 DEF Tick, Lose, connVars
<1>10. CASE UNCHANGED vars
  BY <1>1, <1>10 DEF vars, connVars
<1> QED BY <1>2, <1>3, <1>4, <1>5, <1>6, <1>7, <1>8, <1>9, <1>10 DEF Next

(* When the game has read all it can and Service has cleared what it may,     *)
(* the next packet in sequence finds a slot, as long as nobody runs further   *)
(* ahead of his reader than the receive queue is long (Receive_Packet,        *)
(* Service_Receive_Queue).                                                    *)
THEOREM QueueNeverWedges ==
  ASSUME Window <= MaxReceive
  PROVE  Safety => []NextAlwaysFits
<1>1. Init => IInv /\ RoomOK
  <2> SUFFICES ASSUME Init PROVE IInv /\ RoomOK
    OBVIOUS
  <2>1. \A e \in End : recvQ[e] = {} /\ lastSeqID[e] = -1 /\ lastReadID[e] = -1 /\ numSendAck[e] = 0
    BY DEF Init, NoId
  <2>2. Window \in Nat
    BY IdWidth
  <2>3. RoomOK
    BY <2>1, <2>2, PeerFacts, FS_EmptySet DEF RoomOK
  <2> QED BY <2>3, InvInit
<1>2. IInv /\ RoomOK /\ [Next]_vars => (IInv /\ RoomOK)'
  BY InvNext, RoomNext
<1>3. IInv /\ RoomOK => NextAlwaysFits
  <2> SUFFICES ASSUME IInv, RoomOK, NEW e \in End, Readable(e) = {}, Removable(e) = {}
               PROVE  Cardinality(recvQ[e]) < MaxReceive
    BY DEF NextAlwaysFits
  <2>t. /\ lastSeqID[e] \in Int /\ lastSeqID[e] >= -1 /\ MaxReceive \in Nat /\ MaxReceive >= 2
        /\ Window \in Nat /\ lastReadID[e] \in Int /\ lastReadID[e] <= lastSeqID[e]
        /\ \A q \in recvQ[e] : q.id \in Nat /\ q.code \in Code
    BY RoomTypes
  <2>1. \A q \in recvQ[e] : q.code = "DATA_ACK"
    BY <2>t DEF Readable, Removable, Code
  <2>2. lastReadID[e] = lastSeqID[e]
    <3>1. CASE lastReadID[e] < lastSeqID[e]
      <4>1. lastReadID[e] + 1 \in lastReadID[e] + 1 .. lastSeqID[e]
        BY <2>t, <3>1
      <4>2. \E q \in recvQ[e] : q.code = "DATA_ACK" /\ q.id = lastReadID[e] + 1 /\ ~ q.read
        BY <4>1 DEF IInv, UnreadIsQueued
      <4> QED BY <4>2 DEF Readable
    <3> QED BY <2>t, <3>1
  <2>3. \A q \in recvQ[e] : q.id >= lastSeqID[e]
    <3> SUFFICES ASSUME NEW q \in recvQ[e], q.id < lastSeqID[e] PROVE FALSE
      BY <2>t
    <3>1. q.read
      BY <2>1, <2>2, <2>t DEF IInv, OneEntryPerID
    <3> QED BY <3>1 DEF Removable
  <2>4. CASE lastSeqID[e] = -1
    <3>1. \A q \in recvQ[e] : q.code = "DATA_ACK" /\ q.id >= 1
      BY <2>1, <2>4, <2>t, RoomTypes
    <3>2. /\ IsFiniteSet(recvQ[e])
          /\ Cardinality(recvQ[e]) <= IF 1 > Window - 1 THEN 0 ELSE Window - 1
      BY <2>4, <3>1, FewBeforeFirst
    <3>3. Cardinality(recvQ[e]) \in Nat
      BY <3>2, FS_CardinalityType
    <3> QED BY <2>t, <3>2, <3>3
  <2>5. CASE lastSeqID[e] >= 0
    <3>1. PICK h \in recvQ[e] : h.code = "DATA_ACK" /\ h.id = lastSeqID[e]
      BY <2>5 DEF RoomOK, Held
    <3>2. recvQ[e] \in SUBSET (Crowd(e) \cup {h})
      <4>1. ASSUME NEW q \in recvQ[e], q # h PROVE q \in Crowd(e)
        <5>1. q.id # h.id
          BY <2>1, <3>1, <4>1, RoomTypes
        <5> QED BY <2>1, <2>3, <2>t, <3>1, <5>1 DEF Crowd
      <4> QED BY <4>1
    <3>3. IsFiniteSet(Crowd(e)) /\ Cardinality(Crowd(e)) <= MaxReceive - 2
      <4>1. Crowd(e) \in SUBSET recvQ[e] /\ IsFiniteSet(recvQ[e])
        BY DEF Crowd, RoomOK
      <4> QED BY <2>5, <4>1, FS_Subset DEF RoomOK
    <3>4. Cardinality(Crowd(e)) \in Nat
      BY <3>3, FS_CardinalityType
    <3>5. /\ IsFiniteSet(Crowd(e) \cup {h})
          /\ Cardinality(Crowd(e) \cup {h}) =
               IF h \in Crowd(e) THEN Cardinality(Crowd(e)) ELSE Cardinality(Crowd(e)) + 1
      BY <3>3, FS_AddElement
    <3>6. Cardinality(recvQ[e]) <= Cardinality(Crowd(e) \cup {h}) /\ IsFiniteSet(recvQ[e])
      BY <3>2, <3>5, FS_Subset
    <3>7. Cardinality(recvQ[e]) \in Nat
      BY <3>6, FS_CardinalityType
    <3> QED BY <2>t, <3>3, <3>4, <3>5, <3>6, <3>7
  <2> QED BY <2>t, <2>4, <2>5
<1> QED BY <1>1, <1>2, <1>3, PTL DEF Safety
==============================================================================
