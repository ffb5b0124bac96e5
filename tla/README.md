# Formal models of Command & Conquer: Tiberian Dawn (SDL3 port)

TLA+ models of the parts of the game whose correctness depends on the order of
events: the acknowledged datagram connection, the two network managers and
what the game notes of their connections, the frame lockstep that keeps the
machines of a multiplayer game in step, the lobby and relay server, production
and money of a house, and the traffic of its harvesters and refineries. TLC
checks small instances; TLAPS proves the safety of the connection, the managers, the
lockstep, the server, production and the harvesters for every value of their constants.

    tlc -config NonSeqConn_safety.cfg MCNonSeqConn.tla
    tlc -config NetGame_mail.cfg MCNetGame.tla
    tlc -config Lockstep_core.cfg MCLockstep.tla
    tlc -config Hub_rooms.cfg MCHub.tla
    tlc -config Production_books.cfg MCProduction.tla
    tlc -config Docking_dock.cfg MCDocking.tla
    tlapm NonSeqConnProofs.tla
    tlapm NetGameProofs.tla
    tlapm LockstepProofs.tla
    tlapm LockstepTogetherProofs.tla
    tlapm HubProofs.tla
    tlapm ProductionProofs.tla
    tlapm DockingProofs.tla
    tlapm Totals.tla

| Specification | Implements | Used by |
|---|---|---|
| `ReliableChannel` (abstract) | | |
| `NonSeqConn` | `ReliableChannel` | `UdpManager`, `Lockstep`, which take a connection for the channel |
| `Mailbox` (abstract) | | |
| `WolManager`, `UdpManager` | `Mailbox` | `NetGame`, the composition of both with the game |
| `Rooms` (abstract) | | |
| `Hub` | `Rooms` | `WolManager`, whose `Say` and `Leave` are what the server does |
| `Lockstep`, `Production`, `Docking` | | |

`PROJECT.json` lists components, runs, the mutants each property catches, the
source lines behind every definition, the findings, the hazards and the
theorems.

## 1. Inventory

| Component | State | Operations | What is hard | What makes it correct |
|---|---|---|---|---|
| Datagram connection (`NOSEQCON.CPP`, `COMBUF.CPP`, `CONNECT.CPP`) | send and receive queue, `NumSendAck`, `LastSeqID`, `LastReadID` | `Send_Packet`, `Receive_Packet`, `Get_Packet`, `Service` | loss, repetition, reordering, retries, full queues | messages are read once and in order; none is released before it was taken; queues drain |
| UDP manager (`UDPMGR.CPP`, `UDPCONN.CPP`) | `Connection[]`, `NumConnections`, `CurConnection`, `BadConnection` | `Send_Private_Message`, `Get_Private_Message`, `Service`, create and delete connection | removal of a connection under traffic, reliable transports that switch acknowledgements off | a packet is read as its sender's, once, in order; nobody's packets are left unread because others send |
| Global channel (`UDPGCONN.CPP`) | global queues | send, receive, read | no test for repetition, refusals acknowledged | the dialogs' handlers bear a message that comes twice or never |
| Frame lockstep (`QUEUE.CPP`, `EVENT.CPP`) | `OutList`, `DoList`, `Frame`, `MultiplayerMaxAhead`, `their_frame/sent/recv`, `my_sent` | `Queue_AI_Multiplayer`: send, wait, execute, clean | machines that run ahead, lost FRAMEINFO, changes of MaxAhead, players who leave | same events, same frame, same order everywhere; no wait without end |
| Player removal (`NETDLG.CPP` `Destroy_Connection`) | `MultiplayerID`, connections | from EXIT, from a timeout | runs inside loops over the list it changes | the others play on in step |
| Production and money (`FACTORY.CPP`, `HOUSE.CPP`) | `Balance`, stage, suspension; `Credits`, `Tiberium`, `Capacity` | begin, suspend, abandon, place; harvest, spend, refund, storage | several factories on one purse, rounding, refusals | exact price, exact refund, no overdraft |
| Lobby and relay server (`server/src/server.zig`) | connection slots, channels, games, a queue of frames per connection | upgrade, hello, channel join, game create / join / leave / start, chat, relay, close | clients vanish at any moment, slow readers, two records of each seat, members reordered by `swapRemove` | both records agree, the host sits first, the players a client reads of are its game's others, a client that is gone gives its seats back |
| WebSocket manager (`WSMGR.CPP`) | connections by client id, queues of private and of pending packets | create / delete connection, service, get, shutdown | packets before their connection, PEER_LEFT in the middle of a game, full queues | as the UDP manager |
| WebSocket client (`WSCLIENT.CPP`), TCP (`TCPIP.CPP`) | socket, framing buffers | connect, send, receive | partial reads, closing | whole messages, in order |
| Lobby dialogs (`NETDLG.CPP`) | player list, options, random seed | join, leave, go | user interface and protocol in one loop | all start with the same list and seed |
| Radio contact (`RADIO.CPP`) | `Radio`, `IsTethered` | HELLO, OVER_OUT, TETHER, UNTETHER, ... | an end by message, death, sale or order | mutual, never dangling |
| Harvesters and refineries (`UNIT.CPP`, `FOOT.CPP`, `TECHNO.CPP`, `BUILDING.CPP`, `DRIVE.CPP`) | mission, queued mission, status, NavCom, cargo | harvest, find a refinery, dock, unload, leave; order, sell, hit | orders that arrive late, several harvesters for one refinery, a sale in the middle | one inside at a time, paid in full, none forgotten, the refinery comes free |
| Teams and triggers (`TEAM.CPP`, `TRIGGER.CPP`), heaps (`HEAP.CPP`) | cross references between game objects | add, remove; attach, spring; alloc, free | references to objects that die | references never dangle |
| Units, buildings, movement, path finding, houses' computer opponent | missions, positions | `AI` of each class | long sequences | deterministic, not modelled |
| Saved games, message list, input, display, sound, video, Win32 library, SDL wrappers, tools, web and Android packaging | – | – | I/O and presentation | not modelled |

How they interact. A player's click becomes an event in `OutList`.
`Send_Packets` moves events into packets and into the own `DoList`; the packets
go through the manager's connection to each other machine.
`Wait_For_Players` reads packets, puts their events in the `DoList`, and ends
when `Can_Advance` says so. `Execute_DoList` then calls `EventClass::Execute`,
which runs, among others, `HouseClass::Begin_Production` and its siblings. All
of it is one thread per machine; concurrency is between machines, and inside
one machine between the callbacks of one loop. `SEQCONN.CPP`, `COMQUEUE.CPP`
and the modem code (`NULLCONN`, `NULLMGR`) are not used by this build:
`UDPConnClass` derives from `NonSequencedConnClass`.

## 2. Plan

Done: `NonSeqConn` with `ReliableChannel` and proofs; `Lockstep` and proofs; `Production`
and proofs; `WolManager`, `UdpManager` and their composition `NetGame` with
`Mailbox`, and proofs; `Hub` with `Rooms` and proofs; `Docking` and proofs.

Left, in this order:

1. Proofs: `NeverTooLate`, `InSync` and `OrdersInOrder` of `Lockstep` for any number of changes of MaxAhead, where
   the clock of section 4 becomes a list of changes, and for players who leave where that
   keeps them true.
2. `EventPacket`: `Add_Compressed_Events` and `Extract_Compressed_Events` as
   functions, inverse to each other over bounded event lists; `Timing`: the
   arithmetic of `Generate_Real_Timing_Event`.
3. Transports and passengers, which use the radio in the same way; `Team`,
   `Trigger`, `Heap`.
4. The protocol inside the lobby dialogs (list of games, join, reject, go).

## 3. NonSeqConn: the connection

Two ends, a network, one action for each entry point of the code:

| Action | Code |
|---|---|
| `SendAcked`, `SendUnacked` | `Send_Packet` with and without `ack_req`, `Queue_Send` |
| `ReceiveAck`, `ReceiveUnacked`, `ReceiveData` | the three branches of `Receive_Packet` |
| `GetPacket` | `Get_Packet` |
| `Service` | `ConnectionClass::Service`: `Service_Send_Queue`, then, unless that found the connection bad, `Service_Receive_Queue` |
| `Tick`, `Lose` | the clock; the network |

Queues are sets of entries. The array index the code keeps only orders them;
the receive queue's order is the arrival stamp, the send queue's order
decides nothing. Times are ticks since the last send and since the first one,
saturated just above the limit they are compared with. A packet stays on the wire
after delivery, so any repetition and reordering happens; a network that
never delivers is covered because nothing forces delivery, and in the live run
`Lose` removes packets. Repetitions of unacknowledged packets each take a slot
and are bounded by `MaxDup`. `Paced` is the one assumption about the user of
the connection: it is at most `Window` messages ahead of what its peer has read. In the
game that is the work of `Can_Advance` (QUEUE.CPP:1807): a player MaxAhead frames ahead of
a peer's last known frame sends nothing more. The wedge run lifts it.

Properties: `InOrderDelivery`, `ReleasedOnlyIfTaken`, `UnreadIsQueued`,
`NextAlwaysFits`, `SendQueueDrains`, and the refinement of `ReliableChannel`
(safety part in `conn_safety`, all of it in `conn_live`).

Bounds. Three acknowledged messages, more than the queue of two has slots, and
one unacknowledged one that competes for them; one retry before the connection
counts as bad, so that `Service` also returns early. The constraint
`Numbered` fixes the payload of a message to its place in the stream, so that
every exchange shows; it prunes no other choice. Deadlock is not
checked: when all budgets are spent the system stops.

Fairness (live run): both ends keep calling `Service` and `Get_Packet`, which
the main loop does in every wait; time passes; a packet sent again and again
arrives in the end (strong fairness on the arrival of each PacketID and of its
ACK). The retry limit is off there, as in the game
(`UDPCONN` passes -1), and so is the effect of the timeout: a connection that
is given up delivers nothing.

### Proofs (`NonSeqConnProofs`)

`IInv` is the conjunction of the types, `StreamsAgree` (every queued or flying
copy of a PacketID carries the message sent under it), `OneEntryPerID`,
`SeqIsMaximal` (nothing is held directly above `LastSeqID`), `UnreadIsQueued`,
`InOrderDelivery`, `AcksAreTrue` and `ReleasedOnlyIfTaken`. `InOrderDelivery`
alone is not inductive: that the entry read next holds the right message needs
`StreamsAgree`, that it is read once needs `OneEntryPerID`, and that the
receiver keeps what it acknowledged needs `UnreadIsQueued` and `AcksAreTrue`.
One lemma per action shows that it is kept; `Invariance` puts them together;
`DeliveryInOrder`, `NothingReleasedEarly`, `NothingSkipped` and
`ImplementsReliableChannel` follow. Assumptions: two different ends, a receive
queue of at least two entries, and no more messages than there are PacketIDs (2^32).

`QueueNeverWedges` proves `NextAlwaysFits` under one hypothesis more, that a sender is
at most as many messages ahead of the reader as the queue holds (`Window <= MaxReceive`):
just where the finding `conn_wedge` begins. Its invariant `RoomOK` says what the
two tests of `Receive_Packet` add up to: what is held beyond `LastSeqID` never
takes the last two slots, the entry of `LastSeqID` itself stays until it is read and
the next one has come, and whatever is held lies within the window. How many entries
that leaves is counted with the library's theorems on cardinalities.
Liveness is model-checked only.

## 4. Lockstep: the frames

One step of `frame` is one send period (`FrameSendRate` frames): packets
leave and commands are due only on its multiples, and MaxAhead is kept a
multiple of it. `pc` says where in `Queue_AI_Multiplayer` a machine is:

| `pc` | Code | Actions |
|---|---|---|
| `sync` | frame 0, first `Wait_For_Players` | `Resync`, `HearInfo`, `HearCommands`, `Begin`, `GiveUp` |
| `play` | the game between two calls | `Command`, `Timing`, `Exit`, `Send` |
| `wait` | `Wait_For_Players` | `Resync`, `HearInfo`, `HearCommands`, `HandleTimeout`, `Advance` |
| `exec` | `Execute_DoList`, `Clean_DoList` | `ExecuteEvent` (one entry), `EndFrame` |
| `left`, `stopped`, `full`, `late`, `hung` | the game is over | – |

`late` is "packet received too late" (QUEUE.CPP:2920), `full` is
`RC_DOLIST_FULL`, `hung` is a `Send_Packets` that does not return.

Command packets travel on one FIFO channel per pair and arrive once: what
`NonSeqConn` promises. FRAMEINFO and FRAMESYNC packets are a set that only
grows: each may be heard never, once or often, in any order. The arrays
`their_frame`, `their_sent`, `their_recv` are indexed by player instead of by
connection; shifting them when a connection goes is thus not modelled, the
shift of `MultiplayerID` under the loop of `Execute_DoList` is. FRAMEINFO
entries of the DoList are left out with the CRC comparison they trigger.
Events carry their player's number for them (`no`); two history variables, `sent`
and `log`, keep what a machine has sent and executed.
A machine in `exec` runs alone (`Quiet`): it reads and writes nothing another
machine sees, so any interleaving is equal to one of these. `Private_Num_Send`
is a free choice of "light", "some" and "full" among `Loads`. TIMING events may be
generated at any time and with any of `NewAheads`, where the code does it
every 128 frames and computes the value from response times.

Properties. `InSync`: machines connected to each other executed the same
events in every frame both have finished, in the same order (`Played` is what
stands in a log up to a frame, with its places). `NeverTooLate`:
no command is reached after its frame. `SkewBounded`: nobody is more than
MaxAhead ahead. `OrdersInOrder`: a player's commands are executed in the order
given (for a MaxAhead that does not shrink; when it shrinks by two periods or
more, a later command may be due before an earlier one). `CountsTellTruth`:
a machine that has everything sent to it is not held up by the counters.
`SendReturns`. `GameGoesOn`: every machine plays to the last frame.

The header of `Queue_AI_Multiplayer` (QUEUE.CPP:472) gives the condition as
"frame # must be <= their_frame + MaxAhead"; `Can_Advance` and the model use `<`.

| Run | Instance | Shows |
|---|---|---|
| `step_core` | 2 players, 2 commands, one per packet, loads light and some, MaxAhead grows from 2 to 4 | all safety properties; events queue up behind a half-full send queue; without the rescheduling a command is passed |
| `step_leave` | player 2 may quit, waits may time out | the other plays on; `Exit`, `HandleTimeout`, `GiveUp` |
| `step_exit`, `step_wrap`, `step_dolist` | two players with one feature each | the findings below |

The bounds suffice for the cases named. In `step_core` `LastFrame` is three
more than MaxAhead, so that a command sent in the first period can be due,
passed and found too late, and the window of rescheduling opens and closes
within the run. Two players suffice for DoLists in different orders; with three
the same holds (a run of three players passed, too long to be kept). The code
starts with a MaxAhead of three periods (INIT.CPP:1666) and never goes below
(QUEUE.CPP:1213), except as the WOL settings say (INIT.CPP:1663): the violation
runs use three, the others scale it down to one or two. The counter and list
sizes of the violation runs (2 instead of 65536 and 512) only bring the limit
within reach. `CHECK_DEADLOCK FALSE`: the game ends at `LastFrame`.

Fairness: a machine keeps running its main loop (weak fairness of `Run`), the
retry timer of the wait keeps going off, command packets arrive (the
connection's liveness), and of FRAMEINFO and FRAMESYNC packets sent again and
again the newest is heard in the end (strong fairness; the code sends a
FRAMESYNC every `retry_delta`). A wait that may time out does. So `GameGoesOn` takes the
resending for granted: the retry is an action (`Resync`), but since a packet once
sent may always be heard, no run would notice if it were missing.

A command counter that wraps (`step_wrap`) does not stop a game whose waits time out: it holds
it up until the wait ends and drops a player who is there.

With three players and timeouts, survivors disagree: each drops the player it
hears least of, at the frame it happens to be at, and the others' events then differ.
The code makes no promise about that, so no run checks it.

### Proofs (`LockstepProofs`, `LockstepTogetherProofs`)

For any number of players, any loads, lists, packets and counters, and with departures
and timeouts, `LockstepProofs` proves

* `TypeOK`, which says besides that a DoList never outgrows its array;
* `SkewBounded`, with `SkewInv`: nobody is said to be further than he is (`HeardOK`),
  a machine's player list and its connections are the same players (`RosterOK`), so that
  the machine that stops testing is really alone, and `Can_Advance` was
  true when the frame began (`SkewOK`);
* `AllFit => CountsTellTruth`, with `CountInv`: a player's events are numbered as sent
  (`Numbered`); the packets under way from q to p are, without a gap, what q has sent
  beyond `their_recv` (`ChainOK`); no FRAMEINFO, packet or `their_sent` promises more
  than was sent, or more than packets under way bring (`PromisesOK`); and a machine that claims
  a frame and a count has sent nothing later that belongs to an earlier frame (`AfterOK`).
  `AllFit` says that nobody has given `CountSpace` events: beyond that it is
  false (`step_wrap`).

`LockstepTogetherProofs` proves `AllFit => NeverTooLate`, `AllFit => InSync` and
`AllFit => OrdersInOrder` for a game that nobody leaves and in which MaxAhead changes
at most once (`Together`: the setting of `step_core`). What a machine does depends on
when it learns of the change; the proof therefore refers everything to a clock that
does not: `clock` is read off what player 1 has sent, `AheadAt(clock, f)` is the
MaxAhead in force in frame f, and `Final(clock, d)` the frame in which an event
scheduled for d is executed once the period of vulnerability is taken into account. `PlayInv` says that

* events are scheduled by the clock (`DuesOK`), and every machine's `ahead` and `window`
  are the clock's, from the TIMING event in its log on (`TimingOK`);
* `Can_Advance` was true by the clock in every frame begun (`GatesOK`);
* every event read is in the log or the DoList, once, in the order of its player,
  and none is lost when `Clean_DoList` drops entries (`ListOK`);
* the log is what is final so far (`LogOK`), sorted by frame, player and
  number (`SortedOK`), and what is not in it is final only now or later (`MissedOK`); in
  `Execute_DoList` what is due lies ahead of the loops (`ExecOK`).

The heart is `InTime`: an event a machine has not read was sent in a frame beyond the last one
it has heard of, so by the gate its final frame is not yet reached, before, in and after the change.
`NoneTooLate` follows from `ExecOK`. For `InSync`, two logs below a frame hold the same
events by `MissedOK` and `LogOK`, and sorted lists with the same members are equal
(`SortedAgree`; where they first differ the smaller entry is missing in the other).

Why the hypotheses. A player who quits makes `NeverTooLate` false (`step_exit`), and
survivors of a timeout disagree; counters that wrap hold the game up. `OrdersInOrder` needs
`NeverShrinks` besides (no MaxAhead below the first one), since it is false when MaxAhead
shrinks; the other two are proved for shrinking as well. One change is a restriction of
the proof, not known to be one of the code: with two changes the periods of vulnerability do not
overlap, since the event of the second is itself moved to the end of the first. Random simulation
with three changes found no violation, but this is neither proved nor exhaustively checked.
`GameGoesOn` is liveness and stays with TLC.

## 5. NetGame: the managers and the game on them

`WolManager` is `WSManagerClass`, `UdpManager` is `UDPManagerClass`, each on
one machine for one session: the dialog creates the connections (`Begin`),
packets of the other players come (`Service`), the game reads them (`Get`) and
removes players (`Delete`). `NetGame` instantiates both, chooses one as
`Current_Network_Manager` does, and adds what the game keeps by connection
index, `their_frame[]`, with the steps that read packets (`ReadPacket`), shift
it (`ExecuteExit`, `HandleTimeout`) or fail to (`SignOff`, which is in `Call_Back`,
CONQUER.CPP:961, and `WolPeerLeft`). A wait ends by the clock (`HandleTimeout`): packets may be
under way or unread when it does.

Over the relay server the packets and the PEER_LEFT of the server come in one
order, `wire`; a call of `Service` handles all that have arrived and is
modelled packet by packet. A packet of a client without a connection goes to
`pending` and is moved to `private` when the connection is made. Over UDP each
connection has its own queue; it is taken for the channel that `NonSeqConn`
implements. Over one TCP stream (`transport = "stream"`) the manager asks for
no acknowledgement: a packet that finds no connection, or one with a single free
slot, is gone.

`Mailbox` is the promise to the game: what is read as a player's was said by
him, in order, once; what is not lost is read in the end. Alone that would
allow everything to be lost; `LostWithCause` says what may be: packets of a
player of whom a queue refused one, who left or was removed, or of anyone
when the session ended (`excused`). `WaitsWhereRead`: the two queues of
`WSManagerClass` and its table stay together. `EveryoneIsRead`: while
connections stay, a player with a packet waits no longer than one round of the others. A
deletion starts the count again: `Delete_Connection` may set `CurConnection` back to 0
(`Wrapped`), and a player read before it may be read again before one who waits. That he is
read in the end, deletions or not, is the live part of `Mailbox` (`ImplementsMailbox`). `FramesAreTheirs`:
`their_frame[i]` is the latest frame read of the player of connection i. It is
excused once a connection was deleted outside the lockstep: then it is false,
which is a hazard of the code and not a promise of its comments.

Bounds: two other players, whose ids are ordered the other way round than
their places in the list; queues of two; two packets each, the last of which
carries the EXIT. Deadlock is not checked: a session ends. Fairness: the dialog
does create the connections in the end (`[]<>begun`; nothing prevents it), and
`Service` and `Get` go on, as the loop of `Wait_For_Players` calls them; nobody
is forced to send, leave or be removed.

Left out: global and control messages (they are the dialogs'), `Return_To_Lobby`,
the virtual subnet server, a second session. That the host's GO reaches
every player before his packets do is taken from the server's order of frames.

### Proofs (`NetGameProofs`)

For any number of players, packets, slots and queue entries, and whichever manager
the game has: `TypesFit`, `PacketsWaitWhereRead`, `NobodyIsOverheard`, `FramesBelong`
and `NothingLostWithoutCause` prove `TypeOK`, `WaitsWhereRead`, `EveryoneIsRead`,
`FramesAreTheirs` and `LostWithCause`. The invariant is `Inv`, that is `Managed` and
`Frames`. Of the manager the game has, `Managed` says `WInv` or `UInv`, of the other that it is idle
(`WIdle`, `UIdle`); what the two have in common is `Shared` and `HeardInOrder`.

`WInv`: `WSlots` (a slot in use has one player's client id together with his id, no
player has two), `WWaits` (`WaitsWhereRead`), `WOrder` (the numbers of a player's
packets rise along what was read, `private`, `pending` and `wire`, in this order) and
`WKept` (what is neither read nor waiting is excused). They hold only together: a
packet is put behind the others of its player because `WWaits` says that these are in the
same queue, and that it is read as his takes `WSlots`. The queues are filtered
by `Only`, a recursive function; that it exists, keeps the order and keeps just what it
should are lemmas on it (`Only...`), and so is that a loop of `Create_Connection_By_Cid`
over the dialog's list gives each player one slot (`Filled`).

`UInv`: `UOrder` and `UKept` as above, and `UTurns`: a player whose packet waits has been
passed over at most as often as there are connections between him and `CurConnection`,
counted round the ring (`Before`). So `EveryoneIsRead` holds between two deletions: every reading of another
moves `CurConnection` nearer to him and never past him.

`Frames` is `FramesAreTheirs` for the indices in use. That `Shifted` moves each frame to
where its connection went takes that both managers delete one entry of the list of ids and keep
the order of the rest (`IdsDelete`).

`KeepsThePromise` proves the safety part of `Mailbox`, `Spec => Promise!Safety`: each
step of `NetGame`, over either manager, is a step of `Mailbox` or a stutter. Of a player,
lost is what is neither read nor awaited (`LostAre`), so every step is put into one of three
kinds. A packet that is said becomes the last one awaited (`AddsOne`, `USayAdds`; after his connection
is gone, it is lost at once): a step of `Say`. A packet that is read is the first one
awaited, and nothing else changes (`TakesOne`, `UTakesOne`, by `WOrder` and `UOrder`): a step of `Hear`. After
any other step, from a relayed packet that finds its queue full to the end of the session,
no more is awaited than before, and a player whose connection is gone does not come back
(`NoneMore`, `UNoneMore`): a step of `Lose`, which also says that what was lost stays lost.
That every packet which is not lost is read in the end is liveness and stays with TLC (`ImplementsMailbox`).

Assumptions: those `NetGame` makes of its constants; that the dialog lists every
player once (`PlayersListed`) is what NETDLG.CPP:2912 and :4430 see to.

## 6. Hub: the lobby and relay server

One thread and one poll loop. `Poll` takes the state of all sockets and
accepts new connections; then each slot has its turn: any number of frames
(`Http`, `Hello`, `ChannelJoin`, `GameCreate`, ...), then `Finish`, which is
the rest of the body of the loop: end of file, flush, hang-up, discard,
`removeConn`; or `Pass`, when poll reported nothing. A connection and its
client id are one value. A queue of outgoing frames is its length. What the frames say of the
players of a game is read, when they are queued, as `Drain_Wol_Lobby_Control` and
`Wol_Reconcile_Game_Members` read it (NETDLG.CPP:2584-2753), and kept in `roster`: a
GAME_MEMBERS adds those who are not yet in `Players`, the reader left out, drops the host's
id and takes nobody away; only PEER_LEFT does (`Reading`).

`SeatsAgree`: member lists and the fields of the connections agree after every
handler. `HostFirst`: GAME_STARTED sends the members as the seating order, host
first; `swapRemove` changes that order. `RosterIsRight`: for a
client in a game, all that was queued for it adds up to the other members of that game, unless a
frame was refused, which closes it. Since lists only add, this takes a PEER_LEFT for
everybody who goes, on request or by `removeConn`: without
it (the mutant) the dialog would keep a player who is gone and the game would wait for him.
`SeatsAreFreed`:
a client that vanished loses its seats. `ImplementsRooms`: every step is a step of
`Rooms`, which has no loop, frames or connections: who sits where, who hosts,
which games have begun.

The reading is that of a dialog which has its own game selected and has cleared
`Players` on its way in. A dialog that has another game selected ignores the list, and one that clears
`Players` later (NETDLG.CPP:1775) begins anew: from these frames it has nobody whom
`roster` lacks. Not modelled are the additions by the packets of the dialogs themselves (NET_ANSWER_PLAYER,
NET_QUERY_JOIN, NET_CONFIRM_JOIN), the lists that CHANNEL_JOINED, USER_JOIN and USER_LEAVE bring
to a dialog without a game, and two players of one nickname.

Bounds: three clients, two of whom have said hello at the start; six frames
that move somebody, one other; one channel; a queue of two frames before it is
full (8 MiB in the code); one game at a time, for two players or any number.
Only one client (`Unruly`) talks, closes, reads late and vanishes: the others'
queues are emptied in their turn. Clients stop when the bounds are reached, so
deadlock is not checked. Fairness: the loop goes on, and a turn ends
(`handleReadable` reads until the socket is empty, so a client that never
stops sending would prevent that).

A peer that is gone is seen at poll, between two rounds. A new connection may
take a free slot before others, and the results of this round's poll are then
read one place off (`Poll` keeps both arrays, as the code does): a newcomer may
be closed for the hang-up of another. That fails as soon as two clients can
vanish; no property states it.

### Proofs (`HubProofs`)

`IInv` has four parts: `Fields` (types of a connection's fields), `Seated` (each
game's members are, once each, the clients that name it; the host is the first;
ids are handed out once), `Housed` (the same for channels) and `Present` (only an
open connection has a seat). `SeatsAgree` is not inductive alone: that a client
without a game is in no list when it joins one, and that a new id is in no
connection, takes `Seated`; `removeConn` is right only if `Present` says that the
others stay. Every handler that takes a seat away goes through `GamesWithout` or
`ChannelsWithout`, so the lemmas on these two, and on `SwapRemove`, carry
most of it. From `IInv` follow `TypeCorrect`, `SeatsAlwaysAgree`, `HostSitsFirst` and
`ServerImplementsRooms`, which maps each action to a step of `Rooms` or a stutter.

`RostersAreRight` proves `RosterIsRight`. What a client has after its frames is
a recursive function of them, so its existence, and that it takes the frames one
after the other (`Course`), come first. The invariant `Truth` adds to `IInv` that a client that
is in no game has no players and one that is not to be closed has the others of
its own (`Aware`). One lemma for each handler: what it changes in the games and
what it sends to whom come to the same. Two cases carry it. Who leaves is taken away by PEER_LEFT before
the list of the rest is read, which then adds nobody; and only who is in no game may enter
one, so that his roster begins empty and the list that follows fills it.
Assumptions: those `Hub` makes of its constants. `SeatsAreFreed` is
model-checked only.

## 7. Production: factories and money

One house, one factory per kind of object (`BuildingFactory`, `UnitFactory`, ...),
money as `Credits` and stored `Tiberium`. Actions: `BeginProduction` (including
a creation that fails), `SuspendProduction`, `AbandonProduction`,
`PlaceObject`, `Installment` (the body of the loop of `FactoryClass::AI` when the stage
timer runs out and the money is there; without the money the stage is set back,
no change), and what moves the money meanwhile: `Harvest`, `AdjustCapacity`,
`Repair`, `Sell`. `paid`, `received` and `gone` are history variables.

`PaidExactly` is the promise of FACTORY.H:117: instalments are
`Balance / steps left`, rounded down, and the last takes the rest, so the total
is exact; with it the refund of `Abandon` (price minus balance) is what was
paid. `BooksBalance`: money is neither made nor lost over all factories.
`StorageRespected`: Tiberium never exceeds the silos. `ProductionMoves`: a
factory that can pay does not stand still, instalments of 0 included
(fairness: `FactoryClass::AI` runs every frame).

Bounds: two factories, prices 5 and 1 in three instalments (remainders, and
instalments of 0), six credits in all, so that most instalments are refused
somewhere.

`ProductionProofs` proves `TypeOK`, `PaidExactly` and `StorageRespected` for
every price list, number of instalments, set of factories and amount of money.
The three are inductive only together: a refund is non-negative because of
`PaidExactly`, a harvest is because Tiberium fits. The arithmetic rests on one lemma,
`DueBounded`: an instalment is between 0 and the balance, and is the balance at the last stage.

`NoMoneyIsLost` proves `BooksBalance`, for any finite number of factories. `Totals` has what
it needs of a sum over a finite set, which `FoldFunction` computes in an order of its own
choice: the sum is a number (`TotalType`), it changes by what one value
changes (`TotalChanged`), and it does not grow when no value does (`TotalShrinks`).
The library's induction theorems cannot be instantiated here; induction
is done on a set of numbers instead (`Induction`, `SetInduction`), and the recursive function inside
the fold is shown to exist that way (`TallyExists`). An abandoned item's refund
balances the books because of `PaidExactly`. `ProductionMoves` stays with TLC.

Integers are unbounded here: sums of money stay far below 2^31.

## 8. Docking: harvesters and refineries

Harvesters and refineries of one house. An object has a mission, a queued one
and a status of its mission handler; the AI of each runs every frame. Messages
are calls, so that what a message sets off is part of the action that sends it:
`Docks` is `Mission_Enter` with the refinery's answer to RADIO_DOCKING,
`ImIn` the end of the way in with its answer to RADIO_IM_IN, `LetOut` the
undocking with `Exit_Object`; a refinery for sale tells the harvester on its way to move
off (`WarnOff`), once when it begins and again while it waits for a tether (`Hold`). The map is a set of places: the field, the
road, the pad of a refinery (and there, aligned), the two forced tracks, limbo.
How long a way takes is open. `Drive` may bring a unit all the way before a
queued mission is commenced, since DRIVE.CPP:1170 starts the next way first.

What comes between, at most `MaxTrouble` times: an order to move, stop, harvest
or enter, or a sale, tested when the player clicks (`Click`) and carried out
after the lockstep (`Execute`); the computer's sale; a hit that sends a loaded
harvester home; a way without a path; the death of a harvester or a refinery.

`ContactIsMutual`, `OneInside`, `LeavesEmpty`, `NobodyForgotten`; undisturbed,
`TiberiumComesHome`; in any case `RefineryComesFree`. `NobodyForgotten` says of every harvester in
limbo that some refinery holds it which is at work on it or will be.

The code has three situations in which these fail. They are written into the properties, each as
narrow as the code allows, so no property covers them:

* a harvester with an order to enter drives in on top of another (`crowded`,
  FOOT.CPP:1546): `OneInside`, `LeavesEmpty` and `NobodyForgotten` excuse that refinery;
* a refinery is sold with a harvester in it (`sold`, BUILDING.CPP:3345), which goes with it, or is
  never let out: `NobodyForgotten` excuses the harvester this refinery holds and no
  other, `RefineryComesFree` this refinery;
* a harvester that was ordered off the pad while it was turning keeps its tether and stands on
  guard when it finds no Tiberium (`Stranded`, DRIVE.CPP:1170): `RefineryComesFree`.

Bounds: two harvesters that carry two bails each, one refinery, three bails (a full load
and a rest), one trouble; a house of a player and one of the computer. Two
troubles, and two refineries, were checked for safety alone (3.6
million states each). Deadlock is not checked: when the field is empty the
harvesters may stand still.

Fairness: weak for the mission handlers, which every AI calls; strong for
`Drive`, since a unit that waits for a place tries again in every frame and takes
it when it is free long enough. Left out: GUARD_AREA and patrol orders, capture and teams.
A refinery that is destroyed goes at once (`RefineryDies`): the code keeps it with no strength
for 8 frames (`CountDown`, BUILDING.CPP:1466), in which its contact is over and it answers neither HELLO
nor CAN_LOAD; all that could happen in them is that a harvester comes nearer to what is no more.

### Proofs (`DockingProofs`)

`ContactIsMutual`, `OneInside`, `LeavesEmpty` and `NobodyForgotten` for any number of
harvesters, refineries, loads and troubles. Lemmas on `OverOut`, `Hello`, `Tethered`
and `Unloaded` show that each message keeps a contact `Sound` (mutual, between a
harvester and a refinery, tied on both sides or none, among those that live).
The rest is inductive only together: that a refinery has one inside needs that
one in contact is empty (`Single`); that it leaves empty needs the door's own rule
(`Emptied`) and that mission and status of a refinery fit together; that an
empty refinery never works, so never opens for nobody (`Busy`), and that nobody is in
two holds (`Held`), is what lets the dead and the sold be taken out one by one. `Orders` says
that what is on its way through the lockstep was once clicked.

`NoBailTwice` and `TypesAlwaysOK` follow the bails: those left in the field, on board of all
harvesters and paid for are never more than there were (`Bails`), since a dig and
an unloading move one from one place to the next and a loss takes some away
(the sum over the harvesters is that of `Totals`). `TypeOK`'s bound on what
is paid has no proof without it.

## 9. Findings

* `conn_wedge`: the reserved slot of the receive queue does not prevent the
  wedge it was made for when the sender may run ahead of the reader by more
  than the queue holds: the packet that takes the last slot stays queued as `LastSeqID`
  (NOSEQCON.CPP:345 and :657). The lockstep makes it hard to reach in play.
* `step_exit`: when a player quits, commands of the next player in the list
  that are due in the same frame can be skipped, and the survivor's game stops in the next
  one (QUEUE.CPP:2984, :2875, :2920).
* `step_wrap`: after 65536 commands of one player `their_recv` starts again from 0 while
  `their_sent` keeps its maximum, and `Can_Advance` fails although everything has come (QUEUE.CPP:1633): the game
  is held up until the wait times out and drops the player.
* `step_dolist`: `Send_Packets` does not return when OutList does not fit in the
  DoList (QUEUE.CPP:1460).

## 10. Limits

Not modelled, and why, per component: see `components` in `PROJECT.json`.
In the modelled parts: packet contents and compression, CRC comparison, recording
and playback, response-time statistics, the OPTIONS dialog, the protocols with
one packet per frame, and power, build time and special weapons of production.

Hazards seen on the way, in code that is not modelled or for which no property
stands: packets carry no number of the session, so those of an old connection
may pass for the new one's (UDPMGR.CPP:409); the global channel does not know
a repeated message and acknowledges what its queue refused (UDPGCONN.CPP:180);
the 8-bit Delay of a FRAMEINFO (EVENT.H:180); an empty factory is left behind when
the heap is full (HOUSE.CPP:2069) and CreditsSpent misses what Tiberium
paid (HOUSE.CPP:1480); `Create_Connection_By_Cid` may take a free slot before
the one that has its client (WSMGR.CPP:357); a host's sign-off leaves the joiner
seated for the server (NETDLG.CPP:3083) and a game that is gone from the list shifts the
numbers of the others (NETDLG.CPP:1861); IM_IN's harvest mission replaces a
queued sale (BUILDING.CPP:266); a harvester is lost when `Exit_Object` finds
no room (BUILDING.CPP:3961); precedence in what a bail is worth
(DRIVE.CPP:1491).

In code that is modelled, these remain hazards: the properties excuse them, for the code
does not prevent them, or do not see them. A sign-off read by `Call_Back` and a PEER_LEFT in the middle of a game
leave `their_frame` shifted, and the latter takes unread packets with it (`SignOff`, `WolPeerLeft`);
survivors of a timeout may disagree; that a lost FRAMEINFO is made good by the
retry is assumed; a newcomer's slot shifts the server's poll results; and the three
situations of section 8 (`crowded`, `sold`, `Stranded`). In `PROJECT.json` they are the hazards
without a property, each with its reason.

Checked but not proved: all liveness (out of the provers' reach), with the fair part of
`ReliableChannel` and `Mailbox`; the lockstep with several changes of MaxAhead.
