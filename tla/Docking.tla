------------------------------- MODULE Docking -------------------------------
(***************************************************************************)
(* Harvesters and refineries of one house (CODE/RADIO.CPP, and the mission *)
(* and message handlers of UNIT.CPP, FOOT.CPP, TECHNO.CPP and              *)
(* BUILDING.CPP): how a harvester digs, finds a refinery, keeps in radio   *)
(* contact with it, backs in, is emptied and let out again.                *)
(*                                                                         *)
(* An object's AI runs its mission handler now and then; messages are      *)
(* calls.  The map is reduced to the places that matter here; how long a   *)
(* way takes, and what blocks it, is left open.                            *)
(***************************************************************************)
EXTENDS Naturals, Sequences, FiniteSets, SequencesExt

CONSTANTS
    Harvester, Refinery,
    NoOne,
    Human,        \* of BOOLEAN: who may own the house
    FullLoad,     \* STEP_COUNT of UnitTypeClass: bails a harvester carries
    Tiberium,     \* bound: bails in the field
    MaxTrouble    \* bound: orders, sales, hits and blocked ways

ASSUME DockingAssumption ==
    /\ Harvester \cap Refinery = {} /\ NoOne \notin Harvester \cup Refinery
    /\ IsFiniteSet(Harvester) /\ IsFiniteSet(Refinery)
    /\ Human \subseteq BOOLEAN
    /\ FullLoad \in Nat \ {0} /\ Tiberium \in Nat /\ MaxTrouble \in Nat

VARIABLES
    human,      \* House->IsHuman
    radio,      \* Radio: with whom the object is in contact
    tether,     \* IsTethered
    mission,    \* Mission; "gone" for an object that is no more
    queue,      \* MissionQueue
    status,     \* Status, the handler's own state
    pos, nav,   \* where the harvester is; NavCom
    load,       \* Tiberium: bails on board
    archive,    \* ArchiveTarget is the cell in the field
    inside,     \* CargoHold of a refinery
    ready,      \* IsReadyToCommence
    field,      \* bails left in the field
    paid,       \* bails the house has been paid for
    events,     \* events on their way through the lockstep
    trouble,    \* history: how much has come between
    sold,       \* history: refineries that began to be sold
    crowded     \* history: refineries entered on an order while one was inside

radioVars == <<radio, tether>>
missionVars == <<mission, queue, status>>
wayVars == <<pos, nav, archive>>
goods == <<load, field, paid>>
world == <<human, events, trouble, sold, crowded>>
vars == <<radioVars, missionVars, wayVars, goods, inside, ready, world>>

Object == Harvester \cup Refinery

(* Places, as pairs of a kind and a refinery. *)
Nowhere == <<"none", NoOne>>
InField == <<"field", NoOne>>
OnRoad  == <<"road", NoOne>>
Limbo   == <<"limbo", NoOne>>
Dock(r) == <<"dock", r>>     \* the pad to its southwest
Aligned(r) == <<"aligned", r>> \* there, back to the refinery
Backing(r) == <<"backing", r>> \* on the track BACKUP_INTO_REFINERY
Leaving(r) == <<"leaving", r>> \* on the track OUT_OF_REFINERY
Bay(r)  == <<"bay", r>>      \* the refinery itself, as a destination

OnTrack(h) == pos[h][1] \in {"backing", "leaving"}
OnMap(h) == mission[h] # "gone" /\ pos[h] # Limbo
Stands(r) == mission[r] # "gone"

(***************************************************************************)
(* Radio contact.  A contact is [radio, tether].                           *)
(***************************************************************************)
Contact == [radio |-> radio, tether |-> tether]

\* RADIO_TETHER and RADIO_UNTETHER to y, which x transmits and y answers alike.
Tethered(t, x, y) == IF t[y] THEN t ELSE [t EXCEPT ![x] = TRUE, ![y] = TRUE]
Untethered(t, x, y) == IF t[y] THEN [t EXCEPT ![x] = FALSE, ![y] = FALSE] ELSE t

\* RADIO_OVER_OUT to whom x is in contact with; he unties x first.
OverOut_OneSided(c, x) ==
    IF c.radio[x] = NoOne THEN c
    ELSE [radio |-> [c.radio EXCEPT ![x] = NoOne],
          tether |-> Untethered(c.tether, c.radio[x], x)]
OverOut(c, x) ==
    LET y == c.radio[x] IN
    IF y = NoOne THEN c
    ELSE [radio  |-> [o \in Object |-> IF o = x \/ (o = y /\ c.radio[y] = x) THEN NoOne
                                       ELSE c.radio[o]],
          tether |-> Untethered(c.tether, y, x)]

\* RADIO_HELLO: any other contact of x ends; y accepts unless it has another.
Accepts(c, x, y) == mission[y] # "gone" /\ c.radio[y] \in {x, NoOne}
Hello(c, x, y) ==
    LET c1 == OverOut(c, x) IN
    IF Accepts(c1, x, y) THEN [c1 EXCEPT !.radio[x] = y, !.radio[y] = x] ELSE c1
Answered(c, x, y) == Accepts(OverOut(c, x), x, y)

\* RADIO_UNLOADED to r, who unties h and says OVER_OUT.
Unloaded_StillTalking(c, r, h) == [c EXCEPT !.tether = Untethered(@, r, h)]
Unloaded(c, r, h) == OverOut([c EXCEPT !.tether = Untethered(@, r, h)], r)

Say(c) == radio' = c.radio /\ tether' = c.tether

\* RADIO_CAN_LOAD; in_init stands for ScenarioInit, which overlooks who is there.
Demolished(r) == mission[r] = "sell" /\ status[r] = "during"
CanLoad_IfSilent(r) == Stands(r) /\ ~Demolished(r) /\ radio[r] = NoOne
CanLoad(r) == Stands(r) /\ ~Demolished(r) /\ radio[r] = NoOne /\ inside[r] = << >>
CouldLoad(r) == Stands(r) /\ ~Demolished(r)

(***************************************************************************)
(* Missions.                                                               *)
(***************************************************************************)
\* Assign_Mission
Assign(q, o, m) == IF mission[o] = m THEN q ELSE [q EXCEPT ![o] = m]

\* Commence, for a unit when it is not on a track.
Commence(h) ==
    /\ OnMap(h) /\ ~OnTrack(h) /\ queue[h] # "none"
    /\ mission' = [mission EXCEPT ![h] = queue[h]]
    /\ queue' = [queue EXCEPT ![h] = "none"]
    /\ status' = [status EXCEPT ![h] = "looking"]
    /\ UNCHANGED <<radioVars, wayVars, goods, inside, ready, world>>

EnterIdle_KeepsContact(c, n, h) ==
    /\ Say(c)
    /\ IF c.radio[h] = NoOne /\ mission[h] # "harvest"
       THEN /\ queue' = Assign(queue, h, IF ~human \/ (pos[h] = InField /\ field > 0)
                                         THEN "harvest" ELSE "guard")
            /\ nav' = [n EXCEPT ![h] = Nowhere]
       ELSE nav' = n /\ UNCHANGED queue

\* UnitClass::Enter_Idle_Mode, with contact c and NavCom n.
EnterIdle(c, n, h) ==
    LET c1 == IF mission[h] = "move" /\ n[h] = Nowhere THEN OverOut(c, h) ELSE c IN
    /\ Say(c1)
    /\ IF c1.radio[h] = NoOne /\ mission[h] # "harvest"
       THEN /\ queue' = Assign(queue, h, IF ~human \/ (pos[h] = InField /\ field > 0)
                                         THEN "harvest" ELSE "guard")
            /\ nav' = [n EXCEPT ![h] = Nowhere]
       ELSE nav' = n /\ UNCHANGED queue

(***************************************************************************)
(* Mission_Harvest of a harvester.                                         *)
(***************************************************************************)
OnTiberium(h) == pos[h] = InField /\ field > 0

\* Goto_Tiberium finds a way to the field, if there is any Tiberium.
Sought(h) == IF nav[h] = Nowhere /\ ~OnTiberium(h) /\ field > 0
             THEN [nav EXCEPT ![h] = InField] ELSE nav

Look(h) ==
    /\ status[h] = "looking"
    /\ IF nav[h] = Nowhere /\ OnTiberium(h)
       THEN status' = [status EXCEPT ![h] = "harvesting"] /\ UNCHANGED nav
       ELSE /\ nav' = Sought(h)
            /\ status' = IF nav'[h] = Nowhere THEN [status EXCEPT ![h] = "idle"] ELSE status
    /\ UNCHANGED <<radioVars, mission, queue, pos, archive, goods>>

Dig_Overfills(h) ==
    /\ status[h] = "harvesting"
    /\ nav[h] = Nowhere /\ OnTiberium(h)
    /\ load' = [load EXCEPT ![h] = @ + 1]
    /\ field' = field - 1
    /\ UNCHANGED <<radioVars, missionVars, wayVars, paid>>

\* Harvesting reports TRUE while it digs or is still under way.
Dig(h) ==
    /\ status[h] = "harvesting"
    /\ nav[h] = Nowhere /\ load[h] < FullLoad /\ OnTiberium(h)
    /\ load' = [load EXCEPT ![h] = @ + 1]
    /\ field' = field - 1
    /\ UNCHANGED <<radioVars, missionVars, wayVars, paid>>

StopDigging(h) ==
    /\ status[h] = "harvesting"
    /\ nav[h] = Nowhere /\ ~(load[h] < FullLoad /\ OnTiberium(h))
    /\ IF load[h] = FullLoad
       THEN /\ status' = [status EXCEPT ![h] = "findhome"]
            /\ archive' = [archive EXCEPT ![h] = TRUE]
            /\ UNCHANGED nav
       ELSE /\ nav' = Sought(h)
            /\ IF nav'[h] = Nowhere
               THEN /\ status' = [status EXCEPT ![h] = "findhome"]
                    /\ archive' = [archive EXCEPT ![h] = FALSE]
               ELSE UNCHANGED <<status, archive>>
    /\ UNCHANGED <<radioVars, mission, queue, pos, goods>>

\* Find_Docking_Bay may name any refinery that could be the nearest.
FindHome(h) ==
    /\ status[h] = "findhome"
    /\ nav[h] = Nowhere
    /\ \/ \E r \in Refinery :
             /\ CanLoad(r)
             /\ Say(Hello(Contact, h, r))
             /\ status' = [status EXCEPT ![h] = "heading"]
             /\ UNCHANGED nav
       \/ /\ \A r \in Refinery : ~CanLoad(r)
          /\ \E r \in Refinery : CouldLoad(r)
          /\ nav' = [nav EXCEPT ![h] = OnRoad]
          /\ UNCHANGED <<radioVars, status>>
    /\ UNCHANGED <<mission, queue, pos, archive, goods>>

HeadHome(h) ==
    /\ status[h] = "heading"
    /\ queue' = Assign(queue, h, "enter")
    /\ UNCHANGED <<radioVars, mission, status, wayVars, goods>>

GoIdle(h) ==
    /\ status[h] = "idle"
    /\ queue' = Assign(queue, h, "guard")
    /\ UNCHANGED <<radioVars, mission, status, wayVars, goods>>

MissionHarvest(h) ==
    /\ OnMap(h) /\ mission[h] = "harvest"
    /\ \/ Look(h) \/ Dig(h) \/ StopDigging(h)
       \/ FindHome(h) \/ HeadHome(h) \/ GoIdle(h)
    /\ UNCHANGED <<inside, ready, world>>

(***************************************************************************)
(* Mission_Enter, Mission_Move and Mission_Guard of a harvester.           *)
(***************************************************************************)
\* Without contact: say hello to the refinery it was sent to.
SeekContact(h) ==
    LET r == IF nav[h][1] = "bay" THEN nav[h][2] ELSE NoOne
        c == IF r = NoOne THEN Contact ELSE Hello(Contact, h, r)
    IN
    /\ radio[h] = NoOne
    /\ IF r # NoOne /\ Answered(Contact, h, r)
       THEN /\ Say(c)
            /\ nav' = [nav EXCEPT ![h] = Nowhere]
            /\ crowded' = IF inside[r] # << >> THEN crowded \cup {r} ELSE crowded
            /\ UNCHANGED <<queue, archive>>
       ELSE /\ archive' = [archive EXCEPT ![h] = FALSE]
            /\ EnterIdle(c, nav, h)
            /\ UNCHANGED crowded
    /\ UNCHANGED pos

\* In contact: RADIO_DOCKING.  The refinery asks whether it stands, sends it
\* to the pad and, once it is there, has it turn, unless it faces the right
\* way already, and back up.
Docks(h) ==
    LET r == radio[h] IN
    /\ r # NoOne
    /\ IF nav[h] # Nowhere THEN UNCHANGED <<pos, nav, radioVars>>
       ELSE IF pos[h] \in {Dock(r), Aligned(r)}
       THEN /\ Say([Contact EXCEPT !.tether = Tethered(tether, r, h)])
            /\ \/ pos' = [pos EXCEPT ![h] = Backing(r)]
               \/ pos[h] = Dock(r) /\ pos' = [pos EXCEPT ![h] = Aligned(r)]
            /\ UNCHANGED nav
       ELSE /\ nav' = [nav EXCEPT ![h] = Dock(r)]
            /\ UNCHANGED <<pos, radioVars>>
    /\ UNCHANGED <<queue, archive, crowded>>

MissionEnter(h) ==
    /\ OnMap(h) /\ mission[h] = "enter"
    /\ SeekContact(h) \/ Docks(h)
    /\ UNCHANGED <<mission, status, goods, inside, ready, human, events, trouble, sold>>

MissionMove(h) ==
    /\ OnMap(h) /\ mission[h] = "move"
    /\ nav[h] = Nowhere /\ queue[h] = "none" /\ ~OnTrack(h)
    /\ EnterIdle(Contact, nav, h)
    /\ UNCHANGED <<mission, status, pos, archive, goods, inside, ready, world>>

MissionGuard(h) ==
    /\ OnMap(h) /\ mission[h] = "guard"
    /\ ~human
    /\ queue' = Assign(queue, h, "harvest")
    /\ UNCHANGED <<radioVars, mission, status, wayVars, goods, inside, ready, world>>

(***************************************************************************)
(* The way: Start_Of_Move and Per_Cell_Process.                            *)
(***************************************************************************)
\* In the middle of a cell a tethered unit that is not entering is let go;
\* a harvester then returns to where it dug.
PerCell(h, p) ==
    LET n == IF nav[h] = p THEN [nav EXCEPT ![h] = Nowhere] ELSE nav
        letgo == tether[h] /\ mission[h] # "enter"
    IN
    /\ pos' = [pos EXCEPT ![h] = p]
    /\ Say(IF letgo THEN Unloaded(Contact, radio[h], h) ELSE Contact)
    /\ IF letgo /\ archive[h]
       THEN /\ queue' = Assign(queue, h, "harvest")
            /\ nav' = [nav EXCEPT ![h] = InField]
            /\ archive' = [archive EXCEPT ![h] = FALSE]
       ELSE /\ nav' = IF letgo /\ nav[h] = Nowhere THEN [nav EXCEPT ![h] = OnRoad] ELSE n
            /\ UNCHANGED <<queue, archive>>

ImIn_Unannounced(h, r) ==
    /\ Say(OverOut(Contact, h))
    /\ pos' = [pos EXCEPT ![h] = Limbo]
    /\ inside' = [inside EXCEPT ![r] = <<h>> \o @]
    /\ UNCHANGED <<nav, queue>>

\* RADIO_IM_IN: a refinery that is being sold refuses and the harvester
\* scatters, if it can and does not prefer to go where it was going; another
\* one takes it in.
ImIn(h, r) ==
    IF mission[r] = "sell"
    THEN /\ pos' = [pos EXCEPT ![h] = OnRoad]
         /\ \E n \in {nav[h], OnRoad} : nav' = [nav EXCEPT ![h] = n]
         /\ UNCHANGED <<radioVars, queue, inside>>
    ELSE /\ queue' = Assign(queue, r, "harvest")
         /\ Say(OverOut(Contact, h))
         /\ pos' = [pos EXCEPT ![h] = Limbo]
         /\ inside' = [inside EXCEPT ![r] = <<h>> \o @]
         /\ UNCHANGED nav

OnPad(h, r) == pos[h] \in {Dock(r), Aligned(r)}
Free(p, h) == \A r \in Refinery, g \in Harvester \ {h} : p = Dock(r) => ~OnPad(g, r)

Entering(h, r) == tether[h] /\ radio[h] = r /\ mission[h] = "enter"

\* A cell on the way, or the destination.
Drive(h) ==
    /\ OnMap(h) /\ ~OnTrack(h) /\ nav[h] # Nowhere
    /\ \/ /\ pos[h] # OnRoad
          /\ PerCell(h, OnRoad)
          /\ UNCHANGED inside
       \/ /\ nav[h][1] # "bay" /\ Free(nav[h], h)
          /\ PerCell(h, nav[h])
          /\ UNCHANGED inside
       \/ \E r \in Refinery : /\ nav[h] = Bay(r) /\ Entering(h, r)
                              /\ ImIn(h, r)
                              /\ UNCHANGED archive
    /\ UNCHANGED <<mission, status, goods, ready, world>>

\* Who stands in the way on the pad is told to scatter.
Scattered(n, r) == [h \in Harvester |-> IF OnPad(h, r) /\ n[h] = Nowhere THEN OnRoad ELSE n[h]]
MakeWay(h) ==
    /\ OnMap(h) /\ ~OnTrack(h)
    /\ \E r \in Refinery : nav[h] = Dock(r) /\ ~Free(nav[h], h) /\ nav' = Scattered(nav, r)
    /\ UNCHANGED <<radioVars, missionVars, pos, archive, goods, inside, ready, world>>

\* The turn on the pad ends.
Turned(h) ==
    /\ OnMap(h) /\ pos[h][1] = "aligned"
    /\ tether[h] /\ mission[h] # "enter"
    /\ PerCell(h, Dock(pos[h][2]))
    /\ UNCHANGED <<mission, status, goods, inside, ready, world>>

\* A track that the refinery forced ends.
EndTrack(h) ==
    /\ OnMap(h)
    /\ \E r \in Refinery :
          \/ /\ pos[h] = Backing(r)
             /\ IF Entering(h, r) THEN ImIn(h, r) /\ UNCHANGED archive
                ELSE PerCell(h, OnRoad) /\ UNCHANGED inside
          \/ pos[h] = Leaving(r) /\ PerCell(h, Dock(r)) /\ UNCHANGED inside
    /\ UNCHANGED <<mission, status, goods, ready, world>>

(***************************************************************************)
(* A refinery.  What needs IsReadyToCommence waits for the animation, and  *)
(* a queued mission comes first.                                           *)
(***************************************************************************)
Animate(r) ==
    /\ Stands(r) /\ ~ready[r]
    /\ ready' = [ready EXCEPT ![r] = TRUE]
    /\ UNCHANGED <<radioVars, missionVars, wayVars, goods, inside, world>>

CommenceBuilding_KeepsStatus(r) ==
    /\ Stands(r) /\ ready[r] /\ queue[r] # "none"
    /\ mission' = [mission EXCEPT ![r] = queue[r]]
    /\ queue' = [queue EXCEPT ![r] = "none"]
    /\ ready' = [ready EXCEPT ![r] = FALSE]
    /\ sold' = IF queue[r] = "sell" THEN sold \cup {r} ELSE sold
    /\ UNCHANGED <<radioVars, status, wayVars, goods, inside, human, events, trouble, crowded>>
CommenceBuilding(r) ==
    /\ Stands(r) /\ ready[r] /\ queue[r] # "none"
    /\ mission' = [mission EXCEPT ![r] = queue[r]]
    /\ queue' = [queue EXCEPT ![r] = "none"]
    /\ status' = [status EXCEPT ![r] = "initial"]
    /\ ready' = [ready EXCEPT ![r] = FALSE]
    /\ sold' = IF queue[r] = "sell" THEN sold \cup {r} ELSE sold
    /\ UNCHANGED <<radioVars, wayVars, goods, inside, human, events, trouble, crowded>>

Steps(r, m, s) == Stands(r) /\ mission[r] = m /\ status[r] = s /\ ~(ready[r] /\ queue[r] # "none")

Expect(r) ==
    /\ Steps(r, "harvest", "initial")
    /\ status' = [status EXCEPT ![r] = "wait_dock"]
    /\ UNCHANGED <<radioVars, mission, queue, wayVars, goods, inside, ready, world>>

Docked(r) ==
    /\ Steps(r, "harvest", "wait_dock") /\ ready[r]
    /\ status' = [status EXCEPT ![r] = "middle"]
    /\ ready' = [ready EXCEPT ![r] = FALSE]
    /\ UNCHANGED <<radioVars, mission, queue, wayVars, goods, inside, world>>

\* One bail; the last one, or none at all, ends it.
Offload(r) ==
    LET h == Head(inside[r])
        bail == inside[r] # << >> /\ load[h] > 0
    IN
    /\ Steps(r, "harvest", "middle") /\ ready[r]
    /\ ready' = [ready EXCEPT ![r] = FALSE]
    /\ nav' = Scattered(nav, r)
    /\ IF bail THEN load' = [load EXCEPT ![h] = @ - 1] /\ paid' = paid + 1
       ELSE UNCHANGED <<load, paid>>
    /\ status' = IF bail /\ load[h] > 1 THEN status ELSE [status EXCEPT ![r] = "wait_undock"]
    /\ UNCHANGED <<radioVars, mission, queue, pos, archive, field, inside, world>>

\* Exit_Object(Detach_Object()) and the guard mission, which is commenced at once.
LetOut(r) ==
    /\ Steps(r, "harvest", "wait_undock") /\ ready[r]
    /\ IF inside[r] = << >> THEN UNCHANGED <<radioVars, pos, nav, inside>>
                                 /\ mission' = [mission EXCEPT ![r] = "guard"]
                                 /\ queue' = [queue EXCEPT ![r] = "none"]
                                 /\ UNCHANGED status
       ELSE LET h == Head(inside[r])
                c == Hello(Contact, r, h)
            IN
            /\ Say(IF c.radio[r] = h THEN [c EXCEPT !.tether = Tethered(@, r, h)] ELSE c)
            /\ pos' = [pos EXCEPT ![h] = Leaving(r)]
            /\ nav' = [nav EXCEPT ![h] = Nowhere]
            /\ inside' = [inside EXCEPT ![r] = Tail(@)]
            /\ mission' = [mission EXCEPT ![r] = "guard", ![h] = "harvest"]
            /\ queue' = [queue EXCEPT ![r] = "none", ![h] = "none"]
            /\ status' = [status EXCEPT ![h] = "looking"]
    /\ ready' = [ready EXCEPT ![r] = FALSE]
    /\ UNCHANGED <<archive, goods, world>>

\* Mission_Deconstruction.  RADIO_RUN_AWAY goes out at first and again for as
\* long as somebody is tied to the building.
WarnOff(r) ==
    nav' = [h \in Harvester |-> IF radio[r] = h /\ nav[h] = Bay(r) THEN Nowhere ELSE nav[h]]

Sold(r) ==
    /\ Steps(r, "sell", "initial")
    /\ ready' = [ready EXCEPT ![r] = FALSE]
    /\ WarnOff(r)
    /\ status' = [status EXCEPT ![r] = "holding"]
    /\ UNCHANGED <<radioVars, mission, queue, pos, archive, goods, inside, world>>

Hold(r) ==
    /\ Steps(r, "sell", "holding") /\ tether[r]
    /\ WarnOff(r)
    /\ UNCHANGED <<radioVars, missionVars, pos, archive, goods, inside, ready, world>>

Dismantle(r) ==
    /\ Steps(r, "sell", "holding") /\ ~tether[r]
    /\ status' = [status EXCEPT ![r] = "during"]
    /\ nav' = [h \in Harvester |-> IF nav[h] = Bay(r) THEN Nowhere ELSE nav[h]]
    /\ Say(OverOut(Contact, r))
    /\ ready' = [ready EXCEPT ![r] = FALSE]
    /\ UNCHANGED <<mission, queue, pos, archive, goods, inside, world>>

Vanish(r) ==
    /\ mission' = [mission EXCEPT ![r] = "gone"]
    /\ Say(OverOut(Contact, r))
    /\ nav' = [h \in Harvester |-> IF nav[h] = Bay(r) THEN Nowhere ELSE nav[h]]

\* The building is deleted, whatever is still inside.
SoldOut(r) ==
    /\ Steps(r, "sell", "during") /\ ready[r]
    /\ Vanish(r)
    /\ UNCHANGED <<queue, status, pos, archive, goods, inside, ready, world>>

MissionBuilding(r) ==
    \/ Expect(r) \/ Docked(r) \/ Offload(r) \/ LetOut(r)
    \/ Sold(r) \/ Hold(r) \/ Dismantle(r) \/ SoldOut(r)

(***************************************************************************)
(* What comes between: orders and sales of a player, which are checked     *)
(* when he clicks and carried out when they have been through the          *)
(* lockstep; sales of the computer; hits; ways without a path.             *)
(***************************************************************************)
Meanwhile == trouble < MaxTrouble /\ trouble' = trouble + 1

Order(what, whom, to) == [what |-> what, whom |-> whom, to |-> to]

Can_Demolish(r) == Stands(r) /\ mission[r] # "sell" /\ inside[r] = << >>

Click ==
    /\ human /\ Meanwhile
    /\ \E h \in Harvester, r \in Refinery :
          \/ /\ OnMap(h)
             /\ events' = events \cup {Order("move", h, OnRoad)}
          \/ /\ OnMap(h)
             /\ events' = events \cup {Order("harvest", h, InField)}
          \/ /\ OnMap(h)
             /\ events' = events \cup {Order("stop", h, Nowhere)}
          \/ /\ OnMap(h) /\ CanLoad(r)
             /\ events' = events \cup {Order("enter", h, Bay(r))}
          \/ /\ Can_Demolish(r)
             /\ events' = events \cup {Order("sell", r, Nowhere)}
    /\ UNCHANGED <<radioVars, missionVars, wayVars, goods, inside, ready, human, sold, crowded>>

\* Execute of a MEGAMISSION, an IDLE or a SELL event.
MegaMission(e) ==
    LET h == e.whom IN
    /\ e.what \in {"move", "harvest", "enter"}
    /\ Say(IF tether[h] THEN Contact ELSE OverOut(Contact, h))
    /\ queue' = Assign(queue, h, e.what)
    /\ nav' = [nav EXCEPT ![h] = e.to]

Idle(e) ==
    /\ e.what = "stop"
    /\ OnMap(e.whom) /\ ~tether[e.whom]
    /\ EnterIdle(Contact, [nav EXCEPT ![e.whom] = Nowhere], e.whom)

Sell_Back(r) == queue' = Assign(queue, r, "sell") /\ UNCHANGED <<radioVars, nav>>

Ignored(e) ==
    \/ mission[e.whom] = "gone"
    \/ e.what = "stop" /\ ~(OnMap(e.whom) /\ ~tether[e.whom])

Execute ==
    /\ \E e \in events :
          /\ events' = events \ {e}
          /\ IF Ignored(e) THEN UNCHANGED <<radioVars, queue, nav>>
             ELSE \/ MegaMission(e) \/ Idle(e)
                  \/ e.what = "sell" /\ Sell_Back(e.whom)
    /\ UNCHANGED <<mission, status, pos, archive, goods, inside, ready, human, trouble, sold, crowded>>

ComputerSells(r) ==
    /\ ~human /\ Meanwhile
    /\ Stands(r) /\ mission[r] # "sell"
    /\ Sell_Back(r)
    /\ UNCHANGED <<mission, status, pos, archive, goods, inside, ready, human, events, sold, crowded>>

\* A badly damaged harvester with Tiberium on board calls a refinery.
Hurt(h) ==
    /\ OnMap(h) /\ ~tether[h] /\ load[h] > 0
    /\ Meanwhile
    /\ \E r \in Refinery : CanLoad(r) /\ Say(Hello(Contact, h, r))
    /\ queue' = Assign(queue, h, "enter")
    /\ UNCHANGED <<mission, status, wayVars, goods, inside, ready, human, events, sold, crowded>>

NoPath(h) ==
    /\ OnMap(h) /\ ~OnTrack(h) /\ nav[h] # Nowhere
    /\ Meanwhile
    /\ nav' = [nav EXCEPT ![h] = Nowhere]
    /\ UNCHANGED <<radioVars, missionVars, pos, archive, goods, inside, ready, human, events, sold, crowded>>

HarvesterDies(h) ==
    /\ OnMap(h) /\ Meanwhile
    /\ Say(OverOut(Contact, h))
    /\ mission' = [mission EXCEPT ![h] = "gone"]
    /\ pos' = [pos EXCEPT ![h] = Nowhere]
    /\ nav' = [nav EXCEPT ![h] = Nowhere]
    /\ load' = [load EXCEPT ![h] = 0]
    /\ UNCHANGED <<queue, status, archive, field, paid, inside, ready, human, events, sold, crowded>>

\* Take_Damage deletes what is inside.
RefineryDies(r) ==
    LET lost == ToSet(inside[r]) IN
    /\ Stands(r) /\ Meanwhile
    /\ mission' = [o \in Object |-> IF o = r \/ o \in lost THEN "gone" ELSE mission[o]]
    /\ Say(OverOut(Contact, r))
    /\ nav' = [h \in Harvester |-> IF nav[h] = Bay(r) \/ h \in lost THEN Nowhere ELSE nav[h]]
    /\ pos' = [h \in Harvester |-> IF h \in lost THEN Nowhere ELSE pos[h]]
    /\ load' = [h \in Harvester |-> IF h \in lost THEN 0 ELSE load[h]]
    /\ inside' = [inside EXCEPT ![r] = << >>]
    /\ UNCHANGED <<queue, status, archive, field, paid, ready, human, events, sold, crowded>>

Init ==
    /\ human \in Human
    /\ radio = [o \in Object |-> NoOne] /\ tether = [o \in Object |-> FALSE]
    /\ mission = [o \in Object |-> IF o \in Harvester THEN "harvest" ELSE "guard"]
    /\ queue = [o \in Object |-> "none"]
    /\ status = [o \in Object |-> IF o \in Harvester THEN "looking" ELSE "initial"]
    /\ pos = [h \in Harvester |-> OnRoad] /\ nav = [h \in Harvester |-> Nowhere]
    /\ load = [h \in Harvester |-> 0] /\ archive = [h \in Harvester |-> FALSE]
    /\ inside = [r \in Refinery |-> << >>] /\ ready = [r \in Refinery |-> FALSE]
    /\ field = Tiberium /\ paid = 0
    /\ events = {} /\ trouble = 0 /\ sold = {} /\ crowded = {}

Unit(h) ==
    \/ Commence(h) \/ MissionHarvest(h) \/ MissionEnter(h) \/ MissionMove(h) \/ MissionGuard(h)
    \/ Drive(h) \/ MakeWay(h) \/ Turned(h) \/ EndTrack(h)

Building(r) == Animate(r) \/ CommenceBuilding(r) \/ MissionBuilding(r)

Between ==
    \/ Click \/ Execute
    \/ \E h \in Harvester : Hurt(h) \/ NoPath(h) \/ HarvesterDies(h)
    \/ \E r \in Refinery : ComputerSells(r) \/ RefineryDies(r)

Next == \/ \E h \in Harvester : Unit(h)
        \/ \E r \in Refinery : Building(r)
        \/ Between

\* Every object's AI is called in every frame, and every way has an end; who
\* waits for a place takes it when it is free for long enough.
Fairness ==
    /\ \A h \in Harvester : /\ WF_vars(Commence(h)) /\ WF_vars(MissionHarvest(h))
                            /\ WF_vars(MissionEnter(h)) /\ WF_vars(MissionMove(h))
                            /\ WF_vars(MissionGuard(h)) /\ SF_vars(Drive(h))
                            /\ WF_vars(MakeWay(h)) /\ WF_vars(Turned(h)) /\ WF_vars(EndTrack(h))
    /\ \A r \in Refinery : /\ WF_vars(Animate(r)) /\ WF_vars(CommenceBuilding(r))
                           /\ WF_vars(MissionBuilding(r))

Spec == Init /\ [][Next]_vars /\ Fairness
-----------------------------------------------------------------------------
Places == {Nowhere, InField, OnRoad, Limbo}
          \cup ({"dock", "aligned", "backing", "leaving"} \X Refinery)
Ways == {Nowhere, InField, OnRoad} \cup ({"dock", "bay"} \X Refinery)
Missions == {"harvest", "enter", "move", "guard", "sell", "gone"}

\* Types, and a harvester never carries more than it holds.
TypeOK ==
    /\ human \in BOOLEAN
    /\ radio \in [Object -> Object \cup {NoOne}] /\ tether \in [Object -> BOOLEAN]
    /\ mission \in [Object -> Missions]
    /\ queue \in [Object -> Missions \cup {"none"}]
    /\ status \in [Object -> {"looking", "harvesting", "findhome", "heading", "idle", "initial",
                              "wait_dock", "middle", "wait_undock", "holding", "during"}]
    /\ pos \in [Harvester -> Places] /\ nav \in [Harvester -> Ways]
    /\ load \in [Harvester -> 0 .. FullLoad] /\ archive \in [Harvester -> BOOLEAN]
    /\ inside \in [Refinery -> Seq(Harvester)] /\ ready \in [Refinery -> BOOLEAN]
    /\ field \in 0 .. Tiberium /\ paid \in 0 .. Tiberium
    /\ trouble \in 0 .. MaxTrouble
    /\ sold \subseteq Refinery /\ crowded \subseteq Refinery

\* Radio is a plain pointer.  Whom it names is not deleted and not in limbo,
\* and names this object back; both are tethered or neither is, whichever way
\* the contact came to be.  One kept on one side only would hold a refinery
\* for ever, or let two harvesters back into it.
Lives(x) == IF x \in Harvester THEN OnMap(x) ELSE Stands(x)
ContactIsMutual ==
    \A x \in Object :
        IF radio[x] = NoOne THEN ~tether[x]
        ELSE Lives(radio[x]) /\ radio[radio[x]] = x /\ tether[radio[x]] = tether[x]

\* RADIO_CAN_LOAD keeps a refinery to one harvester at a time, except for a
\* harvester that carries out an order given before the other went in.
OneInside == \A r \in Refinery : Len(inside[r]) <= 1 \/ r \in crowded

\* A harvester is let out only when its whole load has been paid for.
LeavesEmpty ==
    \A h \in Harvester, r \in Refinery :
        pos[h] = Leaving(r) => load[h] = 0 \/ r \in crowded

\* A harvester in limbo is in the hold of a refinery that stands and is at
\* work on it or about to be.  The refinery that holds it has no such duty
\* once it is being sold with the harvester in it, or once a second one drove
\* in on an order given before; what happens to any other is no excuse.
Serves(r) == "harvest" \in {mission[r], queue[r]} \/ queue[r] = "sell"
Minds(r) == r \in sold \/ (Stands(r) /\ (Serves(r) \/ r \in crowded))
NobodyForgotten ==
    \A h \in Harvester : pos[h] = Limbo => \E r \in Refinery : h \in ToSet(inside[r]) /\ Minds(r)

\* Left alone, the harvesters bring all the Tiberium home.
TiberiumComesHome ==
    [](trouble = 0) => <>(field = 0 /\ \A h \in Harvester : load[h] = 0)

\* Whatever comes between, no harvester holds a refinery for ever: its
\* contact ends again and again, unless it is being sold or the harvester was
\* ordered off the pad and found nothing to do (it keeps its tether).
Stranded(r) == radio[r] # NoOne /\ mission[radio[r]] = "guard"
RefineryComesFree == \A r \in Refinery : []<>(radio[r] = NoOne \/ r \in sold \/ Stranded(r))
=============================================================================
