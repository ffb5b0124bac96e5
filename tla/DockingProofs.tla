---------------------------- MODULE DockingProofs ----------------------------
(***************************************************************************)
(* That radio contact is mutual, that a refinery holds one harvester, that *)
(* none leaves with Tiberium on board and that none is forgotten inside,   *)
(* and that no bail is carried or paid for twice, for every number of      *)
(* harvesters and refineries and all that may come between.                *)
(***************************************************************************)
EXTENDS Docking, Totals

(***************************************************************************)
(* Radio contact.                                                          *)
(***************************************************************************)
Partners(x) == IF x \in Harvester THEN Refinery ELSE Harvester
Contacts == [radio : [Object -> Object \cup {NoOne}], tether : [Object -> BOOLEAN]]

\* A contact among the objects of A: mutual, and tied on both sides or none.
Sound(c, A) ==
    /\ c \in Contacts
    /\ \A x \in Object :
          IF c.radio[x] = NoOne THEN ~c.tether[x]
          ELSE /\ c.radio[x] \in A /\ c.radio[x] \in Partners(x)
               /\ c.radio[c.radio[x]] = x
               /\ c.tether[c.radio[x]] = c.tether[x]

LEMMA Kinds ==
  /\ Harvester \cap Refinery = {} /\ NoOne \notin Object
  /\ \A h \in Harvester : h \in Object /\ Partners(h) = Refinery
  /\ \A r \in Refinery : r \in Object /\ Partners(r) = Harvester
  BY DockingAssumption DEF Object, Partners

LEMMA Wider ==
  ASSUME NEW c, NEW A, NEW B, Sound(c, A), A \subseteq B
  PROVE  Sound(c, B)
  BY DEF Sound

\* Both are tied or both let go; who else is tied does not matter.
LEMMA Ties ==
  ASSUME NEW t \in [Object -> BOOLEAN], NEW x \in Object, NEW y \in Object, t[x] = t[y]
  PROVE  /\ Tethered(t, x, y) \in [Object -> BOOLEAN] /\ Untethered(t, x, y) \in [Object -> BOOLEAN]
         /\ Tethered(t, x, y)[x] = Tethered(t, x, y)[y]
         /\ ~Untethered(t, x, y)[x] /\ ~Untethered(t, x, y)[y]
         /\ \A z \in Object \ {x, y} : /\ Tethered(t, x, y)[z] = t[z]
                                       /\ Untethered(t, x, y)[z] = t[z]
  <1>1. CASE t[y]
    <2>1. Tethered(t, x, y) = t
      BY <1>1 DEF Tethered
    <2>2. Untethered(t, x, y) = [t EXCEPT ![x] = FALSE, ![y] = FALSE]
      BY <1>1 DEF Untethered
    <2> QED BY <2>1, <2>2
  <1>2. CASE ~t[y]
    <2>1. Tethered(t, x, y) = [t EXCEPT ![x] = TRUE, ![y] = TRUE]
      BY <1>2 DEF Tethered
    <2>2. Untethered(t, x, y) = t
      BY <1>2 DEF Untethered
    <2> QED BY <1>2, <2>1, <2>2
  <1> QED BY <1>1, <1>2

\* Ending one's contact ends it for the other, and nobody names one any more.
LEMMA OverOutSound ==
  ASSUME NEW c, NEW A, Sound(c, A), NEW x \in Object
  PROVE  /\ Sound(OverOut(c, x), A \ {x})
         /\ OverOut(c, x).radio[x] = NoOne
         /\ \A z \in Object : OverOut(c, x).radio[z] \in {c.radio[z], NoOne}
  <1> DEFINE y == c.radio[x]
             d == OverOut(c, x)
  <1>1. c \in Contacts /\ NoOne \notin Object
    BY Kinds DEF Sound
  <1>2. CASE y = NoOne
    <2>1. d = c
      BY <1>2 DEF OverOut
    <2>2. \A z \in Object : c.radio[z] # x
      BY <1>1, <1>2 DEF Sound
    <2> QED BY <1>1, <1>2, <2>1, <2>2 DEF Sound
  <1>3. CASE y # NoOne
    <2>1. y \in Object /\ c.radio[y] = x /\ c.tether[y] = c.tether[x]
      BY <1>1, <1>3 DEF Sound, Contacts
    <2>2. /\ d.radio = [o \in Object |-> IF o = x \/ o = y THEN NoOne ELSE c.radio[o]]
          /\ d.tether = Untethered(c.tether, y, x)
          /\ d = [radio |-> d.radio, tether |-> d.tether]
      BY <1>3, <2>1 DEF OverOut
    <2>3. d.radio \in [Object -> Object \cup {NoOne}]
      BY <1>1, <2>2 DEF Contacts
    <2>4. /\ d.tether \in [Object -> BOOLEAN] /\ ~d.tether[x] /\ ~d.tether[y]
          /\ \A z \in Object \ {x, y} : d.tether[z] = c.tether[z]
      <3>1. c.tether \in [Object -> BOOLEAN]
        BY <1>1 DEF Contacts
      <3> QED BY <2>1, <2>2, <3>1, Ties
    <2> HIDE DEF d, y
    <2>5. d \in Contacts
      BY <2>2, <2>3, <2>4 DEF Contacts
    <2>6. \A z \in Object \ {x, y} : c.radio[z] \notin {x, y}
      BY <1>1, <1>3, <2>1 DEF Sound, y
    <2>7. /\ d.radio[x] = NoOne /\ d.radio[y] = NoOne
          /\ \A z \in Object \ {x, y} : d.radio[z] = c.radio[z]
      BY <2>1, <2>2
    <2>8. ASSUME NEW z \in Object
          PROVE  IF d.radio[z] = NoOne THEN ~d.tether[z]
                 ELSE /\ d.radio[z] \in A \ {x} /\ d.radio[z] \in Partners(z)
                      /\ d.radio[d.radio[z]] = z
                      /\ d.tether[d.radio[z]] = d.tether[z]
      <3>1. CASE z \in {x, y}
        BY <2>4, <2>7, <3>1
      <3>2. CASE z \notin {x, y}
        <4>1. d.radio[z] = c.radio[z] /\ d.tether[z] = c.tether[z]
          BY <2>4, <2>7, <3>2
        <4>2. CASE c.radio[z] = NoOne
          BY <4>1, <4>2 DEF Sound
        <4>3. CASE c.radio[z] # NoOne
          <5>1. c.radio[z] \in Object \ {x, y}
            BY <1>1, <2>6, <3>2, <4>3 DEF Contacts
          <5>2. d.radio[c.radio[z]] = c.radio[c.radio[z]]
                /\ d.tether[c.radio[z]] = c.tether[c.radio[z]]
            BY <2>4, <2>7, <5>1
          <5> QED BY <4>1, <4>3, <5>1, <5>2 DEF Sound
        <4> QED BY <4>2, <4>3
      <3> QED BY <3>1, <3>2
    <2> QED BY <2>5, <2>7, <2>8 DEF Sound, d, y
  <1> QED BY <1>2, <1>3

\* RADIO_HELLO makes a contact on both sides or on none.
LEMMA HelloSound ==
  ASSUME NEW c, NEW A, Sound(c, A), NEW x \in Object, NEW y \in Partners(x), y \in Object,
         x \in Partners(y), x \in A, Accepts(OverOut(c, x), x, y) => y \in A
  PROVE  /\ Sound(Hello(c, x, y), A)
         /\ \A z \in Object \ {x, y} : Hello(c, x, y).radio[z] \in {c.radio[z], NoOne}
         /\ Hello(c, x, y).radio[y] \in {c.radio[y], NoOne, x}
  <1> DEFINE b == OverOut(c, x)
             d == Hello(c, x, y)
  <1>1. /\ Sound(b, A) /\ b.radio[x] = NoOne /\ ~b.tether[x]
        /\ \A z \in Object : b.radio[z] \in {c.radio[z], NoOne}
    <2>1. Sound(b, A \ {x}) /\ b.radio[x] = NoOne
          /\ \A z \in Object : b.radio[z] \in {c.radio[z], NoOne}
      BY OverOutSound
    <2> HIDE DEF b
    <2>2. Sound(b, A)
      BY <2>1, Wider
    <2> QED BY <2>1, <2>2 DEF Sound
  <1>2. x # y /\ NoOne \notin Object
    BY Kinds DEF Partners, Object
  <1>3. CASE ~Accepts(b, x, y)
    <2>1. d = b
      BY <1>3 DEF Hello
    <2> QED BY <1>1, <2>1
  <1>4. CASE Accepts(b, x, y)
    <2>1. d = [b EXCEPT !.radio[x] = y, !.radio[y] = x] /\ y \in A
      BY <1>4 DEF Hello
    <2>2. b.radio[y] \in {x, NoOne}
      BY <1>4 DEF Accepts
    <2> HIDE DEF b, d
    <2>3. b \in Contacts
      BY <1>1 DEF Sound
    <2>4. b.radio[y] = NoOne /\ ~b.tether[y]
      BY <1>1, <1>2, <2>2 DEF Sound
    <2>5. /\ d \in Contacts /\ d.tether = b.tether
          /\ d.radio[x] = y /\ d.radio[y] = x
          /\ \A z \in Object \ {x, y} : d.radio[z] = b.radio[z]
      BY <1>2, <2>1, <2>3 DEF Contacts
    <2>6. \A z \in Object \ {x, y} : b.radio[z] \notin {x, y}
      BY <1>1, <1>2, <2>4 DEF Sound
    <2>7. ASSUME NEW z \in Object \ {x, y}, d.radio[z] # NoOne
          PROVE  /\ d.radio[z] \in A /\ d.radio[z] \in Partners(z)
                 /\ d.radio[d.radio[z]] = z
                 /\ d.tether[d.radio[z]] = d.tether[z]
      <3>1. b.radio[z] \in Object \ {x, y} /\ b.radio[z] # NoOne
        BY <2>3, <2>5, <2>6, <2>7 DEF Contacts
      <3> QED BY <1>1, <2>5, <3>1 DEF Sound
    <2>8. \A z \in Object \ {x, y} : d.radio[z] = NoOne => ~d.tether[z]
      BY <1>1, <2>5 DEF Sound
    <2>9. Sound(d, A)
      <3>1. /\ x \in A /\ y \in A /\ x # NoOne /\ y # NoOne /\ d.tether[x] = d.tether[y]
        <4>1. b.tether[x] = FALSE /\ b.tether[y] = FALSE
          BY <1>1, <2>3, <2>4 DEF Contacts
        <4> QED BY <1>2, <2>1, <2>5, <4>1
      <3>2. ASSUME NEW z \in {x, y}
            PROVE  /\ d.radio[z] # NoOne /\ d.radio[z] \in A /\ d.radio[z] \in Partners(z)
                   /\ d.radio[d.radio[z]] = z
                   /\ d.tether[d.radio[z]] = d.tether[z]
        BY <2>5, <3>1
      <3> QED BY <2>5, <2>7, <2>8, <3>2 DEF Sound
    <2> QED BY <1>1, <2>5, <2>9 DEF d
  <1> QED BY <1>3, <1>4

LEMMA TetheredSound ==
  ASSUME NEW c, NEW A, Sound(c, A), NEW x \in Object, NEW y \in Object, c.radio[x] = y
  PROVE  /\ Sound([c EXCEPT !.tether = Tethered(c.tether, x, y)], A)
         /\ Sound([c EXCEPT !.tether = Tethered(c.tether, y, x)], A)
         /\ Sound([c EXCEPT !.tether = Untethered(c.tether, x, y)], A)
         /\ Sound([c EXCEPT !.tether = Untethered(c.tether, y, x)], A)
  <1>1. c \in Contacts /\ NoOne \notin Object
    BY Kinds DEF Sound
  <1>2. c.radio[y] = x /\ c.tether[y] = c.tether[x]
    BY <1>1 DEF Sound
  <1>3. ASSUME NEW t \in [Object -> BOOLEAN], t[x] = t[y],
               \A z \in Object \ {x, y} : t[z] = c.tether[z]
        PROVE  Sound([c EXCEPT !.tether = t], A)
    <2> DEFINE d == [c EXCEPT !.tether = t]
    <2>1. d \in Contacts /\ d.radio = c.radio /\ d.tether = t
      BY <1>1 DEF Contacts
    <2> HIDE DEF d
    <2>2. \A z \in Object \ {x, y} : c.radio[z] \notin {x, y}
      BY <1>1, <1>2 DEF Sound
    <2>3. \A z \in Object \ {x, y} : c.radio[z] # NoOne => t[c.radio[z]] = c.tether[c.radio[z]]
      BY <1>1, <1>3, <2>2 DEF Contacts
    <2>4. Sound(d, A)
      BY <1>1, <1>2, <1>3, <2>1, <2>3 DEF Sound
    <2> QED BY <2>4 DEF d
  <1>4. c.tether \in [Object -> BOOLEAN]
    BY <1>1 DEF Contacts
  <1>5. Sound([c EXCEPT !.tether = Tethered(c.tether, x, y)], A)
    <2>1. /\ Tethered(c.tether, x, y) \in [Object -> BOOLEAN]
          /\ Tethered(c.tether, x, y)[x] = Tethered(c.tether, x, y)[y]
          /\ \A z \in Object \ {x, y} : Tethered(c.tether, x, y)[z] = c.tether[z]
      BY <1>2, <1>4, Ties
    <2> QED BY <1>3, <2>1
  <1>6. Sound([c EXCEPT !.tether = Tethered(c.tether, y, x)], A)
    <2>1. /\ Tethered(c.tether, y, x) \in [Object -> BOOLEAN]
          /\ Tethered(c.tether, y, x)[x] = Tethered(c.tether, y, x)[y]
          /\ \A z \in Object \ {x, y} : Tethered(c.tether, y, x)[z] = c.tether[z]
      BY <1>2, <1>4, Ties
    <2> QED BY <1>3, <2>1
  <1>7. Sound([c EXCEPT !.tether = Untethered(c.tether, x, y)], A)
    <2>1. /\ Untethered(c.tether, x, y) \in [Object -> BOOLEAN]
          /\ Untethered(c.tether, x, y)[x] = Untethered(c.tether, x, y)[y]
          /\ \A z \in Object \ {x, y} : Untethered(c.tether, x, y)[z] = c.tether[z]
      BY <1>2, <1>4, Ties
    <2> QED BY <1>3, <2>1
  <1>8. Sound([c EXCEPT !.tether = Untethered(c.tether, y, x)], A)
    <2>1. /\ Untethered(c.tether, y, x) \in [Object -> BOOLEAN]
          /\ Untethered(c.tether, y, x)[x] = Untethered(c.tether, y, x)[y]
          /\ \A z \in Object \ {x, y} : Untethered(c.tether, y, x)[z] = c.tether[z]
      BY <1>2, <1>4, Ties
    <2> QED BY <1>3, <2>1
  <1> QED BY <1>5, <1>6, <1>7, <1>8

\* RADIO_UNLOADED ends the contact of the refinery that hears it.
LEMMA UnloadedSound ==
  ASSUME NEW c, NEW A, Sound(c, A), NEW h \in Object, c.radio[h] # NoOne
  PROVE  /\ Sound(Unloaded(c, c.radio[h], h), A)
         /\ \A z \in Object : Unloaded(c, c.radio[h], h).radio[z] \in {c.radio[z], NoOne}
  <1> DEFINE r == c.radio[h]
             b == [c EXCEPT !.tether = Untethered(c.tether, r, h)]
  <1>1. c \in Contacts /\ r \in Object
    BY DEF Sound, Contacts
  <1>2. Sound(b, A)
    BY <1>1, TetheredSound
  <1>3. b.radio = c.radio
    BY <1>1 DEF Contacts
  <1>4. Unloaded(c, r, h) = OverOut(b, r)
    BY DEF Unloaded
  <1> HIDE DEF b, r
  <1>5. Sound(OverOut(b, r), A \ {r}) /\ \A z \in Object : OverOut(b, r).radio[z] \in {b.radio[z], NoOne}
    BY <1>1, <1>2, OverOutSound
  <1>6. Sound(OverOut(b, r), A)
    BY <1>5, Wider
  <1> QED BY <1>3, <1>4, <1>5, <1>6 DEF r

LEMMA SayIs ==
  ASSUME NEW c, NEW A, Sound(c, A), Say(c)
  PROVE  Contact' = c /\ radio' = c.radio /\ tether' = c.tether /\ Sound(Contact', A)
  <1>1. c = [radio |-> c.radio, tether |-> c.tether]
    BY DEF Sound, Contacts
  <1>2. Contact' = c
    BY <1>1 DEF Say, Contact
  <1> QED BY <1>2 DEF Say

(***************************************************************************)
(* The invariant.                                                          *)
(***************************************************************************)
Queues == {"harvest", "enter", "move", "guard", "sell", "none"}
Statuses == {"looking", "harvesting", "findhome", "heading", "idle", "initial",
             "wait_dock", "middle", "wait_undock", "holding", "during"}

Types ==
    /\ mission \in [Object -> Missions] /\ queue \in [Object -> Queues]
    /\ status \in [Object -> Statuses]
    /\ pos \in [Harvester -> Places] /\ nav \in [Harvester -> Ways]
    /\ load \in [Harvester -> Nat]
    /\ inside \in [Refinery -> Seq(Harvester)]
    /\ crowded \subseteq Refinery

Orders ==
    \A e \in events :
       \/ e.what \in {"move", "harvest", "enter"} /\ e.whom \in Harvester /\ e.to \in Ways
       \/ e.what = "stop" /\ e.whom \in Harvester
       \/ e.what = "sell" /\ e.whom \in Refinery

Living == {x \in Object : Lives(x)}
Talk == Sound(Contact, Living)

\* Who is in a hold is in limbo, and in no other hold and no other place of it.
Held ==
    \A r \in Refinery : \A i \in DOMAIN inside[r] :
       /\ pos[inside[r][i]] = Limbo
       /\ \A s \in Refinery : \A j \in DOMAIN inside[s] :
             inside[r][i] = inside[s][j] => r = s /\ i = j

\* A refinery in contact is empty, one in use is not spoken to.
Single(r) ==
    r \notin crowded => Len(inside[r]) <= 1 /\ (radio[r] # NoOne => inside[r] = << >>)

\* The door opens only for an empty harvester.
Emptied(r) ==
    r \notin crowded /\ mission[r] = "harvest" /\ status[r] = "wait_undock"
       /\ inside[r] # << >> => load[Head(inside[r])] = 0

\* A refinery works only with somebody inside.
Busy(r) ==
    r \notin crowded /\ Stands(r) /\ inside[r] = << >> =>
       mission[r] # "harvest" /\ queue[r] # "harvest"

Duty(r) ==
    /\ mission[r] \in {"harvest", "guard", "sell", "gone"}
    /\ queue[r] \in {"harvest", "sell", "none"}
    /\ mission[r] = "sell" => r \in sold

Routine == \A r \in Refinery : Single(r) /\ Emptied(r) /\ Busy(r) /\ Duty(r)

IInv == Types /\ Orders /\ Talk /\ Held /\ Routine /\ LeavesEmpty /\ NobodyForgotten

LEMMA Implied == IInv => ContactIsMutual /\ OneInside /\ LeavesEmpty /\ NobodyForgotten
  <1> SUFFICES ASSUME IInv PROVE ContactIsMutual /\ OneInside
    BY DEF IInv
  <1>1. ContactIsMutual
    BY DEF IInv, Talk, Sound, Contact, Living, ContactIsMutual
  <1>2. OneInside
    BY DEF IInv, Routine, Single, OneInside
  <1> QED BY <1>1, <1>2

LEMMA Start == Init => IInv
  <1> SUFFICES ASSUME Init PROVE IInv
    OBVIOUS
  <1>1. Types
    BY DEF Init, Types, Missions, Queues, Statuses, Places, Ways
  <1>2. Orders
    BY DEF Init, Orders
  <1>3. Talk
    BY Kinds DEF Init, Talk, Sound, Contact, Contacts
  <1>4. Held
    BY DEF Init, Held
  <1>5. \A r \in Refinery : mission[r] = "guard" /\ queue[r] = "none" /\ inside[r] = << >>
    BY Kinds DEF Init
  <1>6. Routine
    BY <1>5 DEF Routine, Single, Emptied, Busy, Duty
  <1>7. \A h \in Harvester : pos[h] # Limbo /\ \A r \in Refinery : pos[h] # Leaving(r)
    BY DEF Init, OnRoad, Limbo, Leaving
  <1>8. LeavesEmpty /\ NobodyForgotten
    BY <1>7 DEF LeavesEmpty, NobodyForgotten
  <1> QED BY <1>1, <1>2, <1>3, <1>4, <1>6, <1>8 DEF IInv

\* A step that leaves refineries and their holds alone, except that a contact
\* may end or begin with an empty one.
LEMMA Outdoors ==
  ASSUME IInv, Types', Orders', Talk',
         UNCHANGED <<inside, sold>>, crowded \subseteq crowded',
         \A r \in Refinery :
            /\ mission'[r] = mission[r] /\ queue'[r] = queue[r] /\ status'[r] = status[r]
            /\ radio'[r] \in {radio[r], NoOne} \/ inside[r] = << >> \/ r \in crowded',
         \A h \in Harvester :
            \/ pos'[h] = pos[h] /\ load'[h] = load[h]
            \/ /\ pos[h] # Limbo /\ pos'[h] # Limbo
               /\ \A r \in Refinery : pos'[h] # Leaving(r)
  PROVE  IInv'
  <1>1. \A h \in Harvester : (pos[h] = Limbo <=> pos'[h] = Limbo)
                              /\ (pos[h] = Limbo => load'[h] = load[h])
    OBVIOUS
  <1>2. Held'
    BY <1>1 DEF IInv, Held, Types
  <1>3. ASSUME NEW r \in Refinery PROVE Single(r)' /\ Emptied(r)' /\ Busy(r)' /\ Duty(r)'
    <2>1. Single(r) /\ Emptied(r) /\ Busy(r) /\ Duty(r)
      BY DEF IInv, Routine
    <2>2. Single(r)'
      BY <2>1 DEF Single
    <2>3. Emptied(r)'
      <3>1. inside[r] # << >> => 1 \in DOMAIN inside[r] /\ Head(inside[r]) = inside[r][1]
                                 /\ inside[r][1] \in Harvester
        BY DEF IInv, Types
      <3>2. inside[r] # << >> => load'[Head(inside[r])] = load[Head(inside[r])]
        BY <1>1, <3>1 DEF IInv, Held
      <3> QED BY <2>1, <3>2 DEF Emptied
    <2>4. Busy(r)' /\ Duty(r)'
      BY <2>1 DEF Busy, Duty, Stands
    <2> QED BY <2>2, <2>3, <2>4
  <1>4. LeavesEmpty'
    BY DEF IInv, LeavesEmpty
  <1>5. NobodyForgotten'
    <2>1. \A r \in Refinery : Minds(r) => Minds(r)'
      BY DEF Minds, Stands, Serves
    <2> QED BY <1>1, <2>1 DEF IInv, NobodyForgotten
  <1> QED BY <1>2, <1>3, <1>4, <1>5 DEF IInv, Routine

LEMMA SameTalk ==
  ASSUME Talk, UNCHANGED radioVars, Living \subseteq Living'
  PROVE  Talk'
  <1>1. Contact' = Contact
    BY DEF radioVars, Contact
  <1>2. Sound(Contact, Living')
    BY Wider DEF Talk
  <1> QED BY <1>1, <1>2 DEF Talk

LEMMA SameLiving ==
  ASSUME UNCHANGED <<mission, pos>>
  PROVE  Living' = Living
  BY DEF Living, Lives, OnMap, Stands

(***************************************************************************)
(* A harvester's mission.                                                  *)
(***************************************************************************)
LEMMA CommenceKeeps == ASSUME IInv, NEW h \in Harvester, Commence(h) PROVE IInv'
  <1>1. queue[h] \in Missions \ {"gone"} /\ \A r \in Refinery : r # h
    BY Kinds DEF Commence, IInv, Types, Queues, Missions
  <1>2. Types'
    BY <1>1 DEF Commence, IInv, Types, Queues, Statuses, wayVars, goods, world
  <1>3. Living \subseteq Living'
    BY <1>1 DEF Commence, Living, Lives, OnMap, Stands, wayVars, IInv, Types
  <1>4. Talk'
    BY <1>3, SameTalk DEF IInv, Commence
  <1>5. Orders'
    BY DEF IInv, Orders, Commence, world
  <1>6. UNCHANGED <<inside, sold, crowded, pos, load, radio>>
    BY DEF Commence, world, wayVars, goods, radioVars
  <1>7. \A r \in Refinery : mission'[r] = mission[r] /\ queue'[r] = queue[r] /\ status'[r] = status[r]
    BY <1>1 DEF Commence, IInv, Types
  <1> QED BY <1>2, <1>4, <1>5, <1>6, <1>7, Outdoors

\* Assign_Mission of a harvester.
LEMMA Assigned ==
  ASSUME Types, NEW h \in Harvester, NEW m \in Queues, queue' = Assign(queue, h, m)
  PROVE  queue' \in [Object -> Queues] /\ \A r \in Refinery : queue'[r] = queue[r]
  BY Kinds DEF Types, Assign

\* Enter_Idle_Mode.
LEMMA IdleSound ==
  ASSUME Types, NEW A, NEW c, Sound(c, A), NEW n \in [Harvester -> Ways],
         NEW h \in Harvester, EnterIdle(c, n, h)
  PROVE  /\ Sound(Contact', A)
         /\ \A x \in Object : radio'[x] \in {c.radio[x], NoOne}
         /\ nav' \in [Harvester -> Ways] /\ queue' \in [Object -> Queues]
         /\ \A r \in Refinery : queue'[r] = queue[r]
  <1> DEFINE b == IF mission[h] = "move" /\ n[h] = Nowhere THEN OverOut(c, h) ELSE c
  <1>1. Sound(OverOut(c, h), A) /\ \A x \in Object : OverOut(c, h).radio[x] \in {c.radio[x], NoOne}
    <2>1. Sound(OverOut(c, h), A \ {h})
          /\ \A x \in Object : OverOut(c, h).radio[x] \in {c.radio[x], NoOne}
      BY Kinds, OverOutSound
    <2> QED BY <2>1, Wider
  <1>2. Sound(b, A) /\ \A x \in Object : b.radio[x] \in {c.radio[x], NoOne}
    BY <1>1
  <1>3. Say(b) /\ \/ nav' = n /\ UNCHANGED queue
                  \/ /\ \E m \in {"harvest", "guard"} : queue' = Assign(queue, h, m)
                     /\ nav' = [n EXCEPT ![h] = Nowhere]
    BY DEF EnterIdle
  <1>4. Sound(Contact', A) /\ radio' = b.radio
    BY <1>2, <1>3, SayIs
  <1>5. nav' \in [Harvester -> Ways]
    BY <1>3 DEF Ways
  <1>6. queue' \in [Object -> Queues] /\ \A r \in Refinery : queue'[r] = queue[r]
    <2>1. CASE UNCHANGED queue
      BY <2>1 DEF Types
    <2>2. ASSUME NEW m \in {"harvest", "guard"}, queue' = Assign(queue, h, m)
          PROVE  queue' \in [Object -> Queues] /\ \A r \in Refinery : queue'[r] = queue[r]
      BY <2>2, Assigned DEF Queues
    <2> QED BY <1>3, <2>1, <2>2
  <1> QED BY <1>2, <1>4, <1>5, <1>6

LEMMA HarvestKeeps == ASSUME IInv, NEW h \in Harvester, MissionHarvest(h) PROVE IInv'
  <1>a. /\ UNCHANGED <<inside, sold, crowded, events>>
        /\ OnMap(h) /\ pos[h] # Limbo /\ h \in Object /\ \A r \in Refinery : r # h
        /\ Types /\ Talk
    BY Kinds DEF MissionHarvest, world, OnMap, IInv
  <1>b. Orders'
    BY <1>a DEF IInv, Orders
  <1>c. Sought(h) \in [Harvester -> Ways]
    BY <1>a DEF Sought, Types, Ways
  <1>1. CASE UNCHANGED <<radioVars, mission, pos, load>> /\ Types'
             /\ \A r \in Refinery : queue'[r] = queue[r] /\ status'[r] = status[r]
    <2>1. Talk'
      BY <1>1, <1>a, SameLiving, SameTalk
    <2> QED BY <1>1, <1>a, <1>b, <2>1, Outdoors DEF radioVars
  <1>2. CASE Look(h)
    <2>1. /\ UNCHANGED <<radioVars, mission, pos, load, queue>>
          /\ nav' \in [Harvester -> Ways]
          /\ status' \in [Object -> Statuses] /\ \A r \in Refinery : status'[r] = status[r]
      <3>1. /\ UNCHANGED <<radioVars, mission, pos, load, queue>>
            /\ nav' \in {nav, Sought(h)}
            /\ \/ UNCHANGED status
               \/ \E t \in Statuses : status' = [status EXCEPT ![h] = t]
        BY <1>2 DEF Look, Statuses, goods
      <3>2. nav \in [Harvester -> Ways] /\ status \in [Object -> Statuses]
        BY <1>a DEF Types
      <3>3. nav' \in [Harvester -> Ways]
        BY <1>c, <3>1, <3>2
      <3>4. status' \in [Object -> Statuses] /\ \A r \in Refinery : status'[r] = status[r]
        BY <1>a, <3>1, <3>2, Kinds
      <3> QED BY <3>1, <3>3, <3>4
    <2> QED BY <1>1, <1>a, <2>1 DEF Types
  <1>3. CASE Dig(h)
    <2>1. /\ UNCHANGED <<radioVars, mission, queue, status, pos, nav>>
          /\ load' = [load EXCEPT ![h] = @ + 1] /\ pos[h] = InField
      BY <1>3 DEF Dig, missionVars, wayVars, OnTiberium
    <2>2. Types'
      BY <1>a, <2>1 DEF Types
    <2>3. Talk'
      BY <1>a, <2>1, SameLiving, SameTalk
    <2>4. /\ \A g \in Harvester : g # h => load'[g] = load[g]
          /\ \A r \in Refinery : pos[h] # Leaving(r)
      BY <1>a, <2>1 DEF Types, InField, Leaving
    <2> QED BY <1>a, <1>b, <2>1, <2>2, <2>3, <2>4, Outdoors DEF radioVars
  <1>4. CASE StopDigging(h)
    <2>1. /\ UNCHANGED <<radioVars, mission, pos, load, queue>>
          /\ nav' \in [Harvester -> Ways]
          /\ status' \in [Object -> Statuses] /\ \A r \in Refinery : status'[r] = status[r]
      <3>1. /\ UNCHANGED <<radioVars, mission, pos, load, queue>>
            /\ nav' \in {nav, Sought(h)}
            /\ \/ UNCHANGED status
               \/ \E t \in Statuses : status' = [status EXCEPT ![h] = t]
        BY <1>4 DEF StopDigging, Statuses, goods
      <3>2. nav \in [Harvester -> Ways] /\ status \in [Object -> Statuses]
        BY <1>a DEF Types
      <3>3. nav' \in [Harvester -> Ways]
        BY <1>c, <3>1, <3>2
      <3>4. status' \in [Object -> Statuses] /\ \A r \in Refinery : status'[r] = status[r]
        BY <1>a, <3>1, <3>2, Kinds
      <3> QED BY <3>1, <3>3, <3>4
    <2> QED BY <1>1, <1>a, <2>1 DEF Types
  <1>5. CASE FindHome(h)
    <2>1. ASSUME NEW r \in Refinery, CanLoad(r), Say(Hello(Contact, h, r)),
                 status' = [status EXCEPT ![h] = "heading"], UNCHANGED nav
          PROVE  IInv'
      <3>1. UNCHANGED <<mission, queue, pos, load>>
        BY <1>5 DEF FindHome, goods
      <3>2. Types' /\ \A s \in Refinery : status'[s] = status[s]
        BY <1>a, <2>1, <3>1 DEF Types, Statuses
      <3>3. /\ h \in Living /\ r \in Living /\ r \in Partners(h) /\ h \in Partners(r)
            /\ r \in Object /\ radio[r] = NoOne /\ inside[r] = << >>
        BY <1>a, <2>1, Kinds DEF CanLoad, Living, Lives
      <3>4. /\ Sound(Hello(Contact, h, r), Living)
            /\ \A z \in Object \ {h, r} : Hello(Contact, h, r).radio[z] \in {Contact.radio[z], NoOne}
        BY <1>a, <3>3, HelloSound DEF Talk
      <3>5. Sound(Contact', Living) /\ radio' = Hello(Contact, h, r).radio
        BY <2>1, <3>4, SayIs
      <3>6. Talk'
        BY <3>1, <3>5, SameLiving DEF Talk
      <3>7. \A s \in Refinery : radio'[s] \in {radio[s], NoOne} \/ inside[s] = << >>
        BY <1>a, <3>3, <3>4, <3>5, Kinds DEF Contact
      <3> QED BY <1>a, <1>b, <3>1, <3>2, <3>6, <3>7, Outdoors
    <2>2. CASE UNCHANGED <<radioVars, status>> /\ nav' = [nav EXCEPT ![h] = OnRoad]
      <3>1. UNCHANGED <<mission, queue, pos, load>>
        BY <1>5 DEF FindHome, goods
      <3>2. Types'
        BY <1>a, <2>2, <3>1 DEF Types, Ways
      <3> QED BY <1>1, <2>2, <3>1, <3>2
    <2> QED BY <1>5, <2>1, <2>2 DEF FindHome
  <1>6. CASE HeadHome(h) \/ GoIdle(h)
    <2>1. \E m \in Queues : queue' = Assign(queue, h, m)
      BY <1>6 DEF HeadHome, GoIdle, Queues
    <2>2. queue' \in [Object -> Queues] /\ \A r \in Refinery : queue'[r] = queue[r]
      BY <1>a, <2>1, Assigned
    <2>3. UNCHANGED <<radioVars, mission, status, pos, nav, load>>
      BY <1>6 DEF HeadHome, GoIdle, wayVars, goods
    <2> QED BY <1>1, <1>a, <2>2, <2>3 DEF Types
  <1> QED BY <1>2, <1>3, <1>4, <1>5, <1>6 DEF MissionHarvest

LEMMA SeekKeeps ==
  ASSUME IInv, NEW h \in Harvester, MissionEnter(h), SeekContact(h)
  PROVE  IInv'
  <1> DEFINE r == IF nav[h][1] = "bay" THEN nav[h][2] ELSE NoOne
             c == IF r = NoOne THEN Contact ELSE Hello(Contact, h, r)
  <1>a. /\ UNCHANGED <<mission, status, load, pos, inside, sold, events>>
        /\ OnMap(h) /\ h \in Object /\ h \in Living /\ \A q \in Refinery : q # h /\ q \in Object
        /\ Types /\ Talk
    BY Kinds DEF MissionEnter, SeekContact, goods, OnMap, IInv, Living, Lives
  <1>b. Orders'
    BY <1>a DEF IInv, Orders
  <1>c. r = NoOne \/ r \in Refinery
    <2>1. nav[h] \in Ways
      BY <1>a DEF Types
    <2> QED BY <2>1 DEF Ways, Nowhere, InField, OnRoad
  <1>d. Sound(Contact, Living) /\ Contact.radio = radio /\ NoOne \notin Object
    BY <1>a, Kinds DEF Talk, Contact
  <1> HIDE DEF r
  <1>1. CASE r # NoOne /\ Answered(Contact, h, r)
    <2>1. /\ Say(Hello(Contact, h, r)) /\ nav' = [nav EXCEPT ![h] = Nowhere]
          /\ crowded' = IF inside[r] # << >> THEN crowded \cup {r} ELSE crowded
          /\ UNCHANGED <<queue, archive>>
      BY <1>1 DEF SeekContact, r
    <2>2. r \in Living /\ r \in Refinery /\ r \in Partners(h) /\ h \in Partners(r) /\ r \in Object
      BY <1>1, <1>c, Kinds DEF Answered, Accepts, Living, Lives, Stands
    <2>3. /\ Sound(Hello(Contact, h, r), Living)
          /\ \A z \in Object \ {h, r} : Hello(Contact, h, r).radio[z] \in {Contact.radio[z], NoOne}
      BY <1>a, <1>d, <2>2, HelloSound
    <2>4. Sound(Contact', Living) /\ radio' = Hello(Contact, h, r).radio
      BY <2>1, <2>3, SayIs
    <2>5. Talk'
      BY <1>a, <2>4, SameLiving DEF Talk
    <2>6. Types'
      BY <1>a, <2>1, <2>2 DEF Types, Ways
    <2>7. \A s \in Refinery : radio'[s] \in {radio[s], NoOne} \/ inside[s] = << >> \/ s \in crowded'
      BY <1>a, <1>d, <2>1, <2>3, <2>4
    <2>8. crowded \subseteq crowded'
      BY <2>1
    <2> QED BY <1>a, <1>b, <2>1, <2>5, <2>6, <2>7, <2>8, Outdoors
  <1>2. CASE ~(r # NoOne /\ Answered(Contact, h, r))
    <2>1. EnterIdle(c, nav, h) /\ UNCHANGED crowded
      BY <1>2 DEF SeekContact, r
    <2>2. Sound(c, Living) /\ \A z \in Object : c.radio[z] \in {Contact.radio[z], NoOne}
      <3>1. CASE r = NoOne
        BY <1>d, <3>1
      <3>2. CASE r # NoOne
        <4>1. c = OverOut(Contact, h)
          BY <1>2, <3>2 DEF Hello, Answered
        <4>2. /\ Sound(OverOut(Contact, h), Living \ {h})
              /\ \A z \in Object : OverOut(Contact, h).radio[z] \in {Contact.radio[z], NoOne}
          BY <1>a, <1>d, OverOutSound
        <4>3. Sound(OverOut(Contact, h), Living)
          BY <4>2, Wider
        <4> QED BY <4>1, <4>2, <4>3
      <3> QED BY <3>1, <3>2
    <2> HIDE DEF c
    <2>3. nav \in [Harvester -> Ways]
      BY <1>a DEF Types
    <2>4. /\ Sound(Contact', Living)
          /\ \A x \in Object : radio'[x] \in {c.radio[x], NoOne}
          /\ nav' \in [Harvester -> Ways] /\ queue' \in [Object -> Queues]
          /\ \A q \in Refinery : queue'[q] = queue[q]
      BY <1>a, <2>1, <2>2, <2>3, IdleSound
    <2>5. Talk'
      BY <1>a, <2>4, SameLiving DEF Talk
    <2>6. Types'
      BY <1>a, <2>1, <2>4 DEF Types
    <2>7. \A q \in Refinery : radio'[q] \in {radio[q], NoOne}
      BY <1>a, <1>d, <2>2, <2>4
    <2> QED BY <1>a, <1>b, <2>1, <2>4, <2>5, <2>6, <2>7, Outdoors
  <1> QED BY <1>1, <1>2

\* RADIO_DOCKING and what the refinery has the harvester do.
LEMMA DocksKeeps ==
  ASSUME IInv, NEW h \in Harvester, MissionEnter(h), Docks(h)
  PROVE  IInv'
  <1> DEFINE r == radio[h]
  <1>a. /\ UNCHANGED <<mission, queue, status, load, inside, sold, crowded, events>>
        /\ OnMap(h) /\ pos[h] # Limbo /\ h \in Object /\ Types /\ Talk
    BY Kinds DEF MissionEnter, Docks, goods, OnMap, IInv
  <1>b. Orders'
    BY <1>a DEF IInv, Orders
  <1>c. r \in Refinery /\ r \in Object /\ Sound(Contact, Living) /\ Contact.radio = radio
        /\ Contact.tether = tether
    BY <1>a, Kinds DEF Docks, Talk, Sound, Contact
  <1> HIDE DEF r
  <1>1. CASE UNCHANGED <<pos, nav, radioVars>>
    <2>1. Talk'
      BY <1>1, <1>a, SameLiving, SameTalk
    <2>2. Types'
      BY <1>1, <1>a DEF Types
    <2> QED BY <1>1, <1>a, <1>b, <2>1, <2>2, Outdoors DEF radioVars
  <1>2. CASE UNCHANGED <<pos, radioVars>> /\ nav' = [nav EXCEPT ![h] = Dock(r)]
    <2>1. Talk'
      BY <1>2, <1>a, SameLiving, SameTalk
    <2>2. Dock(r) \in Ways
      BY <1>c DEF Dock, Ways
    <2>3. Types'
      BY <1>2, <1>a, <2>2 DEF Types
    <2> QED BY <1>2, <1>a, <1>b, <2>1, <2>3, Outdoors DEF radioVars
  <1>3. CASE /\ Say([Contact EXCEPT !.tether = Tethered(tether, r, h)])
             /\ \/ pos' = [pos EXCEPT ![h] = Backing(r)]
                \/ pos' = [pos EXCEPT ![h] = Aligned(r)]
             /\ UNCHANGED nav
    <2>1. Sound([Contact EXCEPT !.tether = Tethered(tether, r, h)], Living)
      BY <1>a, <1>c, TetheredSound DEF r
    <2>2. /\ Sound(Contact', Living)
          /\ radio' = [Contact EXCEPT !.tether = Tethered(tether, r, h)].radio
      BY <1>3, <2>1, SayIs
    <2>3. radio' = radio
      BY <2>2 DEF Contact
    <2>4. /\ pos'[h] \in {Aligned(r), Backing(r)} /\ \A g \in Harvester : g # h => pos'[g] = pos[g]
          /\ pos' \in [Harvester -> Places]
      <3>1. PICK p \in {Aligned(r), Backing(r)} : pos' = [pos EXCEPT ![h] = p]
        BY <1>3
      <3>2. r \in Refinery /\ {Aligned(r), Backing(r)} \subseteq Places
        BY <1>a, <1>c DEF Places, Aligned, Backing
      <3> QED BY <1>a, <3>1, <3>2 DEF Types
    <2>5. pos'[h] # Limbo /\ \A s \in Refinery : pos'[h] # Leaving(s)
      BY <2>4 DEF Aligned, Backing, Limbo, Leaving
    <2>6. Living \subseteq Living'
      BY <1>a, <2>4, <2>5 DEF Living, Lives, OnMap, Stands
    <2>7. Talk'
      BY <2>2, <2>6, Wider DEF Talk
    <2>8. Types'
      BY <1>3, <1>a, <2>4 DEF Types
    <2> QED BY <1>a, <1>b, <2>3, <2>4, <2>5, <2>7, <2>8, Outdoors
  <1> QED BY <1>1, <1>2, <1>3 DEF Docks, r

LEMMA EnterKeeps == ASSUME IInv, NEW h \in Harvester, MissionEnter(h) PROVE IInv'
  BY SeekKeeps, DocksKeeps DEF MissionEnter

LEMMA MoveKeeps == ASSUME IInv, NEW h \in Harvester, MissionMove(h) PROVE IInv'
  <1>a. /\ UNCHANGED <<mission, status, load, pos, inside, sold, crowded, events>>
        /\ EnterIdle(Contact, nav, h) /\ Types /\ Sound(Contact, Living)
        /\ nav \in [Harvester -> Ways] /\ Contact.radio = radio
    BY DEF MissionMove, goods, world, IInv, Talk, Types, Contact
  <1>1. Orders'
    BY <1>a DEF IInv, Orders
  <1>2. /\ Sound(Contact', Living)
        /\ \A x \in Object : radio'[x] \in {radio[x], NoOne}
        /\ nav' \in [Harvester -> Ways] /\ queue' \in [Object -> Queues]
        /\ \A r \in Refinery : queue'[r] = queue[r]
    BY <1>a, IdleSound
  <1>3. Talk'
    BY <1>a, <1>2, SameLiving DEF Talk
  <1>4. Types'
    BY <1>a, <1>2 DEF Types
  <1> QED BY <1>a, <1>1, <1>2, <1>3, <1>4, Kinds, Outdoors

LEMMA GuardKeeps == ASSUME IInv, NEW h \in Harvester, MissionGuard(h) PROVE IInv'
  <1>a. /\ UNCHANGED <<radioVars, mission, status, load, pos, nav, inside, sold, crowded, events>>
        /\ queue' = Assign(queue, h, "harvest") /\ Types /\ Talk
    BY DEF MissionGuard, goods, world, wayVars, IInv
  <1>1. Orders'
    BY <1>a DEF IInv, Orders
  <1>2. queue' \in [Object -> Queues] /\ \A r \in Refinery : queue'[r] = queue[r]
    BY <1>a, Assigned DEF Queues
  <1>3. Talk'
    BY <1>a, SameLiving, SameTalk
  <1>4. Types'
    BY <1>a, <1>2 DEF Types
  <1> QED BY <1>a, <1>1, <1>2, <1>3, <1>4, Outdoors DEF radioVars

(***************************************************************************)
(* A harvester's way.                                                      *)
(***************************************************************************)
LEMMA PerCellKeeps ==
  ASSUME IInv, NEW h \in Harvester, OnMap(h),
         NEW p \in Places, p # Limbo, \A r \in Refinery : p # Leaving(r),
         PerCell(h, p), UNCHANGED <<mission, status, load, inside, sold, crowded, events>>
  PROVE  IInv'
  <1> DEFINE letgo == tether[h] /\ mission[h] # "enter"
             c == IF letgo THEN Unloaded(Contact, radio[h], h) ELSE Contact
  <1>a. /\ Types /\ Talk /\ Sound(Contact, Living) /\ pos[h] # Limbo /\ h \in Object
        /\ Contact.radio = radio /\ Contact.tether = tether
    BY Kinds DEF IInv, Talk, OnMap, Contact
  <1>b. Orders'
    BY DEF IInv, Orders
  <1>1. Sound(c, Living) /\ \A z \in Object : c.radio[z] \in {radio[z], NoOne}
    <2>1. CASE letgo
      <3>1. radio[h] # NoOne
        BY <1>a, <2>1 DEF Sound
      <3>2. /\ Sound(Unloaded(Contact, Contact.radio[h], h), Living)
            /\ \A z \in Object : Unloaded(Contact, Contact.radio[h], h).radio[z]
                                 \in {Contact.radio[z], NoOne}
        BY <1>a, <3>1, UnloadedSound
      <3>3. c = Unloaded(Contact, Contact.radio[h], h)
        BY <1>a, <2>1
      <3> HIDE DEF c
      <3> QED BY <1>a, <3>2, <3>3
    <2>2. CASE ~letgo
      BY <1>a, <2>2
    <2> QED BY <2>1, <2>2
  <1>2. Say(c)
    BY DEF PerCell
  <1> HIDE DEF c
  <1>3. Sound(Contact', Living) /\ radio' = c.radio
    BY <1>1, <1>2, SayIs
  <1>4. /\ pos' = [pos EXCEPT ![h] = p]
        /\ \/ queue' = Assign(queue, h, "harvest") \/ UNCHANGED queue
        /\ \E w \in Ways : nav' = nav \/ nav' = [nav EXCEPT ![h] = w]
    BY DEF PerCell, Ways
  <1>5. queue' \in [Object -> Queues] /\ \A r \in Refinery : queue'[r] = queue[r]
    <2>1. CASE queue' = Assign(queue, h, "harvest")
      BY <1>a, <2>1, Assigned DEF Queues
    <2>2. CASE UNCHANGED queue
      BY <1>a, <2>2 DEF Types
    <2> QED BY <1>4, <2>1, <2>2
  <1>6. Types'
    BY <1>a, <1>4, <1>5 DEF Types
  <1>7. pos'[h] = p /\ \A g \in Harvester : g # h => pos'[g] = pos[g]
    BY <1>a, <1>4 DEF Types
  <1>8. Living \subseteq Living'
    BY <1>a, <1>7 DEF Living, Lives, OnMap, Stands
  <1>9. Talk'
    BY <1>3, <1>8, Wider DEF Talk
  <1>10. \A r \in Refinery : radio'[r] \in {radio[r], NoOne}
    BY <1>1, <1>3, Kinds
  <1> QED BY <1>a, <1>b, <1>5, <1>6, <1>7, <1>9, <1>10, Outdoors

\* RADIO_IM_IN.
LEMMA ImInKeeps ==
  ASSUME IInv, NEW h \in Harvester, NEW r \in Refinery, OnMap(h), Entering(h, r), ImIn(h, r),
         UNCHANGED <<mission, status, load, sold, crowded, events>>
  PROVE  IInv'
  <1>a. /\ Types /\ Talk /\ Sound(Contact, Living) /\ pos[h] # Limbo /\ h \in Object
        /\ r \in Object /\ Contact.radio = radio /\ radio[h] = r /\ r # NoOne
        /\ \A q \in Refinery : q # h /\ q \in Object
    BY Kinds DEF IInv, Talk, OnMap, Contact, Entering
  <1>b. Orders'
    BY DEF IInv, Orders
  <1>1. CASE mission[r] = "sell"
    <2>1. /\ pos' = [pos EXCEPT ![h] = OnRoad]
          /\ \E n \in {nav[h], OnRoad} : nav' = [nav EXCEPT ![h] = n]
          /\ UNCHANGED <<radioVars, queue, inside>>
      BY <1>1 DEF ImIn
    <2>2. Types'
      BY <1>a, <2>1 DEF Types, Places, Ways
    <2>3. pos'[h] = OnRoad /\ \A g \in Harvester : g # h => pos'[g] = pos[g]
      BY <1>a, <2>1 DEF Types
    <2>4. OnRoad # Limbo /\ \A s \in Refinery : OnRoad # Leaving(s)
      BY DEF OnRoad, Limbo, Leaving
    <2>5. Living \subseteq Living'
      BY <1>a, <2>3, <2>4 DEF Living, Lives, OnMap, Stands
    <2>6. Talk'
      BY <1>a, <2>1, <2>5, SameTalk
    <2> QED BY <1>a, <1>b, <2>1, <2>2, <2>3, <2>4, <2>6, Outdoors DEF radioVars
  <1>2. CASE mission[r] # "sell"
    <2>1. /\ queue' = Assign(queue, r, "harvest") /\ Say(OverOut(Contact, h))
          /\ pos' = [pos EXCEPT ![h] = Limbo] /\ UNCHANGED nav
          /\ inside' = [inside EXCEPT ![r] = <<h>> \o inside[r]]
      BY <1>2 DEF ImIn
    <2>2. Sound(OverOut(Contact, h), Living \ {h})
          /\ \A z \in Object : OverOut(Contact, h).radio[z] \in {radio[z], NoOne}
      BY <1>a, OverOutSound
    <2>3. Sound(Contact', Living \ {h}) /\ radio' = OverOut(Contact, h).radio
      BY <2>1, <2>2, SayIs
    <2>4. radio'[r] = NoOne /\ Stands(r)
      <3>1. radio[r] = h /\ r \in Living
        BY <1>a DEF Sound
      <3>2. OverOut(Contact, h).radio[r] = NoOne
        BY <1>a, <3>1 DEF OverOut
      <3> QED BY <1>a, <2>3, <3>1, <3>2, Kinds DEF Living, Lives
    <2>5. pos'[h] = Limbo /\ \A g \in Harvester : g # h => pos'[g] = pos[g]
      BY <1>a, <2>1 DEF Types
    <2>6. Talk'
      <3>1. Living \ {h} \subseteq Living'
        BY <1>a, <2>5 DEF Living, Lives, OnMap, Stands
      <3> QED BY <2>3, <3>1, Wider DEF Talk
    <2>7. /\ queue' \in [Object -> Queues] /\ "harvest" \in {mission[r], queue'[r]}
          /\ queue'[r] \in {queue[r], "harvest"}
          /\ \A q \in Object \ {r} : queue'[q] = queue[q]
      BY <1>a, <2>1 DEF Types, Assign, Queues
    <2>8. /\ inside[r] \in Seq(Harvester) /\ inside'[r] = <<h>> \o inside[r]
          /\ inside' \in [Refinery -> Seq(Harvester)]
          /\ \A q \in Refinery \ {r} : inside'[q] = inside[q]
      BY <1>a, <2>1 DEF Types
    <2>9. /\ DOMAIN inside'[r] = 1 .. Len(inside[r]) + 1 /\ inside'[r][1] = h
          /\ \A i \in DOMAIN inside'[r] : i # 1 => i - 1 \in DOMAIN inside[r]
                                                  /\ inside'[r][i] = inside[r][i - 1]
          /\ inside'[r] # << >> /\ Len(inside'[r]) = Len(inside[r]) + 1
          /\ \A i \in DOMAIN inside[r] : i + 1 \in DOMAIN inside'[r]
                                          /\ inside'[r][i + 1] = inside[r][i]
          /\ Len(inside[r]) \in Nat /\ DOMAIN inside[r] = 1 .. Len(inside[r])
      BY <2>8
    <2>10. Types'
      BY <1>a, <2>1, <2>7, <2>8 DEF Types, Places
    <2>11. Held'
      <3>1. \A q \in Refinery : \A i \in DOMAIN inside[q] :
               inside[q][i] \in Harvester /\ inside[q][i] # h /\ pos[inside[q][i]] = Limbo
        BY <1>a DEF IInv, Held, Types
      <3>2. ASSUME NEW q \in Refinery, NEW i \in DOMAIN inside'[q]
            PROVE  /\ pos'[inside'[q][i]] = Limbo
                   /\ inside'[q][i] = h <=> q = r /\ i = 1
                   /\ inside'[q][i] # h =>
                         \E k \in DOMAIN inside[q] : /\ inside'[q][i] = inside[q][k]
                                                     /\ k = IF q = r THEN i - 1 ELSE i
        BY <2>5, <2>8, <2>9, <3>1
      <3>3. ASSUME NEW q \in Refinery, NEW i \in DOMAIN inside'[q],
                   NEW s \in Refinery, NEW j \in DOMAIN inside'[s], inside'[q][i] = inside'[s][j]
            PROVE  q = s /\ i = j
        <4>1. CASE inside'[q][i] = h
          BY <3>2, <3>3, <4>1
        <4>2. CASE inside'[q][i] # h
          <5>1. PICK k \in DOMAIN inside[q] : /\ inside'[q][i] = inside[q][k]
                                              /\ k = IF q = r THEN i - 1 ELSE i
            BY <3>2, <4>2
          <5>2. PICK m \in DOMAIN inside[s] : /\ inside'[s][j] = inside[s][m]
                                              /\ m = IF s = r THEN j - 1 ELSE j
            BY <3>2, <3>3, <4>2
          <5>3. q = s /\ k = m
            <6>1. Held /\ inside[q][k] = inside[s][m]
              BY <3>3, <5>1, <5>2 DEF IInv
            <6> QED BY <6>1 DEF Held
          <5> QED BY <2>9, <5>1, <5>2, <5>3
        <4> QED BY <4>1, <4>2
      <3> QED BY <3>2, <3>3 DEF Held
    <2>12. ASSUME NEW q \in Refinery PROVE Single(q)' /\ Emptied(q)' /\ Busy(q)' /\ Duty(q)'
      <3>1. Single(q) /\ Emptied(q) /\ Busy(q) /\ Duty(q)
        BY DEF IInv, Routine
      <3>2. CASE q = r
        <4>1. r \notin crowded => inside[r] = << >> /\ mission[r] # "harvest"
          <5>1. radio[r] = h /\ h # NoOne
            BY <1>a, Kinds DEF Sound
          <5> QED BY <2>4, <3>1, <3>2, <5>1 DEF Single, Busy
        <4>2. inside'[r] # << >> /\ (r \notin crowded => Len(inside'[r]) <= 1)
          BY <2>9, <4>1
        <4> QED BY <2>4, <2>7, <3>1, <3>2, <4>1, <4>2 DEF Single, Emptied, Busy, Duty
      <3>3. CASE q # r
        <4>1. queue'[q] = queue[q] /\ inside'[q] = inside[q] /\ radio'[q] \in {radio[q], NoOne}
          BY <1>a, <2>2, <2>3, <2>7, <2>8, <3>3
        <4> QED BY <3>1, <4>1 DEF Single, Emptied, Busy, Duty, Stands
      <3> QED BY <3>2, <3>3
    <2>13. LeavesEmpty'
      <3>1. \A s \in Refinery : Limbo # Leaving(s)
        BY DEF Limbo, Leaving
      <3> QED BY <2>5, <3>1 DEF IInv, LeavesEmpty
    <2>14. NobodyForgotten'
      <3> SUFFICES ASSUME NEW g \in Harvester, pos'[g] = Limbo
                   PROVE  \E q \in Refinery : g \in ToSet(inside'[q]) /\ Minds(q)'
        BY DEF NobodyForgotten
      <3>1. CASE g = h
        <4>1. h \in ToSet(inside'[r]) /\ Serves(r)' /\ Stands(r)'
          BY <2>4, <2>7, <2>9 DEF ToSet, Serves, Stands
        <4> QED BY <3>1, <4>1 DEF Minds
      <3>2. CASE g # h
        <4>1. PICK q \in Refinery : g \in ToSet(inside[q]) /\ Minds(q)
          BY <2>5, <3>2 DEF IInv, NobodyForgotten
        <4>2. g \in ToSet(inside'[q])
          <5>1. PICK i \in DOMAIN inside[q] : inside[q][i] = g
            BY <4>1 DEF ToSet
          <5>2. \E j \in DOMAIN inside'[q] : inside'[q][j] = g
            BY <2>8, <2>9, <5>1
          <5> QED BY <5>2 DEF ToSet
        <4>3. Minds(q)'
          BY <1>a, <2>7, <4>1 DEF Minds, Serves, Stands
        <4> QED BY <4>2, <4>3
      <3> QED BY <3>1, <3>2
    <2>15. Routine'
      BY <2>12 DEF Routine
    <2> QED BY <1>b, <2>6, <2>10, <2>11, <2>13, <2>14, <2>15 DEF IInv
  <1> QED BY <1>1, <1>2

LEMMA DriveKeeps == ASSUME IInv, NEW h \in Harvester, Drive(h) PROVE IInv'
  <1>a. /\ UNCHANGED <<mission, status, load, sold, crowded, events>>
        /\ OnMap(h) /\ Types /\ nav[h] \in Ways /\ nav[h] # Nowhere
    BY DEF Drive, goods, world, IInv, Types
  <1>1. CASE PerCell(h, OnRoad) /\ UNCHANGED inside
    <2>1. OnRoad \in Places /\ OnRoad # Limbo /\ \A r \in Refinery : OnRoad # Leaving(r)
      BY DEF Places, OnRoad, Limbo, Leaving
    <2> QED BY <1>1, <1>a, <2>1, PerCellKeeps
  <1>2. CASE nav[h][1] # "bay" /\ PerCell(h, nav[h]) /\ UNCHANGED inside
    <2>1. nav[h] \in {InField, OnRoad} \cup ({"dock"} \X Refinery)
      BY <1>2, <1>a DEF Ways
    <2>2. nav[h] \in Places /\ nav[h] # Limbo /\ \A r \in Refinery : nav[h] # Leaving(r)
      BY <2>1 DEF Places, InField, OnRoad, Limbo, Leaving
    <2> QED BY <1>2, <1>a, <2>2, PerCellKeeps
  <1>3. ASSUME NEW r \in Refinery, Entering(h, r), ImIn(h, r) PROVE IInv'
    BY <1>3, <1>a, ImInKeeps
  <1> QED BY <1>1, <1>2, <1>3 DEF Drive

LEMMA TurnedKeeps == ASSUME IInv, NEW h \in Harvester, Turned(h) PROVE IInv'
  <1>a. /\ UNCHANGED <<mission, status, load, inside, sold, crowded, events>>
        /\ OnMap(h) /\ pos[h] \in Places /\ pos[h][1] = "aligned" /\ PerCell(h, Dock(pos[h][2]))
    BY DEF Turned, goods, world, IInv, Types
  <1>1. pos[h][2] \in Refinery
    BY <1>a DEF Places, Nowhere, InField, OnRoad, Limbo
  <1>2. /\ Dock(pos[h][2]) \in Places /\ Dock(pos[h][2]) # Limbo
        /\ \A r \in Refinery : Dock(pos[h][2]) # Leaving(r)
    BY <1>1 DEF Places, Dock, Limbo, Leaving
  <1> QED BY <1>a, <1>2, PerCellKeeps

LEMMA EndTrackKeeps == ASSUME IInv, NEW h \in Harvester, EndTrack(h) PROVE IInv'
  <1>a. UNCHANGED <<mission, status, load, sold, crowded, events>> /\ OnMap(h)
    BY DEF EndTrack, goods, world
  <1>1. ASSUME NEW r \in Refinery, Entering(h, r), ImIn(h, r) PROVE IInv'
    BY <1>1, <1>a, ImInKeeps
  <1>2. CASE PerCell(h, OnRoad) /\ UNCHANGED inside
    <2>1. OnRoad \in Places /\ OnRoad # Limbo /\ \A r \in Refinery : OnRoad # Leaving(r)
      BY DEF Places, OnRoad, Limbo, Leaving
    <2> QED BY <1>2, <1>a, <2>1, PerCellKeeps
  <1>3. ASSUME NEW r \in Refinery, PerCell(h, Dock(r)), UNCHANGED inside PROVE IInv'
    <2>1. Dock(r) \in Places /\ Dock(r) # Limbo /\ \A s \in Refinery : Dock(r) # Leaving(s)
      BY DEF Places, Dock, Limbo, Leaving
    <2> QED BY <1>3, <1>a, <2>1, PerCellKeeps
  <1> QED BY <1>1, <1>2, <1>3 DEF EndTrack

\* Only the way of harvesters, or the orders under way, change.
LEMMA WayKeeps ==
  ASSUME IInv, UNCHANGED <<radioVars, mission, queue, status, pos, load, inside, sold, crowded>>,
         nav' \in [Harvester -> Ways], Orders'
  PROVE  IInv'
  <1>1. Talk'
    BY SameLiving, SameTalk DEF IInv
  <1>2. Types'
    BY DEF IInv, Types
  <1> QED BY <1>1, <1>2, Outdoors DEF radioVars

LEMMA MakeWayKeeps == ASSUME IInv, NEW h \in Harvester, MakeWay(h) PROVE IInv'
  <1>1. /\ UNCHANGED <<radioVars, mission, queue, status, pos, load, inside, sold, crowded, events>>
        /\ \E r \in Refinery : nav' = Scattered(nav, r)
    BY DEF MakeWay, missionVars, goods, world
  <1>2. \A r \in Refinery : Scattered(nav, r) \in [Harvester -> Ways]
    BY DEF IInv, Types, Scattered, Ways
  <1>3. Orders'
    BY <1>1 DEF IInv, Orders
  <1> QED BY <1>1, <1>2, <1>3, WayKeeps

LEMMA NoPathKeeps == ASSUME IInv, NEW h \in Harvester, NoPath(h) PROVE IInv'
  <1>1. /\ UNCHANGED <<radioVars, mission, queue, status, pos, load, inside, sold, crowded, events>>
        /\ nav' = [nav EXCEPT ![h] = Nowhere]
    BY DEF NoPath, missionVars, goods
  <1>2. nav' \in [Harvester -> Ways]
    BY <1>1 DEF IInv, Types, Ways
  <1>3. Orders'
    BY <1>1 DEF IInv, Orders
  <1> QED BY <1>1, <1>2, <1>3, WayKeeps

(***************************************************************************)
(* What comes between.                                                     *)
(***************************************************************************)
LEMMA ClickKeeps == ASSUME IInv, Click PROVE IInv'
  <1>1. /\ UNCHANGED <<radioVars, mission, queue, status, pos, nav, load, inside, sold, crowded>>
        /\ \E h \in Harvester, r \in Refinery :
              \E e \in {Order("move", h, OnRoad), Order("harvest", h, InField),
                       Order("stop", h, Nowhere), Order("enter", h, Bay(r)),
                       Order("sell", r, Nowhere)} : events' = events \cup {e}
    BY DEF Click, missionVars, wayVars, goods
  <1>2. Orders'
    BY <1>1 DEF IInv, Orders, Order, Ways, Bay
  <1>3. nav' \in [Harvester -> Ways]
    BY <1>1 DEF IInv, Types
  <1> QED BY <1>1, <1>2, <1>3, WayKeeps

\* A refinery's mission: nobody comes or goes.
LEMMA Indoors ==
  ASSUME IInv, NEW r \in Refinery, Types', Orders', Talk',
         UNCHANGED <<pos, load, inside, crowded>>, sold \subseteq sold',
         \A q \in Refinery : radio'[q] \in {radio[q], NoOne},
         \A q \in Refinery \ {r} :
            mission'[q] = mission[q] /\ queue'[q] = queue[q] /\ status'[q] = status[q],
         Emptied(r)', Busy(r)', Duty(r)',
         Minds(r) => Minds(r)'
  PROVE  IInv'
  <1>1. Held'
    BY DEF IInv, Held
  <1>2. \A q \in Refinery : Single(q)'
    BY DEF IInv, Routine, Single
  <1>3. \A q \in Refinery \ {r} : Emptied(q)' /\ Busy(q)' /\ Duty(q)' /\ (Minds(q) => Minds(q)')
    <2> TAKE q \in Refinery \ {r}
    <2>1. Emptied(q) /\ Busy(q) /\ Duty(q)
      BY DEF IInv, Routine
    <2> QED BY <2>1 DEF Emptied, Busy, Duty, Minds, Serves, Stands
  <1>4. LeavesEmpty'
    BY DEF IInv, LeavesEmpty
  <1>5. NobodyForgotten'
    BY <1>3 DEF IInv, NobodyForgotten
  <1> QED BY <1>1, <1>2, <1>3, <1>4, <1>5 DEF IInv, Routine

LEMMA SellKeeps ==
  ASSUME IInv, NEW r \in Refinery, Sell_Back(r), Orders',
         UNCHANGED <<mission, status, pos, load, inside, sold, crowded>>
  PROVE  IInv'
  <1>1. queue' = Assign(queue, r, "sell") /\ UNCHANGED <<radio, radioVars, nav>> /\ r \in Object
    BY Kinds DEF Sell_Back, radioVars
  <1>2. /\ queue' \in [Object -> Queues] /\ queue'[r] \in {queue[r], "sell"}
        /\ mission[r] = "sell" => queue'[r] = queue[r]
        /\ \A q \in Object \ {r} : queue'[q] = queue[q]
    BY <1>1 DEF IInv, Types, Assign, Queues
  <1>3. Types'
    BY <1>1, <1>2 DEF IInv, Types
  <1>4. Talk'
    BY <1>1, SameLiving, SameTalk DEF IInv
  <1>5. Emptied(r) /\ Busy(r) /\ Duty(r)
    BY DEF IInv, Routine
  <1>6. Emptied(r)' /\ Busy(r)' /\ Duty(r)'
    BY <1>2, <1>5 DEF Emptied, Busy, Duty, Stands
  <1>7. Minds(r) => Minds(r)'
    BY <1>2 DEF Minds, Stands, Serves
  <1> QED BY <1>1, <1>2, <1>3, <1>4, <1>6, <1>7, Kinds, Indoors

LEMMA ExecuteKeeps == ASSUME IInv, Execute PROVE IInv'
  <1>a. /\ UNCHANGED <<mission, status, pos, load, inside, sold, crowded>>
        /\ Types /\ Talk /\ Sound(Contact, Living) /\ nav \in [Harvester -> Ways]
        /\ Contact.radio = radio
    BY DEF Execute, goods, IInv, Talk, Types, Contact
  <1>b. Orders'
    BY DEF Execute, IInv, Orders
  <1>1. CASE UNCHANGED <<radioVars, queue, nav>>
    BY <1>1, <1>a, <1>b, WayKeeps
  <1>2. ASSUME NEW e \in events, MegaMission(e) PROVE IInv'
    <2> DEFINE h == e.whom
               c == IF tether[h] THEN Contact ELSE OverOut(Contact, h)
    <2>1. h \in Harvester /\ e.to \in Ways /\ e.what \in Queues /\ h \in Object
      BY <1>2, Kinds DEF IInv, Orders, MegaMission, Queues
    <2>2. Say(c) /\ queue' = Assign(queue, h, e.what) /\ nav' = [nav EXCEPT ![h] = e.to]
      BY <1>2 DEF MegaMission
    <2>3. Sound(c, Living) /\ \A z \in Object : c.radio[z] \in {radio[z], NoOne}
      <3>1. Sound(OverOut(Contact, h), Living \ {h})
            /\ \A z \in Object : OverOut(Contact, h).radio[z] \in {radio[z], NoOne}
        BY <1>a, <2>1, OverOutSound
      <3>2. Sound(OverOut(Contact, h), Living)
        BY <3>1, Wider
      <3> QED BY <1>a, <3>1, <3>2
    <2> HIDE DEF c, h
    <2>4. Sound(Contact', Living) /\ radio' = c.radio
      BY <2>2, <2>3, SayIs
    <2>5. queue' \in [Object -> Queues] /\ \A r \in Refinery : queue'[r] = queue[r]
      BY <1>a, <2>1, <2>2, Assigned DEF h
    <2>6. Types'
      BY <1>a, <2>1, <2>2, <2>5 DEF Types
    <2>7. Talk'
      BY <1>a, <2>4, SameLiving DEF Talk
    <2> QED BY <1>a, <1>b, <2>3, <2>4, <2>5, <2>6, <2>7, Kinds, Outdoors
  <1>3. ASSUME NEW e \in events, Idle(e) PROVE IInv'
    <2>1. e.whom \in Harvester /\ EnterIdle(Contact, [nav EXCEPT ![e.whom] = Nowhere], e.whom)
      BY <1>3 DEF IInv, Orders, Idle
    <2>2. [nav EXCEPT ![e.whom] = Nowhere] \in [Harvester -> Ways]
      BY <1>a, <2>1 DEF Ways
    <2>3. /\ Sound(Contact', Living)
          /\ \A x \in Object : radio'[x] \in {radio[x], NoOne}
          /\ nav' \in [Harvester -> Ways] /\ queue' \in [Object -> Queues]
          /\ \A r \in Refinery : queue'[r] = queue[r]
      BY <1>a, <2>1, <2>2, IdleSound
    <2>4. Talk'
      BY <1>a, <2>3, SameLiving DEF Talk
    <2>5. Types'
      BY <1>a, <2>3 DEF Types
    <2> QED BY <1>a, <1>b, <2>3, <2>4, <2>5, Kinds, Outdoors
  <1>4. ASSUME NEW e \in events, e.what = "sell", Sell_Back(e.whom) PROVE IInv'
    <2>1. e.whom \in Refinery
      BY <1>4 DEF IInv, Orders
    <2> QED BY <1>4, <1>a, <1>b, <2>1, SellKeeps
  <1> QED BY <1>1, <1>2, <1>3, <1>4 DEF Execute

LEMMA HurtKeeps == ASSUME IInv, NEW h \in Harvester, Hurt(h) PROVE IInv'
  <1>a. /\ UNCHANGED <<mission, status, pos, nav, load, inside, sold, crowded, events>>
        /\ OnMap(h) /\ h \in Object /\ Types /\ Talk /\ Sound(Contact, Living)
        /\ Contact.radio = radio /\ queue' = Assign(queue, h, "enter")
        /\ \A r \in Refinery : r # h /\ r \in Object
    BY Kinds DEF Hurt, goods, wayVars, IInv, Talk, Contact
  <1>b. Orders'
    BY <1>a DEF IInv, Orders
  <1>1. PICK r \in Refinery : CanLoad(r) /\ Say(Hello(Contact, h, r))
    BY DEF Hurt
  <1>2. /\ h \in Living /\ r \in Living /\ r \in Partners(h) /\ h \in Partners(r)
        /\ r \in Object /\ inside[r] = << >>
    BY <1>a, <1>1, Kinds DEF CanLoad, Living, Lives
  <1>3. /\ Sound(Hello(Contact, h, r), Living)
        /\ \A z \in Object \ {h, r} : Hello(Contact, h, r).radio[z] \in {radio[z], NoOne}
    BY <1>a, <1>2, HelloSound
  <1>4. Sound(Contact', Living) /\ radio' = Hello(Contact, h, r).radio
    BY <1>1, <1>3, SayIs
  <1>5. queue' \in [Object -> Queues] /\ \A s \in Refinery : queue'[s] = queue[s]
    BY <1>a, Assigned DEF Queues
  <1>6. Types'
    BY <1>a, <1>5 DEF Types
  <1>7. Talk'
    BY <1>a, <1>4, SameLiving DEF Talk
  <1>8. \A s \in Refinery : radio'[s] \in {radio[s], NoOne} \/ inside[s] = << >>
    BY <1>a, <1>2, <1>3, <1>4
  <1> QED BY <1>a, <1>b, <1>5, <1>6, <1>7, <1>8, Outdoors

LEMMA HarvesterDiesKeeps == ASSUME IInv, NEW h \in Harvester, HarvesterDies(h) PROVE IInv'
  <1>a. /\ UNCHANGED <<queue, status, inside, sold, crowded, events>>
        /\ OnMap(h) /\ pos[h] # Limbo /\ h \in Object /\ Types /\ Talk /\ Sound(Contact, Living)
        /\ Contact.radio = radio /\ Say(OverOut(Contact, h))
        /\ mission' = [mission EXCEPT ![h] = "gone"] /\ pos' = [pos EXCEPT ![h] = Nowhere]
        /\ nav' = [nav EXCEPT ![h] = Nowhere] /\ load' = [load EXCEPT ![h] = 0]
        /\ \A r \in Refinery : r # h /\ r \in Object
    BY Kinds DEF HarvesterDies, IInv, Talk, Contact, OnMap
  <1>b. Orders'
    BY <1>a DEF IInv, Orders
  <1>1. /\ Sound(OverOut(Contact, h), Living \ {h})
        /\ \A z \in Object : OverOut(Contact, h).radio[z] \in {radio[z], NoOne}
    BY <1>a, OverOutSound
  <1>2. Sound(Contact', Living \ {h}) /\ radio' = OverOut(Contact, h).radio
    BY <1>a, <1>1, SayIs
  <1>3. /\ pos'[h] = Nowhere /\ \A g \in Harvester : g # h => pos'[g] = pos[g] /\ load'[g] = load[g]
        /\ \A x \in Object : x # h => mission'[x] = mission[x]
    BY <1>a DEF Types
  <1>4. Living \ {h} \subseteq Living'
    BY <1>3, Kinds DEF Living, Lives, OnMap, Stands
  <1>5. Talk'
    BY <1>2, <1>4, Wider DEF Talk
  <1>6. Types'
    BY <1>a DEF Types, Missions, Places, Ways
  <1>7. Nowhere # Limbo /\ \A r \in Refinery : Nowhere # Leaving(r)
    BY DEF Nowhere, Limbo, Leaving
  <1>8. \A r \in Refinery : radio'[r] \in {radio[r], NoOne} /\ mission'[r] = mission[r]
    BY <1>a, <1>1, <1>2, <1>3
  <1> QED BY <1>a, <1>b, <1>3, <1>5, <1>6, <1>7, <1>8, Outdoors

(***************************************************************************)
(* A refinery.                                                             *)
(***************************************************************************)
LEMMA AnimateKeeps == ASSUME IInv, NEW r \in Refinery, Animate(r) PROVE IInv'
  <1>1. UNCHANGED <<radioVars, mission, queue, status, pos, nav, load, inside, sold, crowded, events>>
    BY DEF Animate, missionVars, wayVars, goods, world
  <1>2. Orders' /\ nav' \in [Harvester -> Ways]
    BY <1>1 DEF IInv, Orders, Types
  <1> QED BY <1>1, <1>2, WayKeeps

LEMMA CommenceBuildingKeeps == ASSUME IInv, NEW r \in Refinery, CommenceBuilding(r) PROVE IInv'
  <1>a. /\ UNCHANGED <<radioVars, radio, nav, pos, load, inside, crowded, events>>
        /\ Stands(r) /\ queue[r] # "none" /\ r \in Object /\ r \notin Harvester /\ Types /\ Talk
        /\ mission' = [mission EXCEPT ![r] = queue[r]]
        /\ queue' = [queue EXCEPT ![r] = "none"]
        /\ status' = [status EXCEPT ![r] = "initial"]
        /\ sold' = IF queue[r] = "sell" THEN sold \cup {r} ELSE sold
    BY Kinds DEF CommenceBuilding, radioVars, wayVars, goods, IInv
  <1>1. Emptied(r) /\ Busy(r) /\ Duty(r)
    BY DEF IInv, Routine
  <1>2. queue[r] \in {"harvest", "sell"}
    BY <1>a, <1>1 DEF Duty
  <1>3. mission'[r] = queue[r] /\ queue'[r] = "none" /\ status'[r] = "initial"
        /\ \A x \in Object \ {r} : mission'[x] = mission[x] /\ queue'[x] = queue[x]
                                   /\ status'[x] = status[x]
    BY <1>a DEF Types
  <1>4. Types'
    BY <1>a, <1>2 DEF Types, Missions, Queues, Statuses
  <1>5. Living \subseteq Living'
    BY <1>a, <1>2, <1>3 DEF Living, Lives, OnMap, Stands
  <1>6. Talk'
    BY <1>a, <1>5, SameTalk
  <1>7. Orders'
    BY <1>a DEF IInv, Orders
  <1>8. Emptied(r)' /\ Busy(r)' /\ Duty(r)'
    BY <1>a, <1>1, <1>2, <1>3 DEF Emptied, Busy, Duty
  <1>9. Minds(r) => Minds(r)'
    BY <1>a, <1>2, <1>3 DEF Minds, Stands, Serves
  <1>10. sold \subseteq sold'
    BY <1>a
  <1>11. \A q \in Refinery \ {r} :
            mission'[q] = mission[q] /\ queue'[q] = queue[q] /\ status'[q] = status[q]
    BY <1>3, Kinds
  <1>12. UNCHANGED <<pos, load, inside, crowded>> /\ \A q \in Refinery : radio'[q] \in {radio[q], NoOne}
    BY <1>a
  <1> QED BY <1>4, <1>6, <1>7, <1>8, <1>9, <1>10, <1>11, <1>12, Indoors

\* Only the handler's own state changes, or the doors are told to open.
LEMMA StatusKeeps ==
  ASSUME IInv, NEW r \in Refinery, NEW s \in Statuses, s # "wait_undock",
         status' = [status EXCEPT ![r] = s], Talk', nav' \in [Harvester -> Ways],
         UNCHANGED <<mission, queue, pos, load, inside, sold, crowded, events>>,
         \A q \in Refinery : radio'[q] \in {radio[q], NoOne}
  PROVE  IInv'
  <1>1. /\ status' \in [Object -> Statuses] /\ status'[r] = s
        /\ \A q \in Refinery \ {r} : status'[q] = status[q]
    BY Kinds DEF IInv, Types
  <1>2. Types'
    BY <1>1 DEF IInv, Types
  <1>3. Orders'
    BY DEF IInv, Orders
  <1>4. Emptied(r)' /\ Busy(r)' /\ Duty(r)'
    BY <1>1 DEF IInv, Routine, Emptied, Busy, Duty, Stands
  <1>5. Minds(r) => Minds(r)'
    BY DEF Minds, Stands, Serves
  <1> QED BY <1>1, <1>2, <1>3, <1>4, <1>5, Indoors

LEMMA WorkKeeps ==
  ASSUME IInv, NEW r \in Refinery, Expect(r) \/ Docked(r) \/ Sold(r) \/ Hold(r) \/ Dismantle(r)
  PROVE  IInv'
  <1>a. /\ UNCHANGED <<mission, queue, pos, load, inside, sold, crowded, events>>
        /\ nav \in [Harvester -> Ways] /\ Talk /\ Sound(Contact, Living) /\ Contact.radio = radio
        /\ r \in Object
    BY Kinds DEF Expect, Docked, Sold, Hold, Dismantle, missionVars, goods, world, wayVars, IInv, Types, Talk, Contact
  <1>1. ASSUME UNCHANGED radioVars PROVE Talk' /\ \A q \in Refinery : radio'[q] \in {radio[q], NoOne}
    BY <1>1, <1>a, SameLiving, SameTalk DEF radioVars
  <1>2. CASE Expect(r) \/ Docked(r)
    <2>1. UNCHANGED radioVars /\ nav' \in [Harvester -> Ways]
      BY <1>2, <1>a DEF Expect, Docked, wayVars
    <2>2. \E s \in Statuses \ {"wait_undock"} : status' = [status EXCEPT ![r] = s]
      BY <1>2 DEF Expect, Docked, Statuses
    <2> QED BY <1>a, <1>1, <2>1, <2>2, StatusKeeps
  <1>3. CASE Sold(r)
    <2>1. UNCHANGED radioVars /\ status' = [status EXCEPT ![r] = "holding"]
          /\ nav' \in [Harvester -> Ways]
      BY <1>3, <1>a DEF Sold, WarnOff, Ways
    <2>2. "holding" \in Statuses /\ "holding" # "wait_undock"
      BY DEF Statuses
    <2> QED BY <1>a, <1>1, <2>1, <2>2, StatusKeeps
  <1>4. CASE Dismantle(r)
    <2>1. /\ Say(OverOut(Contact, r)) /\ status' = [status EXCEPT ![r] = "during"]
          /\ nav' \in [Harvester -> Ways]
      BY <1>4, <1>a DEF Dismantle, Ways
    <2>2. /\ Sound(OverOut(Contact, r), Living \ {r})
          /\ \A z \in Object : OverOut(Contact, r).radio[z] \in {radio[z], NoOne}
      BY <1>a, OverOutSound
    <2>3. Sound(Contact', Living \ {r}) /\ radio' = OverOut(Contact, r).radio
      BY <2>1, <2>2, SayIs
    <2>4. Talk'
      <3>1. Living' = Living
        BY <1>a, SameLiving
      <3> QED BY <2>3, <3>1, Wider DEF Talk
    <2>5. "during" \in Statuses /\ "during" # "wait_undock"
      BY DEF Statuses
    <2>6. \A q \in Refinery : radio'[q] \in {radio[q], NoOne}
      BY <2>2, <2>3, Kinds
    <2> QED BY <1>a, <2>1, <2>4, <2>5, <2>6, StatusKeeps
  <1>5. CASE Hold(r)
    <2>1. UNCHANGED radioVars /\ status' = [status EXCEPT ![r] = "holding"]
          /\ nav' \in [Harvester -> Ways]
      BY <1>5, <1>a DEF Hold, WarnOff, Steps, Ways, missionVars, IInv, Types
    <2>2. "holding" \in Statuses /\ "holding" # "wait_undock"
      BY DEF Statuses
    <2> QED BY <1>a, <1>1, <2>1, <2>2, StatusKeeps
  <1> QED BY <1>2, <1>3, <1>4, <1>5

LEMMA SoldOutKeeps == ASSUME IInv, NEW r \in Refinery, SoldOut(r) PROVE IInv'
  <1>a. /\ UNCHANGED <<queue, status, pos, load, inside, sold, crowded, events>>
        /\ mission[r] = "sell" /\ mission' = [mission EXCEPT ![r] = "gone"]
        /\ Say(OverOut(Contact, r)) /\ nav' \in [Harvester -> Ways]
        /\ Types /\ Talk /\ Sound(Contact, Living) /\ Contact.radio = radio
        /\ r \in Object /\ r \notin Harvester
    BY Kinds DEF SoldOut, Vanish, Steps, goods, world, IInv, Types, Ways, Talk, Contact
  <1>1. /\ Sound(OverOut(Contact, r), Living \ {r})
        /\ \A z \in Object : OverOut(Contact, r).radio[z] \in {radio[z], NoOne}
    BY <1>a, OverOutSound
  <1>2. Sound(Contact', Living \ {r}) /\ radio' = OverOut(Contact, r).radio
    BY <1>a, <1>1, SayIs
  <1>3. mission'[r] = "gone" /\ \A x \in Object \ {r} : mission'[x] = mission[x]
    BY <1>a DEF Types
  <1>4. Living \ {r} \subseteq Living'
    BY <1>a, <1>3 DEF Living, Lives, OnMap, Stands
  <1>5. Talk'
    BY <1>2, <1>4, Wider DEF Talk
  <1>6. Types' /\ Orders'
    BY <1>a DEF Types, Missions, IInv, Orders
  <1>7. r \in sold /\ Duty(r)
    BY <1>a DEF IInv, Routine, Duty
  <1>8. Emptied(r)' /\ Busy(r)' /\ Duty(r)'
    BY <1>a, <1>3, <1>7 DEF Emptied, Busy, Duty, Stands
  <1>9. \A q \in Refinery : radio'[q] \in {radio[q], NoOne}
    BY <1>1, <1>2, Kinds
  <1>10. /\ UNCHANGED <<pos, load, inside, crowded, sold>> /\ sold \subseteq sold' /\ Minds(r)'
         /\ \A q \in Refinery \ {r} :
               mission'[q] = mission[q] /\ queue'[q] = queue[q] /\ status'[q] = status[q]
    BY <1>a, <1>3, <1>7, Kinds DEF Minds
  <1> QED BY <1>5, <1>6, <1>8, <1>9, <1>10, Indoors

LEMMA OffloadKeeps == ASSUME IInv, NEW r \in Refinery, Offload(r) PROVE IInv'
  <1> DEFINE h == Head(inside[r])
             bail == inside[r] # << >> /\ load[h] > 0
  <1>a. /\ UNCHANGED <<radioVars, radio, mission, queue, pos, inside, sold, crowded, events>>
        /\ nav' = Scattered(nav, r) /\ status[r] = "middle"
        /\ \/ bail /\ load' = [load EXCEPT ![h] = @ - 1]
           \/ ~bail /\ UNCHANGED load
        /\ status' = IF bail /\ load[h] > 1 THEN status ELSE [status EXCEPT ![r] = "wait_undock"]
        /\ Types /\ Talk /\ r \in Object
    BY Kinds DEF Offload, Steps, radioVars, world, IInv
  <1>1. \A q \in Refinery : inside[q] # << >> => Head(inside[q]) \in Harvester
                                                /\ pos[Head(inside[q])] = Limbo
    <2>1. \A q \in Refinery : inside[q] # << >> => 1 \in DOMAIN inside[q]
                                /\ Head(inside[q]) = inside[q][1] /\ inside[q][1] \in Harvester
      BY <1>a DEF Types
    <2> QED BY <2>1 DEF IInv, Held
  <1>2. /\ load' \in [Harvester -> Nat]
        /\ \A g \in Harvester : /\ pos[g] # Limbo => load'[g] = load[g]
                                /\ load[g] = 0 => load'[g] = 0
        /\ status'[r] = "wait_undock" /\ inside[r] # << >> => load'[h] = 0
    <2>1. CASE bail
      <3>1. h \in Harvester /\ load[h] \in Nat /\ load[h] > 0 /\ pos[h] = Limbo
            /\ load' = [load EXCEPT ![h] = load[h] - 1] /\ load \in [Harvester -> Nat]
        BY <1>a, <1>1, <2>1 DEF Types
      <3>2. load[h] > 1 => status'[r] # "wait_undock"
        BY <1>a, <2>1
      <3> HIDE DEF h, bail
      <3> QED BY <3>1, <3>2
    <2>2. CASE ~bail
      <3>1. inside[r] # << >> => h \in Harvester /\ load[h] \in Nat
        BY <1>a, <1>1 DEF Types
      <3> QED BY <1>a, <2>2, <3>1 DEF Types
    <2> QED BY <2>1, <2>2
  <1>3. status' \in [Object -> Statuses] /\ \A q \in Refinery \ {r} : status'[q] = status[q]
    BY <1>a, Kinds DEF Types, Statuses
  <1>4. Types'
    <2>1. nav' \in [Harvester -> Ways]
      BY <1>a DEF Types, Scattered, Ways
    <2> QED BY <1>a, <1>2, <1>3, <2>1 DEF Types
  <1>5. Orders' /\ Held' /\ NobodyForgotten'
    BY <1>a DEF IInv, Orders, Held, NobodyForgotten, Minds, Stands, Serves
  <1>6. Talk'
    BY <1>a, SameLiving, SameTalk
  <1>7. LeavesEmpty'
    <2>1. \A s \in Refinery : Leaving(s) # Limbo
      BY DEF Leaving, Limbo
    <2> QED BY <1>a, <1>2, <2>1 DEF IInv, LeavesEmpty
  <1>8. ASSUME NEW q \in Refinery PROVE Single(q)' /\ Emptied(q)' /\ Busy(q)' /\ Duty(q)'
    <2>1. Single(q) /\ Emptied(q) /\ Busy(q) /\ Duty(q)
      BY DEF IInv, Routine
    <2>2. Single(q)' /\ Busy(q)' /\ Duty(q)'
      BY <1>a, <2>1 DEF Single, Busy, Duty, Stands
    <2>3. Emptied(q)'
      BY <1>a, <1>1, <1>2, <1>3, <2>1 DEF Emptied
    <2> QED BY <2>2, <2>3
  <1> QED BY <1>4, <1>5, <1>6, <1>7, <1>8 DEF IInv, Routine

LEMMA ComputerSellsKeeps == ASSUME IInv, NEW r \in Refinery, ComputerSells(r) PROVE IInv'
  <1>1. /\ UNCHANGED <<mission, status, pos, load, inside, sold, crowded, events>>
        /\ Sell_Back(r)
    BY DEF ComputerSells, goods
  <1>2. Orders'
    BY <1>1 DEF IInv, Orders
  <1> QED BY <1>1, <1>2, SellKeeps

\* The harvester in front is in contact again, if the refinery is silent.
LEMMA LetOutKeeps == ASSUME IInv, NEW r \in Refinery, LetOut(r) PROVE IInv'
  <1>a. /\ UNCHANGED <<load, sold, crowded, events>> /\ mission[r] = "harvest"
        /\ status[r] = "wait_undock" /\ Stands(r) /\ r \in Object /\ Types /\ Talk
        /\ Sound(Contact, Living) /\ Contact.radio = radio
    BY Kinds DEF LetOut, Steps, goods, world, IInv, Talk, Contact
  <1>b. Orders'
    BY <1>a DEF IInv, Orders
  <1>c. Single(r) /\ Emptied(r) /\ Busy(r) /\ Duty(r)
    BY DEF IInv, Routine
  <1>1. CASE inside[r] = << >>
    <2>1. /\ UNCHANGED <<radioVars, radio, pos, nav, inside, status>>
          /\ mission' = [mission EXCEPT ![r] = "guard"] /\ queue' = [queue EXCEPT ![r] = "none"]
      BY <1>1 DEF LetOut, radioVars
    <2>2. r \in crowded
      BY <1>1, <1>a, <1>c DEF Busy
    <2>3. /\ mission'[r] = "guard" /\ queue'[r] = "none"
          /\ \A x \in Object \ {r} : mission'[x] = mission[x] /\ queue'[x] = queue[x]
      BY <1>a, <2>1 DEF Types
    <2>4. Types'
      BY <1>a, <2>1 DEF Types, Missions, Queues
    <2>5. Talk'
      <3>1. Living \subseteq Living'
        BY <1>a, <2>1, <2>3 DEF Living, Lives, OnMap, Stands
      <3> QED BY <1>a, <2>1, <3>1, SameTalk
    <2>6. Emptied(r)' /\ Busy(r)' /\ Duty(r)'
      BY <1>a, <2>2, <2>3 DEF Emptied, Busy, Duty
    <2>7. Minds(r)'
      BY <1>a, <2>2, <2>3 DEF Minds, Stands
    <2>8. /\ UNCHANGED <<pos, load, inside, crowded>> /\ sold \subseteq sold'
          /\ \A q \in Refinery : radio'[q] \in {radio[q], NoOne}
          /\ \A q \in Refinery \ {r} :
                mission'[q] = mission[q] /\ queue'[q] = queue[q] /\ status'[q] = status[q]
      BY <1>a, <2>1, <2>3, Kinds
    <2> QED BY <1>b, <2>4, <2>5, <2>6, <2>7, <2>8, Indoors
  <1>2. CASE inside[r] # << >>
    <2> DEFINE h == Head(inside[r])
               c == Hello(Contact, r, h)
               d == IF c.radio[r] = h THEN [c EXCEPT !.tether = Tethered(c.tether, r, h)] ELSE c
               A == Living \cup {h}
    <2>1. /\ Say(d) /\ pos' = [pos EXCEPT ![h] = Leaving(r)] /\ nav' = [nav EXCEPT ![h] = Nowhere]
          /\ inside' = [inside EXCEPT ![r] = Tail(inside[r])]
          /\ mission' = [mission EXCEPT ![r] = "guard", ![h] = "harvest"]
          /\ queue' = [queue EXCEPT ![r] = "none", ![h] = "none"]
          /\ status' = [status EXCEPT ![h] = "looking"]
      BY <1>2 DEF LetOut
    <2>2. /\ 1 \in DOMAIN inside[r] /\ h = inside[r][1] /\ h \in Harvester /\ inside[r] \in Seq(Harvester)
          /\ Tail(inside[r]) \in Seq(Harvester) /\ Len(Tail(inside[r])) = Len(inside[r]) - 1
          /\ DOMAIN Tail(inside[r]) = 1 .. Len(inside[r]) - 1
          /\ \A i \in DOMAIN Tail(inside[r]) : i + 1 \in DOMAIN inside[r]
                                               /\ Tail(inside[r])[i] = inside[r][i + 1]
          /\ \A i \in DOMAIN inside[r] : i # 1 => i - 1 \in DOMAIN Tail(inside[r])
                                                  /\ Tail(inside[r])[i - 1] = inside[r][i]
      BY <1>2, <1>a DEF Types
    <2>3. /\ h \in Object /\ h # r /\ r \in Partners(h) /\ h \in Partners(r) /\ r \in A
          /\ \A q \in Refinery : q # h /\ q \in Object
      BY <1>a, <2>2, Kinds DEF Living, Lives
    <2> HIDE DEF h
    <2>4. /\ Sound(d, A)
          /\ \A q \in Refinery \ {r} : d.radio[q] \in {radio[q], NoOne}
      <3>1. Sound(Contact, A)
        BY <1>a, Wider
      <3>2. /\ Sound(c, A)
            /\ \A z \in Object \ {r, h} : c.radio[z] \in {Contact.radio[z], NoOne}
        <4>1. Accepts(OverOut(Contact, r), r, h) => h \in A
          OBVIOUS
        <4> HIDE DEF A
        <4> QED BY <1>a, <2>3, <3>1, <4>1, HelloSound
      <3> HIDE DEF c, A
      <3>3. c.radio[r] = h => Sound([c EXCEPT !.tether = Tethered(c.tether, r, h)], A)
        BY <1>a, <2>3, <3>2, TetheredSound
      <3>4. c.radio[r] = h => d.radio = c.radio
        BY <3>2 DEF Sound, Contacts
      <3>5. c.radio[r] # h => d = c
        OBVIOUS
      <3>6. Sound(d, A) /\ d.radio = c.radio
        BY <3>2, <3>3, <3>4, <3>5
      <3> HIDE DEF d
      <3> QED BY <1>a, <2>3, <3>2, <3>6
    <2> HIDE DEF d, c
    <2>5. Sound(Contact', A) /\ radio' = d.radio
      BY <2>1, <2>4, SayIs
    <2>6. /\ mission'[r] = "guard" /\ queue'[r] = "none" /\ mission'[h] = "harvest"
          /\ \A x \in Object \ {r, h} : mission'[x] = mission[x] /\ queue'[x] = queue[x]
          /\ \A x \in Object \ {h} : status'[x] = status[x]
      BY <1>a, <2>1, <2>3 DEF Types
    <2>7. /\ pos'[h] = Leaving(r) /\ \A g \in Harvester : g # h => pos'[g] = pos[g]
          /\ Leaving(r) # Limbo /\ \A s \in Refinery : Leaving(r) = Leaving(s) => r = s
      BY <1>a, <2>1, <2>2 DEF Types, Leaving, Limbo
    <2>8. /\ inside'[r] = Tail(inside[r]) /\ \A q \in Refinery \ {r} : inside'[q] = inside[q]
          /\ inside' \in [Refinery -> Seq(Harvester)]
      BY <1>a, <2>1, <2>2 DEF Types
    <2>9. Types'
      <3>1. /\ mission' \in [Object -> Missions] /\ queue' \in [Object -> Queues]
            /\ status' \in [Object -> Statuses]
        BY <1>a, <2>1 DEF Types, Missions, Queues, Statuses
      <3>2. pos' \in [Harvester -> Places] /\ nav' \in [Harvester -> Ways]
        BY <1>a, <2>1, <2>2 DEF Types, Places, Ways, Leaving
      <3> QED BY <1>a, <2>8, <3>1, <3>2 DEF Types
    <2>10. Talk'
      <3>1. A \subseteq Living'
        BY <1>a, <2>2, <2>3, <2>6, <2>7, Kinds DEF Living, Lives, OnMap, Stands
      <3> QED BY <2>5, <3>1, Wider DEF Talk
    <2>11. ASSUME NEW q \in Refinery, NEW i \in DOMAIN inside'[q]
           PROVE  \E k \in DOMAIN inside[q] : /\ inside'[q][i] = inside[q][k]
                                              /\ k = IF q = r THEN i + 1 ELSE i
                                              /\ inside[q][k] # h
      <3>1. CASE q = r
        <4>1. i + 1 \in DOMAIN inside[r] /\ i + 1 # 1 /\ inside'[r][i] = inside[r][i + 1]
          BY <2>2, <2>8, <3>1
        <4>2. inside[r][i + 1] # h
          BY <2>2, <4>1 DEF IInv, Held
        <4> QED BY <3>1, <4>1, <4>2
      <3>2. CASE q # r
        <4>1. i \in DOMAIN inside[q] /\ inside'[q][i] = inside[q][i]
          BY <2>8, <3>2
        <4>2. Held /\ inside[q][i] = inside[r][1] => q = r
          BY <2>2, <4>1 DEF Held
        <4>3. inside[q][i] # h
          BY <2>2, <3>2, <4>2 DEF IInv
        <4> QED BY <3>2, <4>1, <4>3
      <3> QED BY <3>1, <3>2
    <2>12. Held'
      <3>1. ASSUME NEW q \in Refinery, NEW i \in DOMAIN inside'[q] PROVE pos'[inside'[q][i]] = Limbo
        <4>1. PICK k \in DOMAIN inside[q] : inside'[q][i] = inside[q][k] /\ inside[q][k] # h
          BY <2>11
        <4>2. inside[q][k] \in Harvester /\ pos[inside[q][k]] = Limbo
          BY <1>a DEF IInv, Held, Types
        <4> QED BY <2>7, <4>1, <4>2
      <3>2. ASSUME NEW q \in Refinery, NEW i \in DOMAIN inside'[q],
                   NEW s \in Refinery, NEW j \in DOMAIN inside'[s], inside'[q][i] = inside'[s][j]
            PROVE  q = s /\ i = j
        <4>1. PICK k \in DOMAIN inside[q] : /\ inside'[q][i] = inside[q][k]
                                            /\ k = IF q = r THEN i + 1 ELSE i
          BY <2>11
        <4>2. PICK m \in DOMAIN inside[s] : /\ inside'[s][j] = inside[s][m]
                                            /\ m = IF s = r THEN j + 1 ELSE j
          BY <2>11
        <4>3. q = s /\ k = m
          <5>1. Held /\ inside[q][k] = inside[s][m]
            BY <3>2, <4>1, <4>2 DEF IInv
          <5> QED BY <5>1 DEF Held
        <4>4. i \in Int /\ j \in Int
          BY <2>8
        <4> QED BY <4>1, <4>2, <4>3, <4>4
      <3> QED BY <3>1, <3>2 DEF Held
    <2>13. ASSUME NEW q \in Refinery PROVE Single(q)' /\ Emptied(q)' /\ Busy(q)' /\ Duty(q)'
      <3>1. Single(q) /\ Emptied(q) /\ Busy(q) /\ Duty(q)
        BY DEF IInv, Routine
      <3>2. CASE q = r
        <4>1. r \notin crowded => Len(inside'[r]) <= 1 /\ inside'[r] = << >>
          BY <1>c, <2>2, <2>8 DEF Single
        <4> QED BY <1>a, <2>6, <3>2, <4>1 DEF Single, Emptied, Busy, Duty
      <3>3. CASE q # r
        <4>1. /\ mission'[q] = mission[q] /\ queue'[q] = queue[q] /\ status'[q] = status[q]
              /\ inside'[q] = inside[q] /\ radio'[q] \in {radio[q], NoOne}
          BY <2>3, <2>4, <2>5, <2>6, <2>8, <3>3
        <4> QED BY <1>a, <3>1, <4>1 DEF Single, Emptied, Busy, Duty, Stands
      <3> QED BY <3>2, <3>3
    <2>14. LeavesEmpty'
      <3>1. load[h] = 0 \/ r \in crowded
        BY <1>2, <1>a, <1>c DEF Emptied, h
      <3> QED BY <1>a, <2>7, <3>1 DEF IInv, LeavesEmpty
    <2>15. NobodyForgotten'
      <3> SUFFICES ASSUME NEW g \in Harvester, pos'[g] = Limbo
                   PROVE  \E q \in Refinery : g \in ToSet(inside'[q]) /\ Minds(q)'
        BY DEF NobodyForgotten
      <3>1. g # h /\ pos[g] = Limbo
        BY <2>7
      <3>2. PICK q \in Refinery : g \in ToSet(inside[q]) /\ Minds(q)
        BY <3>1 DEF IInv, NobodyForgotten
      <3>3. PICK i \in DOMAIN inside[q] : inside[q][i] = g
        BY <3>2 DEF ToSet
      <3>4. CASE q = r
        <4>1. i # 1 /\ i - 1 \in DOMAIN inside'[r] /\ inside'[r][i - 1] = g
          BY <2>2, <2>8, <3>1, <3>3, <3>4
        <4>2. r \in crowded
          <5>1. Len(inside[r]) > 1
            BY <2>2, <3>3, <3>4, <4>1
          <5> QED BY <1>c, <2>2, <5>1 DEF Single
        <4>3. g \in ToSet(inside'[r])
          BY <4>1 DEF ToSet
        <4> QED BY <1>a, <2>6, <4>2, <4>3 DEF Minds, Stands
      <3>5. CASE q # r
        <4>1. mission'[q] = mission[q] /\ queue'[q] = queue[q] /\ inside'[q] = inside[q]
          BY <2>3, <2>6, <2>8, <3>5
        <4> QED BY <1>a, <3>2, <4>1 DEF Minds, Stands, Serves
      <3> QED BY <3>4, <3>5
    <2> QED BY <1>b, <2>9, <2>10, <2>12, <2>13, <2>14, <2>15 DEF IInv, Routine
  <1> QED BY <1>1, <1>2

\* Nobody is in contact with what was inside.
LEMMA RefineryDiesKeeps == ASSUME IInv, NEW r \in Refinery, RefineryDies(r) PROVE IInv'
  <1> DEFINE lost == ToSet(inside[r])
  <1>a. /\ UNCHANGED <<queue, status, sold, crowded, events>> /\ r \in Object /\ Types /\ Talk
        /\ Sound(Contact, Living) /\ Contact.radio = radio /\ Say(OverOut(Contact, r))
        /\ mission' = [o \in Object |-> IF o = r \/ o \in lost THEN "gone" ELSE mission[o]]
        /\ nav' = [h \in Harvester |-> IF nav[h] = Bay(r) \/ h \in lost THEN Nowhere ELSE nav[h]]
        /\ pos' = [h \in Harvester |-> IF h \in lost THEN Nowhere ELSE pos[h]]
        /\ load' = [h \in Harvester |-> IF h \in lost THEN 0 ELSE load[h]]
        /\ inside' = [inside EXCEPT ![r] = << >>]
    BY Kinds DEF RefineryDies, IInv, Talk, Contact
  <1>b. Orders'
    BY <1>a DEF IInv, Orders
  <1>1. /\ lost \subseteq Harvester /\ \A g \in lost : pos[g] = Limbo
        /\ \A q \in Refinery \ {r} : \A i \in DOMAIN inside[q] : inside[q][i] \notin lost
    <2>1. \A g \in lost : \E i \in DOMAIN inside[r] : g = inside[r][i]
      BY DEF ToSet
    <2>2. \A i \in DOMAIN inside[r] : inside[r][i] \in Harvester
      BY <1>a DEF Types
    <2>3. lost \subseteq Harvester /\ \A g \in lost : pos[g] = Limbo
      BY <2>1, <2>2 DEF IInv, Held
    <2> HIDE DEF lost
    <2>4. ASSUME NEW q \in Refinery \ {r}, NEW i \in DOMAIN inside[q], inside[q][i] \in lost
          PROVE  FALSE
      <3>1. PICK j \in DOMAIN inside[r] : inside[q][i] = inside[r][j]
        BY <2>1, <2>4
      <3>2. Held
        BY DEF IInv
      <3> QED BY <3>1, <3>2 DEF Held
    <2> QED BY <2>3, <2>4
  <1> HIDE DEF lost
  <1>2. /\ Sound(OverOut(Contact, r), Living \ {r})
        /\ \A z \in Object : OverOut(Contact, r).radio[z] \in {radio[z], NoOne}
    BY <1>a, OverOutSound
  <1>3. Sound(Contact', Living \ {r}) /\ radio' = OverOut(Contact, r).radio
    BY <1>a, <1>2, SayIs
  <1>4. /\ mission'[r] = "gone"
        /\ \A q \in Refinery \ {r} : mission'[q] = mission[q]
        /\ \A g \in Harvester \ lost : mission'[g] = mission[g] /\ pos'[g] = pos[g] /\ load'[g] = load[g]
        /\ \A g \in lost : pos'[g] = Nowhere
        /\ Nowhere # Limbo /\ \A s \in Refinery : Nowhere # Leaving(s)
    <2>1. Nowhere # Limbo /\ \A s \in Refinery : Nowhere # Leaving(s)
      BY DEF Nowhere, Limbo, Leaving
    <2> QED BY <1>a, <1>1, <2>1, Kinds
  <1>5. Talk'
    <2>1. Living \ {r} \subseteq Living'
      <3> SUFFICES ASSUME NEW x \in Living, x # r PROVE x \in Living'
        OBVIOUS
      <3>1. CASE x \in Harvester
        <4>1. OnMap(x) /\ x \notin lost /\ x \in Object
          BY <1>1, <3>1 DEF Living, Lives, OnMap
        <4> QED BY <1>4, <3>1, <4>1 DEF Living, Lives, OnMap
      <3>2. CASE x \notin Harvester
        <4>1. x \in Refinery \ {r} /\ x \in Object /\ Stands(x)
          BY <3>2 DEF Living, Lives, Object
        <4> QED BY <1>4, <3>2, <4>1 DEF Living, Lives, Stands
      <3> QED BY <3>1, <3>2
    <2> QED BY <1>3, <2>1, Wider DEF Talk
  <1>6. Types'
    <2>1. mission' \in [Object -> Missions] /\ load' \in [Harvester -> Nat]
      BY <1>a DEF Types, Missions
    <2>2. pos' \in [Harvester -> Places] /\ nav' \in [Harvester -> Ways]
      BY <1>a DEF Types, Places, Ways
    <2>3. inside' \in [Refinery -> Seq(Harvester)]
      BY <1>a DEF Types
    <2> QED BY <1>a, <2>1, <2>2, <2>3 DEF Types
  <1>7. inside'[r] = << >> /\ \A q \in Refinery \ {r} : inside'[q] = inside[q]
    BY <1>a DEF Types
  <1>8. Held'
    <2>1. ASSUME NEW q \in Refinery, NEW i \in DOMAIN inside'[q]
          PROVE  q # r /\ i \in DOMAIN inside[q] /\ inside'[q][i] = inside[q][i]
      BY <1>7
    <2>2. ASSUME NEW q \in Refinery, NEW i \in DOMAIN inside'[q] PROVE pos'[inside'[q][i]] = Limbo
      <3>1. inside[q][i] \in Harvester \ lost /\ pos[inside[q][i]] = Limbo
        BY <1>a, <1>1, <2>1 DEF Types, IInv, Held
      <3> QED BY <1>4, <2>1, <3>1
    <2>3. ASSUME NEW q \in Refinery, NEW i \in DOMAIN inside'[q],
                 NEW s \in Refinery, NEW j \in DOMAIN inside'[s], inside'[q][i] = inside'[s][j]
          PROVE  q = s /\ i = j
      <3>1. Held /\ inside[q][i] = inside[s][j]
        BY <2>1, <2>3 DEF IInv
      <3> QED BY <2>1, <3>1 DEF Held
    <2> QED BY <2>2, <2>3 DEF Held
  <1>9. ASSUME NEW q \in Refinery PROVE Single(q)' /\ Emptied(q)' /\ Busy(q)' /\ Duty(q)'
    <2>1. Single(q) /\ Emptied(q) /\ Busy(q) /\ Duty(q)
      BY DEF IInv, Routine
    <2>2. CASE q = r
      <3>1. Len(inside'[q]) <= 1
        BY <1>7, <2>2
      <3> QED BY <1>a, <1>4, <1>7, <2>1, <2>2, <3>1 DEF Single, Emptied, Busy, Duty, Stands
    <2>3. CASE q # r
      <3>1. /\ mission'[q] = mission[q] /\ inside'[q] = inside[q]
            /\ radio'[q] \in {radio[q], NoOne}
        BY <1>2, <1>3, <1>4, <1>7, <2>3, Kinds
      <3>2. inside[q] # << >> => load'[Head(inside[q])] = load[Head(inside[q])]
        <4>1. inside[q] # << >> => /\ 1 \in DOMAIN inside[q] /\ Head(inside[q]) = inside[q][1]
                                   /\ inside[q][1] \in Harvester
          BY <1>a DEF Types
        <4> QED BY <1>1, <1>4, <2>3, <4>1
      <3> QED BY <1>a, <2>1, <3>1, <3>2 DEF Single, Emptied, Busy, Duty, Stands
    <2> QED BY <2>2, <2>3
  <1>10. LeavesEmpty'
    BY <1>a, <1>4 DEF IInv, LeavesEmpty
  <1>11. NobodyForgotten'
    <2> SUFFICES ASSUME NEW g \in Harvester, pos'[g] = Limbo
                 PROVE  \E q \in Refinery : g \in ToSet(inside'[q]) /\ Minds(q)'
      BY DEF NobodyForgotten
    <2>1. g \notin lost /\ pos[g] = Limbo
      BY <1>4
    <2>2. PICK q \in Refinery : g \in ToSet(inside[q]) /\ Minds(q)
      BY <2>1 DEF IInv, NobodyForgotten
    <2>3. q # r
      BY <2>1, <2>2 DEF lost
    <2> QED BY <1>a, <1>4, <1>7, <2>2, <2>3 DEF Minds, Stands, Serves
  <1> QED BY <1>b, <1>5, <1>6, <1>8, <1>9, <1>10, <1>11 DEF IInv, Routine

(***************************************************************************)
(* Every step.                                                             *)
(***************************************************************************)
LEMMA UnitKeeps == ASSUME IInv, NEW h \in Harvester, Unit(h) PROVE IInv'
  <1>1. CASE Commence(h)
    BY <1>1, CommenceKeeps
  <1>2. CASE MissionHarvest(h)
    BY <1>2, HarvestKeeps
  <1>3. CASE MissionEnter(h)
    BY <1>3, EnterKeeps
  <1>4. CASE MissionMove(h)
    BY <1>4, MoveKeeps
  <1>5. CASE MissionGuard(h)
    BY <1>5, GuardKeeps
  <1>6. CASE Drive(h)
    BY <1>6, DriveKeeps
  <1>7. CASE MakeWay(h)
    BY <1>7, MakeWayKeeps
  <1>8. CASE Turned(h)
    BY <1>8, TurnedKeeps
  <1>9. CASE EndTrack(h)
    BY <1>9, EndTrackKeeps
  <1> QED BY <1>1, <1>2, <1>3, <1>4, <1>5, <1>6, <1>7, <1>8, <1>9 DEF Unit

LEMMA BuildingKeeps == ASSUME IInv, NEW r \in Refinery, Building(r) PROVE IInv'
  <1>1. CASE Animate(r)
    BY <1>1, AnimateKeeps
  <1>2. CASE CommenceBuilding(r)
    BY <1>2, CommenceBuildingKeeps
  <1>3. CASE Expect(r) \/ Docked(r) \/ Sold(r) \/ Hold(r) \/ Dismantle(r)
    BY <1>3, WorkKeeps
  <1>4. CASE Offload(r)
    BY <1>4, OffloadKeeps
  <1>5. CASE LetOut(r)
    BY <1>5, LetOutKeeps
  <1>6. CASE SoldOut(r)
    BY <1>6, SoldOutKeeps
  <1> QED BY <1>1, <1>2, <1>3, <1>4, <1>5, <1>6 DEF Building, MissionBuilding

LEMMA BetweenKeeps == ASSUME IInv, Between PROVE IInv'
  <1>1. CASE Click
    BY <1>1, ClickKeeps
  <1>2. CASE Execute
    BY <1>2, ExecuteKeeps
  <1>3. ASSUME NEW h \in Harvester, Hurt(h) \/ NoPath(h) \/ HarvesterDies(h) PROVE IInv'
    BY <1>3, HurtKeeps, NoPathKeeps, HarvesterDiesKeeps
  <1>4. ASSUME NEW r \in Refinery, ComputerSells(r) \/ RefineryDies(r) PROVE IInv'
    BY <1>4, ComputerSellsKeeps, RefineryDiesKeeps
  <1> QED BY <1>1, <1>2, <1>3, <1>4 DEF Between

LEMMA Step == ASSUME IInv, [Next]_vars PROVE IInv'
  <1>1. CASE Next
    BY <1>1, UnitKeeps, BuildingKeeps, BetweenKeeps DEF Next
  <1>2. CASE UNCHANGED vars
    <2>1. UNCHANGED <<radioVars, mission, queue, status, pos, nav, load, inside, sold, crowded, events>>
      BY <1>2 DEF vars, missionVars, wayVars, goods, world
    <2>2. Orders' /\ nav' \in [Harvester -> Ways]
      BY <2>1 DEF IInv, Orders, Types
    <2> QED BY <2>1, <2>2, WayKeeps
  <1> QED BY <1>1, <1>2

LEMMA Invariance == Spec => []IInv
  BY Start, Step, PTL DEF Spec

(***************************************************************************)
(* The bails: in the field, on board or paid for.                          *)
(***************************************************************************)
Plain ==
    /\ human \in BOOLEAN /\ archive \in [Harvester -> BOOLEAN]
    /\ ready \in [Refinery -> BOOLEAN]
    /\ trouble \in 0 .. MaxTrouble /\ sold \subseteq Refinery

\* Some are lost with their harvester, and none comes from nowhere.
Bails ==
    /\ load \in [Harvester -> 0 .. FullLoad] /\ field \in Nat /\ paid \in Nat
    /\ field + paid + Total(load) <= Tiberium

LEMMA PlainStart == Init => Plain
  BY DockingAssumption DEF Init, Plain

LEMMA BailsStart == Init => Bails
  <1> SUFFICES ASSUME Init PROVE Bails
    OBVIOUS
  <1>1. /\ load \in [Harvester -> Nat] /\ load \in [Harvester -> 0 .. FullLoad]
        /\ \A h \in Harvester : load[h] = 0
    BY DockingAssumption DEF Init
  <1>2. Total(load) = 0
    BY <1>1, DockingAssumption, TotalType
  <1>3. field = Tiberium /\ paid = 0 /\ Tiberium \in Nat
    BY DockingAssumption DEF Init
  <1> QED BY <1>1, <1>2, <1>3 DEF Bails

LEMMA PlainStep ==
  ASSUME Plain, [Next]_vars
  PROVE  Plain'
  <1> USE DEF Plain
  <1>0. Meanwhile => trouble' \in 0 .. MaxTrouble
    BY DockingAssumption DEF Meanwhile
  <1>1. ASSUME NEW h \in Harvester, Unit(h) PROVE Plain'
    <2>0. ASSUME UNCHANGED <<ready, human, trouble, sold>>,
                 archive' \in [Harvester -> BOOLEAN]
          PROVE  Plain'
      BY <2>0
    <2>1. CASE Commence(h)
      BY <2>0, <2>1 DEF Commence, wayVars, world
    <2>2. CASE MissionHarvest(h)
      <3>1. UNCHANGED <<ready, human, trouble, sold>>
        BY <2>2 DEF MissionHarvest, world
      <3>2. archive' = archive \/ archive' = [archive EXCEPT ![h] = TRUE]
            \/ archive' = [archive EXCEPT ![h] = FALSE]
        BY <2>2 DEF MissionHarvest, Look, Dig, StopDigging, FindHome, HeadHome, GoIdle, wayVars
      <3> QED BY <2>0, <3>1, <3>2
    <2>3. CASE MissionEnter(h)
      <3>1. UNCHANGED <<ready, human, trouble, sold>>
        BY <2>3 DEF MissionEnter
      <3>2. archive' = archive \/ archive' = [archive EXCEPT ![h] = FALSE]
        BY <2>3 DEF MissionEnter, SeekContact, Docks
      <3> QED BY <2>0, <3>1, <3>2
    <2>4. CASE MissionMove(h) \/ MissionGuard(h)
      BY <2>0, <2>4 DEF MissionMove, MissionGuard, wayVars, world
    <2>5. ASSUME NEW p, PerCell(h, p) PROVE archive' \in [Harvester -> BOOLEAN]
      BY <2>5 DEF PerCell
    <2>6. CASE Drive(h)
      <3>1. UNCHANGED <<ready, human, trouble, sold>>
        BY <2>6 DEF Drive, world
      <3>2. archive' \in [Harvester -> BOOLEAN]
        BY <2>5, <2>6 DEF Drive
      <3> QED BY <2>0, <3>1, <3>2
    <2>7. CASE MakeWay(h)
      BY <2>0, <2>7 DEF MakeWay, world
    <2>8. CASE Turned(h)
      BY <2>0, <2>5, <2>8 DEF Turned, world
    <2>9. CASE EndTrack(h)
      <3>1. UNCHANGED <<ready, human, trouble, sold>>
        BY <2>9 DEF EndTrack, world
      <3>2. archive' \in [Harvester -> BOOLEAN]
        BY <2>5, <2>9 DEF EndTrack
      <3> QED BY <2>0, <3>1, <3>2
    <2> QED BY <1>1, <2>1, <2>2, <2>3, <2>4, <2>6, <2>7, <2>8, <2>9 DEF Unit
  <1>2. ASSUME NEW r \in Refinery, Building(r) PROVE Plain'
    <2>0. ASSUME UNCHANGED <<archive, human, trouble>>, sold' = sold \/ sold' = sold \cup {r},
                 \/ ready' = ready \/ ready' = [ready EXCEPT ![r] = TRUE]
                 \/ ready' = [ready EXCEPT ![r] = FALSE]
          PROVE  Plain'
      BY <2>0
    <2>1. CASE Animate(r)
      BY <2>0, <2>1 DEF Animate, wayVars, world
    <2>2. CASE CommenceBuilding(r)
      BY <2>0, <2>2 DEF CommenceBuilding, wayVars
    <2>3. CASE MissionBuilding(r)
      BY <2>0, <2>3 DEF MissionBuilding, Expect, Docked, Offload, LetOut, Sold, Hold, Dismantle,
                        SoldOut, wayVars, world
    <2> QED BY <1>2, <2>1, <2>2, <2>3 DEF Building
  <1>3. CASE Between
    <2>1. UNCHANGED <<archive, human, ready, sold>>
      BY <1>3 DEF Between, Click, Execute, Hurt, NoPath, HarvesterDies, ComputerSells,
                  RefineryDies, wayVars
    <2>2. trouble' = trouble \/ Meanwhile
      BY <1>3 DEF Between, Click, Execute, Hurt, NoPath, HarvesterDies, ComputerSells,
                  RefineryDies
    <2> QED BY <1>0, <2>1, <2>2
  <1>4. CASE UNCHANGED vars
    BY <1>4 DEF vars, wayVars, world
  <1> QED BY <1>1, <1>2, <1>3, <1>4 DEF Next

LEMMA OneLoad ==
  \A f \in [Harvester -> Nat] : \A j \in Harvester : \A w \in Nat :
     Total([f EXCEPT ![j] = w]) + f[j] = Total(f) + w
  BY DockingAssumption, TotalChanged

LEMMA DigsOne ==
  ASSUME Bails, NEW h \in Harvester, Dig(h)
  PROVE  Bails'
  <1>1. load \in [Harvester -> Nat] /\ load[h] + 1 \in 0 .. FullLoad /\ load[h] \in Nat
    BY DockingAssumption DEF Bails, Dig
  <1>2. load' = [load EXCEPT ![h] = load[h] + 1] /\ paid' = paid
    BY DEF Dig
  <1>3. load' \in [Harvester -> 0 .. FullLoad]
    BY <1>1, <1>2 DEF Bails
  <1>4. Total(load') + load[h] = Total(load) + (load[h] + 1)
    <2>1. load[h] + 1 \in Nat
      BY <1>1
    <2>2. Total([load EXCEPT ![h] = load[h] + 1]) + load[h] = Total(load) + (load[h] + 1)
      BY <1>1, <2>1, OneLoad
    <2> QED BY <1>2, <2>2
  <1>5. Total(load) \in Nat /\ Total(load') \in Nat
    <2>1. load' \in [Harvester -> Nat]
      BY <1>3
    <2> QED BY <1>1, <2>1, DockingAssumption, TotalType
  <1>6. field \in Nat /\ field > 0 /\ field' = field - 1 /\ paid \in Nat /\ Tiberium \in Nat
        /\ field + paid + Total(load) <= Tiberium
    BY DockingAssumption DEF Bails, Dig, OnTiberium
  <1>7. PICK a \in Nat, b \in Nat, f \in Nat, p \in Nat, l \in Nat :
           a = Total(load) /\ b = Total(load') /\ f = field /\ p = paid /\ l = load[h]
    BY <1>1, <1>5, <1>6
  <1>8. b + l = a + (l + 1) /\ f > 0 /\ f + p + a <= Tiberium
    BY <1>4, <1>6, <1>7
  <1>9. f - 1 \in Nat /\ (f - 1) + p + b <= Tiberium
    BY <1>6, <1>8
  <1>10. field' = f - 1
    BY <1>6, <1>7
  <1> QED BY <1>2, <1>3, <1>7, <1>9, <1>10 DEF Bails

LEMMA PaysOne ==
  ASSUME Bails, Types, NEW r \in Refinery, Offload(r)
  PROVE  Bails'
  <1> DEFINE h == Head(inside[r])
  <1>1. CASE ~(inside[r] # << >> /\ load[h] > 0)
    BY <1>1 DEF Offload, Bails
  <1>2. CASE inside[r] # << >> /\ load[h] > 0
    <2>0. h \in Harvester
      BY <1>2 DEF Types
    <2>1. load' = [load EXCEPT ![h] = load[h] - 1] /\ paid' = paid + 1 /\ field' = field
      BY <1>2 DEF Offload
    <2> HIDE DEF h
    <2>2. load \in [Harvester -> Nat] /\ load[h] - 1 \in 0 .. FullLoad
          /\ load[h] \in Nat /\ load[h] - 1 \in Nat
      BY <1>2, <2>0, DockingAssumption DEF Bails
    <2>3. load' \in [Harvester -> 0 .. FullLoad]
      BY <2>1, <2>2 DEF Bails
    <2>4. Total(load') + load[h] = Total(load) + (load[h] - 1)
      <3>1. Total([load EXCEPT ![h] = load[h] - 1]) + load[h] = Total(load) + (load[h] - 1)
        BY <2>0, <2>2, OneLoad
      <3> QED BY <2>1, <3>1
    <2>5. Total(load) \in Nat /\ Total(load') \in Nat
      <3>1. load' \in [Harvester -> Nat]
        BY <2>3
      <3> QED BY <2>2, <3>1, DockingAssumption, TotalType
    <2>6. field \in Nat /\ paid \in Nat /\ Tiberium \in Nat
          /\ field + paid + Total(load) <= Tiberium
      BY DockingAssumption DEF Bails
    <2>7. PICK a \in Nat, b \in Nat, f \in Nat, p \in Nat, l \in Nat :
             a = Total(load) /\ b = Total(load') /\ f = field /\ p = paid /\ l = load[h]
      BY <2>2, <2>5, <2>6
    <2>8. b + l = a + (l - 1) /\ f + p + a <= Tiberium
      BY <2>4, <2>6, <2>7
    <2>9. f + (p + 1) + b <= Tiberium
      BY <2>6, <2>8
    <2> QED BY <2>1, <2>3, <2>6, <2>7, <2>9 DEF Bails
  <1> QED BY <1>1, <1>2

\* What a lost harvester had on board is lost.
LEMMA LosesSome ==
  ASSUME Bails, UNCHANGED <<field, paid>>,
         load' \in [Harvester -> Nat], \A h \in Harvester : load'[h] \in {0, load[h]}
  PROVE  Bails'
  <1>1. load \in [Harvester -> Nat]
    BY DockingAssumption DEF Bails
  <1>2. \A h \in Harvester : load'[h] <= load[h] /\ load'[h] \in 0 .. FullLoad
    BY <1>1, DockingAssumption DEF Bails
  <1>3. Total(load') <= Total(load)
    BY <1>1, <1>2, DockingAssumption, TotalShrinks
  <1>4. Total(load) \in Nat /\ Total(load') \in Nat
    BY <1>1, DockingAssumption, TotalType
  <1>5. load' \in [Harvester -> 0 .. FullLoad]
    BY <1>2
  <1>6. PICK a \in Nat, b \in Nat, f \in Nat, p \in Nat :
           a = Total(load) /\ b = Total(load') /\ f = field /\ p = paid
    BY <1>4 DEF Bails
  <1>7. b <= a /\ f + p + a <= Tiberium /\ Tiberium \in Nat
    BY <1>3, <1>6, DockingAssumption DEF Bails
  <1>8. f + p + b <= Tiberium
    BY <1>7
  <1> QED BY <1>5, <1>6, <1>8 DEF Bails

LEMMA BailsStep ==
  ASSUME Bails, Types, [Next]_vars
  PROVE  Bails'
  <1>0. ASSUME UNCHANGED goods PROVE Bails'
    BY <1>0 DEF Bails, goods
  <1>1. ASSUME NEW h \in Harvester, Unit(h) PROVE Bails'
    <2>1. UNCHANGED goods \/ Dig(h)
      BY <1>1 DEF Unit, Commence, MissionHarvest, Look, StopDigging, FindHome, HeadHome, GoIdle,
                  MissionEnter, MissionMove, MissionGuard, Drive, MakeWay, Turned, EndTrack
    <2> QED BY <1>0, <2>1, DigsOne
  <1>2. ASSUME NEW r \in Refinery, Building(r) PROVE Bails'
    <2>1. UNCHANGED goods \/ Offload(r)
      BY <1>2 DEF Building, Animate, CommenceBuilding, MissionBuilding, Expect, Docked, LetOut,
                  Sold, Hold, Dismantle, SoldOut
    <2> QED BY <1>0, <2>1, PaysOne
  <1>3. CASE Between
    <2>1. ASSUME NEW h \in Harvester, HarvesterDies(h) PROVE Bails'
      <3>1. load' = [load EXCEPT ![h] = 0] /\ UNCHANGED <<field, paid>>
        BY <2>1 DEF HarvesterDies
      <3>2. load' \in [Harvester -> Nat] /\ \A g \in Harvester : load'[g] \in {0, load[g]}
        BY <3>1 DEF Types
      <3> QED BY <3>1, <3>2, LosesSome
    <2>2. ASSUME NEW r \in Refinery, RefineryDies(r) PROVE Bails'
      <3>1. /\ load' = [h \in Harvester |-> IF h \in ToSet(inside[r]) THEN 0 ELSE load[h]]
            /\ UNCHANGED <<field, paid>>
        BY <2>2 DEF RefineryDies
      <3>2. load' \in [Harvester -> Nat] /\ \A g \in Harvester : load'[g] \in {0, load[g]}
        BY <3>1 DEF Types
      <3> QED BY <3>1, <3>2, LosesSome
    <2>3. \/ UNCHANGED goods
          \/ \E h \in Harvester : HarvesterDies(h)
          \/ \E r \in Refinery : RefineryDies(r)
      BY <1>3 DEF Between, Click, Execute, Hurt, NoPath, ComputerSells, goods
    <2> QED BY <1>0, <2>1, <2>2, <2>3
  <1>4. CASE UNCHANGED vars
    BY <1>0, <1>4 DEF vars
  <1> QED BY <1>1, <1>2, <1>3, <1>4 DEF Next

LEMMA Typed == IInv /\ Plain /\ Bails => TypeOK
  <1> SUFFICES ASSUME IInv, Plain, Bails PROVE TypeOK
    OBVIOUS
  <1>1. radio \in [Object -> Object \cup {NoOne}] /\ tether \in [Object -> BOOLEAN]
    BY DEF IInv, Talk, Sound, Contacts, Contact
  <1>2. /\ mission \in [Object -> Missions] /\ queue \in [Object -> Missions \cup {"none"}]
        /\ status \in [Object -> Statuses]
        /\ pos \in [Harvester -> Places] /\ nav \in [Harvester -> Ways]
        /\ inside \in [Refinery -> Seq(Harvester)] /\ crowded \subseteq Refinery
    BY DEF IInv, Types, Queues, Missions
  <1>3. /\ load \in [Harvester -> 0 .. FullLoad]
        /\ field \in 0 .. Tiberium /\ paid \in 0 .. Tiberium
    <2>1. load \in [Harvester -> Nat]
      BY DEF Bails
    <2>2. Total(load) \in Nat
      BY <2>1, DockingAssumption, TotalType
    <2> QED BY <2>2, DockingAssumption DEF Bails
  <1> QED BY <1>1, <1>2, <1>3 DEF TypeOK, Plain, Statuses

(***************************************************************************)
(* The theorems.                                                           *)
(***************************************************************************)
\* Whoever Radio names is on the map or stands and names the object back, and
\* both are tethered or neither is: through every hello, over and out, order,
\* sale and loss (RadioClass::Transmit_Message, Receive_Message).
THEOREM ContactAlwaysMutual == Spec => []ContactIsMutual
  BY Invariance, Implied, PTL

\* However many harvesters there are, RADIO_CAN_LOAD lets one into a refinery,
\* unless an order given before the other went in sent a second one.
THEOREM OneAtATime == Spec => []OneInside
  BY Invariance, Implied, PTL

\* BuildingClass::Mission_Harvest opens the door only when the last bail of
\* the harvester in front has been paid for.
THEOREM LeavesAlwaysEmpty == Spec => []LeavesEmpty
  BY Invariance, Implied, PTL

\* A harvester in limbo is always in the hold of a refinery that is at work on
\* it or will be, or else that very refinery is being sold, or was, with the
\* harvester in it, or stands and was entered by a second one on an older order.
THEOREM NobodyEverForgotten == Spec => []NobodyForgotten
  BY Invariance, Implied, PTL

\* The bails of a field are carried by one harvester at a time, none beyond
\* what it holds, and paid for once: what is still in the field, on board and
\* paid for is never more than there was.
THEOREM NoBailTwice == Spec => []Bails
  <1>1. IInv /\ Bails /\ [Next]_vars => Bails'
    BY BailsStep DEF IInv
  <1> QED BY <1>1, BailsStart, Invariance, PTL DEF Spec

\* Every variable keeps its type: no harvester is overfilled, the field is not
\* dug below nothing, and the house is not paid more than there was.
THEOREM TypesAlwaysOK == Spec => []TypeOK
  <1>1. Plain /\ [Next]_vars => Plain'
    BY PlainStep
  <1>2. Spec => []Plain
    BY <1>1, PlainStart, PTL DEF Spec
  <1> QED BY <1>2, NoBailTwice, Invariance, Typed, PTL
=============================================================================
