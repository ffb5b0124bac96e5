------------------------------ MODULE Production ------------------------------
(* Production and money of one house: FactoryClass (FACTORY.CPP), one factory *)
(* per kind of object, paid in instalments out of the house's credits and     *)
(* stored Tiberium (HOUSE.CPP), while harvesting, lost storage, repairs and   *)
(* sales change the money under it.                                           *)
(*                                                                            *)
(* FactoryClass::AI does one instalment whenever its stage timer runs out; a  *)
(* house with several buildings of a kind runs the body of its loop that many *)
(* times a frame, which here is that many Installment steps.  How fast the    *)
(* timer runs (Rate, from build time and power) is left out: Rate is 0        *)
(* exactly when the factory is suspended.  Left out too: special weapons,     *)
(* which cost nothing, and the factories a computer house keeps in each of    *)
(* its buildings.                                                             *)
EXTENDS Integers, FiniteSets, Functions

CONSTANTS Kind,          \* AircraftFactory, UnitFactory, ... of a house
          Item,          \* object types
          Cost,          \* TechnoTypeClass::Cost_Of
          Steps,         \* FactoryClass::STEP_COUNT
          Amounts,       \* sums harvested, spent on repairs, got for a sale
          StartMoney,    \* credits at the start
          MaxCapacity,   \* bound: Tiberium storage
          Purse          \* bound: money a house is ever given

NoItem    == "NoItem"
NoFactory == "NoFactory" \* the house's factory number is -1
Idle == [item |-> NoFactory, balance |-> 0, stage |-> 0, running |-> FALSE]

ASSUME FewKinds    == IsFiniteSet(Kind)
ASSUME CostIsNat   == Cost \in [Item -> Nat]
ASSUME ItemNames   == NoItem \notin Item /\ NoFactory \notin Item
ASSUME StepCount   == Steps \in Nat \ {0}
ASSUME Money       == /\ Amounts \subseteq Nat /\ StartMoney \in Nat
                      /\ MaxCapacity \in Nat /\ Purse \in Nat

VARIABLES credits, tiberium, capacity,
          factory,       \* factory[k]: its state, Idle if there is none
          paid,          \* history: what was spent on the item under production
          received, gone \* history: money given to the house, and used up

money == <<credits, tiberium>>
books == <<received, gone>>
vars  == <<money, capacity, factory, paid, books>>

Init == /\ credits = StartMoney /\ tiberium = 0 /\ capacity = 0
        /\ factory = [k \in Kind |-> Idle]
        /\ paid = [k \in Kind |-> 0]
        /\ received = StartMoney /\ gone = 0

------------------------------------------------------------------------------
(* HouseClass money *)

AvailableMoney == tiberium + credits

(* Tiberium is spent first. *)
SpendMoney(m) == IF m > tiberium
                   THEN tiberium' = 0 /\ credits' = credits - (m - tiberium)
                   ELSE tiberium' = tiberium - m /\ UNCHANGED credits
RefundMoney(m) == credits' = credits + m /\ UNCHANGED tiberium

(* Harvested: what does not fit is lost. *)
Harvest(m) ==
  LET kept == IF tiberium + m > capacity THEN capacity - tiberium ELSE m IN
  /\ received + kept <= Purse
  /\ tiberium' = tiberium + kept
  /\ received' = received + kept
  /\ UNCHANGED <<credits, capacity, factory, paid, gone>>

(* mutant: stored Tiberium is not cut back *)
Stored_All(c) == tiberium
Stored(c) == IF tiberium > c THEN c ELSE tiberium

(* Adjust_Capacity: storage appears, or, "in anger", goes with its building   *)
(* and takes the Tiberium that no longer fits.                                *)
AdjustCapacity(c, inanger) ==
  /\ capacity' = c
  /\ tiberium' = Stored(c)
  /\ credits' = IF inanger THEN credits ELSE credits + (tiberium - tiberium')
  /\ gone' = IF inanger THEN gone + (tiberium - tiberium') ELSE gone
  /\ UNCHANGED <<factory, paid, received>>

(* Repairs (BUILDING.CPP, TECHNO.CPP) spend only what is there; sales and     *)
(* crates give credits.                                                       *)
Repair(m) == /\ AvailableMoney >= m
             /\ SpendMoney(m)
             /\ gone' = gone + m
             /\ UNCHANGED <<capacity, factory, paid, received>>
Sell(m) == /\ received + m <= Purse
           /\ RefundMoney(m)
           /\ received' = received + m
           /\ UNCHANGED <<capacity, factory, paid, gone>>

------------------------------------------------------------------------------
(* FactoryClass *)

Exists(k)    == factory[k].item # NoFactory
Holds(k)     == Exists(k) /\ factory[k].item # NoItem
Completed(k) == Holds(k) /\ factory[k].stage = Steps

(* Cost_Per_Tick, for a given stage. *)
CostPerTick(f, stage) == IF f.item = NoItem THEN 0
                         ELSE IF stage = Steps THEN f.balance
                         ELSE f.balance \div (Steps - stage)

Startable(f) == /\ f.item # NoItem /\ ~ f.running /\ f.stage # Steps
                /\ AvailableMoney >= CostPerTick(f, f.stage)
Started(f) == IF Startable(f) THEN [f EXCEPT !.running = TRUE] ELSE f

(* Begin_Production: a new factory gets the item; an existing one that is not *)
(* running goes on with what it has.  Creating the object may fail (its heap  *)
(* is full): the factory object then stays, without an item.                  *)
NewFactory(i, made) == [item |-> IF made THEN i ELSE NoItem,
                        balance |-> IF made THEN Cost[i] ELSE 0,
                        stage |-> 0, running |-> FALSE]
BeginProduction(k, i, made) ==
  /\ \/ /\ ~ Exists(k)
        /\ factory' = [factory EXCEPT ![k] = IF made THEN Started(NewFactory(i, TRUE))
                                             ELSE NewFactory(i, FALSE)]
        /\ paid' = [paid EXCEPT ![k] = 0]
     \/ /\ Exists(k) /\ ~ factory[k].running
        /\ factory' = [factory EXCEPT ![k] = Started(@)]
        /\ UNCHANGED paid
  /\ UNCHANGED <<money, capacity, books>>

SuspendProduction(k) ==
  /\ Exists(k)
  /\ factory' = [factory EXCEPT ![k].running = FALSE]
  /\ UNCHANGED <<money, capacity, paid, books>>

(* mutant: the whole price is refunded *)
RefundOf_Price(k) == Cost[factory[k].item]
RefundOf(k) == Cost[factory[k].item] - factory[k].balance

(* Abandon_Production: what was paid comes back, also for a completed item.   *)
AbandonProduction(k) ==
  /\ Exists(k)
  /\ IF Holds(k) THEN RefundMoney(RefundOf(k)) ELSE UNCHANGED money
  /\ factory' = [factory EXCEPT ![k] = Idle]
  /\ paid' = [paid EXCEPT ![k] = 0]
  /\ UNCHANGED <<capacity, books>>

(* Place_Object: a completed object leaves and its factory goes with it.  If  *)
(* there is no exit or no room nothing changes.                               *)
PlaceObject(k) ==
  /\ Completed(k)
  /\ factory' = [factory EXCEPT ![k] = Idle]
  /\ paid' = [paid EXCEPT ![k] = 0]
  /\ gone' = gone + paid[k]
  /\ UNCHANGED <<money, capacity, received>>

(* mutant: an instalment is a share of the price, not of what is left *)
Due_OfPrice(k) == LET f == factory[k] IN Cost[f.item] \div Steps
(* The instalment for the stage just reached. *)
Due(k) == LET f == factory[k]
              c == CostPerTick(f, f.stage + 1)
          IN IF c > f.balance THEN f.balance ELSE c

(* mutant: an instalment is paid without looking *)
Affordable_Always(k) == TRUE
(* mutant: the house must have more than the instalment *)
Affordable_More(k) == AvailableMoney > Due(k)
Affordable(k) == AvailableMoney >= Due(k)

Running(k) == Holds(k) /\ factory[k].running /\ ~ Completed(k)

(* AI: when the timer runs out the stage advances and its instalment is paid; *)
(* without the money the stage falls back to where it was, which is no step   *)
(* here.  At the last stage the factory stops; the instalment is all of the   *)
(* balance then.                                                              *)
Installment(k) ==
  LET f == factory[k]
      last == f.stage + 1 = Steps
  IN
  /\ Running(k) /\ Affordable(k)
  /\ SpendMoney(Due(k))
  /\ paid' = [paid EXCEPT ![k] = @ + Due(k)]
  /\ factory' = [factory EXCEPT ![k] =
       [f EXCEPT !.stage = @ + 1, !.running = ~ last, !.balance = @ - Due(k)]]
  /\ UNCHANGED <<capacity, books>>

Next == \/ \E m \in Amounts : Harvest(m) \/ Repair(m) \/ Sell(m)
        \/ \E c \in 0 .. MaxCapacity : c # capacity /\ AdjustCapacity(c, c < capacity)
        \/ \E k \in Kind : \/ \E i \in Item, made \in BOOLEAN : BeginProduction(k, i, made)
                           \/ SuspendProduction(k) \/ AbandonProduction(k)
                           \/ PlaceObject(k) \/ Installment(k)

Safety == Init /\ [][Next]_vars

(* FactoryClass::AI is called for every factory every frame. *)
Spec == Safety /\ \A k \in Kind : WF_vars(Installment(k))

------------------------------------------------------------------------------
Factory == [item : Item \union {NoItem, NoFactory}, balance : Nat,
            stage : 0 .. Steps, running : BOOLEAN]

(* Types: neither kind of money is ever negative although several factories   *)
(* and repairs draw on one purse, and no balance is paid below nothing.       *)
TypeOK == /\ credits \in Nat /\ tiberium \in Nat /\ capacity \in Nat
          /\ factory \in [Kind -> Factory]
          /\ paid \in [Kind -> Nat]
          /\ received \in Nat /\ gone \in Nat

(* FACTORY.H on Balance: production is paid in instalments whose division     *)
(* leaves remainders, yet "the total production cost will be EXACT".  What    *)
(* was paid for the item in a factory is what the balance no longer asks for, *)
(* whatever suspensions, refusals for lack of money and changes of money came *)
(* between, so that a completed item has cost its price, and the refund of an *)
(* abandoned one is what was paid for it.                                     *)
PaidExactly ==
  \A k \in Kind :
    IF Holds(k)
      THEN /\ paid[k] + factory[k].balance = Cost[factory[k].item]
           /\ Completed(k) => factory[k].balance = 0 /\ ~ factory[k].running
      ELSE paid[k] = 0 /\ factory[k].balance = 0 /\ ~ factory[k].running

(* HouseClass: Tiberium is never stored beyond the silos there are, although  *)
(* the silos change by Adjust_Capacity and the Tiberium by everything else.   *)
StorageRespected == tiberium <= capacity

(* No money appears and none is lost: what a house has, and has put into      *)
(* items under production, is what it got less what it used up.               *)
BooksBalance ==
  credits + tiberium + FoldFunction(+, 0, paid) = received - gone

(* A factory that runs and can pay does not run for ever: the stage moves     *)
(* with every instalment it pays, those that round to nothing included.       *)
ProductionMoves == \A k \in Kind : []<> ~ (Running(k) /\ AvailableMoney >= Due(k))

IInv == TypeOK /\ PaidExactly /\ StorageRespected
===============================================================================
