--------------------------- MODULE ProductionProofs ---------------------------
(* That every item costs exactly its price, that no account is overdrawn and  *)
(* that no money is made or lost, for every price list, number of instalments *)
(* and number of factories.                                                   *)
EXTENDS Production, Totals

(* The kind of quotient Cost_Per_Tick takes is a natural number. *)
LEMMA Quotient == ASSUME NEW a \in Nat, NEW b \in Nat, b > 0 PROVE a \div b \in Nat
  BY SMT

(* An instalment is no more than the balance. *)
LEMMA DueBounded ==
  ASSUME TypeOK, NEW k \in Kind, Running(k)
  PROVE  /\ Due(k) \in Nat /\ Due(k) <= factory[k].balance
         /\ factory[k].stage + 1 = Steps => Due(k) = factory[k].balance
  <1> DEFINE f == factory[k]
  <1>1. f \in Factory
    BY DEF TypeOK
  <1>2. f.stage + 1 \in 1 .. Steps /\ f.balance \in Nat /\ f.item # NoItem
    BY <1>1, StepCount DEF Factory, Running, Holds, Completed
  <1>3. CASE f.stage + 1 = Steps
    BY <1>2, <1>3 DEF Due, CostPerTick
  <1>4. CASE f.stage + 1 # Steps
    <2>1. f.balance \div (Steps - (f.stage + 1)) \in Nat
      <3>1. Steps - (f.stage + 1) \in Nat /\ Steps - (f.stage + 1) > 0
        BY <1>2, <1>4, StepCount
      <3> QED BY <3>1, <1>2, Quotient
    <2>2. CostPerTick(f, f.stage + 1) = f.balance \div (Steps - (f.stage + 1))
      BY <1>2, <1>4 DEF CostPerTick
    <2> QED BY <1>2, <1>4, <2>1, <2>2 DEF Due
  <1> QED BY <1>3, <1>4

(* Payments the house can afford leave both accounts in the black, and more   *)
(* storage used up than there is is never left.                               *)
LEMMA Affords ==
  ASSUME TypeOK, StorageRespected, NEW m \in Nat, AvailableMoney >= m, SpendMoney(m)
  PROVE  credits' \in Nat /\ tiberium' \in Nat /\ tiberium' <= capacity
  BY DEF TypeOK, StorageRespected, AvailableMoney, SpendMoney, money

LEMMA StartedFactory ==
  ASSUME NEW f \in Factory
  PROVE  /\ Started(f) \in Factory
         /\ Started(f).item = f.item /\ Started(f).balance = f.balance
         /\ Started(f).stage = f.stage
         /\ f.item = NoItem => Started(f) = f
         /\ f.stage = Steps => Started(f) = f
  BY DEF Started, Startable, Factory

LEMMA InitIInv == Init => IInv
  BY ItemNames, StepCount, Money
     DEF Init, IInv, TypeOK, PaidExactly, StorageRespected, Factory, Idle,
         Holds, Exists, NoItem, NoFactory

(* A factory that only starts or stops keeps what was paid right. *)
LEMMA NextIInv == IInv /\ [Next]_vars => IInv'
  <1> SUFFICES ASSUME IInv, [Next]_vars PROVE IInv'
    OBVIOUS
  <1> USE DEF IInv
  <1>1. ASSUME NEW m \in Amounts, Harvest(m) PROVE IInv'
    BY <1>1, Money DEF Harvest, TypeOK, StorageRespected, PaidExactly, Holds, Exists, Completed
  <1>2. ASSUME NEW m \in Amounts, Repair(m) PROVE IInv'
    <2>1. credits' \in Nat /\ tiberium' \in Nat /\ tiberium' <= capacity
      BY <1>2, Money, Affords DEF Repair
    <2> QED BY <1>2, <2>1, Money
            DEF Repair, TypeOK, StorageRespected, PaidExactly, Holds, Exists, Completed
  <1>3. ASSUME NEW m \in Amounts, Sell(m) PROVE IInv'
    BY <1>3, Money
       DEF Sell, RefundMoney, TypeOK, StorageRespected, PaidExactly, Holds, Exists, Completed
  <1>4. ASSUME NEW c \in 0 .. MaxCapacity, AdjustCapacity(c, c < capacity) PROVE IInv'
    BY <1>4, Money
       DEF AdjustCapacity, Stored, TypeOK, StorageRespected, PaidExactly, Holds, Exists, Completed
  <1>5. ASSUME NEW k \in Kind, NEW i \in Item, NEW made \in BOOLEAN,
               BeginProduction(k, i, made)
        PROVE  IInv'
    <2>1. NewFactory(i, made) \in Factory /\ NewFactory(i, made).item # NoFactory
      BY CostIsNat, StepCount, ItemNames DEF NewFactory, Factory, NoItem, NoFactory
    <2>2. CASE ~ Exists(k)
      <3> DEFINE g == IF made THEN Started(NewFactory(i, TRUE)) ELSE NewFactory(i, FALSE)
      <3>1. /\ factory' = [factory EXCEPT ![k] = g] /\ paid' = [paid EXCEPT ![k] = 0]
            /\ UNCHANGED <<money, capacity, books>>
        BY <1>5, <2>2 DEF BeginProduction
      <3>2. g \in Factory /\ g.stage = 0
        BY <2>1, StartedFactory DEF NewFactory
      <3>3. IF made THEN g.item = i /\ g.balance = Cost[i]
            ELSE g.item = NoItem /\ g.balance = 0 /\ ~ g.running
        BY <2>1, StartedFactory DEF NewFactory
      <3>4. TypeOK' /\ StorageRespected'
        BY <3>1, <3>2 DEF TypeOK, StorageRespected, money, books
      <3> HIDE DEF g
      <3>5. factory'[k] = g /\ paid'[k] = 0
        BY <3>1 DEF TypeOK
      <3>6. \A j \in Kind \ {k} : factory'[j] = factory[j] /\ paid'[j] = paid[j]
        BY <3>1 DEF TypeOK
      <3>7. /\ g.stage # Steps
            /\ g.item = i => paid'[k] + g.balance = Cost[i]
            /\ g.item # i => g.item = NoItem /\ g.balance = 0 /\ ~ g.running
        <4>1. g.stage # Steps
          BY <3>2, StepCount
        <4>2. CASE made
          <5>1. paid'[k] + g.balance = Cost[i] /\ g.item = i
            BY <3>3, <3>5, <4>2, CostIsNat
          <5> QED BY <4>1, <5>1
        <4>3. CASE ~ made
          <5>1. g.item = NoItem /\ g.balance = 0 /\ ~ g.running
            BY <3>3, <4>3
          <5> QED BY <4>1, <5>1, ItemNames
        <4> QED BY <4>2, <4>3
      <3>8. PaidExactly'
        BY <3>5, <3>6, <3>7, ItemNames DEF PaidExactly, Holds, Exists, Completed
      <3> QED BY <3>4, <3>8
    <2>3. CASE Exists(k)
      <3>1. /\ factory' = [factory EXCEPT ![k] = Started(factory[k])]
            /\ UNCHANGED <<paid, money, capacity, books>>
        BY <1>5, <2>3 DEF BeginProduction
      <3>2. /\ Started(factory[k]) \in Factory
            /\ Started(factory[k]).item = factory[k].item
            /\ Started(factory[k]).balance = factory[k].balance
            /\ Started(factory[k]).stage = factory[k].stage
            /\ factory[k].item = NoItem => Started(factory[k]) = factory[k]
            /\ factory[k].stage = Steps => Started(factory[k]) = factory[k]
        BY StartedFactory DEF TypeOK
      <3>3. TypeOK' /\ StorageRespected'
        BY <3>1, <3>2 DEF TypeOK, StorageRespected, money, books
      <3>4. PaidExactly'
        BY <3>1, <3>2, <2>3 DEF PaidExactly, TypeOK, Holds, Exists, Completed
      <3> QED BY <3>3, <3>4
    <2> QED BY <2>2, <2>3
  <1>6. ASSUME NEW k \in Kind, SuspendProduction(k) PROVE IInv'
    <2>1. /\ factory' = [factory EXCEPT ![k].running = FALSE]
          /\ UNCHANGED <<money, capacity, paid, books>>
      BY <1>6 DEF SuspendProduction
    <2>2. TypeOK' /\ StorageRespected'
      BY <2>1 DEF TypeOK, StorageRespected, money, books, Factory
    <2>3. PaidExactly'
      BY <2>1 DEF PaidExactly, TypeOK, Factory, Holds, Exists, Completed
    <2> QED BY <2>2, <2>3
  <1>7. ASSUME NEW k \in Kind, AbandonProduction(k) PROVE IInv'
    <2>1. IF Holds(k) THEN RefundMoney(paid[k]) ELSE UNCHANGED money
      BY <1>7, CostIsNat
         DEF AbandonProduction, PaidExactly, TypeOK, Factory, RefundOf, Holds, Exists
    <2>2. credits' \in Nat /\ tiberium' = tiberium
      BY <2>1 DEF TypeOK, RefundMoney, money
    <2>3. Idle \in Factory
      BY StepCount DEF Idle, Factory
    <2>4. TypeOK' /\ StorageRespected'
      BY <1>7, <2>2, <2>3 DEF AbandonProduction, TypeOK, StorageRespected, books
    <2>5. PaidExactly'
      BY <1>7 DEF AbandonProduction, PaidExactly, TypeOK, Idle, Holds, Exists, Completed
    <2> QED BY <2>4, <2>5
  <1>8. ASSUME NEW k \in Kind, PlaceObject(k) PROVE IInv'
    <2>1. Idle \in Factory
      BY StepCount DEF Idle, Factory
    <2>2. TypeOK' /\ StorageRespected'
      BY <1>8, <2>1 DEF PlaceObject, TypeOK, StorageRespected, money
    <2>3. PaidExactly'
      BY <1>8 DEF PlaceObject, PaidExactly, TypeOK, Idle, Holds, Exists, Completed
    <2> QED BY <2>2, <2>3
  <1>9. ASSUME NEW k \in Kind, Installment(k) PROVE IInv'
    <2>1. /\ Due(k) \in Nat /\ Due(k) <= factory[k].balance
          /\ factory[k].stage + 1 = Steps => Due(k) = factory[k].balance
      BY <1>9, DueBounded DEF Installment
    <2>2. credits' \in Nat /\ tiberium' \in Nat /\ tiberium' <= capacity
      BY <1>9, <2>1, Affords DEF Installment, Affordable
    <2>3. factory[k] \in Factory /\ factory[k].stage # Steps
          /\ factory[k].item \notin {NoItem, NoFactory}
      BY <1>9 DEF Installment, Running, Completed, Holds, Exists, TypeOK
    <2> DEFINE g == [factory[k] EXCEPT !.stage = @ + 1,
                                       !.running = ~ (factory[k].stage + 1 = Steps),
                                       !.balance = @ - Due(k)]
    <2>4. /\ factory' = [factory EXCEPT ![k] = g]
          /\ paid' = [paid EXCEPT ![k] = @ + Due(k)]
          /\ UNCHANGED <<capacity, books>>
      BY <1>9 DEF Installment
    <2>5. /\ g \in Factory /\ g.item = factory[k].item
          /\ g.balance = factory[k].balance - Due(k)
          /\ g.stage = Steps => g.balance = 0 /\ ~ g.running
      <3>1. /\ g.item = factory[k].item /\ g.stage = factory[k].stage + 1
            /\ g.balance = factory[k].balance - Due(k)
            /\ g.running = (factory[k].stage + 1 # Steps)
        BY <2>3 DEF Factory
      <3>2. /\ factory[k].stage + 1 \in 0 .. Steps
            /\ factory[k].balance - Due(k) \in Nat
        BY <2>1, <2>3, StepCount DEF Factory
      <3>3. g \in Factory
        BY <2>3, <3>2 DEF Factory
      <3> HIDE DEF g
      <3> QED BY <2>1, <2>3, <3>1, <3>3 DEF Factory
    <2>6. TypeOK' /\ StorageRespected'
      BY <2>1, <2>2, <2>4, <2>5 DEF TypeOK, StorageRespected, books
    <2>7. paid'[k] + g.balance = paid[k] + factory[k].balance
      BY <2>1, <2>3, <2>4, <2>5 DEF TypeOK, Factory
    <2>8. PaidExactly'
      BY <2>3, <2>4, <2>5, <2>7 DEF PaidExactly, TypeOK, Holds, Exists, Completed
    <2> QED BY <2>6, <2>8
  <1>10. CASE UNCHANGED vars
    BY <1>10 DEF vars, money, books, TypeOK, StorageRespected, PaidExactly,
                 Holds, Exists, Completed
  <1> QED BY <1>1, <1>2, <1>3, <1>4, <1>5, <1>6, <1>7, <1>8, <1>9, <1>10 DEF Next

(* The conjunction is inductive: PaidExactly needs the types, and TypeOK's    *)
(* non-negative refunds need PaidExactly.                                     *)
THEOREM Invariance == Spec => []IInv
  BY InitIInv, NextIInv, PTL DEF Spec, Safety

(* No account and no balance is ever overdrawn, whatever the purse, the       *)
(* prices and the number of factories that draw on it.                        *)
THEOREM NothingOverdrawn == Spec => []TypeOK
  BY Invariance, PTL DEF IInv

(* FACTORY.H: an item costs exactly its price whatever the remainders of the  *)
(* instalments, and an abandoned one gives back what was paid.                *)
THEOREM ItemsCostTheirPrice == Spec => []PaidExactly
  BY Invariance, PTL DEF IInv

(* Tiberium is never stored beyond the silos there are. *)
THEOREM SilosSuffice == Spec => []StorageRespected
  BY Invariance, PTL DEF IInv

(* The books: a house's money, with what lies in its factories, is what it    *)
(* got less what it used up.                                                  *)
Balanced == credits + tiberium + Total(paid) = received - gone

LEMMA SameBooks == BooksBalance <=> Balanced
  BY DEF BooksBalance, Balanced, Total

(* The arithmetic: an account that was balanced is when as much came as went. *)
LEMMA Balances ==
  ASSUME NEW c \in Nat, NEW t \in Nat, NEW p \in Nat, NEW r \in Nat, NEW g \in Nat,
         NEW c1 \in Nat, NEW t1 \in Nat, NEW p1 \in Nat, NEW r1 \in Nat, NEW g1 \in Nat,
         c + t + p = r - g,
         (c1 + t1 + p1 + g1) + r = (c + t + p + g) + r1
  PROVE  c1 + t1 + p1 = r1 - g1
  OBVIOUS
LEMMA Shifts ==
  ASSUME NEW c \in Nat, NEW t \in Nat, NEW p \in Nat, NEW r \in Nat, NEW g \in Nat,
         NEW c1 \in Nat, NEW t1 \in Nat, NEW p1 \in Nat, NEW r1 \in Nat, NEW g1 \in Nat,
         NEW x \in Nat, NEW y \in Nat,
         p1 + x = p + y,
         (c1 + t1 + g1 + y) + r = (c + t + g + x) + r1
  PROVE  (c1 + t1 + p1 + g1) + r = (c + t + p + g) + r1
  OBVIOUS

(* Money that is spent goes to one factory, or comes back from it.            *)
LEMMA Moved ==
  ASSUME TypeOK, TypeOK', Balanced, NEW k \in Kind, NEW v \in Nat,
         paid' = [paid EXCEPT ![k] = v],
         (credits' + tiberium' + gone' + v) + received
           = (credits + tiberium + gone + paid[k]) + received'
  PROVE  Balanced'
  <1>1. paid \in [Kind -> Nat] /\ paid' \in [Kind -> Nat] /\ paid[k] \in Nat
    BY DEF TypeOK
  <1>2. Total([paid EXCEPT ![k] = v]) + paid[k] = Total(paid) + v
    <2>1. \A f \in [Kind -> Nat] : \A j \in Kind : \A w \in Nat :
             Total([f EXCEPT ![j] = w]) + f[j] = Total(f) + w
      BY FewKinds, TotalChanged
    <2> QED BY <1>1, <2>1
  <1>3. Total(paid) \in Nat /\ Total(paid') \in Nat
    BY <1>1, FewKinds, TotalType
  <1>4. Total(paid') + paid[k] = Total(paid) + v
    BY <1>2
  <1>5. /\ credits \in Nat /\ tiberium \in Nat /\ received \in Nat /\ gone \in Nat
        /\ credits' \in Nat /\ tiberium' \in Nat /\ received' \in Nat /\ gone' \in Nat
    BY DEF TypeOK
  <1>6. (credits' + tiberium' + Total(paid') + gone') + received
          = (credits + tiberium + Total(paid) + gone) + received'
    BY <1>1, <1>3, <1>4, <1>5, Shifts
  <1>7. credits + tiberium + Total(paid) = received - gone
    BY DEF Balanced
  <1>8. credits' + tiberium' + Total(paid') = received' - gone'
    BY <1>3, <1>5, <1>6, <1>7, Balances
  <1> QED BY <1>8 DEF Balanced

(* Money that comes to the house or goes from it.                             *)
LEMMA Booked ==
  ASSUME TypeOK, TypeOK', Balanced, UNCHANGED paid,
         (credits' + tiberium' + gone') + received = (credits + tiberium + gone) + received'
  PROVE  Balanced'
  <1>1. Total(paid) \in Nat /\ Total(paid') = Total(paid)
    BY FewKinds, TotalType DEF TypeOK
  <1>2. /\ credits \in Nat /\ tiberium \in Nat /\ received \in Nat /\ gone \in Nat
        /\ credits' \in Nat /\ tiberium' \in Nat /\ received' \in Nat /\ gone' \in Nat
    BY DEF TypeOK
  <1>3. (credits' + tiberium' + Total(paid') + gone') + received
          = (credits + tiberium + Total(paid) + gone) + received'
    <2>1. Total(paid') + 0 = Total(paid) + 0
      BY <1>1
    <2>2. (credits' + tiberium' + gone' + 0) + received
            = (credits + tiberium + gone + 0) + received'
      BY <1>2
    <2> QED BY <1>1, <1>2, <2>1, <2>2, Shifts
  <1> QED BY <1>1, <1>2, <1>3, Balances DEF Balanced

(* What is spent leaves credits and Tiberium together by its amount.          *)
LEMMA Pays ==
  ASSUME NEW c \in Nat, NEW t \in Nat, NEW m \in Nat, NEW c1, NEW t1,
         IF m > t THEN t1 = 0 /\ c1 = c - (m - t) ELSE t1 = t - m /\ c1 = c
  PROVE  c1 + t1 + m = c + t
  OBVIOUS
LEMMA Spent ==
  ASSUME TypeOK, NEW m \in Nat, SpendMoney(m)
  PROVE  credits' + tiberium' + m = credits + tiberium
  BY Pays DEF TypeOK, SpendMoney

LEMMA BooksStep ==
  ASSUME IInv, IInv', Balanced, [Next]_vars
  PROVE  Balanced'
  <1>a. /\ TypeOK /\ TypeOK'
        /\ credits \in Nat /\ tiberium \in Nat /\ received \in Nat /\ gone \in Nat
        /\ credits' \in Nat /\ tiberium' \in Nat /\ received' \in Nat /\ gone' \in Nat
        /\ paid \in [Kind -> Nat]
    BY DEF IInv, TypeOK
  <1>b. PICK c0 \in Nat, t0 \in Nat, g0 \in Nat, c1 \in Nat, t1 \in Nat, g1 \in Nat :
          /\ c0 = credits /\ t0 = tiberium /\ g0 = gone
          /\ c1 = credits' /\ t1 = tiberium' /\ g1 = gone'
    BY <1>a
  <1>1. ASSUME NEW m \in Amounts, Harvest(m) PROVE Balanced'
    <2>1. PICK kept \in Int : /\ tiberium' = tiberium + kept /\ received' = received + kept
                              /\ UNCHANGED <<credits, paid, gone>>
      <3>1. capacity \in Nat /\ m \in Nat
        BY Money DEF IInv, TypeOK
      <3> QED BY <1>1, <1>a, <3>1 DEF Harvest
    <2>2. (credits' + tiberium' + gone') + received = (credits + tiberium + gone) + received'
      BY <1>a, <2>1
    <2> QED BY <1>a, <2>1, <2>2, Booked
  <1>2. ASSUME NEW m \in Amounts, Repair(m) PROVE Balanced'
    <2>1. m \in Nat /\ credits' + tiberium' + m = credits + tiberium
      BY <1>2, <1>a, Spent, Money DEF Repair
    <2>2. gone' = gone + m /\ UNCHANGED <<paid, received>>
      BY <1>2 DEF Repair
    <2>3. c1 + t1 + m = c0 + t0 /\ g1 = g0 + m
      BY <1>b, <2>1, <2>2
    <2>4. c1 + t1 + g1 = c0 + t0 + g0
      BY <2>1, <2>3
    <2>5. (credits' + tiberium' + gone') + received = (credits + tiberium + gone) + received'
      BY <1>b, <2>2, <2>4
    <2> QED BY <1>a, <2>2, <2>5, Booked
  <1>3. ASSUME NEW m \in Amounts, Sell(m) PROVE Balanced'
    <2>1. /\ m \in Nat /\ credits' = credits + m /\ received' = received + m
          /\ UNCHANGED <<tiberium, paid, gone>>
      BY <1>3, Money DEF Sell, RefundMoney
    <2>2. (credits' + tiberium' + gone') + received = (credits + tiberium + gone) + received'
      BY <1>a, <2>1
    <2> QED BY <1>a, <2>1, <2>2, Booked
  <1>4. ASSUME NEW c \in 0 .. MaxCapacity, AdjustCapacity(c, c < capacity) PROVE Balanced'
    <2>1. /\ UNCHANGED <<paid, received>>
          /\ \/ credits' = credits /\ gone' = gone + (tiberium - tiberium')
             \/ credits' = credits + (tiberium - tiberium') /\ gone' = gone
      BY <1>4 DEF AdjustCapacity
    <2>2. (credits' + tiberium' + gone') + received = (credits + tiberium + gone) + received'
      <3>0. \/ c1 = c0 /\ g1 = g0 + (t0 - t1)
            \/ c1 = c0 + (t0 - t1) /\ g1 = g0
        BY <1>b, <2>1
      <3>1. c1 + t1 + g1 = c0 + t0 + g0
        BY <3>0
      <3> QED BY <1>b, <2>1, <3>1
    <2> QED BY <1>a, <2>1, <2>2, Booked
  <1>5. ASSUME UNCHANGED <<paid, money, books>> PROVE Balanced'
    <2>1. UNCHANGED <<paid, credits, tiberium, received, gone>>
      BY <1>5 DEF money, books
    <2> QED BY <2>1 DEF Balanced
  <1>6. ASSUME NEW k \in Kind, NEW i \in Item, NEW made \in BOOLEAN,
               BeginProduction(k, i, made)
        PROVE  Balanced'
    <2>1. CASE ~ Exists(k)
      <3>1. paid[k] = 0 /\ paid' = [paid EXCEPT ![k] = 0] /\ UNCHANGED <<money, books>>
        <4>1. /\ paid' = [paid EXCEPT ![k] = 0] /\ UNCHANGED <<money, books>>
          BY <1>6, <2>1 DEF BeginProduction
        <4>2. paid[k] = 0
          BY <2>1 DEF IInv, PaidExactly, Holds
        <4> QED BY <4>1, <4>2
      <3>2. paid' = paid
        BY <1>a, <3>1
      <3> QED BY <1>5, <3>1, <3>2
    <2>2. CASE Exists(k)
      BY <1>5, <1>6, <2>2 DEF BeginProduction
    <2> QED BY <2>1, <2>2
  <1>7. ASSUME NEW k \in Kind, SuspendProduction(k) PROVE Balanced'
    BY <1>5, <1>7 DEF SuspendProduction
  <1>8. ASSUME NEW k \in Kind, AbandonProduction(k) PROVE Balanced'
    <2>1. /\ paid[k] \in Nat /\ paid' = [paid EXCEPT ![k] = 0]
          /\ UNCHANGED <<received, gone>>
      BY <1>8, <1>a DEF AbandonProduction, books
    <2>2. credits' = credits + paid[k] /\ tiberium' = tiberium
      <3>1. CASE Holds(k)
        <4>1. RefundOf(k) = paid[k]
          <5>1. factory[k] \in Factory /\ factory[k].item \in Item
            BY <3>1 DEF IInv, TypeOK, Factory, Holds, Exists
          <5>2. paid[k] + factory[k].balance = Cost[factory[k].item]
            BY <3>1 DEF IInv, PaidExactly
          <5> QED BY <2>1, <5>1, <5>2, CostIsNat DEF Factory, RefundOf
        <4> QED BY <1>8, <3>1, <4>1 DEF AbandonProduction, RefundMoney
      <3>2. CASE ~ Holds(k)
        BY <1>8, <1>a, <3>2 DEF AbandonProduction, IInv, PaidExactly, money
      <3> QED BY <3>1, <3>2
    <2>3. (credits' + tiberium' + gone' + 0) + received
            = (credits + tiberium + gone + paid[k]) + received'
      BY <1>a, <2>1, <2>2
    <2>4. 0 \in Nat
      OBVIOUS
    <2> QED BY <1>a, <2>1, <2>3, <2>4, Moved
  <1>9. ASSUME NEW k \in Kind, PlaceObject(k) PROVE Balanced'
    <2>1. /\ paid[k] \in Nat /\ paid' = [paid EXCEPT ![k] = 0]
          /\ UNCHANGED <<credits, tiberium, received>> /\ gone' = gone + paid[k]
      BY <1>9, <1>a DEF PlaceObject, money
    <2>2. (credits' + tiberium' + gone' + 0) + received
            = (credits + tiberium + gone + paid[k]) + received'
      BY <1>a, <2>1
    <2>3. 0 \in Nat
      OBVIOUS
    <2> QED BY <1>a, <2>1, <2>2, <2>3, Moved
  <1>10. ASSUME NEW k \in Kind, Installment(k) PROVE Balanced'
    <2>1. Due(k) \in Nat /\ paid[k] \in Nat
      BY <1>10, <1>a, DueBounded DEF Installment, TypeOK
    <2>2. credits' + tiberium' + Due(k) = credits + tiberium
      BY <1>10, <1>a, <2>1, Spent DEF Installment
    <2>3. paid' = [paid EXCEPT ![k] = paid[k] + Due(k)] /\ UNCHANGED books
      BY <1>10 DEF Installment
    <2>4. paid[k] + Due(k) \in Nat
      BY <2>1
    <2> HIDE DEF Due
    <2>5. (credits' + tiberium' + gone' + (paid[k] + Due(k))) + received
            = (credits + tiberium + gone + paid[k]) + received'
      BY <1>a, <2>1, <2>2, <2>3 DEF books
    <2> QED BY <1>a, <2>3, <2>4, <2>5, Moved
  <1> QED BY <1>1, <1>2, <1>3, <1>4, <1>5, <1>6, <1>7, <1>8, <1>9, <1>10 DEF Next, vars

(* FactoryClass and HouseClass together make no money and lose none: what a   *)
(* house has, and has put into the items of all its factories, is what it was *)
(* given less what it used up, through every suspension, refusal and refund.  *)
THEOREM NoMoneyIsLost == Spec => []BooksBalance
  <1>1. Init => Balanced
    <2> SUFFICES ASSUME Init PROVE Balanced
      OBVIOUS
    <2>1. paid \in [Kind -> Nat] /\ \A k \in Kind : paid[k] = 0
      BY DEF Init
    <2>2. Total(paid) = 0
      BY <2>1, FewKinds, TotalType
    <2> QED BY <2>2, Money DEF Init, Balanced
  <1>2. IInv /\ IInv' /\ Balanced /\ [Next]_vars => Balanced'
    BY BooksStep
  <1> QED BY <1>1, <1>2, Invariance, SameBooks, PTL DEF Spec, Safety
===============================================================================
