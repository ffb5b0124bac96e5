SPECIFICATION Spec
CONSTANTS
  Kind = {"Unit", "Building"}
  Item = {"Dear", "Cheap"}
  Cost <- Price
  Steps = 3
  Amounts = {1, 2}
  StartMoney = 3
  MaxCapacity = 2
  Purse = 6
INVARIANTS TypeOK PaidExactly StorageRespected BooksBalance
PROPERTIES ProductionMoves
