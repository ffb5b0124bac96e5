SPECIFICATION Spec
CONSTANTS
  Harvester = {h1, h2}
  Refinery = {r1}
  NoOne = NoOne
  Human <- Anyone
  FullLoad = 2
  Tiberium = 3
  MaxTrouble = 1
INVARIANTS TypeOK ContactIsMutual OneInside LeavesEmpty NobodyForgotten
PROPERTIES TiberiumComesHome RefineryComesFree
CHECK_DEADLOCK FALSE
