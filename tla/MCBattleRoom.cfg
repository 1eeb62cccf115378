SPECIFICATION FairSpec
CONSTANTS
  NPlayers = 3
  MinPlayers = 2
  TeamOf <- Alternate
  StartHp = 2
  MaxDamage = 2
  MaxMove = 1
  MaxOrphans = 1
  MaxLate = 1
INVARIANTS TurnHolderStands SomeoneWillAct ResultOnce
PROPERTIES ImplementsBattle TurnEnds DestroyedRoomDrains
