SPECIFICATION FairSpec
CONSTANTS
  a1 = a1
  a2 = a2
  a3 = a3
  f1 = f1
  f2 = f2
  f3 = f3
  Accounts = {a1, a2}
  Fibers = {f1, f2, f3}
  MinPlayers = 1
  MaxRooms = 2
INVARIANTS IndexIsSound RoomsAreInhabited PlayersAreFound
PROPERTY DesertedRoomIsDestroyed
CHECK_DEADLOCK FALSE
