SPECIFICATION Spec
CONSTANTS
  a1 = a1
  a2 = a2
  a3 = a3
  f1 = f1
  f2 = f2
  ice = ice
  star = star
  Accounts = {a1, a2, a3}
  Fibers = {f1, f2}
  Weapons = {ice}
  IceCream = ice
  PerTeam = 2
  MaxRooms = 2
  Mishaps = {"departure", "rejection"}
SYMMETRY Symmetric
INVARIANTS HandedOverOnce RunningBattleIsHidden
PROPERTY ImplementsMatchmaking
CHECK_DEADLOCK FALSE
