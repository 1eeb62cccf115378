SPECIFICATION Spec
CONSTANTS
  a1 = a1
  a2 = a2
  a3 = a3
  f1 = f1
  f2 = f2
  ice = ice
  star = star
  Accounts = {a1, a2, a3}
  Fibers = {f1, f2}
  Weapons = {ice, star}
  IceCream = ice
  PerTeam = 2
  MaxRooms = 1
  Mishaps = {"second room", "departure", "rejection", "lost answer", "haste"}
SYMMETRY Symmetric
INVARIANTS StartedRoomIsItsBattle TeamsFit
CHECK_DEADLOCK FALSE
