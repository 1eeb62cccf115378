SPECIFICATION FairSpec
CONSTANTS
  a1 = a1
  a2 = a2
  none = none
  MaxSessions = 2
  Accounts = {a1}
  NoAccount = none
  Shards = 2
  MaxReports = 1
  Habits = {"again"}
INVARIANTS IndexIsLive LiveSessionIsFound SeatsAreHeldByTheLiving
PROPERTIES CutSessionsEnd
