\* Two clients, one slot, every kind of route, one restart; no symmetry, for
\* the liveness.
SPECIFICATION FairSpec
CONSTANTS
  c1 = c1
  c2 = c2
  Clients = {c1, c2}
  Routes = {"search", "isearch", "home", "update", "admin_drop", "admin", "stats", "status"}
  Slots = 1
  MaxSlack = 1
  TokenTTL = 0
  Limits <- FewLimits
  minLim = 2
  Half = 4
  MaxFound = 2
  MaxRestarts = 1
INVARIANTS
  TypeOK
  SlotsExact
  PermitsDistinct
PROPERTIES
  RefusedOnlyWhenFull
  AnswersFit
  TokensLastTheirTime
  GateReopens
