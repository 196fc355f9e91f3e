\* A limit beyond what fits the wire.
SPECIFICATION Spec
CONSTANTS
  c1 = c1
  Clients = {c1}
  Routes = {"isearch"}
  Slots = 1
  MaxSlack = 0
  TokenTTL = 0
  Limits <- MCLimits
  minLim = 2
  Half = 4
  MaxFound = 2
  MaxRestarts = 0
INVARIANTS
  RequestedLimitUsed
