\* The update service cannot be reached.
SPECIFICATION Spec
CONSTANTS
  c1 = c1
  Clients = {c1}
  Routes = {"stats"}
  Slots = 1
  MaxSlack = 0
  TokenTTL = 0
  Limits <- OneLimit
  minLim = 2
  Half = 4
  MaxFound = 2
  MaxRestarts = 0
PROPERTIES
  FiguresAreReported
