\* One user, every service and server, three faults.
SPECIFICATION FairSpec
CONSTANTS
  u1 = u1
  Users = {u1}
  Targets = {"update", "search"}
  pingers = {"update", "words"}
  MaxFaults = 3
INVARIANTS
  TypeOK
  ServingMeansMigrated
PROPERTIES
  PingTruthful
  CutOffOnlyByFault
  StackComesUp
  NoServiceWithoutInitiator
  RequestsEnd
