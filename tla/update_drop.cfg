\* Two concurrent Updates of two workers each and a Drop, one crash.
SPECIFICATION Spec
CONSTANTS
  u1 = u1
  u2 = u2
  d1 = d1
  w1 = w1
  w2 = w2
  NoCaller = NoCaller
  Updaters = {u1, u2}
  Droppers = {d1}
  Readers  = {}
  Workers  = {w1, w2}
  MaxId    = 3
  failedComicId = 2
  Absent   = {1, 2}
  MaxCrashes = 1
SYMMETRY Symmetry
INVARIANTS
  TypeOK
  IInv
  RunningWhileUpdating
  OkMeansDone
  NoConflictingInsert
  ErrsNeverFull
PROPERTIES
  TruncateExcludesUpdate
  ImplementsComicStore
