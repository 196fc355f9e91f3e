\* Two Updates and a Drop: the status field outlives the Update that set it.
SPECIFICATION Spec
CONSTANTS
  u1 = u1
  u2 = u2
  d1 = d1
  w1 = w1
  NoCaller = NoCaller
  Updaters = {u1, u2}
  Droppers = {d1}
  Readers  = {}
  Workers  = {w1}
  MaxId    = 1
  failedComicId = 2
  Absent   = {2}
  MaxCrashes = 0
PROPERTIES
  DropRefusedOnlyDuringUpdate
