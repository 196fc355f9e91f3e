\* Every kind of call at once; liveness needs the whole behaviour graph: no
\* symmetry, two comics.
SPECIFICATION FairSpec
CONSTANTS
  u1 = u1
  d1 = d1
  r1 = r1
  w1 = w1
  w2 = w2
  NoCaller = NoCaller
  Updaters = {u1}
  Droppers = {d1}
  Readers  = {r1}
  Workers  = {w1, w2}
  MaxId    = 2
  failedComicId = 2
  Absent   = {2}
  MaxCrashes = 0
INVARIANTS
  StatsConsistent
PROPERTIES
  CallReturns
