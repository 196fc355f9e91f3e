\* An Update and a Drop beside the two loops and a Rebuild; one restart.
\* Searches delay Install and Exit and change nothing these properties speak of;
\* with one of them the instance is ten times as large, so this one has none.
SPECIFICATION PipeSpec
CONSTANTS
  u1 = u1
  d1 = d1
  r1 = r1
  sql = sql
  NoCaller = NoCaller
  Updaters = {u1}
  Droppers = {d1}
  MaxId    = 1
  ComicIds = {1}
  Skipped  = {}
  Searchers = {}
  Rpcs = {r1}
  initiator = initiator
  subscriber = subscriber
  NoOne = NoOne
  Vocab = {sql}
  WordsOf <- MCWordsOf
  Queries <- MCQueries
  Limits = {1}
  MaxPending = 1
  MaxRestarts = 1
  MaxWire = 1
INVARIANTS
  StalenessExplained
  UpdatedIsSearchable
  PipeIInv
