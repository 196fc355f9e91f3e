\* One comic, one search and a Rebuild call beside the two loops, one restart.
SPECIFICATION FairSpec
CONSTANTS
  go = go
  sql = sql
  s1 = s1
  r1 = r1
  initiator = initiator
  subscriber = subscriber
  NoOne = NoOne
  Searchers = {s1}
  Rpcs = {r1}
  Vocab = {sql}
  ComicIds = {1}
  WordsOf <- OneWordOf
  Queries <- OneQuery
  Limits = {1}
  MaxPending = 1
  MaxRestarts = 1
PROPERTIES
  FreshIndex
  CallReturns
