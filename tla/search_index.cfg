\* Searches beside the initiator and the subscriber.
SPECIFICATION Spec
CONSTANTS
  go = go
  sql = sql
  s1 = s1
  initiator = initiator
  subscriber = subscriber
  NoOne = NoOne
  Searchers = {s1}
  Rpcs = {}
  Vocab <- MCVocab
  ComicIds = {1, 2}
  WordsOf <- MCWordsOf
  Queries <- MCQueries
  Limits <- MCLimits
  MaxPending = 1
  MaxRestarts = 0
INVARIANTS
  TypeOK
  CountsOneIndex
  IInv
  PagesFit
PROPERTIES
  ImplementsSearchPromise
