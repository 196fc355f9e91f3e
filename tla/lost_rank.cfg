\* One search of a ranked index.
SPECIFICATION Spec
CONSTANTS
  go = go
  sql = sql
  s1 = s1
  initiator = initiator
  subscriber = subscriber
  NoOne = NoOne
  Searchers = {s1}
  Rpcs = {}
  Vocab <- MCVocab
  ComicIds = {1, 2}
  WordsOf <- MCWordsOf
  Queries <- MCQueries
  Limits = {2}
  MaxPending = 0
  MaxRestarts = 0
INVARIANTS
  RankedComics
