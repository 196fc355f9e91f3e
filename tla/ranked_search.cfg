\* Two comics with texts of up to two words, searched with such phrases.
SPECIFICATION Spec
CONSTANTS
  tree = tree
  trees = trees
  go = go
  the = the
  RawWords <- MCRawWords
  StopWords = {the}
  Stem <- MCStem
  MaxPhraseLen = 2
  Vocab <- MCVocab
  ComicIds = {1, 2}
  Phrases <- MCPhrases
  Limits = {0, 1, 2}
INVARIANTS
  TypeOK
  SearchesAgree
  AnswersByMeaning
