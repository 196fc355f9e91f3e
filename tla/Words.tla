-------------------------------- MODULE Words --------------------------------
(***************************************************************************)
(* The words service: words/main.go and words/words/words.go.  A phrase is *)
(* the sequence of its lower-case words; the stemmer is a function.        *)
(***************************************************************************)
EXTENDS Integers, Sequences, SequencesExt

CONSTANTS
  RawWords,     \* words as they are written
  StopWords,    \* those that mean nothing
  Stem,         \* the stem of each word
  MaxPhraseLen  \* the longest phrase the service takes

ASSUME WordsAssumption ==
  /\ StopWords \subseteq RawWords
  /\ DOMAIN Stem = RawWords
  /\ MaxPhraseLen \in Nat

\* Mutant: the words are not stemmed.
NormUnstemmed(phrase) ==
  FoldLeft(LAMBDA res, word :
             IF word \in StopWords \/ word \in ToSet(res) THEN res ELSE Append(res, word),
           <<>>, phrase)

\* Mutant: duplicates are looked for before stemming.
NormDedupsRaw(phrase) ==
  FoldLeft(LAMBDA res, i :
             IF phrase[i] \in StopWords \/ \E j \in 1..(i - 1) : phrase[j] = phrase[i]
               THEN res ELSE Append(res, Stem[phrase[i]]),
           <<>>, [i \in DOMAIN phrase |-> i])

\* The stems of the words that are no stop words, each where it occurs first.
Norm(phrase) ==
  FoldLeft(LAMBDA res, word :
             IF word \in StopWords \/ Stem[word] \in ToSet(res) THEN res ELSE Append(res, Stem[word]),
           <<>>, phrase)

\* The gRPC handler refuses a phrase that is too long.
Accepted(phrase) == Len(phrase) <= MaxPhraseLen
=============================================================================
