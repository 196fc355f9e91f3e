---------------------------- MODULE SearchPromise ----------------------------
(***************************************************************************)
(* What the search service promises, with no locks, loops or queues.  The  *)
(* index is replaced as a whole by what some Rebuild has read of the table, *)
(* possibly a while ago.  A search of the index is scored against one index *)
(* in one step between its question and its answer, and is answered with   *)
(* those of its best comics that the table still has; a search of the      *)
(* database is answered from one look at the table.  How comics are ranked *)
(* is left to the operators among the constants.                           *)
(***************************************************************************)
EXTENDS Integers, Sequences

CONSTANTS
  Searchers,         \* clients that search
  Rebuilders,        \* whoever rebuilds the index
  ComicIds,
  Queries,           \* what the phrases of clients are normalised to
  Limits,            \* the limits clients ask for
  IndexOf(_),        \* the index of a table
  Scored(_, _),      \* the points an index gives each comic for a query
  Hits(_),           \* how many comics have points
  Best(_, _),        \* the comics with most points, no more than a limit
  Orders(_),         \* the sequences a set of comics can be listed in
  Selected(_, _, _)  \* the comics a table gives for a query, up to a limit

VARIABLES
  db,      \* ids of the stored comics
  index,   \* the index in use
  copy,    \* what each rebuilder has read of the table and not installed
  stage,   \* "asked", "scored" or, with no question pending, "idle"
  asked,   \* the question each client asked last
  score,   \* the points of each comic in a search that has been scored
  answer   \* the answer each client got last, Failed until it gets one

vars == <<db, index, copy, stage, asked, score, answer>>

NoPoints == [id \in ComicIds |-> 0]
Failed   == [err |-> TRUE, comics |-> <<>>, total |-> 0]
Found(comics, total) == [err |-> FALSE, comics |-> comics, total |-> total]

Init ==
  /\ db \in SUBSET ComicIds
  /\ index = IndexOf({})
  /\ copy = [r \in Rebuilders |-> IndexOf({})]
  /\ stage = [c \in Searchers |-> "idle"]
  /\ asked = [c \in Searchers |-> [via |-> "isearch", query |-> <<>>, limit |-> 0]]
  /\ score = [c \in Searchers |-> NoPoints]
  /\ answer = [c \in Searchers |-> Failed]

Change ==
  /\ db' \in SUBSET ComicIds
  /\ UNCHANGED <<index, copy, stage, asked, score, answer>>

Read(r) ==
  /\ copy' = [copy EXCEPT ![r] = IndexOf(db)]
  /\ UNCHANGED <<db, index, stage, asked, score, answer>>

Install(r) ==
  /\ index' = copy[r]
  /\ copy' = [copy EXCEPT ![r] = IndexOf({})]
  /\ UNCHANGED <<db, stage, asked, score, answer>>

Ask(c) ==
  /\ stage[c] = "idle"
  /\ stage' = [stage EXCEPT ![c] = "asked"]
  /\ \E via \in {"search", "isearch"}, query \in Queries, limit \in Limits :
       asked' = [asked EXCEPT ![c] = [via |-> via, query |-> query, limit |-> limit]]
  /\ answer' = [answer EXCEPT ![c] = Failed]
  /\ UNCHANGED <<db, index, copy, score>>

Reply(c, what) ==
  /\ stage' = [stage EXCEPT ![c] = "idle"]
  /\ score' = [score EXCEPT ![c] = NoPoints]
  /\ answer' = [answer EXCEPT ![c] = what]
  /\ UNCHANGED <<db, index, copy, asked>>

Score(c) ==
  /\ stage[c] = "asked"
  /\ asked[c].via = "isearch"
  /\ stage' = [stage EXCEPT ![c] = "scored"]
  /\ score' = [score EXCEPT ![c] = Scored(index, asked[c].query)]
  /\ UNCHANGED <<db, index, copy, asked, answer>>

\* Nothing has to be looked up.
ReplyEmpty(c) ==
  /\ stage[c] = "asked"
  /\ asked[c].via = "isearch"
  /\ LET total == Hits(Scored(index, asked[c].query))
     IN /\ total = 0 \/ asked[c].limit <= 0
        /\ Reply(c, Found(<<>>, total))

ReplyScored(c) ==
  /\ stage[c] = "scored"
  /\ \E comics \in Orders(Best(asked[c].limit, score[c]) \cap db) :
       Reply(c, Found(comics, Hits(score[c])))

ReplySelected(c) ==
  /\ stage[c] = "asked"
  /\ asked[c].via = "search"
  /\ asked[c].limit >= 0
  /\ LET comics == Selected(db, asked[c].query, asked[c].limit)
     IN Reply(c, Found(comics, Len(comics)))

Fail(c) == stage[c] # "idle" /\ Reply(c, Failed)

\* A restart forgets the index and everything in progress.
Restart ==
  /\ index' = IndexOf({})
  /\ copy' = [r \in Rebuilders |-> IndexOf({})]
  /\ stage' = [c \in Searchers |-> "idle"]
  /\ score' = [c \in Searchers |-> NoPoints]
  /\ UNCHANGED <<db, asked, answer>>

Next ==
  \/ Change
  \/ \E r \in Rebuilders : Read(r) \/ Install(r)
  \/ \E c \in Searchers :
       \/ Ask(c) \/ Score(c) \/ Fail(c)
       \/ ReplyEmpty(c) \/ ReplyScored(c) \/ ReplySelected(c)
  \/ Restart

Spec == Init /\ [][Next]_vars
=============================================================================
