---------------------------- MODULE Gateway_proofs ----------------------------
(***************************************************************************)
(* Theorems about Gateway, for every set of clients and routes, every size *)
(* of the semaphore, width of the wire, rate and lifetime of tokens.       *)
(***************************************************************************)
EXTENDS Gateway, FiniteSetTheorems, TLAPS

Steps == {"idle", "gate", "take", "sleep", "auth", "validate", "call", "status"}

\* The searches that have a slot.
Holders == {c \in Clients : Holding(c)}

\* Where a request can stand, by its route; at the gate it has no answer yet.
Stages ==
  \A c \in Clients :
    /\ pc[c] = "gate" => req[c].route = "search" /\ resp[c] = NoAnswer
    /\ pc[c] \in {"take", "sleep"} => req[c].route = "isearch"
    /\ pc[c] = "auth" => req[c].route \in Guarded
    /\ pc[c] = "status" => req[c].route = "admin"

\* What the search service is asked for has been looked at, then narrowed.
Asked ==
  \A c \in Clients :
    pc[c] = "call" /\ req[c].route \in Searching
      => req[c].limit > 0 /\ sent[c] = Narrow(req[c].limit)

\* The inductive invariant: the semaphore is exact because a search that
\* passed the gate is only ever in its handler.
IInv == TypeOK /\ Stages /\ Asked /\ SlotsExact

USE DEF clockVars, lifeVars, requestVars

-----------------------------------------------------------------------------
(***************************************************************************)
(* Values                                                                  *)
(***************************************************************************)
\* What a client is given is an answer.
LEMMA AnswersType ==
  /\ NoAnswer \in Answers
  /\ \A code \in {200, 202, 303, 400, 401, 500, 503}, err \in {"none", "ok", "exists", "error"} :
       Plain(code, err) \in Answers
  /\ Found \subseteq Answers
  BY GatewayAssumption DEF NoAnswer, Answers, Plain, Found

\* Requests are requests.
LEMMA RequestsType == NoRequest \in AllRequests /\ Requests \subseteq AllRequests
  BY GatewayAssumption DEF NoRequest, AllRequests, AllRoutes, Requests

\* A limit that went over the wire is still a number.
LEMMA NarrowType == \A limit \in Int : Narrow(limit) \in Int
  BY GatewayAssumption DEF Narrow

\* It may have become smaller, even negative, but never larger.
LEMMA NarrowShrinks ==
  ASSUME NEW limit \in Nat PROVE Narrow(limit) <= limit
  <1> DEFINE a == limit + Half
             b == 2 * Half
  <1>1. a \in Nat /\ b \in Nat /\ b > 0
    BY GatewayAssumption
  <1> HIDE DEF a, b
  <1>2. a % b \in Int /\ a % b <= a
    BY <1>1, SMTT(20)
  <1> QED BY <1>2, GatewayAssumption DEF Narrow, a, b

\* The limiter tells a time.
LEMMA NextPermitType == ASSUME ahead \in Int PROVE NextPermit \in Int
  BY GatewayAssumption DEF NextPermit

\* Tokens stay tokens when they age.
LEMMA TokenTypes ==
  LET Tokens == [left : -1..TokenTTL, age : 0..(TokenTTL + 1)]
  IN  /\ NoToken \in Tokens
      /\ NewToken \in Tokens
      /\ \A token \in Tokens : Older(token) \in Tokens
  BY GatewayAssumption DEF NoToken, NewToken, Older

\* There are finitely many who have a slot, and none of them twice.
LEMMA HoldersFinite == IsFiniteSet(Holders) /\ Cardinality(Holders) \in Nat
  <1>1. IsFiniteSet(Holders)
    BY GatewayAssumption, FS_Subset, Holders \subseteq Clients DEF Holders
  <1> QED BY <1>1, FS_CardinalityType

\* The initial states.
LEMMA InitOK == Init => IInv
  <1> SUFFICES ASSUME Init PROVE IInv
    OBVIOUS
  <1>1. TypeOK
    <2>1. session \in [Clients -> [left : -1..TokenTTL, age : 0..(TokenTTL + 1)]]
      BY TokenTypes DEF Init
    <2>2. resp \in [Clients -> Answers] /\ req \in [Clients -> AllRequests]
      BY AnswersType, RequestsType DEF Init
    <2>3. 0 \in 0..MaxRestarts
      BY GatewayAssumption
    <2>4. pc \in [Clients -> Steps] /\ gone \in [Clients -> BOOLEAN]
      BY DEF Init, Steps
    <2>5. sent \in [Clients -> Int] /\ sleep \in [Clients -> Nat]
      BY DEF Init
    <2>6. sema \in Nat /\ ahead \in Int /\ restarts = 0
      BY DEF Init
    <2>7. used \in BOOLEAN /\ stopping \in BOOLEAN
      BY Zenon DEF Init
    <2> QED BY <2>1, <2>2, <2>3, <2>4, <2>5, <2>6, <2>7 DEF Steps, TypeOK
  <1>2. Stages /\ Asked
    BY DEF Init, Stages, Asked
  <1>3. Holders = {}
    BY DEF Init, Holders, Holding
  <1>4. SlotsExact
    BY <1>3, FS_EmptySet, GatewayAssumption DEF Init, SlotsExact, Holders
  <1> QED BY <1>1, <1>2, <1>4 DEF IInv

-----------------------------------------------------------------------------
(***************************************************************************)
(* Who has a slot                                                          *)
(***************************************************************************)
\* A step that leaves the semaphore and those who have a slot alone.
LEMMA SlotsKept ==
  ASSUME SlotsExact, Holders' = Holders, sema' = sema
  PROVE  SlotsExact'
  BY DEF SlotsExact, Holders

\* An answer, whatever it is and wherever the request stands, frees the slot
\* of a search that has one, and takes none from the others.
LEMMA AnswerOK ==
  ASSUME IInv, NEW c \in Clients, NEW from \in Steps, NEW what \in Answers,
         Answer(c, from, what), UNCHANGED <<clockVars, lifeVars>>
  PROVE  IInv'
  <1>1. /\ pc \in [Clients -> Steps] /\ req \in [Clients -> AllRequests]
        /\ resp \in [Clients -> Answers] /\ sema \in Nat
    BY DEF IInv, TypeOK, Steps
  <1>2. /\ pc' = [pc EXCEPT ![c] = "idle"]
        /\ req' = [req EXCEPT ![c] = NoRequest]
        /\ resp' = [resp EXCEPT ![c] = what]
    BY DEF Answer, Goto
  <1>3. Holders' = Holders \ {c}
    BY <1>1, <1>2 DEF Holders, Holding
  <1>4. sema' = IF c \in Holders THEN sema - 1 ELSE sema
    BY DEF Answer, Holders
  <1>5. Cardinality(Holders') = IF c \in Holders THEN Cardinality(Holders) - 1 ELSE Cardinality(Holders)
    BY <1>3, HoldersFinite, FS_RemoveElement
  <1>6. sema = Cardinality(Holders) /\ sema <= Slots
    BY DEF IInv, SlotsExact, Holders
  <1>7. SlotsExact' /\ sema' \in Nat
    <2>1. IsFiniteSet(Holders')
      BY <1>3, HoldersFinite, FS_RemoveElement
    <2>2. sema' = Cardinality(Holders') /\ Cardinality(Holders') \in Nat
      BY <1>4, <1>5, <1>6, <2>1, FS_CardinalityType
    <2>3. sema' <= Slots
      BY <1>4, <1>6, <1>1, GatewayAssumption
    <2> QED BY <2>2, <2>3 DEF SlotsExact, Holders
  <1>8. TypeOK'
    <2>1. pc' \in [Clients -> Steps] BY <1>1, <1>2 DEF Steps
    <2>2. req' \in [Clients -> AllRequests] BY <1>1, <1>2, RequestsType
    <2>3. resp' \in [Clients -> Answers] BY <1>1, <1>2
    <2>4. sent' \in [Clients -> Int] /\ gone' \in [Clients -> BOOLEAN]
      BY DEF Answer, IInv, TypeOK
    <2> QED BY <1>7, <2>1, <2>2, <2>3, <2>4 DEF IInv, TypeOK, Steps
  <1>9. Stages'
    BY <1>1, <1>2 DEF IInv, Stages
  <1>10. Asked'
    BY <1>1, <1>2 DEF Answer, IInv, TypeOK, Asked
  <1> QED BY <1>7, <1>8, <1>9, <1>10 DEF IInv

\* A request that moves on without an answer, and neither takes a slot nor
\* had to: every step but the one through the gate.
LEMMA MoveOK ==
  ASSUME IInv, NEW c \in Clients, NEW from \in Steps, NEW to \in Steps,
         Goto(c, from, to), to \notin {"gate", "auth"},
         to \in {"take", "sleep"} => req[c].route = "isearch",
         to = "status" => req[c].route = "admin",
         req[c].route = "search" => from = "validate" /\ to = "call",
         UNCHANGED <<sema, req>>
  PROVE  /\ pc' \in [Clients -> Steps]
         /\ SlotsExact'
         /\ (to # "call" \/ req[c].route \notin Searching) /\ sent' = sent => Asked'
         /\ (\A d \in Clients \ {c} : resp'[d] = resp[d]) => Stages'
  <1>1. pc \in [Clients -> Steps]
    BY DEF IInv, TypeOK, Steps
  <1>2. pc' = [pc EXCEPT ![c] = to] /\ pc[c] = from
    BY DEF Goto
  <1>3. Holders' = Holders
    BY <1>1, <1>2 DEF Holders, Holding
  <1>4. SlotsExact'
    BY <1>3, SlotsKept DEF IInv
  <1>5. (\A d \in Clients \ {c} : resp'[d] = resp[d]) => Stages'
    BY <1>1, <1>2 DEF IInv, Stages
  <1>6. pc' \in [Clients -> Steps]
    BY <1>1, <1>2
  <1>7. (to # "call" \/ req[c].route \notin Searching) /\ sent' = sent => Asked'
    BY <1>1, <1>2 DEF IInv, Asked
  <1> QED BY <1>4, <1>5, <1>6, <1>7

-----------------------------------------------------------------------------
(***************************************************************************)
(* One lemma for each action                                               *)
(***************************************************************************)
\* A new request stands where its route begins, and has no slot.
LEMMA ReceiveOK ==
  ASSUME IInv, NEW c \in Clients, Receive(c) PROVE IInv'
  <1>1. PICK r \in Requests :
          req' = [req EXCEPT ![c] = r] /\ Goto(c, "idle", Entry(r.route))
    BY DEF Receive
  <1>2. /\ pc \in [Clients -> Steps] /\ req \in [Clients -> AllRequests]
        /\ resp \in [Clients -> Answers]
    BY DEF IInv, TypeOK, Steps
  <1>3. r \in AllRequests /\ r.route \in AllRoutes
    BY RequestsType DEF AllRequests
  <1>4. /\ Entry(r.route) \in Steps
        /\ r.route = "search" => Entry(r.route) = "gate"
        /\ Entry(r.route) = "gate" => r.route = "search"
        /\ Entry(r.route) \notin {"sleep", "status"}
        /\ Entry(r.route) = "take" => r.route = "isearch"
        /\ Entry(r.route) = "auth" => r.route \in Guarded
        /\ Entry(r.route) = "call" => r.route \notin Searching
    BY <1>3 DEF Entry, Steps, AllRoutes, Searching, Guarded, Updating, Dropping
  <1>5. pc' = [pc EXCEPT ![c] = Entry(r.route)] /\ pc[c] = "idle"
    BY <1>1 DEF Goto
  <1>6. resp' = [resp EXCEPT ![c] = NoAnswer]
    BY DEF Receive
  <1>7. Holders' = Holders
    BY <1>1, <1>2, <1>4, <1>5 DEF Holders, Holding
  <1>8. SlotsExact'
    BY <1>7, SlotsKept DEF IInv, Receive
  <1>9. TypeOK'
    <2>1. pc' \in [Clients -> Steps] BY <1>2, <1>4, <1>5
    <2>2. req' \in [Clients -> AllRequests] BY <1>1, <1>2, <1>3
    <2>3. resp' \in [Clients -> Answers] BY <1>2, <1>6, AnswersType
    <2> QED BY <2>1, <2>2, <2>3 DEF Receive, IInv, TypeOK, Steps
  <1>10. Stages'
    BY <1>1, <1>2, <1>4, <1>5, <1>6 DEF IInv, Stages
  <1>11. Asked'
    BY <1>1, <1>2, <1>4, <1>5 DEF Receive, IInv, Asked
  <1> QED BY <1>8, <1>9, <1>10, <1>11 DEF IInv

\* The gate: there is a slot for the one who enters.
LEMMA EnterOK ==
  ASSUME IInv, NEW c \in Clients, Enter(c) PROVE IInv'
  <1>1. CASE /\ sema < Slots
             /\ Goto(c, "gate", "validate")
             /\ sema' = sema + 1
             /\ UNCHANGED <<req, sent, gone, resp>>
    <2>1. pc \in [Clients -> Steps] /\ sema \in Nat
      BY DEF IInv, TypeOK, Steps
    <2>2. pc' = [pc EXCEPT ![c] = "validate"] /\ pc[c] = "gate"
      BY <1>1 DEF Goto
    <2>3. req[c].route = "search"
      BY <2>2 DEF IInv, Stages
    <2>4. Holders' = Holders \cup {c} /\ c \notin Holders
      BY <1>1, <2>1, <2>2, <2>3 DEF Holders, Holding
    <2>5. Cardinality(Holders') = Cardinality(Holders) + 1
      BY <2>4, HoldersFinite, FS_AddElement
    <2>6. sema = Cardinality(Holders)
      BY DEF IInv, SlotsExact, Holders
    <2>7. sema' = Cardinality(Holders')
      BY <1>1, <2>5, <2>6
    <2>8. SlotsExact'
      BY <1>1, <2>1, <2>7, GatewayAssumption DEF SlotsExact, Holders
    <2>9. TypeOK'
      <3>1. pc' \in [Clients -> Steps] /\ sema' \in Nat
        BY <1>1, <2>1, <2>2 DEF Steps
      <3> QED BY <1>1, <3>1 DEF Enter, IInv, TypeOK, Steps
    <2>10. Stages'
      BY <1>1, <2>1, <2>2 DEF IInv, Stages
    <2>11. Asked'
      BY <1>1, <2>1, <2>2 DEF IInv, Asked
    <2> QED BY <2>8, <2>9, <2>10, <2>11 DEF IInv
  <1>2. CASE sema >= Slots /\ Answer(c, "gate", Plain(503, "none"))
    BY <1>2, AnswerOK, AnswersType DEF Enter, Steps
  <1> QED BY <1>1, <1>2 DEF Enter

\* Searches of the index do not touch the semaphore.
LEMMA TakeOK ==
  ASSUME IInv, NEW c \in Clients, Take(c) PROVE IInv'
  <1>1. pc[c] = "take" /\ req[c].route = "isearch"
    BY DEF Take, Goto, IInv, Stages
  <1>2. pc' \in [Clients -> Steps] /\ SlotsExact' /\ Stages' /\ Asked'
    BY <1>1, MoveOK DEF Take, Steps
  <1>3. ahead' \in Int /\ sleep' \in [Clients -> Nat]
    BY NextPermitType DEF Take, IInv, TypeOK
  <1>4. TypeOK'
    BY <1>2, <1>3 DEF Take, IInv, TypeOK, Steps
  <1> QED BY <1>2, <1>4 DEF IInv

LEMMA WakeOK ==
  ASSUME IInv, NEW c \in Clients, Wake(c) PROVE IInv'
  <1>1. pc[c] = "sleep" /\ req[c].route = "isearch"
    BY DEF Wake, Goto, IInv, Stages
  <1>2. pc' \in [Clients -> Steps] /\ SlotsExact' /\ Stages' /\ Asked'
    BY <1>1, MoveOK DEF Wake, Steps
  <1>3. TypeOK'
    BY <1>2 DEF Wake, IInv, TypeOK, Steps
  <1> QED BY <1>2, <1>3 DEF IInv

LEMMA AuthenticateOK ==
  ASSUME IInv, NEW c \in Clients, Authenticate(c) PROVE IInv'
  <1>1. CASE Goto(c, "auth", "call") /\ UNCHANGED <<sema, req, sent, gone, resp>>
    <2>1. pc[c] = "auth" /\ req[c].route \in Guarded
      BY <1>1 DEF Goto, IInv, Stages
    <2>2. req[c].route \notin Searching /\ req[c].route # "search"
      BY <2>1 DEF Guarded, Updating, Dropping, Searching
    <2>3. pc' \in [Clients -> Steps] /\ SlotsExact' /\ Stages' /\ Asked'
      BY <1>1, <2>2, MoveOK DEF Steps
    <2>4. TypeOK'
      BY <1>1, <2>3 DEF Authenticate, IInv, TypeOK, Steps
    <2> QED BY <2>3, <2>4 DEF IInv
  <1>2. CASE Answer(c, "auth", Plain(IF req[c].route = "admin" THEN 200 ELSE 401, "none"))
    BY <1>2, AnswerOK, AnswersType DEF Authenticate, Steps
  <1> QED BY <1>1, <1>2 DEF Authenticate

\* A search that is well-formed keeps its slot, one that is not gives it back.
LEMMA ValidateOK ==
  ASSUME IInv, NEW c \in Clients, Validate(c) PROVE IInv'
  <1>1. CASE /\ Acceptable(req[c])
             /\ Goto(c, "validate", "call")
             /\ sent' = [sent EXCEPT ![c] = WireLimit(req[c])]
             /\ UNCHANGED <<sema, req, gone, resp>>
    <2>1. pc' \in [Clients -> Steps] /\ SlotsExact' /\ Stages'
      BY <1>1, MoveOK DEF Steps
    <2>2. req[c].limit \in Int
      BY GatewayAssumption DEF IInv, TypeOK, AllRequests
    <2>3. sent' \in [Clients -> Int]
      BY <1>1, <2>2, NarrowType DEF WireLimit, IInv, TypeOK
    <2>4. TypeOK'
      BY <1>1, <2>1, <2>3 DEF Validate, IInv, TypeOK, Steps
    <2>5. Asked'
      BY <1>1, <2>1 DEF Goto, Acceptable, WireLimit, IInv, TypeOK, Asked
    <2> QED BY <2>1, <2>4, <2>5 DEF IInv
  <1>2. CASE Answer(c, "validate", Plain(IF req[c].route = "home" THEN 200 ELSE 400, "none"))
    BY <1>2, AnswerOK, AnswersType DEF Validate, Steps
  <1> QED BY <1>1, <1>2 DEF Validate

\* Whatever the search service answers, or does not.
LEMMA SearchesOK ==
  ASSUME IInv, NEW c \in Clients, SearchCall(c) \/ SearchIndexCall(c) \/ PageCall(c)
  PROVE  IInv'
  <1>1. \A code \in {200, 400} : Search(c, code) \cup SearchIndex(c, code) \subseteq Answers
    BY AnswersType DEF Search, SearchIndex, Selected, Indexed
  <1>2. PICK r \in Answers : Answer(c, "call", r)
    BY <1>1 DEF SearchCall, SearchIndexCall, PageCall
  <1>3. UNCHANGED <<clockVars, lifeVars>>
    BY DEF SearchCall, SearchIndexCall, PageCall
  <1> QED BY <1>2, <1>3, AnswerOK DEF Steps

\* Whatever the update service answers, or does not.
LEMMA UpdatesOK ==
  ASSUME IInv, NEW c \in Clients, UpdateCall(c) \/ DropCall(c) \/ StatsCall(c) \/ StatusCall(c)
  PROVE  IInv'
  <1>1. UpdateOutcomes(c) \subseteq {"error", "ok", "exists"} /\ Outcomes(c) \subseteq {"error", "ok", "exists"}
    BY DEF UpdateOutcomes, Outcomes
  <1>2. \A end \in {"error", "ok", "exists"} :
          /\ Plain(Code(c, UpdateCode[end]), end) \in Answers
          /\ Plain(UpdateCode[end], end) \in Answers
          /\ Plain(200, end) \in Answers
    BY AnswersType DEF Code, UpdateCode
  <1>3. \E what \in Answers : Answer(c, "call", what)
    BY <1>1, <1>2 DEF UpdateCall, DropCall, StatsCall, StatusCall
  <1>4. UNCHANGED <<clockVars, lifeVars>>
    BY DEF UpdateCall, DropCall, StatsCall, StatusCall
  <1> QED BY <1>3, <1>4, AnswerOK DEF Steps

LEMMA AdminPageOK ==
  ASSUME IInv, NEW c \in Clients, AdminPage(c) PROVE IInv'
  <1>1. CASE /\ Goto(c, "call", "status")
             /\ \E end \in Outcomes(c) : resp' = [resp EXCEPT ![c].err = end]
             /\ UNCHANGED <<sema, req, sent, gone>>
    <2>1. PICK end \in Outcomes(c) : resp' = [resp EXCEPT ![c].err = end]
      BY <1>1
    <2>2. resp' \in [Clients -> Answers]
      BY <2>1 DEF Outcomes, IInv, TypeOK, Answers
    <2>3. pc' \in [Clients -> Steps] /\ SlotsExact' /\ Stages' /\ Asked'
      BY <1>1, <2>1, MoveOK DEF AdminPage, Steps, IInv, TypeOK
    <2>4. TypeOK'
      BY <1>1, <2>2, <2>3 DEF AdminPage, IInv, TypeOK, Steps
    <2> QED BY <2>3, <2>4 DEF IInv
  <1>2. CASE Answer(c, "status", Plain(200, resp[c].err))
    <2>1. Plain(200, resp[c].err) \in Answers
      BY GatewayAssumption DEF IInv, TypeOK, Answers, Plain
    <2> QED BY <1>2, <2>1, AnswerOK DEF AdminPage, Steps
  <1> QED BY <1>1, <1>2 DEF AdminPage

\* Tokens, time and clients that go away leave the requests where they are.
LEMMA SurroundingsOK ==
  ASSUME IInv, Tick \/ Interrupt \/ (\E c \in Clients : Login(c) \/ Logout(c) \/ Leave(c))
  PROVE  IInv'
  <1>1. UNCHANGED <<sema, pc, req, sent, resp>>
    BY DEF Tick, Interrupt, Login, Logout, Leave
  <1>2. SlotsExact' /\ Stages' /\ Asked'
    <2>1. Holders' = Holders BY <1>1 DEF Holders, Holding
    <2> QED BY <1>1, <2>1, SlotsKept DEF IInv, Stages, Asked
  <1>3. TypeOK'
    <2>1. CASE Tick
      <3>1. session' \in [Clients -> [left : -1..TokenTTL, age : 0..(TokenTTL + 1)]]
        BY <2>1, TokenTypes DEF Tick, IInv, TypeOK
      <3>2. sleep' \in [Clients -> Nat] /\ ahead' \in Int
        BY <2>1, GatewayAssumption DEF Tick, IInv, TypeOK
      <3> QED BY <2>1, <3>1, <3>2 DEF Tick, IInv, TypeOK
    <2>2. CASE Interrupt
      BY <2>2 DEF Interrupt, IInv, TypeOK
    <2>3. CASE \E c \in Clients : Login(c) \/ Logout(c)
      <3>1. session' \in [Clients -> [left : -1..TokenTTL, age : 0..(TokenTTL + 1)]]
        BY <2>3, TokenTypes DEF Login, Logout, IInv, TypeOK
      <3> QED BY <2>3, <3>1 DEF Login, Logout, IInv, TypeOK
    <2>4. CASE \E c \in Clients : Leave(c)
      BY <2>4 DEF Leave, IInv, TypeOK
    <2> QED BY <2>1, <2>2, <2>3, <2>4
  <1> QED BY <1>2, <1>3 DEF IInv

\* A new process has a new semaphore and no requests.
LEMMA RestartOK == ASSUME IInv, Restart PROVE IInv'
  <1>1. Holders' = {}
    BY DEF Restart, Holders, Holding
  <1>2. SlotsExact'
    BY <1>1, FS_EmptySet, GatewayAssumption DEF Restart, SlotsExact, Holders
  <1>3. Stages' /\ Asked'
    BY DEF Restart, Stages, Asked
  <1>4. TypeOK'
    <2>1. req' \in [Clients -> AllRequests]
      BY RequestsType DEF Restart
    <2>2. resp' \in [Clients -> Answers]
      BY AnswersType DEF Restart, IInv, TypeOK
    <2>3. restarts' \in 0..MaxRestarts
      BY GatewayAssumption DEF Restart, IInv, TypeOK
    <2>4. session' \in [Clients -> [left : -1..TokenTTL, age : 0..(TokenTTL + 1)]]
      BY DEF Restart, TokensKept, IInv, TypeOK
    <2>5. pc' \in [Clients -> Steps] /\ gone' \in [Clients -> BOOLEAN]
      BY DEF Restart, Steps
    <2>6. sent' \in [Clients -> Int] /\ sleep' \in [Clients -> Nat]
      BY DEF Restart
    <2>7. sema' \in Nat /\ ahead' \in Int
      BY DEF Restart
    <2>8. used' \in BOOLEAN /\ stopping' \in BOOLEAN
      BY Zenon DEF Restart
    <2> QED BY <2>1, <2>2, <2>3, <2>4, <2>5, <2>6, <2>7, <2>8 DEF Steps, TypeOK
  <1> QED BY <1>2, <1>3, <1>4 DEF IInv

-----------------------------------------------------------------------------
(***************************************************************************)
(* Theorems                                                                *)
(***************************************************************************)
\* Every step preserves the inductive invariant.
LEMMA StepOK == IInv /\ [Next]_vars => IInv'
  <1> SUFFICES ASSUME IInv, [Next]_vars PROVE IInv'
    OBVIOUS
  <1>1. CASE UNCHANGED vars
    BY <1>1 DEF vars, IInv, TypeOK, Stages, Asked, SlotsExact, Holding
  <1>2. ASSUME NEW c \in Clients, Handle(c) PROVE IInv'
    BY <1>2, EnterOK, TakeOK, WakeOK, AuthenticateOK, ValidateOK, SearchesOK,
       UpdatesOK, AdminPageOK DEF Handle
  <1>3. ASSUME NEW c \in Clients, Receive(c) PROVE IInv'
    BY <1>3, ReceiveOK
  <1>4. CASE Tick \/ Interrupt \/ (\E c \in Clients : Login(c) \/ Logout(c) \/ Leave(c))
    BY <1>4, SurroundingsOK
  <1>5. CASE Exit \/ Crash
    BY <1>5, RestartOK DEF Exit, Crash
  <1> QED BY <1>1, <1>2, <1>3, <1>4, <1>5 DEF Next

\* The inductive invariant of the gateway (middleware/concurrency.go).
THEOREM GatewayInvariant == Spec => []IInv
  BY InitOK, StepOK, PTL DEF Spec

\* The types of all variables.
THEOREM GatewayTyped == Spec => []TypeOK
  <1>1. IInv => TypeOK
    BY DEF IInv
  <1> QED BY <1>1, GatewayInvariant, PTL

\* The channel of the semaphore holds one element for each search that is
\* between the gate and its answer, and never more than search_concurrency:
\* a slot comes back on every way out of the handler.
THEOREM SemaphoreIsExact == Spec => []SlotsExact
  <1>1. IInv => SlotsExact
    BY DEF IInv
  <1> QED BY <1>1, GatewayInvariant, PTL

\* 503 is only ever answered while as many other searches as there are slots
\* really have one.
LEMMA RefusalStep ==
  ASSUME IInv, [Next]_vars, NEW c \in Clients, pc[c] = "gate", resp'[c].code = 503
  PROVE  Cardinality({d \in Clients \ {c} : Holding(d)}) = Slots
  <1>1. resp[c].code = 0 /\ resp \in [Clients -> Answers]
    BY DEF IInv, Stages, NoAnswer, TypeOK
  <1>2. resp'[c] # resp[c]
    BY <1>1
  <1>3. ASSUME NEW d \in Clients, Handle(d) \/ Receive(d), d # c PROVE resp'[c] = resp[c]
    BY <1>1, <1>3 DEF Handle, Receive, Enter, Take, Wake, Authenticate, Validate, SearchCall,
       SearchIndexCall, PageCall, UpdateCall, DropCall, StatsCall, StatusCall, AdminPage, Answer
  <1>4. ~(Exit \/ Crash)
    <2>1. Restart => resp'[c].code = 0
      BY DEF Restart, NoAnswer
    <2> QED BY <2>1 DEF Exit, Crash
  <1>5. ~(Tick \/ Interrupt \/ UNCHANGED vars)
    BY <1>2 DEF Tick, Interrupt, vars
  <1>6. ~(\E d \in Clients : Login(d) \/ Logout(d) \/ Leave(d))
    BY <1>2 DEF Login, Logout, Leave
  <1>7. Handle(c)
    <2>1. ~Receive(c) BY DEF Receive, Goto
    <2> QED BY <1>2, <1>3, <1>4, <1>5, <1>6, <2>1 DEF Next
  <1>8. Enter(c)
    BY <1>7 DEF Handle, Take, Wake, Authenticate, Validate, SearchCall, SearchIndexCall,
       PageCall, UpdateCall, DropCall, StatsCall, StatusCall, AdminPage, Answer, Goto
  <1>9. sema >= Slots
    BY <1>2, <1>8 DEF Enter
  <1>10. sema = Cardinality(Holders) /\ sema <= Slots /\ sema \in Nat
    BY DEF IInv, SlotsExact, Holders, TypeOK
  <1>11. Holders = {d \in Clients \ {c} : Holding(d)}
    BY DEF Holders, Holding
  <1> QED BY <1>9, <1>10, <1>11, GatewayAssumption

\* "too many concurrent requests" is always the truth.
THEOREM RefusalIsTrue == Spec => RefusedOnlyWhenFull
  <1>1. IInv /\ [Next]_vars => [\A c \in Clients :
          pc[c] = "gate" /\ resp'[c].code = 503
            => Cardinality({d \in Clients \ {c} : Holding(d)}) = Slots]_vars
    BY RefusalStep
  <1> QED BY <1>1, GatewayInvariant, PTL DEF Spec, RefusedOnlyWhenFull

\* An answer with comics, of any of the three ways to search.
LEMMA SearchStep ==
  ASSUME IInv, NEW c \in Clients, SearchCall(c) \/ SearchIndexCall(c) \/ PageCall(c),
         resp'[c].err = "ok"
  PROVE  req[c].limit > 0 /\ resp'[c].comics <= req[c].limit
  <1>1. PICK r \in Search(c, 400) \cup SearchIndex(c, 400) \cup Search(c, 200) \cup SearchIndex(c, 200) :
          Answer(c, "call", r)
    BY DEF SearchCall, SearchIndexCall, PageCall
  <1>2. resp'[c] = r
    BY <1>1 DEF Answer, IInv, TypeOK
  <1>3. r \in Selected(sent[c]) \cup Indexed(sent[c])
    BY <1>1, <1>2 DEF Search, SearchIndex, Plain
  <1>4. r.comics \in Nat /\ (r.comics <= sent[c] \/ r.comics = 0)
    BY <1>3, GatewayAssumption DEF Selected, Indexed, Found
  <1>5. req[c].limit \in Nat /\ req[c].limit > 0 /\ sent[c] = Narrow(req[c].limit)
    <2>1. pc[c] = "call" BY <1>1 DEF Answer, Goto
    <2>2. req[c].route \in Searching BY DEF SearchCall, SearchIndexCall, PageCall, Searching
    <2>3. req[c].limit \in Int BY GatewayAssumption DEF IInv, TypeOK, AllRequests
    <2> QED BY <2>1, <2>2, <2>3 DEF IInv, Asked
  <1>6. sent[c] <= req[c].limit /\ sent[c] \in Int
    BY <1>5, NarrowShrinks, NarrowType
  <1> QED BY <1>2, <1>4, <1>5, <1>6

\* The same, of every step of the gateway.
LEMMA AnswerStep ==
  ASSUME IInv, [Next]_vars, NEW c \in Clients,
         pc[c] = "call", req[c].route \in Searching, pc'[c] = "idle", resp'[c].err = "ok"
  PROVE  req[c].limit > 0 /\ resp'[c].comics <= req[c].limit
  <1>1. ASSUME NEW d \in Clients, Handle(d) \/ Receive(d), d # c PROVE pc'[c] = pc[c]
    BY <1>1 DEF Handle, Receive, Enter, Take, Wake, Authenticate, Validate, SearchCall,
       SearchIndexCall, PageCall, UpdateCall, DropCall, StatsCall, StatusCall, AdminPage,
       Answer, Goto, IInv, TypeOK
  <1>2. ~(Exit \/ Crash)
    BY DEF Exit, Crash, Restart, NoAnswer
  <1>3. ~(Tick \/ Interrupt \/ UNCHANGED vars \/ \E d \in Clients : Login(d) \/ Logout(d) \/ Leave(d))
    BY DEF Tick, Interrupt, vars, Login, Logout, Leave
  <1>4. Handle(c)
    <2>1. ~Receive(c) BY DEF Receive, Goto
    <2> QED BY <1>1, <1>2, <1>3, <2>1 DEF Next
  <1>5. ~(Enter(c) \/ Take(c) \/ Wake(c) \/ Authenticate(c) \/ Validate(c))
    BY DEF Enter, Take, Wake, Authenticate, Validate, Answer, Goto
  <1>6. ~(UpdateCall(c) \/ DropCall(c) \/ StatsCall(c) \/ StatusCall(c) \/ AdminPage(c))
    BY DEF UpdateCall, DropCall, StatsCall, StatusCall, AdminPage, Searching, Updating, Dropping
  <1> QED BY <1>4, <1>5, <1>6, SearchStep DEF Handle

\* No answer has more comics than were asked for, though the limit is narrowed
\* on the way to the search service: narrowing never makes a limit larger.
THEOREM AnswersAlwaysFit == Spec => AnswersFit
  <1>1. IInv /\ [Next]_vars => [\A c \in Clients :
          pc[c] = "call" /\ req[c].route \in Searching /\ pc'[c] = "idle" /\ resp'[c].err = "ok"
            => req[c].limit > 0 /\ resp'[c].comics <= req[c].limit]_vars
    BY AnswerStep
  <1> QED BY <1>1, GatewayInvariant, PTL DEF Spec, AnswersFit

-----------------------------------------------------------------------------
(***************************************************************************)
(* The limiter                                                             *)
(***************************************************************************)
\* A search that has a permit still to come has one the limiter gave out, and
\* the last of them is the latest.
Due ==
  \A c \in Clients : pc[c] = "sleep" => sleep[c] = 0 \/ (used /\ sleep[c] <= ahead)

\* What PermitsDistinct needs to be inductive: the next permit is later than
\* all that are waited for.
PermitIInv == Due /\ PermitsDistinct

\* A step that leaves the limiter alone and sends no one to sleep.
LEMMA PermitsKept ==
  ASSUME PermitIInv, UNCHANGED <<used, ahead, sleep>>,
         \A d \in Clients : pc'[d] = "sleep" => pc[d] = "sleep"
  PROVE  PermitIInv'
  BY DEF PermitIInv, Due, PermitsDistinct

\* A new permit is due after the ones that others sleep for.
LEMMA TakeIsLater ==
  ASSUME IInv, PermitIInv, NEW c \in Clients, Take(c) PROVE PermitIInv'
  <1>1. /\ pc \in [Clients -> Steps] /\ sleep \in [Clients -> Nat] /\ ahead \in Int
        /\ MaxSlack \in Nat
    BY GatewayAssumption DEF IInv, TypeOK, Steps
  <1> DEFINE pause == IF NextPermit > 0 THEN NextPermit ELSE 0
  <1>2. /\ pc' = [pc EXCEPT ![c] = "sleep"] /\ pc[c] = "take"
        /\ sleep' = [sleep EXCEPT ![c] = pause]
        /\ used' = TRUE /\ ahead' = NextPermit
    BY DEF Take, Goto
  <1>3. \A d \in Clients \ {c} : pc[d] = "sleep" /\ sleep[d] > 0 => sleep[d] < NextPermit
    BY <1>1 DEF PermitIInv, Due, NextPermit
  <1>4. NextPermit \in Int /\ pause \in Nat /\ (pause > 0 => pause = NextPermit)
    BY <1>1, NextPermitType
  <1> HIDE DEF pause
  <1>5. Due'
    <2> SUFFICES ASSUME NEW d \in Clients, pc'[d] = "sleep", sleep'[d] # 0
                 PROVE  used' /\ sleep'[d] <= ahead'
      BY DEF Due
    <2> QED BY <1>1, <1>2, <1>3, <1>4
  <1>6. PermitsDistinct'
    <2> SUFFICES ASSUME NEW d \in Clients, NEW e \in Clients, d # e,
                        pc'[d] = "sleep", pc'[e] = "sleep", sleep'[d] > 0
                 PROVE  sleep'[d] # sleep'[e]
      BY DEF PermitsDistinct
    <2>1. CASE d = c
      BY <1>1, <1>2, <1>3, <1>4, <2>1
    <2>2. CASE e = c
      BY <1>1, <1>2, <1>3, <1>4, <2>2
    <2>3. CASE d # c /\ e # c
      BY <1>1, <1>2, <2>3 DEF PermitIInv, PermitsDistinct
    <2> QED BY <2>1, <2>2, <2>3
  <1> QED BY <1>5, <1>6 DEF PermitIInv

\* Time brings all permits nearer alike.
LEMMA TickKeepsOrder == ASSUME IInv, PermitIInv, Tick PROVE PermitIInv'
  <1>1. sleep \in [Clients -> Nat] /\ ahead \in Int /\ MaxSlack \in Nat
    BY GatewayAssumption DEF IInv, TypeOK
  <1>2. /\ pc' = pc /\ used' = used
        /\ ahead' = IF used /\ ahead >= -(MaxSlack + 1) THEN ahead - 1 ELSE ahead
        /\ \A d \in Clients : sleep'[d] = IF sleep[d] > 0 THEN sleep[d] - 1 ELSE 0
    BY DEF Tick
  <1>3. Due'
    BY <1>1, <1>2 DEF PermitIInv, Due
  <1>4. PermitsDistinct'
    BY <1>1, <1>2 DEF PermitIInv, PermitsDistinct
  <1> QED BY <1>3, <1>4 DEF PermitIInv

\* Every step preserves the order of the permits.
LEMMA PermitStep == IInv /\ PermitIInv /\ [Next]_vars => PermitIInv'
  <1> SUFFICES ASSUME IInv, PermitIInv, [Next]_vars PROVE PermitIInv'
    OBVIOUS
  <1>1. pc \in [Clients -> Steps]
    BY DEF IInv, TypeOK, Steps
  <1>2. CASE UNCHANGED vars
    BY <1>2, PermitsKept DEF vars
  <1>3. ASSUME NEW c \in Clients, Handle(c), ~Take(c) PROVE PermitIInv'
    <2>1. UNCHANGED <<used, ahead, sleep>>
      BY <1>3 DEF Handle, Enter, Wake, Authenticate, Validate, SearchCall, SearchIndexCall,
         PageCall, UpdateCall, DropCall, StatsCall, StatusCall, AdminPage
    <2>2. \E to \in {"idle", "validate", "call", "status"} : pc' = [pc EXCEPT ![c] = to]
      BY <1>3 DEF Handle, Enter, Wake, Authenticate, Validate, SearchCall, SearchIndexCall,
         PageCall, UpdateCall, DropCall, StatsCall, StatusCall, AdminPage, Answer, Goto
    <2> QED BY <1>1, <2>1, <2>2, PermitsKept
  <1>4. ASSUME NEW c \in Clients, Receive(c) PROVE PermitIInv'
    <2>1. PICK r \in Requests : pc' = [pc EXCEPT ![c] = Entry(r.route)]
      BY <1>4 DEF Receive, Goto
    <2>2. r.route \in AllRoutes
      BY RequestsType DEF AllRequests
    <2>3. Entry(r.route) # "sleep"
      BY <2>2 DEF Entry, AllRoutes, Searching, Guarded, Updating, Dropping
    <2> QED BY <1>1, <1>4, <2>1, <2>3, PermitsKept DEF Receive
  <1>5. CASE Interrupt \/ (\E c \in Clients : Login(c) \/ Logout(c) \/ Leave(c))
    BY <1>5, PermitsKept DEF Interrupt, Login, Logout, Leave
  <1>6. CASE Exit \/ Crash
    BY <1>6 DEF Exit, Crash, Restart, PermitIInv, Due, PermitsDistinct
  <1> QED BY <1>2, <1>3, <1>4, <1>5, <1>6, TakeIsLater, TickKeepsOrder DEF Next

\* However many searches of the index meet in the limiter (middleware/rate.go),
\* no two of them sleep for the same permit.
THEOREM PermitsAreDistinct == Spec => []PermitsDistinct
  <1>1. Init => PermitIInv
    BY DEF Init, PermitIInv, Due, PermitsDistinct
  <1>2. PermitIInv => PermitsDistinct
    BY DEF PermitIInv
  <1> QED BY <1>1, <1>2, PermitStep, GatewayInvariant, PTL DEF Spec

-----------------------------------------------------------------------------
(***************************************************************************)
(* Tokens                                                                  *)
(***************************************************************************)
\* What is left of a token and its age are the time it was made for.
LifetimeKept == \A c \in Clients : session[c].left = TokenTTL - session[c].age

\* No step but a Tick makes a token older, and a Tick does it to both.
LEMMA LifetimeStep == IInv /\ LifetimeKept /\ [Next]_vars => LifetimeKept'
  <1> SUFFICES ASSUME IInv, LifetimeKept, [Next]_vars PROVE LifetimeKept'
    OBVIOUS
  <1>1. session \in [Clients -> [left : -1..TokenTTL, age : 0..(TokenTTL + 1)]]
    BY DEF IInv, TypeOK
  <1>2. session' = session => LifetimeKept'
    BY DEF LifetimeKept
  <1>3. ASSUME NEW c \in Clients, Handle(c) \/ Receive(c) \/ Leave(c) PROVE session' = session
    BY <1>3 DEF Handle, Receive, Leave, Enter, Take, Wake, Authenticate, Validate, SearchCall,
       SearchIndexCall, PageCall, UpdateCall, DropCall, StatsCall, StatusCall, AdminPage
  <1>4. CASE Interrupt \/ Exit \/ Crash \/ UNCHANGED vars
    BY <1>2, <1>4 DEF Interrupt, Exit, Crash, Restart, TokensKept, vars
  <1>5. ASSUME NEW c \in Clients, Login(c) \/ Logout(c) PROVE LifetimeKept'
    <2>1. NewToken.left = TokenTTL - NewToken.age /\ NoToken.left = TokenTTL - NoToken.age
      BY GatewayAssumption DEF NewToken, NoToken
    <2>2. session' = [session EXCEPT ![c] = NewToken] \/ session' = [session EXCEPT ![c] = NoToken]
      BY <1>5 DEF Login, Logout
    <2> QED BY <1>1, <2>1, <2>2 DEF LifetimeKept
  <1>6. CASE Tick
    <2> SUFFICES ASSUME NEW c \in Clients PROVE session'[c].left = TokenTTL - session'[c].age
      BY DEF LifetimeKept
    <2>1. session'[c] = Older(session[c])
      BY <1>6 DEF Tick
    <2>2. /\ session[c].left \in -1..TokenTTL /\ session[c].age \in 0..(TokenTTL + 1)
          /\ session[c].left = TokenTTL - session[c].age
      BY <1>1 DEF LifetimeKept
    <2> QED BY <2>1, <2>2, GatewayAssumption DEF Older
  <1> QED BY <1>2, <1>3, <1>4, <1>5, <1>6 DEF Next

\* Who leaves the check of the token has been checked, or was cut off.
LEMMA TokenStep ==
  ASSUME IInv, LifetimeKept, [Next]_vars, NEW c \in Clients,
         pc[c] = "auth", pc'[c] # "auth", req[c].token, restarts' = restarts
  PROVE  pc'[c] = "call" <=> session[c].age <= TokenTTL
  <1>1. ASSUME NEW d \in Clients, Handle(d) \/ Receive(d), d # c PROVE pc'[c] = pc[c]
    BY <1>1 DEF Handle, Receive, Enter, Take, Wake, Authenticate, Validate, SearchCall,
       SearchIndexCall, PageCall, UpdateCall, DropCall, StatsCall, StatusCall, AdminPage,
       Answer, Goto, IInv, TypeOK
  <1>2. ~(Exit \/ Crash)
    BY DEF Exit, Crash, Restart, IInv, TypeOK
  <1>3. ~(Tick \/ Interrupt \/ UNCHANGED vars \/ \E d \in Clients : Login(d) \/ Logout(d) \/ Leave(d))
    BY DEF Tick, Interrupt, vars, Login, Logout, Leave
  <1>4. Handle(c)
    <2>1. ~Receive(c) BY DEF Receive, Goto
    <2> QED BY <1>1, <1>2, <1>3, <2>1 DEF Next
  <1>5. Authenticate(c)
    BY <1>4 DEF Handle, Enter, Take, Wake, Validate, SearchCall, SearchIndexCall,
       PageCall, UpdateCall, DropCall, StatsCall, StatusCall, AdminPage, Answer, Goto
  <1>6. pc'[c] = "call" <=> Verify(session[c])
    BY <1>5 DEF Authenticate, Answer, Goto, IInv, TypeOK
  <1>7. /\ session[c].left \in Int /\ session[c].age \in Int
        /\ session[c].left = TokenTTL - session[c].age
    BY GatewayAssumption DEF LifetimeKept, IInv, TypeOK
  <1> QED BY <1>6, <1>7, GatewayAssumption DEF Verify

\* For any token_ttl and any number of restarts in between: a token opens the
\* guarded routes for as long as it was made for, and no longer.
THEOREM TokensExpireOnTime == Spec => TokensLastTheirTime
  <1>1. Init => LifetimeKept
    BY GatewayAssumption DEF Init, LifetimeKept, NoToken
  <1>2. IInv /\ LifetimeKept /\ [Next]_vars => [\A c \in Clients :
          pc[c] = "auth" /\ pc'[c] # "auth" /\ req[c].token /\ restarts' = restarts
            => (pc'[c] = "call" <=> session[c].age <= TokenTTL)]_vars
    BY TokenStep
  <1> QED BY <1>1, <1>2, LifetimeStep, GatewayInvariant, PTL DEF Spec, TokensLastTheirTime
=============================================================================
