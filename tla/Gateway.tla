------------------------------- MODULE Gateway -------------------------------
(***************************************************************************)
(* The API gateway: the handlers of api/adapters/rest, their middleware,   *)
(* the tokens of adapters/aaa and the gRPC clients adapters/search and     *)
(* adapters/update.  Each request is a goroutine.                          *)
(*                                                                         *)
(* A limit that is not in the URL is minLim, one that is no number is as   *)
(* good as 0.  Time is counted in ticks, and kept only as what is left of  *)
(* it: until a permit is due, until a token expires.  A token that was     *)
(* forged or given up is like one that has expired.                        *)
(***************************************************************************)
EXTENDS Integers, FiniteSets

CONSTANTS
  Clients,     \* each has one request at a time
  Routes,      \* the routes they use
  Slots,       \* search_concurrency
  MaxSlack,    \* how many unused permits the rate limiter keeps
  TokenTTL,    \* token_ttl
  Limits,      \* the limits clients ask for
  minLim,      \* what they get if they do not
  Half,        \* 2^31: the field limit of search.proto holds -Half..(Half - 1)
  MaxFound,    \* bound: the most comics a search matches
  MaxRestarts  \* bound: how often the process ends and is restarted

Searching == {"search", "isearch", "home"}
Updating  == {"update", "admin_update"}
Dropping  == {"drop", "admin_drop"}
Guarded   == Updating \cup Dropping \cup {"admin"}
Forms     == {"admin_update", "admin_drop"}
AllRoutes == Searching \cup Guarded \cup {"stats", "status"}

ASSUME GatewayAssumption ==
  /\ IsFiniteSet(Clients)
  /\ Routes \subseteq AllRoutes
  /\ Slots \in Nat \ {0}
  /\ MaxSlack \in Nat
  /\ TokenTTL \in Nat
  /\ Limits \subseteq Int
  /\ minLim \in Limits
  /\ Half \in Nat \ {0}
  /\ MaxFound \in Nat
  /\ MaxRestarts \in Nat

VARIABLES
  sema,      \* elements in the channel sema of middleware.Concurrency
  used,      \* the rate limiter has given a permit
  ahead,     \* how far its last permit lies in the future
  stopping,  \* the process has been interrupted
  restarts,  \* how often the process has ended
  pc,        \* where each request stands
  req,       \* the request of each client
  sent,      \* the limit that was sent to the search service
  gone,      \* the client has closed its connection
  sleep,     \* how long limiter.Take will sleep
  session,   \* the token each client holds
  resp       \* the last answer, and the error of the call it rests on

clockVars   == <<used, ahead, sleep, session>>
lifeVars    == <<stopping, restarts>>
requestVars == <<pc, req, sent, gone, resp>>
vars == <<sema, clockVars, lifeVars, requestVars>>

AllRequests == [route : AllRoutes, phrase : BOOLEAN, limit : Limits, token : BOOLEAN]

\* Only searches have a phrase and a limit, only guarded routes a token.  The
\* limit makes no difference to the answer of a search without a phrase.
Requests == {r \in AllRequests :
  /\ r.route \in Routes
  /\ r.phrase => r.route \in Searching
  /\ ~r.phrase => r.limit = minLim
  /\ r.token => r.route \in Guarded}

NoRequest == [route |-> "status", phrase |-> FALSE, limit |-> minLim, token |-> FALSE]
NoAnswer  == [code |-> 0, err |-> "none", comics |-> 0]
NoToken   == [left |-> -1, age |-> TokenTTL + 1]

Canceled(c) == stopping \/ gone[c]

\* A request that has a slot of the semaphore.
Holding(c) == req[c].route = "search" /\ pc[c] \in {"validate", "call"}

Answers == [code : {0, 200, 202, 303, 400, 401, 500, 503},
            err : {"none", "ok", "exists", "error"},
            comics : 0..MaxFound]

TypeOK ==
  /\ sema \in Nat
  /\ used \in BOOLEAN
  /\ ahead \in Int
  /\ stopping \in BOOLEAN
  /\ restarts \in 0..MaxRestarts
  /\ pc \in [Clients -> {"idle", "gate", "take", "sleep", "auth", "validate", "call", "status"}]
  /\ req \in [Clients -> AllRequests]
  /\ sent \in [Clients -> Int]
  /\ gone \in [Clients -> BOOLEAN]
  /\ sleep \in [Clients -> Nat]
  /\ session \in [Clients -> [left : -1..TokenTTL, age : 0..(TokenTTL + 1)]]
  /\ resp \in [Clients -> Answers]

Init ==
  /\ sema = 0
  /\ used = FALSE
  /\ ahead = 0
  /\ stopping = FALSE
  /\ restarts = 0
  /\ pc = [c \in Clients |-> "idle"]
  /\ req = [c \in Clients |-> NoRequest]
  /\ sent = [c \in Clients |-> 0]
  /\ gone = [c \in Clients |-> FALSE]
  /\ sleep = [c \in Clients |-> 0]
  /\ session = [c \in Clients |-> NoToken]
  /\ resp = [c \in Clients |-> NoAnswer]

-----------------------------------------------------------------------------
(***************************************************************************)
(* Requests and answers                                                    *)
(***************************************************************************)
Goto(c, from, to) == pc[c] = from /\ pc' = [pc EXCEPT ![c] = to]

Entry(route) ==
  CASE route = "search"  -> "gate"
    [] route = "isearch" -> "take"
    [] route = "home"    -> "validate"
    [] route \in Guarded -> "auth"
    [] OTHER             -> "call"

Receive(c) ==
  /\ \E r \in Requests : req' = [req EXCEPT ![c] = r] /\ Goto(c, "idle", Entry(r.route))
  /\ resp' = [resp EXCEPT ![c] = NoAnswer]
  /\ UNCHANGED <<sema, clockVars, lifeVars, sent, gone>>

\* Mutant: the slot is given back by the handler, once it has an answer.
AnswerKeepsSlot(c, from, what) ==
  /\ Goto(c, from, "idle")
  /\ req' = [req EXCEPT ![c] = NoRequest]
  /\ resp' = [resp EXCEPT ![c] = what]
  /\ sema' = IF Holding(c) /\ what.code = 200 THEN sema - 1 ELSE sema
  /\ sent' = [sent EXCEPT ![c] = 0]
  /\ gone' = [gone EXCEPT ![c] = FALSE]

\* Mutant: the function that frees the slot is deferred before the select.
AnswerFreesTwice(c, from, what) ==
  /\ Goto(c, from, "idle")
  /\ req' = [req EXCEPT ![c] = NoRequest]
  /\ resp' = [resp EXCEPT ![c] = what]
  /\ sema' = IF req[c].route = "search" THEN sema - 1 ELSE sema
  /\ sent' = [sent EXCEPT ![c] = 0]
  /\ gone' = [gone EXCEPT ![c] = FALSE]

\* The handler is done; the deferred function of Concurrency frees its slot.
Answer(c, from, what) ==
  /\ Goto(c, from, "idle")
  /\ req' = [req EXCEPT ![c] = NoRequest]
  /\ resp' = [resp EXCEPT ![c] = what]
  /\ sema' = IF Holding(c) THEN sema - 1 ELSE sema
  /\ sent' = [sent EXCEPT ![c] = 0]
  /\ gone' = [gone EXCEPT ![c] = FALSE]

Plain(code, err) == [code |-> code, err |-> err, comics |-> 0]

-----------------------------------------------------------------------------
(***************************************************************************)
(* Middleware                                                              *)
(***************************************************************************)
\* Concurrency: take a slot if there is one, or refuse at once.
Enter(c) ==
  /\ \/ /\ sema < Slots
        /\ Goto(c, "gate", "validate")
        /\ sema' = sema + 1
        /\ UNCHANGED <<req, sent, gone, resp>>
     \/ sema >= Slots /\ Answer(c, "gate", Plain(503, "none"))
  /\ UNCHANGED <<clockVars, lifeVars>>

\* Mutant: the next permit is counted from now, not from the last one.
NextPermitFromNow == IF used THEN 1 ELSE 0

\* The limiter of go.uber.org/ratelimit: the first permit is due now, the
\* others one tick after the last, and at most MaxSlack of them in the past.
NextPermit ==
  IF ~used THEN 0 ELSE IF ahead < -(MaxSlack + 1) THEN -MaxSlack ELSE ahead + 1

\* Rate: one limiter for all, which does not care for the context.
Take(c) ==
  /\ Goto(c, "take", "sleep")
  /\ used' = TRUE
  /\ ahead' = NextPermit
  /\ sleep' = [sleep EXCEPT ![c] = IF NextPermit > 0 THEN NextPermit ELSE 0]
  /\ UNCHANGED <<sema, session, lifeVars, req, sent, gone, resp>>

Wake(c) ==
  /\ sleep[c] = 0
  /\ Goto(c, "sleep", "validate")
  /\ UNCHANGED <<sema, clockVars, lifeVars, req, sent, gone, resp>>

\* Mutant: the last second of a token does not count.
VerifyTooSoon(token) == token.left > 0

\* AAA.Verify: the token is good up to and including its last second.
Verify(token) == token.left >= 0

\* Auth refuses; the admin page shows the login form instead.
Authenticate(c) ==
  /\ \/ /\ req[c].token /\ Verify(session[c])
        /\ Goto(c, "auth", "call")
        /\ UNCHANGED <<sema, req, sent, gone, resp>>
     \/ /\ ~(req[c].token /\ Verify(session[c]))
        /\ Answer(c, "auth", Plain(IF req[c].route = "admin" THEN 200 ELSE 401, "none"))
  /\ UNCHANGED <<clockVars, lifeVars>>

-----------------------------------------------------------------------------
(***************************************************************************)
(* Handlers                                                                *)
(***************************************************************************)
\* int32(limit)
Narrow(limit) == ((limit + Half) % (2 * Half)) - Half

\* Mutant: any number will do.
AcceptableAnyLimit(r) == r.phrase

Acceptable(r) == r.phrase /\ r.limit > 0

\* Mutant: the limit that was parsed is a variable of an inner block (`:=`),
\* and the one that is sent is still the default.
WireLimitDefault(r) == Narrow(minLim)

\* The field limit of the message that goes to the search service.
WireLimit(r) == Narrow(r.limit)

\* The page shows the form again, the API answers 400.
Validate(c) ==
  /\ \/ /\ Acceptable(req[c])
        /\ Goto(c, "validate", "call")
        /\ sent' = [sent EXCEPT ![c] = WireLimit(req[c])]
        /\ UNCHANGED <<sema, req, gone, resp>>
     \/ /\ ~Acceptable(req[c])
        /\ Answer(c, "validate", Plain(IF req[c].route = "home" THEN 200 ELSE 400, "none"))
  /\ UNCHANGED <<clockVars, lifeVars>>

(***************************************************************************)
(* The answers of the search service: Search selects at most so many       *)
(* comics, and fails if that is less than none; SearchIndex finds none     *)
(* then.  How many it counts in all says nothing of the gateway.           *)
(***************************************************************************)
Found == [code : {200}, err : {"ok"}, comics : 0..MaxFound]
Selected(limit) == {r \in Found : r.comics <= limit}
Indexed(limit)  == {r \in Found : r.comics <= limit \/ r.comics = 0}

\* What the handlers make of them, if an error has this code.
Search(c, code)      == {Plain(code, "error")} \cup {r \in Selected(sent[c]) : ~Canceled(c)}
SearchIndex(c, code) == {Plain(code, "error")} \cup {r \in Indexed(sent[c]) : ~Canceled(c)}

SearchCall(c) ==
  /\ req[c].route = "search"
  /\ \E r \in Search(c, 400) : Answer(c, "call", r)
  /\ UNCHANGED <<clockVars, lifeVars>>

SearchIndexCall(c) ==
  /\ req[c].route = "isearch"
  /\ \E r \in SearchIndex(c, 400) : Answer(c, "call", r)
  /\ UNCHANGED <<clockVars, lifeVars>>

\* The page asks for either, and shows an error as a page.
PageCall(c) ==
  /\ req[c].route = "home"
  /\ \E r \in Search(c, 200) \cup SearchIndex(c, 200) : Answer(c, "call", r)
  /\ UNCHANGED <<clockVars, lifeVars>>

\* How a call of the update service may end; the gateway sets no deadline.
Outcomes(c) == {"error"} \cup {end \in {"ok"} : ~Canceled(c)}

\* Client.Update knows one error by its code.
UpdateOutcomes(c) == Outcomes(c) \cup {end \in {"exists"} : ~Canceled(c)}

\* The forms of the admin page redirect, whatever came of it.
Code(c, code) == IF req[c].route \in Forms THEN 303 ELSE code

UpdateCode == [error |-> 500, ok |-> 200, exists |-> 202]

UpdateCall(c) ==
  /\ req[c].route \in Updating
  /\ \E end \in UpdateOutcomes(c) : Answer(c, "call", Plain(Code(c, UpdateCode[end]), end))
  /\ UNCHANGED <<clockVars, lifeVars>>

DropCall(c) ==
  /\ req[c].route \in Dropping
  /\ \E end \in Outcomes(c) : Answer(c, "call", Plain(Code(c, UpdateCode[end]), end))
  /\ UNCHANGED <<clockVars, lifeVars>>

\* Client.Stats makes of an error figures that are all zero, and no error.
StatsCall(c) ==
  /\ req[c].route = "stats"
  /\ \E end \in Outcomes(c) : Answer(c, "call", Plain(200, end))
  /\ UNCHANGED <<clockVars, lifeVars>>

StatusCall(c) ==
  /\ req[c].route = "status"
  /\ \E end \in Outcomes(c) : Answer(c, "call", Plain(UpdateCode[end], end))
  /\ UNCHANGED <<clockVars, lifeVars>>

\* The admin page asks for the figures, then for the status, and does without
\* what it cannot get.
AdminPage(c) ==
  /\ req[c].route = "admin"
  /\ \/ /\ Goto(c, "call", "status")
        /\ \E end \in Outcomes(c) : resp' = [resp EXCEPT ![c].err = end]
        /\ UNCHANGED <<sema, req, sent, gone>>
     \/ Answer(c, "status", Plain(200, resp[c].err))
  /\ UNCHANGED <<clockVars, lifeVars>>

Handle(c) ==
  \/ Enter(c) \/ Take(c) \/ Wake(c) \/ Authenticate(c) \/ Validate(c)
  \/ SearchCall(c) \/ SearchIndexCall(c) \/ PageCall(c)
  \/ UpdateCall(c) \/ DropCall(c) \/ StatsCall(c) \/ StatusCall(c) \/ AdminPage(c)

-----------------------------------------------------------------------------
(***************************************************************************)
(* Tokens, time, clients and the process                                   *)
(***************************************************************************)
NewToken == [left |-> TokenTTL, age |-> 0]

\* POST /api/login or the form, with a name and a password that are right.
Login(c) ==
  /\ Routes \cap Guarded # {}
  /\ pc[c] = "idle"
  /\ session' = [session EXCEPT ![c] = NewToken]
  /\ UNCHANGED <<sema, used, ahead, sleep, lifeVars, requestVars>>

\* The cookie is deleted; the token itself stays valid.
Logout(c) ==
  /\ pc[c] = "idle"
  /\ session[c] # NoToken
  /\ session' = [session EXCEPT ![c] = NoToken]
  /\ UNCHANGED <<sema, used, ahead, sleep, lifeVars, requestVars>>

Older(token) ==
  [left |-> IF token.left >= 0 THEN token.left - 1 ELSE token.left,
   age  |-> IF token.age <= TokenTTL THEN token.age + 1 ELSE token.age]

\* Beyond the slack it does not matter how long ago the last permit was.
Tick ==
  /\ ahead' = IF used /\ ahead >= -(MaxSlack + 1) THEN ahead - 1 ELSE ahead
  /\ sleep' = [c \in Clients |-> IF sleep[c] > 0 THEN sleep[c] - 1 ELSE 0]
  /\ session' = [c \in Clients |-> Older(session[c])]
  /\ UNCHANGED <<sema, used, lifeVars, requestVars>>

Leave(c) ==
  /\ pc[c] # "idle"
  /\ ~gone[c]
  /\ gone' = [gone EXCEPT ![c] = TRUE]
  /\ UNCHANGED <<sema, clockVars, lifeVars, pc, req, sent, resp>>

\* SIGINT is the end of the context of every request.
Interrupt ==
  /\ restarts < MaxRestarts
  /\ ~stopping
  /\ stopping' = TRUE
  /\ UNCHANGED <<sema, clockVars, restarts, requestVars>>

\* Mutant: the key that signs tokens is made when the process starts.
TokensForgotten == [c \in Clients |-> [session[c] EXCEPT !.left = -1]]

\* The key that signs tokens is a constant.
TokensKept == session

Restart ==
  /\ restarts < MaxRestarts
  /\ restarts' = restarts + 1
  /\ stopping' = FALSE
  /\ sema' = 0
  /\ used' = FALSE
  /\ ahead' = 0
  /\ sleep' = [c \in Clients |-> 0]
  /\ session' = TokensKept
  /\ pc' = [c \in Clients |-> "idle"]
  /\ req' = [c \in Clients |-> NoRequest]
  /\ sent' = [c \in Clients |-> 0]
  /\ gone' = [c \in Clients |-> FALSE]
  /\ resp' = [c \in Clients |-> IF pc[c] = "idle" THEN resp[c] ELSE NoAnswer]

\* main returns when ListenAndServe does, which is when Shutdown begins:
\* requests in progress are cut off.
Exit == stopping /\ Restart

Crash == Restart

Next ==
  \/ \E c \in Clients : Receive(c) \/ Handle(c) \/ Login(c) \/ Logout(c) \/ Leave(c)
  \/ Tick
  \/ Interrupt \/ Exit \/ Crash

Spec == Init /\ [][Next]_vars

(***************************************************************************)
(* Goroutines run, time passes, and the services answer every call: the    *)
(* gateway sets no deadline, so it is only as live as they are.            *)
(***************************************************************************)
Fairness == WF_vars(Tick) /\ \A c \in Clients : WF_vars(Handle(c))

FairSpec == Spec /\ Fairness

-----------------------------------------------------------------------------
(***************************************************************************)
(* Properties                                                              *)
(***************************************************************************)
\* The channel sema holds one element for each search between entry and
\* answer, whether it is malformed, fails, loses its client or is shut down.
SlotsExact ==
  /\ sema = Cardinality({c \in Clients : Holding(c)})
  /\ sema <= Slots

\* "too many concurrent requests" is the truth: as many searches are going on.
RefusedOnlyWhenFull ==
  [][\A c \in Clients :
       pc[c] = "gate" /\ resp'[c].code = 503
         => Cardinality({d \in Clients \ {c} : Holding(d)}) = Slots]_vars

\* A semaphore that is full does not stay so.
GateReopens == sema = Slots ~> sema < Slots

\* No two searches of the index wait for the same permit: however they
\* interleave, at most one of those that wait goes on with each tick.
PermitsDistinct ==
  \A c, d \in Clients :
    c # d /\ pc[c] = "sleep" /\ pc[d] = "sleep" /\ sleep[c] > 0 => sleep[c] # sleep[d]

\* A token opens the guarded routes for as long as it was made for, and no
\* longer, also when the gateway has been restarted since.
TokensLastTheirTime ==
  [][\A c \in Clients :
       pc[c] = "auth" /\ pc'[c] # "auth" /\ req[c].token /\ restarts' = restarts
         => (pc'[c] = "call" <=> session[c].age <= TokenTTL)]_vars

\* What is answered with comics was a well-formed search, and has no more of
\* them than were asked for, whatever became of the limit on the way.
AnswersFit ==
  [][\A c \in Clients :
       pc[c] = "call" /\ req[c].route \in Searching /\ pc'[c] = "idle" /\ resp'[c].err = "ok"
         => req[c].limit > 0 /\ resp'[c].comics <= req[c].limit]_vars

\* api_test.go says "index search uses requested limit": the search service
\* is asked for as many comics as the client asked for.
RequestedLimitUsed ==
  \A c \in Clients : pc[c] = "call" /\ req[c].route \in Searching => sent[c] = req[c].limit

\* The script of admin.html ignores an answer of /api/db/stats that is not ok:
\* an answer that is ok has the figures of the update service.
FiguresAreReported ==
  [][\A c \in Clients :
       pc[c] = "call" /\ req[c].route = "stats" /\ resp'[c].code = 200
         => resp'[c].err = "ok"]_vars
=============================================================================
