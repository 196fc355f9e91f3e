------------------------------ MODULE Deployment ------------------------------
(***************************************************************************)
(* The stack of compose.yaml: how the four services start (the run and     *)
(* main functions of their main.go), what they need from PostgreSQL and    *)
(* NATS, how they stop and are restarted, and what becomes of the requests *)
(* that are in progress, /api/ping among them.                             *)
(*                                                                         *)
(* A process stands before the next call of its run that can fail.  The    *)
(* gRPC clients connect when they are first used, so making one cannot     *)
(* fail.  Docker restarts whatever ends, except NATS, for which            *)
(* compose.yaml has no restart policy; a service that somebody stops by    *)
(* hand, which Docker leaves alone, is not in the model.                   *)
(***************************************************************************)
EXTENDS Naturals

CONSTANTS
  Users,     \* clients of the gateway, one request at a time each
  Targets,   \* the services their requests go to
  pingers,   \* the services /api/ping asks
  MaxFaults  \* bound: how often something is killed, interrupted or goes down

Services == {"words", "update", "search", "api"}
Brokered == {"update", "search"}
Servers  == {"postgres", "nats"}

ASSUME DeploymentAssumption ==
  /\ Targets \subseteq Brokered
  /\ pingers \subseteq Services \ {"api"}
  /\ MaxFaults \in Nat

VARIABLES
  phase,    \* where each process stands, "off" when there is none
  servers,  \* which of PostgreSQL and NATS run
  schema,   \* what golang-migrate has made of the database
  conn,     \* the NATS connection of each process that has one
  ttl,      \* INDEX_TTL is a duration
  stage,    \* where the request of each user stands
  target,   \* the service it goes to
  replies,  \* the map replies of the ping handler
  seen,     \* who has served at some moment since the ping came in
  faults    \* faults so far

requestVars == <<stage, target, replies, seen>>
vars == <<phase, servers, schema, conn, ttl, requestVars, faults>>

Phases == {"off", "db", "index", "migrate", "migrating", "broker", "serving", "draining"}
Stages == {"idle", "asking", "handled", "orphaned", "answered", "pinging"}

TypeOK ==
  /\ phase \in [Services -> Phases]
  /\ servers \in SUBSET Servers
  /\ schema \in {"absent", "dirty", "ready"}
  /\ conn \in [Brokered -> {"none", "open", "lost", "closed"}]
  /\ ttl \in BOOLEAN
  /\ stage \in [Users -> Stages]
  /\ target \in [Users -> Brokered]
  /\ replies \in [Users -> [pingers -> {"none", "ok", "unavailable"}]]
  /\ seen \in [Users -> SUBSET pingers]
  /\ faults \in 0..MaxFaults
  /\ \A s \in Brokered : conn[s] # "none" <=> phase[s] \in {"serving", "draining"}

NoReplies == [n \in pingers |-> "none"]

\* docker compose up: PostgreSQL is healthy, the volume may be new.
Init ==
  /\ phase = [s \in Services |-> "off"]
  /\ servers = Servers
  /\ schema \in {"absent", "ready"}
  /\ conn = [s \in Brokered |-> "none"]
  /\ ttl \in BOOLEAN
  /\ stage = [u \in Users |-> "idle"]
  /\ target = [u \in Users |-> "update"]
  /\ replies = [u \in Users |-> NoReplies]
  /\ seen = [u \in Users |-> {}]
  /\ faults = 0

Step(s, from, to) == phase[s] = from /\ phase' = [phase EXCEPT ![s] = to]

-----------------------------------------------------------------------------
(***************************************************************************)
(* How a process starts                                                    *)
(***************************************************************************)
FirstPhase(s) == IF s \in Brokered THEN "db" ELSE "serving"

\* restart: unless-stopped
Start(s) ==
  /\ Step(s, "off", FirstPhase(s))
  /\ UNCHANGED <<servers, schema, conn, ttl, faults>>

\* sqlx.Connect, which pings the server.
Connected(s, from, to) ==
  /\ Step(s, from, IF "postgres" \in servers THEN to ELSE "off")
  /\ UNCHANGED <<servers, schema, conn, ttl, faults>>

NewDB == Connected("update", "db", "migrate")

NewSearchDB == Connected("search", "db", "index")

NewIndex == Connected("search", "index", "broker")

\* Mutant: ErrNoChange is an error like any other.
MigrateNoChangeFails ==
  /\ \/ schema = "absent" /\ Step("update", "migrate", "migrating") /\ schema' = "dirty"
     \/ schema # "absent" /\ Step("update", "migrate", "off") /\ UNCHANGED schema
  /\ "postgres" \in servers
  /\ UNCHANGED <<servers, conn, ttl, faults>>

\* Mutant: whatever error Up returns is taken for ErrNoChange.
MigrateAnyway ==
  /\ \/ schema = "absent" /\ Step("update", "migrate", "migrating") /\ schema' = "dirty"
     \/ schema # "absent" /\ Step("update", "migrate", "broker") /\ UNCHANGED schema
  /\ "postgres" \in servers
  /\ UNCHANGED <<servers, conn, ttl, faults>>

\* Up marks the version dirty before it runs a migration, has nothing to do
\* for one that is done, and refuses a database that it finds dirty.
Migrate ==
  /\ \/ "postgres" \notin servers /\ Step("update", "migrate", "off") /\ UNCHANGED schema
     \/ /\ "postgres" \in servers
        /\ \/ schema = "absent" /\ Step("update", "migrate", "migrating") /\ schema' = "dirty"
           \/ schema = "ready"  /\ Step("update", "migrate", "broker") /\ UNCHANGED schema
           \/ schema = "dirty"  /\ Step("update", "migrate", "off") /\ UNCHANGED schema
  /\ UNCHANGED <<servers, conn, ttl, faults>>

\* The table is there and the version is clean.
Migrated ==
  /\ \/ "postgres" \in servers /\ Step("update", "migrating", "broker") /\ schema' = "ready"
     \/ "postgres" \notin servers /\ Step("update", "migrating", "off") /\ UNCHANGED schema
  /\ UNCHANGED <<servers, conn, ttl, faults>>

\* Mutant: run goes on without a broker.
BrokerOptional(s) ==
  /\ Step(s, "broker", "serving")
  /\ conn' = [conn EXCEPT ![s] = IF "nats" \in servers THEN "open" ELSE "none"]
  /\ UNCHANGED <<servers, schema, ttl, faults>>

\* nats.Connect does not retry; with a connection run comes to Serve.
ConnectBroker(s) ==
  /\ \/ /\ "nats" \in servers
        /\ Step(s, "broker", "serving")
        /\ conn' = [conn EXCEPT ![s] = "open"]
     \/ "nats" \notin servers /\ Step(s, "broker", "off") /\ UNCHANGED conn
  /\ UNCHANGED <<servers, schema, ttl, faults>>

NewPublisher == ConnectBroker("update")

NewSubscriber == ConnectBroker("search")

Boot(s) ==
  \/ Start(s)
  \/ s = "update" /\ (NewDB \/ Migrate \/ Migrated \/ NewPublisher)
  \/ s = "search" /\ (NewSearchDB \/ NewIndex \/ NewSubscriber)

-----------------------------------------------------------------------------
(***************************************************************************)
(* How a process ends.  The gateway loses the answer of a handler that     *)
(* dies; a handler whose gateway dies goes on until it looks at its        *)
(* context.                                                                *)
(***************************************************************************)
\* What becomes of a request when process s ends.
Cut(u, s) ==
  CASE stage[u] = "handled"  /\ s = "api"     -> "orphaned"
    [] stage[u] = "handled"  /\ s = target[u] -> "answered"
    [] stage[u] = "orphaned" /\ s = target[u] -> "idle"
    [] stage[u] \in {"asking", "answered", "pinging"} /\ s = "api" -> "idle"
    [] OTHER -> stage[u]

\* The deferred Close of the connection, or the end of the process.
Close(s) == conn' = [t \in Brokered |-> IF t = s THEN "none" ELSE conn[t]]

End(s) ==
  /\ phase' = [phase EXCEPT ![s] = "off"]
  /\ Close(s)
  /\ stage' = [u \in Users |-> Cut(u, s)]
  /\ replies' = [u \in Users |-> IF s = "api" THEN NoReplies ELSE replies[u]]
  /\ UNCHANGED <<servers, schema, ttl, target>>

Fault == faults < MaxFaults /\ faults' = faults + 1

\* A crash: the process dies where it stands, and Docker starts it again.
Kill(s) == phase[s] # "off" /\ Fault /\ End(s)

\* Mutant: Start returns when there is no initiator.
NilInitiatorReturns == FALSE /\ End("search") /\ UNCHANGED faults

\* initiator.New returns nil for a TTL it cannot parse, and the goroutine that
\* runs Start on it panics: run has come to Serve by then, or nearly.
NilInitiator ==
  /\ ~ttl
  /\ phase["search"] \in {"serving", "draining"}
  /\ End("search")
  /\ UNCHANGED faults

\* SIGINT: GracefulStop refuses new calls and waits for those in progress.
Interrupt(s) ==
  /\ s \in Brokered
  /\ Step(s, "serving", "draining")
  /\ Fault
  /\ UNCHANGED <<servers, schema, conn, ttl>>

\* SIGINT: main of the gateway returns when ListenAndServe does, which is when
\* Shutdown begins.
InterruptGateway == phase["api"] = "serving" /\ Fault /\ End("api")

Handling(s) == {u \in Users : stage[u] \in {"handled", "orphaned"} /\ target[u] = s}

\* Mutant: Stop in place of GracefulStop.
ExitAtOnce(s) == phase[s] = "draining" /\ End(s) /\ UNCHANGED faults

\* Serve returns, the deferred functions close what the handlers used.
Exit(s) == phase[s] = "draining" /\ Handling(s) = {} /\ End(s) /\ UNCHANGED faults

-----------------------------------------------------------------------------
(***************************************************************************)
(* PostgreSQL and NATS.  database/sql opens new connections by itself;     *)
(* nats.go tries for two minutes, then closes the connection for good.     *)
(***************************************************************************)
Down(x) ==
  /\ x \in servers
  /\ Fault
  /\ servers' = servers \ {x}
  /\ conn' = IF x # "nats" THEN conn
             ELSE [s \in Brokered |-> IF conn[s] = "open" THEN "lost" ELSE conn[s]]
  /\ UNCHANGED <<phase, schema, ttl>>

Up(x) ==
  /\ x \notin servers
  /\ servers' = servers \cup {x}
  /\ UNCHANGED <<phase, schema, conn, ttl, faults>>

Reconnect(s) ==
  /\ conn[s] = "lost"
  /\ "nats" \in servers
  /\ conn' = [conn EXCEPT ![s] = "open"]
  /\ UNCHANGED <<phase, servers, schema, ttl, faults>>

GiveUp(s) ==
  /\ conn[s] = "lost"
  /\ "nats" \notin servers
  /\ conn' = [conn EXCEPT ![s] = "closed"]
  /\ UNCHANGED <<phase, servers, schema, ttl, faults>>

-----------------------------------------------------------------------------
(***************************************************************************)
(* Requests                                                                *)
(***************************************************************************)
Goto(u, from, to) ==
  /\ stage[u] = from
  /\ stage' = [stage EXCEPT ![u] = to]

StackUnchanged == UNCHANGED <<phase, servers, schema, conn, ttl, faults>>

Request(u) ==
  /\ phase["api"] = "serving"
  /\ Goto(u, "idle", "asking")
  /\ \E t \in Targets : target' = [target EXCEPT ![u] = t]
  /\ StackUnchanged /\ UNCHANGED <<replies>>

\* The gRPC server of the service takes new calls.
Answers(s) == phase[s] = "serving"

\* Mutant: the client is made with WaitForReady, and waits for its service.
CallWhenReady(u) ==
  /\ Answers(target[u]) /\ Goto(u, "asking", "handled")
  /\ StackUnchanged /\ UNCHANGED <<target, replies>>

\* The call of a gRPC client: it fails at once when the service is not there,
\* and may fail while the client waits before it connects again.
Call(u) ==
  /\ \/ Answers(target[u]) /\ Goto(u, "asking", "handled")
     \/ Goto(u, "asking", "answered")
  /\ StackUnchanged /\ UNCHANGED <<target, replies>>

\* The handler returns, or the gateway hears that the service refuses it.
Finish(u) ==
  /\ phase[target[u]] \in {"serving", "draining"}
  /\ Goto(u, "handled", "answered") \/ Goto(u, "orphaned", "idle")
  /\ StackUnchanged /\ UNCHANGED <<target, replies>>

Reply(u) ==
  /\ Goto(u, "answered", "idle")
  /\ StackUnchanged /\ UNCHANGED <<target, replies>>

\* GET /api/ping
PingRequest(u) ==
  /\ phase["api"] = "serving"
  /\ Goto(u, "idle", "pinging")
  /\ StackUnchanged /\ UNCHANGED <<target, replies>>

\* One goroutine for each pinger; the mutex makes its entry one step.
Ping(u, n) ==
  /\ stage[u] = "pinging"
  /\ replies[u][n] = "none"
  /\ \/ Answers(n) /\ replies' = [replies EXCEPT ![u][n] = "ok"]
     \/ replies' = [replies EXCEPT ![u][n] = "unavailable"]
  /\ StackUnchanged /\ UNCHANGED <<stage, target>>

Pinged(u) == \A n \in pingers : replies[u][n] # "none"

\* Mutant: the map belongs to the handler, not to the request.
PingReplyKeepsMap(u) ==
  /\ Pinged(u)
  /\ Goto(u, "pinging", "idle")
  /\ StackUnchanged /\ UNCHANGED <<target, replies>>

\* wg.Wait returns, the map is the answer.
PingReply(u) ==
  /\ Pinged(u)
  /\ Goto(u, "pinging", "idle")
  /\ replies' = [replies EXCEPT ![u] = NoReplies]
  /\ StackUnchanged /\ UNCHANGED <<target>>

Handle(u) ==
  \/ Call(u) \/ Finish(u) \/ Reply(u)
  \/ PingReply(u) \/ \E n \in pingers : Ping(u, n)

Observe ==
  seen' = [u \in Users |->
    IF stage'[u] # "pinging" THEN {}
    ELSE seen[u] \cup {n \in pingers : phase'[n] = "serving"}]

\* What happens to the stack disturbs no request.
Quiet == UNCHANGED <<stage, target, replies>>

Next ==
  /\ \/ /\ \/ \E s \in Services : Boot(s) \/ Interrupt(s)
           \/ \E x \in Servers : Down(x) \/ Up(x)
           \/ \E s \in Brokered : Reconnect(s) \/ GiveUp(s)
        /\ Quiet
     \/ \E s \in Services : Kill(s) \/ Exit(s)
     \/ NilInitiator
     \/ InterruptGateway
     \/ \E u \in Users : Request(u) \/ PingRequest(u) \/ Handle(u)
  /\ Observe

Spec == Init /\ [][Next]_vars

(***************************************************************************)
(* Processes run, calls return (CallReturns of UpdateService and of        *)
(* SearchIndex), Docker restarts the services and PostgreSQL.  NATS need   *)
(* not come back; clients and faults are not forced.                       *)
(***************************************************************************)
Fairness ==
  /\ \A s \in Services : WF_vars(Boot(s) /\ Quiet /\ Observe)
  /\ \A s \in Brokered :
       /\ WF_vars(Exit(s) /\ Observe)
       /\ WF_vars((Reconnect(s) \/ GiveUp(s)) /\ Quiet /\ Observe)
  /\ WF_vars(NilInitiator /\ Observe)
  /\ WF_vars(Up("postgres") /\ Quiet /\ Observe)
  /\ \A u \in Users : WF_vars(Handle(u) /\ Observe)

FairSpec == Spec /\ Fairness

-----------------------------------------------------------------------------
(***************************************************************************)
(* Properties                                                              *)
(***************************************************************************)
\* The update service never serves a table it has not made: a database left
\* dirty by a migration that was cut off stops it at every start.
ServingMeansMigrated ==
  phase["update"] \in {"broker", "serving", "draining"} => schema = "ready"

\* A ping is answered for every service, and "ok" only for one that has served
\* since the ping came in, whatever dies or starts meanwhile.
PingTruthful ==
  [][\A u \in Users :
       stage[u] = "pinging" /\ stage'[u] = "idle" /\ phase'["api"] = "serving" =>
         \A n \in pingers :
           /\ replies[u][n] # "none"
           /\ replies[u][n] = "ok" => n \in seen[u]]_vars

\* A call that a service has begun is cut off only when something is killed, or
\* the gateway is interrupted: never because that service is interrupted.
CutOffOnlyByFault ==
  [][\A u \in Users :
       /\ stage[u] = "handled"
       /\ phase'[target[u]] = "off" \/ phase'["api"] = "off"
       => faults' # faults \/ ~ttl]_vars

\* What a service needs to stay up once it has started, if nothing fails.
HasProspects(s) ==
  /\ s = "update" => schema # "dirty"
  /\ s = "search" => ttl
  /\ s \in Brokered => "nats" \in servers

\* However the services and servers went down, the stack comes up again: in
\* the end every service serves that is not held back by a dirty database, by
\* its TTL or by a NATS nobody restarts, and has its connection to NATS unless
\* nats.go has given it up.
StackComesUp ==
  <>[] /\ \A s \in Services : HasProspects(s) => phase[s] = "serving"
       /\ \A s \in Brokered : HasProspects(s) => conn[s] \in {"open", "closed"}

\* A search service without an initiator, whose index nothing would repair,
\* does not go on serving.
NoServiceWithoutInitiator == ~ttl => []<>(phase["search"] # "serving")

\* Every request ends, a ping too, although the gateway sets no deadline and
\* services die while they handle it.
RequestsEnd == \A u \in Users : stage[u] # "idle" ~> stage[u] = "idle"
=============================================================================
