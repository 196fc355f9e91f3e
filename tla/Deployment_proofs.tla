--------------------------- MODULE Deployment_proofs ---------------------------
(***************************************************************************)
(* Theorems about Deployment, for any number of users and faults.          *)
(***************************************************************************)
EXTENDS Deployment, TLAPS

USE DeploymentAssumption

\* What the map of a ping says while it is being filled, and that it starts
\* empty.
RepliesSound ==
  \A u \in Users : \A n \in pingers :
    /\ stage[u] # "pinging" => replies[u][n] = "none"
    /\ replies[u][n] = "ok" => n \in seen[u]

\* A request in progress has somebody to end it: the process that handles it,
\* and the gateway unless that has died.
Attended ==
  \A u \in Users :
    /\ stage[u] \in {"handled", "orphaned"} => phase[target[u]] \in {"serving", "draining"}
    /\ stage[u] \notin {"idle", "orphaned"} => phase["api"] = "serving"

\* The inductive invariant.
DeployIInv == TypeOK /\ ServingMeansMigrated /\ RepliesSound /\ Attended

\* What happens to the stack while it disturbs no request.
StackStep ==
  \/ \E s \in Services : Boot(s) \/ Interrupt(s)
  \/ \E x \in Servers : Down(x) \/ Up(x)
  \/ \E s \in Brokered : Reconnect(s) \/ GiveUp(s)

\* The ways in which a process ends and takes its requests with it.
EndStep ==
  \/ \E s \in Services : Kill(s) \/ Exit(s)
  \/ NilInitiator
  \/ InterruptGateway

\* One step of the client, of the gateway or of the handler.
RequestStep == \E u \in Users : Request(u) \/ PingRequest(u) \/ Handle(u)

\* A stack step neither ends a process that serves nor makes one serve that
\* lacks what it needs.
Orderly ==
  /\ phase' \in [Services -> Phases]
  /\ servers' \in SUBSET Servers
  /\ schema' \in {"absent", "dirty", "ready"}
  /\ conn' \in [Brokered -> {"none", "open", "lost", "closed"}]
  /\ ttl' \in BOOLEAN
  /\ faults' \in 0..MaxFaults
  /\ \A s \in Brokered : conn'[s] # "none" <=> phase'[s] \in {"serving", "draining"}
  /\ phase'["update"] \in {"broker", "serving", "draining"} => schema' = "ready"
  /\ \A s \in Services :
       phase[s] \in {"serving", "draining"} => phase'[s] \in {"serving", "draining"}
  /\ phase["api"] = "serving" => phase'["api"] = "serving"

\* Nothing that starts takes away from what runs.
LEMMA BootOrderly ==
  ASSUME DeployIInv, NEW s \in Services, Boot(s)
  PROVE  Orderly
<1> USE DEF DeployIInv, TypeOK, ServingMeansMigrated, Orderly, Services, Brokered, Phases, Step
<1>1. CASE Start(s)
  BY <1>1 DEF Start, FirstPhase
<1>2. CASE s = "update" /\ NewDB
  BY <1>2 DEF NewDB, Connected
<1>3. CASE s = "update" /\ Migrate
  BY <1>3 DEF Migrate
<1>4. CASE s = "update" /\ Migrated
  BY <1>4 DEF Migrated
<1>5. CASE s = "update" /\ NewPublisher
  BY <1>5 DEF NewPublisher, ConnectBroker
<1>6. CASE s = "search" /\ NewSearchDB
  BY <1>6 DEF NewSearchDB, Connected
<1>7. CASE s = "search" /\ NewIndex
  BY <1>7 DEF NewIndex, Connected
<1>8. CASE s = "search" /\ NewSubscriber
  BY <1>8 DEF NewSubscriber, ConnectBroker
<1> QED BY <1>1, <1>2, <1>3, <1>4, <1>5, <1>6, <1>7, <1>8 DEF Boot

\* The same of an interrupt of a gRPC server, and of PostgreSQL and NATS.
LEMMA StackOrderly ==
  ASSUME DeployIInv, StackStep
  PROVE  Orderly
<1>1. CASE \E s \in Services : Boot(s)
  BY <1>1, BootOrderly
<1> USE DEF DeployIInv, TypeOK, ServingMeansMigrated, Orderly, Services, Brokered, Phases, Step
<1>2. ASSUME NEW s \in Services, Interrupt(s) PROVE Orderly
  BY <1>2 DEF Interrupt, Fault
<1>3. ASSUME NEW x \in Servers, Down(x) PROVE Orderly
  BY <1>3 DEF Down, Fault, Servers
<1>4. ASSUME NEW x \in Servers, Up(x) PROVE Orderly
  BY <1>4 DEF Up, Servers
<1>5. ASSUME NEW s \in Brokered, Reconnect(s) PROVE Orderly
  BY <1>5 DEF Reconnect
<1>6. ASSUME NEW s \in Brokered, GiveUp(s) PROVE Orderly
  BY <1>6 DEF GiveUp
<1> QED BY <1>1, <1>2, <1>3, <1>4, <1>5, <1>6 DEF StackStep

\* What has served since a ping came in grows, and ends with the ping.
LEMMA ObserveTyped ==
  ASSUME TypeOK, Observe
  PROVE  seen' \in [Users -> SUBSET pingers]
BY DEF TypeOK, Observe

LEMMA StackPreserves ==
  ASSUME DeployIInv, StackStep, Quiet, Observe
  PROVE  DeployIInv'
<1>1. Orderly BY StackOrderly
<1>2. TypeOK'
  BY <1>1, ObserveTyped DEF DeployIInv, TypeOK, Orderly, Quiet
<1>3. ServingMeansMigrated'
  BY <1>1 DEF Orderly, ServingMeansMigrated
<1>4. RepliesSound'
  BY DEF DeployIInv, RepliesSound, Quiet, Observe, TypeOK
<1>5. Attended'
  BY <1>1 DEF DeployIInv, Attended, Orderly, Quiet, TypeOK, Brokered, Services
<1> QED BY <1>2, <1>3, <1>4, <1>5 DEF DeployIInv

\* Cut leaves a request with those who are still there.
LEMMA CutFacts ==
  ASSUME NEW u \in Users, NEW s \in Services, stage[u] \in Stages, target[u] \in Brokered
  PROVE  /\ Cut(u, s) \in Stages
         /\ Cut(u, s) = "pinging" <=> stage[u] = "pinging" /\ s # "api"
         /\ Cut(u, s) \in {"handled", "orphaned"} =>
              s # target[u] /\ stage[u] \in {"handled", "orphaned"}
         /\ Cut(u, s) \notin {"idle", "orphaned"} =>
              s # "api" /\ stage[u] \notin {"idle", "orphaned"}
BY DEF Cut, Stages, Services, Brokered

\* A process may end at any time without breaking the invariant.
LEMMA EndPreserves ==
  ASSUME DeployIInv, NEW s \in Services, End(s), faults' \in 0..MaxFaults, Observe
  PROVE  DeployIInv'
<1> USE DEF DeployIInv
<1>1. TypeOK'
  <2>1. stage' \in [Users -> Stages]
    BY CutFacts DEF End, TypeOK
  <2>2. replies' \in [Users -> [pingers -> {"none", "ok", "unavailable"}]]
    BY DEF End, TypeOK, NoReplies
  <2>3. /\ phase' \in [Services -> Phases]
        /\ conn' \in [Brokered -> {"none", "open", "lost", "closed"}]
        /\ \A t \in Brokered : conn'[t] # "none" <=> phase'[t] \in {"serving", "draining"}
    BY DEF End, Close, TypeOK, Phases, Brokered, Services
  <2> QED BY <2>1, <2>2, <2>3, ObserveTyped DEF TypeOK, End
<1>2. ServingMeansMigrated'
  BY DEF ServingMeansMigrated, End, TypeOK, Services
<1>3. RepliesSound'
  <2> SUFFICES ASSUME NEW u \in Users, NEW n \in pingers
               PROVE  /\ stage'[u] # "pinging" => replies'[u][n] = "none"
                      /\ replies'[u][n] = "ok" => n \in seen'[u]
    BY DEF RepliesSound
  <2>1. stage'[u] = "pinging" <=> stage[u] = "pinging" /\ s # "api"
    BY CutFacts DEF End, TypeOK
  <2>2. replies'[u][n] = IF s = "api" THEN "none" ELSE replies[u][n]
    BY DEF End, TypeOK, NoReplies
  <2> QED BY <2>1, <2>2 DEF RepliesSound, Observe
<1>4. Attended'
  <2> SUFFICES ASSUME NEW u \in Users
               PROVE  /\ stage'[u] \in {"handled", "orphaned"} =>
                           phase'[target'[u]] \in {"serving", "draining"}
                      /\ stage'[u] \notin {"idle", "orphaned"} => phase'["api"] = "serving"
    BY DEF Attended
  <2>1. /\ target'[u] = target[u] /\ target[u] \in Services
        /\ \A t \in Services : phase'[t] = IF t = s THEN "off" ELSE phase[t]
        /\ stage'[u] = Cut(u, s)
    BY DEF End, TypeOK, Services, Brokered
  <2> QED BY <2>1, CutFacts DEF Attended, TypeOK, Services
<1> QED BY <1>1, <1>2, <1>3, <1>4

LEMMA EndStepPreserves ==
  ASSUME DeployIInv, EndStep, Observe
  PROVE  DeployIInv'
<1>1. \E s \in Services : End(s)
  BY DEF EndStep, Kill, Exit, NilInitiator, InterruptGateway, Services
<1>2. faults' \in 0..MaxFaults
  BY DEF EndStep, Kill, Exit, NilInitiator, InterruptGateway, Fault, DeployIInv, TypeOK
<1> QED BY <1>1, <1>2, EndPreserves

LEMMA RequestPreserves ==
  ASSUME DeployIInv, NEW u \in Users, Request(u) \/ PingRequest(u) \/ Handle(u), Observe
  PROVE  DeployIInv'
<1> USE DEF DeployIInv, Goto
<1>1. StackUnchanged
  BY DEF Request, PingRequest, Handle, Call, Finish, Reply, Ping, PingReply
<1>2. ServingMeansMigrated'
  BY <1>1 DEF ServingMeansMigrated, StackUnchanged
<1>3. stage' \in [Users -> Stages]
  BY DEF TypeOK, Stages, Request, PingRequest, Handle, Call, Finish, Reply, Ping, PingReply
<1>4. target' \in [Users -> Brokered]
  BY DEF TypeOK, Request, PingRequest, Handle, Call, Finish, Reply, Ping, PingReply
<1>5. replies' \in [Users -> [pingers -> {"none", "ok", "unavailable"}]]
  BY DEF TypeOK, Request, PingRequest, Handle, Call, Finish, Reply, Ping, PingReply, NoReplies
<1>6. TypeOK'
  BY <1>1, <1>3, <1>4, <1>5, ObserveTyped DEF TypeOK, StackUnchanged
<1>7. RepliesSound'
  <2> USE DEF RepliesSound, Observe, TypeOK
  <2>1. CASE Request(u) \/ PingRequest(u)
    BY <2>1 DEF Request, PingRequest
  <2>2. CASE Call(u) \/ Finish(u) \/ Reply(u)
    BY <2>2 DEF Call, Finish, Reply
  <2>3. ASSUME NEW n \in pingers, Ping(u, n) PROVE RepliesSound'
    BY <2>3 DEF Ping, Answers, StackUnchanged
  <2>4. CASE PingReply(u)
    BY <2>4 DEF PingReply, NoReplies
  <2> QED BY <2>1, <2>2, <2>3, <2>4 DEF Handle
<1>8. Attended'
  <2> USE <1>1 DEF Attended, TypeOK, StackUnchanged
  <2>1. CASE Request(u) \/ PingRequest(u)
    BY <2>1 DEF Request, PingRequest
  <2>2. CASE Call(u)
    BY <2>2 DEF Call, Answers
  <2>3. CASE Finish(u) \/ Reply(u) \/ PingReply(u)
    BY <2>3 DEF Finish, Reply, PingReply
  <2>4. ASSUME NEW n \in pingers, Ping(u, n) PROVE Attended'
    BY <2>4 DEF Ping
  <2> QED BY <2>1, <2>2, <2>3, <2>4 DEF Handle
<1> QED BY <1>2, <1>6, <1>7, <1>8

\* Next is a step of the stack, an end or a step of a request.
LEMMA NextSteps ==
  ASSUME Next
  PROVE  /\ Observe
         /\ (StackStep /\ Quiet) \/ EndStep \/ RequestStep
BY DEF Next, StackStep, EndStep, RequestStep

LEMMA InitInvariant == Init => DeployIInv
BY DEF Init, DeployIInv, TypeOK, ServingMeansMigrated, RepliesSound, Attended,
       NoReplies, Phases, Stages, Services, Brokered

LEMMA StepInvariant == DeployIInv /\ [Next]_vars => DeployIInv'
<1> SUFFICES ASSUME DeployIInv, [Next]_vars PROVE DeployIInv'
  OBVIOUS
<1>1. CASE Next
  BY <1>1, NextSteps, StackPreserves, EndStepPreserves, RequestPreserves DEF RequestStep
<1>2. CASE UNCHANGED vars
  BY <1>2 DEF vars, requestVars, DeployIInv, TypeOK, ServingMeansMigrated, RepliesSound, Attended
<1> QED BY <1>1, <1>2

\* What is proved below rests on this: types, the table that is made before it
\* is served, what the maps of pings say, and who attends to a request.
THEOREM DeploymentInvariant == Spec => []DeployIInv
BY InitInvariant, StepInvariant, PTL DEF Spec

\* Every variable keeps its type, and a service has a connection to NATS
\* exactly while it serves or drains.
THEOREM DeploymentTyped == Spec => []TypeOK
BY DeploymentInvariant, PTL DEF DeployIInv

\* However often it is killed at whatever point of a migration, the update
\* service never serves a table it has not made.
THEOREM MigratedBeforeServing == Spec => []ServingMeansMigrated
BY DeploymentInvariant, PTL DEF DeployIInv

\* The answer to a ping is complete and true.
THEOREM PingsTruthful == Spec => PingTruthful
<1> DEFINE A == \A u \in Users :
                  stage[u] = "pinging" /\ stage'[u] = "idle" /\ phase'["api"] = "serving" =>
                    \A n \in pingers :
                      /\ replies[u][n] # "none"
                      /\ replies[u][n] = "ok" => n \in seen[u]
<1>1. ASSUME DeployIInv, Next PROVE A
  <2> SUFFICES ASSUME NEW u \in Users,
                      stage[u] = "pinging", stage'[u] = "idle", phase'["api"] = "serving"
               PROVE  \A n \in pingers :
                        /\ replies[u][n] # "none"
                        /\ replies[u][n] = "ok" => n \in seen[u]
    OBVIOUS
  <2> USE <1>1 DEF DeployIInv
  <2>1. Pinged(u)
    <3>1. CASE Quiet
      BY <3>1 DEF Quiet
    <3>2. ASSUME NEW s \in Services, End(s) PROVE FALSE
      <4>1. s = "api"
        BY <3>2, CutFacts DEF End, TypeOK
      <4> QED BY <3>2, <4>1 DEF End, TypeOK, Services
    <3>3. ASSUME NEW v \in Users, Request(v) \/ PingRequest(v) \/ Handle(v) PROVE Pinged(u)
      BY <3>3 DEF Request, PingRequest, Handle, Call, Finish, Reply, Ping, PingReply, Goto, TypeOK
    <3> QED
      BY <3>1, <3>2, <3>3, NextSteps
      DEF EndStep, RequestStep, Kill, Exit, NilInitiator, InterruptGateway, Services
  <2> QED BY <2>1 DEF Pinged, RepliesSound
<1>2. ASSUME DeployIInv, [Next]_vars PROVE [A]_vars
  BY <1>1, <1>2
<1> QED BY <1>2, DeploymentInvariant, PTL DEF Spec, PingTruthful

\* A call in progress is cut off by a fault or for want of an initiator, never
\* by GracefulStop.
THEOREM OnlyFaultsCutOff == Spec => CutOffOnlyByFault
<1> DEFINE A == \A u \in Users :
                  /\ stage[u] = "handled"
                  /\ phase'[target[u]] = "off" \/ phase'["api"] = "off"
                  => faults' # faults \/ ~ttl
<1>1. ASSUME DeployIInv, Next PROVE A
  <2> SUFFICES ASSUME NEW u \in Users, stage[u] = "handled",
                      phase'[target[u]] = "off" \/ phase'["api"] = "off"
               PROVE  faults' # faults \/ ~ttl
    OBVIOUS
  <2> USE <1>1 DEF DeployIInv
  <2>1. /\ target[u] \in Brokered
        /\ phase[target[u]] \in {"serving", "draining"}
        /\ phase["api"] = "serving"
    BY DEF Attended, TypeOK
  <2>2. CASE StackStep
    BY <2>1, <2>2, StackOrderly DEF Orderly, Services, Brokered
  <2>3. CASE RequestStep
    <3>1. UNCHANGED phase
      BY <2>3 DEF RequestStep, Request, PingRequest, Handle, Call, Finish, Reply, Ping, PingReply,
                  StackUnchanged
    <3> QED BY <2>1, <3>1
  <2>4. ASSUME NEW s \in Services, Exit(s) PROVE FALSE
    <3>1. s # target[u] /\ s # "api"
      BY <2>1, <2>4 DEF Exit, Handling, Services, Brokered
    <3> QED BY <2>1, <2>4, <3>1 DEF Exit, End, TypeOK, Services, Brokered
  <2>5. CASE (\E s \in Services : Kill(s)) \/ InterruptGateway
    BY <2>5 DEF Kill, InterruptGateway, Fault, TypeOK
  <2>6. CASE NilInitiator
    BY <2>6 DEF NilInitiator
  <2> QED BY <2>2, <2>3, <2>4, <2>5, <2>6, NextSteps DEF EndStep
<1>2. ASSUME DeployIInv, [Next]_vars PROVE [A]_vars
  BY <1>1, <1>2
<1> QED BY <1>2, DeploymentInvariant, PTL DEF Spec, CutOffOnlyByFault
=============================================================================
