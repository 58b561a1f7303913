------------------------------ MODULE LocalAgent ------------------------------
(* Desktop actions and the laptops that execute them: the hub that routes a  *)
(* dispatched action to the one registered connection or to Redis, the       *)
(* handlers of connections, and the agents, each of which claims, executes   *)
(* and records an action in one transaction.  All connections use one agent  *)
(* id.                                                                       *)
EXTENDS Naturals, Sequences, FiniteSets

CONSTANTS
    Jobs,          \* the desktop actions
    Connections,   \* the connections agents may open, each once
    None,
    MaxRecoveries  \* restarts of the scheduler

ASSUME AgentAssumption ==
    /\ None \notin Connections \cup Jobs /\ IsFiniteSet(Jobs) /\ MaxRecoveries \in Nat

VARIABLES
    hub,        \* the registered connection
    conn,       \* conn[c]: its two ends, its queue, and what it accepted
    agent,      \* agent[c]: the job the laptop behind c holds, and how far it is
    job,        \* job[a]: the status of the row
    stream,     \* the jobs published to Redis
    effects,    \* effects[a]: executions of a whose transaction was lost, or not
    recoveries

agentVars == <<hub, conn, agent, job, stream, effects, recoveries>>

Unopened == [handler |-> "none", up |-> FALSE, queue |-> <<>>, took |-> {}]
NoJob == [holds |-> None, pc |-> "free"]

AgentInit ==
    /\ hub = None /\ stream = {} /\ recoveries = 0
    /\ conn = [c \in Connections |-> Unopened]
    /\ agent = [c \in Connections |-> NoJob]
    /\ job = [a \in Jobs |-> "READY"]
    /\ effects = [a \in Jobs |-> [kept |-> 0, lost |-> 0]]

-----------------------------------------------------------------------------
(* The API process. *)

(* The last connection to register is the one the hub knows; the one before   *)
(* keeps its queue.                                                           *)
Superseded == conn
Register(c) ==
    /\ conn[c] = Unopened
    /\ conn' = [Superseded EXCEPT ![c].handler = "serving", ![c].up = TRUE]
    /\ hub' = c
    /\ UNCHANGED <<agent, job, stream, effects, recoveries>>

Unregistered(c) == None

(* A handler that ends unregisters the agent id, whoever holds it by then,   *)
(* and so does one whose greeting was refused before it registered.          *)
HandlerEnds(c) ==
    /\ \/ conn[c].handler = "serving" /\ ~conn[c].up
       \/ conn[c] = Unopened
    /\ conn' = [conn EXCEPT ![c].handler = "ended"]
    /\ hub' = Unregistered(c)
    /\ UNCHANGED <<agent, job, stream, effects, recoveries>>

(* The network goes away, and the laptop finishes what it holds; or the      *)
(* laptop goes away, and what it had executed is rolled back.  The server    *)
(* does not know yet.                                                        *)
ConnectionDrops(c) ==
    /\ conn[c].up
    /\ conn' = [conn EXCEPT ![c].up = FALSE]
    /\ \/ UNCHANGED <<agent, effects>>
       \/ /\ agent' = [agent EXCEPT ![c] = NoJob]
          /\ effects' = IF agent[c].pc = "executed"
                        THEN [effects EXCEPT ![agent[c].holds].lost = @ + 1] ELSE effects
    /\ UNCHANGED <<hub, job, stream, recoveries>>

(* try_dispatch, and the Redis stream when nobody is registered. *)
Hand(jobs) ==
    IF hub = None
    THEN stream' = stream \cup jobs /\ UNCHANGED conn
    ELSE /\ \E order \in [1..Cardinality(jobs) -> jobs] :
              /\ \A a \in jobs : \E i \in DOMAIN order : order[i] = a
              /\ conn' = [conn EXCEPT ![hub].queue = @ \o order, ![hub].took = @ \cup jobs]
         /\ UNCHANGED stream

DispatchJob(a) ==
    /\ job[a] = "READY"
    /\ job' = [job EXCEPT ![a] = "DISPATCHED"]
    /\ Hand({a})
    /\ UNCHANGED <<hub, agent, effects, recoveries>>

(* The scheduler starts again and hands out every DISPATCHED row again. *)
RecoverJobs ==
    /\ recoveries < MaxRecoveries
    /\ \E a \in Jobs : job[a] = "DISPATCHED"
    /\ recoveries' = recoveries + 1
    /\ Hand({a \in Jobs : job[a] = "DISPATCHED"})
    /\ UNCHANGED <<hub, agent, job, effects>>

(* The pump sends the head of the queue; into a dead socket it is lost.      *)
BugPumpsRegistered(c) == conn[c].queue # <<>> /\ hub = c
HasJob(c) == conn[c].queue # <<>>

Pump(c) ==
    /\ conn[c].handler = "serving" /\ HasJob(c) /\ agent[c].pc = "free"
    /\ conn' = [conn EXCEPT ![c].queue = Tail(@)]
    /\ agent' = [agent EXCEPT ![c] = IF conn[c].up
                   THEN [holds |-> Head(conn[c].queue), pc |-> "received"] ELSE @]
    /\ UNCHANGED <<hub, job, stream, effects, recoveries>>

-----------------------------------------------------------------------------
(* The laptop: claim, execute and record in one transaction, so the claim is *)
(* not visible and a second agent waits for the row until the first commits. *)

RowFree(a) == \A c \in Connections : agent[c].holds = a => agent[c].pc = "received"

ClaimJob(c) ==
    LET a == agent[c].holds
    IN  /\ agent[c].pc = "received" /\ RowFree(a)
        /\ agent' = [agent EXCEPT ![c] = IF job[a] \in {"DISPATCHED", "READY"}
                       THEN [@ EXCEPT !.pc = "claimed"] ELSE NoJob]
        /\ UNCHANGED <<hub, conn, job, stream, effects, recoveries>>

ExecuteJob(c) ==
    /\ agent[c].pc = "claimed"
    /\ agent' = [agent EXCEPT ![c].pc = "executed"]
    /\ UNCHANGED <<hub, conn, job, stream, effects, recoveries>>

CommitJob(c) ==
    /\ agent[c].pc = "executed"
    /\ \E status \in {"SUCCEEDED", "FAILED"} : job' = [job EXCEPT ![agent[c].holds] = status]
    /\ effects' = [effects EXCEPT ![agent[c].holds].kept = @ + 1]
    /\ agent' = [agent EXCEPT ![c] = NoJob]
    /\ UNCHANGED <<hub, conn, stream, recoveries>>

(* A worker of the cluster has no desktop tools and fails the action; it     *)
(* waits for the row like anybody else.                                      *)
ClusterWorker(a) ==
    /\ a \in stream /\ RowFree(a)
    /\ stream' = stream \ {a}
    /\ job' = IF job[a] = "DISPATCHED" THEN [job EXCEPT ![a] = "FAILED"] ELSE job
    /\ UNCHANGED <<hub, conn, agent, effects, recoveries>>

-----------------------------------------------------------------------------
Laptop(c) == Pump(c) \/ ClaimJob(c) \/ ExecuteJob(c) \/ CommitJob(c)

AgentNext ==
    \/ RecoverJobs
    \/ \E a \in Jobs : DispatchJob(a) \/ ClusterWorker(a)
    \/ \E c \in Connections :
         \/ Register(c) \/ HandlerEnds(c) \/ ConnectionDrops(c)
         \/ Pump(c) \/ ClaimJob(c) \/ ExecuteJob(c) \/ CommitJob(c)

AgentSpec == AgentInit /\ [][AgentNext]_agentVars

-----------------------------------------------------------------------------
(* The hub knows only a connection whose handler still serves it. *)
AgentTypeOK ==
    /\ hub = None \/ conn[hub].handler = "serving"
    /\ \A c \in Connections :
         /\ conn[c].queue \in Seq(Jobs) /\ conn[c].took \subseteq Jobs
         /\ agent[c] # NoJob => agent[c].holds \in Jobs
    /\ job \in [Jobs -> {"READY", "DISPATCHED", "SUCCEEDED", "FAILED"}]

(* An action is executed once on record, however often it was handed out; it *)
(* is executed again only after a connection dropped with an execution that  *)
(* nobody recorded.                                                          *)
RecordedOnce ==
    \A a \in Jobs :
        /\ effects[a].kept <= 1
        /\ Cardinality({c \in Connections : agent[c].holds = a /\ agent[c].pc \in {"claimed", "executed"}})
             + effects[a].kept <= 1

(* A DISPATCHED action that is nowhere was accepted by a connection that     *)
(* dropped: in-memory acceptance is the only way to lose one.                *)
LostOnlyWithConnection ==
    \A a \in Jobs : job[a] = "DISPATCHED" =>
        \/ a \in stream
        \/ \E c \in Connections : conn[c].up /\ (\E i \in DOMAIN conn[c].queue : conn[c].queue[i] = a)
        \/ \E c \in Connections : agent[c].holds = a
        \/ \E c \in Connections : a \in conn[c].took /\ ~conn[c].up

(* What a connection accepted ends, or is handed out by somebody else, if    *)
(* the connection stays up, even when a later one took its place in the hub. *)
AcceptedJobsEnd ==
    \A c \in Connections : \A a \in Jobs :
        a \in conn[c].took ~> (job[a] \in {"SUCCEEDED", "FAILED"} \/ ~conn[c].up)

(* A job handed to the user's machine is recorded once, is lost only together *)
(* with the connection that had accepted it, and ends while that connection is*)
(* up (AgentHub.dispatch, agent_session, LocalAgentRunner).                   *)
JobsAreAccountedFor ==
    /\ [](AgentTypeOK /\ RecordedOnce /\ LostOnlyWithConnection)
    /\ AcceptedJobsEnd
=============================================================================
