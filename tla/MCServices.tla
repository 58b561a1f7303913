------------------------------ MODULE MCServices ------------------------------
(* The services with a life of their own beside the action engine, each in a  *)
(* part of its own: a behaviour picks one service and takes only its steps.   *)
EXTENDS LeaderElection, LocalAgent, ModelRouting, VoiceSession

CONSTANTS a1, a2, c1, c2, none, cloud, local

VARIABLE part

servicesVars == <<part, leaderVars, agentVars, routingVars, voiceVars>>

PreferCloud == <<cloud, local>>

Init ==
    /\ part \in {"leader", "agent", "routing", "voice"}
    /\ LeaderInit /\ AgentInit /\ RoutingInit /\ VoiceInit

Stays(p) ==
    /\ part = p /\ UNCHANGED part
    /\ p # "leader" => UNCHANGED leaderVars
    /\ p # "agent" => UNCHANGED agentVars
    /\ p # "routing" => UNCHANGED routingVars
    /\ p # "voice" => UNCHANGED voiceVars

Next ==
    \/ LeaderNext /\ Stays("leader")
    \/ AgentNext /\ Stays("agent")
    \/ RoutingNext /\ Stays("routing")
    \/ VoiceNext /\ Stays("voice")

(* Processes that are up take their steps, clocks run, and requests for a     *)
(* completion keep coming.                                                    *)
Fairness ==
    /\ \A r \in Replicas : WF_leaderVars(part = "leader" /\ LeaderStep(r))
    /\ WF_leaderVars(part = "leader" /\ GhostExpires)
    /\ \A c \in Connections : WF_agentVars(part = "agent" /\ Laptop(c))
    /\ \A a \in Jobs : WF_agentVars(part = "agent" /\ ClusterWorker(a))
    /\ \A k \in Callers :
         /\ WF_routingVars(part = "routing" /\ CallStep(k))
         /\ SF_routingVars(part = "routing" /\ RouteCall(k, FALSE, FALSE))
    /\ \A p \in Providers : WF_routingVars(part = "routing" /\ HalfOpens(p))
    /\ \A n \in 1..MaxSpeeches : WF_voiceVars(part = "voice" /\ LoopTurn(n))

FairSpec == Init /\ [][Next]_servicesVars /\ Fairness
=============================================================================
