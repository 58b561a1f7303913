----------------------------- MODULE ModelRouting -----------------------------
(* Calls of language models: which providers a request may go to, the        *)
(* circuit breaker of each, and the failover from one to the next.  Calls    *)
(* run concurrently, and a breaker learns of an outcome when the call ends.  *)
EXTENDS Naturals, Sequences, FiniteSets

CONSTANTS
    Providers,
    Prefer,       \* the providers that can be built, in the order of the configuration
    Remote,       \* those that are not on this machine
    Callers,      \* concurrent calls
    Threshold,    \* consecutive failures that open a breaker
    Window,       \* outcomes the error rate is computed over
    MaxOutages    \* changes of a provider's health

ASSUME RoutingAssumption ==
    /\ Prefer \in Seq(Providers) /\ Remote \subseteq Providers
    /\ Threshold \in Nat \ {0} /\ Window \in Nat \ {0}

VARIABLES breaker, healthy, call, outages

routingVars == <<breaker, healthy, call, outages>>

Closed == [state |-> "closed", failures |-> 0, outcomes |-> <<>>]
NoCall == [pc |-> "idle", route |-> {}, sensitive |-> FALSE]

RoutingInit ==
    /\ breaker = [p \in Providers |-> Closed]
    /\ healthy = [p \in Providers |-> TRUE]
    /\ call = [k \in Callers |-> NoCall]
    /\ outages = 0

-----------------------------------------------------------------------------
(* Who may see a request: nothing remote when it is sensitive or the         *)
(* installation is offline.                                                  *)
Eligible(p, sensitive, offline) == ~((offline \/ sensitive) /\ p \in Remote)

(* The route of a call: the places in Prefer it has still to try, in order.  *)
FirstPlace(k) == CHOOSE n \in call[k].route : \A m \in call[k].route : n <= m
Asked(k) == Prefer[FirstPlace(k)]
Dropped(k) == call[k].route \ {FirstPlace(k)}

RouteCall(k, sensitive, offline) ==
    LET route == { n \in DOMAIN Prefer : Eligible(Prefer[n], sensitive, offline) }
    IN  /\ call[k].pc = "idle" /\ route # {}
        /\ call' = [call EXCEPT ![k] = [pc |-> IF Cardinality(route) = 1 THEN "alone" ELSE "choosing",
                                        route |-> route, sensitive |-> sensitive]]
        /\ UNCHANGED <<breaker, healthy, outages>>

(* The time an OPEN breaker waits is over: it is HALF_OPEN from then on, and *)
(* lets every call through.                                                  *)
BugStaysOpen(p) == breaker[p]
Probing(p) == [breaker[p] EXCEPT !.state = "half_open"]

HalfOpens(p) ==
    /\ breaker[p].state = "open"
    /\ breaker' = [breaker EXCEPT ![p] = Probing(p)]
    /\ UNCHANGED <<healthy, call, outages>>

(* FailoverProvider: skip what is open, ask the first that is not. *)
AskOrSkip(k) ==
    /\ call[k].pc = "choosing" /\ call[k].route # {}
    /\ call' = IF breaker[Asked(k)].state = "open"
               THEN [call EXCEPT ![k].route = Dropped(k)]
               ELSE [call EXCEPT ![k].pc = "asking"]
    /\ UNCHANGED <<breaker, healthy, outages>>

GiveUp(k) ==
    /\ call[k].pc = "choosing" /\ call[k].route = {}
    /\ call' = [call EXCEPT ![k] = NoCall]
    /\ UNCHANGED <<breaker, healthy, outages>>

-----------------------------------------------------------------------------
Trim(s) == IF Len(s) > Window THEN SubSeq(s, Len(s) - Window + 1, Len(s)) ELSE s
Failed(s) == Cardinality({i \in DOMAIN s : ~s[i]})

Succeeded(b) ==
    [state |-> "closed", failures |-> 0, outcomes |-> Trim(Append(b.outcomes, TRUE))]

Trips(failures, outcomes) ==
    \/ failures >= Threshold
    \/ Len(outcomes) >= Window /\ 2 * Failed(outcomes) >= Len(outcomes)

Fails(b) ==
    LET failures == b.failures + 1
        outcomes == Trim(Append(b.outcomes, FALSE))
    IN  [state |-> IF Trips(failures, outcomes) THEN "open" ELSE b.state,
         failures |-> IF failures > Threshold THEN Threshold ELSE failures,
         outcomes |-> outcomes]

NextProvider(k) == [call EXCEPT ![k].pc = "choosing", ![k].route = Dropped(k)]

(* The call comes back, and the breaker learns of it whatever happened to it *)
(* meanwhile.                                                                *)
Answers(k) ==
    LET p == Asked(k)
    IN  /\ call[k].pc = "asking"
        /\ IF healthy[p]
           THEN /\ breaker' = [breaker EXCEPT ![p] = Succeeded(@)]
                /\ call' = [call EXCEPT ![k] = NoCall]
           ELSE /\ breaker' = [breaker EXCEPT ![p] = Fails(@)]
                /\ call' = NextProvider(k)
        /\ UNCHANGED <<healthy, outages>>

(* A single eligible provider is called without a breaker. *)
AnswersAlone(k) ==
    /\ call[k].pc = "alone"
    /\ call' = [call EXCEPT ![k] = NoCall]
    /\ UNCHANGED <<breaker, healthy, outages>>

HealthChanges(p) ==
    /\ outages < MaxOutages /\ outages' = outages + 1
    /\ healthy' = [healthy EXCEPT ![p] = ~@]
    /\ UNCHANGED <<breaker, call>>

CallStep(k) ==
    \/ \E sensitive, offline \in BOOLEAN : RouteCall(k, sensitive, offline)
    \/ AskOrSkip(k) \/ GiveUp(k) \/ Answers(k) \/ AnswersAlone(k)

RoutingNext ==
    \/ \E k \in Callers :
         \/ \E sensitive, offline \in BOOLEAN : RouteCall(k, sensitive, offline)
         \/ AskOrSkip(k) \/ GiveUp(k) \/ Answers(k) \/ AnswersAlone(k)
    \/ \E p \in Providers : HalfOpens(p) \/ HealthChanges(p)

RoutingSpec == RoutingInit /\ [][RoutingNext]_routingVars

-----------------------------------------------------------------------------
(* The breakers keep their shape (failures are counted up to the threshold), *)
(* and nobody who asks has nobody to ask.                                    *)
RoutingTypeOK ==
    /\ \A p \in Providers :
         /\ breaker[p].state \in {"closed", "open", "half_open"}
         /\ breaker[p].failures \in 0..Threshold
         /\ breaker[p].outcomes \in Seq(BOOLEAN) /\ Len(breaker[p].outcomes) <= Window
    /\ \A k \in Callers : call[k].pc \in {"asking", "alone"} => call[k].route # {}

(* A sensitive request is never on its way to a remote provider, whichever   *)
(* provider it fails over to (router.py, FR-702).                            *)
SensitiveStaysLocal ==
    \A k \in Callers : call[k].sensitive /\ call[k].pc \in {"asking", "alone"} =>
        Asked(k) \notin Remote

(* A failed probe always opens the breaker again: a breaker that is not      *)
(* closed keeps the evidence that tripped it, whatever late answers of calls *)
(* it had let through before arrive in between.                              *)
FailedProbeReopens ==
    [][\A p \in Providers :
         \A k \in Callers :
            breaker[p].state = "half_open" /\ call[k].pc = "asking" /\ Asked(k) = p
            /\ call'[k].pc = "choosing"
            => breaker'[p].state = "open"]_routingVars

(* A provider that is healthy again is used again: once its outages are over *)
(* the breaker of the preferred provider ends up closed, however often late  *)
(* failures open it.                                                         *)
PreferredRecovers ==
    <>[](healthy[Prefer[1]]) => <>[](breaker[Prefer[1]].state = "closed")

(* Through fallbacks, open breakers and answers that come late, a sensitive   *)
(* prompt stays on local providers, a failed probe reopens its breaker, and a *)
(* preferred provider that is well again is trusted again (ModelRouter.complete,*)
(* CircuitBreaker).                                                           *)
RoutesRecover ==
    /\ [](RoutingTypeOK /\ SensitiveStaysLocal)
    /\ FailedProbeReopens
    /\ PreferredRecovers
=============================================================================
