---------------------------- MODULE WorkflowMining -----------------------------
(* What recurs: the calls of tasks that succeeded are loaded, the pipelines   *)
(* that several tasks share are found, and each becomes an offer whose        *)
(* differing arguments are parameters.  WorkflowLearning keeps the offers.    *)
(*   src/vyomel/learning/mining.py, proposal.py, signatures.py, service.py    *)
EXTENDS Integers, FiniteSets, SequencesExt

CONSTANTS
    TaskRuns,     \* runs of a task: sequences of calls, in the order they ran
    TypeOf,       \* TypeOf[v]: the JSON type of an argument
    MinSupport,   \* tasks that must share a pipeline
    MinPattern,   \* calls of the shortest pipeline that is mined
    MinedTasks,   \* the hook mines the newest ones only
    MaxSuccesses  \* tasks that succeed

ObservedCalls == UNION { Range(calls) : calls \in TaskRuns }

(* A plan begins when all calls of the one before it have ended.              *)
ASSUME MiningAssumption ==
    /\ MinSupport \in Nat \ {0} /\ MinPattern \in Nat \ {0} /\ MinedTasks \in Nat
    /\ TaskRuns \subseteq Seq(ObservedCalls)
    /\ \A call \in ObservedCalls :
          call.plan \in Nat /\ call.args \in [DOMAIN call.args -> Range(call.args)]
    /\ \A calls \in TaskRuns : \A i, j \in DOMAIN calls : i < j => calls[i].plan <= calls[j].plan

VARIABLES
    history,      \* the calls of the tasks, in the order in which they finished
    corpus        \* what was mined: a sequence of calls per task

miningVars == <<history, corpus>>

MaxPattern == 12    \* mine_frequent_sequences(max_length)
LeastSteps == 3     \* shorter pipelines are not offered

------------------------------------------------------------------------------
(* The tool and the types of its arguments; the values do not matter.         *)
Signature(call) == [tool |-> call.tool, shape |-> [k \in DOMAIN call.args |-> TypeOf[call.args[k]]]]
Signatures(calls) == [i \in DOMAIN calls |-> Signature(calls[i])]

StartsOf(s, n) == 1..Len(s) - n + 1
Window(s, i, n) == SubSeq(s, i, i + n - 1)
Pipelines(calls) ==
    UNION { { Window(Signatures(calls), i, n) : i \in StartsOf(calls, n) }
                : n \in { n \in MinPattern..MaxPattern : n <= Len(calls) } }

(* support[p]: the tasks that a pipeline p occurs in.                         *)
Supported(tasks) ==
    LET pipelines == [t \in DOMAIN tasks |-> Pipelines(tasks[t])]
    IN  [p \in UNION Range(pipelines) |-> { t \in DOMAIN tasks : p \in pipelines[t] }]
Frequent(support) == { p \in DOMAIN support : Cardinality(support[p]) >= MinSupport }

Within(p, q) == \E i \in StartsOf(q, Len(p)) : Window(q, i, Len(p)) = p

\* A longer pipeline hides its parts, however many more tasks share them.
BugLongerWins(support, p, q) == Len(q) > Len(p) /\ Within(p, q)

Dominates(support, p, q) ==
    /\ Len(q) > Len(p) /\ Within(p, q)
    /\ Cardinality(support[q]) >= Cardinality(support[p])

Undominated(support) ==
    LET frequent == Frequent(support)
    IN  { p \in frequent : ~\E q \in frequent : Dominates(support, p, q) }

------------------------------------------------------------------------------
(* An offer: the first occurrence in each supporting task is lined up with    *)
(* the others; an argument that differs becomes a parameter.                  *)
Occurrence(calls, p) ==
    LET matches == { i \in StartsOf(calls, Len(p)) : Window(Signatures(calls), i, Len(p)) = p }
    IN  Window(calls, Min(matches), Len(p))

Constant(windows, i, k) ==
    \A w \in ToSet(windows) : w[i].args[k] = windows[1][i].args[k]

Generalized(windows) ==
    [i \in DOMAIN windows[1] |->
        [tool |-> windows[1][i].tool,
         args |-> [k \in DOMAIN windows[1][i].args |->
            IF Constant(windows, i, k)
            THEN [param |-> FALSE, value |-> windows[1][i].args[k]]
            ELSE [param |-> TRUE, value |-> <<i, k>>]]]]

Ordered(tids) ==
    CHOOSE s \in [1..Cardinality(tids) -> tids] :
        Range(s) = tids /\ \A i, j \in DOMAIN s : i < j => s[i] < s[j]

Offer(tasks, p, tids) ==
    LET supporters == Ordered(tids)
    IN  [pattern |-> p, supporters |-> tids,
         steps |-> Generalized([n \in DOMAIN supporters |-> Occurrence(tasks[supporters[n]], p)])]

Offers(tasks) ==
    LET support == Supported(tasks)
    IN  { Offer(tasks, p, support[p]) : p \in { q \in Undominated(support) : Len(q) >= LeastSteps } }

(* The parameters of an offer replaced by the values that are given.          *)
BindParameters(offer, values) ==
    [i \in DOMAIN offer.steps |->
        [tool |-> offer.steps[i].tool,
         args |-> [k \in DOMAIN offer.steps[i].args |->
            IF offer.steps[i].args[k].param THEN values[i].args[k]
            ELSE offer.steps[i].args[k].value]]]

------------------------------------------------------------------------------
MiningInit == history = <<>> /\ corpus = <<>>

TaskSucceeds(calls) ==
    /\ Len(history) < MaxSuccesses /\ corpus = <<>>
    /\ history' = Append(history, calls)
    /\ UNCHANGED corpus

(* Rows of one plan were created by one transaction at one moment, and the    *)
(* hook sorts by that alone: they come in any order.                          *)
Shuffles(calls) == { f \in [DOMAIN calls -> DOMAIN calls] : IsInjective(f) }

Loads(calls) ==
    { [i \in DOMAIN calls |-> calls[f[i]]] : f \in
        { f \in Shuffles(calls) : \A i, j \in DOMAIN calls :
            i < j => calls[f[i]].plan <= calls[f[j]].plan } }

Newest == SubSeq(history, IF Len(history) > MinedTasks THEN Len(history) - MinedTasks + 1 ELSE 1,
                 Len(history))

(* The hook of the tick that completes a task; too few tasks are not mined.   *)
AutoMine ==
    /\ corpus = <<>> /\ Len(Newest) >= MinSupport
    /\ LET loads == [t \in DOMAIN Newest |-> Loads(Newest[t])]
       IN  corpus' \in { tasks \in [DOMAIN Newest -> UNION Range(loads)] :
                           \A t \in DOMAIN Newest : tasks[t] \in loads[t] }
    /\ UNCHANGED history

(* A request that brings the records with it, in the order they ran.          *)
MineRecords ==
    /\ corpus = <<>> /\ history # <<>>
    /\ corpus' = history
    /\ UNCHANGED history

MiningNext == (\E calls \in TaskRuns : TaskSucceeds(calls)) \/ AutoMine \/ MineRecords

MiningSpec == MiningInit /\ [][MiningNext]_miningVars

------------------------------------------------------------------------------
(* Every pipeline that enough tasks share, no longer than is looked for, is   *)
(* offered, by itself or as part of one that all of those tasks share: what is*)
(* dropped as a part of something longer is never the more frequent habit     *)
(* (mining.py:90).                                                            *)
Shared(p) == { t \in DOMAIN corpus : Within(p, Signatures(corpus[t])) }
HabitsAreOffered ==
    LET offers == Offers(corpus)
    IN  \A t \in DOMAIN corpus : \A n \in Max({LeastSteps, MinPattern})..MaxPattern :
        \A i \in StartsOf(corpus[t], n) :
            LET p == Window(Signatures(corpus[t]), i, n)
            IN  Cardinality(Shared(p)) >= MinSupport =>
                    \E offer \in offers :
                        Within(p, offer.pattern) /\ offer.supporters = Shared(p)

(* With the values that one of its tasks used, an offer is what that task     *)
(* did: no difference between the occurrences is lost, no parameter of one    *)
(* step is filled by another (proposal.py:66, 154).                           *)
OffersReplay ==
    \A offer \in Offers(corpus) : \A t \in offer.supporters :
        LET did == Occurrence(corpus[t], offer.pattern)
        IN  BindParameters(offer, did) = [i \in DOMAIN did |-> [tool |-> did[i].tool, args |-> did[i].args]]

(* What an offer puts first was planned no later than what it puts next: only *)
(* within one plan may the order differ from the one in which the calls ran   *)
(* (service.py:138).                                                          *)
OffersFollowPlans ==
    \A offer \in Offers(corpus) : \A t \in offer.supporters :
        LET did == Occurrence(corpus[t], offer.pattern)
        IN  \A i, j \in DOMAIN did : i < j => did[i].plan <= did[j].plan

(* Every habit that recurs is offered, itself or within a longer one; an offer,*)
(* its parameters bound, gives back each of its occurrences; and it follows the*)
(* order of the plans it was mined from (mine_patterns, parameterize).        *)
OffersAreHabits ==
    /\ HabitsAreOffered
    /\ OffersReplay
    /\ OffersFollowPlans
==============================================================================
