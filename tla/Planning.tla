------------------------------ MODULE Planning -------------------------------
(* From a request to rows: the planner's answers, the check and the           *)
(* classification of a plan, its rows, and the plans that overlapping ticks   *)
(* of the scheduler append when an action has failed.                         *)
(*   src/vyomel/orchestrator/plans.py, planning.py, replanning.py,            *)
(*   src/vyomel/planner/decompose.py, src/vyomel/runtime/dag.py               *)
EXTENDS Integers, FiniteSets, SequencesExt

CONSTANTS
    Aliases,       \* the actions of a document, numbered in its order
    StepOfAlias,   \* the step each is in
    Sketches,      \* the documents asked for as dry runs
    Drafts,        \* those asked for in earnest, by the user or the planner
    Repairs,       \* those a replan answers with
    CallLevel,     \* base level of each call; 5: no such tool, bad parameters
    PlanCeiling,
    PlanTicks,     \* schedulers, which overlap when one outlives its lease
    MaxRepairs,
    NoDocument

VARIABLES
    plan,          \* the committed task: how it came to be, its version, its rows
    asked,         \* the request under way
    repair,        \* repair[s]: what the tick read and has not committed
    overlaps       \* replans committed over another that was not read

planVars == <<plan, asked, repair, overlaps>>

PlanSteps == { StepOfAlias[a] : a \in Aliases }

PlanDocuments ==
    [after : [PlanSteps -> SUBSET PlanSteps], needs : [Aliases -> SUBSET (Aliases \cup {0})],
     calls : [Aliases -> DOMAIN CallLevel]]

(* Steps are numbered in the order of the document, and none is without an    *)
(* action.                                                                    *)
ASSUME PlanningAssumption ==
    /\ IsFiniteSet(Aliases) /\ Aliases = 1..Cardinality(Aliases)
    /\ PlanSteps = 1..Cardinality(PlanSteps) /\ StepOfAlias = [a \in Aliases |-> StepOfAlias[a]]
    /\ Sketches \cup Drafts \cup Repairs \subseteq PlanDocuments /\ NoDocument \notin PlanDocuments
    /\ CallLevel \in [DOMAIN CallLevel -> 0..5]
    /\ PlanCeiling \in Nat /\ MaxRepairs \in Nat

SchemaTries == 3
Untracked == [stage |-> "none"]

------------------------------------------------------------------------------
(* A document: `after` of a step, `needs` and `calls` of an action; 0 is an   *)
(* action that the document does not have.                                    *)

(* Named dependencies win over those that the step implies.                   *)
DependsOn(doc, a) ==
    IF doc.needs[a] # {} THEN doc.needs[a]
    ELSE { b \in Aliases : StepOfAlias[b] \in doc.after[StepOfAlias[a]] }

Dangling(doc) == \E a \in Aliases : 0 \in doc.needs[a]

(* Kahn's algorithm: the queue, the open dependencies of what is not in it    *)
(* yet, and the order in which it was emptied.                                *)
InOrder(S) ==
    CHOOSE s \in [1..Cardinality(S) -> S] :
        Range(s) = S /\ \A i, j \in DOMAIN s : i < j => s[i] < s[j]

Unreleased(doc) ==
    LET open == [a \in Aliases |-> DependsOn(doc, a)]
    IN  [queue |-> InOrder({ a \in Aliases : open[a] = {} }), open |-> open, order |-> <<>>]

Release(state) ==
    IF state.queue = <<>> THEN state
    ELSE LET current == Head(state.queue)
             open == [a \in Aliases |-> state.open[a] \ {current}]
             freed == { a \in Aliases : state.open[a] = {current} }
         IN  [queue |-> Tail(state.queue) \o InOrder(freed), open |-> open,
              order |-> Append(state.order, current)]

Kahn(doc) ==
    LET run[n \in 0..Cardinality(Aliases)] ==
            IF n = 0 THEN Unreleased(doc) ELSE Release(run[n - 1])
    IN  run[Cardinality(Aliases)].order

ValidAcyclic(doc) ==
    /\ \A a \in Aliases : a \notin DependsOn(doc, a)
    /\ Len(Kahn(doc)) = Cardinality(Aliases)

ReverseTopo(doc) == Reverse(Kahn(doc))

------------------------------------------------------------------------------
(* The rows of a document.                                                    *)

Tainted(level) == IF level + 1 > 4 THEN 4 ELSE IF level + 1 < 2 THEN 2 ELSE level + 1
RowLevel(call, trusted) == IF trusted THEN CallLevel[call] ELSE Tainted(CallLevel[call])

\* The key leaves the step out.
BugKeyPerPlan(doc, install, version, a) == <<doc.calls[a], 0, 0, version>>

(* Step identifiers are new in every installation.                            *)
RowKey(doc, install, version, a) == <<doc.calls[a], install, StepOfAlias[a], version>>

RowsOf(doc, trusted, install, version, ordinal) ==
    { [id |-> <<install, a>>, needs |-> { <<install, b>> : b \in DependsOn(doc, a) },
       ordinal |-> ordinal + StepOfAlias[a], version |-> version,
       level |-> RowLevel(doc.calls[a], trusted),
       key |-> RowKey(doc, install, version, a)] : a \in Aliases }

(* What _materialize raises for, and then the database: actions with one key, *)
(* a step that depends on itself.                                             *)
Invalid(doc, trusted) ==
    \/ Dangling(doc) \/ ~ValidAcyclic(doc)
    \/ \E a \in Aliases : \/ CallLevel[doc.calls[a]] = 5
                          \/ RowLevel(doc.calls[a], trusted) > PlanCeiling
Conflicts(doc, install, version) ==
    \/ \E a, b \in Aliases : a # b /\ RowKey(doc, install, version, a) = RowKey(doc, install, version, b)
    \/ \E s \in PlanSteps : s \in doc.after[s]

PlanVerdict(doc, trusted, install, version) ==
    CASE Invalid(doc, trusted) -> "invalid"
      [] ~Invalid(doc, trusted) /\ Conflicts(doc, install, version) -> "conflict"
      [] OTHER -> "installed"

------------------------------------------------------------------------------
NoPlan == [status |-> "none", version |-> 0, replans |-> 0, installs |-> 0, rows |-> {}]

PlanningInit ==
    /\ plan = NoPlan
    /\ asked = [stage |-> "idle", tries |-> 0, document |-> NoDocument, verdict |-> "none"]
    /\ repair = [s \in PlanTicks |-> Untracked]
    /\ overlaps = 0

(* The task's row and the plan are one transaction: a plan that is refused    *)
(* takes the row with it, the FAILED that was written to it included.         *)
EndRequest(doc, trusted, dry) ==
    /\ asked' = [asked EXCEPT !.stage = "ended", !.document = doc,
                                  !.verdict = PlanVerdict(doc, trusted, 1, 1)]
    /\ plan' = IF PlanVerdict(doc, trusted, 1, 1) # "installed" THEN NoPlan
               ELSE [status |-> IF dry THEN "PLANNING" ELSE "RUNNING", version |-> 1, replans |-> 0,
                     installs |-> 1, rows |-> RowsOf(doc, trusted, 1, 1, 0)]
    /\ UNCHANGED <<repair, overlaps>>

SubmitPlan ==
    /\ asked.stage = "idle"
    /\ \/ \E doc \in Sketches : EndRequest(doc, TRUE, TRUE)
       \/ \E doc \in Drafts : EndRequest(doc, TRUE, FALSE)

Instruct ==
    /\ asked.stage = "idle"
    /\ asked' = [asked EXCEPT !.stage = "asking"]
    /\ UNCHANGED <<plan, repair, overlaps>>

(* The planner is offered what is under the ceiling before it is tainted; the *)
(* answers of the mock planner are trusted.                                   *)
Offered(doc) == \A a \in Aliases : CallLevel[doc.calls[a]] <= PlanCeiling

PlannerAnswers(doc, mock, dry) ==
    /\ asked.stage = "asking" /\ Offered(doc)
    /\ EndRequest(doc, mock, dry)

(* Not JSON or not a plan: asked again.  Another tool, no answer at all, or a *)
(* plan beyond the token budget ends the request.                           *)
PlannerFails ==
    /\ asked.stage = "asking"
    /\ asked' = [asked EXCEPT
            !.tries = @ + 1, !.stage = IF asked.tries + 1 < SchemaTries THEN "asking" ELSE "ended"]
    /\ UNCHANGED <<plan, repair, overlaps>>

PlannerRaises ==
    /\ asked.stage = "asking"
    /\ asked' = [asked EXCEPT !.stage = "ended"]
    /\ UNCHANGED <<plan, repair, overlaps>>

InstalledSteps == Cardinality({ <<r.ordinal, r.id[1]>> : r \in plan.rows })

(* A tick finds a failed action, and asks the planner within its transaction. *)
ReadForRepair(s) ==
    /\ plan.status = "RUNNING" /\ plan.replans < MaxRepairs /\ repair[s] = Untracked
    /\ repair' = [repair EXCEPT ![s] =
            [stage |-> "asking", version |-> plan.version, replans |-> plan.replans,
             steps |-> InstalledSteps]]
    /\ UNCHANGED <<plan, asked, overlaps>>

Counted(seen) == seen.replans + 1

(* The version and the count are those of the tick's own read.  The steps are *)
(* counted after the planner has answered: another tick's are among them if   *)
(* it was that tick's lock on the failed action that this one waited for.     *)
AppendRepair(s, doc, mock, ordinal) ==
    LET seen == repair[s]
        install == plan.installs + 1
    IN  /\ seen # Untracked /\ Offered(doc) /\ ordinal \in {seen.steps, InstalledSteps}
        /\ PlanVerdict(doc, mock, install, seen.version + 1) = "installed"
        /\ plan' = [plan EXCEPT
                !.version = seen.version + 1, !.replans = Counted(seen), !.installs = install,
                !.rows = @ \cup RowsOf(doc, mock, install, seen.version + 1, ordinal)]
        /\ overlaps' = IF plan.version = seen.version THEN overlaps ELSE overlaps + 1
        /\ repair' = [repair EXCEPT ![s] = Untracked]
        /\ UNCHANGED asked

RepairFails(s) ==
    /\ repair[s] # Untracked
    /\ repair' = [repair EXCEPT ![s] = Untracked]
    /\ UNCHANGED <<plan, asked, overlaps>>

PlanningNext ==
    \/ SubmitPlan \/ Instruct \/ PlannerFails \/ PlannerRaises
    \/ \E doc \in Drafts, mock, dry \in BOOLEAN : PlannerAnswers(doc, mock, dry)
    \/ \E s \in PlanTicks :
         \/ ReadForRepair(s) \/ RepairFails(s)
         \/ \E doc \in Repairs, mock \in BOOLEAN, ordinal \in 0..InstalledSteps :
                AppendRepair(s, doc, mock, ordinal)

PlanningSpec == PlanningInit /\ [][PlanningNext]_planVars

------------------------------------------------------------------------------
(* What is refused for its shape has a part that waits for itself, and what   *)
(* is not has none (dag.py:39), whichever step or action states a dependency. *)
Circular(doc) ==
    \E S \in (SUBSET Aliases) \ {{}} : \A a \in S : DependsOn(doc, a) \cap S # {}
ValidatesExactly ==
    asked.document # NoDocument /\ ~Dangling(asked.document) =>
        (ValidAcyclic(asked.document) <=> ~Circular(asked.document))

(* Whatever was installed, replans included, can be carried to its end: as    *)
(* long as what is ready succeeds, everything becomes ready (dag.py:76).      *)
InstalledPlansEnd ==
    LET f[n \in 0..Cardinality(plan.rows)] ==
            IF n = 0 THEN {}
            ELSE LET done == f[n - 1]
                 IN  { r.id : r \in { q \in plan.rows : q.needs \subseteq done } }
    IN  f[Cardinality(plan.rows)] = { r.id : r \in plan.rows }

(* The order of compensation has every action of a plan once, and none before *)
(* an action that depends on it (dag.py:93).                                  *)
UndoOrderIsWhole ==
    asked.verdict = "installed" =>
        LET order == ReverseTopo(asked.document)
        IN  /\ ToSet(order) = Aliases /\ Len(order) = Cardinality(Aliases)
            /\ \A i, j \in DOMAIN order :
                   order[i] \in DependsOn(asked.document, order[j]) => j < i

(* The database turns down only a plan one step of which makes the same call  *)
(* twice or depends on itself: the same call in two steps, or again after a   *)
(* replan, is another logical action (core/ids.py:53).                        *)
OnlyTwinsConflict ==
    asked.verdict = "conflict" =>
        \/ \E a, b \in Aliases :
               /\ a # b /\ StepOfAlias[a] = StepOfAlias[b]
               /\ asked.document.calls[a] = asked.document.calls[b]
        \/ \E s \in PlanSteps : s \in asked.document.after[s]

(* A task that exists has a version and all rows of its document; a request *)
(* that failed anywhere leaves nothing.                                       *)
AllOrNothing ==
    /\ plan.status # "none" => plan.version >= 1 /\ asked.verdict = "installed"
    /\ Cardinality(plan.rows) = plan.installs * Cardinality(Aliases)

(* Replans stay within their budget, and every plan of a task has its own     *)
(* number and its own places in the order, while no ticks overlap. A tick     *)
(* that commits late sets the count back to one more than it read, so each    *)
(* overlap can give back a whole budget, and no more.                         *)
RepairsWithinBudget ==
    /\ plan.installs <= 1 + MaxRepairs * (1 + overlaps)
    /\ overlaps = 0 => \A q, r \in plan.rows :
            (q.ordinal = r.ordinal \/ q.version = r.version) =>
                q.id[1] = r.id[1]

(* Validation accepts exactly the plans that can finish; an installation leaves*)
(* all of a plan or nothing; what is installed ends and can be undone in order;*)
(* only twins of one step collide; and repairs stay within one budget, and one*)
(* more for each overlap of ticks (validate_acyclic, install_plan, replan).   *)
PlansAreSound ==
    /\ ValidatesExactly
    /\ InstalledPlansEnd
    /\ UndoOrderIsWhole
    /\ OnlyTwinsConflict
    /\ AllOrNothing
    /\ RepairsWithinBudget
==============================================================================
