----------------------- MODULE TaskLifecycleProperties -----------------------
(* What the life of a task promises, and the slips of the code that would    *)
(* break each promise.                                                       *)
EXTENDS TaskLifecycle

(* The rows keep their shape, and a tick holds what it read of some tasks.    *)
TypeOK ==
    /\ task \in [Tasks -> TaskRow]
    /\ act \in [Actions -> ActionRow]
    /\ step \in [Actions -> {"PLANNED", "RUNNING", "SUCCEEDED", "FAILED"}]
    /\ \A s \in Schedulers : tick[s] # Idle =>
         /\ tick[s].tasks \subseteq Tasks
         /\ tick[s].task \in [Tasks -> TaskRow] /\ tick[s].act \in [Actions -> ActionRow]

(* A task reported SUCCEEDED has nothing outstanding and nothing failed: each *)
(* of its actions succeeded, or was unverified where the plan tolerates it,   *)
(* or was withdrawn by a replan; and the steps of the first two kinds say so  *)
(* (_complete_if_done on the rows as a tick read them earlier).               *)
SucceededMeansDone ==
    \A t \in Tasks : task[t].status = "SUCCEEDED" =>
        \A a \in Rows(t, act) :
            \/ Satisfied(act[a].status, a) /\ step[a] = "SUCCEEDED"
            \/ act[a].status = "CANCELLED" /\ act[a].code = "tool"

(* A human is asked only when the replan budget is spent and some failed      *)
(* action is still there to ask about.                                        *)
HumanAskedWhenSpent ==
    \A t \in Tasks : task[t].status = "NEEDS_HUMAN" =>
        /\ task[t].replans >= MaxReplans
        /\ \E a \in Rows(t, act) : act[a].status = "FAILED"

(* Under one scheduler every replan withdraws one failed action and appends   *)
(* one repair: the budget counts the repairs exactly.                         *)
Withdrawn(t) == {a \in Rows(t, act) : act[a].status = "CANCELLED" /\ act[a].code = "tool"}
EachReplanRepairsOne ==
    Cardinality(Schedulers) = 1 =>
        \A t \in Tasks :
            /\ Cardinality(Rows(t, act) \cap Spare[t]) = task[t].replans
            /\ Cardinality(Withdrawn(t)) = task[t].replans

(* Work never starts under a task that ended, unless its deadline ended it:   *)
(* nothing recalls what a task that ran out of time had dispatched.           *)
OnlyDeadlineLeavesWork ==
    [][\A a \in Actions : (act[a].status # "RUNNING" /\ act'[a].status = "RUNNING") =>
          \/ task[TaskOf[a]].status \in Runnable \cup {"NEEDS_HUMAN"}
          \/ task[TaskOf[a]].status = "FAILED" /\ task[TaskOf[a]].late]_vars

(* An ended task stays ended, and an ended action changes only when a replan  *)
(* withdraws it: a tick that decided on rows read earlier, an answer or a     *)
(* worker that returns late never revive anything.                            *)
EndsAreFinal ==
    [][/\ \A t \in Tasks : task[t].status \in TaskEnded => task'[t].status = task[t].status
       /\ \A a \in Actions : act[a].status \in Ended =>
            \/ act'[a].status = act[a].status
            \/ /\ act[a].status = "FAILED" /\ act'[a].status = "CANCELLED"
               /\ task'[TaskOf[a]].replans > task[TaskOf[a]].replans]_vars

(* A task in the scheduler's hands comes to rest, even if the replanner of    *)
(* another task raises at every tick and takes the whole transaction with it: *)
(* deadlines are checked before the replanner is called.                      *)
TasksComeToRest ==
    \A t \in Tasks : task[t].status \in Runnable ~>
                     task[t].status \in TaskEnded \cup {"NEEDS_HUMAN"}

(* scheduler.py:234 says RUNNING becomes WAITING_FOR_USER "only when nothing  *)
(* else can proceed".  An approval granted after the tick read the rows       *)
(* resumes nothing, since the task is still RUNNING, and the tick then blocks *)
(* the task over the action that was just released.                           *)
BlockedOnlyWhenNothingProceeds ==
    \A t \in Tasks : task[t].status = "WAITING_FOR_USER" =>
        \A a \in Rows(t, act) : act[a].status \notin {"READY", "DISPATCHED", "RUNNING"}

(* A task's row agrees with the rows of its actions, although the tick that   *)
(* wrote it decided on rows read earlier: success over finished work only, a  *)
(* human asked only when the budget is spent over a failure, and one repair and*)
(* one withdrawal per replan counted (_complete_if_done, _replan_or_escalate).*)
TasksAreSound ==
    /\ TypeOK
    /\ SucceededMeansDone
    /\ HumanAskedWhenSpent
    /\ EachReplanRepairsOne

(* An end is an end: no stale tick, answer, reply or worker revives a task or an*)
(* action that ended, and only a deadline leaves an ended task with work that *)
(* still starts (_enforce_deadline, cas_task_status).                         *)
TasksEndOnce ==
    /\ EndsAreFinal
    /\ OnlyDeadlineLeavesWork
=============================================================================
