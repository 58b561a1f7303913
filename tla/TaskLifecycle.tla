---------------------------- MODULE TaskLifecycle ----------------------------
(* The life of tasks: submission, the scheduler's tick of every runnable     *)
(* task in one transaction, approvals, human replies, replanning, deadlines  *)
(* and the first transaction of a cancellation.  Workers, the gate and the   *)
(* queue appear only through what they do to a row; ActionEngine and         *)
(* ApprovalGate model them in full.                                          *)
(* A tick reads the rows, decides, and writes with compare-and-set updates   *)
(* that are evaluated when it commits; requests and workers move in between. *)
EXTENDS Naturals, FiniteSets

CONSTANTS
    Tasks, Actions, Schedulers,
    TaskOf,      \* TaskOf[a]: the task of a
    Deps,        \* Deps[a]: the actions a depends on
    Spare,       \* Spare[t]: the actions replans of t may append, none when
                 \* the scheduler has no replanner (NullReplanGate)
    Tolerant,    \* the actions of steps that tolerate UNVERIFIED
    VerdictOf,   \* VerdictOf[a]: what the policy says of a, before any grant
    MaxReplans, MaxRetries

ASSUME TaskLifecycleAssumption ==
    /\ TaskOf \in [Actions -> Tasks]
    /\ Deps \in [Actions -> SUBSET Actions]
    /\ Spare \in [Tasks -> SUBSET Actions]
    /\ \A t \in Tasks : \A a \in Spare[t] : TaskOf[a] = t
    /\ VerdictOf \in [Actions -> {"allow", "confirm", "deny"}]
    /\ MaxReplans \in Nat /\ MaxRetries \in Nat
    /\ \A t \in Tasks : Spare[t] = {} \/ Cardinality(Spare[t]) >= MaxReplans

VARIABLES
    task,   \* the rows of tasks; "asked" and "late" are the client and the clock
    act,    \* the rows of actions
    step,   \* step[a]: the status of a's step (one action per step)
    tick    \* what each scheduler read, between its read and its commit

vars == <<task, act, step, tick>>

TaskStatus == {"ABSENT", "PLANNING", "READY", "RUNNING", "WAITING_FOR_USER",
               "NEEDS_HUMAN", "SUCCEEDED", "FAILED", "CANCELLED"}
ActionStatus == {"ABSENT", "PLANNED", "READY", "WAITING_FOR_USER", "DISPATCHED",
                 "RUNNING", "SUCCEEDED", "UNVERIFIED", "FAILED", "CANCELLED"}
Code == {"none", "tool", "verification", "denied"}
TaskEnded == {"SUCCEEDED", "FAILED", "CANCELLED"}
Ended == {"SUCCEEDED", "UNVERIFIED", "FAILED", "CANCELLED"}
Runnable == {"READY", "RUNNING", "WAITING_FOR_USER"}

TaskRow == [status : TaskStatus, asked : BOOLEAN, late : BOOLEAN, replans : Nat]
ActionRow == [status : ActionStatus, code : Code, granted : BOOLEAN, tries : 0..MaxRetries]

Of(t) == {a \in Actions : TaskOf[a] = t}
Rows(t, rows) == {a \in Of(t) : rows[a].status # "ABSENT"}
Idle == [tasks |-> {}]

Init ==
    /\ task = [t \in Tasks |->
                 [status |-> "ABSENT", asked |-> FALSE, late |-> FALSE, replans |-> 0]]
    /\ act = [a \in Actions |->
                [status |-> "ABSENT", code |-> "none", granted |-> FALSE, tries |-> 0]]
    /\ step = [a \in Actions |-> "PLANNED"]
    /\ tick = [s \in Schedulers |-> Idle]

-----------------------------------------------------------------------------
(* Requests: each is one transaction. *)

Install(t, status) ==
    /\ task' = [task EXCEPT ![t].status = status, ![t].asked = TRUE]
    /\ act' = [a \in Actions |-> IF a \in Of(t) \ Spare[t]
                                 THEN [act[a] EXCEPT !.status = "PLANNED"] ELSE act[a]]
    /\ UNCHANGED <<step, tick>>

(* The row is created, planned and installed in one transaction; a dry run   *)
(* stops in PLANNING, and a planner or a plan that fails rolls all of it back. *)
Submit(t) ==
    /\ ~task[t].asked
    /\ \/ Install(t, "READY")
       \/ Install(t, "PLANNING")
       \/ task' = [task EXCEPT ![t].asked = TRUE] /\ UNCHANGED <<act, step, tick>>

Reply(t) ==
    /\ task[t].status = "NEEDS_HUMAN"
    /\ task' = [task EXCEPT ![t].status = "RUNNING"]
    /\ UNCHANGED <<act, step, tick>>

NotStarted == {"PLANNED", "READY", "DISPATCHED", "WAITING_FOR_USER"}

Cancel(t) ==
    /\ task[t].status \notin TaskEnded \cup {"ABSENT"}
    /\ task' = [task EXCEPT ![t].status = "CANCELLED"]
    /\ act' = [a \in Actions |-> IF a \in Of(t) /\ act[a].status \in NotStarted
                                 THEN [act[a] EXCEPT !.status = "CANCELLED"] ELSE act[a]]
    /\ UNCHANGED <<step, tick>>

Resumed(t) == IF task[t].status = "WAITING_FOR_USER"
              THEN [task EXCEPT ![t].status = "RUNNING"] ELSE task

Grant(a) ==
    /\ act[a].status = "WAITING_FOR_USER"
    /\ act' = [act EXCEPT ![a].status = "READY", ![a].granted = TRUE]
    /\ task' = Resumed(TaskOf[a])
    /\ UNCHANGED <<step, tick>>

(* A rejection, and an approval nobody answers: the action fails, and with it *)
(* a task that was waiting for nothing else.                                  *)
FailedIfBlocked(t) ==
    IF /\ task[t].status = "WAITING_FOR_USER"
       /\ \A b \in Rows(t, act) : act'[b].status \in Ended
    THEN [task EXCEPT ![t].status = "FAILED"] ELSE task

Refuse(a) ==
    /\ act[a].status = "WAITING_FOR_USER"
    /\ act' = [act EXCEPT ![a].status = "FAILED", ![a].code = "denied"]
    /\ task' = FailedIfBlocked(TaskOf[a])
    /\ UNCHANGED <<step, tick>>

DeadlinePasses(t) ==
    /\ task[t].status # "ABSENT" /\ ~task[t].late
    /\ task' = [task EXCEPT ![t].late = TRUE]
    /\ UNCHANGED <<act, step, tick>>

-----------------------------------------------------------------------------
(* Workers, reduced to the statuses they write. *)

WorkerTakes(a) ==
    /\ act[a].status = "DISPATCHED"
    /\ act' = [act EXCEPT ![a].status =
                 IF task[TaskOf[a]].status = "CANCELLED" THEN "CANCELLED" ELSE "RUNNING"]
    /\ UNCHANGED <<task, step, tick>>

(* An approval covers one try: a retry asks again.                            *)
Outcome(a) ==
    {[act[a] EXCEPT !.status = "SUCCEEDED"], [act[a] EXCEPT !.status = "UNVERIFIED"]}
    \cup {[act[a] EXCEPT !.status = "FAILED", !.code = c] : c \in {"tool", "verification"}}
    \cup {[act[a] EXCEPT !.status = "READY", !.tries = n, !.granted = FALSE] :
             n \in {act[a].tries + 1} \cap (0..MaxRetries)}
    \cup {[act[a] EXCEPT !.status = "CANCELLED"] :
             t \in {TaskOf[a]} \cap {u \in Tasks : task[u].status = "CANCELLED"}}

WorkerReturns(a) ==
    /\ act[a].status = "RUNNING"
    /\ \E row \in Outcome(a) : act' = [act EXCEPT ![a] = row]
    /\ UNCHANGED <<task, step, tick>>

-----------------------------------------------------------------------------
(* The tick.  db is the row when the transaction writes, mem the session's   *)
(* copy.  The object mapper evaluates an update's condition on the copy, so   *)
(* an update that matches no row still moves the copy.                        *)

BugUnguarded(p, from, to) ==
    IF p.mem # from THEN p ELSE [db |-> to, mem |-> to]

Cas(p, from, to) ==
    IF p.mem # from THEN p
    ELSE [db |-> IF p.db = from THEN to ELSE p.db, mem |-> to]

Satisfied(status, a) ==
    status = "SUCCEEDED" \/ (status = "UNVERIFIED" /\ a \in Tolerant)

Promoted(q, a) ==
    IF \A d \in Deps[a] : Satisfied(q[d].mem, a)
    THEN Cas(q[a], "PLANNED", "READY") ELSE q[a]

Judged(a) == CASE act[a].granted \/ VerdictOf[a] = "allow" -> "DISPATCHED"
               [] ~act[a].granted /\ VerdictOf[a] = "confirm" -> "WAITING_FOR_USER"
               [] ~act[a].granted /\ VerdictOf[a] = "deny" -> "FAILED"

StepAfter(a, status, old) ==
    CASE status = "RUNNING" -> "RUNNING"
      [] Satisfied(status, a) -> "SUCCEEDED"
      [] status \in Ended /\ ~Satisfied(status, a) -> "FAILED"
      [] OTHER -> old

Spent(t, seen) == seen.task[t].replans >= MaxReplans

(* An action the copy saw fail in this very tick was denied by the policy.    *)
Replannable(t, seen, failed) ==
    /\ ~Spent(t, seen) /\ Spare[t] # {}
    /\ seen.act[failed].status = "FAILED"
    /\ seen.act[failed].code \notin {"verification", "denied"}

(* What a tick may leave of task t: a set, because the failed action that the *)
(* replanner is shown first is in no defined order.                           *)
Left(t, status, q) ==
    [status |-> status, replans |-> task[t].replans, replanned |-> FALSE,
     act |-> [a \in Of(t) |-> [act[a] EXCEPT
                !.status = q[a].db,
                !.code = IF q[a].db = "FAILED" /\ act[a].status # "FAILED"
                         THEN "denied" ELSE act[a].code]]]

Withdraw(status) == IF status = "FAILED" THEN "CANCELLED" ELSE status

Repaired(t, left, seen, failed) ==
    {[left EXCEPT !.replans = seen.task[t].replans + 1, !.replanned = TRUE,
                  !.act[failed].status = Withdraw(@),
                  !.act[new].status = "PLANNED"] :
        new \in {b \in Spare[t] : act[b].status = "ABSENT"}}

Outstanding(status) == status \notin Ended

BugTolerantOnly(a, status) == status = "UNVERIFIED" /\ a \in Tolerant
Unproven(a, status) == status = "UNVERIFIED" /\ a \notin Tolerant

Completed(t, p, q, seen) ==
    LET here == Rows(t, seen.act)
        failed == {a \in here : q[a].mem = "FAILED"}
        ends(to) == Left(t, Cas(p, "RUNNING", to).db, q)
    IN  IF \/ p.mem # "RUNNING"
           \/ \E a \in here : Outstanding(q[a].mem)
        THEN {Left(t, p.db, q)}
        ELSE IF failed # {}
        THEN UNION {IF Replannable(t, seen, a)
                    THEN Repaired(t, Left(t, p.db, q), seen, a)
                    ELSE {ends(IF Spent(t, seen)
                               THEN "NEEDS_HUMAN" ELSE "FAILED")} : a \in failed}
        ELSE {ends(IF \E a \in here : Unproven(a, q[a].mem) THEN "FAILED" ELSE "SUCCEEDED")}

Blocked(p, q, here) ==
    LET live == {a \in here : q[a].mem \notin Ended}
    IN  IF live # {} /\ \A a \in live : q[a].mem = "WAITING_FOR_USER"
        THEN Cas(p, "RUNNING", "WAITING_FOR_USER") ELSE p

BugOverdue(t, status) == task[t].late /\ status = "READY"
Overdue(t, status) == task[t].late /\ status \in {"READY", "RUNNING"}

(* _tick_task: deadline, resume, promote, judge and dispatch, start, block,  *)
(* complete, in this order, every one on the copies read by TickRead.        *)
Ticked(t, seen) ==
    LET here == Rows(t, seen.act)
        p0 == [db |-> task[t].status, mem |-> seen.task[t].status]
        q0 == [a \in Of(t) |-> [db |-> act[a].status, mem |-> seen.act[a].status]]
        p1 == IF \A a \in here : q0[a].mem # "WAITING_FOR_USER"
              THEN Cas(p0, "WAITING_FOR_USER", "RUNNING") ELSE p0
        q1 == [a \in Of(t) |-> Promoted(q0, a)]
        q2 == [a \in Of(t) |-> Cas(q1[a], "READY", Judged(a))]
        p2 == IF \E a \in here : q2[a].mem \notin {"PLANNED", "READY"}
              THEN Cas(p1, "READY", "RUNNING") ELSE p1
        synced == [a \in Of(t) |-> IF a \in here
                           THEN StepAfter(a, q2[a].mem, step[a]) ELSE step[a]]
    IN  IF Overdue(t, p0.mem)
        THEN {[left |-> Left(t, Cas(p0, p0.mem, "FAILED").db, q0),
               step |-> [a \in Of(t) |-> step[a]]]}
        ELSE IF here = {} \/ p1.mem = "WAITING_FOR_USER"
        THEN {[left |-> Left(t, p1.db, q0), step |-> [a \in Of(t) |-> step[a]]]}
        ELSE {[left |-> r, step |-> synced] :
                r \in Completed(t, Blocked(p2, q2, here), q2, seen)}

TickRead(s) ==
    /\ tick[s] = Idle
    /\ tick' = [tick EXCEPT ![s] =
                  [tasks |-> {t \in Tasks : task[t].status \in Runnable},
                   task |-> task, act |-> act]]
    /\ tick'[s].tasks # {}
    /\ UNCHANGED <<task, act, step>>

TickCommit(s) ==
    /\ tick[s].tasks # {}
    /\ \E r \in [tick[s].tasks -> UNION {Ticked(t, tick[s]) : t \in tick[s].tasks}] :
        /\ \A t \in tick[s].tasks : r[t] \in Ticked(t, tick[s])
        /\ task' = [t \in Tasks |-> IF t \in tick[s].tasks
                       THEN [task[t] EXCEPT !.status = r[t].left.status,
                                            !.replans = r[t].left.replans]
                       ELSE task[t]]
        /\ act' = [a \in Actions |-> IF TaskOf[a] \in tick[s].tasks
                      THEN r[TaskOf[a]].left.act[a] ELSE act[a]]
        /\ step' = [a \in Actions |-> IF TaskOf[a] \in tick[s].tasks
                      THEN r[TaskOf[a]].step[a] ELSE step[a]]
    /\ tick' = [tick EXCEPT ![s] = Idle]

(* The replanner calls a language model inside the transaction: when it      *)
(* raises, what the tick did to every task is rolled back.                   *)
TickAborts(s) ==
    /\ \E t \in tick[s].tasks : \E r \in Ticked(t, tick[s]) : r.left.replanned
    /\ tick' = [tick EXCEPT ![s] = Idle]
    /\ UNCHANGED <<task, act, step>>

-----------------------------------------------------------------------------
Scheduler(s) == TickRead(s) \/ TickCommit(s) \/ TickAborts(s)
Client(t) == Submit(t) \/ Reply(t) \/ Cancel(t)
Worker(a) == WorkerTakes(a) \/ WorkerReturns(a)
Answer(a) == Grant(a) \/ Refuse(a)

Next ==
    \/ \E s \in Schedulers : Scheduler(s)
    \/ \E t \in Tasks : Client(t) \/ DeadlinePasses(t)
    \/ \E a \in Actions : Worker(a) \/ Answer(a)

Spec == Init /\ [][Next]_vars

(* A step that ends a tick: its commit or its abort. *)
TickEnds(s) == tick[s] # Idle /\ tick' = [tick EXCEPT ![s] = Idle]

(* The scheduler loops, workers poll, an unanswered approval expires, and    *)
(* clocks advance.  Nobody must submit, reply or cancel, and the replanner   *)
(* may raise for ever.                                                       *)
FairSpec ==
    /\ Spec
    /\ \A s \in Schedulers : WF_vars(TickRead(s)) /\ WF_tick(TickEnds(s))
    /\ \A t \in Tasks : WF_vars(DeadlinePasses(t))
    /\ \A a \in Actions : WF_vars(Worker(a)) /\ WF_vars(Refuse(a))
=============================================================================
