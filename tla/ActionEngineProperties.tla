----------------------- MODULE ActionEngineProperties -----------------------
(***************************************************************************)
(* What must hold of ActionEngine.  The hazards are a worker that outlives *)
(* its lease (a zombie), a transaction lost after its effect, a stream     *)
(* entry that is stale, duplicated or lost, and a decision taken on rows   *)
(* that have moved since they were read.                                   *)
(***************************************************************************)
EXTENDS ActionEngine

(* Every variable has its shape.                                            *)
TypeOK ==
    /\ row \in [Actions -> Row]
    /\ ledger \subseteq Actions /\ dead \subseteq Actions
    /\ stream \in Seq(Actions)
    /\ worker \in [Workers -> WorkerState]
    /\ \A w \in Workers : worker[w].pc # "idle" => worker[w].act \in Actions
    /\ sched \in [Schedulers -> SchedulerState]
    /\ effects \in [Actions -> Nat] /\ lost \in [Actions -> Nat]
    /\ faults \in [lapse : Nat, worker : Nat, scheduler : Nat, refusal : Nat, flush : Nat]

(* A row holds a lease and an owner exactly while it is RUNNING, whichever  *)
(* of claim, outcome, retry, reaper and dispatcher wrote it last: the       *)
(* reaper finds every running action and nothing else.  In particular a     *)
(* DISPATCHED row is never reapable.                                        *)
LeaseIffRunning ==
    \A a \in Actions :
        /\ row[a].status = "RUNNING" <=> row[a].lease # "none"
        /\ row[a].status = "RUNNING" <=> row[a].owner # NoWorker

(* A stored result belongs to a finished action: no path returns an action  *)
(* that has a result to the queue, so the worker's "reserved, and a result  *)
(* is already there" branch (worker.py:288) never has anything to replay.   *)
ResultMeansFinished ==
    \A a \in Actions : row[a].result => row[a].status \in Terminal

(* SUCCEEDED and UNVERIFIED are only ever recorded over the effect of some  *)
(* attempt that returned, even when the attempt that recorded it had lost   *)
(* its lease.                                                               *)
SuccessHasEffect ==
    \A a \in Actions : row[a].status \in {"SUCCEEDED", "UNVERIFIED"} => effects[a] > 0

(* What the ledger really buys a non-idempotent tool: however leases lapse  *)
(* and attempts overlap, its effect is repeated only after a transaction    *)
(* that had performed it was rolled back.                                   *)
RepeatedOnlyIfLost ==
    \A a \in NonIdempotent : effects[a] <= lost[a] + 1

(* Two attempts of a non-idempotent action never hold the reservation       *)
(* together, and none holds it once it is committed.                        *)
ReservationExclusive ==
    \A v, w \in Workers :
        worker[v].reserved =>
            /\ worker[v].act \notin ledger
            /\ (w # v /\ worker[w].reserved => worker[w].act # worker[v].act)

(* A snapshot a scheduler decides on may be stale, but not about what is    *)
(* finished: a dependency it saw end acceptably still has that status when  *)
(* the decision is written.                                                 *)
SnapshotTerminalStable ==
    \A s \in Schedulers : \A a \in Actions :
        sched[s].seen[a].status \in Terminal => row[a].status = sched[s].seen[a].status

(* An action that left PLANNED has all its dependencies acceptably ended.   *)
StartedAfterDependencies ==
    \A a \in Actions : row[a].status # "PLANNED" =>
        \A d \in Deps[a] : \/ row[d].status = "SUCCEEDED"
                           \/ row[d].status = "UNVERIFIED" /\ a \in Tolerant

(* A finished row is never written again (that a backoff ends is no write):  *)
(* neither a zombie's outcome, a stale stream entry nor a late reaper       *)
(* revises it.                                                              *)
OutcomeIsFinal ==
    [][\A a \in Actions : row[a].status \in Terminal =>
            [row'[a] EXCEPT !.backoff = FALSE] = [row[a] EXCEPT !.backoff = FALSE]]_vars

(* Without a repeated publication, a stream entry exists exactly for an     *)
(* action that waits to be claimed: at most one, and never a stale one.     *)
Entries(a) == {i \in 1..Len(stream) : stream[i] = a}
Carriers(a) ==
    Cardinality(Entries(a))
      + Cardinality({w \in Workers : worker[w].pc = "received" /\ worker[w].act = a})
      + Cardinality({s \in Schedulers : sched[s].pc = "publish" /\ a \in sched[s].outbox})

CarriedWhileDispatched ==
    \A a \in Actions : Carriers(a) = IF row[a].status = "DISPATCHED" THEN 1 ELSE 0

(* The dispatcher never puts more than max_parallel_actions of a task, or   *)
(* more of its actions on one actuator than the limit, in flight.           *)
TaskParallelismBounded ==
    \A t \in Tasks :
        LET flying == {a \in Actions : TaskOf[a] = t /\ row[a].status \in {"DISPATCHED", "RUNNING"}}
        IN /\ Cardinality(flying) <= MaxParallel
           /\ \A k \in Keys : Cardinality({a \in flying : KeyOf[a] = k}) <= KeyLimit[k]

(* Every action whose turn has come ends.                                   *)
ReadyEventuallyEnds ==
    \A a \in Actions : (row[a].status = "READY") ~> (row[a].status \in Terminal)

(* The engine implements the plan's promise.                                *)
PhaseOf(st) ==
    CASE st = "PLANNED"    -> "blocked"
      [] st = "SUCCEEDED"  -> "succeeded"
      [] st = "UNVERIFIED" -> "unverified"
      [] st = "FAILED"     -> "failed"
      [] OTHER             -> "open"

Plan == INSTANCE PlanExecution WITH phase <- [a \in Actions |-> PhaseOf(row[a].status)]

ImplementsPlan == Plan!Spec

-----------------------------------------------------------------------------
(* What the repository says and the code does not do.                       *)

(* docs/07 section 1: effects are exactly-once.  Refuted with one worker    *)
(* crash: the reservation dies with the transaction, the effect does not.   *)
ExactlyOnceEffects == \A a \in NonIdempotent : effects[a] <= 1

(* docs/07 section 3 and runtime/state.py: the transition table is          *)
(* exhaustive.  (A scheduler pass takes a row through two of its            *)
(* transitions in one transaction.)  Refuted with one scheduler crash.      *)
TableRows ==
    {<<"PLANNED", "READY">>, <<"READY", "DISPATCHED">>, <<"DISPATCHED", "RUNNING">>,
     <<"DISPATCHED", "READY">>, <<"RUNNING", "SUCCEEDED">>, <<"RUNNING", "UNVERIFIED">>,
     <<"RUNNING", "FAILED">>, <<"RUNNING", "READY">>}
OnlyTableTransitions ==
    [][\A a \in Actions :
        LET from == row[a].status
            to == row'[a].status
        IN \/ from = to \/ <<from, to>> \in TableRows
           \/ <<from, "READY">> \in TableRows /\ <<"READY", to>> \in TableRows]_vars

(* docs/07 section 7: max_retries bounds the attempts of an action.         *)
(* Refuted with one lapsed lease and two retries.                           *)
AttemptsBounded ==
    \A a \in Actions : row[a].attempt <= MaxRetries \/ row[a].attempt <= 1

(* docs/07 sections 5 and 10: one desktop, one browser, whatever the task.  *)
(* Refuted with two tasks that each have a desktop action.                  *)
ActuatorExclusive ==
    \A k \in Keys :
        Cardinality({a \in Actions : KeyOf[a] = k /\ row[a].status \in {"DISPATCHED", "RUNNING"}})
            <= KeyLimit[k]

(* runtime/reaper.py: the action of a worker that died is returned or failed *)
(* so that the DAG can continue.                                            *)
LapsedLeaseReclaimed ==
    \A a \in Actions : (row[a].lease = "lapsed") ~> (row[a].lease # "lapsed")

(* docs/07 sections 1 and 10: a worker is replaceable at any instant.       *)
(* Refuted with one worker crash before its claim: nobody reads the entry   *)
(* again.                                                                   *)
DispatchedIsTaken ==
    \A a \in Actions : (row[a].status = "DISPATCHED") ~> (row[a].status # "DISPATCHED")

(* What the rows themselves promise across every zombie, lapse and crash: they*)
(* keep their shape, a lease and an owner go with RUNNING and with nothing else*)
(* (cas_claim, extend_lease, cas_status), and a stored result belongs to an   *)
(* action nothing returns to the queue (_finish_failed, reap).                *)
RowsAreSound ==
    /\ TypeOK
    /\ LeaseIffRunning
    /\ ResultMeansFinished

(* What the rows say of the world: success is recorded over an effect that was*)
(* made, two attempts never hold one ledger reservation, and an effect the tool*)
(* cannot repeat is repeated only when the transaction that made it was lost  *)
(* (insert_ledger, _run_claimed).                                             *)
EffectsAreReal ==
    /\ SuccessHasEffect
    /\ ReservationExclusive
    /\ RepeatedOnlyIfLost

(* Deciding on rows read earlier is safe: what a tick saw end has the same end*)
(* when it writes, so nothing leaves PLANNED before all it depends on ended   *)
(* acceptably (ready_ids, promote_ready, cas_status).                         *)
DependenciesHold ==
    /\ StartedAfterDependencies
    /\ SnapshotTerminalStable

(* Without a lost message or a recovery every DISPATCHED action is carried by *)
(* exactly one entry, and the actions of a task in flight stay within its     *)
(* parallelism and its actuators' limits (enqueue_ready, ActionQueue.claim).  *)
DispatchIsBounded ==
    /\ CarriedWhileDispatched
    /\ TaskParallelismBounded
=============================================================================
