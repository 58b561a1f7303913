---------------------------- MODULE ActionEngine ----------------------------
(***************************************************************************)
(* The durable execution core of Vyomel: rows of the `actions` table, the  *)
(* Redis stream that carries action ids to workers, workers that claim and *)
(* execute them, the side-effect ledger, the lease reaper and the          *)
(* scheduler's tick and recovery (src/vyomel/runtime, store/repos.py).     *)
(*                                                                         *)
(* One action of this module is one committed database transaction, one    *)
(* Redis command, one external effect of a tool, or the death of a         *)
(* process.  A transaction that reads, decides and later writes is split   *)
(* into its read and its commit: PostgreSQL runs at READ COMMITTED, and    *)
(* what protects a write is the status its UPDATE ... WHERE expects.       *)
(*                                                                         *)
(* Time is abstracted to two facts about a row: its lease is "held" or     *)
(* "lapsed", and its backoff (available_at) is still running or not.       *)
(* Every task stays runnable here and the policy gate allows every action. *)
(***************************************************************************)
EXTENDS Naturals, Sequences, FiniteSets

CONSTANTS
    Actions,        \* action ids; ULIDs, so ordered: a finite set of naturals
    Tasks, TaskOf,  \* the task an action belongs to
    Deps,           \* depends_on
    Tolerant,       \* actions whose step declares tolerates_unverified
    NonIdempotent,  \* actions whose tool is not idempotent
    Keys, KeyOf, KeyLimit, NoKey,  \* per-actuator concurrency keys
    MaxParallel,    \* settings.max_parallel_actions
    MaxRetries,     \* actions.max_retries
    Workers, NoWorker,
    Schedulers,
    Embedded,       \* TRUE: run_forever, which survives a failing tick;
                    \* FALSE: run_scheduler, which exits on one
    CrashPoints,    \* worker program points at which a run lets a worker die
    MaxLapses,      \* bound: leases that lapse under a live owner
    MaxWorkerCrashes, MaxSchedulerCrashes,
    MaxRefusals, MaxFlushes   \* bounds on faults of processes and of Redis

ASSUME ActionsAssumption == Actions \subseteq Nat /\ IsFiniteSet(Actions)
ASSUME PlanAssumption ==
    /\ TaskOf \in [Actions -> Tasks]
    /\ Deps \in [Actions -> SUBSET Actions]
    /\ Tolerant \subseteq Actions /\ NonIdempotent \subseteq Actions
ASSUME LimitAssumption ==
    /\ KeyOf \in [Actions -> Keys \cup {NoKey}] /\ NoKey \notin Keys
    /\ KeyLimit \in [Keys -> Nat] /\ MaxParallel \in Nat /\ MaxRetries \in Nat
ASSUME ProcessAssumption ==
    /\ NoWorker \notin Workers /\ Embedded \in BOOLEAN
    /\ {MaxLapses, MaxWorkerCrashes, MaxSchedulerCrashes, MaxRefusals, MaxFlushes} \subseteq Nat

VARIABLES
    row,        \* the actions table
    ledger,     \* action ids with a committed side_effect_ledger row
    dead,       \* action ids with a dead_letters row (action_id is unique)
    stream,     \* stream entries not yet delivered to the consumer group
    worker,     \* local state of each worker process
    sched,      \* local state of each scheduler process
    effects,    \* history: how often the tool's external effect happened
    lost,       \* history: transactions rolled back after their effect
    faults      \* what is left of the fault bounds

vars == <<row, ledger, dead, stream, worker, sched, effects, lost, faults>>
tables == <<row, ledger, dead>>
history == <<effects, lost>>

-----------------------------------------------------------------------------
Terminal == {"SUCCEEDED", "UNVERIFIED", "FAILED"}
Status == {"PLANNED", "READY", "DISPATCHED", "RUNNING"} \cup Terminal

Row == [status : Status, attempt : Nat, lease : {"none", "held", "lapsed"},
        owner : Workers \cup {NoWorker}, backoff : BOOLEAN, result : BOOLEAN]

NewRow == [status |-> "PLANNED", attempt |-> 0, lease |-> "none",
           owner |-> NoWorker, backoff |-> FALSE, result |-> FALSE]

(* How a tool attempt may come out; "refused" and "conflict" end it before  *)
(* the tool runs, the last three need the tool to have returned.            *)
Outcome == {"refused", "conflict", "retryable", "fatal",
            "pass", "no_method", "verify_fail"}

Idle == [pc |-> "idle", act |-> 0, attempt |-> 0, reserved |-> FALSE,
         effected |-> FALSE, outcome |-> "fatal"]

WorkerState == [pc : {"idle", "received", "claimed", "loaded", "executing", "finishing"},
                act : Nat, attempt : Nat, reserved : BOOLEAN,
                effected : BOOLEAN, outcome : Outcome]

Unseen == [a \in Actions |-> NewRow]
Down == [pc |-> "down", phase |-> "recover", seen |-> Unseen, outbox |-> {}]

SchedulerState == [pc : {"down", "reap", "reap_commit", "orphans", "tick", "tick_commit", "publish"},
                   phase : {"recover", "first", "steady"},
                   seen : [Actions -> Row], outbox : SUBSET Actions]

Init ==
    /\ row = [a \in Actions |-> NewRow]
    /\ ledger = {} /\ dead = {} /\ stream = <<>>
    /\ worker = [w \in Workers |-> Idle]
    /\ sched = [s \in Schedulers |-> Down]
    /\ effects = [a \in Actions |-> 0]
    /\ lost = [a \in Actions |-> 0]
    /\ faults = [lapse |-> MaxLapses, worker |-> MaxWorkerCrashes,
                 scheduler |-> MaxSchedulerCrashes,
                 refusal |-> MaxRefusals, flush |-> MaxFlushes]

-----------------------------------------------------------------------------
(* Rows as the UPDATE statements write them.                                *)

BugKeepsLease(r, st) == [r EXCEPT !.status = st]

Unleased(r, st) == [r EXCEPT !.status = st, !.lease = "none", !.owner = NoWorker]

ClaimedBy(r, w) ==
    [r EXCEPT !.status = "RUNNING", !.owner = w, !.lease = "held", !.attempt = @ + 1]

(* ready_ids: the PLANNED actions of a snapshot whose dependencies are all  *)
(* acceptably terminal in it.                                               *)
BugAnyEndedDependency(seen) ==
    {a \in Actions : seen[a].status = "PLANNED" /\ \A d \in Deps[a] : seen[d].status \in Terminal}

ReadyIds(seen) ==
    {a \in Actions :
        /\ seen[a].status = "PLANNED"
        /\ \A d \in Deps[a] : \/ seen[d].status = "SUCCEEDED"
                              \/ seen[d].status = "UNVERIFIED" /\ a \in Tolerant}

BugCountsRunningOnly(seen, t) ==
    {a \in Actions : TaskOf[a] = t /\ seen[a].status = "RUNNING"}

InFlight(seen, t) ==
    {a \in Actions : TaskOf[a] = t /\ seen[a].status \in {"DISPATCHED", "RUNNING"}}

(* promote_ready, then the candidates of enqueue_ready whose CAS from READY *)
(* can succeed: READY in the session's view and still READY in the table.   *)
Promoted(seen) == {a \in ReadyIds(seen) : row[a].status = "PLANNED"}

Candidates(seen, t) ==
    {a \in Actions :
        /\ TaskOf[a] = t
        /\ a \in ReadyIds(seen) \/ seen[a].status = "READY"
        /\ ~seen[a].backoff
        /\ a \in Promoted(seen) \/ row[a].status = "READY"}

(* The greedy pass over the candidates in id order: an action is skipped    *)
(* when its key is at its limit, and the pass ends when the slots are gone. *)
KeyFree(seen, t) ==
    {c \in Candidates(seen, t) :
        KeyOf[c] # NoKey =>
            Cardinality({a \in InFlight(seen, t) : KeyOf[a] = KeyOf[c]})
              + Cardinality({a \in Candidates(seen, t) : a < c /\ KeyOf[a] = KeyOf[c]})
            < KeyLimit[KeyOf[c]]}

Enqueued(seen, t) ==
    {c \in KeyFree(seen, t) :
        Cardinality(InFlight(seen, t)) + Cardinality({a \in KeyFree(seen, t) : a < c})
        < MaxParallel}

-----------------------------------------------------------------------------
(* Worker.                                                                  *)

(* XREADGROUP: the head of the stream is delivered to one consumer, once.   *)
Receive(w) ==
    /\ worker[w].pc = "idle" /\ stream # <<>>
    /\ worker' = [worker EXCEPT ![w].pc = "received", ![w].act = Head(stream)]
    /\ stream' = Tail(stream)
    /\ UNCHANGED <<tables, sched, history, faults>>

(* cas_claim: zero rows updated is a duplicate delivery, acknowledged.      *)
BugClaimsAny(a) == row[a].status # "RUNNING"

Claimable(a) == row[a].status \in {"DISPATCHED", "READY"}

Claim(w) ==
    LET a == worker[w].act IN
    /\ worker[w].pc = "received"
    /\ IF Claimable(a)
       THEN /\ row' = [row EXCEPT ![a] = ClaimedBy(@, w)]
            /\ worker' = [worker EXCEPT ![w].pc = "claimed"]
       ELSE /\ worker' = [worker EXCEPT ![w] = Idle]
            /\ UNCHANGED row
    /\ UNCHANGED <<ledger, dead, stream, sched, history, faults>>

(* _execute re-reads the row in a session of its own; it checks the status  *)
(* and never the owner, and keeps the attempt count it read.                *)
Load(w) ==
    LET a == worker[w].act IN
    /\ worker[w].pc = "claimed"
    /\ worker' = IF row[a].status = "RUNNING"
                 THEN [worker EXCEPT ![w].pc = "loaded", ![w].attempt = row[a].attempt]
                 ELSE [worker EXCEPT ![w] = Idle]
    /\ UNCHANGED <<tables, stream, sched, history, faults>>

Finishing(w, o) == [worker EXCEPT ![w].pc = "finishing", ![w].outcome = o]

(* Unknown tool, invalid parameters or a failing preflight.                 *)
Refuse(w) ==
    /\ worker[w].pc = "loaded"
    /\ worker' = Finishing(w, "refused")
    /\ UNCHANGED <<tables, stream, sched, history, faults>>

(* insert_ledger writes the reservation in the transaction that will record *)
(* the outcome: a key another open transaction inserted makes it wait.      *)
Uncontended(a) == \A v \in Workers : ~(worker[v].reserved /\ worker[v].act = a)

Reserve(w) ==
    LET a == worker[w].act IN
    /\ worker[w].pc = "loaded" /\ a \in NonIdempotent
    /\ Uncontended(a)
    /\ worker' = IF a \in ledger
                 THEN Finishing(w, "conflict")
                 ELSE [worker EXCEPT ![w].pc = "executing", ![w].reserved = TRUE]
    /\ UNCHANGED <<tables, stream, sched, history, faults>>

StartIdempotent(w) ==
    /\ worker[w].pc = "loaded" /\ worker[w].act \notin NonIdempotent
    /\ worker' = [worker EXCEPT ![w].pc = "executing"]
    /\ UNCHANGED <<tables, stream, sched, history, faults>>

ToolEffect(w) ==
    LET a == worker[w].act IN
    /\ worker[w].pc = "executing" /\ ~worker[w].effected
    /\ worker' = [worker EXCEPT ![w].effected = TRUE]
    /\ effects' = [effects EXCEPT ![a] = @ + 1]
    /\ UNCHANGED <<tables, stream, sched, lost, faults>>

(* A timeout or an error the tool calls retryable, before or after the      *)
(* effect; a non-retryable error; or a result, verified.                    *)
ToolFails(w) ==
    /\ worker[w].pc = "executing"
    /\ \E o \in {"retryable", "fatal"} : worker' = Finishing(w, o)
    /\ UNCHANGED <<tables, stream, sched, history, faults>>

ToolReturns(w) ==
    /\ worker[w].pc = "executing" /\ worker[w].effected
    /\ \E o \in {"pass", "no_method", "verify_fail"} : worker' = Finishing(w, o)
    /\ UNCHANGED <<tables, stream, sched, history, faults>>

(* The heartbeat runs while the tool does, in transactions of its own, and  *)
(* is the one write that checks the lease's owner.                          *)
Heartbeat(w) ==
    LET a == worker[w].act IN
    /\ worker[w].pc = "executing"
    /\ row[a].status = "RUNNING" /\ row[a].owner = w /\ row[a].lease = "lapsed"
    /\ row' = [row EXCEPT ![a].lease = "held"]
    /\ UNCHANGED <<ledger, dead, stream, worker, sched, history, faults>>

-----------------------------------------------------------------------------
(* The transaction that records an outcome: the CAS from RUNNING (its       *)
(* result ignored), the reservation and, for a failure, a dead letter whose *)
(* action_id is unique: a second one rolls everything back.                 *)

WillRetry(w) == worker[w].outcome = "retryable" /\ worker[w].attempt < MaxRetries
Fails(w) == worker[w].outcome \in {"refused", "conflict", "retryable", "fatal", "verify_fail"}
            /\ ~WillRetry(w)

Recorded(r, w) ==
    CASE WillRetry(w)                      -> [Unleased(r, "READY") EXCEPT !.backoff = TRUE]
      [] worker[w].outcome = "pass"        -> [Unleased(r, "SUCCEEDED") EXCEPT !.result = TRUE]
      [] worker[w].outcome = "no_method"   -> [Unleased(r, "UNVERIFIED") EXCEPT !.result = TRUE]
      [] worker[w].outcome = "verify_fail" -> [Unleased(r, "FAILED") EXCEPT !.result = TRUE]
      [] OTHER                             -> Unleased(r, "FAILED")

BugAnyStatus(a) == row[a].status # "PLANNED"

StillRunning(a) == row[a].status = "RUNNING"

BugLedgerOnSuccess(w) ==
    IF worker[w].reserved /\ worker[w].outcome = "pass" THEN ledger \cup {worker[w].act} ELSE ledger

LedgerAfter(w) == IF worker[w].reserved THEN ledger \cup {worker[w].act} ELSE ledger

Record(w) ==
    LET a == worker[w].act IN
    /\ worker[w].pc = "finishing"
    /\ ~(Fails(w) /\ a \in dead)
    /\ row' = IF StillRunning(a) THEN [row EXCEPT ![a] = Recorded(@, w)] ELSE row
    /\ ledger' = LedgerAfter(w)
    /\ dead' = IF Fails(w) THEN dead \cup {a} ELSE dead
    /\ worker' = [worker EXCEPT ![w] = Idle]
    /\ UNCHANGED <<stream, sched, history, faults>>

(* A worker's open transaction is gone: its reservation with it, and the    *)
(* stream entry stays pending, which nothing reads again.                   *)
LoseTransaction(w) ==
    /\ worker' = [worker EXCEPT ![w] = Idle]
    /\ lost' = IF worker[w].effected THEN [lost EXCEPT ![worker[w].act] = @ + 1] ELSE lost
    /\ UNCHANGED <<tables, stream, sched, effects>>

RecordRollsBack(w) ==
    /\ worker[w].pc = "finishing" /\ Fails(w) /\ worker[w].act \in dead
    /\ LoseTransaction(w)
    /\ UNCHANGED faults

WorkerCrash(w) ==
    /\ faults.worker > 0 /\ worker[w].pc \in CrashPoints \ {"idle"}
    /\ faults' = [faults EXCEPT !.worker = @ - 1]
    /\ LoseTransaction(w)

-----------------------------------------------------------------------------
(* Time.  The lease of an owner that no longer works on the action lapses   *)
(* in the end; under a live owner it lapses when the heartbeat is late (a   *)
(* suspended machine, a stalled event loop, a lost connection).             *)

Held(a) == \E w \in Workers : /\ worker[w].act = a /\ row[a].owner = w
                              /\ worker[w].pc \notin {"idle", "received"}

LeaseLapses(a) ==
    /\ row[a].lease = "held"
    /\ row' = [row EXCEPT ![a].lease = "lapsed"]
    /\ IF Held(a)
       THEN faults.lapse > 0 /\ faults' = [faults EXCEPT !.lapse = @ - 1]
       ELSE UNCHANGED faults
    /\ UNCHANGED <<ledger, dead, stream, worker, sched, history>>

BackoffElapses(a) ==
    /\ row[a].backoff
    /\ row' = [row EXCEPT ![a].backoff = FALSE]
    /\ UNCHANGED <<ledger, dead, stream, worker, sched, history, faults>>

-----------------------------------------------------------------------------
(* Scheduler.                                                               *)

Goto(s, p) == [sched EXCEPT ![s].pc = p, ![s].seen = Unseen]

Boot(s) ==
    /\ sched[s].pc = "down"
    /\ sched' = Goto(s, "reap")
    /\ UNCHANGED <<tables, stream, worker, history, faults>>

BugReapsDispatchedOnly(seen) ==
    {a \in Actions : seen[a].status = "DISPATCHED" /\ seen[a].lease = "lapsed"}

Expired(seen) ==
    {a \in Actions : seen[a].status \in {"DISPATCHED", "RUNNING"} /\ seen[a].lease = "lapsed"}

Doomed(seen) ==
    {a \in Expired(seen) : seen[a].status = "RUNNING" /\ seen[a].attempt >= MaxRetries}

ReapRead(s) ==
    /\ sched[s].pc = "reap"
    /\ sched' = [sched EXCEPT ![s].pc = "reap_commit", ![s].seen = row]
    /\ UNCHANGED <<tables, stream, worker, history, faults>>

AfterReap(s) == Goto(s, IF sched[s].phase = "recover" THEN "orphans" ELSE "tick")

(* A raising reap or publish ends recover() and, standing alone, the        *)
(* process; inside run_forever the next tick comes half a second later.     *)
AfterError(s) ==
    IF Embedded /\ sched[s].phase = "steady"
    THEN [sched EXCEPT ![s] = [Down EXCEPT !.pc = "reap", !.phase = "steady"]]
    ELSE [sched EXCEPT ![s] = Down]

Unmoved(a, seen) == row[a].status = seen[a].status

(* The CAS expects the status the reaper read, not a lease still expired;   *)
(* the dead letter is added whether or not the CAS matched.                 *)
ReapCommit(s) ==
    LET seen == sched[s].seen IN
    /\ sched[s].pc = "reap_commit"
    /\ IF Doomed(seen) \cap dead # {}
       THEN sched' = AfterError(s) /\ UNCHANGED tables
       ELSE /\ row' = [a \in Actions |->
                        IF a \in Expired(seen) /\ Unmoved(a, seen)
                        THEN Unleased(row[a], IF a \in Doomed(seen) THEN "FAILED" ELSE "READY")
                        ELSE row[a]]
            /\ dead' = dead \cup Doomed(seen)
            /\ sched' = AfterReap(s)
            /\ UNCHANGED ledger
    /\ UNCHANGED <<stream, worker, history, faults>>

(* recover: DISPATCHED rows with no lease are published again.              *)
ReadOrphans(s) ==
    /\ sched[s].pc = "orphans"
    /\ sched' = [sched EXCEPT ![s].pc = "publish",
                    ![s].outbox = {a \in Actions : /\ row[a].status = "DISPATCHED"
                                                   /\ row[a].lease = "none"}]
    /\ UNCHANGED <<tables, stream, worker, history, faults>>

TickRead(s) ==
    /\ sched[s].pc = "tick"
    /\ sched' = [sched EXCEPT ![s].pc = "tick_commit", ![s].seen = row]
    /\ UNCHANGED <<tables, stream, worker, history, faults>>

(* The tick's one transaction, over every runnable task.                    *)
TickCommit(s) ==
    LET seen == sched[s].seen
        chosen == UNION {Enqueued(seen, t) : t \in Tasks}
    IN
    /\ sched[s].pc = "tick_commit"
    /\ row' = [a \in Actions |->
                CASE a \in chosen         -> Unleased(row[a], "DISPATCHED")
                  [] a \in Promoted(seen) \ chosen -> [row[a] EXCEPT !.status = "READY"]
                  [] OTHER                -> row[a]]
    /\ sched' = [sched EXCEPT ![s].pc = "publish", ![s].seen = Unseen, ![s].outbox = chosen]
    /\ UNCHANGED <<ledger, dead, stream, worker, history, faults>>

(* Only after the commit: one XADD per dispatched action.                   *)
Publish(s) ==
    /\ sched[s].pc = "publish"
    /\ \E a \in sched[s].outbox :
        /\ stream' = Append(stream, a)
        /\ sched' = [sched EXCEPT ![s].outbox = @ \ {a}]
    /\ UNCHANGED <<tables, worker, history, faults>>

Published(s) ==
    /\ sched[s].pc = "publish" /\ sched[s].outbox = {}
    /\ sched' = [sched EXCEPT ![s].pc = "reap",
                    ![s].phase = IF @ = "recover" THEN "first" ELSE "steady"]
    /\ UNCHANGED <<tables, stream, worker, history, faults>>

SchedulerCrash(s) ==
    /\ faults.scheduler > 0 /\ sched[s].pc # "down"
    /\ faults' = [faults EXCEPT !.scheduler = @ - 1]
    /\ sched' = [sched EXCEPT ![s] = Down]
    /\ UNCHANGED <<tables, stream, worker, history>>

(* Redis refuses the XADD: the rest of the batch is never published.        *)
PublishFails(s) ==
    /\ faults.refusal > 0 /\ sched[s].pc = "publish" /\ sched[s].outbox # {}
    /\ faults' = [faults EXCEPT !.refusal = @ - 1]
    /\ sched' = AfterError(s)
    /\ UNCHANGED <<tables, stream, worker, history>>

RedisFlush ==
    /\ faults.flush > 0 /\ stream # <<>>
    /\ faults' = [faults EXCEPT !.flush = @ - 1]
    /\ stream' = <<>>
    /\ UNCHANGED <<tables, worker, sched, history>>

-----------------------------------------------------------------------------
WorkerStep(w) ==
    \/ Receive(w) \/ Claim(w) \/ Load(w) \/ Reserve(w) \/ StartIdempotent(w)
    \/ ToolEffect(w) \/ ToolReturns(w) \/ Record(w) \/ RecordRollsBack(w)

WorkerNext(w) ==
    WorkerStep(w) \/ Refuse(w) \/ ToolFails(w) \/ Heartbeat(w) \/ WorkerCrash(w)

SchedulerStep(s) ==
    \/ Boot(s) \/ ReapRead(s) \/ ReapCommit(s) \/ ReadOrphans(s)
    \/ TickRead(s) \/ TickCommit(s) \/ Publish(s) \/ Published(s)

Next ==
    \/ \E w \in Workers : WorkerNext(w)
    \/ \E s \in Schedulers : SchedulerStep(s) \/ SchedulerCrash(s) \/ PublishFails(s)
    \/ \E a \in Actions : LeaseLapses(a) \/ BackoffElapses(a)
    \/ RedisFlush

Spec == Init /\ [][Next]_vars

(* Processes keep running and are restarted, abandoned leases lapse and     *)
(* backoffs end; no fault has to happen.                                    *)
Fairness ==
    /\ \A w \in Workers : WF_vars(WorkerStep(w))
    /\ \A s \in Schedulers : WF_vars(SchedulerStep(s))
    /\ \A a \in Actions : WF_vars(~Held(a) /\ LeaseLapses(a)) /\ WF_vars(BackoffElapses(a))

FairSpec == Spec /\ Fairness
=============================================================================
