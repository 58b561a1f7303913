----------------------------- MODULE Cancellation -----------------------------
(* The cancellation of one task: the requests that cancel it, the workers    *)
(* that are executing its actions meanwhile, and what is left of the effects *)
(* those actions had in the world.  A request reads the rows once, marks the *)
(* task and what has not started in a first transaction, and undoes effects  *)
(* in a second one that it commits with its report.                          *)
EXTENDS Naturals, FiniteSets

CONSTANTS
    Actions,
    Deps,        \* Deps[a]: the actions a depends on
    Tolerant,    \* the actions whose step tolerates an unverified dependency
    Reversible,  \* the actions whose tool can compensate
    Idempotent,  \* the actions whose tool needs no reservation in the ledger
    Workers, NoAction,
    Requests,    \* the cancel requests
    MaxRetries,  \* MaxRetries[a]: attempts after which a fails
    MaxLapses,   \* MaxLapses[a]: how often the lease of a may lapse under a live worker
    MaxFaults    \* how many workers and requests may die

ASSUME CancellationAssumption ==
    /\ Deps \in [Actions -> SUBSET Actions] /\ NoAction \notin Actions
    /\ Tolerant \subseteq Actions /\ Reversible \subseteq Actions /\ Idempotent \subseteq Actions
    /\ MaxRetries \in [Actions -> Nat] /\ MaxLapses \in [Actions -> Nat] /\ MaxFaults \in Nat

VARIABLES
    task,      \* the status of the task
    row,       \* row[a]: the status of action a
    attempts,  \* attempts[a]: how often a was claimed
    ledger,    \* the actions whose reservation is committed
    dead,      \* the actions with a dead letter; there is one per action
    world,     \* world[a]: the effect of a, and how often it was undone
    hand,      \* hand[w]: what worker w is doing, and for which action
    step,      \* step[a]: whether a's step is reported as skipped
    req,       \* the requests: what each has read and done
    faults,
    overrun    \* history: how often the lease of a lapsed under a live worker

vars == <<task, row, attempts, ledger, dead, world, hand, step, req, faults, overrun>>
tables == <<row, attempts, ledger, dead>>
requests == <<step, req>>
counts == <<faults, overrun>>

ActionStatus == {"PLANNED", "READY", "DISPATCHED", "RUNNING", "SUCCEEDED", "UNVERIFIED",
                 "FAILED", "CANCELLED", "ROLLED_BACK"}
NotStarted == {"PLANNED", "READY", "DISPATCHED"}
Ended == ActionStatus \ (NotStarted \cup {"RUNNING"})
Report == [compensated : SUBSET Actions, irreversible : SUBSET Actions,
           failed : SUBSET Actions, running : SUBSET Actions]
NoReport == [compensated |-> {}, irreversible |-> {}, failed |-> {}, running |-> {}]
Waiting == [pc |-> "idle", undoes |-> TRUE, act |-> [a \in Actions |-> "PLANNED"],
            todo |-> {}, again |-> FALSE, missed |-> {}, report |-> NoReport]
Away == [pc |-> "idle", act |-> NoAction, last |-> FALSE]

Init ==
    /\ task = "RUNNING"
    /\ row = [a \in Actions |-> "PLANNED"]
    /\ attempts = [a \in Actions |-> 0]
    /\ ledger = {} /\ dead = {}
    /\ world = [a \in Actions |-> [effect |-> "none", undos |-> 0]]
    /\ hand = [w \in Workers |-> Away]
    /\ step = [a \in Actions |-> "open"]
    /\ req = [r \in Requests |-> Waiting]
    /\ faults = 0 /\ overrun = [a \in Actions |-> 0]

-----------------------------------------------------------------------------
(* The scheduler. *)

Serves(d, a) == row[d] = "SUCCEEDED" \/ (row[d] = "UNVERIFIED" /\ a \in Tolerant)

Dispatch(a) ==
    /\ task = "RUNNING" /\ row[a] \in {"PLANNED", "READY"}
    /\ \A d \in Deps[a] : Serves(d, a)
    /\ row' = [row EXCEPT ![a] = "DISPATCHED"]
    /\ UNCHANGED <<task, attempts, ledger, dead, world, hand, requests, counts>>

(* An action of a step that tolerates it may end UNVERIFIED. *)
Complete ==
    /\ task = "RUNNING" /\ \A a \in Actions : row[a] \in Ended
    /\ task' = IF \A a \in Actions : Serves(a, a) THEN "SUCCEEDED" ELSE "FAILED"
    /\ UNCHANGED <<tables, world, hand, requests, counts>>

-----------------------------------------------------------------------------
(* The workers.  A lease that lapses lets a second worker claim an action    *)
(* that a first one still has in hand.                                       *)

Nobody(a) == \A w \in Workers : hand[w].act # a
Executing == {"executing", "signalled"}

(* By way of an entry of the stream, which may be an old one.                *)
Claim(w, a) ==
    /\ hand[w] = Away /\ row[a] \in {"DISPATCHED", "READY"}
    /\ row' = [row EXCEPT ![a] = "RUNNING"]
    /\ attempts' = [attempts EXCEPT ![a] = @ + 1]
    /\ hand' = [hand EXCEPT ![w] = [Away EXCEPT !.pc = "claimed", !.act = a]]
    /\ UNCHANGED <<task, ledger, dead, world, requests, counts>>

(* The worker reads the row and the task once more, and how many attempts    *)
(* there have been.                                                          *)
Load(w) ==
    LET a == hand[w].act IN
    /\ hand[w].pc = "claimed"
    /\ IF row[a] = "RUNNING" /\ task # "CANCELLED"
       THEN /\ hand' = [hand EXCEPT ![w].pc = "loaded", ![w].last = attempts[a] >= MaxRetries[a]]
            /\ UNCHANGED row
       ELSE /\ hand' = [hand EXCEPT ![w] = Away]
            /\ row' = IF row[a] = "RUNNING" THEN [row EXCEPT ![a] = "CANCELLED"] ELSE row
    /\ UNCHANGED <<task, attempts, ledger, dead, world, requests, counts>>

(* insert_ledger waits for another worker that holds the reservation.        *)
Execute(w) ==
    LET a == hand[w].act IN
    /\ hand[w].pc = "loaded"
    /\ \/ a \in Idempotent
       \/ /\ a \notin ledger
          /\ \A v \in Workers : ~(hand[v].act = a /\ hand[v].pc \in Executing)
    /\ hand' = [hand EXCEPT ![w].pc = "executing"]
    /\ UNCHANGED <<task, tables, world, requests, counts>>

Perform(w) ==
    LET a == hand[w].act IN
    /\ hand[w].pc \in Executing /\ world[a].effect # "done"
    /\ world' = [world EXCEPT ![a].effect = "done"]
    /\ UNCHANGED <<task, tables, hand, requests, counts>>

(* The watcher polls the task and sets the token of the execution. *)
Signal(w) ==
    /\ hand[w].pc = "executing" /\ task = "CANCELLED"
    /\ hand' = [hand EXCEPT ![w].pc = "signalled"]
    /\ UNCHANGED <<task, tables, world, requests, counts>>

StillRunning(a) == row[a] = "RUNNING"

(* The transaction that records how an attempt came out: the row moves only  *)
(* if it is RUNNING, whoever it runs for, but the reservation and the dead   *)
(* letter are written in any case.                                           *)
Record(w, status) ==
    LET a == hand[w].act IN
    /\ status = "FAILED" => a \notin dead
    /\ row' = IF StillRunning(a) THEN [row EXCEPT ![a] = status] ELSE row
    /\ dead' = IF status = "FAILED" THEN dead \cup {a} ELSE dead
    /\ ledger' = IF hand[w].pc \in Executing /\ a \notin Idempotent THEN ledger \cup {a} ELSE ledger
    /\ hand' = [hand EXCEPT ![w] = Away]
    /\ UNCHANGED <<task, attempts, world, requests, counts>>

(* The tool returns, verified or not, or raises, for good or to be retried,  *)
(* or gives way to its token, or is aborted when the grace period is over:   *)
(* these last whether or not its effect has already happened.                *)
Outcome(w) ==
    {"FAILED"}
        \cup (IF hand[w].last THEN {} ELSE {"READY"})
        \cup (IF world[hand[w].act].effect = "none" THEN {} ELSE {"SUCCEEDED", "UNVERIFIED"})
        \cup (IF hand[w].pc = "signalled" THEN {"CANCELLED"} ELSE {})

Return(w) ==
    /\ hand[w].pc \in Executing
    /\ \E status \in Outcome(w) : Record(w, status)

(* Parameters or preconditions that do not hold, or a reservation that was   *)
(* committed by an attempt before this one.                                  *)
Refuse(w) == hand[w].pc = "loaded" /\ Record(w, "FAILED")

(* A second dead letter for one action rolls back what came with it. *)
RollBack(w) ==
    /\ hand[w].pc \in {"loaded"} \cup Executing /\ hand[w].act \in dead
    /\ hand' = [hand EXCEPT ![w] = Away]
    /\ UNCHANGED <<task, tables, world, requests, counts>>

WorkerDies(w) ==
    /\ hand[w] # Away /\ faults < MaxFaults
    /\ hand' = [hand EXCEPT ![w] = Away] /\ faults' = faults + 1
    /\ UNCHANGED <<task, tables, world, requests, overrun>>

-----------------------------------------------------------------------------
(* The reaper.  The lease of an action nobody has in hand lapses in the end; *)
(* under a live worker it lapses when the heartbeat is late.                 *)

Abandoned(a) == row[a] = "RUNNING" /\ Nobody(a)
Exhausted(a) == attempts[a] >= MaxRetries[a]

BugWhileRunning(a) ==
    /\ row[a] = "RUNNING" /\ task = "RUNNING"
    /\ Nobody(a) \/ overrun[a] < MaxLapses[a]
Lapsed(a) ==
    /\ row[a] = "RUNNING"
    /\ Nobody(a) \/ overrun[a] < MaxLapses[a]

Reap(a) ==
    /\ Lapsed(a) /\ (Exhausted(a) => a \notin dead)
    /\ row' = [row EXCEPT ![a] = IF Exhausted(a) THEN "FAILED" ELSE "READY"]
    /\ dead' = IF Exhausted(a) THEN dead \cup {a} ELSE dead
    /\ overrun' = IF Nobody(a) THEN overrun ELSE [overrun EXCEPT ![a] = @ + 1]
    /\ UNCHANGED <<task, attempts, ledger, world, hand, requests, faults>>

(* One pass is one transaction: a dead letter it cannot write rolls all of   *)
(* it back, each time.                                                       *)
Wedged == \E a \in dead : overrun[a] > 0 /\ Abandoned(a) /\ Exhausted(a)

-----------------------------------------------------------------------------
(* A cancel request. *)

Begin(r) ==
    /\ req[r].pc = "idle"
    /\ req' = [req EXCEPT ![r] =
         CASE task = "CANCELLED" -> [Waiting EXCEPT !.pc = "reported"]
           [] task \in {"SUCCEEDED", "FAILED"} -> [Waiting EXCEPT !.pc = "refused"]
           [] task = "RUNNING" -> [Waiting EXCEPT !.pc = "marking", !.act = row]]
    /\ UNCHANGED <<task, tables, world, hand, step, counts>>

Effective(act) == {a \in Actions : act[a] = "SUCCEEDED"}

BugAnyStatus(r) == task \notin {"SUCCEEDED", "FAILED"}
Wins(r) == task = "RUNNING"

(* The first transaction.  An update that matches no row still moves the     *)
(* session's copy, so a request that lost the race to the end of the task    *)
(* believes it is CANCELLED and reports, and an action that moved since it   *)
(* was read counts as cancelled.                                             *)
Mark(r, undoes) ==
    LET old == req[r].act
        act == [a \in Actions |-> IF old[a] \in NotStarted THEN "CANCELLED" ELSE old[a]]
    IN  /\ req[r].pc = "marking"
        /\ \/ /\ Wins(r)
              /\ task' = "CANCELLED"
              /\ row' = [a \in Actions |->
                           IF old[a] \in NotStarted /\ row[a] = old[a] THEN "CANCELLED" ELSE row[a]]
              /\ req' = [req EXCEPT ![r].pc = "undoing", ![r].undoes = undoes, ![r].act = act,
                   ![r].todo = Effective(act),
                   ![r].missed = {a \in Actions : old[a] \in NotStarted /\ row[a] # old[a]}]
           \/ /\ ~Wins(r)
              /\ req' = [req EXCEPT ![r] = [Waiting EXCEPT !.pc = "reported"]]
              /\ UNCHANGED <<task, row>>
        /\ UNCHANGED <<attempts, ledger, dead, world, hand, step, counts>>

BugForwardOrder(r) == {a \in req[r].todo : Deps[a] \cap req[r].todo = {}}

(* reverse_topo: what nothing still to be undone depends on. *)
NextToUndo(r) == {a \in req[r].todo : \A b \in req[r].todo : a \notin Deps[b]}

Undone(r, a) ==
    /\ world' = [world EXCEPT ![a] = [effect |-> "undone", undos |-> @.undos + 1]]
    /\ req' = [req EXCEPT ![r].todo = @ \ {a}, ![r].act[a] = "ROLLED_BACK",
                          ![r].report.compensated = @ \cup {a}]

NotUndone(r, a, list) ==
    /\ req' = [req EXCEPT ![r].todo = @ \ {a},
         ![r].report.failed = IF list = "failed" THEN @ \cup {a} ELSE @,
         ![r].report.irreversible = IF list = "irreversible" THEN @ \cup {a} ELSE @]
    /\ UNCHANGED world

(* One turn of _compensate_succeeded; the tool's compensate may raise.  With *)
(* compensate=false everything that succeeded is listed and left.            *)
Undo(r) ==
    /\ req[r].pc = "undoing"
    /\ \E a \in NextToUndo(r) :
         IF req[r].undoes /\ a \in Reversible
         THEN Undone(r, a) \/ NotUndone(r, a, "failed")
         ELSE NotUndone(r, a, "irreversible")
    /\ UNCHANGED <<task, tables, hand, step, counts>>

Running(r) == {a \in Actions : req[r].act[a] = "RUNNING"}
MustWait(r) == ~req[r].again /\ Running(r) # {}

BugOnePass(r, act) == {}
SecondPass(r, act) == IF req[r].undoes THEN Effective(act) ELSE {}

(* After the grace period the rows are read again, through the request's own *)
(* uncommitted rollbacks; now the copies are fresh.                          *)
Refresh(r) ==
    LET act == [a \in Actions |-> IF a \in req[r].report.compensated THEN "ROLLED_BACK" ELSE row[a]]
    IN  /\ req[r].pc = "undoing" /\ req[r].todo = {} /\ MustWait(r)
        /\ req' = [req EXCEPT ![r].act = act, ![r].again = TRUE, ![r].todo = SecondPass(r, act)]
        /\ UNCHANGED <<task, tables, world, hand, step, counts>>

(* The second transaction: rollbacks, skipped steps and the report. *)
Finish(r) ==
    /\ req[r].pc = "undoing" /\ req[r].todo = {} /\ ~MustWait(r)
    /\ row' = [a \in Actions |-> IF a \in req[r].report.compensated /\ row[a] = "SUCCEEDED"
                                 THEN "ROLLED_BACK" ELSE row[a]]
    /\ step' = [a \in Actions |-> IF req[r].act[a] \in {"CANCELLED", "ROLLED_BACK"}
                                  THEN "skipped" ELSE step[a]]
    /\ req' = [req EXCEPT ![r].pc = "done", ![r].report.running = Running(r)]
    /\ UNCHANGED <<task, attempts, ledger, dead, world, hand, counts>>

(* The second transaction is lost, and with it every rollback it recorded. *)
RequestDies(r) ==
    /\ req[r].pc = "undoing" /\ faults < MaxFaults
    /\ req' = [req EXCEPT ![r] = [Waiting EXCEPT !.pc = "dead", !.report = req[r].report]]
    /\ faults' = faults + 1
    /\ UNCHANGED <<task, tables, world, hand, step, overrun>>

-----------------------------------------------------------------------------
WorkerStep(w) ==
    \/ \E a \in Actions : Claim(w, a)
    \/ Load(w) \/ Execute(w) \/ Perform(w) \/ Signal(w)
    \/ Return(w) \/ Refuse(w) \/ RollBack(w) \/ WorkerDies(w)
EngineStep ==
    \/ Complete
    \/ \E a \in Actions : Dispatch(a) \/ Reap(a)
    \/ \E w \in Workers : WorkerStep(w)
RequestStep(r) ==
    \/ Begin(r) \/ \E undoes \in BOOLEAN : Mark(r, undoes)
    \/ Undo(r) \/ Refresh(r) \/ Finish(r) \/ RequestDies(r)

Next == EngineStep \/ \E r \in Requests : RequestStep(r)

Spec == Init /\ [][Next]_vars

Deliver(a) == row[a] = "DISPATCHED" /\ \E w \in Workers : Claim(w, a)
Watched(w) == Load(w) \/ Execute(w) \/ Signal(w) \/ Return(w) \/ Refuse(w) \/ RollBack(w)
Reclaim(a) == Abandoned(a) /\ ~Wedged /\ Reap(a)
Request(r) == (\E undoes \in BOOLEAN : Mark(r, undoes)) \/ Undo(r) \/ Refresh(r) \/ Finish(r)

(* Workers keep claiming what the stream holds, their watchers keep polling, *)
(* a tool ends or is aborted, the reaper passes over what nobody has in hand *)
(* unless it cannot commit, and a request runs on.                           *)
FairSpec ==
    /\ Spec
    /\ \A a \in Actions : WF_vars(Deliver(a)) /\ WF_vars(Reclaim(a))
    /\ \A w \in Workers : WF_vars(Watched(w))
    /\ \A r \in Requests : WF_vars(Request(r))
=============================================================================
