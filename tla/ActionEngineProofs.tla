------------------------- MODULE ActionEngineProofs -------------------------
(***************************************************************************)
(* Theorems about ActionEngine, for every plan, every number of workers    *)
(* and schedulers and every bound on faults; DispatchBounded alone is      *)
(* about one dispatcher that does not fail.                                *)
(***************************************************************************)
EXTENDS ActionEngineProperties, FiniteSetTheorems, WellFoundedInduction, TLAPS

-----------------------------------------------------------------------------
(* Rows as the UPDATE statements write them are rows.                       *)
LEMMA UnleasedRow ==
    ASSUME NEW r \in Row, NEW st \in Status
    PROVE  /\ Unleased(r, st) \in Row
           /\ Unleased(r, st).status = st
           /\ Unleased(r, st).lease = "none"
           /\ Unleased(r, st).owner = NoWorker
           /\ Unleased(r, st).result = r.result
BY DEF Unleased, Row

(* A claim makes a RUNNING row that is leased to the claiming worker.       *)
LEMMA ClaimedRow ==
    ASSUME NEW r \in Row, NEW w \in Workers
    PROVE  /\ ClaimedBy(r, w) \in Row
           /\ ClaimedBy(r, w).status = "RUNNING"
           /\ ClaimedBy(r, w).lease = "held"
           /\ ClaimedBy(r, w).owner = w
           /\ ClaimedBy(r, w).result = r.result
<1>1. PICK n \in Nat : n = r.attempt + 1
  BY DEF Row
<1> QED BY <1>1 DEF ClaimedBy, Row, Status

(* Whatever the outcome, the row it leaves holds no lease, is READY or      *)
(* terminal, and has a new result only when terminal.                       *)
LEMMA RecordedRow ==
    ASSUME NEW r \in Row, NEW w \in Workers
    PROVE  /\ Recorded(r, w) \in Row
           /\ Recorded(r, w).status \in {"READY", "SUCCEEDED", "UNVERIFIED", "FAILED"}
           /\ Recorded(r, w).lease = "none"
           /\ Recorded(r, w).owner = NoWorker
           /\ Recorded(r, w).status = "READY" => Recorded(r, w).result = r.result
           /\ Recorded(r, w).status \in {"SUCCEEDED", "UNVERIFIED"} =>
                worker[w].outcome \in {"pass", "no_method"}
<1>1. CASE WillRetry(w)
  <2>1. Recorded(r, w) = [Unleased(r, "READY") EXCEPT !.backoff = TRUE]
    BY <1>1 DEF Recorded, WillRetry
  <2> QED BY <2>1 DEF Unleased, Row, Status
<1>2. CASE ~WillRetry(w) /\ worker[w].outcome = "pass"
  <2>1. Recorded(r, w) = [Unleased(r, "SUCCEEDED") EXCEPT !.result = TRUE]
    BY <1>2 DEF Recorded
  <2> QED BY <1>2, <2>1 DEF Unleased, Row, Status, Terminal
<1>3. CASE ~WillRetry(w) /\ worker[w].outcome = "no_method"
  <2>1. Recorded(r, w) = [Unleased(r, "UNVERIFIED") EXCEPT !.result = TRUE]
    BY <1>3 DEF Recorded
  <2> QED BY <1>3, <2>1 DEF Unleased, Row, Status, Terminal
<1>4. CASE ~WillRetry(w) /\ worker[w].outcome = "verify_fail"
  <2>1. Recorded(r, w) = [Unleased(r, "FAILED") EXCEPT !.result = TRUE]
    BY <1>4 DEF Recorded
  <2> QED BY <2>1 DEF Unleased, Row, Status, Terminal
<1>5. CASE ~WillRetry(w) /\ worker[w].outcome \notin {"pass", "no_method", "verify_fail"}
  <2>1. Recorded(r, w) = Unleased(r, "FAILED")
    BY <1>5 DEF Recorded
  <2> QED BY <2>1 DEF Unleased, Row, Status, Terminal
<1> QED BY <1>1, <1>2, <1>3, <1>4, <1>5

-----------------------------------------------------------------------------
(* Type correctness.                                                        *)
LEMMA NewRowRow == NewRow \in Row
BY DEF NewRow, Row, Status

LEMMA IdleState == Idle \in WorkerState
BY DEF Idle, WorkerState, Outcome

LEMMA DownState == Down \in SchedulerState
BY NewRowRow DEF Down, SchedulerState, Unseen

LEMMA TypeInit == Init => TypeOK
<1> SUFFICES ASSUME Init PROVE TypeOK
  OBVIOUS
<1>1. row \in [Actions -> Row]
  BY NewRowRow DEF Init
<1>2. worker \in [Workers -> WorkerState] /\ \A w \in Workers : worker[w].pc = "idle"
  BY IdleState DEF Init, Idle
<1>3. sched \in [Schedulers -> SchedulerState]
  BY DownState DEF Init
<1>4. faults \in [lapse : Nat, worker : Nat, scheduler : Nat, refusal : Nat, flush : Nat]
  BY ProcessAssumption DEF Init
<1>5. /\ ledger \subseteq Actions /\ dead \subseteq Actions /\ stream \in Seq(Actions)
      /\ effects \in [Actions -> Nat] /\ lost \in [Actions -> Nat]
  BY DEF Init
<1> QED BY <1>1, <1>2, <1>3, <1>4, <1>5 DEF TypeOK

(* A worker's step keeps the types.                                         *)
LEMMA TypeWorker ==
    ASSUME TypeOK, NEW w \in Workers, WorkerNext(w)
    PROVE  TypeOK'
<1> DEFINE a == worker[w].act
<1>0. worker[w] \in WorkerState /\ (worker[w].pc # "idle" => a \in Actions /\ row[a] \in Row)
  BY DEF TypeOK
<1>1. CASE Receive(w)
  <2>1. Head(stream) \in Actions /\ Tail(stream) \in Seq(Actions)
    BY <1>1 DEF Receive, TypeOK
  <2>2. [worker[w] EXCEPT !.pc = "received", !.act = Head(stream)] \in WorkerState
    BY <2>1, <1>0, ActionsAssumption DEF WorkerState
  <2>3. worker' = [worker EXCEPT ![w] = [worker[w] EXCEPT !.pc = "received", !.act = Head(stream)]]
    BY <1>1 DEF Receive, TypeOK
  <2> QED BY <1>1, <2>1, <2>2, <2>3 DEF Receive, TypeOK, tables, history
<1>2. CASE Claim(w)
  <2>1. a \in Actions /\ worker[w].pc # "idle"
    BY <1>2, <1>0 DEF Claim
  <2>2. ClaimedBy(row[a], w) \in Row
    BY <2>1, <1>0, ClaimedRow
  <2>3. row' \in [Actions -> Row]
    BY <1>2, <2>1, <2>2 DEF Claim, TypeOK
  <2>4. /\ worker' \in [Workers -> WorkerState]
        /\ \A v \in Workers : worker'[v].pc # "idle" => worker'[v].act \in Actions
    <3>1. CASE Claimable(a)
      <4>1. worker' = [worker EXCEPT ![w].pc = "claimed"]
        BY <1>2, <3>1 DEF Claim
      <4> QED BY <4>1, <2>1, <1>0 DEF TypeOK, WorkerState
    <3>2. CASE ~Claimable(a)
      <4>1. worker' = [worker EXCEPT ![w] = Idle]
        BY <1>2, <3>2 DEF Claim
      <4> QED BY <4>1, IdleState DEF TypeOK, Idle
    <3> QED BY <3>1, <3>2
  <2> QED BY <1>2, <2>3, <2>4 DEF Claim, TypeOK, history
<1>3. CASE Load(w)
  <2>1. row[a].attempt \in Nat /\ a \in Actions
    BY <1>3, <1>0 DEF Load, Row
  <2> QED BY <1>3, <2>1, <1>0, IdleState DEF Load, TypeOK, tables, history, WorkerState, Idle
<1>4. CASE Refuse(w)
  BY <1>4, <1>0 DEF Refuse, Finishing, TypeOK, tables, history, WorkerState, Outcome
<1>5. CASE Reserve(w)
  BY <1>5, <1>0 DEF Reserve, Finishing, TypeOK, tables, history, WorkerState, Outcome
<1>6. CASE StartIdempotent(w)
  BY <1>6, <1>0 DEF StartIdempotent, TypeOK, tables, history, WorkerState
<1>7. CASE ToolEffect(w)
  <2>1. a \in Actions
    BY <1>7, <1>0 DEF ToolEffect
  <2>2. effects' \in [Actions -> Nat]
    BY <1>7, <2>1 DEF ToolEffect, TypeOK
  <2> QED BY <1>7, <2>2, <1>0 DEF ToolEffect, TypeOK, tables, WorkerState
<1>8. CASE ToolFails(w)
  <2>1. PICK o \in {"retryable", "fatal"} : worker' = Finishing(w, o)
    BY <1>8 DEF ToolFails
  <2> QED BY <1>8, <2>1, <1>0 DEF ToolFails, Finishing, TypeOK, tables, history, WorkerState, Outcome
<1>9. CASE ToolReturns(w)
  <2>1. PICK o \in {"pass", "no_method", "verify_fail"} : worker' = Finishing(w, o)
    BY <1>9 DEF ToolReturns
  <2> QED BY <1>9, <2>1, <1>0 DEF ToolReturns, Finishing, TypeOK, tables, history, WorkerState, Outcome
<1>10. CASE Heartbeat(w)
  <2>1. a \in Actions
    BY <1>10, <1>0 DEF Heartbeat
  <2>2. row' \in [Actions -> Row]
    BY <1>10, <2>1, <1>0 DEF Heartbeat, TypeOK, Row
  <2> QED BY <1>10, <2>2 DEF Heartbeat, TypeOK, history
<1>11. CASE Record(w)
  <2>1. a \in Actions
    BY <1>11, <1>0 DEF Record
  <2>2. row' \in [Actions -> Row]
    BY <1>11, <2>1, <1>0, RecordedRow DEF Record, TypeOK
  <2>3. ledger' \subseteq Actions /\ dead' \subseteq Actions
    BY <1>11, <2>1 DEF Record, LedgerAfter, TypeOK
  <2> QED BY <1>11, <2>2, <2>3, IdleState DEF Record, TypeOK, history, Idle
<1>12. ASSUME LoseTransaction(w), a \in Actions,
              faults' \in [lapse : Nat, worker : Nat, scheduler : Nat, refusal : Nat, flush : Nat]
       PROVE  TypeOK'
  <2>1. lost' \in [Actions -> Nat]
    <3>1. PICK n \in Nat : n = lost[a] + 1
      BY <1>12 DEF TypeOK
    <3>2. lost' = [lost EXCEPT ![a] = n] \/ lost' = lost
      BY <1>12, <3>1 DEF LoseTransaction
    <3> QED BY <3>1, <3>2 DEF TypeOK
  <2> QED BY <1>12, <2>1, IdleState DEF LoseTransaction, TypeOK, tables, Idle
<1>13. CASE RecordRollsBack(w)
  BY <1>13, <1>12, <1>0 DEF RecordRollsBack, TypeOK
<1>14. CASE WorkerCrash(w)
  <2>1. faults' \in [lapse : Nat, worker : Nat, scheduler : Nat, refusal : Nat, flush : Nat]
    <3>1. PICK n \in Nat : n = faults.worker - 1
      BY <1>14 DEF WorkerCrash, TypeOK
    <3>2. faults' = [faults EXCEPT !.worker = n]
      BY <1>14, <3>1 DEF WorkerCrash
    <3> QED BY <3>2 DEF TypeOK
  <2> QED BY <1>14, <1>12, <1>0, <2>1 DEF WorkerCrash
<1> QED BY <1>1, <1>2, <1>3, <1>4, <1>5, <1>6, <1>7, <1>8, <1>9, <1>10, <1>11, <1>13, <1>14
        DEF WorkerNext, WorkerStep

(* So do the passing of time and a flush of the stream.                     *)
LEMMA TypeTime ==
    ASSUME TypeOK, NEW a \in Actions, LeaseLapses(a) \/ BackoffElapses(a)
    PROVE  TypeOK'
<1>0. row[a] \in Row
  BY DEF TypeOK
<1>1. CASE LeaseLapses(a)
  <2>1. row' \in [Actions -> Row]
    BY <1>1, <1>0 DEF LeaseLapses, TypeOK, Row
  <2>2. faults' \in [lapse : Nat, worker : Nat, scheduler : Nat, refusal : Nat, flush : Nat]
    <3>1. CASE Held(a)
      <4>1. PICK n \in Nat : n = faults.lapse - 1
        BY <1>1, <3>1 DEF LeaseLapses, TypeOK
      <4>2. faults' = [faults EXCEPT !.lapse = n]
        BY <1>1, <3>1, <4>1 DEF LeaseLapses
      <4> QED BY <4>2 DEF TypeOK
    <3>2. CASE ~Held(a)
      BY <1>1, <3>2 DEF LeaseLapses, TypeOK
    <3> QED BY <3>1, <3>2
  <2> QED BY <1>1, <2>1, <2>2 DEF LeaseLapses, TypeOK, history
<1>2. CASE BackoffElapses(a)
  <2>1. row' \in [Actions -> Row]
    BY <1>2, <1>0 DEF BackoffElapses, TypeOK, Row
  <2> QED BY <1>2, <2>1 DEF BackoffElapses, TypeOK, history
<1> QED BY <1>1, <1>2

LEMMA TypeFlush ==
    ASSUME TypeOK, RedisFlush
    PROVE  TypeOK'
<1>1. PICK n \in Nat : n = faults.flush - 1
  BY DEF RedisFlush, TypeOK
<1>2. faults' = [faults EXCEPT !.flush = n]
  BY <1>1 DEF RedisFlush
<1>3. stream' = <<>> /\ UNCHANGED <<row, ledger, dead, worker, sched, effects, lost>>
  BY DEF RedisFlush, tables, history
<1>4. faults' \in [lapse : Nat, worker : Nat, scheduler : Nat, refusal : Nat, flush : Nat]
  BY <1>2 DEF TypeOK
<1>5. stream' \in Seq(Actions)
  BY <1>3
<1> QED BY <1>3, <1>4, <1>5 DEF TypeOK

(* What the tick chooses and promotes are actions.                          *)
LEMMA ChosenActions ==
    ASSUME NEW seen
    PROVE  /\ UNION {Enqueued(seen, t) : t \in Tasks} \subseteq Actions
           /\ \A a \in UNION {Enqueued(seen, t) : t \in Tasks} :
                a \in Promoted(seen) \/ row[a].status = "READY"
           /\ Promoted(seen) \subseteq Actions
           /\ \A a \in Promoted(seen) : row[a].status = "PLANNED" /\ a \in ReadyIds(seen)
BY DEF Enqueued, KeyFree, Candidates, Promoted, ReadyIds

(* What one transaction of a scheduler writes to a row.                     *)
LEMMA TickRow ==
    ASSUME NEW s \in Schedulers, TickCommit(s), NEW a \in Actions
    PROVE  \/ row'[a] = row[a]
           \/ /\ row'[a] \in {Unleased(row[a], "DISPATCHED"), [row[a] EXCEPT !.status = "READY"]}
              /\ a \in Promoted(sched[s].seen)
           \/ row'[a] = Unleased(row[a], "DISPATCHED") /\ row[a].status = "READY"
<1> DEFINE seen == sched[s].seen
           chosen == UNION {Enqueued(seen, t) : t \in Tasks}
<1>1. row' = [b \in Actions |->
                CASE b \in chosen -> Unleased(row[b], "DISPATCHED")
                  [] b \in Promoted(seen) \ chosen -> [row[b] EXCEPT !.status = "READY"]
                  [] OTHER -> row[b]]
  BY DEF TickCommit
<1>2. CASE a \in chosen
  BY <1>1, <1>2, ChosenActions
<1>3. CASE a \notin chosen /\ a \in Promoted(seen)
  BY <1>1, <1>3
<1>4. CASE a \notin chosen /\ a \notin Promoted(seen)
  BY <1>1, <1>4
<1> QED BY <1>2, <1>3, <1>4

LEMMA ReapRow ==
    ASSUME NEW s \in Schedulers, ReapCommit(s), NEW a \in Actions
    PROVE  \/ row'[a] = row[a]
           \/ /\ row'[a] \in {Unleased(row[a], "READY"), Unleased(row[a], "FAILED")}
              /\ row[a].status = sched[s].seen[a].status
              /\ sched[s].seen[a].status \in {"DISPATCHED", "RUNNING"}
<1> DEFINE seen == sched[s].seen
<1>1. CASE Doomed(seen) \cap dead # {}
  BY <1>1 DEF ReapCommit, tables
<1>2. CASE Doomed(seen) \cap dead = {}
  <2>1. row' = [b \in Actions |->
                IF b \in Expired(seen) /\ Unmoved(b, seen)
                THEN Unleased(row[b], IF b \in Doomed(seen) THEN "FAILED" ELSE "READY")
                ELSE row[b]]
    BY <1>2 DEF ReapCommit, tables
  <2>2. CASE a \in Expired(seen) /\ Unmoved(a, seen)
    BY <2>1, <2>2 DEF Expired, Unmoved
  <2>3. CASE ~(a \in Expired(seen) /\ Unmoved(a, seen))
    BY <2>1, <2>3
  <2> QED BY <2>2, <2>3
<1> QED BY <1>1, <1>2

(* A scheduler's step keeps the types.                                      *)
LEMMA TypeScheduler ==
    ASSUME TypeOK, NEW s \in Schedulers,
           SchedulerStep(s) \/ SchedulerCrash(s) \/ PublishFails(s)
    PROVE  TypeOK'
<1>0. /\ sched[s] \in SchedulerState /\ row \in [Actions -> Row]
      /\ Unseen \in [Actions -> Row] /\ Down \in SchedulerState
  BY NewRowRow, DownState DEF TypeOK, Unseen
<1>1. ASSUME NEW p \in {"reap", "orphans", "tick"}
      PROVE  Goto(s, p) \in [Schedulers -> SchedulerState]
  BY <1>0 DEF Goto, TypeOK, SchedulerState
<1>2. AfterError(s) \in [Schedulers -> SchedulerState]
  <2>1. [Down EXCEPT !.pc = "reap", !.phase = "steady"] \in SchedulerState
    BY <1>0 DEF SchedulerState
  <2> QED BY <2>1, <1>0 DEF AfterError, TypeOK
<1>3. AfterReap(s) \in [Schedulers -> SchedulerState]
  BY <1>1 DEF AfterReap
<1>4. CASE Boot(s)
  BY <1>4, <1>1 DEF Boot, TypeOK, tables, history
<1>5. CASE ReapRead(s)
  BY <1>5, <1>0 DEF ReapRead, TypeOK, tables, history, SchedulerState
<1>6. CASE ReapCommit(s)
  <2>1. row' \in [Actions -> Row]
    <3>1. \A a \in Actions : row'[a] \in Row
      <4> SUFFICES ASSUME NEW a \in Actions PROVE row'[a] \in Row
        OBVIOUS
      <4>1. row[a] \in Row
        BY <1>0
      <4>2. Unleased(row[a], "READY") \in Row /\ Unleased(row[a], "FAILED") \in Row
        BY <4>1, UnleasedRow DEF Status, Terminal
      <4> QED BY <1>6, <4>1, <4>2, ReapRow
    <3>2. row' = row \/ row' = [a \in Actions |-> row'[a]]
      BY <1>6 DEF ReapCommit, tables
    <3> QED BY <3>1, <3>2, <1>0
  <2>2. /\ dead' \subseteq Actions /\ ledger' \subseteq Actions
        /\ sched' \in [Schedulers -> SchedulerState]
    BY <1>6, <1>2, <1>3 DEF ReapCommit, TypeOK, tables, Doomed, Expired
  <2> QED BY <1>6, <2>1, <2>2 DEF ReapCommit, TypeOK, history
<1>7. CASE ReadOrphans(s)
  BY <1>7, <1>0 DEF ReadOrphans, TypeOK, tables, history, SchedulerState
<1>8. CASE TickRead(s)
  BY <1>8, <1>0 DEF TickRead, TypeOK, tables, history, SchedulerState
<1>9. CASE TickCommit(s)
  <2>1. row' \in [Actions -> Row]
    <3>1. \A a \in Actions : row'[a] \in Row
      <4> SUFFICES ASSUME NEW a \in Actions PROVE row'[a] \in Row
        OBVIOUS
      <4>1. row[a] \in Row
        BY <1>0
      <4>2. Unleased(row[a], "DISPATCHED") \in Row /\ [row[a] EXCEPT !.status = "READY"] \in Row
        BY <4>1, UnleasedRow DEF Status, Row
      <4> QED BY <1>9, <4>1, <4>2, TickRow
    <3>2. row' = [a \in Actions |-> row'[a]]
      BY <1>9 DEF TickCommit
    <3> QED BY <3>1, <3>2
  <2>2. sched' \in [Schedulers -> SchedulerState]
    <3>1. UNION {Enqueued(sched[s].seen, t) : t \in Tasks} \in SUBSET Actions
      BY ChosenActions
    <3> QED BY <1>9, <3>1, <1>0 DEF TickCommit, TypeOK, SchedulerState
  <2> QED BY <1>9, <2>1, <2>2 DEF TickCommit, TypeOK, history
<1>10. CASE Publish(s)
  <2>1. PICK a \in sched[s].outbox :
            /\ stream' = Append(stream, a)
            /\ sched' = [sched EXCEPT ![s].outbox = @ \ {a}]
    BY <1>10 DEF Publish
  <2>2. a \in Actions
    BY <1>0 DEF SchedulerState
  <2>3. stream' \in Seq(Actions)
    BY <2>1, <2>2 DEF TypeOK
  <2>4. sched' \in [Schedulers -> SchedulerState]
    BY <2>1, <1>0 DEF TypeOK, SchedulerState
  <2> QED BY <1>10, <2>3, <2>4 DEF Publish, TypeOK, tables, history
<1>11. CASE Published(s)
  BY <1>11, <1>0 DEF Published, TypeOK, tables, history, SchedulerState
<1>12. CASE SchedulerCrash(s)
  <2>1. PICK n \in Nat : n = faults.scheduler - 1
    BY <1>12 DEF SchedulerCrash, TypeOK
  <2>2. faults' = [faults EXCEPT !.scheduler = n]
    BY <1>12, <2>1 DEF SchedulerCrash
  <2>3. faults' \in [lapse : Nat, worker : Nat, scheduler : Nat, refusal : Nat, flush : Nat]
    BY <2>2 DEF TypeOK
  <2> QED BY <1>12, <2>3, <1>0 DEF SchedulerCrash, TypeOK, tables, history
<1>13. CASE PublishFails(s)
  <2>1. PICK n \in Nat : n = faults.refusal - 1
    BY <1>13 DEF PublishFails, TypeOK
  <2>2. faults' = [faults EXCEPT !.refusal = n]
    BY <1>13, <2>1 DEF PublishFails
  <2>3. faults' \in [lapse : Nat, worker : Nat, scheduler : Nat, refusal : Nat, flush : Nat]
    BY <2>2 DEF TypeOK
  <2> QED BY <1>13, <2>3, <1>2 DEF PublishFails, TypeOK, tables, history
<1> QED BY <1>4, <1>5, <1>6, <1>7, <1>8, <1>9, <1>10, <1>11, <1>12, <1>13 DEF SchedulerStep

LEMMA TypeNext == TypeOK /\ [Next]_vars => TypeOK'
<1>1. CASE UNCHANGED vars
  BY <1>1 DEF TypeOK, vars
<1> QED BY <1>1, TypeWorker, TypeScheduler, TypeTime, TypeFlush DEF Next

(* Every variable keeps its shape, for every plan and every set of          *)
(* processes.                                                               *)
THEOREM TypeCorrect == Spec => []TypeOK
BY TypeInit, TypeNext, PTL DEF Spec

-----------------------------------------------------------------------------
(* Everything one step can do to the row of an action, by the status the    *)
(* row is read with.                                                        *)
RowMove(a) ==
    \/ row'[a] \in {row[a], [row[a] EXCEPT !.backoff = FALSE]}
    \/ /\ row[a].lease # "none"
       /\ \E l \in {"held", "lapsed"} : row'[a] = [row[a] EXCEPT !.lease = l]
    \/ /\ row[a].status \in {"DISPATCHED", "READY"}
       /\ \E w \in Workers : row'[a] = ClaimedBy(row[a], w)
    \/ /\ row[a].status = "RUNNING"
       /\ \E w \in Workers : /\ worker[w].pc = "finishing" /\ worker[w].act = a
                             /\ row'[a] = Recorded(row[a], w)
    \/ /\ row[a].status = "PLANNED" /\ \E s \in Schedulers : a \in ReadyIds(sched[s].seen)
       /\ row'[a] \in {[row[a] EXCEPT !.status = "READY"], Unleased(row[a], "DISPATCHED")}
    \/ row[a].status = "READY" /\ row'[a] = Unleased(row[a], "DISPATCHED")
    \/ /\ row[a].status \in {"DISPATCHED", "RUNNING"}
       /\ row'[a] \in {Unleased(row[a], "READY"), Unleased(row[a], "FAILED")}

LEMMA RowMoves ==
    ASSUME TypeOK, [Next]_vars
    PROVE  \A a \in Actions : RowMove(a)
<1> SUFFICES ASSUME NEW a \in Actions PROVE RowMove(a)
  OBVIOUS
<1>0. row \in [Actions -> Row]
  BY DEF TypeOK
<1>1. CASE row' = row
  BY <1>1 DEF RowMove
<1>2. ASSUME NEW w \in Workers, WorkerNext(w)
      PROVE  RowMove(a)
  <2>1. CASE Claim(w)
    <3>1. CASE Claimable(worker[w].act)
      <4>1. row' = [row EXCEPT ![worker[w].act] = ClaimedBy(row[worker[w].act], w)]
        BY <2>1, <3>1 DEF Claim
      <4> QED BY <4>1, <3>1, <1>0 DEF RowMove, Claimable
    <3>2. CASE ~Claimable(worker[w].act)
      BY <2>1, <3>2, <1>1 DEF Claim
    <3> QED BY <3>1, <3>2
  <2>2. CASE Heartbeat(w)
    <3>1. row' = [row EXCEPT ![worker[w].act].lease = "held"] /\ row[worker[w].act].lease # "none"
      BY <2>2 DEF Heartbeat
    <3> QED BY <3>1, <1>0 DEF RowMove
  <2>3. CASE Record(w)
    <3>1. CASE StillRunning(worker[w].act)
      <4>1. row' = [row EXCEPT ![worker[w].act] = Recorded(row[worker[w].act], w)]
        BY <2>3, <3>1 DEF Record
      <4>2. worker[w].pc = "finishing"
        BY <2>3 DEF Record
      <4> QED BY <4>1, <4>2, <3>1, <1>0 DEF RowMove, StillRunning
    <3>2. CASE ~StillRunning(worker[w].act)
      BY <2>3, <3>2, <1>1 DEF Record
    <3> QED BY <3>1, <3>2
  <2>4. \/ Claim(w) \/ Heartbeat(w) \/ Record(w) \/ row' = row
    BY <1>2 DEF WorkerNext, WorkerStep, Receive, Load, Refuse, Reserve, StartIdempotent,
                ToolEffect, ToolFails, ToolReturns, RecordRollsBack, WorkerCrash,
                LoseTransaction, tables
  <2> QED BY <2>1, <2>2, <2>3, <2>4, <1>1
<1>3. ASSUME NEW s \in Schedulers, SchedulerStep(s) \/ SchedulerCrash(s) \/ PublishFails(s)
      PROVE  RowMove(a)
  <2>1. CASE TickCommit(s)
    BY <2>1, TickRow, ChosenActions DEF RowMove
  <2>2. CASE ReapCommit(s)
    BY <2>2, ReapRow DEF RowMove
  <2>3. TickCommit(s) \/ ReapCommit(s) \/ row' = row
    BY <1>3 DEF SchedulerStep, Boot, ReapRead, ReadOrphans, TickRead, Publish, Published,
                SchedulerCrash, PublishFails, tables
  <2> QED BY <2>1, <2>2, <2>3, <1>1
<1>4. ASSUME NEW b \in Actions, LeaseLapses(b) \/ BackoffElapses(b)
      PROVE  RowMove(a)
  <2>1. CASE LeaseLapses(b)
    <3>1. row' = [row EXCEPT ![b].lease = "lapsed"] /\ row[b].lease # "none"
      BY <2>1 DEF LeaseLapses
    <3> QED BY <3>1, <1>0 DEF RowMove
  <2>2. CASE BackoffElapses(b)
    <3>1. row' = [row EXCEPT ![b].backoff = FALSE]
      BY <2>2 DEF BackoffElapses
    <3> QED BY <3>1, <1>0 DEF RowMove
  <2> QED BY <1>4, <2>1, <2>2
<1>5. RedisFlush \/ UNCHANGED vars => row' = row
  BY DEF RedisFlush, tables, vars
<1> QED BY <1>1, <1>2, <1>3, <1>4, <1>5 DEF Next

(* What a status says about the rest of its row.  Neither conjunct is       *)
(* needed for the other, but every write of a row has to keep both.         *)
RowInv == TypeOK /\ LeaseIffRunning /\ ResultMeansFinished

LEMMA RowInvInit == Init => RowInv
<1> SUFFICES ASSUME Init PROVE RowInv
  OBVIOUS
<1>1. \A a \in Actions : row[a] = NewRow
  BY DEF Init
<1> QED BY <1>1, TypeInit DEF RowInv, LeaseIffRunning, ResultMeansFinished, NewRow

LEMMA RowInvNext == RowInv /\ [Next]_vars => RowInv'
<1> SUFFICES ASSUME RowInv, [Next]_vars PROVE RowInv'
  OBVIOUS
<1>1. TypeOK'
  BY TypeNext DEF RowInv
<1>2. ASSUME NEW a \in Actions
      PROVE  /\ row'[a].status = "RUNNING" <=> row'[a].lease # "none"
             /\ row'[a].status = "RUNNING" <=> row'[a].owner # NoWorker
             /\ row'[a].result => row'[a].status \in Terminal
  <2>0. /\ row[a] \in Row /\ RowMove(a)
        /\ row[a].status = "RUNNING" <=> row[a].lease # "none"
        /\ row[a].status = "RUNNING" <=> row[a].owner # NoWorker
        /\ row[a].result => row[a].status \in Terminal
    BY RowMoves DEF RowInv, TypeOK, LeaseIffRunning, ResultMeansFinished
  <2>1. CASE row'[a] \in {row[a], [row[a] EXCEPT !.backoff = FALSE]}
    BY <2>0, <2>1 DEF Row
  <2>2. CASE /\ row[a].lease # "none"
             /\ \E l \in {"held", "lapsed"} : row'[a] = [row[a] EXCEPT !.lease = l]
    BY <2>0, <2>2 DEF Row
  <2>3. CASE /\ row[a].status \in {"DISPATCHED", "READY"}
             /\ \E w \in Workers : row'[a] = ClaimedBy(row[a], w)
    BY <2>0, <2>3, ClaimedRow, ProcessAssumption DEF Terminal
  <2>4. CASE row[a].status = "RUNNING" /\ \E w \in Workers : row'[a] = Recorded(row[a], w)
    BY <2>0, <2>4, RecordedRow DEF Terminal
  <2>5. CASE /\ row[a].status = "PLANNED"
             /\ row'[a] \in {[row[a] EXCEPT !.status = "READY"], Unleased(row[a], "DISPATCHED")}
    BY <2>0, <2>5, UnleasedRow DEF Row, Status, Terminal
  <2>6. CASE row[a].status = "READY" /\ row'[a] = Unleased(row[a], "DISPATCHED")
    BY <2>0, <2>6, UnleasedRow DEF Status, Terminal
  <2>7. CASE /\ row[a].status \in {"DISPATCHED", "RUNNING"}
             /\ row'[a] \in {Unleased(row[a], "READY"), Unleased(row[a], "FAILED")}
    BY <2>0, <2>7, UnleasedRow DEF Status, Terminal
  <2> QED BY <2>0, <2>1, <2>2, <2>3, <2>4, <2>5, <2>6, <2>7 DEF RowMove
<1> QED BY <1>1, <1>2 DEF RowInv, LeaseIffRunning, ResultMeansFinished

LEMMA RowInvAlways == Spec => []RowInv
BY RowInvInit, RowInvNext, PTL DEF Spec

(* A row is leased and owned exactly while it is RUNNING: the reaper's      *)
(* query finds every running action, and no other.                          *)
THEOREM LeaseSound == Spec => []LeaseIffRunning
<1>1. RowInv => LeaseIffRunning
  BY DEF RowInv
<1> QED BY <1>1, RowInvAlways, PTL

(* A stored result belongs to a finished action: nothing returns an action  *)
(* with a result to the queue.                                              *)
THEOREM ResultSound == Spec => []ResultMeansFinished
<1>1. RowInv => ResultMeansFinished
  BY DEF RowInv
<1> QED BY <1>1, RowInvAlways, PTL

(* No zombie's outcome, stale stream entry or late reaper revises a         *)
(* finished row.  The lease invariant is what keeps time off it.            *)
LEMMA FinishedRowStays ==
    ASSUME RowInv, [Next]_vars, NEW a \in Actions, row[a].status \in Terminal
    PROVE  [row'[a] EXCEPT !.backoff = FALSE] = [row[a] EXCEPT !.backoff = FALSE]
<1>1. row[a] \in Row /\ RowMove(a) /\ row[a].lease = "none"
  BY RowMoves DEF RowInv, TypeOK, LeaseIffRunning, Terminal
<1>2. row'[a] \in {row[a], [row[a] EXCEPT !.backoff = FALSE]}
  BY <1>1 DEF RowMove, Terminal
<1> QED BY <1>1, <1>2 DEF Row

THEOREM OutcomesAreFinal == Spec => OutcomeIsFinal
<1>1. RowInv /\ [Next]_vars =>
        [\A a \in Actions : row[a].status \in Terminal =>
            [row'[a] EXCEPT !.backoff = FALSE] = [row[a] EXCEPT !.backoff = FALSE]]_vars
  BY FinishedRowStays
<1> QED BY <1>1, RowInvAlways, PTL DEF Spec, OutcomeIsFinal

-----------------------------------------------------------------------------
(* Dependencies.  A scheduler decides on rows it read earlier.  What makes  *)
(* that safe is that a finished row no longer moves: the snapshot can be    *)
(* stale about everything except about what has ended.                      *)
DependencyInv == RowInv /\ SnapshotTerminalStable /\ StartedAfterDependencies

LEMMA SnapshotMoves ==
    ASSUME TypeOK, [Next]_vars, NEW s \in Schedulers
    PROVE  \/ sched'[s].seen = sched[s].seen
           \/ sched'[s].seen = Unseen
           \/ sched'[s].seen = row /\ row' = row
<1>0. \A r \in Schedulers : sched[r] \in SchedulerState
  BY DEF TypeOK
<1>1. CASE UNCHANGED sched
  BY <1>1
<1>2. ASSUME NEW r \in Schedulers, SchedulerStep(r) \/ SchedulerCrash(r) \/ PublishFails(r)
      PROVE  \/ sched'[s].seen = sched[s].seen
             \/ sched'[s].seen = Unseen
             \/ sched'[s].seen = row /\ row' = row
  <2>1. ASSUME NEW p, sched' = Goto(r, p)
        PROVE  sched'[s].seen \in {sched[s].seen, Unseen}
    BY <2>1, <1>0 DEF Goto, TypeOK, SchedulerState
  <2>2. CASE sched' = AfterError(r)
    <3>1. Down.seen = Unseen /\ [Down EXCEPT !.pc = "reap", !.phase = "steady"].seen = Unseen
      BY DEF Down
    <3> QED BY <2>2, <3>1, <1>0 DEF AfterError, TypeOK
  <2>3. CASE Boot(r)
    BY <2>1, <2>3 DEF Boot
  <2>4. CASE ReapRead(r)
    BY <2>4, <1>0 DEF ReapRead, tables, TypeOK, SchedulerState
  <2>5. CASE ReapCommit(r)
    BY <2>1, <2>2, <2>5 DEF ReapCommit, AfterReap
  <2>6. CASE ReadOrphans(r)
    BY <2>6, <1>0 DEF ReadOrphans, TypeOK, SchedulerState
  <2>7. CASE TickRead(r)
    BY <2>7, <1>0 DEF TickRead, tables, TypeOK, SchedulerState
  <2>8. CASE TickCommit(r)
    BY <2>8, <1>0 DEF TickCommit, TypeOK, SchedulerState
  <2>9. CASE Publish(r)
    <3>1. PICK a \in sched[r].outbox : sched' = [sched EXCEPT ![r].outbox = @ \ {a}]
      BY <2>9 DEF Publish
    <3> QED BY <3>1, <1>0 DEF TypeOK, SchedulerState
  <2>12. CASE Published(r)
    BY <2>12, <1>0 DEF Published, TypeOK, SchedulerState
  <2>10. CASE SchedulerCrash(r)
    <3>1. Down.seen = Unseen
      BY DEF Down
    <3> QED BY <2>10, <3>1, <1>0 DEF SchedulerCrash, TypeOK
  <2>11. CASE PublishFails(r)
    BY <2>2, <2>11 DEF PublishFails
  <2> QED BY <1>2, <2>3, <2>4, <2>5, <2>6, <2>7, <2>8, <2>9, <2>10, <2>11, <2>12 DEF SchedulerStep
<1>3. (\E w \in Workers : WorkerNext(w)) => UNCHANGED sched
  BY DEF WorkerNext, WorkerStep, Receive, Claim, Load, Refuse, Reserve, StartIdempotent,
         ToolEffect, ToolFails, ToolReturns, Heartbeat, Record, RecordRollsBack,
         WorkerCrash, LoseTransaction
<1>4. (\E a \in Actions : LeaseLapses(a) \/ BackoffElapses(a)) \/ RedisFlush => UNCHANGED sched
  BY DEF LeaseLapses, BackoffElapses, RedisFlush
<1>5. UNCHANGED vars => UNCHANGED sched
  BY DEF vars
<1> QED BY <1>1, <1>2, <1>3, <1>4, <1>5 DEF Next

LEMMA FinishedStatusStays ==
    ASSUME RowInv, [Next]_vars, NEW a \in Actions, row[a].status \in Terminal
    PROVE  row'[a].status = row[a].status
<1>1. row[a] \in Row /\ RowMove(a) /\ row[a].lease = "none"
  BY RowMoves DEF RowInv, TypeOK, LeaseIffRunning, Terminal
<1>2. row'[a] \in {row[a], [row[a] EXCEPT !.backoff = FALSE]}
  BY <1>1 DEF RowMove, Terminal
<1> QED BY <1>1, <1>2 DEF Row

LEMMA DependencyInvInit == Init => DependencyInv
<1> SUFFICES ASSUME Init PROVE DependencyInv
  OBVIOUS
<1>1. \A a \in Actions : row[a].status = "PLANNED"
  BY DEF Init, NewRow
<1>2. \A s \in Schedulers, a \in Actions : sched[s].seen[a].status = "PLANNED"
  BY DEF Init, Down, Unseen, NewRow
<1> QED BY <1>1, <1>2, RowInvInit
        DEF DependencyInv, SnapshotTerminalStable, StartedAfterDependencies, Terminal

LEMMA DependencyInvNext == DependencyInv /\ [Next]_vars => DependencyInv'
<1> SUFFICES ASSUME DependencyInv, [Next]_vars PROVE DependencyInv'
  OBVIOUS
<1>0. RowInv /\ RowInv' /\ TypeOK
  BY RowInvNext DEF DependencyInv, RowInv
<1>1. ASSUME NEW s \in Schedulers, NEW a \in Actions, sched'[s].seen[a].status \in Terminal
      PROVE  row'[a].status = sched'[s].seen[a].status
  <2>1. CASE sched'[s].seen = sched[s].seen
    <3>1. row[a].status = sched[s].seen[a].status
      BY <1>1, <2>1 DEF DependencyInv, SnapshotTerminalStable
    <3> QED BY <3>1, <1>1, <2>1, <1>0, FinishedStatusStays
  <2>2. CASE sched'[s].seen = Unseen
    BY <1>1, <2>2 DEF Unseen, NewRow, Terminal
  <2>3. CASE sched'[s].seen = row /\ row' = row
    BY <2>3
  <2> QED BY <2>1, <2>2, <2>3, <1>0, SnapshotMoves
<1>2. ASSUME NEW a \in Actions, row'[a].status # "PLANNED", NEW d \in Deps[a]
      PROVE  \/ row'[d].status = "SUCCEEDED"
             \/ row'[d].status = "UNVERIFIED" /\ a \in Tolerant
  <2>0. d \in Actions
    BY PlanAssumption
  <2>1. \/ row[d].status = "SUCCEEDED"
        \/ row[d].status = "UNVERIFIED" /\ a \in Tolerant
    <3>1. CASE row[a].status # "PLANNED"
      BY <3>1 DEF DependencyInv, StartedAfterDependencies
    <3>2. CASE row[a].status = "PLANNED"
      <4>1. row[a] \in Row /\ RowMove(a) /\ row[a].lease = "none"
        BY <1>0, <3>2, RowMoves DEF RowInv, TypeOK, LeaseIffRunning
      <4>2. PICK s \in Schedulers : a \in ReadyIds(sched[s].seen)
        BY <4>1, <3>2, <1>2 DEF RowMove, Row
      <4>3. \/ sched[s].seen[d].status = "SUCCEEDED"
            \/ sched[s].seen[d].status = "UNVERIFIED" /\ a \in Tolerant
        BY <4>2 DEF ReadyIds
      <4> QED BY <4>3, <2>0 DEF DependencyInv, SnapshotTerminalStable, Terminal
    <3> QED BY <3>1, <3>2
  <2> QED BY <2>0, <2>1, <1>0, FinishedStatusStays DEF Terminal
<1> QED BY <1>0, <1>1, <1>2 DEF DependencyInv, SnapshotTerminalStable, StartedAfterDependencies

LEMMA DependencyInvAlways == Spec => []DependencyInv
BY DependencyInvInit, DependencyInvNext, PTL DEF Spec

(* Whatever a scheduler saw end still has that status when it decides.      *)
THEOREM SnapshotsSound == Spec => []SnapshotTerminalStable
<1>1. DependencyInv => SnapshotTerminalStable
  BY DEF DependencyInv
<1> QED BY <1>1, DependencyInvAlways, PTL

(* No action starts before everything it depends on ended acceptably,       *)
(* however many schedulers decide on stale rows.                            *)
THEOREM DependenciesFirst == Spec => []StartedAfterDependencies
<1>1. DependencyInv => StartedAfterDependencies
  BY DEF DependencyInv
<1> QED BY <1>1, DependencyInvAlways, PTL

-----------------------------------------------------------------------------
(* The engine implements PlanExecution.                                     *)
planPhase == [a \in Actions |-> PhaseOf(row[a].status)]

LEMMA PhaseInit == Init => Plan!Init
<1> SUFFICES ASSUME Init PROVE Plan!Init
  OBVIOUS
<1>1. \A a \in Actions : PhaseOf(row[a].status) = "blocked"
  BY DEF Init, NewRow, PhaseOf
<1> QED BY <1>1 DEF Plan!Init

(* A scheduler's tick opens a set of actions whose dependencies have ended. *)
LEMMA PhaseTick ==
    ASSUME DependencyInv, NEW s \in Schedulers, TickCommit(s)
    PROVE  Plan!Next
<1> DEFINE S == {a \in Actions : row[a].status = "PLANNED" /\ row'[a].status # "PLANNED"}
<1>0. \A a \in Actions : row[a] \in Row
  BY DEF DependencyInv, RowInv, TypeOK
<1>1. ASSUME NEW a \in Actions
      PROVE  PhaseOf(row'[a].status) = IF a \in S THEN "open" ELSE PhaseOf(row[a].status)
  <2>1. CASE row'[a] = row[a]
    BY <2>1
  <2>2. CASE /\ row'[a] \in {Unleased(row[a], "DISPATCHED"), [row[a] EXCEPT !.status = "READY"]}
             /\ a \in Promoted(sched[s].seen)
    <3>1. row'[a].status \in {"DISPATCHED", "READY"} /\ row[a].status = "PLANNED"
      BY <2>2, <1>0, UnleasedRow, ChosenActions DEF Status, Row
    <3> QED BY <3>1 DEF PhaseOf
  <2>3. CASE row'[a] = Unleased(row[a], "DISPATCHED") /\ row[a].status = "READY"
    <3>1. row'[a].status = "DISPATCHED"
      BY <2>3, <1>0, UnleasedRow DEF Status
    <3> QED BY <3>1, <2>3 DEF PhaseOf
  <2> QED BY <2>1, <2>2, <2>3, TickRow
<1>2. ASSUME NEW a \in S
      PROVE  /\ PhaseOf(row[a].status) = "blocked"
             /\ \A d \in Deps[a] : Plan!Acceptable(a, d)
  <2>1. a \in Promoted(sched[s].seen)
    BY <1>2, TickRow
  <2>2. ASSUME NEW d \in Deps[a]
        PROVE  Plan!Acceptable(a, d)
    <3>1. d \in Actions
      BY <1>2, PlanAssumption
    <3>2. \/ row[d].status = "SUCCEEDED"
          \/ row[d].status = "UNVERIFIED" /\ a \in Tolerant
      BY <2>1, <3>1, ChosenActions
         DEF ReadyIds, DependencyInv, SnapshotTerminalStable, Terminal
    <3> QED BY <3>1, <3>2 DEF Plan!Acceptable, PhaseOf
  <2> QED BY <2>2 DEF PhaseOf
<1>3. S \in SUBSET Actions
  OBVIOUS
<1>4. Plan!Open(S)
  BY <1>1, <1>2 DEF Plan!Open
<1> QED BY <1>3, <1>4 DEF Plan!Next

(* A reaper pass fails a set of open actions and changes no other phase.    *)
LEMMA PhaseReap ==
    ASSUME RowInv, NEW s \in Schedulers, ReapCommit(s)
    PROVE  Plan!Next
<1> DEFINE S == {a \in Actions : row[a].status # "FAILED" /\ row'[a].status = "FAILED"}
<1>0. \A a \in Actions : row[a] \in Row
  BY DEF RowInv, TypeOK
<1>1. ASSUME NEW a \in Actions
      PROVE  /\ PhaseOf(row'[a].status) = IF a \in S THEN "failed" ELSE PhaseOf(row[a].status)
             /\ a \in S => PhaseOf(row[a].status) = "open"
  <2>1. CASE row'[a] = row[a]
    BY <2>1
  <2>2. CASE /\ row'[a] \in {Unleased(row[a], "READY"), Unleased(row[a], "FAILED")}
             /\ row[a].status \in {"DISPATCHED", "RUNNING"}
    <3>1. row'[a].status \in {"READY", "FAILED"}
      BY <2>2, <1>0, UnleasedRow DEF Status, Terminal
    <3> QED BY <3>1, <2>2 DEF PhaseOf
  <2> QED BY <2>1, <2>2, ReapRow
<1>2. S \in SUBSET Actions
  OBVIOUS
<1>3. Plan!End(S, "failed")
  BY <1>1 DEF Plan!End
<1> QED BY <1>2, <1>3 DEF Plan!Next, Plan!Ended

(* A worker that records an outcome ends its action, returns it, or, with   *)
(* its claim gone, changes nothing.                                         *)
LEMMA PhaseRecord ==
    ASSUME RowInv, NEW w \in Workers, Record(w)
    PROVE  Plan!Next \/ \A a \in Actions : PhaseOf(row'[a].status) = PhaseOf(row[a].status)
<1> DEFINE a == worker[w].act
<1>0. row \in [Actions -> Row] /\ a \in Actions
  BY DEF RowInv, TypeOK, Record
<1>1. CASE ~StillRunning(a)
  BY <1>1 DEF Record
<1>2. CASE StillRunning(a)
  <2>1. /\ row' = [row EXCEPT ![a] = Recorded(row[a], w)]
        /\ PhaseOf(row[a].status) = "open"
    BY <1>2 DEF Record, StillRunning, PhaseOf
  <2>2. Recorded(row[a], w).status \in {"READY", "SUCCEEDED", "UNVERIFIED", "FAILED"}
    BY <1>0, RecordedRow
  <2>3. CASE Recorded(row[a], w).status = "READY"
    BY <1>0, <2>1, <2>3 DEF PhaseOf
  <2>4. CASE Recorded(row[a], w).status # "READY"
    <3> DEFINE o == PhaseOf(Recorded(row[a], w).status)
    <3>1. o \in Plan!Ended
      BY <2>2, <2>4 DEF PhaseOf, Plan!Ended
    <3>2. \A b \in Actions : PhaseOf(row'[b].status) = IF b \in {a} THEN o ELSE PhaseOf(row[b].status)
      BY <1>0, <2>1
    <3>3. Plan!End({a}, o)
      BY <1>0, <2>1, <3>2 DEF Plan!End
    <3> QED BY <1>0, <3>1, <3>3 DEF Plan!Next
  <2> QED BY <2>3, <2>4
<1> QED BY <1>1, <1>2

(* Every other step leaves every phase alone.                               *)
LEMMA PhaseStutter ==
    ASSUME RowInv, [Next]_vars,
           ~\E w \in Workers : Record(w),
           ~\E s \in Schedulers : ReapCommit(s) \/ TickCommit(s)
    PROVE  \A a \in Actions : PhaseOf(row'[a].status) = PhaseOf(row[a].status)
<1>0. row \in [Actions -> Row]
  BY DEF RowInv, TypeOK
<1>1. CASE row' = row
  BY <1>1
<1>2. ASSUME NEW w \in Workers, WorkerNext(w)
      PROVE  \A a \in Actions : PhaseOf(row'[a].status) = PhaseOf(row[a].status)
  <2>1. CASE Claim(w) /\ Claimable(worker[w].act)
    <3>1. row' = [row EXCEPT ![worker[w].act] = ClaimedBy(row[worker[w].act], w)]
      BY <2>1 DEF Claim
    <3>2. worker[w].act \in Actions
      BY <2>1 DEF Claim, RowInv, TypeOK
    <3>3. ClaimedBy(row[worker[w].act], w).status = "RUNNING"
      BY <1>0, <3>2, ClaimedRow
    <3> QED BY <1>0, <2>1, <3>1, <3>3 DEF Claimable, PhaseOf
  <2>2. CASE Claim(w) /\ ~Claimable(worker[w].act)
    BY <2>2, <1>1 DEF Claim
  <2>3. CASE Heartbeat(w)
    BY <2>3, <1>0 DEF Heartbeat, Row
  <2>4. \/ Claim(w) \/ Heartbeat(w) \/ Record(w) \/ row' = row
    BY <1>2 DEF WorkerNext, WorkerStep, Receive, Load, Refuse, Reserve, StartIdempotent,
                ToolEffect, ToolFails, ToolReturns, RecordRollsBack, WorkerCrash,
                LoseTransaction, tables
  <2> QED BY <2>1, <2>2, <2>3, <2>4, <1>1
<1>3. ASSUME NEW s \in Schedulers, SchedulerStep(s) \/ SchedulerCrash(s) \/ PublishFails(s)
      PROVE  row' = row
  BY <1>3 DEF SchedulerStep, Boot, ReapRead, ReadOrphans, TickRead, Publish, Published,
              SchedulerCrash, PublishFails, tables
<1>4. ASSUME NEW b \in Actions, LeaseLapses(b) \/ BackoffElapses(b)
      PROVE  \A a \in Actions : PhaseOf(row'[a].status) = PhaseOf(row[a].status)
  BY <1>4, <1>0 DEF LeaseLapses, BackoffElapses, Row
<1>5. RedisFlush \/ UNCHANGED vars => row' = row
  BY DEF RedisFlush, tables, vars
<1> QED BY <1>1, <1>2, <1>3, <1>4, <1>5 DEF Next

LEMMA PhaseNext ==
    ASSUME DependencyInv, [Next]_vars
    PROVE  Plan!Next \/ UNCHANGED planPhase
<1>1. CASE \E w \in Workers : Record(w)
  BY <1>1, PhaseRecord DEF DependencyInv, planPhase
<1>2. CASE \E s \in Schedulers : ReapCommit(s)
  BY <1>2, PhaseReap DEF DependencyInv
<1>3. CASE \E s \in Schedulers : TickCommit(s)
  BY <1>3, PhaseTick
<1>4. CASE /\ ~\E w \in Workers : Record(w)
           /\ ~\E s \in Schedulers : ReapCommit(s) \/ TickCommit(s)
  BY <1>4, PhaseStutter DEF DependencyInv, planPhase
<1> QED BY <1>1, <1>2, <1>3, <1>4

(* Workers, schedulers, lost transactions and stale decisions together      *)
(* still implement the plan: an action opens only after its dependencies    *)
(* ended acceptably and an outcome is recorded once.                        *)
THEOREM EngineImplementsPlan == Spec => ImplementsPlan
<1>1. DependencyInv /\ [Next]_vars => [Plan!Next]_planPhase
  BY PhaseNext
<1> QED BY <1>1, PhaseInit, DependencyInvAlways, PTL DEF Spec, ImplementsPlan, Plan!Spec, planPhase

(* What a tick decides on is still so when it writes, and so nothing starts *)
(* before what it depends on (ready_ids, promote_ready).                    *)
THEOREM DependenciesSound == Spec => []DependenciesHold
<1>1. StartedAfterDependencies /\ SnapshotTerminalStable => DependenciesHold
  BY DEF DependenciesHold
<1> QED BY <1>1, DependenciesFirst, SnapshotsSound, PTL

(* The rows keep their shape, leases go with RUNNING and results with ends, *)
(* for every plan, every set of processes and every bound on faults.        *)
THEOREM RowsSound == Spec => []RowsAreSound
<1>1. TypeOK /\ LeaseIffRunning /\ ResultMeansFinished => RowsAreSound
  BY DEF RowsAreSound
<1> QED BY <1>1, TypeCorrect, LeaseSound, ResultSound, PTL

-----------------------------------------------------------------------------
(* External effects.  What the side-effect ledger and the open transactions *)
(* of the workers guarantee about them, however many leases lapse, attempts *)
(* overlap and processes die.                                               *)

(* What a worker's program point says about its open transaction: a         *)
(* reservation belongs to a non-idempotent action being executed, and a     *)
(* non-idempotent tool never runs without one.                              *)
TransactionInv ==
    \A w \in Workers :
        /\ worker[w].reserved =>
            worker[w].pc \in {"executing", "finishing"} /\ worker[w].act \in NonIdempotent
        /\ worker[w].effected => worker[w].pc \in {"executing", "finishing"}
        /\ (worker[w].pc = "executing" \/ worker[w].effected) /\ worker[w].act \in NonIdempotent =>
            worker[w].reserved

(* Every effect of a non-idempotent action is accounted for: by a           *)
(* transaction that was lost, by the committed ledger row, or by the one    *)
(* open transaction that holds the reservation.                             *)
Accounted(a) ==
    a \in ledger \/ \E w \in Workers : worker[w].act = a /\ worker[w].effected

EffectsAccounted ==
    \A a \in NonIdempotent :
        /\ effects[a] <= lost[a] + 1
        /\ effects[a] > lost[a] => Accounted(a)

LedgerInv == TypeOK /\ TransactionInv /\ ReservationExclusive /\ EffectsAccounted

LEMMA LedgerInvInit == Init => LedgerInv
<1> SUFFICES ASSUME Init PROVE LedgerInv
  OBVIOUS
<1>1. \A w \in Workers : ~worker[w].reserved /\ ~worker[w].effected /\ worker[w].pc = "idle"
  BY DEF Init, Idle
<1>2. \A a \in NonIdempotent : effects[a] = 0 /\ lost[a] = 0
  BY PlanAssumption DEF Init
<1> QED BY <1>1, <1>2, TypeInit
        DEF LedgerInv, TransactionInv, ReservationExclusive, EffectsAccounted

(* A worker whose transaction keeps its reservation and its effect.         *)
SameTransaction(w) ==
    /\ worker'[w].reserved <=> worker[w].reserved
    /\ worker'[w].effected <=> worker[w].effected
    /\ worker'[w].reserved \/ worker'[w].effected => worker'[w].act = worker[w].act

(* A step of one worker that moves neither its reservation nor its effect   *)
(* keeps the accounts.                                                      *)
LEMMA AccountsKept ==
    ASSUME LedgerInv, TransactionInv',
           UNCHANGED <<ledger, effects, lost>>,
           \A v \in Workers : SameTransaction(v)
    PROVE  ReservationExclusive' /\ EffectsAccounted'
<1>1. ReservationExclusive'
  BY DEF LedgerInv, ReservationExclusive, SameTransaction
<1>2. ASSUME NEW a \in NonIdempotent, Accounted(a)
      PROVE  Accounted(a)'
  BY <1>2 DEF Accounted, SameTransaction
<1> QED BY <1>1, <1>2 DEF LedgerInv, EffectsAccounted

(* Losing an open transaction gives up its reservation and adds its effect, *)
(* if it had one, to the lost ones.                                         *)
LEMMA LoseKeepsAccounts ==
    ASSUME LedgerInv, NEW w \in Workers, LoseTransaction(w), worker[w].pc # "idle"
    PROVE  TransactionInv' /\ ReservationExclusive' /\ EffectsAccounted'
<1> DEFINE a == worker[w].act
<1>0. /\ a \in Actions /\ worker \in [Workers -> WorkerState]
      /\ effects \in [Actions -> Nat] /\ lost \in [Actions -> Nat]
      /\ worker' = [worker EXCEPT ![w] = Idle] /\ UNCHANGED <<ledger, effects>>
  BY DEF LedgerInv, TypeOK, LoseTransaction, tables
<1>1. ~worker'[w].reserved /\ ~worker'[w].effected /\ worker'[w].pc = "idle"
  BY <1>0 DEF Idle
<1>2. \A v \in Workers \ {w} : worker'[v] = worker[v]
  BY <1>0
<1>3. TransactionInv'
  BY <1>1, <1>2 DEF LedgerInv, TransactionInv
<1>4. ReservationExclusive'
  BY <1>0, <1>1, <1>2 DEF LedgerInv, ReservationExclusive
<1>5. ASSUME NEW b \in NonIdempotent
      PROVE  effects'[b] <= lost'[b] + 1 /\ (effects'[b] > lost'[b] => Accounted(b)')
  <2>0. /\ b \in Actions /\ effects[b] \in Nat /\ lost[b] \in Nat /\ effects'[b] = effects[b]
        /\ effects[b] <= lost[b] + 1 /\ (effects[b] > lost[b] => Accounted(b))
    BY <1>0, PlanAssumption DEF LedgerInv, EffectsAccounted
  <2>1. CASE worker[w].effected /\ b = a
    <3>1. lost' = [lost EXCEPT ![a] = lost[a] + 1]
      BY <2>1 DEF LoseTransaction
    <3>2. lost'[b] = lost[b] + 1
      BY <3>1, <2>1, <1>0
    <3> QED BY <2>0, <3>2
  <2>2. CASE ~(worker[w].effected /\ b = a)
    <3>1. lost'[b] = lost[b]
      BY <1>0, <2>0, <2>2 DEF LoseTransaction
    <3>2. Accounted(b) => Accounted(b)'
      BY <1>0, <1>2, <2>2 DEF Accounted
    <3> QED BY <2>0, <3>1, <3>2
  <2> QED BY <2>1, <2>2
<1> QED BY <1>3, <1>4, <1>5 DEF EffectsAccounted

(* The effect itself: its worker holds the reservation, so the key is not   *)
(* committed and no other open transaction has performed it.                *)
LEMMA EffectKeepsAccounts ==
    ASSUME LedgerInv, NEW w \in Workers, ToolEffect(w)
    PROVE  TransactionInv' /\ ReservationExclusive' /\ EffectsAccounted'
<1> DEFINE a == worker[w].act
<1>0. /\ a \in Actions /\ worker \in [Workers -> WorkerState]
      /\ worker[w].pc = "executing" /\ ~worker[w].effected
      /\ effects \in [Actions -> Nat] /\ lost \in [Actions -> Nat]
      /\ worker' = [worker EXCEPT ![w].effected = TRUE]
      /\ effects' = [effects EXCEPT ![a] = effects[a] + 1] /\ UNCHANGED <<ledger, lost>>
  BY DEF LedgerInv, TypeOK, ToolEffect, tables
<1>1. /\ worker'[w].effected /\ worker'[w].act = a
      /\ worker'[w].reserved = worker[w].reserved /\ worker'[w].pc = "executing"
  BY <1>0 DEF WorkerState
<1>2. \A v \in Workers \ {w} : worker'[v] = worker[v]
  BY <1>0
<1>3. TransactionInv'
  BY <1>0, <1>1, <1>2 DEF LedgerInv, TransactionInv
<1>4. ReservationExclusive'
  BY <1>0, <1>1, <1>2 DEF LedgerInv, ReservationExclusive
<1>5. ASSUME NEW b \in NonIdempotent
      PROVE  effects'[b] <= lost'[b] + 1 /\ (effects'[b] > lost'[b] => Accounted(b)')
  <2>0. /\ b \in Actions /\ effects[b] \in Nat /\ lost[b] \in Nat /\ lost'[b] = lost[b]
        /\ effects[b] <= lost[b] + 1 /\ (effects[b] > lost[b] => Accounted(b))
    BY <1>0, PlanAssumption DEF LedgerInv, EffectsAccounted
  <2>1. CASE b = a
    <3>1. worker[w].reserved
      BY <1>0, <2>1 DEF LedgerInv, TransactionInv
    <3>2. a \notin ledger
      BY <3>1 DEF LedgerInv, ReservationExclusive
    <3>3. ASSUME NEW v \in Workers PROVE ~(worker[v].act = a /\ worker[v].effected)
      <4>1. CASE v = w
        BY <4>1, <1>0
      <4>2. CASE v # w
        BY <4>2, <3>1, <2>1 DEF LedgerInv, ReservationExclusive, TransactionInv
      <4> QED BY <4>1, <4>2
    <3>4. ~Accounted(a)
      BY <3>2, <3>3 DEF Accounted
    <3>5. effects[b] <= lost[b]
      BY <3>4, <2>0, <2>1
    <3>6. effects'[b] = effects[b] + 1
      BY <1>0, <2>1
    <3>7. Accounted(b)'
      BY <1>1, <2>1 DEF Accounted
    <3> QED BY <2>0, <3>5, <3>6, <3>7
  <2>2. CASE b # a
    <3>1. effects'[b] = effects[b]
      BY <1>0, <2>0, <2>2
    <3>2. Accounted(b) => Accounted(b)'
      BY <1>0, <1>2, <2>2 DEF Accounted
    <3> QED BY <2>0, <3>1, <3>2
  <2> QED BY <2>1, <2>2
<1> QED BY <1>3, <1>4, <1>5 DEF EffectsAccounted

(* Recording an outcome commits the reservation with it.                    *)
LEMMA RecordKeepsAccounts ==
    ASSUME LedgerInv, NEW w \in Workers, Record(w)
    PROVE  TransactionInv' /\ ReservationExclusive' /\ EffectsAccounted'
<1> DEFINE a == worker[w].act
<1>0. /\ worker \in [Workers -> WorkerState] /\ worker[w].pc = "finishing"
      /\ effects \in [Actions -> Nat] /\ lost \in [Actions -> Nat]
      /\ worker' = [worker EXCEPT ![w] = Idle] /\ ledger' = LedgerAfter(w)
      /\ UNCHANGED <<effects, lost>>
  BY DEF LedgerInv, TypeOK, Record, history
<1>1. ~worker'[w].reserved /\ ~worker'[w].effected /\ worker'[w].pc = "idle"
  BY <1>0 DEF Idle
<1>2. \A v \in Workers \ {w} : worker'[v] = worker[v]
  BY <1>0
<1>3. TransactionInv'
  BY <1>1, <1>2 DEF LedgerInv, TransactionInv
<1>4. ReservationExclusive'
  <2> SUFFICES ASSUME NEW v \in Workers, NEW u \in Workers, worker'[v].reserved
               PROVE  /\ worker'[v].act \notin ledger'
                      /\ u # v /\ worker'[u].reserved => worker'[u].act # worker'[v].act
    BY DEF ReservationExclusive
  <2>1. v # w /\ worker'[v] = worker[v]
    BY <1>1, <1>2
  <2>2. worker[v].act \notin ledger /\ (worker[w].reserved => worker[v].act # a)
    BY <2>1 DEF LedgerInv, ReservationExclusive
  <2>3. worker'[v].act \notin ledger'
    BY <1>0, <2>1, <2>2 DEF LedgerAfter
  <2>4. u # v /\ worker'[u].reserved => worker'[u].act # worker'[v].act
    BY <1>1, <1>2, <2>1 DEF LedgerInv, ReservationExclusive
  <2> QED BY <2>3, <2>4
<1>5. ASSUME NEW b \in NonIdempotent, Accounted(b)
      PROVE  Accounted(b)'
  <2>1. CASE b \in ledger
    BY <1>0, <2>1 DEF Accounted, LedgerAfter
  <2>2. CASE worker[w].act = b /\ worker[w].effected
    <3>1. worker[w].reserved
      BY <2>2 DEF LedgerInv, TransactionInv
    <3> QED BY <1>0, <2>2, <3>1 DEF Accounted, LedgerAfter
  <2>3. CASE \E v \in Workers \ {w} : worker[v].act = b /\ worker[v].effected
    BY <1>2, <2>3 DEF Accounted
  <2> QED BY <1>5, <2>1, <2>2, <2>3 DEF Accounted
<1>6. EffectsAccounted'
  BY <1>0, <1>5 DEF LedgerInv, EffectsAccounted
<1> QED BY <1>3, <1>4, <1>6

(* The insert of a reservation waits for any other open one on its key.     *)
LEMMA ReserveKeepsAccounts ==
    ASSUME LedgerInv, NEW w \in Workers, Reserve(w)
    PROVE  TransactionInv' /\ ReservationExclusive' /\ EffectsAccounted'
<1> DEFINE a == worker[w].act
<1>0. /\ worker \in [Workers -> WorkerState] /\ worker[w].pc = "loaded" /\ a \in NonIdempotent
      /\ Uncontended(a) /\ UNCHANGED <<ledger, effects, lost>>
      /\ ~worker[w].reserved /\ ~worker[w].effected
  BY DEF LedgerInv, TypeOK, Reserve, tables, history, TransactionInv
<1>1. CASE a \in ledger
  <2>0. worker' = [worker EXCEPT ![w].pc = "finishing", ![w].outcome = "conflict"]
    BY <1>1 DEF Reserve, Finishing
  <2>1. \A v \in Workers : SameTransaction(v)
    BY <1>0, <2>0 DEF SameTransaction, WorkerState
  <2>2. TransactionInv'
    BY <1>0, <2>0 DEF LedgerInv, TransactionInv, WorkerState
  <2> QED BY <1>0, <2>1, <2>2, AccountsKept
<1>2. CASE a \notin ledger
  <2>0. worker' = [worker EXCEPT ![w].pc = "executing", ![w].reserved = TRUE]
    BY <1>2 DEF Reserve
  <2>1. /\ worker'[w].reserved /\ worker'[w].act = a /\ worker'[w].pc = "executing"
        /\ ~worker'[w].effected
    BY <1>0, <2>0 DEF WorkerState
  <2>2. \A v \in Workers \ {w} : worker'[v] = worker[v]
    BY <1>0, <2>0
  <2>3. TransactionInv'
    BY <1>0, <2>1, <2>2 DEF LedgerInv, TransactionInv
  <2>4. ReservationExclusive'
    BY <1>0, <1>2, <2>1, <2>2 DEF LedgerInv, ReservationExclusive, Uncontended
  <2>5. \A b \in NonIdempotent : Accounted(b) => Accounted(b)'
    BY <1>0, <2>2 DEF Accounted
  <2>6. EffectsAccounted'
    BY <1>0, <2>5 DEF LedgerInv, EffectsAccounted
  <2> QED BY <2>3, <2>4, <2>6
<1> QED BY <1>1, <1>2

(* The other steps of a worker move neither a reservation nor an effect.    *)
LEMMA OtherStepsKeepAccounts ==
    ASSUME LedgerInv, NEW w \in Workers,
           \/ Receive(w) \/ Claim(w) \/ Load(w) \/ Refuse(w) \/ StartIdempotent(w)
           \/ ToolFails(w) \/ ToolReturns(w) \/ Heartbeat(w)
    PROVE  TransactionInv' /\ ReservationExclusive' /\ EffectsAccounted'
<1>0. worker \in [Workers -> WorkerState] /\ UNCHANGED <<ledger, effects, lost>>
  BY DEF LedgerInv, TypeOK, tables, history, Receive, Claim, Load, Refuse, StartIdempotent,
         ToolFails, ToolReturns, Heartbeat
<1>1. CASE Receive(w)
  <2>1. /\ worker' = [worker EXCEPT ![w].pc = "received", ![w].act = Head(stream)]
        /\ ~worker[w].reserved /\ ~worker[w].effected
    BY <1>1 DEF Receive, LedgerInv, TransactionInv
  <2>2. \A v \in Workers : SameTransaction(v)
    BY <1>0, <2>1 DEF SameTransaction, WorkerState
  <2>3. TransactionInv'
    BY <1>0, <2>1 DEF LedgerInv, TransactionInv, WorkerState
  <2> QED BY <1>0, <2>2, <2>3, AccountsKept
<1>2. CASE Claim(w) \/ Load(w)
  <2>1. /\ ~worker[w].reserved /\ ~worker[w].effected
        /\ \A v \in Workers \ {w} : worker'[v] = worker[v]
        /\ ~worker'[w].reserved /\ ~worker'[w].effected /\ worker'[w].pc # "executing"
    BY <1>0, <1>2 DEF Claim, Load, LedgerInv, TransactionInv, WorkerState, Idle
  <2>2. \A v \in Workers : SameTransaction(v)
    BY <2>1 DEF SameTransaction
  <2>3. TransactionInv'
    BY <2>1 DEF LedgerInv, TransactionInv
  <2> QED BY <1>0, <2>2, <2>3, AccountsKept
<1>3. CASE StartIdempotent(w)
  <2>1. worker' = [worker EXCEPT ![w].pc = "executing"] /\ worker[w].act \notin NonIdempotent
    BY <1>3 DEF StartIdempotent
  <2>2. \A v \in Workers : SameTransaction(v)
    BY <1>0, <2>1 DEF SameTransaction, WorkerState
  <2>3. TransactionInv'
    BY <1>0, <2>1 DEF LedgerInv, TransactionInv, WorkerState
  <2> QED BY <1>0, <2>2, <2>3, AccountsKept
<1>4. CASE Refuse(w) \/ ToolFails(w) \/ ToolReturns(w)
  <2>1. PICK o \in Outcome : worker' = [worker EXCEPT ![w].pc = "finishing", ![w].outcome = o]
    BY <1>4 DEF Refuse, ToolFails, ToolReturns, Finishing, Outcome
  <2>2. \A v \in Workers : SameTransaction(v)
    BY <1>0, <2>1 DEF SameTransaction, WorkerState
  <2>3. TransactionInv'
    BY <1>0, <2>1 DEF LedgerInv, TransactionInv, WorkerState
  <2> QED BY <1>0, <2>2, <2>3, AccountsKept
<1>5. CASE Heartbeat(w)
  <2>1. worker' = worker
    BY <1>5 DEF Heartbeat
  <2> QED BY <1>0, <2>1, AccountsKept DEF LedgerInv, TransactionInv, SameTransaction
<1> QED BY <1>1, <1>2, <1>3, <1>4, <1>5

LEMMA LedgerInvNext == LedgerInv /\ [Next]_vars => LedgerInv'
<1> SUFFICES ASSUME LedgerInv, [Next]_vars PROVE LedgerInv'
  OBVIOUS
<1>1. TypeOK'
  BY TypeNext DEF LedgerInv
<1>2. ASSUME NEW w \in Workers, WorkerNext(w)
      PROVE  TransactionInv' /\ ReservationExclusive' /\ EffectsAccounted'
  <2>1. CASE RecordRollsBack(w) \/ WorkerCrash(w)
    BY <2>1, LoseKeepsAccounts DEF RecordRollsBack, WorkerCrash
  <2> QED BY <1>2, <2>1, EffectKeepsAccounts, RecordKeepsAccounts, ReserveKeepsAccounts,
             OtherStepsKeepAccounts DEF WorkerNext, WorkerStep
<1>3. CASE UNCHANGED <<worker, ledger, effects, lost>>
  <2>1. TransactionInv'
    BY <1>3 DEF LedgerInv, TransactionInv
  <2> QED BY <1>1, <1>3, <2>1, AccountsKept DEF SameTransaction, LedgerInv
<1>4. (\E s \in Schedulers : SchedulerStep(s) \/ SchedulerCrash(s) \/ PublishFails(s))
        => UNCHANGED <<worker, ledger, effects, lost>>
  BY DEF SchedulerStep, Boot, ReapRead, ReapCommit, ReadOrphans, TickRead, TickCommit, Publish,
         Published, SchedulerCrash, PublishFails, tables, history
<1>5. (\E a \in Actions : LeaseLapses(a) \/ BackoffElapses(a)) \/ RedisFlush \/ UNCHANGED vars
        => UNCHANGED <<worker, ledger, effects, lost>>
  BY DEF LeaseLapses, BackoffElapses, RedisFlush, tables, history, vars
<1> QED BY <1>1, <1>2, <1>3, <1>4, <1>5 DEF Next, LedgerInv

LEMMA LedgerInvAlways == Spec => []LedgerInv
BY LedgerInvInit, LedgerInvNext, PTL DEF Spec

(* Two attempts of a non-idempotent action never both hold its reservation. *)
THEOREM ReservationsExclusive == Spec => []ReservationExclusive
<1>1. LedgerInv => ReservationExclusive
  BY DEF LedgerInv
<1> QED BY <1>1, LedgerInvAlways, PTL

(* The effect of a non-idempotent tool is repeated only after a transaction *)
(* that had performed it was lost.                                          *)
THEOREM LedgerDeduplicates == Spec => []RepeatedOnlyIfLost
<1>1. LedgerInv => RepeatedOnlyIfLost
  BY DEF LedgerInv, EffectsAccounted, RepeatedOnlyIfLost
<1> QED BY <1>1, LedgerInvAlways, PTL

-----------------------------------------------------------------------------
(* A success is recorded only by an attempt whose own tool call returned,   *)
(* and such a call has had its effect.                                      *)
ReturnedInv ==
    \A w \in Workers :
        /\ worker[w].effected => effects[worker[w].act] > 0
        /\ worker[w].pc = "finishing" /\ worker[w].outcome \in {"pass", "no_method"} =>
            worker[w].effected

SuccessInv == RowInv /\ LedgerInv /\ ReturnedInv /\ SuccessHasEffect

LEMMA EffectsOnlyGrow ==
    ASSUME TypeOK, [Next]_vars
    PROVE  \A a \in Actions : effects[a] > 0 => effects'[a] > 0
<1>0. effects \in [Actions -> Nat]
  BY DEF TypeOK
<1>1. CASE \E w \in Workers : ToolEffect(w)
  <2>1. PICK w \in Workers : effects' = [effects EXCEPT ![worker[w].act] = @ + 1]
    BY <1>1 DEF ToolEffect
  <2> QED BY <1>0, <2>1
<1>2. CASE ~\E w \in Workers : ToolEffect(w)
  <2>1. effects' = effects
    BY <1>2 DEF Next, vars, WorkerNext, WorkerStep, SchedulerStep, Receive, Claim, Load, Refuse,
         Reserve, StartIdempotent, ToolFails, ToolReturns, Heartbeat, Record, RecordRollsBack,
         WorkerCrash, LoseTransaction, Boot, ReapRead, ReapCommit, ReadOrphans, TickRead,
         TickCommit, Publish, Published, SchedulerCrash, PublishFails, LeaseLapses,
         BackoffElapses, RedisFlush, history
  <2> QED BY <2>1
<1> QED BY <1>1, <1>2

LEMMA ReturnedStep ==
    ASSUME SuccessInv, NEW w \in Workers, WorkerNext(w)
    PROVE  /\ worker'[w].effected => effects'[worker'[w].act] > 0
           /\ worker'[w].pc = "finishing" /\ worker'[w].outcome \in {"pass", "no_method"} =>
                worker'[w].effected
           /\ \A v \in Workers \ {w} : worker'[v] = worker[v]
<1>0. /\ worker \in [Workers -> WorkerState] /\ effects \in [Actions -> Nat]
      /\ worker[w].effected => effects[worker[w].act] > 0
      /\ worker[w].pc = "finishing" /\ worker[w].outcome \in {"pass", "no_method"} =>
           worker[w].effected
      /\ worker[w].effected => worker[w].pc \in {"executing", "finishing"}
  BY DEF SuccessInv, RowInv, LedgerInv, TypeOK, ReturnedInv, TransactionInv
<1>1. CASE worker' = [worker EXCEPT ![w] = Idle]
  BY <1>0, <1>1 DEF Idle
<1>2. CASE Receive(w)
  BY <1>0, <1>2 DEF Receive, WorkerState
<1>3. CASE Claim(w)
  <2>1. \/ worker' = [worker EXCEPT ![w] = Idle]
        \/ worker' = [worker EXCEPT ![w].pc = "claimed"]
    BY <1>3 DEF Claim
  <2> QED BY <1>0, <1>1, <1>3, <2>1 DEF Claim, WorkerState
<1>4. CASE Load(w)
  <2>1. \/ worker' = [worker EXCEPT ![w] = Idle]
        \/ worker' = [worker EXCEPT ![w].pc = "loaded", ![w].attempt = row[worker[w].act].attempt]
    BY <1>4 DEF Load
  <2> QED BY <1>0, <1>1, <1>4, <2>1 DEF Load, WorkerState
<1>5. ASSUME NEW o \in Outcome, worker' = Finishing(w, o), UNCHANGED effects,
             o \in {"pass", "no_method"} => worker[w].effected
      PROVE  /\ worker'[w].effected => effects'[worker'[w].act] > 0
             /\ worker'[w].pc = "finishing" /\ worker'[w].outcome \in {"pass", "no_method"} =>
                  worker'[w].effected
             /\ \A v \in Workers \ {w} : worker'[v] = worker[v]
  BY <1>0, <1>5 DEF Finishing, WorkerState
<1>6. CASE Refuse(w)
  BY <1>6, <1>5 DEF Refuse, Outcome, history
<1>7. CASE Reserve(w)
  <2>1. CASE worker[w].act \in ledger
    BY <1>7, <1>5, <2>1 DEF Reserve, Outcome, history
  <2>2. CASE worker[w].act \notin ledger
    BY <1>7, <1>0, <2>2 DEF Reserve, WorkerState
  <2> QED BY <2>1, <2>2
<1>8. CASE StartIdempotent(w)
  BY <1>8, <1>0 DEF StartIdempotent, WorkerState
<1>9. CASE ToolEffect(w)
  <2>1. worker[w].act \in Actions /\ effects[worker[w].act] \in Nat
    BY <1>9 DEF ToolEffect, SuccessInv, RowInv, TypeOK
  <2>2. effects'[worker[w].act] = effects[worker[w].act] + 1
    BY <1>9, <1>0, <2>1 DEF ToolEffect
  <2>3. worker' = [worker EXCEPT ![w].effected = TRUE] /\ worker[w].pc = "executing"
    BY <1>9 DEF ToolEffect
  <2> QED BY <1>0, <2>1, <2>2, <2>3 DEF WorkerState
<1>10. CASE ToolFails(w)
  BY <1>10, <1>5 DEF ToolFails, Outcome, history
<1>11. CASE ToolReturns(w)
  BY <1>11, <1>5 DEF ToolReturns, Outcome, history
<1>12. CASE Heartbeat(w)
  BY <1>12, <1>0 DEF Heartbeat, history
<1>13. CASE Record(w) \/ RecordRollsBack(w) \/ WorkerCrash(w)
  BY <1>13, <1>1 DEF Record, RecordRollsBack, WorkerCrash, LoseTransaction
<1> QED BY <1>2, <1>3, <1>4, <1>6, <1>7, <1>8, <1>9, <1>10, <1>11, <1>12, <1>13
        DEF WorkerNext, WorkerStep

LEMMA SuccessInvInit == Init => SuccessInv
<1> SUFFICES ASSUME Init PROVE SuccessInv
  OBVIOUS
<1>1. ReturnedInv /\ SuccessHasEffect
  BY DEF Init, Idle, NewRow, ReturnedInv, SuccessHasEffect
<1> QED BY <1>1, RowInvInit, LedgerInvInit DEF SuccessInv

LEMMA SuccessInvNext == SuccessInv /\ [Next]_vars => SuccessInv'
<1> SUFFICES ASSUME SuccessInv, [Next]_vars PROVE SuccessInv'
  OBVIOUS
<1>0. /\ RowInv' /\ LedgerInv' /\ TypeOK
      /\ \A a \in Actions : effects[a] > 0 => effects'[a] > 0
  BY RowInvNext, LedgerInvNext, EffectsOnlyGrow DEF SuccessInv, RowInv
<1>1. ASSUME NEW v \in Workers, worker'[v] = worker[v]
      PROVE  /\ worker'[v].effected => effects'[worker'[v].act] > 0
             /\ worker'[v].pc = "finishing" /\ worker'[v].outcome \in {"pass", "no_method"} =>
                  worker'[v].effected
  BY <1>0, <1>1 DEF SuccessInv, ReturnedInv, TypeOK, LedgerInv, TransactionInv
<1>2. ReturnedInv'
  <2>1. CASE \E w \in Workers : WorkerNext(w)
    BY <1>1, <2>1, ReturnedStep DEF ReturnedInv
  <2>2. CASE ~\E w \in Workers : WorkerNext(w)
    <3>1. worker' = worker
      BY <2>2 DEF Next, vars, SchedulerStep, Boot, ReapRead, ReapCommit, ReadOrphans, TickRead,
           TickCommit, Publish, Published, SchedulerCrash, PublishFails, LeaseLapses,
           BackoffElapses, RedisFlush
    <3> QED BY <1>1, <3>1 DEF ReturnedInv
  <2> QED BY <2>1, <2>2
<1>3. ASSUME NEW a \in Actions, row'[a].status \in {"SUCCEEDED", "UNVERIFIED"}
      PROVE  effects'[a] > 0
  <2>0. row[a] \in Row /\ RowMove(a)
    BY <1>0, RowMoves DEF TypeOK
  <2>1. CASE row[a].status \in {"SUCCEEDED", "UNVERIFIED"}
    BY <1>0, <2>1 DEF SuccessInv, SuccessHasEffect
  <2>2. CASE row[a].status \notin {"SUCCEEDED", "UNVERIFIED"}
    <3>1. PICK w \in Workers : /\ worker[w].pc = "finishing" /\ worker[w].act = a
                               /\ row'[a] = Recorded(row[a], w)
      BY <1>3, <2>0, <2>2, ClaimedRow, UnleasedRow DEF RowMove, Row, Status, Terminal
    <3>2. worker[w].outcome \in {"pass", "no_method"}
      BY <1>3, <2>0, <3>1, RecordedRow
    <3> QED BY <1>0, <3>1, <3>2 DEF SuccessInv, ReturnedInv
  <2> QED BY <2>1, <2>2
<1> QED BY <1>0, <1>2, <1>3 DEF SuccessInv, SuccessHasEffect

(* SUCCEEDED and UNVERIFIED are recorded only over a performed effect.      *)
THEOREM SuccessIsReal == Spec => []SuccessHasEffect
<1>1. SuccessInv => SuccessHasEffect
  BY DEF SuccessInv
<1> QED BY <1>1, SuccessInvInit, SuccessInvNext, PTL DEF Spec

(* What the rows and the ledger say of the world is so: success was earned, *)
(* a reservation is one attempt's, and only a lost transaction repeats an   *)
(* effect that cannot be repeated.                                          *)
THEOREM EffectsReal == Spec => []EffectsAreReal
<1>1. SuccessHasEffect /\ ReservationExclusive /\ RepeatedOnlyIfLost => EffectsAreReal
  BY DEF EffectsAreReal
<1> QED BY <1>1, SuccessIsReal, ReservationsExclusive, LedgerDeduplicates, PTL

-----------------------------------------------------------------------------
(* The greedy pass.                                                         *)
LEMMA LeastNumber ==
    ASSUME NEW S \in SUBSET Nat, S # {}
    PROVE  \E x \in S : \A y \in S : x <= y
<1> DEFINE R == OpToRel(<, Nat)
<1>1. IsWellFoundedOn(R, Nat)
  BY NatLessThanWellFounded
<1> HIDE DEF R
<1>2. PICK x \in S : \A y \in S : <<y, x>> \notin R
  BY <1>1, WFMin
<1>3. \A y \in S : ~(y < x) /\ y \in Nat /\ x \in Nat
  BY <1>2 DEF R, OpToRel
<1> QED BY <1>3

(* A non-empty finite set of numbers has a greatest one:  *)
(* the one with the most others below it.                                   *)
Below(S, c) == {a \in S : a < c}

LEMMA GreatestExists ==
    ASSUME NEW S \in SUBSET Nat, IsFiniteSet(S), S # {}
    PROVE  \E m \in S : \A a \in S : a <= m
<1> DEFINE rank(c) == Cardinality(S) - Cardinality(Below(S, c))
           Ranks == {rank(c) : c \in S}
<1>1. \A c \in S : /\ IsFiniteSet(Below(S, c)) /\ Cardinality(Below(S, c)) \in Nat
                   /\ Cardinality(Below(S, c)) <= Cardinality(S)
  <2> SUFFICES ASSUME NEW c \in S
               PROVE  /\ IsFiniteSet(Below(S, c)) /\ Cardinality(Below(S, c)) \in Nat
                      /\ Cardinality(Below(S, c)) <= Cardinality(S)
    OBVIOUS
  <2>1. Below(S, c) \in SUBSET S
    BY DEF Below
  <2> QED BY <2>1, FS_Subset, FS_CardinalityType
<1>2. Cardinality(S) \in Nat
  BY FS_CardinalityType
<1>7. \A c \in S : rank(c) \in Nat
  BY <1>1, <1>2
<1> HIDE DEF rank
<1>3. Ranks \in SUBSET Nat /\ Ranks # {}
  BY <1>7
<1>4. PICK x \in Ranks : \A y \in Ranks : x <= y
  BY <1>3, LeastNumber
<1>5. PICK m \in S : x = rank(m)
  BY <1>4
<1>6. ASSUME NEW a \in S, a > m
      PROVE  FALSE
  <2>0. m \in Nat /\ a \in Nat /\ S \subseteq Nat
    BY <1>5, <1>6
  <2>1. Below(S, m) \cup {m} \in SUBSET Below(S, a) /\ m \notin Below(S, m)
    <3>1. ASSUME NEW b \in Below(S, m) \cup {m}
          PROVE  b \in Below(S, a)
      <4>1. b \in Nat /\ b <= m /\ b \in S
        BY <2>0, <3>1 DEF Below
      <4> QED BY <4>1, <2>0, <1>6 DEF Below
    <3>2. m \notin Below(S, m)
      BY <2>0 DEF Below
    <3> QED BY <3>1, <3>2
  <2>2. /\ IsFiniteSet(Below(S, m) \cup {m})
        /\ Cardinality(Below(S, m) \cup {m}) = Cardinality(Below(S, m)) + 1
    BY <2>1, <1>1, <1>5, FS_AddElement
  <2>3. Cardinality(Below(S, m) \cup {m}) <= Cardinality(Below(S, a))
    BY <2>1, <1>1, <1>6, FS_Subset
  <2>4. rank(a) < rank(m)
    BY <2>2, <2>3, <1>1, <1>2, <1>5 DEF rank
  <2>5. rank(a) \in Nat /\ rank(m) \in Nat /\ rank(a) \in Ranks
    BY <1>7, <1>6
  <2>6. rank(m) <= rank(a)
    BY <2>5, <1>4, <1>5
  <2> QED BY <2>4, <2>5, <2>6
<1>8. \A a \in S : a \in Nat /\ m \in Nat
  OBVIOUS
<1> QED BY <1>6, <1>8

(* Whoever is let in while fewer than the limit are in or ahead of it, the  *)
(* limit is kept: the last one let in had room for all the others.          *)
LEMMA GreedyFits ==
    ASSUME NEW F, NEW G \in SUBSET F, IsFiniteSet(F), NEW n \in Nat, Cardinality(G) <= n,
           NEW B \in SUBSET Nat, IsFiniteSet(B), NEW S \in SUBSET B,
           \A c \in S : Cardinality(F) + Cardinality(Below(B, c)) < n
    PROVE  IsFiniteSet(G \cup S) /\ Cardinality(G \cup S) <= n
<1>1. IsFiniteSet(G) /\ IsFiniteSet(S) /\ Cardinality(G) <= Cardinality(F)
  BY FS_Subset
<1>2. Cardinality(G) \in Nat /\ Cardinality(F) \in Nat /\ Cardinality(S) \in Nat
  BY <1>1, FS_CardinalityType
<1>3. /\ IsFiniteSet(G \cup S)
      /\ Cardinality(G \cup S) <= Cardinality(G) + Cardinality(S)
  <2>1. IsFiniteSet(G \cap S)
    BY <1>1, FS_Intersection
  <2>2. Cardinality(G \cap S) \in Nat
    BY <2>1, FS_CardinalityType
  <2>3. IsFiniteSet(G \cup S) /\ Cardinality(G \cup S) = Cardinality(G) + Cardinality(S) - Cardinality(G \cap S)
    BY <1>1, FS_Union
  <2> QED BY <2>2, <2>3, <1>2
<1>4. CASE S = {}
  <2>1. G \cup S = G
    BY <1>4
  <2> QED BY <2>1, <1>1
<1>5. CASE S # {}
  <2>1. S \in SUBSET Nat
    OBVIOUS
  <2>2. PICK m \in S : \A a \in S : a <= m
    BY <2>1, <1>1, <1>5, GreatestExists
  <2>3. S \in SUBSET (Below(B, m) \cup {m})
    BY <2>1, <2>2 DEF Below
  <2>4. IsFiniteSet(Below(B, m)) /\ m \notin Below(B, m)
    <3>1. Below(B, m) \in SUBSET B
      BY DEF Below
    <3>2. m \notin Below(B, m)
      BY <2>1, <2>2 DEF Below
    <3> QED BY <3>1, <3>2, FS_Subset
  <2>5. /\ IsFiniteSet(Below(B, m) \cup {m})
        /\ Cardinality(Below(B, m) \cup {m}) = Cardinality(Below(B, m)) + 1
    BY <2>4, FS_AddElement
  <2>6. Cardinality(S) <= Cardinality(Below(B, m)) + 1
    BY <2>3, <2>5, FS_Subset
  <2>7. Cardinality(Below(B, m)) \in Nat
    BY <2>4, FS_CardinalityType
  <2>8. Cardinality(F) + Cardinality(Below(B, m)) < n
    BY <2>2
  <2>9. Cardinality(G) + Cardinality(S) <= n
    BY <2>6, <2>7, <2>8, <1>1, <1>2
  <2>10. Cardinality(G \cup S) \in Nat
    BY <1>3, FS_CardinalityType
  <2> QED BY <2>9, <2>10, <1>3, <1>2
<1> QED BY <1>4, <1>5

-----------------------------------------------------------------------------
(* One tick keeps the limits of every task and of every actuator when what  *)
(* it read as in flight still covers what is.                               *)
Flying(r) == r.status \in {"DISPATCHED", "RUNNING"}

LEMMA FlyingIsInFlight ==
    ASSUME NEW t \in Tasks
    PROVE  {a \in Actions : TaskOf[a] = t /\ row[a].status \in {"DISPATCHED", "RUNNING"}}
              = InFlight(row, t)
BY DEF InFlight

LEMMA SubsetsAreFinite ==
    ASSUME NEW S \in SUBSET Actions
    PROVE  IsFiniteSet(S) /\ Cardinality(S) \in Nat /\ S \in SUBSET Nat
BY ActionsAssumption, FS_Subset, FS_CardinalityType

LEMMA FlyingShrinks ==
    ASSUME TaskParallelismBounded, \A a \in Actions : Flying(row'[a]) => Flying(row[a])
    PROVE  TaskParallelismBounded'
<1> SUFFICES ASSUME NEW t \in Tasks
             PROVE  /\ Cardinality(InFlight(row', t)) <= MaxParallel
                    /\ \A k \in Keys : Cardinality({a \in InFlight(row', t) : KeyOf[a] = k}) <= KeyLimit[k]
  BY DEF TaskParallelismBounded, InFlight
<1>1. /\ Cardinality(InFlight(row, t)) <= MaxParallel
      /\ \A k \in Keys : Cardinality({a \in InFlight(row, t) : KeyOf[a] = k}) <= KeyLimit[k]
  BY FlyingIsInFlight DEF TaskParallelismBounded
<1>2. InFlight(row', t) \in SUBSET InFlight(row, t) /\ InFlight(row, t) \in SUBSET Actions
  BY DEF InFlight, Flying
<1>3. Cardinality(InFlight(row', t)) <= MaxParallel
  <2>1. IsFiniteSet(InFlight(row, t)) /\ Cardinality(InFlight(row, t)) \in Nat
    BY <1>2, SubsetsAreFinite
  <2>2. IsFiniteSet(InFlight(row', t)) /\ Cardinality(InFlight(row', t)) <= Cardinality(InFlight(row, t))
    BY <1>2, <2>1, FS_Subset
  <2>3. Cardinality(InFlight(row', t)) \in Nat
    BY <2>2, FS_CardinalityType
  <2> QED BY <1>1, <2>1, <2>2, <2>3, LimitAssumption
<1>4. ASSUME NEW k \in Keys
      PROVE  Cardinality({a \in InFlight(row', t) : KeyOf[a] = k}) <= KeyLimit[k]
  <2> DEFINE F == {a \in InFlight(row, t) : KeyOf[a] = k}
             G == {a \in InFlight(row', t) : KeyOf[a] = k}
  <2>0. F \in SUBSET Actions /\ G \in SUBSET F /\ Cardinality(F) <= KeyLimit[k] /\ KeyLimit[k] \in Nat
    BY <1>1, <1>2, LimitAssumption
  <2> HIDE DEF F, G
  <2>1. IsFiniteSet(F) /\ Cardinality(F) \in Nat
    BY <2>0, SubsetsAreFinite
  <2>2. IsFiniteSet(G) /\ Cardinality(G) <= Cardinality(F)
    BY <2>0, <2>1, FS_Subset
  <2>3. Cardinality(G) \in Nat
    BY <2>2, FS_CardinalityType
  <2>4. Cardinality(G) <= KeyLimit[k]
    BY <2>0, <2>1, <2>2, <2>3
  <2> QED BY <2>4 DEF G
<1> QED BY <1>3, <1>4

LEMMA TickFlying ==
    ASSUME NEW s \in Schedulers, TickCommit(s), NEW t \in Tasks
    PROVE  InFlight(row', t) \in SUBSET (InFlight(row, t) \cup Enqueued(sched[s].seen, t))
<1> DEFINE seen == sched[s].seen
           chosen == UNION {Enqueued(seen, u) : u \in Tasks}
<1> SUFFICES ASSUME NEW a \in InFlight(row', t), a \notin InFlight(row, t)
             PROVE  a \in Enqueued(seen, t)
  OBVIOUS
<1>1. a \in Actions /\ TaskOf[a] = t /\ Flying(row'[a]) /\ ~Flying(row[a])
  BY DEF InFlight, Flying
<1>2. row' = [b \in Actions |->
                CASE b \in chosen -> Unleased(row[b], "DISPATCHED")
                  [] b \in Promoted(seen) \ chosen -> [row[b] EXCEPT !.status = "READY"]
                  [] OTHER -> row[b]]
  BY DEF TickCommit
<1> HIDE DEF seen, chosen
<1>3. CASE a \in chosen
  <2>1. PICK u \in Tasks : a \in Enqueued(seen, u)
    BY <1>3 DEF chosen
  <2>2. TaskOf[a] = u
    BY <2>1 DEF Enqueued, KeyFree, Candidates
  <2> QED BY <2>1, <2>2, <1>1
<1>4. CASE a \notin chosen /\ a \in Promoted(seen)
  <2>1. row'[a] = [row[a] EXCEPT !.status = "READY"]
    BY <1>1, <1>2, <1>4
  <2>2. CASE "status" \in DOMAIN row[a]
    BY <2>1, <2>2, <1>1 DEF Flying
  <2>3. CASE "status" \notin DOMAIN row[a]
    BY <2>1, <2>3, <1>1 DEF Flying
  <2> QED BY <2>2, <2>3
<1>5. CASE a \notin chosen /\ a \notin Promoted(seen)
  <2>1. row'[a] = row[a]
    BY <1>1, <1>2, <1>5
  <2> QED BY <2>1, <1>1
<1> QED BY <1>3, <1>4, <1>5

LEMMA TickKeepsLimits ==
    ASSUME TaskParallelismBounded, NEW s \in Schedulers, TickCommit(s),
           \A a \in Actions : Flying(row[a]) => Flying(sched[s].seen[a])
    PROVE  TaskParallelismBounded'
<1> DEFINE seen == sched[s].seen
<1> SUFFICES ASSUME NEW t \in Tasks
             PROVE  /\ Cardinality(InFlight(row', t)) <= MaxParallel
                    /\ \A k \in Keys : Cardinality({a \in InFlight(row', t) : KeyOf[a] = k}) <= KeyLimit[k]
  BY DEF TaskParallelismBounded, InFlight
<1>1. /\ Cardinality(InFlight(row, t)) <= MaxParallel
      /\ \A k \in Keys : Cardinality({a \in InFlight(row, t) : KeyOf[a] = k}) <= KeyLimit[k]
  BY FlyingIsInFlight DEF TaskParallelismBounded
<1>2. InFlight(row', t) \in SUBSET (InFlight(row, t) \cup Enqueued(seen, t))
  BY TickFlying
<1>3. InFlight(row, t) \in SUBSET InFlight(seen, t) /\ InFlight(seen, t) \in SUBSET Actions
  BY DEF InFlight, Flying
<1>4. /\ Enqueued(seen, t) \in SUBSET KeyFree(seen, t)
      /\ KeyFree(seen, t) \in SUBSET Candidates(seen, t)
      /\ Candidates(seen, t) \in SUBSET Actions
  BY DEF Enqueued, KeyFree, Candidates
<1> HIDE DEF seen
<1>5. Cardinality(InFlight(row', t)) <= MaxParallel
  <2>1. IsFiniteSet(InFlight(seen, t)) /\ IsFiniteSet(KeyFree(seen, t)) /\ KeyFree(seen, t) \in SUBSET Nat
    BY <1>3, <1>4, SubsetsAreFinite
  <2>2. \A c \in Enqueued(seen, t) :
            Cardinality(InFlight(seen, t)) + Cardinality(Below(KeyFree(seen, t), c)) < MaxParallel
    BY DEF Enqueued, Below
  <2>3. MaxParallel \in Nat
    BY LimitAssumption
  <2>4. /\ IsFiniteSet(InFlight(row, t) \cup Enqueued(seen, t))
        /\ Cardinality(InFlight(row, t) \cup Enqueued(seen, t)) <= MaxParallel
    BY <1>1, <1>3, <1>4, <2>1, <2>2, <2>3, GreedyFits
  <2>5. /\ IsFiniteSet(InFlight(row', t))
        /\ Cardinality(InFlight(row', t)) <= Cardinality(InFlight(row, t) \cup Enqueued(seen, t))
    BY <1>2, <2>4, FS_Subset
  <2>6. /\ Cardinality(InFlight(row', t)) \in Nat
        /\ Cardinality(InFlight(row, t) \cup Enqueued(seen, t)) \in Nat
    BY <2>4, <2>5, FS_CardinalityType
  <2> QED BY <2>3, <2>4, <2>5, <2>6
<1>6. ASSUME NEW k \in Keys
      PROVE  Cardinality({a \in InFlight(row', t) : KeyOf[a] = k}) <= KeyLimit[k]
  <2> DEFINE G == {a \in InFlight(row, t) : KeyOf[a] = k}
             F == {a \in InFlight(seen, t) : KeyOf[a] = k}
             B == {a \in Candidates(seen, t) : KeyOf[a] = k}
             S == {a \in Enqueued(seen, t) : KeyOf[a] = k}
             H == {a \in InFlight(row', t) : KeyOf[a] = k}
  <2>1. /\ G \in SUBSET F /\ F \in SUBSET Actions /\ S \in SUBSET B /\ B \in SUBSET Actions
        /\ H \in SUBSET (G \cup S) /\ Cardinality(G) <= KeyLimit[k] /\ KeyLimit[k] \in Nat
    BY <1>1, <1>2, <1>3, <1>4, LimitAssumption
  <2>2. ASSUME NEW c \in S
        PROVE  Cardinality(F) + Cardinality(Below(B, c)) < KeyLimit[k]
    <3>1. c \in KeyFree(seen, t) /\ KeyOf[c] = k /\ k # NoKey
      BY <1>4, LimitAssumption
    <3>2. Below(B, c) = {a \in Candidates(seen, t) : a < c /\ KeyOf[a] = KeyOf[c]}
      BY <3>1 DEF Below
    <3>3. F = {a \in InFlight(seen, t) : KeyOf[a] = KeyOf[c]}
      BY <3>1
    <3> HIDE DEF F, B, S
    <3> QED BY <3>1, <3>2, <3>3 DEF KeyFree
  <2>3. Cardinality(H) <= KeyLimit[k]
    <3> HIDE DEF F, G, B, S, H
    <3>1. IsFiniteSet(F) /\ IsFiniteSet(B) /\ B \in SUBSET Nat
      BY <2>1, SubsetsAreFinite
    <3>2. IsFiniteSet(G \cup S) /\ Cardinality(G \cup S) <= KeyLimit[k]
      BY <2>1, <2>2, <3>1, GreedyFits
    <3>3. IsFiniteSet(H) /\ Cardinality(H) <= Cardinality(G \cup S)
      BY <2>1, <3>2, FS_Subset
    <3>4. Cardinality(H) \in Nat /\ Cardinality(G \cup S) \in Nat
      BY <3>2, <3>3, FS_CardinalityType
    <3> QED BY <2>1, <3>2, <3>3, <3>4
  <2> QED BY <2>3
<1> QED BY <1>5, <1>6

-----------------------------------------------------------------------------
(* Where the entry of a dispatched action is: in the stream, with a worker  *)
(* that has received it, or still to be published by the dispatcher.        *)
SoleDispatcher == \A r, s \in Schedulers : r = s
FaultFree ==
    /\ Embedded /\ "received" \notin CrashPoints
    /\ MaxSchedulerCrashes = 0 /\ MaxRefusals = 0 /\ MaxFlushes = 0

NoFaultLeft == faults.scheduler = 0 /\ faults.refusal = 0 /\ faults.flush = 0

Queued(a) == \E i \in 1..Len(stream) : stream[i] = a
QueuedOnce(a) ==
    \E i \in 1..Len(stream) :
        stream[i] = a /\ \A j \in 1..Len(stream) : stream[j] = a => j = i
Receiving(w, a) == worker[w].pc = "received" /\ worker[w].act = a
Received(a) == \E w \in Workers : Receiving(w, a)
ReceivedOnce(a) ==
    \E w \in Workers : Receiving(w, a) /\ \A v \in Workers : Receiving(v, a) => v = w
Pending(a) == \E s \in Schedulers : sched[s].pc = "publish" /\ a \in sched[s].outbox

InOnePlace(a) ==
    \/ QueuedOnce(a) /\ ~Received(a) /\ ~Pending(a)
    \/ ReceivedOnce(a) /\ ~Queued(a) /\ ~Pending(a)
    \/ Pending(a) /\ ~Queued(a) /\ ~Received(a)

Uncarried(a) == ~Queued(a) /\ ~Received(a) /\ ~Pending(a)

CarriedOnce ==
    \A a \in Actions : IF row[a].status = "DISPATCHED" THEN InOnePlace(a) ELSE Uncarried(a)

(* Until the first batch is published nothing has left PLANNED, so recovery *)
(* finds no orphan and reaps nothing; a tick's snapshot covers what is in   *)
(* flight when it writes; and no snapshot holds a DISPATCHED row with a     *)
(* lease, so the reaper takes none from its entry.                          *)
Starting(s) ==
    sched[s].phase = "recover" \/ (sched[s].phase = "first" /\ sched[s].pc # "publish")

ReadsSound ==
    \A s \in Schedulers :
        /\ sched[s].phase = "recover" => sched[s].pc \notin {"tick", "tick_commit"}
        /\ sched[s].phase # "recover" => sched[s].pc \notin {"orphans", "down"}
        /\ \A a \in Actions :
            /\ Starting(s) => row[a].status = "PLANNED" /\ sched[s].seen[a].status = "PLANNED"
            /\ sched[s].pc = "tick_commit" /\ Flying(row[a]) => Flying(sched[s].seen[a])
            /\ sched[s].seen[a].lease = "lapsed" => sched[s].seen[a].status = "RUNNING"

DispatchInv ==
    RowInv /\ NoFaultLeft /\ ReadsSound /\ CarriedOnce /\ TaskParallelismBounded

LEMMA DispatchInvInit == FaultFree /\ Init => DispatchInv
<1> SUFFICES ASSUME FaultFree, Init PROVE DispatchInv
  OBVIOUS
<1>1. RowInv
  BY RowInvInit
<1>2. NoFaultLeft
  BY DEF Init, FaultFree, NoFaultLeft
<1>3. ReadsSound
  BY DEF Init, ReadsSound, Down, Unseen, NewRow, Flying
<1>4. CarriedOnce
  <2> SUFFICES ASSUME NEW a \in Actions PROVE Uncarried(a) /\ row[a].status # "DISPATCHED"
    BY DEF CarriedOnce
  <2> QED BY DEF Init, Uncarried, Queued, Received, Receiving, Pending, Idle, Down, NewRow
<1>5. TaskParallelismBounded
  <2> SUFFICES ASSUME NEW t \in Tasks
               PROVE  /\ Cardinality(InFlight(row, t)) <= MaxParallel
                      /\ \A k \in Keys : Cardinality({a \in InFlight(row, t) : KeyOf[a] = k}) <= KeyLimit[k]
    BY FlyingIsInFlight DEF TaskParallelismBounded
  <2>1. InFlight(row, t) = {}
    BY DEF InFlight, Init, NewRow
  <2>2. \A k \in Keys : {a \in InFlight(row, t) : KeyOf[a] = k} = {}
    BY <2>1
  <2> QED BY <2>1, <2>2, FS_EmptySet, LimitAssumption
<1> QED BY <1>1, <1>2, <1>3, <1>4, <1>5 DEF DispatchInv

(* A step that moves no entry and neither dispatches nor takes an action    *)
(* leaves every entry where it is.                                          *)
LEMMA EntriesStay ==
    ASSUME CarriedOnce, stream' = stream,
           \A a \in Actions : row'[a].status = "DISPATCHED" <=> row[a].status = "DISPATCHED",
           \A v \in Workers : \A a \in Actions : Receiving(v, a)' <=> Receiving(v, a),
           \A a \in Actions : Pending(a)' <=> Pending(a)
    PROVE  CarriedOnce'
<1> SUFFICES ASSUME NEW a \in Actions
             PROVE  (IF row[a].status = "DISPATCHED" THEN InOnePlace(a) ELSE Uncarried(a))'
  BY DEF CarriedOnce
<1>1. Queued(a)' <=> Queued(a)
  BY DEF Queued
<1>2. QueuedOnce(a)' <=> QueuedOnce(a)
  BY DEF QueuedOnce
<1>3. Received(a)' <=> Received(a)
  BY DEF Received
<1>4. ReceivedOnce(a)' <=> ReceivedOnce(a)
  BY DEF ReceivedOnce
<1>5. IF row[a].status = "DISPATCHED" THEN InOnePlace(a) ELSE Uncarried(a)
  BY DEF CarriedOnce
<1>6. (InOnePlace(a)' <=> InOnePlace(a)) /\ (Uncarried(a)' <=> Uncarried(a))
  BY <1>1, <1>2, <1>3, <1>4 DEF InOnePlace, Uncarried
<1> QED BY <1>5, <1>6

(* What a worker's step does to the statuses and to the entries.            *)
LEMMA WorkerMoves ==
    ASSUME FaultFree, DispatchInv, NEW w \in Workers, WorkerNext(w)
    PROVE  /\ sched' = sched /\ NoFaultLeft'
           /\ \A a \in Actions :
                \/ row'[a].status = row[a].status
                \/ row[a].status = "DISPATCHED" /\ row'[a].status = "RUNNING"
                \/ row[a].status = "RUNNING" /\ ~Flying(row'[a]) /\ row'[a].status # "PLANNED"
<1>0. /\ row \in [Actions -> Row] /\ worker[w] \in WorkerState
      /\ worker[w].pc # "idle" => worker[w].act \in Actions
      /\ faults \in [lapse : Nat, worker : Nat, scheduler : Nat, refusal : Nat, flush : Nat]
  BY DEF DispatchInv, RowInv, TypeOK
<1>1. sched' = sched
  BY DEF WorkerNext, WorkerStep, Receive, Claim, Load, Refuse, Reserve, StartIdempotent, ToolEffect,
         ToolFails, ToolReturns, Heartbeat, Record, RecordRollsBack, WorkerCrash, LoseTransaction
<1>2. NoFaultLeft'
  <2>1. CASE WorkerCrash(w)
    BY <2>1, <1>0 DEF WorkerCrash, NoFaultLeft, DispatchInv
  <2>2. CASE ~WorkerCrash(w)
    <3>1. faults' = faults
      BY <2>2 DEF WorkerNext, WorkerStep, Receive, Claim, Load, Refuse, Reserve, StartIdempotent, ToolEffect,
         ToolFails, ToolReturns, Heartbeat, Record, RecordRollsBack
    <3> QED BY <3>1 DEF NoFaultLeft, DispatchInv
  <2> QED BY <2>1, <2>2
<1>3. ASSUME NEW a \in Actions
      PROVE  \/ row'[a].status = row[a].status
             \/ row[a].status = "DISPATCHED" /\ row'[a].status = "RUNNING"
             \/ row[a].status = "RUNNING" /\ ~Flying(row'[a]) /\ row'[a].status # "PLANNED"
  <2>1. CASE Claim(w)
    <3>1. /\ worker[w].pc = "received" /\ worker[w].act \in Actions
          /\ Receiving(w, worker[w].act)
      BY <2>1, <1>0 DEF Claim, Receiving
    <3>2. row[worker[w].act].status = "DISPATCHED"
      BY <3>1 DEF DispatchInv, CarriedOnce, Uncarried, Received
    <3>3. row' = [row EXCEPT ![worker[w].act] = ClaimedBy(row[worker[w].act], w)]
      BY <2>1, <3>2 DEF Claim, Claimable
    <3>4. ClaimedBy(row[worker[w].act], w).status = "RUNNING"
      BY <3>1, <1>0, ClaimedRow
    <3> QED BY <3>2, <3>3, <3>4, <1>0
  <2>2. CASE Heartbeat(w)
    <3>1. row' = [row EXCEPT ![worker[w].act].lease = "held"]
      BY <2>2 DEF Heartbeat
    <3> QED BY <3>1, <1>0 DEF Row
  <2>3. CASE Record(w)
    <3>1. CASE StillRunning(worker[w].act)
      <4>1. row' = [row EXCEPT ![worker[w].act] = Recorded(row[worker[w].act], w)]
        BY <2>3, <3>1 DEF Record
      <4>2. worker[w].act \in Actions
        BY <2>3, <1>0 DEF Record
      <4>3. Recorded(row[worker[w].act], w).status \in {"READY", "SUCCEEDED", "UNVERIFIED", "FAILED"}
        BY <4>2, <1>0, RecordedRow
      <4> QED BY <4>1, <4>2, <4>3, <3>1, <1>0 DEF StillRunning, Flying
    <3>2. CASE ~StillRunning(worker[w].act)
      BY <2>3, <3>2 DEF Record
    <3> QED BY <3>1, <3>2
  <2>4. \/ Claim(w) \/ Heartbeat(w) \/ Record(w) \/ row' = row
    BY DEF WorkerNext, WorkerStep, Receive, Load, Refuse, Reserve, StartIdempotent,
                ToolEffect, ToolFails, ToolReturns, RecordRollsBack, WorkerCrash,
                LoseTransaction, tables
  <2> QED BY <2>1, <2>2, <2>3, <2>4
<1> QED BY <1>1, <1>2, <1>3

LEMMA ReceiveMovesEntry ==
    ASSUME DispatchInv, NEW w \in Workers, Receive(w)
    PROVE  CarriedOnce'
<1>h. PICK h \in Actions : h = Head(stream)
  BY DEF DispatchInv, RowInv, TypeOK, Receive
<1>0. /\ worker \in [Workers -> WorkerState] /\ stream \in Seq(Actions) /\ stream # <<>>
      /\ worker[w].pc = "idle"
  BY DEF DispatchInv, RowInv, TypeOK, Receive
<1>1. /\ stream' = Tail(stream) /\ row' = row /\ sched' = sched
      /\ worker' = [worker EXCEPT ![w].pc = "received", ![w].act = h]
  BY <1>h DEF Receive, tables
<1>2. /\ Len(stream) \in Nat /\ Len(stream) > 0 /\ h = stream[1] /\ h \in Actions
      /\ Len(stream') = Len(stream) - 1
      /\ \A i \in 1..Len(stream') : stream'[i] = stream[i + 1]
  BY <1>h, <1>0, <1>1
<1>3. \A a : Pending(a)' <=> Pending(a)
  BY <1>1 DEF Pending
<1>4. \A v \in Workers : \A a \in Actions :
        Receiving(v, a)' <=> Receiving(v, a) \/ (v = w /\ a = h)
  <2> SUFFICES ASSUME NEW v \in Workers, NEW a \in Actions
               PROVE  Receiving(v, a)' <=> Receiving(v, a) \/ (v = w /\ a = h)
    OBVIOUS
  <2>1. worker[v] \in WorkerState /\ worker[w] \in WorkerState
    BY <1>0
  <2>2. worker'[v] = IF v = w THEN [worker[w] EXCEPT !.pc = "received", !.act = h] ELSE worker[v]
    BY <1>0, <1>1
  <2>3. CASE v = w
    <3>1. worker'[v].pc = "received" /\ worker'[v].act = h
      BY <2>1, <2>2, <2>3 DEF WorkerState
    <3>2. worker[v].pc # "received"
      BY <1>0, <2>3
    <3> QED BY <3>1, <3>2, <2>3 DEF Receiving
  <2>4. CASE v # w
    BY <2>2, <2>4 DEF Receiving
  <2> QED BY <2>3, <2>4
<1>5. Queued(h)
  BY <1>2 DEF Queued
<1>6. row[h].status = "DISPATCHED" /\ QueuedOnce(h) /\ ~Received(h) /\ ~Pending(h)
  BY <1>2, <1>5 DEF DispatchInv, CarriedOnce, InOnePlace, Uncarried
<1>7. ~Queued(h)'
  <2>1. \A j \in 1..Len(stream) : stream[j] = h => j = 1
    BY <1>2, <1>6 DEF QueuedOnce
  <2>2. ASSUME NEW i \in 1..Len(stream'), stream'[i] = h
        PROVE  FALSE
    <3>1. i + 1 \in 1..Len(stream) /\ stream[i + 1] = h
      BY <1>2, <2>2
    <3> QED BY <3>1, <2>1
  <2> QED BY <2>2 DEF Queued
<1>8. ASSUME NEW a \in Actions, a # h
      PROVE  (Queued(a)' <=> Queued(a)) /\ (QueuedOnce(a) => QueuedOnce(a)')
  <2>1. Queued(a)' => Queued(a)
    BY <1>2 DEF Queued
  <2>2. ASSUME NEW i \in 1..Len(stream), stream[i] = a
        PROVE  i - 1 \in 1..Len(stream') /\ stream'[i - 1] = a
    <3>1. i # 1
      BY <2>2, <1>8, <1>2
    <3>2. i - 1 \in 1..Len(stream') /\ (i - 1) + 1 = i
      BY <3>1, <1>2
    <3> QED BY <3>2, <2>2, <1>2
  <2>3. Queued(a) => Queued(a)'
    BY <2>2 DEF Queued
  <2>4. ASSUME QueuedOnce(a) PROVE QueuedOnce(a)'
    <3>1. PICK i \in 1..Len(stream) : stream[i] = a /\ \A j \in 1..Len(stream) : stream[j] = a => j = i
      BY <2>4 DEF QueuedOnce
    <3>2. i - 1 \in 1..Len(stream') /\ stream'[i - 1] = a
      BY <2>2, <3>1
    <3>3. ASSUME NEW j \in 1..Len(stream'), stream'[j] = a
          PROVE  j = i - 1
      <4>1. j + 1 \in 1..Len(stream) /\ stream[j + 1] = a
        BY <3>3, <1>2
      <4>2. j + 1 = i
        BY <4>1, <3>1
      <4> QED BY <4>2
    <3> QED BY <3>2, <3>3 DEF QueuedOnce
  <2> QED BY <2>1, <2>3, <2>4
<1> SUFFICES ASSUME NEW a \in Actions
             PROVE  (IF row[a].status = "DISPATCHED" THEN InOnePlace(a) ELSE Uncarried(a))'
  BY DEF CarriedOnce
<1>9. IF row[a].status = "DISPATCHED" THEN InOnePlace(a) ELSE Uncarried(a)
  BY DEF DispatchInv, CarriedOnce
<1>10. CASE a = h
  <2>1. ReceivedOnce(h)'
    <3>1. Receiving(w, h)' /\ \A v \in Workers : Receiving(v, h)' => v = w
      <4> QED BY <1>2, <1>4, <1>6 DEF Received
    <3> QED BY <3>1 DEF ReceivedOnce
  <2>2. ~Pending(h)'
    BY <1>3, <1>6
  <2>3. InOnePlace(h)'
    BY <2>1, <2>2, <1>7 DEF InOnePlace
  <2> QED BY <2>3, <1>1, <1>6, <1>10
<1>11. CASE a # h
  <2>1. \A v \in Workers : Receiving(v, a)' <=> Receiving(v, a)
    BY <1>4, <1>11
  <2>2. (Received(a)' <=> Received(a)) /\ (ReceivedOnce(a)' <=> ReceivedOnce(a))
    BY <2>1 DEF Received, ReceivedOnce
  <2>3. (Queued(a)' <=> Queued(a)) /\ (QueuedOnce(a) => QueuedOnce(a)')
    BY <1>8, <1>11
  <2>4. /\ InOnePlace(a) => InOnePlace(a)'
        /\ Uncarried(a) => Uncarried(a)'
    BY <2>2, <2>3, <1>3 DEF InOnePlace, Uncarried
  <2> QED BY <2>4, <1>9, <1>1
<1> QED BY <1>10, <1>11

LEMMA ClaimTakesEntry ==
    ASSUME DispatchInv, NEW w \in Workers, Claim(w)
    PROVE  CarriedOnce'
<1>h. PICK h \in Actions : h = worker[w].act
  BY DEF DispatchInv, RowInv, TypeOK, Claim
<1>0. /\ worker \in [Workers -> WorkerState] /\ row \in [Actions -> Row]
      /\ worker[w].pc = "received" /\ h \in Actions
  BY DEF DispatchInv, RowInv, TypeOK, Claim
<1>1. Receiving(w, h) /\ Received(h)
  BY <1>h, <1>0 DEF Receiving, Received
<1>2. row[h].status = "DISPATCHED" /\ ReceivedOnce(h) /\ ~Queued(h) /\ ~Pending(h)
  BY <1>0, <1>1 DEF DispatchInv, CarriedOnce, InOnePlace, Uncarried
<1>3. /\ row' = [row EXCEPT ![h] = ClaimedBy(row[h], w)]
      /\ worker' = [worker EXCEPT ![w].pc = "claimed"]
      /\ stream' = stream /\ sched' = sched
  BY <1>h, <1>2 DEF Claim, Claimable
<1>4. row'[h].status = "RUNNING" /\ \A a \in Actions : a # h => row'[a] = row[a]
  BY <1>0, <1>3, ClaimedRow
<1>5. \A a : (Pending(a)' <=> Pending(a)) /\ (Queued(a)' <=> Queued(a)) /\ (QueuedOnce(a)' <=> QueuedOnce(a))
  BY <1>3 DEF Pending, Queued, QueuedOnce
<1>6. \A v \in Workers : \A a \in Actions :
        Receiving(v, a)' <=> Receiving(v, a) /\ v # w
  BY <1>0, <1>3 DEF Receiving, WorkerState
<1>7. \A v \in Workers : Receiving(v, h) => v = w
  BY <1>1, <1>2 DEF ReceivedOnce
<1>8. ~Received(h)'
  BY <1>0, <1>6, <1>7 DEF Received
<1> SUFFICES ASSUME NEW a \in Actions
             PROVE  (IF row[a].status = "DISPATCHED" THEN InOnePlace(a) ELSE Uncarried(a))'
  BY DEF CarriedOnce
<1>9. IF row[a].status = "DISPATCHED" THEN InOnePlace(a) ELSE Uncarried(a)
  BY DEF DispatchInv, CarriedOnce
<1>10. CASE a = h
  <2>1. Uncarried(h)'
    BY <1>2, <1>5, <1>8 DEF Uncarried
  <2> QED BY <2>1, <1>4, <1>10
<1>11. CASE a # h
  <2>0. ~Receiving(w, a)
    BY <1>h, <1>11 DEF Receiving
  <2>1. \A v \in Workers : Receiving(v, a)' <=> Receiving(v, a)
    BY <1>6, <2>0
  <2>2. (Received(a)' <=> Received(a)) /\ (ReceivedOnce(a)' <=> ReceivedOnce(a))
    BY <2>1 DEF Received, ReceivedOnce
  <2>3. (InOnePlace(a)' <=> InOnePlace(a)) /\ (Uncarried(a)' <=> Uncarried(a))
    BY <2>2, <1>5 DEF InOnePlace, Uncarried
  <2> QED BY <2>3, <1>4, <1>9, <1>11
<1> QED BY <1>10, <1>11

(* Every other step of a worker starts and ends away from the stream.       *)
LEMMA WorkerKeepsEntries ==
    ASSUME FaultFree, DispatchInv, NEW w \in Workers, WorkerNext(w)
    PROVE  CarriedOnce'
<1>0. worker \in [Workers -> WorkerState]
  BY DEF DispatchInv, RowInv, TypeOK
<1>1. CASE Receive(w)
  BY <1>1, ReceiveMovesEntry
<1>2. CASE Claim(w)
  BY <1>2, ClaimTakesEntry
<1>3. CASE ~Receive(w) /\ ~Claim(w)
  <2>1. /\ stream' = stream /\ sched' = sched
        /\ worker[w].pc # "received"
        /\ worker' = [worker EXCEPT ![w] = worker'[w]] /\ worker'[w].pc # "received"
    <3>1. CASE WorkerCrash(w) \/ RecordRollsBack(w) \/ Record(w)
      <4>1. worker' = [worker EXCEPT ![w] = Idle] /\ stream' = stream /\ sched' = sched
        BY <3>1 DEF WorkerCrash, RecordRollsBack, Record, LoseTransaction
      <4>2. worker[w].pc # "received"
        BY <3>1 DEF WorkerCrash, RecordRollsBack, Record, FaultFree
      <4> QED BY <4>1, <4>2, <1>0 DEF Idle
    <3>2. CASE Load(w)
      BY <3>2, <1>0 DEF Load, Idle, WorkerState
    <3>3. CASE Refuse(w) \/ ToolFails(w) \/ ToolReturns(w)
      BY <3>3, <1>0 DEF Refuse, ToolFails, ToolReturns, Finishing, WorkerState
    <3>4. CASE Reserve(w)
      BY <3>4, <1>0 DEF Reserve, Finishing, WorkerState
    <3>5. CASE StartIdempotent(w) \/ ToolEffect(w) \/ Heartbeat(w)
      BY <3>5, <1>0 DEF StartIdempotent, ToolEffect, Heartbeat, WorkerState
    <3> QED BY <1>3, <3>1, <3>2, <3>3, <3>4, <3>5 DEF WorkerNext, WorkerStep
  <2>2. \A v \in Workers : \A a \in Actions : Receiving(v, a)' <=> Receiving(v, a)
    BY <2>1, <1>0 DEF Receiving
  <2>3. \A a \in Actions : Pending(a)' <=> Pending(a)
    BY <2>1 DEF Pending
  <2>4. \A a \in Actions : row'[a].status = "DISPATCHED" <=> row[a].status = "DISPATCHED"
    <3>1. CASE row' = row
      BY <3>1
    <3>2. CASE Heartbeat(w)
      <4>1. row' = [row EXCEPT ![worker[w].act].lease = "held"]
        BY <3>2 DEF Heartbeat
      <4>2. row \in [Actions -> Row]
        BY DEF DispatchInv, RowInv, TypeOK
      <4> QED BY <4>1, <4>2 DEF Row
    <3>3. CASE Record(w)
      <4>1. CASE StillRunning(worker[w].act)
        <5>1. row' = [row EXCEPT ![worker[w].act] = Recorded(row[worker[w].act], w)]
          BY <3>3, <4>1 DEF Record
        <5>2. worker[w].act \in Actions /\ row \in [Actions -> Row]
          BY <3>3 DEF Record, DispatchInv, RowInv, TypeOK
        <5>3. Recorded(row[worker[w].act], w).status \in {"READY", "SUCCEEDED", "UNVERIFIED", "FAILED"}
          BY <5>2, RecordedRow
        <5> QED BY <5>1, <5>2, <5>3, <4>1 DEF StillRunning
      <4>2. CASE ~StillRunning(worker[w].act)
        BY <3>3, <4>2 DEF Record
      <4> QED BY <4>1, <4>2
    <3> QED BY <1>3, <3>1, <3>2, <3>3 DEF WorkerNext, WorkerStep, Load, Refuse, Reserve,
              StartIdempotent, ToolEffect, ToolFails, ToolReturns, RecordRollsBack,
              WorkerCrash, LoseTransaction, tables
  <2>5. CarriedOnce
    BY DEF DispatchInv
  <2> QED BY <2>1, <2>2, <2>3, <2>4, <2>5, EntriesStay
<1> QED BY <1>1, <1>2, <1>3

LEMMA WorkerKeepsDispatch ==
    ASSUME FaultFree, DispatchInv, RowInv', NEW w \in Workers, WorkerNext(w)
    PROVE  DispatchInv'
<1>1. /\ sched' = sched /\ NoFaultLeft'
      /\ \A a \in Actions :
            \/ row'[a].status = row[a].status
            \/ row[a].status = "DISPATCHED" /\ row'[a].status = "RUNNING"
            \/ row[a].status = "RUNNING" /\ ~Flying(row'[a]) /\ row'[a].status # "PLANNED"
  BY WorkerMoves
<1>2. \A a \in Actions : /\ Flying(row'[a]) => Flying(row[a])
                         /\ row[a].status = "PLANNED" => row'[a].status = "PLANNED"
  BY <1>1 DEF Flying
<1>3. ReadsSound'
  BY <1>1, <1>2 DEF DispatchInv, ReadsSound, Starting
<1>4. CarriedOnce'
  BY WorkerKeepsEntries
<1>5. TaskParallelismBounded'
  BY <1>2, FlyingShrinks DEF DispatchInv
<1> QED BY <1>1, <1>3, <1>4, <1>5 DEF DispatchInv

(* A step that leaves the rows and the stream alone, and that neither       *)
(* starts nor ends a publication, only has to keep the snapshots sound.     *)
LEMMA QuietSchedulerStep ==
    ASSUME SoleDispatcher, DispatchInv, RowInv', NEW s \in Schedulers,
           UNCHANGED <<row, stream, worker, faults>>, ReadsSound',
           sched[s].pc # "publish" \/ sched[s].outbox = {},
           sched'[s].pc # "publish" \/ sched'[s].outbox = {}
    PROVE  DispatchInv'
<1>1. \A r \in Schedulers : r = s
  BY DEF SoleDispatcher
<1>2. \A a \in Actions : ~Pending(a) /\ ~Pending(a)'
  BY <1>1 DEF Pending
<1>3. \A v \in Workers : \A a \in Actions : Receiving(v, a)' <=> Receiving(v, a)
  BY DEF Receiving
<1>4. CarriedOnce'
  BY <1>2, <1>3, EntriesStay DEF DispatchInv
<1>5. TaskParallelismBounded'
  BY FlyingShrinks DEF DispatchInv
<1>6. NoFaultLeft'
  BY DEF NoFaultLeft, DispatchInv
<1> QED BY <1>4, <1>5, <1>6 DEF DispatchInv

(* What a snapshot just taken, or none, says.                               *)
LEMMA SnapshotsSoundOf ==
    ASSUME SoleDispatcher, RowInv, NEW s \in Schedulers, NEW r \in SchedulerState,
           sched' = [sched EXCEPT ![s] = r], row' = row, sched \in [Schedulers -> SchedulerState],
           r.phase = "recover" => r.pc \notin {"tick", "tick_commit"},
           r.phase # "recover" => r.pc \notin {"orphans", "down"},
           r.phase = "recover" \/ (r.phase = "first" /\ r.pc # "publish")
                => \A a \in Actions : row[a].status = "PLANNED",
           r.seen = row \/ (r.seen = Unseen /\ r.pc # "tick_commit")
    PROVE  ReadsSound'
<1>1. \A q \in Schedulers : q = s
  BY DEF SoleDispatcher
<1>2. sched'[s] = r
  OBVIOUS
<1>3. \A a \in Actions : /\ row[a].status = "PLANNED" => r.seen[a].status = "PLANNED"
                         /\ r.pc = "tick_commit" /\ Flying(row[a]) => Flying(r.seen[a])
                         /\ r.seen[a].lease = "lapsed" => r.seen[a].status = "RUNNING"
  BY DEF Unseen, NewRow, RowInv, LeaseIffRunning
<1> SUFFICES ASSUME NEW q \in Schedulers
             PROVE  /\ r.phase = "recover" => r.pc \notin {"tick", "tick_commit"}
                    /\ r.phase # "recover" => r.pc \notin {"orphans", "down"}
                    /\ \A a \in Actions :
                        /\ (r.phase = "recover" \/ (r.phase = "first" /\ r.pc # "publish"))
                              => row[a].status = "PLANNED" /\ r.seen[a].status = "PLANNED"
                        /\ r.pc = "tick_commit" /\ Flying(row[a]) => Flying(r.seen[a])
                        /\ r.seen[a].lease = "lapsed" => r.seen[a].status = "RUNNING"
  BY <1>1, <1>2 DEF ReadsSound, Starting
<1> QED BY <1>3

LEMMA ReadersKeepDispatch ==
    ASSUME SoleDispatcher, DispatchInv, RowInv', NEW s \in Schedulers,
           Boot(s) \/ ReapRead(s) \/ TickRead(s) \/ ReadOrphans(s) \/ Published(s)
    PROVE  DispatchInv'
<1>0. /\ sched \in [Schedulers -> SchedulerState] /\ sched[s] \in SchedulerState
      /\ row \in [Actions -> Row] /\ Unseen \in [Actions -> Row]
  BY NewRowRow DEF DispatchInv, RowInv, TypeOK, Unseen
<1>1. /\ RowInv
      /\ sched[s].phase = "recover" => sched[s].pc \notin {"tick", "tick_commit"}
      /\ sched[s].phase # "recover" => sched[s].pc \notin {"orphans", "down"}
      /\ Starting(s) => \A a \in Actions : row[a].status = "PLANNED" /\ sched[s].seen[a].status = "PLANNED"
  BY DEF DispatchInv, ReadsSound
<1>2. CASE Boot(s)
  <2> DEFINE r == [sched[s] EXCEPT !.pc = "reap", !.seen = Unseen]
  <2>1. r \in SchedulerState /\ r.pc = "reap" /\ r.seen = Unseen /\ r.phase = sched[s].phase
    BY <1>0 DEF SchedulerState
  <2>2. sched' = [sched EXCEPT ![s] = r] /\ UNCHANGED <<row, stream, worker, faults>> /\ sched[s].pc = "down"
    BY <1>2, <1>0 DEF Boot, Goto, tables
  <2> HIDE DEF r
  <2>3. ReadsSound'
    BY <1>0, <1>1, <2>1, <2>2, SnapshotsSoundOf DEF Starting
  <2> QED BY <1>0, <2>1, <2>2, <2>3, QuietSchedulerStep
<1>3. CASE ReapRead(s)
  <2> DEFINE r == [sched[s] EXCEPT !.pc = "reap_commit", !.seen = row]
  <2>1. r \in SchedulerState /\ r.pc = "reap_commit" /\ r.seen = row /\ r.phase = sched[s].phase
    BY <1>0 DEF SchedulerState
  <2>2. sched' = [sched EXCEPT ![s] = r] /\ UNCHANGED <<row, stream, worker, faults>> /\ sched[s].pc = "reap"
    BY <1>3, <1>0 DEF ReapRead, tables
  <2> HIDE DEF r
  <2>3. ReadsSound'
    BY <1>0, <1>1, <2>1, <2>2, SnapshotsSoundOf DEF Starting
  <2> QED BY <1>0, <2>1, <2>2, <2>3, QuietSchedulerStep
<1>4. CASE TickRead(s)
  <2> DEFINE r == [sched[s] EXCEPT !.pc = "tick_commit", !.seen = row]
  <2>1. r \in SchedulerState /\ r.pc = "tick_commit" /\ r.seen = row /\ r.phase = sched[s].phase
    BY <1>0 DEF SchedulerState
  <2>2. sched' = [sched EXCEPT ![s] = r] /\ UNCHANGED <<row, stream, worker, faults>> /\ sched[s].pc = "tick"
    BY <1>4, <1>0 DEF TickRead, tables
  <2> HIDE DEF r
  <2>3. ReadsSound'
    BY <1>0, <1>1, <2>1, <2>2, SnapshotsSoundOf DEF Starting
  <2> QED BY <1>0, <2>1, <2>2, <2>3, QuietSchedulerStep
<1>5. CASE ReadOrphans(s)
  <2> DEFINE orphans == {a \in Actions : row[a].status = "DISPATCHED" /\ row[a].lease = "none"}
             r == [sched[s] EXCEPT !.pc = "publish", !.outbox = orphans]
  <2>1. sched[s].pc = "orphans" /\ sched[s].phase = "recover"
    BY <1>5, <1>1 DEF ReadOrphans
  <2>2. \A a \in Actions : row[a].status = "PLANNED" /\ sched[s].seen[a].status = "PLANNED"
    BY <2>1, <1>1 DEF Starting
  <2>3. orphans = {}
    BY <2>2
  <2>4. r \in SchedulerState /\ r.pc = "publish" /\ r.outbox = {} /\ r.phase = "recover" /\ r.seen = sched[s].seen
    BY <1>0, <2>1, <2>3 DEF SchedulerState
  <2>5. sched' = [sched EXCEPT ![s] = r] /\ UNCHANGED <<row, stream, worker, faults>>
    BY <1>5, <1>0 DEF ReadOrphans, tables
  <2> HIDE DEF r, orphans
  <2>6. ReadsSound'
    <3>1. \A q \in Schedulers : q = s
      BY DEF SoleDispatcher
    <3>2. sched'[s] = r
      BY <2>5, <1>0
    <3> SUFFICES ASSUME NEW q \in Schedulers
                 PROVE  /\ r.phase = "recover" => r.pc \notin {"tick", "tick_commit"}
                        /\ r.phase # "recover" => r.pc \notin {"orphans", "down"}
                        /\ \A a \in Actions :
                            /\ row[a].status = "PLANNED" /\ r.seen[a].status = "PLANNED"
                            /\ r.pc # "tick_commit"
                            /\ r.seen[a].lease = "lapsed" => r.seen[a].status = "RUNNING"
      BY <3>1, <3>2, <2>5 DEF ReadsSound, Starting
    <3>3. \A a \in Actions : r.seen[a].lease = "lapsed" => r.seen[a].status = "RUNNING"
      BY <2>4 DEF DispatchInv, ReadsSound
    <3> QED BY <3>3, <2>2, <2>4
  <2> QED BY <1>0, <2>1, <2>4, <2>5, <2>6, QuietSchedulerStep
<1>6. CASE Published(s)
  <2> DEFINE r == [sched[s] EXCEPT !.pc = "reap",
                       !.phase = IF sched[s].phase = "recover" THEN "first" ELSE "steady"]
  <2>1. /\ r \in SchedulerState /\ r.pc = "reap" /\ r.seen = sched[s].seen
        /\ r.phase = IF sched[s].phase = "recover" THEN "first" ELSE "steady"
    BY <1>0 DEF SchedulerState
  <2>2. /\ sched' = [sched EXCEPT ![s] = r] /\ UNCHANGED <<row, stream, worker, faults>>
        /\ sched[s].pc = "publish" /\ sched[s].outbox = {}
    BY <1>6, <1>0 DEF Published, tables
  <2> HIDE DEF r
  <2>3. ReadsSound'
    <3>1. \A q \in Schedulers : q = s
      BY DEF SoleDispatcher
    <3>2. sched'[s] = r
      BY <2>2, <1>0
    <3>3. r.phase = "first" => \A a \in Actions : row[a].status = "PLANNED" /\ r.seen[a].status = "PLANNED"
      BY <2>1, <1>1 DEF Starting
    <3>4. \A a \in Actions : r.seen[a].lease = "lapsed" => r.seen[a].status = "RUNNING"
      BY <2>1 DEF DispatchInv, ReadsSound
    <3> SUFFICES ASSUME NEW q \in Schedulers
                 PROVE  /\ r.phase = "recover" => r.pc \notin {"tick", "tick_commit"}
                        /\ r.phase # "recover" => r.pc \notin {"orphans", "down"}
                        /\ \A a \in Actions :
                            /\ r.phase # "steady" => row[a].status = "PLANNED" /\ r.seen[a].status = "PLANNED"
                            /\ r.pc # "tick_commit"
                            /\ r.seen[a].lease = "lapsed" => r.seen[a].status = "RUNNING"
      BY <3>1, <3>2, <2>2 DEF ReadsSound, Starting
    <3> QED BY <3>3, <3>4, <2>1
  <2> QED BY <1>0, <2>1, <2>2, <2>3, QuietSchedulerStep
<1> QED BY <1>2, <1>3, <1>4, <1>5, <1>6

LEMMA ReapKeepsDispatch ==
    ASSUME SoleDispatcher, FaultFree, DispatchInv, RowInv', NEW s \in Schedulers, ReapCommit(s)
    PROVE  DispatchInv'
<1> DEFINE seen == sched[s].seen
<1>0. /\ sched \in [Schedulers -> SchedulerState] /\ sched[s] \in SchedulerState
      /\ row \in [Actions -> Row] /\ Unseen \in [Actions -> Row]
      /\ sched[s].pc = "reap_commit" /\ UNCHANGED <<stream, worker, faults>> /\ RowInv
  BY NewRowRow DEF DispatchInv, RowInv, TypeOK, Unseen, ReapCommit
<1>1. /\ sched[s].phase = "recover" \/ sched[s].phase = "first" =>
            \A a \in Actions : row[a].status = "PLANNED" /\ seen[a].status = "PLANNED"
      /\ \A a \in Actions : seen[a].lease = "lapsed" => seen[a].status = "RUNNING"
  BY <1>0 DEF DispatchInv, ReadsSound, Starting
<1>2. \A a \in Actions : \/ row'[a].status = row[a].status
                         \/ row[a].status = "RUNNING" /\ row'[a].status \in {"READY", "FAILED"}
  <2> SUFFICES ASSUME NEW a \in Actions, row'[a] # row[a]
               PROVE  row[a].status = "RUNNING" /\ row'[a].status \in {"READY", "FAILED"}
    OBVIOUS
  <2>1. Doomed(seen) \cap dead = {}
    BY DEF ReapCommit, tables
  <2>2. row' = [b \in Actions |->
                IF b \in Expired(seen) /\ Unmoved(b, seen)
                THEN Unleased(row[b], IF b \in Doomed(seen) THEN "FAILED" ELSE "READY")
                ELSE row[b]]
    BY <2>1 DEF ReapCommit
  <2>3. a \in Expired(seen) /\ Unmoved(a, seen)
    BY <2>2
  <2>4. row[a].status = "RUNNING"
    BY <2>3, <1>1 DEF Expired, Unmoved
  <2>5. row'[a] \in {Unleased(row[a], "READY"), Unleased(row[a], "FAILED")}
    BY <2>2, <2>3
  <2>6. /\ Unleased(row[a], "READY").status = "READY"
        /\ Unleased(row[a], "FAILED").status = "FAILED"
    BY <1>0, UnleasedRow DEF Status, Terminal
  <2> QED BY <2>4, <2>5, <2>6
<1>3. \A a \in Actions : /\ Flying(row'[a]) => Flying(row[a])
                         /\ row'[a].status = "DISPATCHED" <=> row[a].status = "DISPATCHED"
                         /\ row[a].status = "PLANNED" => row'[a].status = "PLANNED"
  BY <1>2 DEF Flying
<1>4. PICK r \in SchedulerState :
        /\ sched' = [sched EXCEPT ![s] = r]
        /\ r.seen = Unseen
        /\ \/ r.pc = "reap" /\ r.phase = "steady"
           \/ /\ r.phase = sched[s].phase
              /\ r.pc = IF r.phase = "recover" THEN "orphans" ELSE "tick"
  <2>1. CASE Doomed(seen) \cap dead # {}
    <3>1. sched[s].phase = "steady"
      <4>1. PICK a \in Doomed(seen) : TRUE
        BY <2>1
      <4>2. a \in Actions /\ seen[a].status = "RUNNING"
        BY <4>1 DEF Doomed, Expired
      <4> QED BY <4>2, <1>0, <1>1 DEF SchedulerState
    <3> DEFINE r == [Down EXCEPT !.pc = "reap", !.phase = "steady"]
    <3>2. r \in SchedulerState /\ r.seen = Unseen /\ r.pc = "reap" /\ r.phase = "steady"
      BY <1>0, DownState DEF SchedulerState, Down
    <3>3. sched' = [sched EXCEPT ![s] = r]
      BY <2>1, <3>1 DEF ReapCommit, AfterError, FaultFree
    <3> QED BY <3>2, <3>3
  <2>2. CASE Doomed(seen) \cap dead = {}
    <3> DEFINE p == IF sched[s].phase = "recover" THEN "orphans" ELSE "tick"
               r == [sched[s] EXCEPT !.pc = p, !.seen = Unseen]
    <3>1. r \in SchedulerState /\ r.seen = Unseen /\ r.phase = sched[s].phase /\ r.pc = p
      BY <1>0 DEF SchedulerState
    <3>2. sched' = [sched EXCEPT ![s] = r]
      BY <2>2, <1>0 DEF ReapCommit, AfterReap, Goto
    <3> QED BY <3>1, <3>2
  <2> QED BY <2>1, <2>2
<1>5. \A q \in Schedulers : q = s
  BY DEF SoleDispatcher
<1>6. sched'[s] = r
  BY <1>4, <1>0
<1>7. ReadsSound'
  <2>1. \A a \in Actions : Unseen[a].status = "PLANNED" /\ Unseen[a].lease = "none"
    BY DEF Unseen, NewRow
  <2>2. r.phase = "recover" \/ r.phase = "first" => \A a \in Actions : row'[a].status = "PLANNED"
    BY <1>1, <1>3, <1>4
  <2> SUFFICES ASSUME NEW q \in Schedulers
               PROVE  /\ r.phase = "recover" => r.pc \notin {"tick", "tick_commit"}
                      /\ r.phase # "recover" => r.pc \notin {"orphans", "down"}
                      /\ \A a \in Actions :
                          /\ r.phase = "recover" \/ r.phase = "first" =>
                                row'[a].status = "PLANNED" /\ r.seen[a].status = "PLANNED"
                          /\ r.pc # "tick_commit"
                          /\ r.seen[a].lease = "lapsed" => r.seen[a].status = "RUNNING"
    BY <1>5, <1>6 DEF ReadsSound, Starting
  <2> QED BY <2>1, <2>2, <1>4
<1>8. CarriedOnce'
  <2>1. \A a \in Actions : ~Pending(a) /\ ~Pending(a)'
    BY <1>0, <1>4, <1>5, <1>6 DEF Pending
  <2>2. \A v \in Workers : \A a \in Actions : Receiving(v, a)' <=> Receiving(v, a)
    BY <1>0 DEF Receiving
  <2> QED BY <1>0, <1>3, <2>1, <2>2, EntriesStay DEF DispatchInv
<1>9. TaskParallelismBounded' /\ NoFaultLeft'
  BY <1>0, <1>3, FlyingShrinks DEF DispatchInv, NoFaultLeft
<1> QED BY <1>7, <1>8, <1>9 DEF DispatchInv

LEMMA TickKeepsDispatch ==
    ASSUME SoleDispatcher, DispatchInv, RowInv', NEW s \in Schedulers, TickCommit(s)
    PROVE  DispatchInv'
<1> DEFINE seen == sched[s].seen
           chosen == UNION {Enqueued(seen, t) : t \in Tasks}
<1>0. /\ sched \in [Schedulers -> SchedulerState] /\ sched[s] \in SchedulerState
      /\ row \in [Actions -> Row] /\ Unseen \in [Actions -> Row]
      /\ sched[s].pc = "tick_commit" /\ UNCHANGED <<stream, worker, faults>>
      /\ sched[s].phase # "recover"
  BY NewRowRow DEF DispatchInv, RowInv, TypeOK, Unseen, TickCommit, ReadsSound
<1>1. \A q \in Schedulers : q = s
  BY DEF SoleDispatcher
<1>2. /\ chosen \subseteq Actions
      /\ \A a \in chosen : row[a].status \in {"PLANNED", "READY"}
      /\ \A a \in Promoted(seen) : row[a].status = "PLANNED"
  BY ChosenActions
<1>3. row' = [b \in Actions |->
                CASE b \in chosen -> Unleased(row[b], "DISPATCHED")
                  [] b \in Promoted(seen) \ chosen -> [row[b] EXCEPT !.status = "READY"]
                  [] OTHER -> row[b]]
  BY DEF TickCommit
<1> DEFINE r == [sched[s] EXCEPT !.pc = "publish", !.seen = Unseen, !.outbox = chosen]
<1>4. sched' = [sched EXCEPT ![s] = r]
  BY <1>0 DEF TickCommit
<1> HIDE DEF chosen, seen
<1>5. /\ r \in SchedulerState /\ r.pc = "publish" /\ r.outbox = chosen
      /\ r.phase = sched[s].phase /\ r.seen = Unseen
  BY <1>0, <1>2 DEF SchedulerState
<1> HIDE DEF r
<1>6. sched'[s] = r
  BY <1>4, <1>0
<1>7. \A a \in Actions :
        IF a \in chosen THEN row'[a].status = "DISPATCHED"
        ELSE \/ row'[a].status = row[a].status
             \/ row[a].status = "PLANNED" /\ row'[a].status = "READY"
  <2> SUFFICES ASSUME NEW a \in Actions
               PROVE  IF a \in chosen THEN row'[a].status = "DISPATCHED"
                      ELSE \/ row'[a].status = row[a].status
                           \/ row[a].status = "PLANNED" /\ row'[a].status = "READY"
    OBVIOUS
  <2>1. CASE a \in chosen
    <3>1. row'[a] = Unleased(row[a], "DISPATCHED")
      BY <1>3, <2>1
    <3>2. Unleased(row[a], "DISPATCHED").status = "DISPATCHED"
      BY <1>0, UnleasedRow DEF Status
    <3> QED BY <3>1, <3>2, <2>1
  <2>2. CASE a \notin chosen /\ a \in Promoted(seen)
    <3>1. row'[a] = [row[a] EXCEPT !.status = "READY"]
      BY <1>3, <2>2
    <3> QED BY <3>1, <2>2, <1>0, <1>2 DEF Row
  <2>3. CASE a \notin chosen /\ a \notin Promoted(seen)
    <3>1. row'[a] = row[a]
      BY <1>3, <2>3
    <3> QED BY <3>1, <2>3
  <2> QED BY <2>1, <2>2, <2>3
<1>8. ReadsSound'
  <2>1. \A a \in Actions : Unseen[a].status = "PLANNED" /\ Unseen[a].lease = "none"
    BY DEF Unseen, NewRow
  <2> SUFFICES ASSUME NEW q \in Schedulers
               PROVE  /\ r.phase # "recover" /\ r.pc = "publish"
                      /\ \A a \in Actions : r.seen[a].lease = "lapsed" => r.seen[a].status = "RUNNING"
    BY <1>1, <1>6 DEF ReadsSound, Starting
  <2> QED BY <2>1, <1>0, <1>5
<1>9. CarriedOnce'
  <2> SUFFICES ASSUME NEW a \in Actions
               PROVE  (IF row[a].status = "DISPATCHED" THEN InOnePlace(a) ELSE Uncarried(a))'
    BY DEF CarriedOnce
  <2>1. (Received(a)' <=> Received(a)) /\ (ReceivedOnce(a)' <=> ReceivedOnce(a))
    BY <1>0 DEF Received, ReceivedOnce, Receiving
  <2>2. (Queued(a)' <=> Queued(a)) /\ (QueuedOnce(a)' <=> QueuedOnce(a))
    BY <1>0 DEF Queued, QueuedOnce
  <2>3. ~Pending(a) /\ (Pending(a)' <=> a \in chosen)
    BY <1>0, <1>1, <1>5, <1>6 DEF Pending
  <2>4. IF row[a].status = "DISPATCHED" THEN InOnePlace(a) ELSE Uncarried(a)
    BY DEF DispatchInv, CarriedOnce
  <2>5. CASE a \in chosen
    <3>1. Uncarried(a)
      BY <2>4, <2>5, <1>2
    <3>2. InOnePlace(a)'
      BY <3>1, <2>1, <2>2, <2>3, <2>5 DEF InOnePlace, Uncarried
    <3> QED BY <3>2, <1>7, <2>5
  <2>6. CASE a \notin chosen
    <3>1. (InOnePlace(a)' <=> InOnePlace(a)) /\ (Uncarried(a)' <=> Uncarried(a))
      BY <2>1, <2>2, <2>3, <2>6 DEF InOnePlace, Uncarried
    <3>2. row'[a].status = "DISPATCHED" <=> row[a].status = "DISPATCHED"
      BY <1>7, <2>6
    <3> QED BY <3>1, <3>2, <2>4
  <2> QED BY <2>5, <2>6
<1>10. TaskParallelismBounded'
  <2>1. \A a \in Actions : Flying(row[a]) => Flying(sched[s].seen[a])
    BY <1>0 DEF DispatchInv, ReadsSound
  <2> QED BY <2>1, TickKeepsLimits DEF DispatchInv
<1>11. NoFaultLeft'
  BY <1>0 DEF NoFaultLeft, DispatchInv
<1> QED BY <1>8, <1>9, <1>10, <1>11 DEF DispatchInv

LEMMA PublishKeepsDispatch ==
    ASSUME SoleDispatcher, DispatchInv, RowInv', NEW s \in Schedulers, Publish(s)
    PROVE  DispatchInv'
<1>0. /\ sched \in [Schedulers -> SchedulerState] /\ sched[s] \in SchedulerState
      /\ row \in [Actions -> Row] /\ stream \in Seq(Actions)
      /\ sched[s].pc = "publish" /\ UNCHANGED <<row, worker, faults>>
  BY DEF DispatchInv, RowInv, TypeOK, Publish, tables
<1>1. \A q \in Schedulers : q = s
  BY DEF SoleDispatcher
<1>2. PICK h \in sched[s].outbox :
        /\ stream' = Append(stream, h)
        /\ sched' = [sched EXCEPT ![s].outbox = @ \ {h}]
  BY DEF Publish
<1>3. h \in Actions
  BY <1>0 DEF SchedulerState
<1> DEFINE r == [sched[s] EXCEPT !.outbox = @ \ {h}]
<1>4. /\ r.pc = "publish" /\ r.phase = sched[s].phase /\ r.seen = sched[s].seen
      /\ r.outbox = sched[s].outbox \ {h} /\ sched'[s] = r
  BY <1>0, <1>2 DEF SchedulerState
<1> HIDE DEF r
<1>5. /\ Len(stream) \in Nat /\ Len(stream') = Len(stream) + 1 /\ stream'[Len(stream) + 1] = h
      /\ \A i \in 1..Len(stream) : stream'[i] = stream[i]
  BY <1>0, <1>2, <1>3
<1>6. Pending(h) /\ row[h].status = "DISPATCHED" /\ ~Queued(h) /\ ~Received(h)
  <2>1. Pending(h)
    BY <1>0 DEF Pending
  <2> QED BY <2>1, <1>3 DEF DispatchInv, CarriedOnce, InOnePlace, Uncarried
<1>7. ReadsSound'
  BY <1>0, <1>1, <1>4 DEF ReadsSound, Starting, DispatchInv
<1>8. CarriedOnce'
  <2> SUFFICES ASSUME NEW a \in Actions
               PROVE  (IF row[a].status = "DISPATCHED" THEN InOnePlace(a) ELSE Uncarried(a))'
    BY DEF CarriedOnce
  <2>1. (Received(a)' <=> Received(a)) /\ (ReceivedOnce(a)' <=> ReceivedOnce(a))
    BY <1>0 DEF Received, ReceivedOnce, Receiving
  <2>2. Pending(a)' <=> Pending(a) /\ a # h
    BY <1>0, <1>1, <1>4 DEF Pending
  <2>3. IF row[a].status = "DISPATCHED" THEN InOnePlace(a) ELSE Uncarried(a)
    BY DEF DispatchInv, CarriedOnce
  <2>4. CASE a = h
    <3>1. QueuedOnce(h)'
      <4>1. Len(stream) + 1 \in 1..Len(stream')
        BY <1>5
      <4>2. ASSUME NEW j \in 1..Len(stream'), stream'[j] = h
            PROVE  j = Len(stream) + 1
        <5>1. \A i \in 1..Len(stream) : stream[i] # h
          BY <1>6 DEF Queued
        <5> QED BY <5>1, <4>2, <1>5
      <4> QED BY <4>1, <4>2, <1>5 DEF QueuedOnce
    <3>2. ~Received(h)' /\ ~Pending(h)'
      BY <2>1, <2>2, <2>4, <1>6
    <3>3. InOnePlace(h)'
      BY <3>1, <3>2 DEF InOnePlace
    <3> QED BY <3>3, <2>4, <1>0, <1>6
  <2>5. CASE a # h
    <3>1. Queued(a)' <=> Queued(a)
      <4>1. Queued(a) => Queued(a)'
        BY <1>5 DEF Queued
      <4>2. Queued(a)' => Queued(a)
        <5> SUFFICES ASSUME NEW i \in 1..Len(stream'), stream'[i] = a
                     PROVE  i \in 1..Len(stream) /\ stream[i] = a
          BY DEF Queued
        <5> QED BY <1>5, <2>5
      <4> QED BY <4>1, <4>2
    <3>2. QueuedOnce(a) => QueuedOnce(a)'
      <4> SUFFICES ASSUME NEW i \in 1..Len(stream), stream[i] = a,
                          \A j \in 1..Len(stream) : stream[j] = a => j = i
                   PROVE  QueuedOnce(a)'
        BY DEF QueuedOnce
      <4>1. i \in 1..Len(stream') /\ stream'[i] = a
        BY <1>5
      <4>2. ASSUME NEW j \in 1..Len(stream'), stream'[j] = a
            PROVE  j = i
        <5>1. j \in 1..Len(stream) /\ stream[j] = a
          BY <1>5, <2>5, <4>2
        <5> QED BY <5>1
      <4> QED BY <4>1, <4>2 DEF QueuedOnce
    <3>3. /\ InOnePlace(a) => InOnePlace(a)'
          /\ Uncarried(a) => Uncarried(a)'
      BY <3>1, <3>2, <2>1, <2>2, <2>5 DEF InOnePlace, Uncarried
    <3> QED BY <3>3, <2>3, <1>0
  <2> QED BY <2>4, <2>5
<1>9. TaskParallelismBounded' /\ NoFaultLeft'
  BY <1>0, FlyingShrinks DEF DispatchInv, NoFaultLeft
<1> QED BY <1>7, <1>8, <1>9 DEF DispatchInv

LEMMA DispatchInvNext ==
    SoleDispatcher /\ FaultFree /\ DispatchInv /\ [Next]_vars => DispatchInv'
<1> SUFFICES ASSUME SoleDispatcher, FaultFree, DispatchInv, [Next]_vars PROVE DispatchInv'
  OBVIOUS
<1>0. RowInv'
  BY RowInvNext DEF DispatchInv
<1>1. CASE \E w \in Workers : WorkerNext(w)
  BY <1>0, <1>1, WorkerKeepsDispatch
<1>2. ASSUME NEW s \in Schedulers, SchedulerStep(s)
      PROVE  DispatchInv'
  BY <1>0, <1>2, ReadersKeepDispatch, ReapKeepsDispatch, TickKeepsDispatch, PublishKeepsDispatch
     DEF SchedulerStep
<1>3. ASSUME NEW s \in Schedulers, SchedulerCrash(s) \/ PublishFails(s)
      PROVE  FALSE
  BY <1>3 DEF SchedulerCrash, PublishFails, DispatchInv, NoFaultLeft
<1>4. ~RedisFlush
  BY DEF RedisFlush, DispatchInv, NoFaultLeft
<1>5. ASSUME row' = row \/ \E a \in Actions : LeaseLapses(a) \/ BackoffElapses(a),
             UNCHANGED <<stream, worker, sched>>, NoFaultLeft'
      PROVE  DispatchInv'
  <2>1. \A b \in Actions : row'[b].status = row[b].status
    <3>1. ASSUME NEW a \in Actions, LeaseLapses(a) \/ BackoffElapses(a), NEW b \in Actions
          PROVE  row'[b].status = row[b].status
      <4>1. row \in [Actions -> Row]
        BY DEF DispatchInv, RowInv, TypeOK
      <4>2. row' = [row EXCEPT ![a].lease = "lapsed"] \/ row' = [row EXCEPT ![a].backoff = FALSE]
        BY <3>1 DEF LeaseLapses, BackoffElapses
      <4> QED BY <4>1, <4>2 DEF Row
    <3> QED BY <1>5, <3>1
  <2>2. ReadsSound'
    BY <1>5, <2>1 DEF DispatchInv, ReadsSound, Starting, Flying
  <2>3. CarriedOnce'
    <3>1. \A a \in Actions : Pending(a)' <=> Pending(a)
      BY <1>5 DEF Pending
    <3>2. \A v \in Workers : \A a \in Actions : Receiving(v, a)' <=> Receiving(v, a)
      BY <1>5 DEF Receiving
    <3>3. stream' = stream
      BY <1>5
    <3> QED BY <2>1, <3>1, <3>2, <3>3, EntriesStay DEF DispatchInv
  <2>4. TaskParallelismBounded'
    BY <2>1, FlyingShrinks DEF DispatchInv, Flying
  <2> QED BY <1>0, <1>5, <2>2, <2>3, <2>4 DEF DispatchInv
<1>6. CASE \E a \in Actions : LeaseLapses(a) \/ BackoffElapses(a)
  <2>1. UNCHANGED <<stream, worker, sched>>
    BY <1>6 DEF LeaseLapses, BackoffElapses
  <2>2. NoFaultLeft'
    <3>1. faults \in [lapse : Nat, worker : Nat, scheduler : Nat, refusal : Nat, flush : Nat]
      BY DEF DispatchInv, RowInv, TypeOK
    <3>2. faults' = faults \/ faults' = [faults EXCEPT !.lapse = @ - 1]
      BY <1>6 DEF LeaseLapses, BackoffElapses
    <3> QED BY <3>1, <3>2 DEF NoFaultLeft, DispatchInv
  <2> QED BY <1>5, <1>6, <2>1, <2>2
<1>7. CASE UNCHANGED vars
  <2>1. row' = row /\ UNCHANGED <<stream, worker, sched>> /\ NoFaultLeft'
    BY <1>7 DEF vars, NoFaultLeft, DispatchInv
  <2> QED BY <1>5, <2>1
<1> QED BY <1>1, <1>2, <1>3, <1>4, <1>6, <1>7 DEF Next

(* One entry, in one place, is one carrier.                                 *)
LEMMA CarriersCounted ==
    ASSUME SoleDispatcher, DispatchInv, NEW a \in Actions
    PROVE  Carriers(a) = IF row[a].status = "DISPATCHED" THEN 1 ELSE 0
<1> DEFINE W == {w \in Workers : worker[w].pc = "received" /\ worker[w].act = a}
           P == {s \in Schedulers : sched[s].pc = "publish" /\ a \in sched[s].outbox}
<1>0. IF row[a].status = "DISPATCHED" THEN InOnePlace(a) ELSE Uncarried(a)
  BY DEF DispatchInv, CarriedOnce
<1>1. /\ ~Queued(a) => Entries(a) = {}
      /\ ~Received(a) => W = {}
      /\ ~Pending(a) => P = {}
  BY DEF Queued, Entries, Received, Receiving, Pending
<1>2. /\ QueuedOnce(a) => \E i : Entries(a) = {i}
      /\ ReceivedOnce(a) => \E w : W = {w}
      /\ Pending(a) => \E s : P = {s}
  <2>1. QueuedOnce(a) => \E i : Entries(a) = {i}
    <3> SUFFICES ASSUME NEW i \in 1..Len(stream), stream[i] = a,
                        \A j \in 1..Len(stream) : stream[j] = a => j = i
                 PROVE  Entries(a) = {i}
      BY DEF QueuedOnce
    <3> QED BY DEF Entries
  <2>2. ReceivedOnce(a) => \E w : W = {w}
    <3> SUFFICES ASSUME NEW w \in Workers, Receiving(w, a), \A v \in Workers : Receiving(v, a) => v = w
                 PROVE  W = {w}
      BY DEF ReceivedOnce
    <3> QED BY DEF Receiving
  <2>3. Pending(a) => \E s : P = {s}
    <3> SUFFICES ASSUME NEW s \in Schedulers, sched[s].pc = "publish", a \in sched[s].outbox
                 PROVE  P = {s}
      BY DEF Pending
    <3> QED BY DEF SoleDispatcher
  <2> QED BY <2>1, <2>2, <2>3
<1>3. Carriers(a) = Cardinality(Entries(a)) + Cardinality(W) + Cardinality(P)
  BY DEF Carriers
<1> HIDE DEF W, P
<1>4. Cardinality({}) = 0 /\ \A x : Cardinality({x}) = 1
  BY FS_EmptySet, FS_Singleton
<1>5. /\ (Queued(a) \/ Cardinality(Entries(a)) = 0) /\ (QueuedOnce(a) => Cardinality(Entries(a)) = 1)
      /\ (Received(a) \/ Cardinality(W) = 0) /\ (ReceivedOnce(a) => Cardinality(W) = 1)
      /\ (Pending(a) \/ Cardinality(P) = 0) /\ (Pending(a) => Cardinality(P) = 1)
  BY <1>1, <1>2, <1>4
<1> QED BY <1>0, <1>3, <1>5 DEF InOnePlace, Uncarried

(* With one dispatcher that neither dies nor is refused by Redis, and with  *)
(* workers that die only after their claim, every DISPATCHED action is      *)
(* carried by exactly one entry, and no task and no actuator of a task      *)
(* exceeds its limit, whatever leases lapse and workers die meanwhile       *)
(* (enqueue_ready, Dispatcher.tick, ActionQueue.claim, reap).               *)
THEOREM DispatchBounded ==
    ASSUME SoleDispatcher, FaultFree
    PROVE  Spec => []DispatchIsBounded
<1>1. Init => DispatchInv
  BY DispatchInvInit
<1>2. DispatchInv /\ [Next]_vars => DispatchInv'
  BY DispatchInvNext
<1>3. DispatchInv => DispatchIsBounded
  BY CarriersCounted DEF DispatchIsBounded, CarriedWhileDispatched, DispatchInv
<1> QED BY <1>1, <1>2, <1>3, PTL DEF Spec

=============================================================================
