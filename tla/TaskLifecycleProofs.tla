------------------------- MODULE TaskLifecycleProofs --------------------------
(* What an end of a task or of an action means, for every plan, every policy  *)
(* verdict and every budget, under the one scheduler the lock allows.         *)
EXTENDS TaskLifecycleProperties, FiniteSetTheorems, TLAPS

SoleScheduler == \A s, u \in Schedulers : s = u

------------------------------------------------------------------------------
(* The inductive invariant.  Rows keep their shape; a task without a plan has *)
(* no work, an ended one only what a deadline left; and what a tick read can  *)
(* have moved, when it writes, in the ways of SeenStatus only.                *)
ShapeInv ==
    /\ task \in [Tasks -> TaskRow]
    /\ act \in [Actions -> ActionRow]
    /\ DOMAIN tick = Schedulers

TaskInv ==
    \A t \in Tasks :
      /\ task[t].status # "ABSENT" => task[t].asked = TRUE
      /\ task[t].status \in {"ABSENT", "PLANNING"} =>
           \A a \in Of(t) : act[a].status \in {"ABSENT", "PLANNED"}
      /\ task[t].status = "SUCCEEDED" \/ (task[t].status = "FAILED" /\ task[t].late = FALSE) =>
           \A a \in Of(t) : act[a].status \in Ended \cup {"ABSENT"}

SeenStatus(seen, now) ==
    /\ seen = "ABSENT" <=> now = "ABSENT"
    /\ seen = "PLANNED" => now \in {"PLANNED", "CANCELLED"}
    /\ seen = "READY" => now \in {"READY", "CANCELLED"}
    /\ seen \in Ended => now = seen
    /\ now = "WAITING_FOR_USER" => seen = "WAITING_FOR_USER"

Seen(t, seen) ==
    /\ seen.task[t].status \in Runnable
    /\ seen.task[t].replans = task[t].replans
    /\ task[t].status \in Runnable \cup {"CANCELLED", "FAILED"}
    /\ task[t].status = "WAITING_FOR_USER" => seen.task[t].status = "WAITING_FOR_USER"
    /\ task[t].status = "FAILED" =>
         /\ seen.task[t].status = "WAITING_FOR_USER"
         /\ \E a \in Of(t) : seen.act[a].status = "WAITING_FOR_USER"
    /\ \A a \in Of(t) : SeenStatus(seen.act[a].status, act[a].status)

SnapshotInv ==
    \A s \in Schedulers : tick[s] # Idle =>
      /\ tick[s] = [tasks |-> tick[s].tasks, task |-> tick[s].task, act |-> tick[s].act]
      /\ tick[s].tasks \subseteq Tasks
      /\ tick[s].task \in [Tasks -> TaskRow] /\ tick[s].act \in [Actions -> ActionRow]
      /\ \A t \in tick[s].tasks : Seen(t, tick[s])

LifeInv == ShapeInv /\ TaskInv /\ SnapshotInv

------------------------------------------------------------------------------
(* What one tick makes of the rows of one task.                               *)
CopyOf(t, seen) == [a \in Of(t) |-> [db |-> act[a].status, mem |-> seen.act[a].status]]
Judgement(q) ==
    [a \in DOMAIN q |-> Cas(Promoted(q, a), "READY", Judged(a))]

LEMMA JudgedIs ==
    ASSUME NEW a \in Actions
    PROVE  Judged(a) \in {"DISPATCHED", "WAITING_FOR_USER", "FAILED"}
<1>1. VerdictOf[a] \in {"allow", "confirm", "deny"}
  BY TaskLifecycleAssumption
<1>2. act[a].granted \/ VerdictOf[a] = "allow" => Judged(a) = "DISPATCHED"
  BY DEF Judged
<1>3. ~act[a].granted /\ VerdictOf[a] = "confirm" => Judged(a) = "WAITING_FOR_USER"
  BY DEF Judged
<1>4. ~act[a].granted /\ VerdictOf[a] = "deny" => Judged(a) = "FAILED"
  BY DEF Judged
<1> QED BY <1>1, <1>2, <1>3, <1>4

\* How the row of an action that was read as x, is y now, and was moved to z on
\* the copy, stands after the tick's updates.
Written(x, y, db, mem) ==
    /\ y \notin {"PLANNED", "READY"} => db = y
    /\ y \in {"PLANNED", "READY"} =>
         db \in {"PLANNED", "READY", "DISPATCHED", "WAITING_FOR_USER", "FAILED"}
    /\ SeenStatus(x, y) => (mem \in Ended => db \in Ended)

LEMMA JudgementIs ==
    ASSUME NEW t \in Tasks, NEW seen, NEW a \in Of(t)
    PROVE  LET x == seen.act[a].status
               y == act[a].status
               q == Judgement(CopyOf(t, seen))
           IN  \E j \in {"DISPATCHED", "WAITING_FOR_USER", "FAILED"} :
                 \/ q[a] = [db |-> y, mem |-> x] /\ x # "READY"
                 \/ x = "READY" /\ q[a] = [db |-> IF y = "READY" THEN j ELSE y, mem |-> j]
                 \/ x = "PLANNED" /\ q[a] =
                      [db |-> IF y \in {"PLANNED", "READY"} THEN j ELSE y, mem |-> j]
<1> DEFINE q0 == CopyOf(t, seen)
           x == seen.act[a].status
           y == act[a].status
           p == Promoted(q0, a)
           j == Judged(a)
<1>1. q0[a] = [db |-> y, mem |-> x] /\ DOMAIN q0 = Of(t)
  BY DEF CopyOf
<1>2. p = [db |-> y, mem |-> x] \/ (x = "PLANNED" /\ p = [db |-> IF y = "PLANNED" THEN "READY" ELSE y, mem |-> "READY"])
  BY <1>1 DEF Promoted, Cas
<1>3. j \in {"DISPATCHED", "WAITING_FOR_USER", "FAILED"}
  BY JudgedIs DEF Of
<1>4. Judgement(q0)[a] = Cas(p, "READY", j)
  BY <1>1 DEF Judgement
<1> HIDE DEF q0, p, j
<1>5. \/ Judgement(q0)[a] = [db |-> y, mem |-> x] /\ x # "READY"
      \/ x = "READY" /\ Judgement(q0)[a] = [db |-> IF y = "READY" THEN j ELSE y, mem |-> j]
      \/ x = "PLANNED" /\ Judgement(q0)[a] =
            [db |-> IF y \in {"PLANNED", "READY"} THEN j ELSE y, mem |-> j]
  BY <1>2, <1>4 DEF Cas
<1> HIDE DEF x, y
<1>6. \E i \in {"DISPATCHED", "WAITING_FOR_USER", "FAILED"} :
        \/ Judgement(q0)[a] = [db |-> y, mem |-> x] /\ x # "READY"
        \/ x = "READY" /\ Judgement(q0)[a] = [db |-> IF y = "READY" THEN i ELSE y, mem |-> i]
        \/ x = "PLANNED" /\ Judgement(q0)[a] =
              [db |-> IF y \in {"PLANNED", "READY"} THEN i ELSE y, mem |-> i]
  BY <1>3, <1>5
<1> QED BY <1>6 DEF q0, x, y

LEMMA JudgementWrites ==
    ASSUME NEW t \in Tasks, NEW seen, NEW a \in Of(t),
           act[a].status \in ActionStatus
    PROVE  LET q == Judgement(CopyOf(t, seen))
           IN  Written(seen.act[a].status, act[a].status, q[a].db, q[a].mem)
<1> DEFINE x == seen.act[a].status
           y == act[a].status
           q == Judgement(CopyOf(t, seen))
<1>1. PICK j \in {"DISPATCHED", "WAITING_FOR_USER", "FAILED"} :
        \/ q[a] = [db |-> y, mem |-> x] /\ x # "READY"
        \/ x = "READY" /\ q[a] = [db |-> IF y = "READY" THEN j ELSE y, mem |-> j]
        \/ x = "PLANNED" /\ q[a] = [db |-> IF y \in {"PLANNED", "READY"} THEN j ELSE y, mem |-> j]
  BY JudgementIs
<1> HIDE DEF q, x
<1> SUFFICES Written(x, y, q[a].db, q[a].mem)
  BY DEF x, y, q
<1>2. CASE q[a] = [db |-> y, mem |-> x] /\ x # "READY"
  BY <1>2 DEF Written, SeenStatus, Ended, ActionStatus
<1>3. CASE x = "READY" /\ q[a] = [db |-> IF y = "READY" THEN j ELSE y, mem |-> j]
  BY <1>3 DEF Written, SeenStatus, Ended, ActionStatus
<1>4. CASE x = "PLANNED" /\ q[a] = [db |-> IF y \in {"PLANNED", "READY"} THEN j ELSE y, mem |-> j]
  BY <1>4 DEF Written, SeenStatus, Ended, ActionStatus
<1> QED BY <1>1, <1>2, <1>3, <1>4

LEMMA LeftIs ==
    ASSUME ShapeInv, NEW t \in Tasks, NEW status, NEW q,
           \A a \in Of(t) : q[a].db \in ActionStatus
    PROVE  LET left == Left(t, status, q)
           IN  /\ left.status = status /\ left.replans = task[t].replans
               /\ left.act \in [Of(t) -> ActionRow]
               /\ \A a \in Of(t) : left.act[a].status = q[a].db
<1> DEFINE rows == [a \in Of(t) |-> [act[a] EXCEPT
                !.status = q[a].db,
                !.code = IF q[a].db = "FAILED" /\ act[a].status # "FAILED"
                         THEN "denied" ELSE act[a].code]]
<1>1. Left(t, status, q) = [status |-> status, replans |-> task[t].replans,
                            replanned |-> FALSE, act |-> rows]
  BY DEF Left
<1>2. ASSUME NEW a \in Of(t)
      PROVE  rows[a] \in ActionRow /\ rows[a].status = q[a].db
  <2>1. act[a] \in ActionRow /\ q[a].db \in ActionStatus
    BY DEF ShapeInv, Of
  <2> QED BY <2>1 DEF ActionRow, Code
<1>3. rows \in [Of(t) -> ActionRow]
  BY <1>2
<1> HIDE DEF rows
<1> QED BY <1>1, <1>2, <1>3

LEMMA RepairedIs ==
    ASSUME ShapeInv, NEW t \in Tasks, NEW left, NEW seen, NEW failed,
           left = [status |-> left.status, replans |-> left.replans,
                   replanned |-> left.replanned, act |-> left.act],
           left.act \in [Of(t) -> ActionRow],
           NEW r \in Repaired(t, left, seen, failed)
    PROVE  /\ r.status = left.status /\ r.replans = seen.task[t].replans + 1
           /\ r.act \in [Of(t) -> ActionRow]
           /\ \A a \in Of(t) :
                \/ r.act[a].status = left.act[a].status
                \/ left.act[a].status = "FAILED" /\ r.act[a].status = "CANCELLED"
                \/ act[a].status = "ABSENT" /\ r.act[a].status = "PLANNED"
<1>1. PICK new \in {b \in Spare[t] : act[b].status = "ABSENT"} :
        r = [left EXCEPT !.replans = seen.task[t].replans + 1, !.replanned = TRUE,
                         !.act[failed].status = Withdraw(@),
                         !.act[new].status = "PLANNED"]
  BY DEF Repaired
<1> DEFINE rows == [left.act EXCEPT ![failed].status = Withdraw(@), ![new].status = "PLANNED"]
<1>2. r = [status |-> left.status, replans |-> seen.task[t].replans + 1,
           replanned |-> TRUE, act |-> rows]
  BY <1>1
<1>3. ASSUME NEW a \in Of(t)
      PROVE  /\ rows[a] \in ActionRow
             /\ \/ rows[a].status = left.act[a].status
                \/ left.act[a].status = "FAILED" /\ rows[a].status = "CANCELLED"
                \/ act[a].status = "ABSENT" /\ rows[a].status = "PLANNED"
  <2>1. left.act[a] \in ActionRow
    OBVIOUS
  <2> QED BY <1>1, <2>1 DEF ActionRow, ActionStatus, Withdraw
<1>4. rows = [a \in Of(t) |-> rows[a]]
  <2>1. DOMAIN rows = Of(t)
    OBVIOUS
  <2> QED BY <2>1
<1> HIDE DEF rows
<1>5. rows \in [Of(t) -> ActionRow]
  BY <1>3, <1>4
<1> QED BY <1>2, <1>3, <1>5

\* What a tick may do to a task: an end stays, work never goes back to RUNNING,
\* a success or a failure within the deadline leaves nothing outstanding.
Moves(t, left) ==
    /\ left.status \in Runnable \cup TaskEnded \cup {"NEEDS_HUMAN"} /\ left.replans \in Nat
    /\ left.act \in [Of(t) -> ActionRow]
    /\ task[t].status \in TaskEnded => left.status = task[t].status
    /\ left.status = "SUCCEEDED" \/ (left.status = "FAILED" /\ task[t].late = FALSE) =>
         \A a \in Of(t) : left.act[a].status \in Ended \cup {"ABSENT"}
    /\ \A a \in Of(t) :
         /\ left.act[a].status = "RUNNING" => act[a].status = "RUNNING"
         /\ act[a].status \in Ended =>
              \/ left.act[a].status = act[a].status
              \/ /\ act[a].status = "FAILED" /\ left.act[a].status = "CANCELLED"
                 /\ left.replans > task[t].replans

LEMMA UntouchedMoves ==
    ASSUME ShapeInv, TaskInv, NEW t \in Tasks, NEW seen, Seen(t, seen), NEW status,
           \/ status = task[t].status
           \/ task[t].status \in Runnable /\ status = "RUNNING"
           \/ task[t].status \in Runnable /\ status = "FAILED" /\ task[t].late = TRUE
    PROVE  Moves(t, Left(t, status, CopyOf(t, seen)))
<1> DEFINE q == CopyOf(t, seen)
           left == Left(t, status, q)
<1>1. \A a \in Of(t) : act[a].status \in ActionStatus /\ q[a].db = act[a].status
  BY DEF CopyOf, ShapeInv, Of, ActionRow
<1> HIDE DEF q
<1>2. /\ left.status = status /\ left.replans = task[t].replans
      /\ left.act \in [Of(t) -> ActionRow]
      /\ \A a \in Of(t) : left.act[a].status = act[a].status
  BY <1>1, LeftIs
<1> HIDE DEF left
<1>3. task[t] \in TaskRow
  BY DEF ShapeInv
<1>4. task[t].replans \in Nat /\ task[t].late \in BOOLEAN /\ task[t].status \in TaskStatus
  BY <1>3 DEF TaskRow
<1>5. status \in Runnable \cup TaskEnded
  BY DEF Seen, TaskEnded, Runnable
<1>6. task[t].status = "FAILED" => task[t].late = TRUE \/ \A a \in Of(t) : act[a].status \in Ended \cup {"ABSENT"}
  BY <1>4 DEF TaskInv
<1>7. Moves(t, left)
  BY <1>2, <1>4, <1>5, <1>6 DEF Moves, Seen, TaskEnded, Runnable
<1> QED BY <1>7 DEF left, q

\* The task as the resuming, and then the starting and the blocking, leave it.
Opened(t, seen) ==
    LET p0 == [db |-> task[t].status, mem |-> seen.task[t].status]
        q0 == CopyOf(t, seen)
    IN  IF \A a \in Rows(t, seen.act) : q0[a].mem # "WAITING_FOR_USER"
        THEN Cas(p0, "WAITING_FOR_USER", "RUNNING") ELSE p0
Offered(t, seen) ==
    LET here == Rows(t, seen.act)
        p1 == Opened(t, seen)
        q2 == Judgement(CopyOf(t, seen))
    IN  Blocked(IF \E a \in here : q2[a].mem \notin {"PLANNED", "READY"}
                THEN Cas(p1, "READY", "RUNNING") ELSE p1, q2, here)
Failing(t, seen) ==
    Cas([db |-> task[t].status, mem |-> seen.task[t].status], seen.task[t].status, "FAILED").db
Synced(t, seen) ==
    [a \in Of(t) |-> IF a \in Rows(t, seen.act)
                     THEN StepAfter(a, Judgement(CopyOf(t, seen))[a].mem, step[a]) ELSE step[a]]

LEMMA TickedIs ==
    ASSUME NEW t \in Tasks, NEW seen, NEW r \in Ticked(t, seen)
    PROVE  LET p1 == Opened(t, seen)
               q0 == CopyOf(t, seen)
           IN  \/ /\ Overdue(t, seen.task[t].status)
                  /\ r.left = Left(t, Failing(t, seen), q0)
                  /\ r.step = [a \in Of(t) |-> step[a]]
               \/ /\ Rows(t, seen.act) = {} \/ p1.mem = "WAITING_FOR_USER"
                  /\ r.left = Left(t, p1.db, q0)
                  /\ r.step = [a \in Of(t) |-> step[a]]
               \/ /\ p1.mem # "WAITING_FOR_USER" /\ Rows(t, seen.act) # {}
                  /\ r.left \in Completed(t, Offered(t, seen), Judgement(q0), seen)
                  /\ r.step = Synced(t, seen)
<1> DEFINE here == Rows(t, seen.act)
           p0 == [db |-> task[t].status, mem |-> seen.task[t].status]
           copies == [a \in Of(t) |-> [db |-> act[a].status, mem |-> seen.act[a].status]]
           q1 == [a \in Of(t) |-> Promoted(copies, a)]
           judged == [a \in Of(t) |-> Cas(q1[a], "READY", Judged(a))]
           p1 == IF \A a \in here : copies[a].mem # "WAITING_FOR_USER"
                 THEN Cas(p0, "WAITING_FOR_USER", "RUNNING") ELSE p0
           p2 == IF \E a \in here : judged[a].mem \notin {"PLANNED", "READY"}
                 THEN Cas(p1, "READY", "RUNNING") ELSE p1
<1>1. CopyOf(t, seen) = copies
  BY DEF CopyOf
<1>2. Judgement(copies) = judged
  BY DEF Judgement
<1> HIDE DEF copies, q1, judged
<1>3. Opened(t, seen) = p1
  BY <1>1 DEF Opened
<1>4. Offered(t, seen) = Blocked(p2, judged, here)
  BY <1>1, <1>2, <1>3 DEF Offered
<1> DEFINE late == Overdue(t, p0.mem)
           stops == here = {} \/ p1.mem = "WAITING_FOR_USER"
           Late == Left(t, Cas(p0, p0.mem, "FAILED").db, copies)
           Stopping == Left(t, p1.db, copies)
           Going == Completed(t, Blocked(p2, judged, here), judged, seen)
           Kept == [a \in Of(t) |-> step[a]]
           synced == [a \in Of(t) |-> IF a \in here THEN StepAfter(a, judged[a].mem, step[a])
                                                    ELSE step[a]]
<1>5. Ticked(t, seen) =
        IF late THEN {[left |-> Late, step |-> Kept]}
        ELSE IF stops THEN {[left |-> Stopping, step |-> Kept]}
        ELSE {[left |-> x, step |-> synced] : x \in Going}
  BY DEF Ticked, copies, q1, judged
<1>6. Synced(t, seen) = synced
  BY <1>1, <1>2 DEF Synced
<1> HIDE DEF late, stops, Late, Stopping, Going, Kept, synced
<1>7. \/ late /\ r.left = Late /\ r.step = Kept
      \/ ~late /\ stops /\ r.left = Stopping /\ r.step = Kept
      \/ ~late /\ ~stops /\ r.left \in Going /\ r.step = synced
  BY <1>5
<1>8. Late = Left(t, Failing(t, seen), copies) /\ (late => Overdue(t, seen.task[t].status))
  BY DEF Late, late, Failing
<1> USE DEF stops, Stopping, Going, Kept
<1> HIDE DEF p1, p2, p0
<1> QED BY <1>1, <1>2, <1>3, <1>4, <1>6, <1>7, <1>8

LEMMA TickedMoves ==
    ASSUME ShapeInv, TaskInv, NEW t \in Tasks, NEW seen, Seen(t, seen),
           seen.task \in [Tasks -> TaskRow],
           NEW r \in Ticked(t, seen)
    PROVE  Moves(t, r.left)
<1> DEFINE here == Rows(t, seen.act)
           p0 == [db |-> task[t].status, mem |-> seen.task[t].status]
           q0 == CopyOf(t, seen)
           p1 == IF \A a \in here : q0[a].mem # "WAITING_FOR_USER"
                 THEN Cas(p0, "WAITING_FOR_USER", "RUNNING") ELSE p0
           q2 == Judgement(q0)
           p2 == IF \E a \in here : q2[a].mem \notin {"PLANNED", "READY"}
                 THEN Cas(p1, "READY", "RUNNING") ELSE p1
           p3 == Blocked(p2, q2, here)
<1>1. \/ Overdue(t, p0.mem) /\ r.left = Left(t, Cas(p0, p0.mem, "FAILED").db, q0)
      \/ (here = {} \/ p1.mem = "WAITING_FOR_USER") /\ r.left = Left(t, p1.db, q0)
      \/ /\ p1.mem # "WAITING_FOR_USER" /\ here # {}
         /\ r.left \in Completed(t, p3, q2, seen)
  <2>1. p1 = Opened(t, seen) /\ p3 = Offered(t, seen)
    BY DEF Opened, Offered
  <2>2. Cas(p0, p0.mem, "FAILED").db = Failing(t, seen) /\ p0.mem = seen.task[t].status
    BY DEF Failing
  <2> HIDE DEF q0, q2, p0, p1, p3
  <2> QED BY <2>1, <2>2, TickedIs DEF q0, q2
<1>2. task[t] \in TaskRow /\ task[t].late \in BOOLEAN /\ task[t].replans \in Nat
  BY DEF ShapeInv, TaskRow
<1>3. task[t].status \in Runnable \cup {"CANCELLED", "FAILED"} /\ seen.task[t].status \in Runnable
  BY DEF Seen
<1>4. \/ p1 = p0
      \/ /\ seen.task[t].status = "WAITING_FOR_USER"
         /\ p1.mem = "RUNNING"
         /\ p1.db = IF task[t].status = "WAITING_FOR_USER" THEN "RUNNING" ELSE task[t].status
         /\ \A a \in here : q0[a].mem # "WAITING_FOR_USER"
  BY DEF Cas
<1>5. CASE Overdue(t, p0.mem) /\ r.left = Left(t, Cas(p0, p0.mem, "FAILED").db, q0)
  <2>1. task[t].late = TRUE /\ seen.task[t].status \in {"READY", "RUNNING"}
    BY <1>2, <1>5 DEF Overdue
  <2>2. \/ Cas(p0, p0.mem, "FAILED").db = task[t].status
        \/ task[t].status \in Runnable /\ Cas(p0, p0.mem, "FAILED").db = "FAILED"
    BY <2>1, <1>3 DEF Cas
  <2> HIDE DEF p0, q0
  <2> QED BY <1>5, <2>1, <2>2, UntouchedMoves DEF q0
<1>6. CASE (here = {} \/ p1.mem = "WAITING_FOR_USER") /\ r.left = Left(t, p1.db, q0)
  <2>1. \/ p1.db = task[t].status
        \/ task[t].status \in Runnable /\ p1.db = "RUNNING"
    BY <1>4 DEF Runnable
  <2> HIDE DEF p1, q0
  <2> QED BY <1>6, <2>1, UntouchedMoves DEF q0
<1>7. CASE /\ p1.mem # "WAITING_FOR_USER" /\ here # {}
           /\ r.left \in Completed(t, p3, q2, seen)
  <2>1. \A a \in Of(t) : /\ act[a].status \in ActionStatus
                         /\ SeenStatus(seen.act[a].status, act[a].status)
                         /\ q0[a].mem = seen.act[a].status
                         /\ Written(seen.act[a].status, act[a].status, q2[a].db, q2[a].mem)
    BY JudgementWrites DEF CopyOf, Seen, ShapeInv, Of, ActionRow
  <2>2. task[t].status # "FAILED"
    <3> SUFFICES ASSUME task[t].status = "FAILED" PROVE FALSE
      OBVIOUS
    <3>1. PICK a \in Of(t) : seen.act[a].status = "WAITING_FOR_USER"
      BY DEF Seen
    <3>2. a \in here /\ q0[a].mem = "WAITING_FOR_USER"
      BY <2>1, <3>1 DEF Rows
    <3>3. p1.mem = "WAITING_FOR_USER"
      BY <3>2 DEF Seen
    <3> QED BY <1>7, <3>3
  <2> HIDE DEF q0, q2
  <2>3. p1.db = task[t].status \/ (task[t].status \in Runnable /\ p1.db \in Runnable)
    BY <1>4 DEF Runnable
  <2> HIDE DEF p0, p1
  <2>4. p2.db = task[t].status \/ (task[t].status \in Runnable /\ p2.db \in Runnable)
    BY <2>3 DEF Cas, Runnable
  <2> HIDE DEF p2
  <2>5. p3.db = task[t].status \/ (task[t].status \in Runnable /\ p3.db \in Runnable)
    BY <2>4 DEF Cas, Blocked, Runnable
  <2> HIDE DEF p3
  <2>6. \A a \in Of(t) : q2[a].db \in ActionStatus
    BY <2>1 DEF Written, ActionStatus
  <2>7. \A a \in Of(t) : /\ q2[a].db = "RUNNING" => act[a].status = "RUNNING"
                         /\ act[a].status \in Ended => q2[a].db = act[a].status
                         /\ act[a].status = "ABSENT" => q2[a].db = "ABSENT"
    BY <2>1 DEF Written, ActionStatus, Ended
  <2>8. ASSUME NEW status, status \in Runnable \cup TaskEnded \cup {"NEEDS_HUMAN"}
        PROVE  LET left == Left(t, status, q2)
               IN  /\ left.status = status /\ left.replans = task[t].replans
                   /\ left.act \in [Of(t) -> ActionRow]
                   /\ \A a \in Of(t) : left.act[a].status = q2[a].db
    BY <2>6, LeftIs
  <2>9. task[t].status \in Runnable \cup {"CANCELLED"} /\ p3.db \in Runnable \cup {"CANCELLED"}
    BY <1>3, <2>2, <2>5
  <2> DEFINE failed == {a \in here : q2[a].mem = "FAILED"}
             ends(to) == Left(t, Cas(p3, "RUNNING", to).db, q2)
             over == p3.mem = "RUNNING" /\ \A a \in here : q2[a].mem \in Ended
  <2>10. \/ r.left = Left(t, p3.db, q2)
         \/ over /\ \E a \in failed : r.left \in Repaired(t, Left(t, p3.db, q2), seen, a)
         \/ over /\ \E to \in {"NEEDS_HUMAN", "FAILED", "SUCCEEDED"} : r.left = ends(to)
    BY <1>7 DEF Completed, Outstanding
  <2>11. CASE r.left = Left(t, p3.db, q2)
    BY <1>2, <2>5, <2>7, <2>8, <2>9, <2>11 DEF Moves, TaskEnded, Runnable
  <2>12. CASE over /\ \E a \in failed : r.left \in Repaired(t, Left(t, p3.db, q2), seen, a)
    <3>1. PICK a \in failed : r.left \in Repaired(t, Left(t, p3.db, q2), seen, a)
      BY <2>12
    <3> DEFINE left == Left(t, p3.db, q2)
    <3>2. left = [status |-> left.status, replans |-> left.replans,
                  replanned |-> left.replanned, act |-> left.act]
      BY DEF Left
    <3>3. /\ left.status = p3.db /\ left.replans = task[t].replans
          /\ left.act \in [Of(t) -> ActionRow]
          /\ \A b \in Of(t) : left.act[b].status = q2[b].db
      BY <2>8, <2>9 DEF TaskEnded
    <3> HIDE DEF left
    <3>4. /\ r.left.status = left.status /\ r.left.replans = seen.task[t].replans + 1
          /\ r.left.act \in [Of(t) -> ActionRow]
          /\ \A b \in Of(t) :
               \/ r.left.act[b].status = left.act[b].status
               \/ left.act[b].status = "FAILED" /\ r.left.act[b].status = "CANCELLED"
               \/ act[b].status = "ABSENT" /\ r.left.act[b].status = "PLANNED"
      BY <3>1, <3>2, <3>3, RepairedIs DEF left
    <3>5. r.left.replans = task[t].replans + 1 /\ r.left.replans \in Nat
      BY <1>2, <3>4 DEF Seen
    <3>6. \A b \in Of(t) :
            /\ r.left.act[b].status = "RUNNING" => act[b].status = "RUNNING"
            /\ act[b].status \in Ended =>
                 \/ r.left.act[b].status = act[b].status
                 \/ act[b].status = "FAILED" /\ r.left.act[b].status = "CANCELLED"
      BY <2>7, <3>3, <3>4 DEF Ended
    <3> QED BY <1>2, <2>5, <2>9, <3>3, <3>4, <3>5, <3>6 DEF Moves, TaskEnded, Runnable
  <2>13. CASE over /\ \E to \in {"NEEDS_HUMAN", "FAILED", "SUCCEEDED"} : r.left = ends(to)
    <3>1. PICK to \in {"NEEDS_HUMAN", "FAILED", "SUCCEEDED"} : r.left = ends(to)
      BY <2>13
    <3>2. \/ Cas(p3, "RUNNING", to).db = p3.db
          \/ p3.db = "RUNNING" /\ Cas(p3, "RUNNING", to).db = to
      BY DEF Cas
    <3>3. \A a \in Of(t) : q2[a].db \in Ended \cup {"ABSENT"}
      BY <2>1, <2>7, <2>13 DEF Rows, Written, SeenStatus
    <3> DEFINE status == Cas(p3, "RUNNING", to).db
    <3>4. status \in Runnable \cup TaskEnded \cup {"NEEDS_HUMAN"}
      BY <2>9, <3>2 DEF TaskEnded, Runnable
    <3>5. task[t].status \in TaskEnded => status = task[t].status
      BY <2>5, <2>9, <3>2 DEF TaskEnded, Runnable
    <3> HIDE DEF status
    <3>6. r.left = Left(t, status, q2)
      BY <3>1 DEF status
    <3> QED BY <1>2, <2>7, <2>8, <3>3, <3>4, <3>5, <3>6 DEF Moves
  <2> QED BY <2>10, <2>11, <2>12, <2>13
<1> QED BY <1>1, <1>5, <1>6, <1>7

------------------------------------------------------------------------------
(* What a step that is not a tick's may do to a task a tick has read.         *)
QuietMove(t) ==
    task[t].status \in Runnable \cup {"CANCELLED", "FAILED"} =>
      /\ task'[t].replans = task[t].replans
      /\ \/ task'[t].status = task[t].status
         \/ task'[t].status = "CANCELLED"
         \/ task[t].status = "WAITING_FOR_USER" /\ task'[t].status = "RUNNING"
         \/ /\ task[t].status = "WAITING_FOR_USER" /\ task'[t].status = "FAILED"
            /\ \E a \in Of(t) : act[a].status = "WAITING_FOR_USER"
      /\ \A a \in Of(t) :
           \/ act'[a].status = act[a].status
           \/ /\ act[a].status \notin Ended \cup {"ABSENT"}
              /\ act'[a].status \notin {"ABSENT", "WAITING_FOR_USER"}
              /\ act[a].status \in {"PLANNED", "READY"} => act'[a].status = "CANCELLED"

LEMMA QuietMovesKeepSnapshots ==
    ASSUME SnapshotInv, UNCHANGED tick, \A t \in Tasks : QuietMove(t)
    PROVE  SnapshotInv'
<1>1. ASSUME NEW seen, NEW t \in Tasks, Seen(t, seen)
      PROVE  Seen(t, seen)'
  <2>1. QuietMove(t) /\ task[t].status \in Runnable \cup {"CANCELLED", "FAILED"}
    BY <1>1 DEF Seen
  <2>2. ASSUME NEW a \in Of(t)
        PROVE  SeenStatus(seen.act[a].status, act'[a].status)
    <3>1. SeenStatus(seen.act[a].status, act[a].status)
      BY <1>1 DEF Seen
    <3>2. \/ act'[a].status = act[a].status
          \/ /\ act[a].status \notin Ended \cup {"ABSENT"}
             /\ act'[a].status \notin {"ABSENT", "WAITING_FOR_USER"}
             /\ act[a].status \in {"PLANNED", "READY"} => act'[a].status = "CANCELLED"
      BY <2>1 DEF QuietMove
    <3> QED BY <3>1, <3>2 DEF SeenStatus, Ended
  <2>3. /\ task'[t].status \in Runnable \cup {"CANCELLED", "FAILED"}
        /\ task'[t].status = "WAITING_FOR_USER" => seen.task[t].status = "WAITING_FOR_USER"
        /\ task'[t].status = "FAILED" =>
             /\ seen.task[t].status = "WAITING_FOR_USER"
             /\ \E a \in Of(t) : seen.act[a].status = "WAITING_FOR_USER"
    BY <1>1, <2>1 DEF Seen, SeenStatus, QuietMove, Runnable
  <2> QED BY <1>1, <2>1, <2>2, <2>3 DEF Seen, QuietMove, Of
<1>2. \A s \in Schedulers : tick[s] # Idle =>
        \A t \in tick[s].tasks : t \in Tasks /\ Seen(t, tick[s])
  BY DEF SnapshotInv
<1>3. \A s \in Schedulers : tick[s] # Idle => \A t \in tick[s].tasks : Seen(t, tick[s])'
  BY <1>1, <1>2
<1> QED BY <1>3 DEF SnapshotInv, Idle

\* What every step owes an ended task, an ended action and a deadline.
Ends ==
    /\ \A t \in Tasks : task[t].status \in TaskEnded => task'[t].status = task[t].status
    /\ \A a \in Actions : act[a].status \in Ended =>
         \/ act'[a].status = act[a].status
         \/ /\ act[a].status = "FAILED" /\ act'[a].status = "CANCELLED"
            /\ task'[TaskOf[a]].replans > task[TaskOf[a]].replans
Starts ==
    \A a \in Actions : (act[a].status # "RUNNING" /\ act'[a].status = "RUNNING") =>
        \/ task[TaskOf[a]].status \in Runnable \cup {"NEEDS_HUMAN"}
        \/ task[TaskOf[a]].status = "FAILED" /\ task[TaskOf[a]].late

\* A step that keeps the invariant and both promises.
Keeps == LifeInv' /\ Ends /\ Starts

LEMMA Rowed ==
    ASSUME ShapeInv
    PROVE  /\ \A t \in Tasks : /\ task[t] \in TaskRow /\ task[t].status \in TaskStatus
                               /\ task[t].asked \in BOOLEAN /\ task[t].late \in BOOLEAN
                               /\ task[t].replans \in Nat
           /\ \A a \in Actions : /\ act[a] \in ActionRow /\ act[a].status \in ActionStatus
                                 /\ TaskOf[a] \in Tasks /\ a \in Of(TaskOf[a])
           /\ \A t \in Tasks : Of(t) \subseteq Actions
BY TaskLifecycleAssumption DEF ShapeInv, TaskRow, ActionRow, Of

LEMMA SubmitKeeps ==
    ASSUME LifeInv, NEW t \in Tasks, Submit(t)
    PROVE  Keeps
<1>1. ShapeInv /\ TaskInv /\ SnapshotInv
  BY DEF LifeInv
<1>2. task[t].status = "ABSENT"
  BY <1>1, Rowed DEF Submit, TaskInv
<1>3. \A a \in Of(t) : act[a].status \in {"ABSENT", "PLANNED"}
  BY <1>1, <1>2 DEF TaskInv
<1>4. UNCHANGED tick
  BY DEF Submit, Install
<1>5. PICK status \in {"ABSENT", "READY", "PLANNING"} :
        /\ task' = [task EXCEPT ![t].status = status, ![t].asked = TRUE]
        /\ \/ UNCHANGED act
           \/ act' = [a \in Actions |-> IF a \in Of(t) \ Spare[t]
                                 THEN [act[a] EXCEPT !.status = "PLANNED"] ELSE act[a]]
  <2>1. CASE \E status \in {"READY", "PLANNING"} : Install(t, status)
    BY <2>1 DEF Install
  <2>2. CASE task' = [task EXCEPT ![t].asked = TRUE] /\ UNCHANGED <<act, step, tick>>
    <3>1. [task EXCEPT ![t].asked = TRUE] = [task EXCEPT ![t].status = "ABSENT", ![t].asked = TRUE]
      BY <1>1, <1>2, Rowed DEF ShapeInv, TaskRow
    <3> QED BY <2>2, <3>1
  <2> QED BY <2>1, <2>2 DEF Submit
<1>6. \A a \in Actions :
        /\ act'[a] \in ActionRow
        /\ act'[a].status = act[a].status \/ (a \in Of(t) /\ act'[a].status = "PLANNED")
  BY <1>1, <1>5, Rowed DEF ActionRow, ActionStatus
<1>7. \A u \in Tasks :
        /\ task'[u] \in TaskRow
        /\ u # t => task'[u] = task[u]
        /\ u = t => task'[u].status = status /\ task'[u].asked = TRUE
  BY <1>1, <1>5, Rowed DEF TaskRow, TaskStatus, ShapeInv
<1>8. ShapeInv'
  <2>1. DOMAIN act' = Actions /\ DOMAIN task' = Tasks /\ DOMAIN tick' = Schedulers
    BY <1>1, <1>4, <1>5 DEF ShapeInv
  <2>2. act' = [a \in Actions |-> act'[a]] /\ task' = [u \in Tasks |-> task'[u]]
    BY <1>1, <1>5, <2>1 DEF ShapeInv
  <2> QED BY <1>6, <1>7, <2>1, <2>2 DEF ShapeInv
<1>9. \A u \in Tasks : \A a \in Of(u) : a \in Actions /\ (u # t => a \notin Of(t))
  BY DEF Of
<1>10. TaskInv'
  BY <1>1, <1>3, <1>6, <1>7, <1>9 DEF TaskInv, Of
<1>11. \A u \in Tasks : QuietMove(u)
  BY <1>2, <1>6, <1>7, <1>9 DEF QuietMove, Runnable
<1>12. SnapshotInv'
  BY <1>1, <1>4, <1>11, QuietMovesKeepSnapshots
<1>13. Ends
  BY <1>1, <1>2, <1>3, <1>6, <1>7 DEF Ends, TaskEnded, Ended, Of
<1>14. Starts
  BY <1>6 DEF Starts
<1> QED BY <1>8, <1>10, <1>12, <1>13, <1>14 DEF Keeps, LifeInv

LEMMA TaskOnlyKeeps ==
    ASSUME LifeInv, NEW t \in Tasks, Reply(t) \/ DeadlinePasses(t)
    PROVE  Keeps
<1>1. ShapeInv /\ TaskInv /\ SnapshotInv
  BY DEF LifeInv
<1>2. UNCHANGED <<act, tick>>
  BY DEF Reply, DeadlinePasses
<1>3. /\ task' \in [Tasks -> TaskRow]
      /\ \A u \in Tasks : u # t => task'[u] = task[u]
      /\ task'[t].asked = task[t].asked /\ task'[t].replans = task[t].replans
      /\ task[t].late = TRUE => task'[t].late = TRUE
      /\ \/ task'[t].status = task[t].status
         \/ task[t].status = "NEEDS_HUMAN" /\ task'[t].status = "RUNNING"
  <2>1. task \in [Tasks -> TaskRow] /\ task[t] \in TaskRow
    BY <1>1 DEF ShapeInv
  <2>2. CASE task' = [task EXCEPT ![t].status = "RUNNING"] /\ task[t].status = "NEEDS_HUMAN"
    BY <2>1, <2>2 DEF TaskRow, TaskStatus
  <2>3. CASE task' = [task EXCEPT ![t].late = TRUE]
    BY <2>1, <2>3 DEF TaskRow
  <2> QED BY <2>2, <2>3 DEF Reply, DeadlinePasses
<1>4. ShapeInv'
  BY <1>1, <1>2, <1>3 DEF ShapeInv
<1>5. \A u \in Tasks : task[u].late \in BOOLEAN /\ task'[u].late \in BOOLEAN
  BY <1>1, <1>3 DEF ShapeInv, TaskRow
<1>6. TaskInv'
  BY <1>1, <1>2, <1>3, <1>5 DEF TaskInv, Of
<1>7. \A u \in Tasks : QuietMove(u)
  BY <1>2, <1>3 DEF QuietMove, Runnable
<1>8. SnapshotInv'
  BY <1>1, <1>2, <1>7, QuietMovesKeepSnapshots
<1>9. Ends /\ Starts
  BY <1>2, <1>3 DEF Ends, Starts, TaskEnded
<1> QED BY <1>4, <1>6, <1>8, <1>9 DEF Keeps, LifeInv

LEMMA CancelKeeps ==
    ASSUME LifeInv, NEW t \in Tasks, Cancel(t)
    PROVE  Keeps
<1>1. ShapeInv /\ TaskInv /\ SnapshotInv
  BY DEF LifeInv
<1>2. /\ task' = [task EXCEPT ![t].status = "CANCELLED"]
      /\ task[t].status \notin TaskEnded \cup {"ABSENT"}
      /\ act' = [a \in Actions |-> IF a \in Of(t) /\ act[a].status \in NotStarted
                                   THEN [act[a] EXCEPT !.status = "CANCELLED"] ELSE act[a]]
      /\ UNCHANGED tick
  BY DEF Cancel
<1>3. /\ task' \in [Tasks -> TaskRow] /\ task'[t].status = "CANCELLED"
      /\ task'[t].asked = task[t].asked /\ task'[t].replans = task[t].replans
      /\ \A u \in Tasks : u # t => task'[u] = task[u]
  BY <1>1, <1>2 DEF ShapeInv, TaskRow, TaskStatus
<1>4. ASSUME NEW a \in Actions
      PROVE  /\ act'[a] \in ActionRow
             /\ \/ act'[a] = act[a]
                \/ a \in Of(t) /\ act[a].status \in NotStarted /\ act'[a].status = "CANCELLED"
  BY <1>1, <1>2, Rowed DEF ActionRow, ActionStatus
<1>5. act' \in [Actions -> ActionRow]
  <2>1. act' = [a \in Actions |-> act'[a]]
    BY <1>2
  <2> QED BY <1>4, <2>1
<1>6. ShapeInv'
  BY <1>1, <1>2, <1>3, <1>5 DEF ShapeInv
<1>7. TaskInv'
  BY <1>1, <1>2, <1>3, <1>4 DEF TaskInv, Of
<1>8. \A u \in Tasks : QuietMove(u)
  <2>1. ASSUME NEW a \in Actions
        PROVE  \/ act'[a].status = act[a].status
               \/ /\ act[a].status \notin Ended \cup {"ABSENT"}
                  /\ act'[a].status \notin {"ABSENT", "WAITING_FOR_USER"}
                  /\ act[a].status \in {"PLANNED", "READY"} => act'[a].status = "CANCELLED"
    BY <1>4 DEF NotStarted, Ended
  <2> QED BY <1>3, <2>1 DEF QuietMove, Of
<1>9. SnapshotInv'
  BY <1>1, <1>2, <1>8, QuietMovesKeepSnapshots
<1>10. Ends
  <2>1. \A u \in Tasks : task[u].status \in TaskEnded => task'[u].status = task[u].status
    BY <1>2, <1>3
  <2>2. \A a \in Actions : act[a].status \in Ended => act'[a].status = act[a].status
    BY <1>4 DEF NotStarted, Ended
  <2> QED BY <2>1, <2>2 DEF Ends
<1>11. Starts
  BY <1>4 DEF Starts
<1> QED BY <1>6, <1>7, <1>9, <1>10, <1>11 DEF Keeps, LifeInv

LEMMA AnswerKeeps ==
    ASSUME LifeInv, NEW a \in Actions, Answer(a)
    PROVE  Keeps
<1> DEFINE t == TaskOf[a]
<1>1. ShapeInv /\ TaskInv /\ SnapshotInv
  BY DEF LifeInv
<1>2. t \in Tasks /\ a \in Of(t) /\ act[a] \in ActionRow /\ act[a].status = "WAITING_FOR_USER"
  BY <1>1, Rowed DEF Answer, Grant, Refuse
<1>3. UNCHANGED tick
  BY DEF Answer, Grant, Refuse
<1>4. /\ act' \in [Actions -> ActionRow]
      /\ \A b \in Actions : b # a => act'[b] = act[b]
      /\ act'[a].status \in {"READY", "FAILED"}
  <2>1. CASE act' = [act EXCEPT ![a].status = "READY", ![a].granted = TRUE]
    BY <1>1, <1>2, <2>1 DEF ShapeInv, ActionRow, ActionStatus
  <2>2. CASE act' = [act EXCEPT ![a].status = "FAILED", ![a].code = "denied"]
    BY <1>1, <1>2, <2>2 DEF ShapeInv, ActionRow, ActionStatus, Code
  <2> QED BY <2>1, <2>2 DEF Answer, Grant, Refuse
<1>5. \/ task' = task
      \/ /\ task[t].status = "WAITING_FOR_USER"
         /\ \/ task' = [task EXCEPT ![t].status = "RUNNING"]
            \/ /\ task' = [task EXCEPT ![t].status = "FAILED"]
               /\ \A b \in Rows(t, act) : act'[b].status \in Ended
  BY DEF Answer, Grant, Refuse, Resumed, FailedIfBlocked
<1>6. /\ task' \in [Tasks -> TaskRow]
      /\ \A u \in Tasks : u # t => task'[u] = task[u]
      /\ task'[t].asked = task[t].asked /\ task'[t].replans = task[t].replans
      /\ task'[t].late = task[t].late
      /\ \/ task'[t].status = task[t].status
         \/ /\ task[t].status = "WAITING_FOR_USER"
            /\ \/ task'[t].status = "RUNNING"
               \/ task'[t].status = "FAILED" /\ \A b \in Rows(t, act) : act'[b].status \in Ended
  <2>1. task \in [Tasks -> TaskRow] /\ task[t] \in TaskRow
    BY <1>1, <1>2 DEF ShapeInv
  <2> HIDE DEF t
  <2> QED BY <1>2, <1>5, <2>1 DEF TaskRow, TaskStatus
<1> HIDE DEF t
<1>7. ShapeInv'
  BY <1>1, <1>3, <1>4, <1>6 DEF ShapeInv
<1>8. TaskInv'
  <2>1. ASSUME NEW u \in Tasks, u # t
        PROVE  task'[u] = task[u] /\ \A b \in Of(u) : act'[b] = act[b]
    BY <1>2, <1>4, <1>6, <2>1 DEF Of
  <2>2. task[t].status \notin {"ABSENT", "PLANNING", "SUCCEEDED"}
    BY <1>1, <1>2 DEF TaskInv, Ended
  <2>3. task'[t].status = "FAILED" /\ task'[t].late = FALSE =>
          \A b \in Of(t) : act'[b].status \in Ended \cup {"ABSENT"}
    <3>1. CASE task[t].status = "FAILED" /\ task[t].late = FALSE
      BY <1>1, <1>2, <3>1 DEF TaskInv, Ended
    <3>2. CASE task'[t].status # task[t].status /\ task'[t].status = "FAILED"
      <4>1. \A b \in Rows(t, act) : act'[b].status \in Ended
        BY <1>6, <3>2
      <4>2. \A b \in Of(t) \ Rows(t, act) : b # a /\ b \in Actions /\ act[b].status = "ABSENT"
        BY <1>2 DEF Rows, Of
      <4> QED BY <1>4, <4>1, <4>2 DEF Rows, Of
    <3> QED BY <1>6, <3>1, <3>2
  <2>4. /\ task'[t].status # "ABSENT" => task'[t].asked = TRUE
        /\ task'[t].status \notin {"ABSENT", "PLANNING", "SUCCEEDED"}
    BY <1>1, <1>2, <1>6, <2>2 DEF TaskInv
  <2> QED BY <1>1, <1>2, <2>1, <2>3, <2>4 DEF TaskInv, Of
<1>9. \A u \in Tasks : QuietMove(u)
  <2>1. QuietMove(t)
    BY <1>2, <1>4, <1>6 DEF QuietMove, Ended, Of
  <2>2. ASSUME NEW u \in Tasks, u # t PROVE QuietMove(u)
    BY <1>2, <1>4, <1>6, <2>2 DEF QuietMove, Of
  <2> QED BY <2>1, <2>2
<1>10. SnapshotInv'
  BY <1>1, <1>3, <1>9, QuietMovesKeepSnapshots
<1>11. Ends
  <2>1. \A u \in Tasks : task[u].status \in TaskEnded => task'[u].status = task[u].status
    BY <1>6 DEF TaskEnded
  <2>2. \A b \in Actions : act[b].status \in Ended => act'[b].status = act[b].status
    BY <1>2, <1>4 DEF Ended
  <2> QED BY <2>1, <2>2 DEF Ends
<1>12. Starts
  BY <1>4 DEF Starts
<1> QED BY <1>7, <1>8, <1>10, <1>11, <1>12 DEF Keeps, LifeInv

LEMMA WorkerKeeps ==
    ASSUME LifeInv, NEW a \in Actions, Worker(a)
    PROVE  Keeps
<1> DEFINE t == TaskOf[a]
<1>1. ShapeInv /\ TaskInv /\ SnapshotInv
  BY DEF LifeInv
<1>2. /\ t \in Tasks /\ a \in Of(t) /\ act[a] \in ActionRow
      /\ act[a].status \in {"DISPATCHED", "RUNNING"}
      /\ UNCHANGED <<task, tick>>
  BY <1>1, Rowed DEF Worker, WorkerTakes, WorkerReturns
<1>3. PICK row \in ActionRow :
        /\ act' = [act EXCEPT ![a] = row]
        /\ row.status \in {"RUNNING", "CANCELLED", "SUCCEEDED", "UNVERIFIED", "FAILED", "READY"}
        /\ row.status = "RUNNING" => task[t].status # "CANCELLED" /\ act[a].status = "DISPATCHED"
  <2>1. CASE WorkerTakes(a)
    <3> DEFINE to == IF task[t].status = "CANCELLED" THEN "CANCELLED" ELSE "RUNNING"
               row == [act[a] EXCEPT !.status = to]
    <3>1. row \in ActionRow /\ row.status = to
      BY <1>2 DEF ActionRow, ActionStatus
    <3>2. act' = [act EXCEPT ![a] = row] /\ act[a].status = "DISPATCHED"
      BY <1>1, <2>1 DEF WorkerTakes, ShapeInv
    <3> QED BY <3>1, <3>2
  <2>2. CASE WorkerReturns(a)
    <3>1. PICK row \in Outcome(a) : act' = [act EXCEPT ![a] = row]
      BY <2>2 DEF WorkerReturns
    <3>2. /\ row \in ActionRow
          /\ row.status \in {"CANCELLED", "SUCCEEDED", "UNVERIFIED", "FAILED", "READY"}
      BY <1>2, <3>1 DEF Outcome, ActionRow, ActionStatus, Code
    <3> QED BY <3>1, <3>2
  <2> QED BY <2>1, <2>2 DEF Worker
<1> HIDE DEF t
<1>4. /\ act' \in [Actions -> ActionRow] /\ act'[a] = row
      /\ \A b \in Actions : b # a => act'[b] = act[b]
  BY <1>1, <1>3 DEF ShapeInv
<1>5. ShapeInv'
  BY <1>1, <1>2, <1>4 DEF ShapeInv
<1>6. /\ task[t].status \notin {"ABSENT", "PLANNING", "SUCCEEDED"}
      /\ task[t].status = "FAILED" => task[t].late = TRUE
  BY <1>1, <1>2, Rowed DEF TaskInv, Ended
<1>7. TaskInv'
  <2>1. ASSUME NEW u \in Tasks, u # t
        PROVE  \A b \in Of(u) : act'[b] = act[b]
    BY <1>2, <1>4, <2>1 DEF Of
  <2> QED BY <1>1, <1>2, <1>6, <2>1 DEF TaskInv, Of
<1>8. \A u \in Tasks : QuietMove(u)
  BY <1>2, <1>3, <1>4 DEF QuietMove, Ended, Of
<1>9. SnapshotInv'
  BY <1>1, <1>2, <1>8, QuietMovesKeepSnapshots
<1>10. Ends
  BY <1>2, <1>3, <1>4 DEF Ends, Ended
<1>11. Starts
  <2>1. task[t].status # "CANCELLED" => \/ task[t].status \in Runnable \cup {"NEEDS_HUMAN"}
                                        \/ task[t].status = "FAILED" /\ task[t].late
    BY <1>1, <1>2, <1>6, Rowed DEF TaskStatus, Runnable
  <2>2. ASSUME NEW b \in Actions, act[b].status # "RUNNING", act'[b].status = "RUNNING"
        PROVE  TaskOf[b] = t /\ task[t].status # "CANCELLED"
    BY <1>3, <1>4, <2>2 DEF t
  <2> QED BY <2>1, <2>2 DEF Starts
<1> QED BY <1>5, <1>7, <1>9, <1>10, <1>11 DEF Keeps, LifeInv

LEMMA ReadKeeps ==
    ASSUME LifeInv, NEW s \in Schedulers, TickRead(s)
    PROVE  Keeps
<1>1. ShapeInv /\ TaskInv /\ SnapshotInv
  BY DEF LifeInv
<1> DEFINE now == [tasks |-> {t \in Tasks : task[t].status \in Runnable},
                   task |-> task, act |-> act]
<1>2. tick' = [tick EXCEPT ![s] = now] /\ UNCHANGED <<task, act>>
  BY DEF TickRead
<1>3. /\ now.tasks \subseteq Tasks /\ now.task \in [Tasks -> TaskRow]
      /\ now.act \in [Actions -> ActionRow]
      /\ now = [tasks |-> now.tasks, task |-> now.task, act |-> now.act]
  BY <1>1 DEF ShapeInv
<1>4. ASSUME NEW t \in now.tasks
      PROVE  Seen(t, now)
  <2>1. task[t].status \in Runnable /\ t \in Tasks
    OBVIOUS
  <2> QED BY <2>1 DEF Seen, SeenStatus, Runnable
<1>5. \A seen : \A t \in Tasks : Seen(t, seen) => Seen(t, seen)'
  BY <1>2 DEF Seen, Of
<1> HIDE DEF now
<1>6. ShapeInv' /\ TaskInv'
  BY <1>1, <1>2 DEF ShapeInv, TaskInv, Of
<1>7. SnapshotInv'
  <2>1. tick'[s] = now /\ \A u \in Schedulers : u # s => tick'[u] = tick[u]
    BY <1>1, <1>2 DEF ShapeInv
  <2>2. ASSUME NEW u \in Schedulers, tick'[u] # Idle, NEW y, y = tick'[u]
        PROVE  /\ y = [tasks |-> y.tasks, task |-> y.task, act |-> y.act]
               /\ y.tasks \subseteq Tasks
               /\ y.task \in [Tasks -> TaskRow] /\ y.act \in [Actions -> ActionRow]
               /\ \A t \in y.tasks : Seen(t, y)
    <3>1. CASE u = s
      BY <1>3, <1>4, <2>1, <2>2, <3>1
    <3>2. CASE u # s
      BY <1>1, <2>1, <2>2, <3>2 DEF SnapshotInv
    <3> QED BY <3>1, <3>2
  <2>3. ASSUME NEW u \in Schedulers, tick'[u] # Idle, NEW y, y = tick'[u]
        PROVE  \A t \in y.tasks : Seen(t, y)'
    BY <1>5, <2>2, <2>3
  <2> SUFFICES ASSUME NEW u \in Schedulers, tick'[u] # Idle
               PROVE  /\ tick'[u] = [tasks |-> tick'[u].tasks, task |-> tick'[u].task, act |-> tick'[u].act]
                      /\ tick'[u].tasks \subseteq Tasks
                      /\ tick'[u].task \in [Tasks -> TaskRow] /\ tick'[u].act \in [Actions -> ActionRow]
                      /\ \A t \in tick'[u].tasks : Seen(t, tick[u])'
    BY DEF SnapshotInv, Idle
  <2>4. PICK y : y = tick'[u]
    OBVIOUS
  <2>5. \A t \in y.tasks : Seen(t, y)'
    BY <2>3, <2>4
  <2>6. \A t \in tick'[u].tasks : Seen(t, tick[u])'
    BY <2>4, <2>5 DEF Seen
  <2> QED BY <2>2, <2>6
<1>8. Ends /\ Starts
  BY <1>2 DEF Ends, Starts
<1> QED BY <1>6, <1>7, <1>8 DEF Keeps, LifeInv

LEMMA AbortKeeps ==
    ASSUME LifeInv, SoleScheduler, NEW s \in Schedulers, TickAborts(s)
    PROVE  Keeps
<1>1. tick' = [tick EXCEPT ![s] = Idle] /\ UNCHANGED <<task, act>>
  BY DEF TickAborts
<1>2. \A u \in Schedulers : tick'[u] = Idle
  BY <1>1 DEF LifeInv, ShapeInv, SoleScheduler
<1>3. ShapeInv' /\ TaskInv'
  BY <1>1 DEF LifeInv, ShapeInv, TaskInv, Of
<1>4. SnapshotInv'
  BY <1>2 DEF SnapshotInv, Idle
<1>5. Ends /\ Starts
  BY <1>1 DEF Ends, Starts
<1> QED BY <1>3, <1>4, <1>5 DEF Keeps, LifeInv

LEMMA CommitKeeps ==
    ASSUME LifeInv, SoleScheduler, NEW s \in Schedulers, TickCommit(s)
    PROVE  Keeps
<1> DEFINE T == tick[s].tasks
<1>1. ShapeInv /\ TaskInv /\ SnapshotInv
  BY DEF LifeInv
<1>2. /\ T \subseteq Tasks /\ tick[s].task \in [Tasks -> TaskRow]
      /\ \A t \in T : Seen(t, tick[s])
  <2>1. T # {}
    BY DEF TickCommit
  <2>2. tick[s] # Idle
    BY <2>1 DEF Idle
  <2> QED BY <1>1, <2>2 DEF SnapshotInv
<1>3. PICK r :
        /\ \A t \in T : r[t] \in Ticked(t, tick[s])
        /\ task' = [t \in Tasks |-> IF t \in T
                      THEN [task[t] EXCEPT !.status = r[t].left.status,
                                           !.replans = r[t].left.replans]
                      ELSE task[t]]
        /\ act' = [a \in Actions |-> IF TaskOf[a] \in T
                      THEN r[TaskOf[a]].left.act[a] ELSE act[a]]
  BY DEF TickCommit
<1>4. \A t \in T : Moves(t, r[t].left)
  BY <1>1, <1>2, <1>3, TickedMoves
<1>5. tick' = [tick EXCEPT ![s] = Idle]
  BY DEF TickCommit
<1>6. \A u \in Schedulers : tick'[u] = Idle
  BY <1>1, <1>5 DEF ShapeInv, SoleScheduler
<1>7. SnapshotInv'
  BY <1>6 DEF SnapshotInv, Idle
<1> HIDE DEF T
<1>8. ASSUME NEW t \in Tasks
      PROVE  /\ task'[t] \in TaskRow /\ task'[t].asked = task[t].asked /\ task'[t].late = task[t].late
             /\ t \in T => /\ task'[t].status = r[t].left.status
                           /\ task'[t].replans = r[t].left.replans
             /\ t \notin T => task'[t] = task[t]
  <2>1. task[t] \in TaskRow
    BY <1>1, Rowed
  <2>2. t \in T => r[t].left.status \in TaskStatus /\ r[t].left.replans \in Nat
    BY <1>4 DEF Moves, TaskStatus, Runnable, TaskEnded
  <2>3. CASE t \in T
    <3>1. task'[t] = [task[t] EXCEPT !.status = r[t].left.status, !.replans = r[t].left.replans]
      BY <1>3, <2>3
    <3> QED BY <2>1, <2>2, <2>3, <3>1 DEF TaskRow
  <2>4. CASE t \notin T
    BY <1>3, <2>1, <2>4
  <2> QED BY <2>3, <2>4
<1>9. ASSUME NEW a \in Actions
      PROVE  /\ act'[a] \in ActionRow
             /\ TaskOf[a] \in T => act'[a] = r[TaskOf[a]].left.act[a]
             /\ TaskOf[a] \notin T => act'[a] = act[a]
  <2>1. act[a] \in ActionRow /\ a \in Of(TaskOf[a])
    BY <1>1, Rowed
  <2>2. TaskOf[a] \in T => r[TaskOf[a]].left.act[a] \in ActionRow
    BY <1>4, <2>1 DEF Moves
  <2>3. act'[a] = IF TaskOf[a] \in T THEN r[TaskOf[a]].left.act[a] ELSE act[a]
    BY <1>3
  <2> QED BY <2>1, <2>2, <2>3
<1>10. ShapeInv'
  <2>1. act' = [a \in Actions |-> act'[a]] /\ task' = [t \in Tasks |-> task'[t]]
    BY <1>3
  <2>2. act' \in [Actions -> ActionRow] /\ task' \in [Tasks -> TaskRow]
    BY <1>8, <1>9, <2>1
  <2> QED BY <1>1, <1>5, <2>2 DEF ShapeInv
<1>11. TaskInv'
  <2>1. ASSUME NEW t \in Tasks, t \in T
        PROVE  /\ task'[t].asked = TRUE
               /\ task'[t].status \notin {"ABSENT", "PLANNING"}
               /\ task'[t].status = "SUCCEEDED" \/ (task'[t].status = "FAILED" /\ task'[t].late = FALSE) =>
                    \A a \in Of(t) : act'[a].status \in Ended \cup {"ABSENT"}
    <3>1. Moves(t, r[t].left) /\ Seen(t, tick[s])
      BY <1>2, <1>4, <2>1 DEF T
    <3>2. task[t].asked = TRUE
      BY <1>1, <3>1 DEF TaskInv, Seen, Runnable
    <3>3. \A a \in Of(t) : act'[a] = r[t].left.act[a]
      BY <1>9, <2>1 DEF Of
    <3> QED BY <1>8, <2>1, <3>1, <3>2, <3>3 DEF Moves, Runnable, TaskEnded
  <2>2. ASSUME NEW t \in Tasks, t \notin T
        PROVE  task'[t] = task[t] /\ \A a \in Of(t) : act'[a] = act[a]
    BY <1>8, <1>9, <2>2 DEF Of
  <2>3. ASSUME NEW t \in Tasks
        PROVE  /\ task'[t].status # "ABSENT" => task'[t].asked = TRUE
               /\ task'[t].status \in {"ABSENT", "PLANNING"} =>
                    \A a \in Of(t) : act'[a].status \in {"ABSENT", "PLANNED"}
               /\ task'[t].status = "SUCCEEDED" \/ (task'[t].status = "FAILED" /\ task'[t].late = FALSE) =>
                    \A a \in Of(t) : act'[a].status \in Ended \cup {"ABSENT"}
    <3>1. CASE t \in T
      BY <2>1, <3>1
    <3>2. CASE t \notin T
      BY <1>1, <2>2, <3>2 DEF TaskInv
    <3> QED BY <3>1, <3>2
  <2> QED BY <2>3 DEF TaskInv, Of
<1>12. Ends
  <2>1. \A t \in Tasks : task[t].status \in TaskEnded => task'[t].status = task[t].status
    BY <1>4, <1>8 DEF Moves
  <2>2. ASSUME NEW a \in Actions, act[a].status \in Ended
        PROVE  \/ act'[a].status = act[a].status
               \/ /\ act[a].status = "FAILED" /\ act'[a].status = "CANCELLED"
                  /\ task'[TaskOf[a]].replans > task[TaskOf[a]].replans
    <3>1. TaskOf[a] \in Tasks /\ a \in Of(TaskOf[a])
      BY <1>1, Rowed
    <3>2. CASE TaskOf[a] \in T
      BY <1>4, <1>8, <1>9, <2>2, <3>1, <3>2 DEF Moves
    <3>3. CASE TaskOf[a] \notin T
      BY <1>9, <3>3
    <3> QED BY <3>2, <3>3
  <2> QED BY <2>1, <2>2 DEF Ends
<1>13. Starts
  <2>1. ASSUME NEW a \in Actions, act'[a].status = "RUNNING"
        PROVE  act[a].status = "RUNNING"
    <3>1. TaskOf[a] \in Tasks /\ a \in Of(TaskOf[a])
      BY <1>1, Rowed
    <3> QED BY <1>4, <1>9, <2>1, <3>1 DEF Moves
  <2> QED BY <2>1 DEF Starts
<1> QED BY <1>7, <1>10, <1>11, <1>12, <1>13 DEF Keeps, LifeInv

------------------------------------------------------------------------------
LEMMA LifeInvInit == Init => LifeInv
<1> SUFFICES ASSUME Init PROVE LifeInv
  OBVIOUS
<1>1. ShapeInv
  BY TaskLifecycleAssumption
  DEF Init, ShapeInv, TaskRow, ActionRow, TaskStatus, ActionStatus, Code
<1>2. TaskInv /\ SnapshotInv
  BY DEF Init, TaskInv, SnapshotInv, Of
<1> QED BY <1>1, <1>2 DEF LifeInv

LEMMA LifeSteps ==
    ASSUME SoleScheduler, LifeInv, [Next]_vars
    PROVE  Keeps
<1>1. CASE UNCHANGED vars
  <2>1. UNCHANGED <<task, act, tick>>
    BY <1>1 DEF vars
  <2> QED BY <2>1 DEF Keeps, Ends, Starts, LifeInv, ShapeInv, TaskInv, SnapshotInv, Seen, Of
<1>2. CASE \E s \in Schedulers : Scheduler(s)
  BY <1>2, ReadKeeps, CommitKeeps, AbortKeeps DEF Scheduler
<1>3. CASE \E t \in Tasks : Client(t) \/ DeadlinePasses(t)
  BY <1>3, SubmitKeeps, TaskOnlyKeeps, CancelKeeps DEF Client
<1>4. CASE \E a \in Actions : Worker(a) \/ Answer(a)
  BY <1>4, WorkerKeeps, AnswerKeeps
<1> QED BY <1>1, <1>2, <1>3, <1>4 DEF Next

(* Under one scheduler, whatever plans, verdicts, answers, deadlines and      *)
(* replans: an ended task stays ended, an ended action changes only when a    *)
(* replan that is counted withdraws it, and work starts under an ended task   *)
(* only when its deadline ended it (cas_task_status, _complete_if_done,       *)
(* _enforce_deadline).                                                        *)
THEOREM EndsAreForGood == SoleScheduler => (Spec => TasksEndOnce)
<1> SUFFICES ASSUME SoleScheduler PROVE Spec => TasksEndOnce
  OBVIOUS
<1>1. LifeInv /\ [Next]_vars => LifeInv' /\ Ends /\ Starts
  BY LifeSteps DEF Keeps
<1>3. Spec => []LifeInv
  BY <1>1, LifeInvInit, PTL DEF Spec
<1>4. Spec => [][Ends]_vars
  BY <1>1, <1>3, PTL DEF Spec
<1>5. Spec => [][Starts]_vars
  BY <1>1, <1>3, PTL DEF Spec
<1>6. [Ends]_vars => [/\ \A t \in Tasks : task[t].status \in TaskEnded => task'[t].status = task[t].status
                      /\ \A a \in Actions : act[a].status \in Ended =>
                           \/ act'[a].status = act[a].status
                           \/ /\ act[a].status = "FAILED" /\ act'[a].status = "CANCELLED"
                              /\ task'[TaskOf[a]].replans > task[TaskOf[a]].replans]_vars
  BY DEF Ends
<1>7. Spec => EndsAreFinal
  BY <1>4, <1>6, PTL DEF EndsAreFinal
<1>8. [Starts]_vars => [\A a \in Actions : (act[a].status # "RUNNING" /\ act'[a].status = "RUNNING") =>
                          \/ task[TaskOf[a]].status \in Runnable \cup {"NEEDS_HUMAN"}
                          \/ task[TaskOf[a]].status = "FAILED" /\ task[TaskOf[a]].late]_vars
  BY DEF Starts
<1>9. Spec => OnlyDeadlineLeavesWork
  BY <1>5, <1>8, PTL DEF OnlyDeadlineLeavesWork
<1> QED BY <1>7, <1>9 DEF TasksEndOnce

------------------------------------------------------------------------------
(* What the rows say of each other: why an action is cancelled or failed,     *)
(* what a tick that has read a row may rely on, and how many repairs and      *)
(* withdrawals the replan counter stands for.                                 *)
StepInv == step \in [Actions -> {"PLANNED", "RUNNING", "SUCCEEDED", "FAILED"}]

CodeInv ==
    \A a \in Actions :
      /\ act[a].code = "tool" => act[a].status \in {"FAILED", "CANCELLED"}
      /\ act[a].status = "FAILED" => act[a].code # "none"
      /\ act[a].status = "CANCELLED" =>
           task[TaskOf[a]].status = "CANCELLED" \/ act[a].code = "tool"

Read(t, seen) ==
    \A a \in Of(t) :
      /\ seen.act[a].status \in Ended => act[a] = seen.act[a]
      /\ act[a].status = "CANCELLED" =>
           task[t].status = "CANCELLED" \/ seen.act[a].status = "CANCELLED"
ReadInv ==
    \A s \in Schedulers : tick[s] # Idle => \A t \in tick[s].tasks : Read(t, tick[s])

Repairs(t) == Rows(t, act) \cap Spare[t]
CountInv ==
    \A t \in Tasks :
      /\ IsFiniteSet(Repairs(t)) /\ Cardinality(Repairs(t)) = task[t].replans
      /\ IsFiniteSet(Withdrawn(t)) /\ Cardinality(Withdrawn(t)) = task[t].replans

SoundInv ==
    LifeInv /\ StepInv /\ CodeInv /\ ReadInv /\ SucceededMeansDone /\ HumanAskedWhenSpent /\ CountInv

------------------------------------------------------------------------------
(* What a tick leaves of one task, in full.                                   *)
IsWithdrawn(row) == row.status = "CANCELLED" /\ row.code = "tool"

\* What holds of the rows a tick writes, apart from those a replan touches.
Rewrites(t, rows) ==
    \A a \in Of(t) :
      /\ rows[a].code = "tool" => rows[a].status \in {"FAILED", "CANCELLED"}
      /\ rows[a].status = "FAILED" => rows[a].code # "none"
      /\ rows[a].status = "CANCELLED" => act[a].status = "CANCELLED" /\ rows[a].code = act[a].code
      /\ act[a].status = "CANCELLED" => rows[a].status = "CANCELLED" /\ rows[a].code = act[a].code
      /\ rows[a].status = "ABSENT" <=> act[a].status = "ABSENT"
      /\ act[a].status = "FAILED" => rows[a].status = "FAILED" /\ rows[a].code = act[a].code

LEMMA LeftRewrites ==
    ASSUME ShapeInv, CodeInv, NEW t \in Tasks, NEW status, NEW q,
           \A a \in Of(t) :
             /\ act[a].status \notin {"PLANNED", "READY"} => q[a].db = act[a].status
             /\ act[a].status \in {"PLANNED", "READY"} =>
                  q[a].db \in {"PLANNED", "READY", "DISPATCHED", "WAITING_FOR_USER", "FAILED"}
    PROVE  LET left == Left(t, status, q)
           IN  /\ Rewrites(t, left.act)
               /\ \A a \in Of(t) : left.act[a].status = q[a].db
               /\ left.status = status /\ left.replans = task[t].replans
<1> DEFINE rows == [a \in Of(t) |-> [act[a] EXCEPT
                !.status = q[a].db,
                !.code = IF q[a].db = "FAILED" /\ act[a].status # "FAILED"
                         THEN "denied" ELSE act[a].code]]
<1>1. Left(t, status, q) = [status |-> status, replans |-> task[t].replans,
                            replanned |-> FALSE, act |-> rows]
  BY DEF Left
<1>2. ASSUME NEW a \in Of(t)
      PROVE  /\ rows[a].status = q[a].db
             /\ rows[a].code = IF q[a].db = "FAILED" /\ act[a].status # "FAILED"
                               THEN "denied" ELSE act[a].code
  <2>1. act[a] \in ActionRow
    BY DEF ShapeInv, Of
  <2> QED BY <2>1 DEF ActionRow
<1> HIDE DEF rows
<1>3. \A a \in Of(t) : a \in Actions
  BY DEF Of
<1>4. Rewrites(t, rows)
  BY <1>2, <1>3 DEF Rewrites, CodeInv
<1> QED BY <1>1, <1>2, <1>4

LEMMA OfferedIs ==
    ASSUME NEW t \in Tasks, NEW seen
    PROVE  /\ \/ Opened(t, seen).db = task[t].status
              \/ task[t].status \in Runnable /\ Opened(t, seen).db = "RUNNING"
           /\ \/ Offered(t, seen).db = task[t].status
              \/ task[t].status \in Runnable /\ Offered(t, seen).db \in Runnable
<1> DEFINE here == Rows(t, seen.act)
           p1 == Opened(t, seen)
           q2 == Judgement(CopyOf(t, seen))
           p2 == IF \E a \in here : q2[a].mem \notin {"PLANNED", "READY"}
                 THEN Cas(p1, "READY", "RUNNING") ELSE p1
<1>1. p1.db = task[t].status \/ (task[t].status \in Runnable /\ p1.db = "RUNNING")
  BY DEF Opened, Cas, Runnable
<1> HIDE DEF p1, q2
<1>2. p2.db = task[t].status \/ (task[t].status \in Runnable /\ p2.db \in Runnable)
  BY <1>1 DEF Cas, Runnable
<1>3. Offered(t, seen) = Blocked(p2, q2, here)
  BY DEF Offered, p1, q2
<1> HIDE DEF p2
<1>4. \/ Offered(t, seen).db = p2.db
      \/ p2.db = "RUNNING" /\ Offered(t, seen).db = "WAITING_FOR_USER"
  BY <1>3 DEF Blocked, Cas
<1> QED BY <1>1, <1>2, <1>4 DEF p1, Runnable

LEMMA CompletedIs ==
    ASSUME NEW t \in Tasks, NEW p, NEW q, NEW seen, NEW left \in Completed(t, p, q, seen)
    PROVE  LET here == Rows(t, seen.act)
               ends(to) == Left(t, Cas(p, "RUNNING", to).db, q)
           IN  \/ left = Left(t, p.db, q)
               \/ /\ \A a \in here : q[a].mem \in Ended
                  /\ \/ \E a \in here : /\ Replannable(t, seen, a)
                                         /\ left \in Repaired(t, Left(t, p.db, q), seen, a)
                     \/ /\ \E a \in here : q[a].mem = "FAILED"
                        /\ Spent(t, seen) /\ left = ends("NEEDS_HUMAN")
                     \/ left = ends("FAILED")
                     \/ /\ \A a \in here : q[a].mem # "FAILED" /\ ~Unproven(a, q[a].mem)
                        /\ left = ends("SUCCEEDED")
BY DEF Completed, Outstanding

\* A replan appends one spare action and withdraws one failed one.
Replanned(t, left) ==
    /\ left.replans = task[t].replans + 1
    /\ \E new \in Of(t) \cap Spare[t], failed \in Of(t) :
         /\ act[new].status = "ABSENT" /\ left.act[new].status # "ABSENT"
         /\ ~IsWithdrawn(act[failed]) /\ IsWithdrawn(left.act[failed])
         /\ \A a \in Of(t) :
              /\ a # new => (left.act[a].status = "ABSENT" <=> act[a].status = "ABSENT")
              /\ a # failed => (IsWithdrawn(left.act[a]) <=> IsWithdrawn(act[a]))
Unplanned(t, left) ==
    /\ left.replans = task[t].replans
    /\ \A a \in Of(t) :
         /\ left.act[a].status = "ABSENT" <=> act[a].status = "ABSENT"
         /\ IsWithdrawn(left.act[a]) <=> IsWithdrawn(act[a])

Leaves(t, r) ==
    /\ r.step \in [Of(t) -> {"PLANNED", "RUNNING", "SUCCEEDED", "FAILED"}]
    /\ \A a \in Of(t) :
         /\ r.left.act[a].code = "tool" => r.left.act[a].status \in {"FAILED", "CANCELLED"}
         /\ r.left.act[a].status = "FAILED" => r.left.act[a].code # "none"
         /\ r.left.act[a].status = "CANCELLED" => task[t].status = "CANCELLED" \/ r.left.act[a].code = "tool"
    /\ r.left.status = "SUCCEEDED" =>
         \A a \in Of(t) : r.left.act[a].status # "ABSENT" =>
           \/ Satisfied(r.left.act[a].status, a) /\ r.step[a] = "SUCCEEDED"
           \/ IsWithdrawn(r.left.act[a])
    /\ r.left.status = "NEEDS_HUMAN" =>
         /\ r.left.replans >= MaxReplans
         /\ \E a \in Of(t) : r.left.act[a].status = "FAILED"
    /\ Unplanned(t, r.left) \/ Replanned(t, r.left)

LEMMA LeavesPlainly ==
    ASSUME CodeInv, NEW t \in Tasks, NEW r,
           Rewrites(t, r.left.act), r.left.replans = task[t].replans,
           r.step \in [Of(t) -> {"PLANNED", "RUNNING", "SUCCEEDED", "FAILED"}],
           r.left.status = "SUCCEEDED" =>
             \A a \in Of(t) : r.left.act[a].status # "ABSENT" =>
               \/ Satisfied(r.left.act[a].status, a) /\ r.step[a] = "SUCCEEDED"
               \/ IsWithdrawn(r.left.act[a]),
           r.left.status = "NEEDS_HUMAN" =>
             /\ task[t].replans >= MaxReplans
             /\ \E a \in Of(t) : r.left.act[a].status = "FAILED"
    PROVE  Leaves(t, r)
<1>1. \A a \in Of(t) : a \in Actions /\ TaskOf[a] = t
  BY DEF Of
<1>2. ASSUME NEW a \in Of(t)
      PROVE  /\ r.left.act[a].code = "tool" => r.left.act[a].status \in {"FAILED", "CANCELLED"}
             /\ r.left.act[a].status = "FAILED" => r.left.act[a].code # "none"
             /\ r.left.act[a].status = "CANCELLED" => task[t].status = "CANCELLED" \/ r.left.act[a].code = "tool"
             /\ r.left.act[a].status = "ABSENT" <=> act[a].status = "ABSENT"
             /\ IsWithdrawn(r.left.act[a]) <=> IsWithdrawn(act[a])
  BY <1>1 DEF Rewrites, CodeInv, IsWithdrawn
<1>3. Unplanned(t, r.left)
  BY <1>2 DEF Unplanned
<1> QED BY <1>2, <1>3 DEF Leaves

LEMMA RepairLeaves ==
    ASSUME ShapeInv, CodeInv, NEW t \in Tasks, NEW seen, Read(t, seen),
           Seen(t, seen), NEW left, Rewrites(t, left.act),
           left = [status |-> left.status, replans |-> left.replans,
                   replanned |-> left.replanned, act |-> left.act],
           left.act \in [Of(t) -> ActionRow],
           left.status \notin {"SUCCEEDED", "NEEDS_HUMAN"},
           NEW failed \in Of(t), Replannable(t, seen, failed),
           NEW r, r.left \in Repaired(t, left, seen, failed),
           r.step \in [Of(t) -> {"PLANNED", "RUNNING", "SUCCEEDED", "FAILED"}]
    PROVE  Leaves(t, r)
<1>1. PICK new \in {b \in Spare[t] : act[b].status = "ABSENT"} :
        r.left = [left EXCEPT !.replans = seen.task[t].replans + 1, !.replanned = TRUE,
                              !.act[failed].status = Withdraw(@),
                              !.act[new].status = "PLANNED"]
  BY DEF Repaired
<1>2. new \in Of(t) /\ new \in Spare[t] /\ act[new].status = "ABSENT"
  BY TaskLifecycleAssumption DEF Of
<1>3. \A a \in Of(t) : a \in Actions /\ TaskOf[a] = t /\ act[a] \in ActionRow
  BY DEF Of, ShapeInv
<1>4. act[failed].status = "FAILED" /\ act[failed].code = "tool"
  <2>1. act[failed] = seen.act[failed]
    BY DEF Read, Replannable, Ended
  <2> QED BY <1>3, <2>1 DEF Replannable, CodeInv, ActionRow, Code
<1> DEFINE rows == [left.act EXCEPT ![failed].status = Withdraw(@), ![new].status = "PLANNED"]
<1>5. r.left.status = left.status /\ r.left.replans = seen.task[t].replans + 1 /\ r.left.act = rows
  BY <1>1
<1>6. new # failed
  BY <1>2, <1>4
<1>7. ASSUME NEW a \in Of(t)
      PROVE  /\ a = new => rows[a].status = "PLANNED" /\ rows[a].code = left.act[a].code
             /\ a = failed => rows[a].status = Withdraw(left.act[a].status) /\ rows[a].code = left.act[a].code
             /\ a # new /\ a # failed => rows[a] = left.act[a]
  <2>1. left.act[a] \in ActionRow
    OBVIOUS
  <2> QED BY <1>6, <2>1 DEF ActionRow
<1> HIDE DEF rows
<1>8. IsWithdrawn(rows[failed]) /\ ~IsWithdrawn(act[failed])
  BY <1>4, <1>7 DEF Rewrites, IsWithdrawn, Withdraw
<1>9. left.act[new].status = "ABSENT" /\ left.act[new].code # "tool"
  BY <1>2, <1>3 DEF Rewrites, CodeInv
<1>10. rows[new].status = "PLANNED" /\ rows[new].code # "tool"
  BY <1>2, <1>7, <1>9
<1>11. ASSUME NEW a \in Of(t)
       PROVE  /\ rows[a].code = "tool" => rows[a].status \in {"FAILED", "CANCELLED"}
              /\ rows[a].status = "FAILED" => rows[a].code # "none"
              /\ rows[a].status = "CANCELLED" => task[t].status = "CANCELLED" \/ rows[a].code = "tool"
              /\ a # new => (rows[a].status = "ABSENT" <=> act[a].status = "ABSENT")
              /\ a # failed => (IsWithdrawn(rows[a]) <=> IsWithdrawn(act[a]))
  <2>1. CASE a = new
    BY <1>2, <1>6, <1>10, <2>1 DEF IsWithdrawn
  <2>2. CASE a = failed
    BY <1>4, <1>8, <2>2 DEF IsWithdrawn
  <2>3. CASE a # new /\ a # failed
    BY <1>3, <1>7, <2>3 DEF Rewrites, CodeInv, IsWithdrawn
  <2> QED BY <2>1, <2>2, <2>3
<1>12. r.left.replans = task[t].replans + 1
  BY <1>5 DEF Seen
<1>13. Replanned(t, r.left)
  BY <1>2, <1>5, <1>8, <1>10, <1>11, <1>12 DEF Replanned
<1> QED BY <1>5, <1>11, <1>13 DEF Leaves

LEMMA SyncedIs ==
    ASSUME StepInv, NEW t \in Tasks, NEW seen
    PROVE  /\ [a \in Of(t) |-> step[a]] \in [Of(t) -> {"PLANNED", "RUNNING", "SUCCEEDED", "FAILED"}]
           /\ Synced(t, seen) \in [Of(t) -> {"PLANNED", "RUNNING", "SUCCEEDED", "FAILED"}]
           /\ \A a \in Rows(t, seen.act) :
                Satisfied(Judgement(CopyOf(t, seen))[a].mem, a) => Synced(t, seen)[a] = "SUCCEEDED"
<1>1. ASSUME NEW a \in Of(t) PROVE step[a] \in {"PLANNED", "RUNNING", "SUCCEEDED", "FAILED"}
  BY DEF StepInv, Of
<1>2. ASSUME NEW a, NEW status, NEW old \in {"PLANNED", "RUNNING", "SUCCEEDED", "FAILED"}
      PROVE  /\ StepAfter(a, status, old) \in {"PLANNED", "RUNNING", "SUCCEEDED", "FAILED"}
             /\ Satisfied(status, a) => StepAfter(a, status, old) = "SUCCEEDED"
  <2>1. CASE status = "RUNNING"
    BY <2>1 DEF StepAfter, Satisfied
  <2>2. CASE status # "RUNNING" /\ Satisfied(status, a)
    <3>1. status \in Ended
      BY <2>2 DEF Satisfied, Ended
    <3> QED BY <2>2, <3>1 DEF StepAfter
  <2>3. CASE status # "RUNNING" /\ ~Satisfied(status, a) /\ status \in Ended
    BY <2>3 DEF StepAfter
  <2>4. CASE status # "RUNNING" /\ ~Satisfied(status, a) /\ status \notin Ended
    BY <2>4 DEF StepAfter
  <2> QED BY <2>1, <2>2, <2>3, <2>4
<1>3. Rows(t, seen.act) \subseteq Of(t)
  BY DEF Rows
<1> QED BY <1>1, <1>2, <1>3 DEF Synced

LEMMA TickedLeaves ==
    ASSUME ShapeInv, TaskInv, CodeInv, StepInv, NEW t \in Tasks, NEW seen,
           Seen(t, seen), Read(t, seen), NEW r \in Ticked(t, seen)
    PROVE  Leaves(t, r)
<1> DEFINE here == Rows(t, seen.act)
           q0 == CopyOf(t, seen)
           q2 == Judgement(q0)
           p1 == Opened(t, seen)
           p3 == Offered(t, seen)
<1>1. task[t].status \in Runnable \cup {"CANCELLED", "FAILED"} /\ seen.task[t].status \in Runnable
  BY DEF Seen
<1>2. \A a \in Of(t) : a \in Actions /\ TaskOf[a] = t /\ act[a].status \in ActionStatus
  BY DEF Of, ShapeInv, ActionRow
<1>3. \A status : LET left == Left(t, status, q0)
                  IN  /\ Rewrites(t, left.act)
                      /\ left.status = status /\ left.replans = task[t].replans
  BY LeftRewrites DEF CopyOf
<1>4. \A status : LET left == Left(t, status, q2)
                  IN  /\ Rewrites(t, left.act)
                      /\ \A a \in Of(t) : left.act[a].status = q2[a].db
                      /\ left.status = status /\ left.replans = task[t].replans
  <2>1. ASSUME NEW a \in Of(t)
        PROVE  /\ act[a].status \notin {"PLANNED", "READY"} => q2[a].db = act[a].status
               /\ act[a].status \in {"PLANNED", "READY"} =>
                    q2[a].db \in {"PLANNED", "READY", "DISPATCHED", "WAITING_FOR_USER", "FAILED"}
    BY <1>2, JudgementWrites DEF Written
  <2> HIDE DEF q2
  <2> QED BY <2>1, LeftRewrites
<1>5. /\ p1.db = task[t].status \/ (task[t].status \in Runnable /\ p1.db = "RUNNING")
      /\ p3.db = task[t].status \/ (task[t].status \in Runnable /\ p3.db \in Runnable)
  BY OfferedIs
<1>6. Failing(t, seen) \in {task[t].status, "FAILED"}
  BY DEF Failing, Cas
<1>7. /\ [a \in Of(t) |-> step[a]] \in [Of(t) -> {"PLANNED", "RUNNING", "SUCCEEDED", "FAILED"}]
      /\ Synced(t, seen) \in [Of(t) -> {"PLANNED", "RUNNING", "SUCCEEDED", "FAILED"}]
      /\ \A a \in here : Satisfied(q2[a].mem, a) => Synced(t, seen)[a] = "SUCCEEDED"
  BY SyncedIs
<1>8. ASSUME NEW a \in here
      PROVE  /\ a \in Of(t)
             /\ q2[a].mem \in Ended => (q2[a].db = q2[a].mem /\ q2[a].db = act[a].status) \/ q2[a].mem = "FAILED"
             /\ q2[a].mem = "FAILED" /\ task[t].status # "CANCELLED" => q2[a].db = "FAILED"
  <2>1. a \in Of(t)
    BY DEF Rows
  <2>2. SeenStatus(seen.act[a].status, act[a].status)
    BY <2>1 DEF Seen
  <2>3. act[a].status = "CANCELLED" => task[t].status = "CANCELLED" \/ seen.act[a].status = "CANCELLED"
    BY <2>1 DEF Read
  <2> DEFINE x == seen.act[a].status
             y == act[a].status
  <2>4. PICK j \in {"DISPATCHED", "WAITING_FOR_USER", "FAILED"} :
          \/ q2[a] = [db |-> y, mem |-> x] /\ x # "READY"
          \/ x = "READY" /\ q2[a] = [db |-> IF y = "READY" THEN j ELSE y, mem |-> j]
          \/ x = "PLANNED" /\ q2[a] = [db |-> IF y \in {"PLANNED", "READY"} THEN j ELSE y, mem |-> j]
    BY <2>1, JudgementIs
  <2> HIDE DEF q2, here, x, y
  <2>5. SeenStatus(x, y) /\ (y = "CANCELLED" => task[t].status = "CANCELLED" \/ x = "CANCELLED")
    BY <2>2, <2>3 DEF x, y
  <2>6. /\ q2[a].mem \in Ended => (q2[a].db = q2[a].mem /\ q2[a].db = y) \/ q2[a].mem = "FAILED"
        /\ q2[a].mem = "FAILED" /\ task[t].status # "CANCELLED" => q2[a].db = "FAILED"
    <3>1. CASE q2[a] = [db |-> y, mem |-> x] /\ x # "READY"
      BY <2>5, <3>1 DEF SeenStatus, Ended
    <3>2. CASE x = "READY" /\ q2[a] = [db |-> IF y = "READY" THEN j ELSE y, mem |-> j]
      BY <2>5, <3>2 DEF SeenStatus, Ended
    <3>3. CASE x = "PLANNED" /\ q2[a] = [db |-> IF y \in {"PLANNED", "READY"} THEN j ELSE y, mem |-> j]
      BY <2>5, <3>3 DEF SeenStatus, Ended
    <3> QED BY <2>4, <3>1, <3>2, <3>3
  <2> QED BY <2>1, <2>6 DEF y
<1>9. \A a \in Of(t) \ here : act[a].status = "ABSENT"
  BY DEF Rows, Seen, SeenStatus
<1> HIDE DEF here, q0, q2, p1, p3
<1>10. CASE r.left = Left(t, Failing(t, seen), q0) /\ r.step = [a \in Of(t) |-> step[a]]
  BY <1>1, <1>3, <1>6, <1>7, <1>10, LeavesPlainly DEF Runnable
<1>11. CASE r.left = Left(t, p1.db, q0) /\ r.step = [a \in Of(t) |-> step[a]]
  BY <1>1, <1>3, <1>5, <1>7, <1>11, LeavesPlainly DEF Runnable
<1>12. CASE r.left \in Completed(t, p3, q2, seen) /\ r.step = Synced(t, seen)
  <2> DEFINE ends(to) == Left(t, Cas(p3, "RUNNING", to).db, q2)
  <2>1. /\ p3.db \notin {"SUCCEEDED", "NEEDS_HUMAN"}
        /\ r.step \in [Of(t) -> {"PLANNED", "RUNNING", "SUCCEEDED", "FAILED"}]
    BY <1>1, <1>5, <1>7, <1>12 DEF Runnable
  <2>2. CASE r.left = Left(t, p3.db, q2)
    BY <1>4, <2>1, <2>2, LeavesPlainly
  <2>3. CASE \E a \in here : Replannable(t, seen, a) /\ r.left \in Repaired(t, Left(t, p3.db, q2), seen, a)
    <3>1. PICK a \in here : Replannable(t, seen, a) /\ r.left \in Repaired(t, Left(t, p3.db, q2), seen, a)
      BY <2>3
    <3> DEFINE left == Left(t, p3.db, q2)
    <3>2. left = [status |-> left.status, replans |-> left.replans,
                  replanned |-> left.replanned, act |-> left.act]
      BY DEF Left
    <3>3. Rewrites(t, left.act) /\ left.status = p3.db
      BY <1>4
    <3>4. left.act \in [Of(t) -> ActionRow]
      <4>1. \A b \in Of(t) : q2[b].db \in ActionStatus
        <5> SUFFICES ASSUME NEW b \in Of(t) PROVE q2[b].db \in ActionStatus
          OBVIOUS
        <5>1. Written(seen.act[b].status, act[b].status, q2[b].db, q2[b].mem)
          BY <1>2, JudgementWrites DEF q2, q0
        <5> QED BY <1>2, <5>1 DEF Written, ActionStatus
      <4> QED BY <4>1, LeftIs
    <3> HIDE DEF left
    <3> QED BY <1>8, <2>1, <3>1, <3>2, <3>3, <3>4, RepairLeaves DEF left
  <2>4. ASSUME NEW to, r.left = ends(to)
        PROVE  /\ Rewrites(t, r.left.act) /\ r.left.replans = task[t].replans
               /\ \A a \in Of(t) : r.left.act[a].status = q2[a].db
               /\ \/ r.left.status = p3.db
                  \/ p3.db = "RUNNING" /\ r.left.status = to /\ task[t].status # "CANCELLED"
    <3>1. \/ Cas(p3, "RUNNING", to).db = p3.db
          \/ p3.db = "RUNNING" /\ Cas(p3, "RUNNING", to).db = to
      BY DEF Cas
    <3>2. p3.db = "RUNNING" => task[t].status # "CANCELLED"
      BY <1>5 DEF Runnable
    <3> QED BY <1>4, <2>4, <3>1, <3>2
  <2>5. CASE r.left = ends("FAILED")
    BY <2>1, <2>4, <2>5, LeavesPlainly
  <2>6. CASE /\ \E a \in here : q2[a].mem = "FAILED"
             /\ Spent(t, seen) /\ r.left = ends("NEEDS_HUMAN")
    <3>1. r.left.status = "NEEDS_HUMAN" =>
            /\ task[t].replans >= MaxReplans
            /\ \E a \in Of(t) : r.left.act[a].status = "FAILED"
      BY <1>8, <2>1, <2>4, <2>6 DEF Spent, Seen
    <3>2. r.left.status # "SUCCEEDED"
      BY <2>1, <2>4, <2>6
    <3> QED BY <2>1, <2>4, <2>6, <3>1, <3>2, LeavesPlainly
  <2>7. CASE /\ \A a \in here : /\ q2[a].mem \in Ended /\ q2[a].mem # "FAILED"
                                /\ ~Unproven(a, q2[a].mem)
             /\ r.left = ends("SUCCEEDED")
    <3>1. ASSUME r.left.status = "SUCCEEDED",
                 NEW a \in Of(t), r.left.act[a].status # "ABSENT"
          PROVE  \/ Satisfied(r.left.act[a].status, a) /\ r.step[a] = "SUCCEEDED"
                 \/ IsWithdrawn(r.left.act[a])
      <4>1. a \in here
        BY <1>9, <2>4, <2>7, <3>1 DEF Rewrites
      <4>2. /\ q2[a].mem \in Ended /\ q2[a].mem # "FAILED" /\ ~Unproven(a, q2[a].mem)
            /\ r.left.act[a].status = q2[a].mem
        BY <1>8, <2>4, <2>7, <4>1
      <4>3. CASE Satisfied(q2[a].mem, a)
        BY <1>7, <1>12, <4>1, <4>2, <4>3
      <4>4. CASE ~Satisfied(q2[a].mem, a)
        <5>1. r.left.act[a].status = "CANCELLED"
          BY <4>2, <4>4 DEF Satisfied, Unproven, Ended
        <5>2. task[t].status # "CANCELLED"
          BY <2>1, <2>4, <2>7, <3>1
        <5> QED BY <1>2, <2>4, <2>7, <5>1, <5>2 DEF Rewrites, CodeInv, IsWithdrawn
      <4> QED BY <4>3, <4>4
    <3>2. r.left.status # "NEEDS_HUMAN"
      BY <2>1, <2>4, <2>7
    <3> HIDE DEF ends
    <3> QED BY <2>1, <2>4, <2>7, <3>1, <3>2, LeavesPlainly
  <2>8. \/ r.left = Left(t, p3.db, q2)
        \/ \E a \in here : Replannable(t, seen, a) /\ r.left \in Repaired(t, Left(t, p3.db, q2), seen, a)
        \/ /\ \E a \in here : q2[a].mem = "FAILED"
           /\ Spent(t, seen) /\ r.left = ends("NEEDS_HUMAN")
        \/ r.left = ends("FAILED")
        \/ /\ \A a \in here : /\ q2[a].mem \in Ended /\ q2[a].mem # "FAILED"
                              /\ ~Unproven(a, q2[a].mem)
           /\ r.left = ends("SUCCEEDED")
    BY <1>12, CompletedIs DEF here
  <2> QED BY <2>2, <2>3, <2>5, <2>6, <2>7, <2>8
<1> QED BY <1>10, <1>11, <1>12, TickedIs DEF here, q0, q2, p1, p3

------------------------------------------------------------------------------
\* What a step that is not a commit may do to a row and to a task.
StillRow(a) ==
    \/ act'[a] = act[a]
    \/ /\ act[a].status \notin Ended /\ act'[a].status # "ABSENT"
       /\ act'[a].code = "tool" => act'[a].status = "FAILED"
       /\ act'[a].status = "FAILED" => act'[a].code # "none"
       /\ act'[a].status = "CANCELLED" => task'[TaskOf[a]].status = "CANCELLED"
       /\ act[a].status = "ABSENT" =>
            a \notin Spare[TaskOf[a]] /\ task[TaskOf[a]].status = "ABSENT"
StillTask(t) ==
    /\ task'[t].replans = task[t].replans
    /\ task'[t].status \in {"SUCCEEDED", "NEEDS_HUMAN"} => task'[t].status = task[t].status
    /\ task[t].status = "CANCELLED" => task'[t].status = "CANCELLED"
Still ==
    UNCHANGED step /\ (\A a \in Actions : StillRow(a)) /\ (\A t \in Tasks : StillTask(t))

LEMMA StillKeepsRows ==
    ASSUME SoundInv, Still
    PROVE  StepInv' /\ CodeInv' /\ SucceededMeansDone' /\ HumanAskedWhenSpent' /\ CountInv'
<1>1. ShapeInv /\ TaskInv
  BY DEF SoundInv, LifeInv
<1>2. StepInv'
  BY DEF SoundInv, StepInv, Still
<1>3. CodeInv'
  <2> SUFFICES ASSUME NEW a \in Actions
               PROVE  /\ act'[a].code = "tool" => act'[a].status \in {"FAILED", "CANCELLED"}
                      /\ act'[a].status = "FAILED" => act'[a].code # "none"
                      /\ act'[a].status = "CANCELLED" =>
                           task'[TaskOf[a]].status = "CANCELLED" \/ act'[a].code = "tool"
    BY DEF CodeInv
  <2>1. StillRow(a) /\ StillTask(TaskOf[a])
    BY <1>1, Rowed DEF Still
  <2> QED BY <2>1 DEF StillRow, StillTask, SoundInv, CodeInv
<1>4. SucceededMeansDone'
  <2> SUFFICES ASSUME NEW t \in Tasks, task'[t].status = "SUCCEEDED",
                      NEW a \in Rows(t, act')
               PROVE  \/ Satisfied(act'[a].status, a) /\ step'[a] = "SUCCEEDED"
                      \/ act'[a].status = "CANCELLED" /\ act'[a].code = "tool"
    BY DEF SucceededMeansDone, Rows, Of, Satisfied
  <2>1. task[t].status = "SUCCEEDED"
    BY DEF Still, StillTask
  <2>2. a \in Of(t) /\ a \in Actions /\ TaskOf[a] = t /\ act'[a].status # "ABSENT"
    BY DEF Rows, Of
  <2>3. act[a].status \in Ended \cup {"ABSENT"}
    BY <1>1, <2>1, <2>2 DEF TaskInv
  <2>4. act'[a] = act[a]
    BY <2>1, <2>2, <2>3 DEF Still, StillRow
  <2>5. a \in Rows(t, act)
    BY <2>2, <2>4 DEF Rows
  <2> QED BY <2>1, <2>2, <2>4, <2>5 DEF SoundInv, SucceededMeansDone, Still
<1>5. HumanAskedWhenSpent'
  <2> SUFFICES ASSUME NEW t \in Tasks, task'[t].status = "NEEDS_HUMAN"
               PROVE  /\ task'[t].replans >= MaxReplans
                      /\ \E a \in Rows(t, act') : act'[a].status = "FAILED"
    BY DEF HumanAskedWhenSpent, Rows, Of
  <2>1. task[t].status = "NEEDS_HUMAN" /\ task'[t].replans = task[t].replans
    BY DEF Still, StillTask
  <2>2. task[t].replans >= MaxReplans
    BY <2>1 DEF SoundInv, HumanAskedWhenSpent
  <2>3. PICK a \in Rows(t, act) : act[a].status = "FAILED"
    BY <2>1 DEF SoundInv, HumanAskedWhenSpent
  <2>4. act'[a] = act[a]
    BY <2>3 DEF Still, StillRow, Rows, Of, Ended
  <2> QED BY <2>1, <2>2, <2>3, <2>4 DEF Rows
<1>6. CountInv'
  <2>1. ASSUME NEW t \in Tasks
        PROVE  Repairs(t)' = Repairs(t) /\ Withdrawn(t)' = Withdrawn(t)
    <3>1. ASSUME NEW a \in Of(t)
          PROVE  /\ a \in Spare[t] => (act'[a].status = "ABSENT" <=> act[a].status = "ABSENT")
                 /\ (act'[a].status = "CANCELLED" /\ act'[a].code = "tool")
                      <=> (act[a].status = "CANCELLED" /\ act[a].code = "tool")
      <4>1. StillRow(a) /\ TaskOf[a] = t
        BY DEF Still, Of
      <4> QED BY <4>1 DEF StillRow, Ended
    <3>2. Repairs(t)' = Repairs(t)
      BY <3>1 DEF Repairs, Rows, Of
    <3>3. Withdrawn(t)' = Withdrawn(t)
      BY <3>1 DEF Withdrawn, Rows, Of
    <3> QED BY <3>2, <3>3
  <2>2. \A t \in Tasks : task'[t].replans = task[t].replans
    BY DEF Still, StillTask
  <2> QED BY <2>1, <2>2 DEF SoundInv, CountInv
<1> QED BY <1>2, <1>3, <1>4, <1>5, <1>6

LEMMA StillKeepsSound ==
    ASSUME SoundInv, LifeInv', Still, UNCHANGED tick
    PROVE  SoundInv'
<1>1. ShapeInv /\ TaskInv /\ SnapshotInv
  BY DEF SoundInv, LifeInv
<1>2. ASSUME NEW seen, NEW t \in Tasks, Read(t, seen)
      PROVE  Read(t, seen)'
  <2> SUFFICES ASSUME NEW a \in Of(t)
               PROVE  /\ seen.act[a].status \in Ended => act'[a] = seen.act[a]
                      /\ act'[a].status = "CANCELLED" =>
                           task'[t].status = "CANCELLED" \/ seen.act[a].status = "CANCELLED"
    BY DEF Read, Of
  <2>1. StillRow(a) /\ StillTask(t) /\ TaskOf[a] = t
    BY DEF Still, Of
  <2> QED BY <1>2, <2>1 DEF Read, StillRow, StillTask, Ended
<1>3. \A s \in Schedulers : tick[s] # Idle =>
        \A t \in tick[s].tasks : t \in Tasks /\ Read(t, tick[s])
  BY <1>1 DEF SnapshotInv, SoundInv, ReadInv
<1>4. \A s \in Schedulers : tick[s] # Idle => \A t \in tick[s].tasks : Read(t, tick[s])'
  BY <1>2, <1>3
<1>5. ReadInv'
  BY <1>4 DEF ReadInv, Idle
<1> QED BY <1>5, StillKeepsRows DEF SoundInv

LEMMA ClientIsStill ==
    ASSUME SoundInv, NEW t \in Tasks, Client(t) \/ DeadlinePasses(t)
    PROVE  Still /\ UNCHANGED tick
<1>1. ShapeInv /\ TaskInv
  BY DEF SoundInv, LifeInv
<1>2. UNCHANGED <<step, tick>>
  BY DEF Client, DeadlinePasses, Submit, Install, Reply, Cancel
<1>3. CASE Submit(t)
  <2>1. task[t].status = "ABSENT"
    BY <1>1, <1>3, Rowed DEF Submit, TaskInv
  <2>2. ASSUME NEW u \in Tasks PROVE StillTask(u)
    <3>1. task[u] \in TaskRow
      BY <1>1 DEF ShapeInv
    <3>2. PICK status \in {"READY", "PLANNING", "ABSENT"} :
            \/ task' = [task EXCEPT ![t].status = status, ![t].asked = TRUE]
            \/ status = "ABSENT" /\ task' = [task EXCEPT ![t].asked = TRUE]
      <4>1. CASE Install(t, "READY")
        BY <4>1 DEF Install
      <4>2. CASE Install(t, "PLANNING")
        BY <4>2 DEF Install
      <4>3. CASE task' = [task EXCEPT ![t].asked = TRUE]
        BY <4>3
      <4>4. \/ Install(t, "READY") \/ Install(t, "PLANNING")
            \/ task' = [task EXCEPT ![t].asked = TRUE]
        BY <1>3 DEF Submit
      <4> QED BY <4>1, <4>2, <4>3, <4>4
    <3>3. u # t => task'[u] = task[u]
      BY <1>1, <3>2 DEF ShapeInv
    <3>4. u = t => task'[u].replans = task[u].replans /\ task'[u].status = status
      BY <1>1, <2>1, <3>1, <3>2 DEF ShapeInv, TaskRow
    <3> QED BY <2>1, <3>3, <3>4 DEF StillTask
  <2>3. ASSUME NEW a \in Actions PROVE StillRow(a)
    <3>1. act[a] \in ActionRow
      BY <1>1 DEF ShapeInv
    <3>2. act'[a] = act[a] \/ (a \in Of(t) \ Spare[t] /\ act'[a] = [act[a] EXCEPT !.status = "PLANNED"])
      BY <1>3 DEF Submit, Install
    <3>3. a \in Of(t) => act[a].status \in {"ABSENT", "PLANNED"} /\ TaskOf[a] = t
      BY <1>1, <2>1 DEF TaskInv, Of
    <3>4. a \in Of(t) => act[a].code # "tool"
      BY <3>3 DEF SoundInv, CodeInv
    <3> QED BY <2>1, <3>1, <3>2, <3>3, <3>4 DEF StillRow, ActionRow, Ended
  <2> QED BY <1>2, <2>2, <2>3 DEF Still
<1>4. CASE Reply(t) \/ DeadlinePasses(t)
  <2>1. UNCHANGED act
    BY <1>4 DEF Reply, DeadlinePasses
  <2>2. ASSUME NEW u \in Tasks PROVE StillTask(u)
    <3>1. task[u] \in TaskRow /\ task \in [Tasks -> TaskRow]
      BY <1>1 DEF ShapeInv
    <3>2. CASE Reply(t)
      BY <3>1, <3>2 DEF Reply, StillTask, TaskRow
    <3>3. CASE DeadlinePasses(t)
      BY <3>1, <3>3 DEF DeadlinePasses, StillTask, TaskRow
    <3> QED BY <1>4, <3>2, <3>3
  <2> QED BY <1>2, <2>1, <2>2 DEF Still, StillRow
<1>5. CASE Cancel(t)
  <2>1. /\ task' = [task EXCEPT ![t].status = "CANCELLED"]
        /\ act' = [a \in Actions |-> IF a \in Of(t) /\ act[a].status \in NotStarted
                                     THEN [act[a] EXCEPT !.status = "CANCELLED"] ELSE act[a]]
    BY <1>5 DEF Cancel
  <2>2. ASSUME NEW u \in Tasks PROVE StillTask(u) /\ (u = t => task'[u].status = "CANCELLED")
    <3>1. task[u] \in TaskRow /\ task \in [Tasks -> TaskRow]
      BY <1>1 DEF ShapeInv
    <3> QED BY <2>1, <3>1 DEF StillTask, TaskRow
  <2>3. ASSUME NEW a \in Actions PROVE StillRow(a)
    <3>1. act[a] \in ActionRow
      BY <1>1 DEF ShapeInv
    <3>2. \/ act'[a] = act[a]
          \/ /\ TaskOf[a] = t /\ act[a].status \in NotStarted
             /\ act'[a].status = "CANCELLED" /\ act'[a].code = act[a].code
      BY <2>1, <3>1 DEF Of, ActionRow
    <3>3. act[a].status \in NotStarted => act[a].code # "tool"
      BY DEF SoundInv, CodeInv, NotStarted
    <3>4. act[a].status \in NotStarted => act[a].status \notin Ended \cup {"ABSENT"}
      BY DEF NotStarted, Ended
    <3> QED BY <2>2, <3>2, <3>3, <3>4 DEF StillRow
  <2> QED BY <1>2, <2>2, <2>3 DEF Still
<1> QED BY <1>2, <1>3, <1>4, <1>5 DEF Client

LEMMA ActorIsStill ==
    ASSUME SoundInv, NEW a \in Actions, Worker(a) \/ Answer(a)
    PROVE  Still /\ UNCHANGED tick
<1> DEFINE t == TaskOf[a]
<1>1. ShapeInv /\ TaskInv
  BY DEF SoundInv, LifeInv
<1>2. UNCHANGED <<step, tick>>
  BY DEF Worker, WorkerTakes, WorkerReturns, Answer, Grant, Refuse
<1>3. act[a] \in ActionRow /\ act \in [Actions -> ActionRow] /\ task \in [Tasks -> TaskRow]
  BY <1>1 DEF ShapeInv
<1>4. act[a].status \in {"DISPATCHED", "RUNNING", "WAITING_FOR_USER"} /\ act[a].code # "tool"
  BY DEF Worker, WorkerTakes, WorkerReturns, Answer, Grant, Refuse, SoundInv, CodeInv
<1>5. \/ task' = task
      \/ \E status \in {"RUNNING", "FAILED"} :
           /\ task[t].status = "WAITING_FOR_USER"
           /\ task' = [task EXCEPT ![t].status = status]
  BY DEF Worker, WorkerTakes, WorkerReturns, Answer, Grant, Refuse, Resumed, FailedIfBlocked
<1>6. ASSUME NEW u \in Tasks PROVE StillTask(u)
  BY <1>3, <1>5 DEF StillTask, TaskRow
<1>7. PICK row : /\ act' = [act EXCEPT ![a] = row]
                 /\ row.status \in ActionStatus \ {"ABSENT"}
                 /\ row.code = "tool" => row.status = "FAILED"
                 /\ row.status = "FAILED" => row.code # "none"
                 /\ row.status = "CANCELLED" => task[t].status = "CANCELLED" /\ task' = task
  <2>1. CASE WorkerTakes(a)
    <3> DEFINE to == IF task[t].status = "CANCELLED" THEN "CANCELLED" ELSE "RUNNING"
               row == [act[a] EXCEPT !.status = to]
    <3>1. act' = [act EXCEPT ![a] = row] /\ task' = task
      BY <1>3, <2>1 DEF WorkerTakes
    <3>2. row.status = to /\ row.code = act[a].code
      BY <1>3 DEF ActionRow
    <3>3. (to = "CANCELLED" /\ task[t].status = "CANCELLED") \/ to = "RUNNING"
      OBVIOUS
    <3> HIDE DEF to, row
    <3> QED BY <1>4, <3>1, <3>2, <3>3 DEF ActionStatus
  <2>2. CASE WorkerReturns(a)
    <3>1. PICK row \in Outcome(a) : act' = [act EXCEPT ![a] = row]
      BY <2>2 DEF WorkerReturns
    <3>2. task' = task
      BY <2>2 DEF WorkerReturns
    <3>3. /\ row.status \in ActionStatus \ {"ABSENT"}
          /\ row.code = "tool" => row.status = "FAILED"
          /\ row.status = "FAILED" => row.code # "none"
          /\ row.status = "CANCELLED" => task[t].status = "CANCELLED"
      BY <1>3, <1>4, <3>1 DEF Outcome, ActionRow, ActionStatus
    <3> QED BY <3>1, <3>2, <3>3
  <2>3. CASE Grant(a)
    <3> DEFINE row == [act[a] EXCEPT !.status = "READY", !.granted = TRUE]
    <3>1. act' = [act EXCEPT ![a] = row]
      BY <1>3, <2>3 DEF Grant
    <3>2. row.status = "READY" /\ row.code = act[a].code
      BY <1>3 DEF ActionRow
    <3> QED BY <1>4, <3>1, <3>2 DEF ActionStatus
  <2>4. CASE Refuse(a)
    <3> DEFINE row == [act[a] EXCEPT !.status = "FAILED", !.code = "denied"]
    <3>1. act' = [act EXCEPT ![a] = row]
      BY <1>3, <2>4 DEF Refuse
    <3>2. row.status = "FAILED" /\ row.code = "denied"
      BY <1>3 DEF ActionRow
    <3> QED BY <3>1, <3>2 DEF ActionStatus
  <2> QED BY <2>1, <2>2, <2>3, <2>4 DEF Worker, Answer
<1>8. ASSUME NEW b \in Actions PROVE StillRow(b)
  <2>1. CASE b = a
    <3>1. act'[b] = row
      BY <1>3, <1>7, <2>1
    <3> QED BY <1>4, <1>7, <2>1, <3>1 DEF StillRow, Ended
  <2>2. CASE b # a
    BY <1>3, <1>7, <2>2 DEF StillRow
  <2> QED BY <2>1, <2>2
<1> QED BY <1>2, <1>6, <1>8 DEF Still

LEMMA ReadKeepsSound ==
    ASSUME SoundInv, LifeInv', NEW s \in Schedulers, TickRead(s) \/ TickAborts(s), SoleScheduler
    PROVE  SoundInv'
<1>1. UNCHANGED <<task, act, step>>
  BY DEF TickRead, TickAborts
<1>2. Still
  BY <1>1 DEF Still, StillRow, StillTask
<1>3. ReadInv'
  <2>1. DOMAIN tick = Schedulers
    BY DEF SoundInv, LifeInv, ShapeInv
  <2>2. CASE TickAborts(s)
    <3>1. \A u \in Schedulers : tick'[u] = Idle
      BY <2>1, <2>2 DEF TickAborts, SoleScheduler
    <3> QED BY <3>1 DEF ReadInv, Idle
  <2>3. CASE TickRead(s)
    <3> DEFINE now == [tasks |-> {t \in Tasks : task[t].status \in Runnable},
                       task |-> task, act |-> act]
    <3>1. \A u \in Schedulers : tick'[u] = now
      BY <2>1, <2>3 DEF TickRead, SoleScheduler
    <3>2. \A t \in now.tasks : \A a \in Of(t) :
            /\ now.act[a].status \in Ended => act'[a] = now.act[a]
            /\ act'[a].status = "CANCELLED" =>
                 task'[t].status = "CANCELLED" \/ now.act[a].status = "CANCELLED"
      BY <1>1
    <3> HIDE DEF now
    <3> SUFFICES ASSUME NEW u \in Schedulers, tick'[u] # Idle,
                        NEW t \in tick'[u].tasks, NEW a \in Of(t)
                 PROVE  /\ tick'[u].act[a].status \in Ended => act'[a] = tick'[u].act[a]
                        /\ act'[a].status = "CANCELLED" =>
                             task'[t].status = "CANCELLED" \/ tick'[u].act[a].status = "CANCELLED"
      BY DEF ReadInv, Read, Idle, Of
    <3> QED BY <3>1, <3>2
  <2> QED BY <2>2, <2>3
<1> QED BY <1>2, <1>3, StillKeepsRows DEF SoundInv

LEMMA CommitKeepsSound ==
    ASSUME SoundInv, LifeInv', SoleScheduler, NEW s \in Schedulers, TickCommit(s)
    PROVE  SoundInv'
<1> DEFINE T == tick[s].tasks
<1>1. ShapeInv /\ TaskInv /\ SnapshotInv /\ CodeInv /\ StepInv
  BY DEF SoundInv, LifeInv
<1>2. /\ T \subseteq Tasks
      /\ \A t \in T : Seen(t, tick[s]) /\ Read(t, tick[s])
      /\ tick[s].task \in [Tasks -> TaskRow]
  <2>1. T # {}
    BY DEF TickCommit
  <2>2. tick[s] # Idle
    BY <2>1 DEF Idle
  <2> QED BY <1>1, <2>2 DEF SnapshotInv, SoundInv, ReadInv
<1>3. PICK r :
        /\ \A t \in T : r[t] \in Ticked(t, tick[s])
        /\ task' = [t \in Tasks |-> IF t \in T
                      THEN [task[t] EXCEPT !.status = r[t].left.status,
                                           !.replans = r[t].left.replans]
                      ELSE task[t]]
        /\ act' = [a \in Actions |-> IF TaskOf[a] \in T
                      THEN r[TaskOf[a]].left.act[a] ELSE act[a]]
        /\ step' = [a \in Actions |-> IF TaskOf[a] \in T
                      THEN r[TaskOf[a]].step[a] ELSE step[a]]
  BY DEF TickCommit
<1>4. \A t \in T : Leaves(t, r[t])
  BY <1>1, <1>2, <1>3, TickedLeaves
<1>5. \A u \in Schedulers : tick'[u] = Idle
  BY <1>1 DEF TickCommit, ShapeInv, SoleScheduler
<1>6. ReadInv'
  BY <1>5 DEF ReadInv, Idle
<1> HIDE DEF T
<1>7. ASSUME NEW t \in Tasks
      PROVE  /\ t \in T => /\ task'[t].status = r[t].left.status
                           /\ task'[t].replans = r[t].left.replans
             /\ t \notin T => task'[t] = task[t]
             /\ task[t].status = "CANCELLED" => task'[t].status = "CANCELLED"
  <2>1. task[t] \in TaskRow
    BY <1>1, Rowed
  <2>2. t \in T => Moves(t, r[t].left)
    BY <1>1, <1>2, <1>3, TickedMoves
  <2>3. task'[t] = IF t \in T THEN [task[t] EXCEPT !.status = r[t].left.status,
                                                   !.replans = r[t].left.replans]
                   ELSE task[t]
    BY <1>3
  <2> QED BY <2>1, <2>2, <2>3 DEF TaskRow, Moves, TaskEnded
<1>8. ASSUME NEW a \in Actions
      PROVE  /\ TaskOf[a] \in T => act'[a] = r[TaskOf[a]].left.act[a] /\ step'[a] = r[TaskOf[a]].step[a]
             /\ TaskOf[a] \notin T => act'[a] = act[a] /\ step'[a] = step[a]
             /\ TaskOf[a] \in Tasks /\ a \in Of(TaskOf[a])
  BY <1>1, <1>3, Rowed
<1>9. StepInv'
  <2>1. ASSUME NEW a \in Actions PROVE step'[a] \in {"PLANNED", "RUNNING", "SUCCEEDED", "FAILED"}
    BY <1>1, <1>4, <1>8 DEF StepInv, Leaves
  <2>2. step' = [a \in Actions |-> step'[a]]
    BY <1>3
  <2> QED BY <2>1, <2>2 DEF StepInv
<1>10. CodeInv'
  <2> SUFFICES ASSUME NEW a \in Actions
               PROVE  /\ act'[a].code = "tool" => act'[a].status \in {"FAILED", "CANCELLED"}
                      /\ act'[a].status = "FAILED" => act'[a].code # "none"
                      /\ act'[a].status = "CANCELLED" =>
                           task'[TaskOf[a]].status = "CANCELLED" \/ act'[a].code = "tool"
    BY DEF CodeInv
  <2>1. TaskOf[a] \in T \/ TaskOf[a] \notin T
    OBVIOUS
  <2>2. CASE TaskOf[a] \in T
    BY <1>4, <1>7, <1>8, <2>2 DEF Leaves
  <2>3. CASE TaskOf[a] \notin T
    BY <1>1, <1>7, <1>8, <2>3 DEF CodeInv
  <2> QED BY <2>2, <2>3
<1>11. \A t \in Tasks : \A a \in Of(t) : a \in Actions /\ TaskOf[a] = t
  BY DEF Of
<1>12. SucceededMeansDone'
  <2> SUFFICES ASSUME NEW t \in Tasks, task'[t].status = "SUCCEEDED",
                      NEW a \in Of(t), act'[a].status # "ABSENT"
               PROVE  \/ Satisfied(act'[a].status, a) /\ step'[a] = "SUCCEEDED"
                      \/ act'[a].status = "CANCELLED" /\ act'[a].code = "tool"
    BY DEF SucceededMeansDone, Rows, Of, Satisfied
  <2>1. CASE t \in T
    BY <1>4, <1>7, <1>8, <1>11, <2>1 DEF Leaves, IsWithdrawn
  <2>2. CASE t \notin T
    <3>1. task[t].status = "SUCCEEDED" /\ act'[a] = act[a] /\ step'[a] = step[a]
      BY <1>7, <1>8, <1>11, <2>2
    <3>2. a \in Rows(t, act)
      BY <3>1 DEF Rows
    <3> QED BY <3>1, <3>2 DEF SoundInv, SucceededMeansDone
  <2> QED BY <2>1, <2>2
<1>13. HumanAskedWhenSpent'
  <2> SUFFICES ASSUME NEW t \in Tasks, task'[t].status = "NEEDS_HUMAN"
               PROVE  /\ task'[t].replans >= MaxReplans
                      /\ \E a \in Of(t) : act'[a].status = "FAILED"
    BY DEF HumanAskedWhenSpent, Rows, Of
  <2>1. CASE t \in T
    BY <1>4, <1>7, <1>8, <1>11, <2>1 DEF Leaves
  <2>2. CASE t \notin T
    BY <1>7, <1>8, <1>11, <2>2 DEF SoundInv, HumanAskedWhenSpent, Rows
  <2> QED BY <2>1, <2>2
<1>14. CountInv'
  <2> SUFFICES ASSUME NEW t \in Tasks
               PROVE  /\ IsFiniteSet(Repairs(t)') /\ Cardinality(Repairs(t)') = task'[t].replans
                      /\ IsFiniteSet(Withdrawn(t)') /\ Cardinality(Withdrawn(t)') = task'[t].replans
    BY DEF CountInv
  <2>1. /\ IsFiniteSet(Repairs(t)) /\ Cardinality(Repairs(t)) = task[t].replans
        /\ IsFiniteSet(Withdrawn(t)) /\ Cardinality(Withdrawn(t)) = task[t].replans
    BY DEF SoundInv, CountInv
  <2>2. /\ Repairs(t) = {a \in Of(t) : act[a].status # "ABSENT" /\ a \in Spare[t]}
        /\ Repairs(t)' = {a \in Of(t) : act'[a].status # "ABSENT" /\ a \in Spare[t]}
    BY DEF Repairs, Rows, Of
  <2>3. /\ Withdrawn(t) = {a \in Of(t) : IsWithdrawn(act[a])}
        /\ Withdrawn(t)' = {a \in Of(t) : IsWithdrawn(act'[a])}
    BY DEF Withdrawn, Rows, IsWithdrawn, Of
  <2>4. CASE t \notin T \/ Unplanned(t, r[t].left)
    <3>1. ASSUME NEW a \in Of(t)
          PROVE  /\ act'[a].status = "ABSENT" <=> act[a].status = "ABSENT"
                 /\ IsWithdrawn(act'[a]) <=> IsWithdrawn(act[a])
      BY <1>8, <1>11, <2>4 DEF Unplanned
    <3>2. Repairs(t)' = Repairs(t) /\ Withdrawn(t)' = Withdrawn(t)
      BY <2>2, <2>3, <3>1
    <3>3. task'[t].replans = task[t].replans
      BY <1>7, <2>4 DEF Unplanned
    <3> QED BY <2>1, <3>2, <3>3
  <2>5. CASE t \in T /\ Replanned(t, r[t].left)
    <3>1. PICK new \in Of(t) \cap Spare[t], failed \in Of(t) :
            /\ act[new].status = "ABSENT" /\ act'[new].status # "ABSENT"
            /\ ~IsWithdrawn(act[failed]) /\ IsWithdrawn(act'[failed])
            /\ \A a \in Of(t) :
                 /\ a # new => (act'[a].status = "ABSENT" <=> act[a].status = "ABSENT")
                 /\ a # failed => (IsWithdrawn(act'[a]) <=> IsWithdrawn(act[a]))
      BY <1>8, <1>11, <2>5 DEF Replanned
    <3>2. Repairs(t)' = Repairs(t) \cup {new} /\ new \notin Repairs(t)
      BY <2>2, <3>1
    <3>3. Withdrawn(t)' = Withdrawn(t) \cup {failed} /\ failed \notin Withdrawn(t)
      BY <2>3, <3>1
    <3>4. task'[t].replans = task[t].replans + 1
      BY <1>7, <2>5 DEF Replanned
    <3>5. IsFiniteSet(Repairs(t)') /\ Cardinality(Repairs(t)') = task[t].replans + 1
      BY <2>1, <3>2, FS_AddElement
    <3>6. IsFiniteSet(Withdrawn(t)') /\ Cardinality(Withdrawn(t)') = task[t].replans + 1
      BY <2>1, <3>3, FS_AddElement
    <3> QED BY <3>4, <3>5, <3>6
  <2> QED BY <1>4, <2>4, <2>5 DEF Leaves
<1> QED BY <1>6, <1>9, <1>10, <1>12, <1>13, <1>14 DEF SoundInv

------------------------------------------------------------------------------
LEMMA SoundInvInit == Init => SoundInv
<1> SUFFICES ASSUME Init PROVE SoundInv
  OBVIOUS
<1>1. LifeInv
  BY LifeInvInit
<1>2. StepInv /\ CodeInv /\ ReadInv /\ SucceededMeansDone /\ HumanAskedWhenSpent
  BY DEF Init, StepInv, CodeInv, ReadInv, SucceededMeansDone, HumanAskedWhenSpent, Rows, Of
<1>3. CountInv
  <2> SUFFICES ASSUME NEW t \in Tasks
               PROVE  /\ Repairs(t) = {} /\ Withdrawn(t) = {} /\ task[t].replans = 0
    BY FS_EmptySet DEF CountInv
  <2> QED BY DEF Init, Repairs, Withdrawn, Rows, Of
<1> QED BY <1>1, <1>2, <1>3 DEF SoundInv

LEMMA SoundSteps ==
    ASSUME SoleScheduler, SoundInv, [Next]_vars
    PROVE  SoundInv'
<1>1. LifeInv'
  BY LifeSteps DEF SoundInv, Keeps
<1>2. CASE UNCHANGED vars
  <2>1. Still /\ UNCHANGED tick
    BY <1>2 DEF vars, Still, StillRow, StillTask
  <2> QED BY <1>1, <2>1, StillKeepsSound
<1>3. CASE \E s \in Schedulers : Scheduler(s)
  BY <1>1, <1>3, ReadKeepsSound, CommitKeepsSound DEF Scheduler
<1>4. CASE \E t \in Tasks : Client(t) \/ DeadlinePasses(t)
  BY <1>1, <1>4, ClientIsStill, StillKeepsSound
<1>5. CASE \E a \in Actions : Worker(a) \/ Answer(a)
  BY <1>1, <1>5, ActorIsStill, StillKeepsSound
<1> QED BY <1>2, <1>3, <1>4, <1>5 DEF Next

(* Under one scheduler, for every plan, verdict, budget and order of events:  *)
(* success is reported over finished work only, a human is asked only when    *)
(* the budget is spent and over a failure, and the replan counter counts the  *)
(* repairs and the withdrawals (_complete_if_done, _replan_or_escalate).      *)
THEOREM RowsOfTasksAgree == SoleScheduler => (Spec => []TasksAreSound)
<1> SUFFICES ASSUME SoleScheduler PROVE Spec => []TasksAreSound
  OBVIOUS
<1>1. SoundInv => TasksAreSound
  <2> SUFFICES ASSUME SoundInv PROVE TasksAreSound
    OBVIOUS
  <2>1. TypeOK
    BY DEF SoundInv, LifeInv, ShapeInv, StepInv, SnapshotInv, TypeOK
  <2>2. EachReplanRepairsOne
    BY DEF SoundInv, CountInv, Repairs, EachReplanRepairsOne
  <2> QED BY <2>1, <2>2 DEF SoundInv, TasksAreSound
<1>2. SoundInv /\ [Next]_vars => SoundInv'
  BY SoundSteps
<1> QED BY <1>1, <1>2, SoundInvInit, PTL DEF Spec
==============================================================================
