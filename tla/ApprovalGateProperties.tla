----------------------- MODULE ApprovalGateProperties -----------------------
(***************************************************************************)
(* What must hold of consent.  The hazards are two decisions on one        *)
(* approval, a decision that races the sweep, a tick that rests on what it *)
(* read, and a claim that does not pass the gate.                          *)
(***************************************************************************)
EXTENDS ApprovalGate

(* Every variable has its shape.                                            *)
TypeOK ==
    /\ row \in [Actions -> Row]
    /\ approval \in [Actions -> Seq(Approval)]
    /\ dead \subseteq Actions
    /\ entries \in [Actions -> Nat]
    /\ working \in [Actions -> SUBSET Nat]
    /\ redecided \subseteq Actions
    /\ policy \in Policies
    /\ request \in [Requests -> Request]
    /\ \A u \in Requests : request[u].pc = "deciding" => request[u].n \in Asked(request[u].act)
    /\ sched \in [Schedulers -> Tick]
    /\ permit \in [Actions -> Permit]
    /\ bounds \in [decisions : Nat, reloads : Nat, crashes : Nat, lapses : Nat, restarts : Nat,
                  aborts : Nat]

(* Under one leading scheduler, what waits to be executed is what was       *)
(* judged: its parameters have not been edited since, and where the policy  *)
(* asked for consent, the approval it rests on is spent, names these        *)
(* parameters and reaches their level.                                      *)
DispatchCovered ==
    \A a \in Actions : row[a].status = "DISPATCHED" =>
        /\ permit[a].by # "none" /\ permit[a].params = row[a].params
        /\ permit[a].by = "approval" =>
            LET p == approval[a][permit[a].n] IN
            p.consumed /\ p.params = row[a].params /\ p.level >= LevelOf[row[a].params]

(* Nothing above the ceiling the user set for the task is executed, not     *)
(* even when a claim takes an edited action past the gate (docs/06 section  *)
(* 5).                                                                      *)
CeilingHolds ==
    \A a \in Actions :
        row[a].status \in {"DISPATCHED", "RUNNING"} => LevelOf[row[a].params] <= Ceiling

(* At most one question per action is open: the tick reuses the open one,   *)
(* and whichever of two ticks commits second is rolled back.                *)
OneOpenQuestion ==
    \A a \in Actions : \A m, n \in Asked(a) :
        approval[a][m].status = "PENDING" /\ approval[a][n].status = "PENDING" => m = n

HasQuestion(a) == \E n \in Asked(a) : approval[a][n].status = "PENDING"

(* An action that waits for the user can be answered, or will expire: its   *)
(* question is open, unless one of its approvals has been decided or        *)
(* expired over an earlier decision, which two handlers that read it at     *)
(* once, or a handler and the sweep, can do.                                *)
WaitingHasQuestion ==
    \A a \in Actions : Waiting(a) => HasQuestion(a) \/ a \in redecided

(* A refused, denied, expired or failed action never comes back, however    *)
(* late a decision or a stream entry arrives.                               *)
FailedIsFinal ==
    [][\A a \in Actions : row[a].status = "FAILED" => row'[a] = row[a]]_vars

Positive == {"APPROVED", "MODIFIED"}

(* Silence is never consent: an action leaves WAITING_FOR_USER towards      *)
(* execution only as a handler commits a positive answer; and one that was  *)
(* refused or left to expire releases nothing until a decision of its       *)
(* action has been written over another.                                    *)
OnlyAnswersRelease ==
    [][\A a \in Actions : Waiting(a) /\ row'[a].status \notin {"WAITING_FOR_USER", "FAILED"} =>
            \E u \in Requests :
                LET q == request[u] IN
                /\ q.pc = "deciding" /\ q.act = a /\ request'[u] = IdleRequest
                /\ approval'[a][q.n].status \in Positive
                /\ approval[a][q.n].status \in Positive \cup {"PENDING"} \/ a \in redecided]_vars

(* A consent that is spent stays spent, and each dispatch that needed one   *)
(* spends one that was not.                                                 *)
EachDispatchSpends ==
    [][\A a \in Actions :
        /\ \A n \in Asked(a) : approval[a][n].consumed => approval'[a][n].consumed
        /\ row[a].status = "READY" /\ row'[a].status = "DISPATCHED" /\ permit'[a].by = "approval"
             => ~approval[a][permit'[a].n].consumed /\ approval'[a][permit'[a].n].consumed]_vars

(* A dead letter of an action that has not ended makes every transaction    *)
(* that would end it a duplicate: the tick that expires its approval, the   *)
(* reaper that gives its lease up.                                          *)
Wedged == \E b \in dead : row[b].status \notin {"SUCCEEDED", "FAILED"}

(* An action does not wait for ever: the user answers or the sweep fails it.*)
(* Two things break this, and nothing else does: a dead letter written for  *)
(* an action that had not ended, which a worker that outlived its lease     *)
(* leaves (worker.py, _finish_failed), and two decisions on one approval,   *)
(* which can leave it waiting without a question.                           *)
WaitingEnds ==
    \A a \in Actions :
        Waiting(a) ~> ~Waiting(a) \/ Wedged \/ (a \in redecided /\ ~HasQuestion(a))

-----------------------------------------------------------------------------
(* What the repository says and the code does not do.                       *)

(* security/approvals.py: an approval is single-use, and the replay of an   *)
(* action after a crash finds it spent and asks again.  Refuted with one    *)
(* restart.                                                                 *)
AttemptsConsented ==
    \A a \in Actions : row[a].attempt <= Cardinality({n \in Asked(a) : approval[a][n].consumed})

(* orchestrator/approvals.py: an edit that raises the level is asked about  *)
(* again before it runs.  Refuted with one edit and one restart: the copy   *)
(* published again claims the READY action.                                 *)
RunsWithinConsent ==
    \A a \in Actions : row[a].status = "RUNNING" =>
        \E n \in Asked(a) : /\ approval[a][n].consumed
                            /\ approval[a][n].level >= LevelOf[row[a].params]

(* security/approvals.py, _assert_pending: an approval that is decided or   *)
(* has expired is not decided again.  Refuted with one decision and the     *)
(* sweep, which read the approval while it was PENDING.                     *)
DecisionIsFinal ==
    [][\A a \in Actions : \A n \in Asked(a) :
        approval[a][n].status # "PENDING" => approval'[a][n].status = approval[a][n].status]_vars

(* gate.py, expire_overdue: an approval nobody answers fails closed         *)
(* (FR-305).  Refuted with one scheduler, one handler and one lapse: the    *)
(* worker that outlived its lease leaves a dead letter while its action,    *)
(* reaped and judged again, waits, and every later tick is rolled back.     *)
UnansweredFails ==
    \A a \in Actions : Waiting(a) ~> ~Waiting(a)

(* What reaches a worker was consented to: a DISPATCHED action has the        *)
(* parameters that were judged and an approval that names them, is spent and  *)
(* reaches their level, and nothing above the task's ceiling ever runs        *)
(* (Dispatcher.enqueue_ready, ApprovalGate.decide, _submit_edit).             *)
ConsentSound ==
    /\ TypeOK
    /\ DispatchCovered
    /\ CeilingHolds
=============================================================================
