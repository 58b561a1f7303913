---------------------------- MODULE ApprovalGate ----------------------------
(***************************************************************************)
(* Consent: the policy gate that stands between READY and DISPATCHED, the  *)
(* approvals it asks for, the HTTP handlers that decide them and the sweep *)
(* that lets them expire (runtime/gate.py, security/approvals.py,          *)
(* orchestrator/approvals.py, the part of scheduler.py that calls them).   *)
(*                                                                         *)
(* A handler and a tick are transactions that read, decide and write       *)
(* later; an approvals row carries no version and its UPDATE expects no    *)
(* status, while an actions row is written only from an expected status.   *)
(*                                                                         *)
(* What executes an action is ActionEngine reduced to what consent can     *)
(* tell apart: copies of a stream entry, a claim, the workers still at an  *)
(* action (those that outlived their lease included), their outcomes, a    *)
(* lease that lapses and is reaped.  Promotion, slots and backoff are      *)
(* reduced to the choice of which READY actions a tick considers.          *)
(***************************************************************************)
EXTENDS Naturals, Sequences, FiniteSets

CONSTANTS
    Actions,
    Params, FirstParams,  \* parameters of an invocation, identified with their hash;
                          \* those each action was planned with
    LevelOf,              \* classify: the capability level of an invocation
    Ceiling,              \* tasks.capability_ceiling
    Policies,             \* policy files: the verdict on each invocation
    Requests,             \* concurrent HTTP handlers that decide approvals
    Schedulers,
    MaxRetries,           \* actions.max_retries
    MaxDecisions,         \* bound: decisions users send
    MaxReloads,           \* bound: edits of the policy file
    MaxCrashes,           \* bound: workers that die
    MaxLapses,            \* bound: leases that lapse under a live worker
    MaxRestarts,          \* bound: scheduler restarts, whose recovery publishes again
    MaxAborts             \* bound: ticks rolled back by the database

Verdicts == {"allow", "confirm", "deny"}

ASSUME GateAssumption ==
    /\ Actions # {}
    /\ FirstParams \in [Actions -> Params]
    /\ LevelOf \in [Params -> Nat] /\ Ceiling \in Nat
    /\ \A a \in Actions : LevelOf[FirstParams[a]] <= Ceiling  \* checked at plan install
    /\ Policies \subseteq [Params -> Verdicts]
    /\ {MaxRetries, MaxDecisions, MaxReloads, MaxCrashes, MaxLapses, MaxRestarts, MaxAborts}
            \subseteq Nat

VARIABLES
    row,       \* the actions table
    approval,  \* the approvals of each action, in the order they were asked for
    dead,      \* action ids with a dead_letters row (action_id is unique)
    entries,   \* undelivered stream entries of each action
    working,   \* the attempts of each action whose workers have not ended
    policy,    \* the policy file in force
    request,   \* local state of each handler
    sched,     \* local state of each scheduler's tick
    permit,    \* history: what the last dispatch of an action rested on
    redecided, \* history: actions with an approval decided or expired a second time
    bounds     \* what is left of the bounds

vars == <<row, approval, dead, entries, working, policy, request, sched, permit, redecided, bounds>>
tables == <<row, approval, dead>>

-----------------------------------------------------------------------------
Row == [status : {"READY", "WAITING_FOR_USER", "DISPATCHED", "RUNNING", "SUCCEEDED", "FAILED"},
        params : Params, attempt : Nat, lapsed : BOOLEAN]  \* lapsed: lease_until is past

Approval == [status : {"PENDING", "APPROVED", "MODIFIED", "REJECTED", "EXPIRED"},
             params : Params, level : Nat, due : BOOLEAN, consumed : BOOLEAN]

(* What a tick decided about an action, on the parameters it had read; n is *)
(* the approval it rests on, 0 for none.                                    *)
Judgement == [do : {"none", "expire", "refuse", "allow", "consume", "ask"}, n : Nat, params : Params]

Permit == [by : {"none", "policy", "approval"}, n : Nat, params : Params]

(* A handler that has passed its checks and has not committed.              *)
Request == [pc : {"idle", "deciding"}, kind : {"approve", "modify", "reject"},
            act : Actions, n : Nat, params : Params]

SomeAction == CHOOSE a \in Actions : TRUE
IdleRequest == [pc |-> "idle", kind |-> "approve", act |-> SomeAction, n |-> 0,
                params |-> FirstParams[SomeAction]]

Undecided == [a \in Actions |-> [do |-> "none", n |-> 0, params |-> FirstParams[a]]]
Resting == [pc |-> "idle", due |-> {}, judged |-> Undecided]

Tick == [pc : {"idle", "due", "commit"}, due : SUBSET (Actions \X Nat),
         judged : [Actions -> Judgement]]

Init ==
    /\ row = [a \in Actions |-> [status |-> "READY", params |-> FirstParams[a],
                                 attempt |-> 0, lapsed |-> FALSE]]
    /\ approval = [a \in Actions |-> <<>>]
    /\ dead = {} /\ entries = [a \in Actions |-> 0]
    /\ working = [a \in Actions |-> {}]
    /\ policy \in Policies
    /\ request = [u \in Requests |-> IdleRequest]
    /\ sched = [s \in Schedulers |-> Resting]
    /\ permit = [a \in Actions |-> [by |-> "none", n |-> 0, params |-> FirstParams[a]]]
    /\ redecided = {}
    /\ bounds = [decisions |-> MaxDecisions, reloads |-> MaxReloads, crashes |-> MaxCrashes,
                 lapses |-> MaxLapses, restarts |-> MaxRestarts, aborts |-> MaxAborts]

-----------------------------------------------------------------------------
(* What the gate asks of the approvals it reads.                            *)

Pending(p) == p.status = "PENDING"

(* usable_for: decided, unspent, unexpired, for these very parameters and   *)
(* at no lower a level.                                                     *)
BugReusable(p, v) ==
    /\ p.status \in {"APPROVED", "MODIFIED"} /\ ~p.due
    /\ p.params = v /\ p.level >= LevelOf[v]

BugLevelUnchecked(p, v) ==
    /\ p.status \in {"APPROVED", "MODIFIED"} /\ ~p.consumed /\ ~p.due /\ p.params = v

Usable(p, v) ==
    /\ p.status \in {"APPROVED", "MODIFIED"} /\ ~p.consumed /\ ~p.due
    /\ p.params = v /\ p.level >= LevelOf[v]

Waiting(a) == row[a].status = "WAITING_FOR_USER"

Asked(a) == 1..Len(approval[a])
Latest(N) == CHOOSE n \in N : \A m \in N : m <= n

(* _require_approval: a usable approval, newest first, is consumed; else    *)
(* the pending one is waited for, or a new one created.                     *)
Consent(a, due) ==
    LET usable == {n \in Asked(a) : Usable(approval[a][n], row[a].params)}
        pending == {n \in Asked(a) : Pending(approval[a][n]) /\ <<a, n>> \notin due}
        answer(d, n) == [do |-> d, n |-> n, params |-> row[a].params]
    IN IF usable # {} THEN answer("consume", Latest(usable))
       ELSE IF pending # {} THEN answer("ask", Latest(pending))
       ELSE answer("ask", 0)

(* check: the ceiling first, then the policy in force.  (Installation and   *)
(* edits keep every level under the ceiling: this check is a second line.)  *)
Check(a, due) ==
    LET v == row[a].params
        outright(d) == [do |-> d, n |-> 0, params |-> v]
    IN IF LevelOf[v] > Ceiling \/ policy[v] = "deny" THEN outright("refuse")
       ELSE IF policy[v] = "allow" THEN outright("allow")
       ELSE Consent(a, due)

-----------------------------------------------------------------------------
(* The scheduler's tick: reap and read what is due; sweep it and judge; one *)
(* commit.                                                                  *)

Abandoned == {a \in Actions : row[a].status = "RUNNING" /\ row[a].lapsed}
Doomed == {a \in Abandoned : row[a].attempt >= MaxRetries}

(* A reaper that cannot commit, its dead letter being a second one, ends    *)
(* the tick before it begins.                                               *)
TickStart(s) ==
    /\ sched[s].pc = "idle" /\ Doomed \cap dead = {}
    /\ row' = [a \in Actions |->
                IF a \in Abandoned
                THEN [row[a] EXCEPT !.status = IF a \in Doomed THEN "FAILED" ELSE "READY",
                                    !.lapsed = FALSE]
                ELSE row[a]]
    /\ dead' = dead \cup Doomed
    /\ sched' = [sched EXCEPT ![s].pc = "due",
                    ![s].due = UNION {{<<a, n>> : n \in {m \in Asked(a) :
                                            Pending(approval[a][m]) /\ approval[a][m].due}}
                                      : a \in Actions}]
    /\ UNCHANGED <<approval, entries, working, policy, request, permit, redecided, bounds>>

(* expire_overdue holds the rows it has written until the tick commits: two *)
(* sweeps of one approval wait for each other.                              *)
BugRefusesNobody(a, due) == FALSE

Unanswered(a, due) ==
    Waiting(a) /\ \E n \in Asked(a) : <<a, n>> \in due

TickJudge(s) ==
    LET due == sched[s].due IN
    /\ sched[s].pc = "due"
    /\ \A t \in Schedulers \ {s} : sched[t].pc = "commit" => sched[t].due \cap due = {}
    /\ \E S \in SUBSET {a \in Actions : row[a].status = "READY"} :
        sched' = [sched EXCEPT ![s].pc = "commit",
                    ![s].judged = [a \in Actions |->
                        IF Unanswered(a, due) THEN [Undecided[a] EXCEPT !.do = "expire"]
                        ELSE IF a \in S THEN Check(a, due) ELSE Undecided[a]]]
    /\ UNCHANGED <<tables, entries, working, policy, request, permit, redecided, bounds>>

Refusing(j) == {a \in Actions : j[a].do \in {"expire", "refuse"}}
Dispatching(j) == {a \in Actions : j[a].do \in {"allow", "consume"} /\ row[a].status = "READY"}
New(j) == {a \in Actions : j[a].do = "ask" /\ j[a].n = 0}

(* The second dead letter of an action, or its second pending approval,     *)
(* violates a unique index and rolls the whole tick back.                   *)
BugNoUniqueIndex(s) == Refusing(sched[s].judged) \cap dead # {}

Clash(s) ==
    \/ Refusing(sched[s].judged) \cap dead # {}
    \/ \E a \in New(sched[s].judged) : \E n \in Asked(a) :
            Pending(approval[a][n]) /\ <<a, n>> \notin sched[s].due

(* Every row moves by CAS from the status the gate names.                   *)
Moved(r, d) ==
    CASE d = "expire" /\ r.status = "WAITING_FOR_USER" -> [r EXCEPT !.status = "FAILED"]
      [] d = "refuse" /\ r.status = "READY"            -> [r EXCEPT !.status = "FAILED"]
      [] d \in {"allow", "consume"} /\ r.status = "READY" -> [r EXCEPT !.status = "DISPATCHED"]
      [] d = "ask" /\ r.status = "READY"               -> [r EXCEPT !.status = "WAITING_FOR_USER"]
      [] OTHER                                         -> r

(* Expiry is written over whatever the approval says by then.               *)
Marked(a, due, j) ==
    [n \in Asked(a) |->
        [approval[a][n] EXCEPT
            !.status = IF <<a, n>> \in due THEN "EXPIRED" ELSE @,
            !.consumed = @ \/ (j.do = "consume" /\ j.n = n)]]

NewApproval(v) ==
    [status |-> "PENDING", params |-> v, level |-> LevelOf[v], due |-> FALSE, consumed |-> FALSE]

TickCommit(s) ==
    LET j == sched[s].judged
        due == sched[s].due
    IN
    /\ sched[s].pc = "commit"
    /\ sched' = [sched EXCEPT ![s] = Resting]
    /\ IF Clash(s)
       THEN UNCHANGED <<tables, entries, permit, redecided>>
       ELSE /\ row' = [a \in Actions |-> Moved(row[a], j[a].do)]
            /\ approval' = [a \in Actions |->
                              IF a \in New(j)
                              THEN Append(Marked(a, due, j[a]), NewApproval(j[a].params))
                              ELSE Marked(a, due, j[a])]
            /\ dead' = dead \cup Refusing(j)
            /\ entries' = [a \in Actions |-> IF a \in Dispatching(j) THEN entries[a] + 1 ELSE entries[a]]
            /\ permit' = [a \in Actions |->
                            IF a \in Dispatching(j)
                            THEN [by |-> IF j[a].do = "allow" THEN "policy" ELSE "approval",
                                  n |-> j[a].n, params |-> j[a].params]
                            ELSE permit[a]]
            /\ redecided' = redecided \cup
                  {a \in Actions : \E n \in Asked(a) : <<a, n>> \in due /\ ~Pending(approval[a][n])}
    /\ UNCHANGED <<working, policy, request, bounds>>

(* A deadlock victim, a lost connection.                                    *)
TickAborts(s) ==
    /\ bounds.aborts > 0 /\ sched[s].pc # "idle"
    /\ bounds' = [bounds EXCEPT !.aborts = @ - 1]
    /\ sched' = [sched EXCEPT ![s] = Resting]
    /\ UNCHANGED <<tables, entries, working, policy, request, permit, redecided>>

(* A scheduler dies and comes back: recover publishes what is DISPATCHED.   *)
Restart(s) ==
    /\ bounds.restarts > 0
    /\ bounds' = [bounds EXCEPT !.restarts = @ - 1]
    /\ sched' = [sched EXCEPT ![s] = Resting]
    /\ entries' = [a \in Actions |-> IF row[a].status = "DISPATCHED" THEN entries[a] + 1 ELSE entries[a]]
    /\ UNCHANGED <<tables, working, policy, request, permit, redecided>>

-----------------------------------------------------------------------------
(* A decision.  The checks are made on what the handler read ...            *)

Decidable(a, n) ==
    /\ Waiting(a)
    /\ Pending(approval[a][n]) /\ ~approval[a][n].due

(* _rewrite classifies the edited invocation anew.                          *)
Editable(v) == LevelOf[v] <= Ceiling

RequestRead(u) ==
    /\ request[u].pc = "idle" /\ bounds.decisions > 0
    /\ bounds' = [bounds EXCEPT !.decisions = @ - 1]
    /\ \E a \in Actions : \E n \in Asked(a) : \E k \in {"approve", "modify", "reject"} :
       \E v \in Params :
        /\ Decidable(a, n)
        /\ IF k = "modify" THEN Editable(v) ELSE v = row[a].params
        /\ request' = [request EXCEPT ![u] =
                          [pc |-> "deciding", kind |-> k, act |-> a, n |-> n, params |-> v]]
    /\ UNCHANGED <<tables, entries, working, policy, sched, permit, redecided>>

(* ... and the writes wait only for rows a sweep holds.                     *)
Locked(a, n) ==
    \E s \in Schedulers : /\ sched[s].pc = "commit"
                          /\ <<a, n>> \in sched[s].due \/ sched[s].judged[a].do = "expire"

(* reject inserts its dead letter whether or not the CAS matched; modify    *)
(* gives up if the rewrite's CAS does not.                                  *)
GivesUp(u) ==
    \/ request[u].kind = "modify" /\ ~Waiting(request[u].act)
    \/ request[u].kind = "reject" /\ request[u].act \in dead

Decision(k) == CASE k = "approve" -> "APPROVED" [] k = "modify" -> "MODIFIED" [] OTHER -> "REJECTED"

Answered(p, q) ==
    [p EXCEPT !.status = Decision(q.kind), !.params = IF q.kind = "modify" THEN q.params ELSE @]

BugResurrects(r, q) ==
    [r EXCEPT !.status = IF q.kind = "reject" THEN "FAILED" ELSE "READY", !.params = q.params]

Decided(r, q) ==
    IF r.status # "WAITING_FOR_USER" THEN r
    ELSE [r EXCEPT !.status = IF q.kind = "reject" THEN "FAILED" ELSE "READY",
                   !.params = IF q.kind = "modify" THEN q.params ELSE @]

RequestCommit(u) ==
    LET q == request[u]
        a == q.act
    IN
    /\ q.pc = "deciding" /\ ~Locked(a, q.n)
    /\ request' = [request EXCEPT ![u] = IdleRequest]
    /\ IF GivesUp(u)
       THEN UNCHANGED <<tables, redecided>>
       ELSE /\ approval' = [approval EXCEPT ![a][q.n] = Answered(@, q)]
            /\ row' = [row EXCEPT ![a] = Decided(@, q)]
            /\ dead' = IF q.kind = "reject" THEN dead \cup {a} ELSE dead
            /\ redecided' = IF Pending(approval[a][q.n]) THEN redecided ELSE redecided \cup {a}
    /\ UNCHANGED <<entries, working, policy, sched, permit, bounds>>

FallsDue(a) ==
    /\ \E n \in Asked(a) : /\ ~approval[a][n].due
                           /\ approval' = [approval EXCEPT ![a][n].due = TRUE]
    /\ UNCHANGED <<row, dead, entries, working, policy, request, sched, permit, redecided, bounds>>

Reload ==
    /\ bounds.reloads > 0
    /\ bounds' = [bounds EXCEPT !.reloads = @ - 1]
    /\ policy' \in Policies \ {policy}
    /\ UNCHANGED <<tables, entries, working, request, sched, permit, redecided>>

-----------------------------------------------------------------------------
(* The engine underneath.                                                   *)

consent == <<approval, policy, request, sched, permit, redecided>>

Claimable(a) == row[a].status \in {"DISPATCHED", "READY"}

(* cas_claim: the worker is known by the attempt it counts.                 *)
Claim(a) ==
    /\ entries[a] > 0
    /\ entries' = [entries EXCEPT ![a] = @ - 1]
    /\ IF Claimable(a)
       THEN /\ row' = [row EXCEPT ![a].status = "RUNNING", ![a].lapsed = FALSE, ![a].attempt = @ + 1]
            /\ working' = [working EXCEPT ![a] = @ \cup {row[a].attempt + 1}]
       ELSE UNCHANGED <<row, working>>
    /\ UNCHANGED <<consent, dead, bounds>>

(* An outcome is written by CAS on RUNNING, which names no attempt: a worker *)
(* that outlived its lease ends the attempt of its successor, or nothing.   *)
BugAnyRow(r, t) == [r EXCEPT !.status = t, !.lapsed = FALSE]

Outcome(r, t) ==
    IF r.status = "RUNNING" THEN [r EXCEPT !.status = t, !.lapsed = FALSE] ELSE r

Leaves(a, k) == working' = [working EXCEPT ![a] = @ \ {k}]

Succeed(a, k) ==
    /\ Leaves(a, k)
    /\ row' = [row EXCEPT ![a] = Outcome(@, "SUCCEEDED")]
    /\ UNCHANGED <<consent, dead, entries, bounds>>

Retry(a, k) ==
    /\ k < MaxRetries /\ Leaves(a, k)
    /\ row' = [row EXCEPT ![a] = Outcome(@, "READY")]
    /\ UNCHANGED <<consent, dead, entries, bounds>>

(* _finish_failed adds its dead letter whether or not the CAS matched; the  *)
(* second one of an action rolls the outcome back.                          *)
Fail(a, k) ==
    /\ Leaves(a, k)
    /\ row' = [row EXCEPT ![a] = IF a \in dead THEN @ ELSE Outcome(@, "FAILED")]
    /\ dead' = dead \cup {a}
    /\ UNCHANGED <<consent, entries, bounds>>

WorkerDies(a, k) ==
    /\ bounds.crashes > 0 /\ Leaves(a, k)
    /\ bounds' = [bounds EXCEPT !.crashes = @ - 1]
    /\ UNCHANGED <<consent, row, dead, entries>>

(* The lease of a worker that is gone lapses; that of a live one lapses when *)
(* its heartbeats do not come through in time ...                           *)
LeaseLapses(a) ==
    /\ row[a].status = "RUNNING" /\ ~row[a].lapsed
    /\ row' = [row EXCEPT ![a].lapsed = TRUE]
    /\ IF row[a].attempt \in working[a]
       THEN bounds.lapses > 0 /\ bounds' = [bounds EXCEPT !.lapses = @ - 1]
       ELSE UNCHANGED bounds
    /\ UNCHANGED <<consent, dead, entries, working>>

(* ... and extend_lease may still come before the reaper.                   *)
Heartbeat(a) ==
    /\ row[a].status = "RUNNING" /\ row[a].lapsed /\ row[a].attempt \in working[a]
    /\ row' = [row EXCEPT ![a].lapsed = FALSE]
    /\ UNCHANGED <<consent, dead, entries, working, bounds>>

-----------------------------------------------------------------------------
TickNext(s) == TickStart(s) \/ TickJudge(s) \/ TickCommit(s)

WorkerNext(a) ==
    \/ Claim(a) \/ LeaseLapses(a)
    \/ \E k \in working[a] : Succeed(a, k) \/ Retry(a, k) \/ Fail(a, k)

WorkerFaults(a) == Heartbeat(a) \/ \E k \in working[a] : WorkerDies(a, k)

Next ==
    \/ \E s \in Schedulers : TickNext(s) \/ TickAborts(s) \/ Restart(s)
    \/ \E u \in Requests : RequestRead(u) \/ RequestCommit(u)
    \/ \E a \in Actions : WorkerNext(a) \/ WorkerFaults(a) \/ FallsDue(a)
    \/ Reload

Spec == Init /\ [][Next]_vars

(* Ticks go on, workers work, handlers finish, time passes.  Users need not *)
(* answer.                                                                  *)
Fairness ==
    /\ \A s \in Schedulers : WF_vars(TickNext(s))
    /\ \A u \in Requests : WF_vars(RequestCommit(u))
    /\ \A a \in Actions : WF_vars(WorkerNext(a)) /\ WF_vars(FallsDue(a))

FairSpec == Spec /\ Fairness
=============================================================================
