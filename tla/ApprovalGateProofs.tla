------------------------- MODULE ApprovalGateProofs -------------------------
(***************************************************************************)
(* Proofs of properties of ApprovalGate, for every set of actions, of      *)
(* parameters, of handlers, of schedulers and of policies, and every bound.*)
(***************************************************************************)
EXTENDS ApprovalGateProperties, TLAPS, WellFoundedInduction, SequenceTheorems

(* What is left of the bounds.                                               *)
BoundsShape == [decisions : Nat, reloads : Nat, crashes : Nat, lapses : Nat, restarts : Nat,
                aborts : Nat]
USE DEF BoundsShape

(* A task with a plan has an action.                                        *)
LEMMA SomeActionIsOne == SomeAction \in Actions
BY GateAssumption DEF SomeAction

LEMMA IdleTypes ==
    /\ IdleRequest \in Request
    /\ Undecided \in [Actions -> Judgement]
    /\ Resting \in Tick
BY SomeActionIsOne, GateAssumption DEF IdleRequest, Request, Undecided, Judgement, Resting, Tick

(* Among some of the approvals of an action there is a newest one: the      *)
(* distances to the end of the sequence have a minimum.                     *)
LEMMA LatestIsOne ==
    ASSUME NEW L \in Nat, NEW N, N \subseteq 1..L, N # {}
    PROVE  Latest(N) \in N
<1> DEFINE R == OpToRel(<, Nat)
           T == {k \in Nat : \E n \in N : k = L - n}
<1>1. \A n \in N : n \in Nat /\ L - n \in Nat
  OBVIOUS
<1>2. T \subseteq Nat /\ T # {}
  BY <1>1
<1>3. IsWellFoundedOn(R, Nat)
  BY NatLessThanWellFounded
<1> HIDE DEF R
<1>4. PICK x \in T : \A y \in T : <<y, x>> \notin R
  <2> HIDE DEF T
  <2> QED BY <1>2, <1>3, WFMin
<1>5. \A y \in T : ~(y < x)
  BY <1>2, <1>4 DEF R, OpToRel
<1>6. PICK n \in N : x = L - n
  BY <1>4
<1>7. \A m \in N : m <= n
  <2> TAKE m \in N
  <2>1. L - m \in T
    BY <1>1
  <2>2. ~(L - m < L - n)
    BY <2>1, <1>5, <1>6
  <2> QED BY <2>2, <1>1
<1> QED BY <1>7 DEF Latest

-----------------------------------------------------------------------------
(* What a commit makes of the approvals of an action.                       *)
LEMMA MarkedOne ==
    ASSUME NEW p \in Approval, NEW e, NEW c \in BOOLEAN
    PROVE  [p EXCEPT !.status = IF e THEN "EXPIRED" ELSE @, !.consumed = @ \/ c] \in Approval
BY DEF Approval

LEMMA MarkedType ==
    ASSUME NEW a \in Actions, approval[a] \in Seq(Approval), NEW due, NEW j
    PROVE  /\ Marked(a, due, j) \in Seq(Approval)
           /\ Len(Marked(a, due, j)) = Len(approval[a])
<1> DEFINE e(n) == [approval[a][n] EXCEPT
                       !.status = IF <<a, n>> \in due THEN "EXPIRED" ELSE @,
                       !.consumed = @ \/ (j.do = "consume" /\ j.n = n)]
<1>1. Len(approval[a]) \in Nat /\ \A n \in 1..Len(approval[a]) : approval[a][n] \in Approval
  OBVIOUS
<1>2. \A n \in 1..Len(approval[a]) : e(n) \in Approval
  BY <1>1, MarkedOne
<1>3. Marked(a, due, j) = [n \in 1..Len(approval[a]) |-> e(n)]
  BY DEF Marked, Asked
<1> HIDE DEF e
<1> QED BY <1>1, <1>2, <1>3

LEMMA NewApprovalType ==
    ASSUME NEW v \in Params PROVE NewApproval(v) \in Approval
BY GateAssumption DEF NewApproval, Approval

(* The gate judges with a verdict of its own, on the row's parameters, and  *)
(* rests on an approval of this action or on none.                          *)
LEMMA CheckType ==
    ASSUME TypeOK, NEW a \in Actions, NEW due
    PROVE  /\ Check(a, due) \in Judgement
           /\ Check(a, due).params = row[a].params
           /\ Check(a, due).n \in Asked(a) \cup {0}
<1>0. row[a] \in Row /\ approval[a] \in Seq(Approval)
  BY DEF TypeOK
<1>1. row[a].params \in Params /\ Len(approval[a]) \in Nat
  BY <1>0 DEF Row
<1> DEFINE usable == {n \in Asked(a) : Usable(approval[a][n], row[a].params)}
           pending == {n \in Asked(a) : Pending(approval[a][n]) /\ <<a, n>> \notin due}
<1>2. usable \subseteq 1..Len(approval[a]) /\ pending \subseteq 1..Len(approval[a])
  BY DEF Asked
<1>3. /\ usable # {} => Latest(usable) \in usable
      /\ pending # {} => Latest(pending) \in pending
  <2> HIDE DEF usable, pending
  <2> QED BY <1>1, <1>2, LatestIsOne
<1>4. Consent(a, due) = IF usable # {} THEN [do |-> "consume", n |-> Latest(usable), params |-> row[a].params]
                         ELSE IF pending # {} THEN [do |-> "ask", n |-> Latest(pending), params |-> row[a].params]
                         ELSE [do |-> "ask", n |-> 0, params |-> row[a].params]
  BY DEF Consent
<1> HIDE DEF usable, pending
<1>5. /\ usable # {} => Latest(usable) \in Nat /\ Latest(usable) \in Asked(a)
      /\ pending # {} => Latest(pending) \in Nat /\ Latest(pending) \in Asked(a)
  <2>1. \A n \in 1..Len(approval[a]) : n \in Nat /\ n \in Asked(a)
    BY <1>1 DEF Asked
  <2> HIDE DEF Latest
  <2> QED BY <2>1, <1>2, <1>3
<1>6. /\ Consent(a, due) \in Judgement
      /\ Consent(a, due).params = row[a].params
      /\ Consent(a, due).n \in Asked(a) \cup {0}
  BY <1>1, <1>4, <1>5 DEF Judgement
<1> QED BY <1>1, <1>6 DEF Check, Judgement

-----------------------------------------------------------------------------
(* Type correctness, one lemma per group of actions.                        *)
LEMMA RowType == TypeOK => row \in [Actions -> Row]
BY DEF TypeOK

LEMMA ApprovalType == TypeOK => approval \in [Actions -> Seq(Approval)]
BY DEF TypeOK

LEMMA EntriesType == TypeOK => entries \in [Actions -> Nat]
BY DEF TypeOK

LEMMA RequestType == TypeOK => request \in [Requests -> Request]
BY DEF TypeOK

LEMMA RequestRefers ==
    TypeOK => \A u \in Requests : request[u].pc = "deciding" => request[u].n \in Asked(request[u].act)
BY DEF TypeOK

LEMMA SchedType == TypeOK => sched \in [Schedulers -> Tick]
BY DEF TypeOK

LEMMA PermitType == TypeOK => permit \in [Actions -> Permit]
BY DEF TypeOK

LEMMA BoundsType ==
    TypeOK => bounds \in BoundsShape
BY DEF TypeOK

LEMMA TypeInit == Init => TypeOK
<1> SUFFICES ASSUME Init PROVE TypeOK
  OBVIOUS
<1>1. row \in [Actions -> Row]
  BY GateAssumption DEF Init, Row
<1>2. approval \in [Actions -> Seq(Approval)]
  BY DEF Init
<1>3. request \in [Requests -> Request] /\ \A u \in Requests : request[u].pc = "idle"
  BY IdleTypes DEF Init, IdleRequest
<1>4. sched \in [Schedulers -> Tick]
  BY IdleTypes DEF Init
<1>5. permit \in [Actions -> Permit]
  BY GateAssumption DEF Init, Permit
<1>6. bounds \in BoundsShape
  BY GateAssumption DEF Init
<1> QED BY <1>1, <1>2, <1>3, <1>4, <1>5, <1>6 DEF Init, TypeOK

LEMMA TypeTickStart ==
    ASSUME TypeOK, NEW s \in Schedulers, TickStart(s) PROVE TypeOK'
<1>1. row' \in [Actions -> Row]
  BY RowType DEF TickStart, Row
<1>2. dead' \subseteq Actions
  BY DEF TickStart, TypeOK, Doomed, Abandoned
<1>3. sched' \in [Schedulers -> Tick]
  <2> DEFINE D == UNION {{<<a, n>> : n \in {m \in Asked(a) :
                            Pending(approval[a][m]) /\ approval[a][m].due}} : a \in Actions}
  <2>1. D \subseteq Actions \X Nat
    BY DEF Asked
  <2>2. sched' = [sched EXCEPT ![s].pc = "due", ![s].due = D]
    BY DEF TickStart
  <2> HIDE DEF D
  <2> QED BY <2>1, <2>2, SchedType DEF Tick
<1> QED BY <1>1, <1>2, <1>3 DEF TickStart, TypeOK, Asked

LEMMA TypeTickJudge ==
    ASSUME TypeOK, NEW s \in Schedulers, TickJudge(s) PROVE TypeOK'
<1>1. PICK S \in SUBSET Actions :
        sched' = [sched EXCEPT ![s].pc = "commit",
                    ![s].judged = [a \in Actions |->
                        IF Unanswered(a, sched[s].due) THEN [Undecided[a] EXCEPT !.do = "expire"]
                        ELSE IF a \in S THEN Check(a, sched[s].due) ELSE Undecided[a]]]
  BY DEF TickJudge
<1>2. \A a \in Actions : /\ [Undecided[a] EXCEPT !.do = "expire"] \in Judgement
                         /\ Undecided[a] \in Judgement
  BY IdleTypes DEF Judgement
<1>3. \A a \in Actions : Check(a, sched[s].due) \in Judgement
  BY CheckType
<1>4. sched' \in [Schedulers -> Tick]
  BY <1>1, <1>2, <1>3, SchedType DEF Tick
<1> QED BY <1>4 DEF TickJudge, TypeOK, tables, Asked

(* What a commit writes, and the approvals it leaves and adds.              *)
LEMMA CommittedApprovals ==
    ASSUME TypeOK, NEW s \in Schedulers, TickCommit(s), ~Clash(s), NEW a \in Actions
    PROVE  LET j == sched[s].judged
               M == Marked(a, sched[s].due, j[a])
           IN /\ j[a] \in Judgement /\ M \in Seq(Approval) /\ Len(M) = Len(approval[a])
              /\ approval'[a] = IF a \in New(j) THEN Append(M, NewApproval(j[a].params)) ELSE M
              /\ NewApproval(j[a].params) \in Approval
<1>1. sched[s] \in Tick /\ approval[a] \in Seq(Approval)
  BY ApprovalType, SchedType
<1>2. sched[s].judged[a] \in Judgement
  BY <1>1 DEF Tick
<1>3. NewApproval(sched[s].judged[a].params) \in Approval
  BY <1>2, NewApprovalType DEF Judgement
<1> QED BY <1>1, <1>2, <1>3, MarkedType DEF TickCommit

LEMMA TypeTickCommit ==
    ASSUME TypeOK, NEW s \in Schedulers, TickCommit(s) PROVE TypeOK'
<1>1. sched' \in [Schedulers -> Tick]
  BY IdleTypes, SchedType DEF TickCommit
<1>2. CASE Clash(s)
  BY <1>1, <1>2 DEF TickCommit, TypeOK, tables, Asked
<1>3. CASE ~Clash(s)
  <2> DEFINE j == sched[s].judged
  <2>1. j \in [Actions -> Judgement]
    BY SchedType DEF Tick
  <2>2. row' \in [Actions -> Row]
    <3>1. \A d : \A r \in Row : Moved(r, d) \in Row
      BY DEF Moved, Row
    <3> QED BY <1>3, <3>1, RowType DEF TickCommit
  <2>3. \A a \in Actions : /\ approval'[a] \in Seq(Approval)
                           /\ Len(approval[a]) \in Nat /\ Len(approval'[a]) \in Nat
                           /\ Len(approval[a]) <= Len(approval'[a])
    <3> TAKE a \in Actions
    <3>1. approval[a] \in Seq(Approval)
      BY ApprovalType
    <3>2. PICK M \in Seq(Approval), p \in Approval :
            /\ Len(M) = Len(approval[a])
            /\ approval'[a] = M \/ approval'[a] = Append(M, p)
      BY <1>3, CommittedApprovals
    <3> HIDE DEF j
    <3>3. /\ Append(M, p) \in Seq(Approval)
          /\ Len(Append(M, p)) = Len(M) + 1
      BY AppendProperties
    <3>4. /\ Len(M) \in Nat
          /\ approval'[a] \in Seq(Approval)
          /\ Len(approval'[a]) = Len(M) \/ Len(approval'[a]) = Len(M) + 1
      BY <3>2, <3>3
    <3> QED BY <3>1, <3>2, <3>4
  <2>4. approval' \in [Actions -> Seq(Approval)]
    BY <1>3, <2>3 DEF TickCommit
  <2>5. dead' \subseteq Actions
    BY <1>3 DEF TickCommit, TypeOK, Refusing
  <2>6. entries' \in [Actions -> Nat]
    BY <1>3, EntriesType DEF TickCommit
  <2>7. permit' \in [Actions -> Permit]
    BY <1>3, <2>1, PermitType DEF TickCommit, Permit, Judgement
  <2>8. \A u \in Requests : request'[u].pc = "deciding" => request'[u].n \in 1..Len(approval'[request'[u].act])
    <3>1. request' = request
      BY DEF TickCommit
    <3>2. \A u \in Requests : request[u].act \in Actions /\ request[u].n \in Nat
      BY RequestType DEF Request
    <3>3. \A u \in Requests : request[u].pc = "deciding" => request[u].n \in 1..Len(approval[request[u].act])
      BY RequestRefers DEF Asked
    <3> QED BY <3>1, <3>2, <3>3, <2>3
  <2> QED BY <1>1, <2>2, <2>4, <2>5, <2>6, <2>7, <2>8 DEF TickCommit, TypeOK, Asked
<1> QED BY <1>2, <1>3

LEMMA TypeTickEnds ==
    ASSUME TypeOK, NEW s \in Schedulers, TickAborts(s) \/ Restart(s) PROVE TypeOK'
<1>1. sched' \in [Schedulers -> Tick]
  BY IdleTypes, SchedType DEF TickAborts, Restart
<1>2. bounds' \in BoundsShape
  <2>1. CASE TickAborts(s)
    <3>1. PICK n \in Nat : n = bounds.aborts - 1
      BY <2>1, BoundsType DEF TickAborts
    <3> QED BY <2>1, <3>1 DEF TickAborts, TypeOK
  <2>2. CASE Restart(s)
    <3>1. PICK n \in Nat : n = bounds.restarts - 1
      BY <2>2, BoundsType DEF Restart
    <3> QED BY <2>2, <3>1 DEF Restart, TypeOK
  <2> QED BY <2>1, <2>2
<1>3. entries' \in [Actions -> Nat]
  BY EntriesType DEF TickAborts, Restart
<1> QED BY <1>1, <1>2, <1>3 DEF TickAborts, Restart, TypeOK, tables, Asked

LEMMA TypeRequest ==
    ASSUME TypeOK, NEW u \in Requests, RequestRead(u) \/ RequestCommit(u) PROVE TypeOK'
<1>1. CASE RequestRead(u)
  <2>1. PICK a \in Actions : \E n \in Asked(a) : \E k \in {"approve", "modify", "reject"} : \E v \in Params :
          request' = [request EXCEPT ![u] =
                        [pc |-> "deciding", kind |-> k, act |-> a, n |-> n, params |-> v]]
    BY <1>1 DEF RequestRead
  <2>a. PICK n \in Asked(a), k \in {"approve", "modify", "reject"}, v \in Params :
          request' = [request EXCEPT ![u] =
                        [pc |-> "deciding", kind |-> k, act |-> a, n |-> n, params |-> v]]
    BY <2>1
  <2>2. n \in Nat
    BY DEF Asked
  <2>3. request' \in [Requests -> Request]
    BY <2>a, <2>2, RequestType DEF Request
  <2>4. PICK m \in Nat : m = bounds.decisions - 1
    BY <1>1, BoundsType DEF RequestRead
  <2>5. bounds' \in BoundsShape
    BY <1>1, <2>4, BoundsType DEF RequestRead
  <2>6. \A w \in Requests : request'[w].pc = "deciding" => request'[w].n \in Asked(request'[w].act)
    BY <2>a, RequestType, RequestRefers
  <2> QED BY <1>1, <2>3, <2>5, <2>6 DEF RequestRead, TypeOK, tables, Asked
<1>2. CASE RequestCommit(u)
  <2> DEFINE q == request[u]
             a == q.act
  <2>0. q \in Request /\ a \in Actions /\ q.n \in Asked(a) /\ approval[a] \in Seq(Approval) /\ row[a] \in Row
    BY <1>2, RowType, ApprovalType, RequestType, RequestRefers DEF RequestCommit, Request
  <2>1. request' \in [Requests -> Request] /\ \A w \in Requests : request'[w] = request[w] \/ request'[w].pc = "idle"
    BY <1>2, IdleTypes, RequestType DEF RequestCommit, IdleRequest
  <2>2. CASE GivesUp(u)
    BY <1>2, <2>1, <2>2 DEF RequestCommit, TypeOK, tables, Asked
  <2>3. CASE ~GivesUp(u)
    <3>1. Decision(q.kind) \in {"APPROVED", "MODIFIED", "REJECTED"}
      BY DEF Decision
    <3>a. approval[a][q.n] \in Approval
      BY <2>0 DEF Asked
    <3>2. PICK p \in Approval : p = Answered(approval[a][q.n], q)
      BY <2>0, <3>1, <3>a DEF Answered, Approval, Request
    <3>3. approval' = [approval EXCEPT ![a] = [approval[a] EXCEPT ![q.n] = p]]
      BY <1>2, <2>0, <2>3, <3>2, ApprovalType DEF RequestCommit
    <3>4. /\ [approval[a] EXCEPT ![q.n] = p] \in Seq(Approval)
          /\ Len([approval[a] EXCEPT ![q.n] = p]) = Len(approval[a])
      BY <2>0, <3>2 DEF Asked
    <3>5. /\ approval' \in [Actions -> Seq(Approval)]
          /\ \A b \in Actions : Len(approval'[b]) = Len(approval[b])
      BY <2>0, <3>3, <3>4, ApprovalType
    <3>6. Decided(row[a], q) \in Row
      BY <2>0 DEF Decided, Row, Request
    <3>7. row' \in [Actions -> Row]
      BY <1>2, <2>3, <2>0, <3>6, RowType DEF RequestCommit
    <3>8. dead' \subseteq Actions
      BY <1>2, <2>3, <2>0 DEF RequestCommit, TypeOK
    <3>9. \A w \in Requests : request'[w].pc = "deciding" => request'[w].n \in 1..Len(approval'[request'[w].act])
      BY <2>1, <3>5, ApprovalType, RequestType, RequestRefers DEF Request, Asked
    <3>10. redecided' \subseteq Actions
      BY <1>2, <2>3, <2>0 DEF RequestCommit, TypeOK
    <3>11. UNCHANGED <<entries, working, policy, sched, permit, bounds>>
      BY <1>2 DEF RequestCommit
    <3> QED BY <2>1, <3>5, <3>7, <3>8, <3>9, <3>10, <3>11 DEF TypeOK, Asked
  <2> QED BY <2>2, <2>3
<1> QED BY <1>1, <1>2

LEMMA TypeFallsDue ==
    ASSUME TypeOK, NEW a \in Actions, FallsDue(a) PROVE TypeOK'
<1>1. PICK n \in Asked(a) : approval' = [approval EXCEPT ![a][n].due = TRUE]
  BY DEF FallsDue
<1>2. approval[a] \in Seq(Approval)
  BY ApprovalType
<1>a. approval[a][n] \in Approval
  BY <1>2 DEF Asked
<1>3. PICK p \in Approval : p = [approval[a][n] EXCEPT !.due = TRUE]
  BY <1>a DEF Approval
<1>4. approval' = [approval EXCEPT ![a] = [approval[a] EXCEPT ![n] = p]]
  BY <1>1, <1>2, <1>3, ApprovalType
<1>5. /\ [approval[a] EXCEPT ![n] = p] \in Seq(Approval)
      /\ Len([approval[a] EXCEPT ![n] = p]) = Len(approval[a])
  BY <1>2, <1>3 DEF Asked
<1>6. /\ approval' \in [Actions -> Seq(Approval)]
      /\ \A b \in Actions : Len(approval'[b]) = Len(approval[b])
  BY <1>4, <1>5, ApprovalType
<1>7. \A w \in Requests : request[w].pc = "deciding" => request[w].n \in 1..Len(approval'[request[w].act])
  BY <1>6, ApprovalType, RequestType, RequestRefers DEF Request, Asked
<1> QED BY <1>6, <1>7 DEF FallsDue, TypeOK, Asked

(* What the engine leaves alone, and how it moves the rows.                 *)
LEMMA WorkerFrame ==
    ASSUME NEW b \in Actions, WorkerNext(b) \/ WorkerFaults(b)
    PROVE  UNCHANGED consent
BY DEF WorkerNext, WorkerFaults, Claim, LeaseLapses, Heartbeat, Succeed, Retry, Fail, WorkerDies

LEMMA WorkerMoves ==
    ASSUME TypeOK, NEW b \in Actions, WorkerNext(b) \/ WorkerFaults(b)
    PROVE  /\ row' \in [Actions -> Row]
           /\ \A a \in Actions :
                \/ row'[a] = row[a]
                \/ /\ row[a].status \notin {"FAILED", "WAITING_FOR_USER"}
                   /\ row'[a].params = row[a].params
                   /\ row'[a].status \in {"RUNNING", "SUCCEEDED", "READY", "FAILED"}
<1>0. row \in [Actions -> Row]
  BY RowType
<1>1. PICK r : r = row'[b]
  OBVIOUS
<1>2. /\ row' = row \/ row' = [row EXCEPT ![b] = r]
      /\ \/ r = row[b]
         \/ /\ r \in Row /\ row[b].status \notin {"FAILED", "WAITING_FOR_USER"}
            /\ r.params = row[b].params
            /\ r.status \in {"RUNNING", "SUCCEEDED", "READY", "FAILED"}
  <2>1. CASE Claim(b)
    <3>1. PICK k \in Nat : k = row[b].attempt + 1
      BY <1>0 DEF Row
    <3> QED BY <2>1, <3>1, <1>0, <1>1 DEF Claim, Claimable, Row
  <2>2. CASE LeaseLapses(b) \/ Heartbeat(b)
    BY <2>2, <1>0, <1>1 DEF LeaseLapses, Heartbeat, Row
  <2>3. ASSUME NEW k, Succeed(b, k) \/ Retry(b, k) \/ Fail(b, k)
        PROVE  \/ row' = row
               \/ \E t \in {"SUCCEEDED", "READY", "FAILED"} :
                    row' = [row EXCEPT ![b] = Outcome(row[b], t)]
    BY <2>3, <1>0 DEF Succeed, Retry, Fail
  <2>4. ASSUME NEW t \in {"SUCCEEDED", "READY", "FAILED"}, row' = [row EXCEPT ![b] = Outcome(row[b], t)]
        PROVE  \/ r = row[b]
               \/ /\ r \in Row /\ row[b].status = "RUNNING"
                  /\ r.params = row[b].params /\ r.status = t
    <3>1. r = Outcome(row[b], t) /\ row[b] \in Row
      BY <2>4, <1>0, <1>1
    <3> QED BY <3>1 DEF Outcome, Row
  <2>5. ASSUME NEW t \in {"SUCCEEDED", "READY", "FAILED"}, row' = [row EXCEPT ![b] = Outcome(row[b], t)]
        PROVE  row' = [row EXCEPT ![b] = r]
    BY <2>5, <1>0, <1>1
  <2>6. ASSUME NEW k, Succeed(b, k) \/ Retry(b, k) \/ Fail(b, k)
        PROVE  /\ row' = row \/ row' = [row EXCEPT ![b] = r]
               /\ \/ r = row[b]
                  \/ /\ r \in Row /\ row[b].status \notin {"FAILED", "WAITING_FOR_USER"}
                     /\ r.params = row[b].params
                     /\ r.status \in {"RUNNING", "SUCCEEDED", "READY", "FAILED"}
    BY <2>6, <2>3, <2>4, <2>5, <1>1
  <2>7. ASSUME NEW k, WorkerDies(b, k) PROVE row' = row
    BY <2>7 DEF WorkerDies
  <2> QED BY <1>1, <2>1, <2>2, <2>6, <2>7 DEF WorkerNext, WorkerFaults
<1> QED BY <1>0, <1>2

LEMMA TypeWorker ==
    ASSUME TypeOK, NEW a \in Actions, WorkerNext(a) \/ WorkerFaults(a) PROVE TypeOK'
<1>0. working \in [Actions -> SUBSET Nat] /\ row \in [Actions -> Row] /\ dead \subseteq Actions
  BY DEF TypeOK
<1>1. row' \in [Actions -> Row] /\ UNCHANGED consent
  BY WorkerMoves, WorkerFrame
<1>2. CASE Claim(a)
  <2>1. PICK n \in Nat : n = entries[a] - 1
    BY <1>2, EntriesType DEF Claim
  <2>2. entries' \in [Actions -> Nat]
    BY <1>2, <2>1, EntriesType DEF Claim
  <2>3. PICK k \in Nat : k = row[a].attempt + 1
    BY <1>0 DEF Row
  <2>4. working' \in [Actions -> SUBSET Nat]
    BY <1>2, <1>0, <2>3 DEF Claim
  <2> QED BY <1>1, <1>2, <2>2, <2>4 DEF Claim, TypeOK, Asked, consent
<1>3. CASE LeaseLapses(a) \/ Heartbeat(a)
  <2>1. bounds' \in BoundsShape
    <3>1. CASE bounds' = bounds
      BY <3>1, BoundsType
    <3>2. CASE bounds' # bounds
      <4>1. PICK n \in Nat : n = bounds.lapses - 1
        BY <1>3, <3>2, BoundsType DEF LeaseLapses, Heartbeat, BoundsShape
      <4> QED BY <1>3, <3>2, <4>1, BoundsType DEF LeaseLapses, Heartbeat, BoundsShape
    <3> QED BY <3>1, <3>2
  <2> QED BY <1>1, <1>3, <2>1 DEF LeaseLapses, Heartbeat, TypeOK, Asked, consent, BoundsShape
<1>4. ASSUME NEW k, Succeed(a, k) \/ Retry(a, k) \/ Fail(a, k) PROVE TypeOK'
  <2>1. working' \in [Actions -> SUBSET Nat] /\ dead' \subseteq Actions
    BY <1>4, <1>0 DEF Succeed, Retry, Fail, Leaves
  <2>2. UNCHANGED <<entries, bounds>>
    BY <1>4 DEF Succeed, Retry, Fail
  <2> QED BY <1>1, <2>1, <2>2 DEF TypeOK, Asked, consent
<1>5. ASSUME NEW k, WorkerDies(a, k) PROVE TypeOK'
  <2>1. PICK n \in Nat : n = bounds.crashes - 1
    BY <1>5, BoundsType DEF WorkerDies, BoundsShape
  <2>2. bounds' \in BoundsShape
    BY <1>5, <2>1, BoundsType DEF WorkerDies, BoundsShape
  <2>3. working' \in [Actions -> SUBSET Nat] /\ UNCHANGED <<dead, entries>>
    BY <1>5, <1>0 DEF WorkerDies, Leaves
  <2> QED BY <1>1, <2>2, <2>3 DEF TypeOK, Asked, consent, BoundsShape
<1> QED BY <1>2, <1>3, <1>4, <1>5 DEF WorkerNext, WorkerFaults

LEMMA TypeReload ==
    ASSUME TypeOK, Reload PROVE TypeOK'
<1>1. PICK n \in Nat : n = bounds.reloads - 1
  BY BoundsType DEF Reload
<1>2. bounds' \in BoundsShape
  BY <1>1, BoundsType DEF Reload
<1> QED BY <1>2 DEF Reload, TypeOK, tables, Asked

LEMMA TypeNext == TypeOK /\ [Next]_vars => TypeOK'
<1> SUFFICES ASSUME TypeOK, [Next]_vars PROVE TypeOK'
  OBVIOUS
<1>1. CASE UNCHANGED vars
  BY <1>1 DEF vars, TypeOK, Asked
<1> QED BY <1>1, TypeTickStart, TypeTickJudge, TypeTickCommit, TypeTickEnds, TypeRequest,
           TypeFallsDue, TypeWorker, TypeReload DEF Next, TickNext

(* The tables, the handlers' and the ticks' local states keep their shape,  *)
(* and a handler always refers to an approval that exists.                  *)
THEOREM GateTypeCorrect == Spec => []TypeOK
BY TypeInit, TypeNext, PTL DEF Spec

-----------------------------------------------------------------------------
(* What consent promises: that refusals are final, that the ceiling holds,  *)
(* that one question is open at a time, that an action that waits can be    *)
(* answered and leaves on an answer alone and, under one scheduler, that a  *)
(* dispatch rests on what was consented.  All of it follows from how a step *)
(* may move a row (RowMoves) and an approval (QuietMoves, CommitMoves).     *)

(* How a row moves.                                                         *)

Edits(u, a) ==
    /\ RequestCommit(u) /\ request[u].kind = "modify" /\ request[u].act = a /\ Waiting(a)

Commits(s) == TickCommit(s) /\ ~Clash(s)

RowMove(a) ==
    /\ row[a].status = "FAILED" => row'[a] = row[a]
    /\ row'[a].status = "WAITING_FOR_USER" =>
            Waiting(a) \/ \E s \in Schedulers : Commits(s)
    /\ row'[a].params # row[a].params =>
            \E u \in Requests : Edits(u, a) /\ row'[a].params = request[u].params
    /\ row'[a].status = "DISPATCHED" =>
            \/ row[a].status = "DISPATCHED"
            \/ \E s \in Schedulers : Commits(s) /\ a \in Dispatching(sched[s].judged)

LEMMA RowMoves ==
    ASSUME TypeOK, [Next]_vars, NEW a \in Actions PROVE RowMove(a)
<1>0. row \in [Actions -> Row] /\ row[a] \in Row
  BY RowType
<1>1. CASE row' = row
  BY <1>1 DEF RowMove, Waiting
<1>2. ASSUME NEW s \in Schedulers, TickStart(s) PROVE RowMove(a)
  <2>1. row'[a] = row[a] \/ \E t \in {"FAILED", "READY"} :
            /\ row[a].status = "RUNNING"
            /\ row'[a] = [row[a] EXCEPT !.status = t, !.lapsed = FALSE]
    BY <1>2 DEF TickStart, Abandoned
  <2> QED BY <2>1, <1>0 DEF RowMove, Row, Waiting
<1>3. ASSUME NEW s \in Schedulers, TickCommit(s), ~Clash(s) PROVE RowMove(a)
  <2>1. row'[a] = Moved(row[a], sched[s].judged[a].do)
    BY <1>3 DEF TickCommit
  <2>2. row'[a].params = row[a].params
    BY <2>1, <1>0 DEF Moved, Row
  <2>3. row[a].status = "FAILED" => row'[a] = row[a]
    BY <2>1 DEF Moved
  <2>4. row'[a].status = "DISPATCHED" => row[a].status = "DISPATCHED" \/ a \in Dispatching(sched[s].judged)
    BY <2>1, <1>0 DEF Moved, Dispatching, Row
  <2> QED BY <1>3, <2>2, <2>3, <2>4 DEF RowMove, Commits
<1>4. ASSUME NEW u \in Requests, RequestCommit(u), row' # row PROVE RowMove(a)
  <2>1. row' = [row EXCEPT ![request[u].act] = Decided(row[request[u].act], request[u])]
    BY <1>4 DEF RequestCommit, tables
  <2>2. row'[a] = row[a] \/ (request[u].act = a /\ row'[a] = Decided(row[a], request[u]))
    BY <2>1, <1>0
  <2>3. \/ row'[a] = row[a]
        \/ /\ request[u].act = a /\ Waiting(a)
           /\ row'[a].status \in {"FAILED", "READY"}
           /\ row'[a].params = IF request[u].kind = "modify" THEN request[u].params ELSE row[a].params
    BY <2>2, <1>0 DEF Decided, Waiting, Row
  <2> QED BY <1>4, <2>3 DEF RowMove, Edits, Waiting
<1>5. ASSUME NEW b \in Actions, WorkerNext(b) \/ WorkerFaults(b) PROVE RowMove(a)
  BY <1>5, WorkerMoves DEF RowMove, Waiting
<1>6. \/ row' = row
      \/ \E s \in Schedulers : TickStart(s) \/ (TickCommit(s) /\ ~Clash(s))
      \/ \E u \in Requests : RequestCommit(u)
      \/ \E b \in Actions : WorkerNext(b) \/ WorkerFaults(b)
  BY DEF Next, vars, TickNext, TickJudge, TickCommit, TickAborts, Restart, RequestRead, FallsDue, Reload, tables
<1> QED BY <1>1, <1>2, <1>3, <1>4, <1>5, <1>6

(* A refused, denied, expired or failed action never comes back (gate.py    *)
(* and approvals.py write every status by CAS).                             *)
THEOREM RefusalsAreFinal == Spec => FailedIsFinal
<1>1. TypeOK /\ [Next]_vars => [\A a \in Actions : row[a].status = "FAILED" => row'[a] = row[a]]_vars
  BY RowMoves DEF RowMove
<1> QED BY <1>1, GateTypeCorrect, PTL DEF Spec, FailedIsFinal

-----------------------------------------------------------------------------
(* The ceiling: the row and every edit under way respect it.                *)

CeilingInv ==
    /\ TypeOK
    /\ \A a \in Actions : LevelOf[row[a].params] <= Ceiling
    /\ \A u \in Requests : request[u].pc = "deciding" /\ request[u].kind = "modify"
            => LevelOf[request[u].params] <= Ceiling

LEMMA CeilingInit == Init => CeilingInv
BY TypeInit, GateAssumption DEF Init, CeilingInv, IdleRequest

LEMMA CeilingNext == CeilingInv /\ [Next]_vars => CeilingInv'
<1> SUFFICES ASSUME CeilingInv, [Next]_vars PROVE CeilingInv'
  OBVIOUS
<1>0. TypeOK
  BY DEF CeilingInv
<1>1. TypeOK'
  BY <1>0, TypeNext
<1>2. \A a \in Actions : LevelOf[row'[a].params] <= Ceiling
  <2> TAKE a \in Actions
  <2>1. \/ row'[a].params = row[a].params
        \/ \E u \in Requests : /\ request[u].pc = "deciding" /\ request[u].kind = "modify"
                               /\ row'[a].params = request[u].params
    <3>1. RowMove(a)
      BY <1>0, RowMoves
    <3>2. ASSUME NEW u \in Requests, Edits(u, a)
          PROVE  request[u].pc = "deciding" /\ request[u].kind = "modify"
      BY <3>2 DEF Edits, RequestCommit
    <3> QED BY <3>1, <3>2 DEF RowMove
  <2> QED BY <2>1 DEF CeilingInv
<1>3. \A u \in Requests : request'[u].pc = "deciding" /\ request'[u].kind = "modify"
            => LevelOf[request'[u].params] <= Ceiling
  <2>0. request \in [Requests -> Request]
    BY <1>0, RequestType
  <2>1. CASE request' = request
    BY <2>1 DEF CeilingInv
  <2>2. ASSUME NEW w \in Requests, RequestRead(w)
        PROVE  \A u \in Requests : request'[u].pc = "deciding" /\ request'[u].kind = "modify"
                    => LevelOf[request'[u].params] <= Ceiling
    <3>1. PICK a \in Actions : \E n \in Asked(a) : \E k \in {"approve", "modify", "reject"} : \E v \in Params :
            /\ k = "modify" => Editable(v)
            /\ request' = [request EXCEPT ![w] =
                             [pc |-> "deciding", kind |-> k, act |-> a, n |-> n, params |-> v]]
      BY <2>2 DEF RequestRead
    <3>2. PICK n \in Asked(a), k \in {"approve", "modify", "reject"}, v \in Params :
            /\ k = "modify" => Editable(v)
            /\ request' = [request EXCEPT ![w] =
                             [pc |-> "deciding", kind |-> k, act |-> a, n |-> n, params |-> v]]
      BY <3>1
    <3> QED BY <3>2, <2>0 DEF CeilingInv, Editable
  <2>3. ASSUME NEW w \in Requests, RequestCommit(w)
        PROVE  \A u \in Requests : request'[u].pc = "deciding" /\ request'[u].kind = "modify"
                    => LevelOf[request'[u].params] <= Ceiling
    BY <2>3, <2>0 DEF RequestCommit, IdleRequest, CeilingInv
  <2>4. request' = request \/ \E w \in Requests : RequestRead(w) \/ RequestCommit(w)
    BY WorkerFrame DEF Next, vars, TickNext, TickStart, TickJudge, TickCommit, TickAborts, Restart, consent, FallsDue, Reload
  <2> QED BY <2>1, <2>2, <2>3, <2>4
<1> QED BY <1>1, <1>2, <1>3 DEF CeilingInv

(* No interleaving of edits, sweeps and claims executes an invocation above *)
(* the task's ceiling: installation and _rewrite check it, and the row's    *)
(* parameters change in no other way.                                       *)
THEOREM CeilingRespected == Spec => []CeilingHolds
<1>1. CeilingInv => CeilingHolds
  BY DEF CeilingInv, CeilingHolds
<1> QED BY <1>1, CeilingInit, CeilingNext, PTL DEF Spec

-----------------------------------------------------------------------------
(* How the approvals of an action move in a step that is no commit of a     *)
(* tick: none is added, spent or reopened, and only an edit changes one's   *)
(* parameters.                                                              *)
Quiet(a, n) ==
    LET p == approval[a][n]
        q == approval'[a][n]
    IN /\ q.consumed <=> p.consumed
       /\ q.level = p.level
       /\ q.status = "PENDING" => p.status = "PENDING"
       /\ q.params # p.params => \E u \in Requests : Edits(u, a)

LEMMA AnsweredMoves ==
    ASSUME TypeOK, NEW u \in Requests, RequestCommit(u), ~GivesUp(u), NEW a \in Actions
    PROVE  /\ Len(approval'[a]) = Len(approval[a])
           /\ \A n \in Asked(a) : Quiet(a, n)
<1> DEFINE q == request[u]
<1>0. q \in Request /\ approval \in [Actions -> Seq(Approval)] /\ approval[a] \in Seq(Approval)
  BY RequestType, ApprovalType
<1>1. approval' = [approval EXCEPT ![q.act] = [approval[q.act] EXCEPT ![q.n] = Answered(approval[q.act][q.n], q)]]
  BY <1>0 DEF RequestCommit, Request
<1>2. \/ approval'[a] = approval[a]
      \/ /\ q.act = a
         /\ approval'[a] = [approval[a] EXCEPT ![q.n] = Answered(approval[a][q.n], q)]
  BY <1>0, <1>1
<1>3. \A n \in Asked(a) : approval[a][n] \in Approval
  BY <1>0 DEF Asked
<1>4. \A n \in Asked(a) :
        \/ approval'[a][n] = approval[a][n]
        \/ q.act = a /\ approval'[a][n] = Answered(approval[a][n], q)
  BY <1>0, <1>2 DEF Asked
<1>5. Len(approval'[a]) = Len(approval[a])
  BY <1>0, <1>2
<1>6. \A n \in Asked(a) : Quiet(a, n)
  <2> TAKE n \in Asked(a)
  <2>1. CASE approval'[a][n] = approval[a][n]
    BY <2>1 DEF Quiet
  <2>2. CASE q.act = a /\ approval'[a][n] = Answered(approval[a][n], q)
    <3>1. /\ approval'[a][n].consumed = approval[a][n].consumed
          /\ approval'[a][n].level = approval[a][n].level
          /\ approval'[a][n].status = Decision(q.kind)
          /\ approval'[a][n].params # approval[a][n].params => q.kind = "modify"
      BY <1>3, <2>2 DEF Answered, Approval
    <3>2. Decision(q.kind) # "PENDING"
      BY DEF Decision
    <3>3. q.kind = "modify" => Edits(u, a)
      BY <2>2 DEF Edits, GivesUp
    <3> QED BY <3>1, <3>2, <3>3 DEF Quiet
  <2> QED BY <1>4, <2>1, <2>2
<1> QED BY <1>5, <1>6

LEMMA QuietMoves ==
    ASSUME TypeOK, [Next]_vars, ~\E s \in Schedulers : Commits(s), NEW a \in Actions
    PROVE  /\ Len(approval'[a]) = Len(approval[a])
           /\ \A n \in Asked(a) : Quiet(a, n)
<1>0. approval \in [Actions -> Seq(Approval)] /\ approval[a] \in Seq(Approval)
  BY ApprovalType
<1>1. CASE approval' = approval
  BY <1>1 DEF Quiet
<1>2. ASSUME NEW b \in Actions, FallsDue(b)
      PROVE  /\ Len(approval'[a]) = Len(approval[a])
             /\ \A n \in Asked(a) : Quiet(a, n)
  <2>1. PICK m \in Asked(b) : approval' = [approval EXCEPT ![b][m].due = TRUE]
    BY <1>2 DEF FallsDue
  <2>2. \/ approval'[a] = approval[a]
        \/ a = b /\ approval'[a] = [approval[a] EXCEPT ![m] = [approval[a][m] EXCEPT !.due = TRUE]]
    BY <1>0, <2>1
  <2>3. \A n \in Asked(a) : approval[a][n] \in Approval
    BY <1>0 DEF Asked
  <2>4. \A n \in Asked(a) : \/ approval'[a][n] = approval[a][n]
                           \/ approval'[a][n] = [approval[a][n] EXCEPT !.due = TRUE]
    <3> TAKE n \in Asked(a)
    <3>1. PICK f : f = approval[a]
      OBVIOUS
    <3>2. PICK e : e = [approval[a][m] EXCEPT !.due = TRUE]
      OBVIOUS
    <3>3. approval'[a] = f \/ approval'[a] = [f EXCEPT ![m] = e]
      BY <2>2, <3>1, <3>2
    <3>4. approval'[a][n] = f[n] \/ (n = m /\ approval'[a][n] = e)
      BY <1>0, <3>1, <3>3 DEF Asked
    <3> QED BY <3>1, <3>2, <3>4
  <2>5. \A n \in Asked(a) : Quiet(a, n)
    BY <2>3, <2>4 DEF Quiet, Approval
  <2> QED BY <1>0, <2>2, <2>5
<1>3. ASSUME NEW u \in Requests, RequestCommit(u), approval' # approval
      PROVE  /\ Len(approval'[a]) = Len(approval[a])
             /\ \A n \in Asked(a) : Quiet(a, n)
  <2>1. ~GivesUp(u)
    BY <1>3 DEF RequestCommit, tables
  <2> QED BY <1>3, <2>1, AnsweredMoves
<1>4. \/ approval' = approval
      \/ \E b \in Actions : FallsDue(b)
      \/ \E u \in Requests : RequestCommit(u)
  BY WorkerFrame DEF Commits, Next, vars, TickNext, TickStart, TickJudge, TickCommit, TickAborts, Restart, RequestRead,
         consent, Reload, tables
<1> QED BY <1>1, <1>2, <1>3, <1>4

(* A commit: what the sweep held is expired, what the gate rested on is     *)
(* spent, and a question may be added.                                      *)
LEMMA CommitMoves ==
    ASSUME TypeOK, NEW s \in Schedulers, Commits(s), NEW a \in Actions
    PROVE  LET j == sched[s].judged IN
           /\ \A n \in Asked(a) :
                LET p == approval[a][n]
                    q == approval'[a][n]
                IN /\ q.params = p.params /\ q.level = p.level
                   /\ q.status = IF <<a, n>> \in sched[s].due THEN "EXPIRED" ELSE p.status
                   /\ q.consumed <=> p.consumed \/ (j[a].do = "consume" /\ j[a].n = n)
           /\ Asked(a) \subseteq Asked(a)'
           /\ \A n \in Asked(a)' \ Asked(a) :
                n = Len(approval[a]) + 1 /\ a \in New(j) /\ approval'[a][n].consumed = FALSE
<1> DEFINE j == sched[s].judged
           M == Marked(a, sched[s].due, j[a])
           N == NewApproval(j[a].params)
<1>1. /\ M \in Seq(Approval) /\ Len(M) = Len(approval[a])
      /\ approval'[a] = IF a \in New(j) THEN Append(M, N) ELSE M
      /\ N \in Approval
  BY CommittedApprovals DEF Commits
<1>2. N.consumed = FALSE
  BY DEF NewApproval
<1>3. approval[a] \in Seq(Approval) /\ Len(approval[a]) \in Nat
  BY ApprovalType
<1>4. \A n \in Asked(a) : approval[a][n] \in Approval
  BY <1>3 DEF Asked
<1>5. \A n \in Asked(a) : M[n] = [approval[a][n] EXCEPT
                                    !.status = IF <<a, n>> \in sched[s].due THEN "EXPIRED" ELSE @,
                                    !.consumed = @ \/ (j[a].do = "consume" /\ j[a].n = n)]
  BY DEF Marked
<1>6. \A n \in Asked(a) :
        /\ M[n].params = approval[a][n].params /\ M[n].level = approval[a][n].level
        /\ M[n].status = IF <<a, n>> \in sched[s].due THEN "EXPIRED" ELSE approval[a][n].status
        /\ M[n].consumed <=> approval[a][n].consumed \/ (j[a].do = "consume" /\ j[a].n = n)
  <2> TAKE n \in Asked(a)
  <2> DEFINE spent == j[a].do = "consume" /\ j[a].n = n
             late == <<a, n>> \in sched[s].due
  <2>1. PICK p \in Approval : p = approval[a][n]
    BY <1>4
  <2>2. M[n] = [p EXCEPT !.status = IF late THEN "EXPIRED" ELSE @, !.consumed = @ \/ spent]
    BY <1>5, <2>1
  <2>3. spent \in BOOLEAN /\ late \in BOOLEAN
    OBVIOUS
  <2> HIDE DEF spent, late, M
  <2>4. /\ M[n].params = p.params /\ M[n].level = p.level
        /\ M[n].status = IF late THEN "EXPIRED" ELSE p.status
        /\ M[n].consumed <=> p.consumed \/ spent
    BY <2>1, <2>2, <2>3 DEF Approval
  <2> QED BY <2>1, <2>4 DEF spent, late
<1> HIDE DEF M, N, j
<1>7. /\ Len(Append(M, N)) = Len(M) + 1
      /\ \A n \in 1..Len(M) : Append(M, N)[n] = M[n]
      /\ Append(M, N)[Len(M) + 1] = N
  BY <1>1, AppendProperties
<1>8. \A n \in Asked(a) : approval'[a][n] = M[n]
  BY <1>1, <1>7 DEF Asked
<1>9. Asked(a) \subseteq Asked(a)'
  <2>1. Len(approval'[a]) = Len(approval[a]) \/ Len(approval'[a]) = Len(approval[a]) + 1
    BY <1>1, <1>7
  <2> QED BY <2>1, <1>3 DEF Asked
<1>10. \A n \in Asked(a)' \ Asked(a) :
          n = Len(approval[a]) + 1 /\ a \in New(j) /\ approval'[a][n].consumed = FALSE
  <2>1. CASE a \in New(j)
    <3>1. approval'[a] = Append(M, N) /\ Len(approval'[a]) = Len(approval[a]) + 1
      BY <2>1, <1>1, <1>7
    <3>2. \A n \in Asked(a)' \ Asked(a) : n = Len(approval[a]) + 1
      BY <3>1, <1>3 DEF Asked
    <3> QED BY <2>1, <3>1, <3>2, <1>1, <1>2, <1>7
  <2>2. CASE a \notin New(j)
    BY <2>2, <1>1 DEF Asked
  <2> QED BY <2>1, <2>2
<1> QED BY <1>6, <1>8, <1>9, <1>10 DEF j

-----------------------------------------------------------------------------
(* One question at a time.                                                  *)

QuestionInv == TypeOK /\ OneOpenQuestion

LEMMA QuestionNext == QuestionInv /\ [Next]_vars => QuestionInv'
<1> SUFFICES ASSUME QuestionInv, [Next]_vars PROVE QuestionInv'
  OBVIOUS
<1>0. TypeOK
  BY DEF QuestionInv
<1>1. TypeOK'
  BY <1>0, TypeNext
<1>2. ASSUME NEW a \in Actions, NEW m \in Asked(a)', NEW n \in Asked(a)',
             approval'[a][m].status = "PENDING", approval'[a][n].status = "PENDING"
      PROVE  m = n
  <2>1. CASE ~\E s \in Schedulers : Commits(s)
    <3>1. /\ Asked(a)' = Asked(a)
          /\ \A k \in Asked(a) : Quiet(a, k)
      BY <1>0, <2>1, QuietMoves DEF Asked
    <3>2. approval[a][m].status = "PENDING" /\ approval[a][n].status = "PENDING"
      BY <3>1, <1>2 DEF Quiet
    <3> QED BY <3>1, <3>2, <1>2 DEF QuestionInv, OneOpenQuestion
  <2>2. ASSUME NEW s \in Schedulers, Commits(s) PROVE m = n
    <3>1. \A k \in Asked(a) : approval'[a][k].status = "PENDING"
                => approval[a][k].status = "PENDING" /\ <<a, k>> \notin sched[s].due
      BY <1>0, <2>2, CommitMoves
    <3>2. \A k \in Asked(a)' \ Asked(a) : k = Len(approval[a]) + 1 /\ a \in New(sched[s].judged)
      BY <1>0, <2>2, CommitMoves
    <3>3. a \in New(sched[s].judged) =>
            \A k \in Asked(a) : ~(approval[a][k].status = "PENDING" /\ <<a, k>> \notin sched[s].due)
      BY <2>2 DEF Commits, Clash, Pending
    <3>4. CASE m \in Asked(a) /\ n \in Asked(a)
      BY <3>4, <3>1, <1>2 DEF QuestionInv, OneOpenQuestion
    <3>5. CASE m \notin Asked(a) /\ n \notin Asked(a)
      BY <3>5, <3>2
    <3>6. ASSUME NEW k \in Asked(a)' \ Asked(a), NEW i \in Asked(a), approval'[a][i].status = "PENDING"
          PROVE  FALSE
      <4>1. a \in New(sched[s].judged)
        BY <3>2
      <4> QED BY <3>1, <3>3, <3>6, <4>1
    <3> QED BY <3>4, <3>5, <3>6, <1>2
  <2> QED BY <2>1, <2>2
<1> QED BY <1>1, <1>2 DEF QuestionInv, OneOpenQuestion

(* However many schedulers tick at once, an action has at most one open     *)
(* approval: the partial unique index turns the second into a rollback.     *)
THEOREM OneQuestion == Spec => []OneOpenQuestion
<1>1. Init => QuestionInv
  BY TypeInit DEF Init, QuestionInv, OneOpenQuestion, Asked
<1>2. QuestionInv => OneOpenQuestion
  BY DEF QuestionInv
<1> QED BY <1>1, <1>2, QuestionNext, PTL DEF Spec

-----------------------------------------------------------------------------
(* Dispatch, under one scheduler.  Between its judgement and its commit     *)
(* nothing can make the row wait, so nothing can edit it or the approval    *)
(* the judgement rests on, and only the commit itself spends approvals.     *)

SoleScheduler == \A s, t \in Schedulers : s = t

Names(a, n, v) ==
    n \in Asked(a) /\ approval[a][n].params = v /\ approval[a][n].level >= LevelOf[v]

JudgedSoundly(s, a) ==
    LET j == sched[s].judged[a] IN
    sched[s].pc = "commit" /\ j.do \in {"allow", "consume"} =>
        /\ ~Waiting(a) /\ j.params = row[a].params
        /\ j.do = "consume" => Names(a, j.n, j.params) /\ ~approval[a][j.n].consumed

PermitSound(a) ==
    row[a].status = "DISPATCHED" =>
        /\ permit[a].by # "none" /\ permit[a].params = row[a].params
        /\ permit[a].by = "approval" =>
                Names(a, permit[a].n, row[a].params) /\ approval[a][permit[a].n].consumed

DispatchInv ==
    /\ TypeOK
    /\ \A s \in Schedulers, a \in Actions : JudgedSoundly(s, a)
    /\ \A a \in Actions : PermitSound(a)

(* What the gate consumes names the row's parameters and is unspent.        *)
LEMMA CheckSound ==
    ASSUME TypeOK, NEW a \in Actions, NEW due, Check(a, due).do = "consume"
    PROVE  LET n == Check(a, due).n IN
           Names(a, n, row[a].params) /\ ~approval[a][n].consumed
<1> DEFINE usable == {n \in Asked(a) : Usable(approval[a][n], row[a].params)}
<1>1. Len(approval[a]) \in Nat
  BY ApprovalType
<1>2. Consent(a, due).do = "consume" => usable # {} /\ Consent(a, due).n = Latest(usable)
  BY DEF Consent
<1>3. usable # {} => Latest(usable) \in usable
  <2>1. usable \subseteq 1..Len(approval[a])
    BY DEF Asked
  <2> HIDE DEF usable
  <2> QED BY <1>1, <2>1, LatestIsOne
<1>4. Check(a, due) = Consent(a, due)
  BY DEF Check
<1>5. Check(a, due).n \in usable
  BY <1>2, <1>3, <1>4
<1> QED BY <1>5 DEF Usable, Names

(* A step that is no commit leaves what a judgement or a permit rests on.   *)
LEMMA NamesStay ==
    ASSUME TypeOK, [Next]_vars, ~\E s \in Schedulers : Commits(s), NEW a \in Actions, ~Waiting(a),
           NEW n, NEW v, Names(a, n, v)
    PROVE  Names(a, n, v)' /\ (approval'[a][n].consumed <=> approval[a][n].consumed)
<1>1. Asked(a)' = Asked(a) /\ Quiet(a, n)
  BY QuietMoves DEF Asked, Names
<1>2. approval'[a][n].params = approval[a][n].params
  BY <1>1 DEF Quiet, Edits
<1> QED BY <1>1, <1>2 DEF Quiet, Names

(* A tick judges, or is not between its judgement and its commit, or it is  *)
(* and nothing is committed.                                                *)
LEMMA TickMoves ==
    ASSUME SoleScheduler, TypeOK, [Next]_vars, NEW s \in Schedulers
    PROVE  \/ TickJudge(s)
           \/ sched'[s].pc # "commit"
           \/ sched'[s] = sched[s] /\ ~\E t \in Schedulers : Commits(t)
<1>0. sched \in [Schedulers -> Tick]
  BY SchedType
<1>1. ASSUME NEW t \in Schedulers, Commits(t) PROVE sched'[s].pc # "commit"
  BY <1>1, <1>0 DEF SoleScheduler, Commits, TickCommit, Resting
<1>2. ASSUME NEW t \in Schedulers, TickStart(t) \/ TickCommit(t) \/ TickAborts(t) \/ Restart(t)
        PROVE  sched'[s].pc # "commit"
  <2>1. s = t
    BY DEF SoleScheduler
  <2>2. CASE TickStart(t)
    BY <2>1, <2>2, <1>0 DEF TickStart, Tick
  <2>3. CASE TickCommit(t) \/ TickAborts(t) \/ Restart(t)
    <3>1. sched' = [sched EXCEPT ![t] = Resting]
      BY <2>3 DEF TickCommit, TickAborts, Restart
    <3> QED BY <2>1, <3>1, <1>0 DEF Resting
  <2> QED BY <1>2, <2>2, <2>3
<1>3. ASSUME NEW t \in Schedulers, TickJudge(t) PROVE TickJudge(s)
  BY <1>3 DEF SoleScheduler
<1>4. \/ sched' = sched
        \/ \E t \in Schedulers : TickJudge(t) \/ TickStart(t) \/ TickCommit(t) \/ TickAborts(t) \/ Restart(t)
  BY WorkerFrame DEF Next, vars, TickNext, RequestRead, RequestCommit, consent, FallsDue, Reload
<1> QED BY <1>1, <1>2, <1>3, <1>4

LEMMA JudgedNext ==
    ASSUME SoleScheduler, DispatchInv, [Next]_vars, NEW s \in Schedulers, NEW a \in Actions
    PROVE  JudgedSoundly(s, a)'
<1>0. TypeOK /\ sched \in [Schedulers -> Tick]
  BY SchedType DEF DispatchInv
<1>1. CASE TickJudge(s)
  <2>1. PICK S \in SUBSET {b \in Actions : row[b].status = "READY"} :
          sched' = [sched EXCEPT ![s].pc = "commit",
                      ![s].judged = [b \in Actions |->
                          IF Unanswered(b, sched[s].due) THEN [Undecided[b] EXCEPT !.do = "expire"]
                          ELSE IF b \in S THEN Check(b, sched[s].due) ELSE Undecided[b]]]
    BY <1>1 DEF TickJudge
  <2>2. sched'[s].judged[a] = IF Unanswered(a, sched[s].due) THEN [Undecided[a] EXCEPT !.do = "expire"]
                              ELSE IF a \in S THEN Check(a, sched[s].due) ELSE Undecided[a]
    BY <1>0, <2>1 DEF Tick
  <2>3. Undecided[a].do = "none" /\ [Undecided[a] EXCEPT !.do = "expire"].do = "expire"
    BY DEF Undecided
  <2>4. sched'[s].judged[a].do \in {"allow", "consume"} =>
            a \in S /\ sched'[s].judged[a] = Check(a, sched[s].due)
    BY <2>2, <2>3
  <2>5. row' = row /\ approval' = approval
    BY <1>1 DEF TickJudge, tables
  <2>6. a \in S => ~Waiting(a)
    BY DEF Waiting
  <2>7. Check(a, sched[s].due).params = row[a].params
    BY <1>0, CheckType
  <2>8. Check(a, sched[s].due).do = "consume" =>
            /\ Names(a, Check(a, sched[s].due).n, row[a].params)
            /\ ~approval[a][Check(a, sched[s].due).n].consumed
    BY <1>0, CheckSound
  <2> HIDE DEF Waiting
  <2> QED BY <2>4, <2>5, <2>6, <2>7, <2>8 DEF JudgedSoundly, Names, Asked, Waiting
<1>2. CASE sched'[s] = sched[s] /\ ~\E t \in Schedulers : Commits(t)
  <2> DEFINE j == sched[s].judged[a]
  <2>1. SUFFICES ASSUME sched[s].pc = "commit", j.do \in {"allow", "consume"}
                 PROVE  /\ ~Waiting(a)' /\ j.params = row'[a].params
                        /\ j.do = "consume" => Names(a, j.n, j.params)' /\ ~approval'[a][j.n].consumed
    BY <1>2 DEF JudgedSoundly
  <2>2. /\ ~Waiting(a) /\ j.params = row[a].params
        /\ j.do = "consume" => Names(a, j.n, j.params) /\ ~approval[a][j.n].consumed
    BY <2>1 DEF DispatchInv, JudgedSoundly
  <2>3. RowMove(a)
    BY <1>0, RowMoves
  <2>4. ~Waiting(a)' /\ row'[a].params = row[a].params
    BY <1>2, <2>2, <2>3 DEF RowMove, Edits, Waiting
  <2> QED BY <1>0, <1>2, <2>2, <2>4, NamesStay
<1>3. CASE sched'[s].pc # "commit"
  BY <1>3 DEF JudgedSoundly
<1>4. TickJudge(s) \/ sched'[s].pc # "commit" \/ (sched'[s] = sched[s] /\ ~\E t \in Schedulers : Commits(t))
  BY <1>0, TickMoves
<1> QED BY <1>1, <1>2, <1>3, <1>4

LEMMA PermitNext ==
    ASSUME SoleScheduler, DispatchInv, [Next]_vars, NEW a \in Actions
    PROVE  PermitSound(a)'
<1>0. TypeOK /\ permit \in [Actions -> Permit] /\ RowMove(a)
  BY PermitType, RowMoves DEF DispatchInv
<1> SUFFICES ASSUME row'[a].status = "DISPATCHED" PROVE PermitSound(a)'
  BY DEF PermitSound
<1>1. CASE ~\E s \in Schedulers : Commits(s)
  <2>1. row[a].status = "DISPATCHED" /\ ~Waiting(a) /\ row'[a].params = row[a].params
    BY <1>0, <1>1 DEF RowMove, Edits, Waiting
  <2>2. permit' = permit
    BY <1>1, WorkerFrame DEF Commits, Next, vars, TickNext, TickStart, TickJudge, TickCommit, TickAborts,
                Restart, RequestRead, RequestCommit, consent, FallsDue, Reload
  <2>3. PermitSound(a)
    BY DEF DispatchInv
  <2> QED BY <1>0, <1>1, <2>1, <2>2, <2>3, NamesStay DEF PermitSound
<1>2. ASSUME NEW s \in Schedulers, Commits(s) PROVE PermitSound(a)'
  <2> DEFINE j == sched[s].judged
  <2>1. row'[a].params = row[a].params
    <3>1. row'[a] = Moved(row[a], j[a].do) /\ row[a] \in Row
      BY <1>0, <1>2, RowType DEF Commits, TickCommit
    <3> QED BY <3>1 DEF Moved, Row
  <2>2. \A n, v : Names(a, n, v) => Names(a, n, v)'
    BY <1>0, <1>2, CommitMoves DEF Names
  <2>3. \A n \in Asked(a) :
            /\ approval[a][n].consumed => approval'[a][n].consumed
            /\ j[a].do = "consume" /\ j[a].n = n => approval'[a][n].consumed
    BY <1>0, <1>2, CommitMoves
  <2>4. permit'[a] = IF a \in Dispatching(j)
                     THEN [by |-> IF j[a].do = "allow" THEN "policy" ELSE "approval",
                           n |-> j[a].n, params |-> j[a].params]
                     ELSE permit[a]
    BY <1>2 DEF Commits, TickCommit
  <2>5. CASE a \in Dispatching(j)
    <3>1. sched[s].pc = "commit" /\ JudgedSoundly(s, a) /\ j[a].do \in {"allow", "consume"}
      BY <1>2, <2>5 DEF DispatchInv, Dispatching, Commits, TickCommit
    <3>2. /\ j[a].params = row[a].params
          /\ j[a].do = "consume" => Names(a, j[a].n, j[a].params)
      BY <3>1 DEF JudgedSoundly
    <3>3. permit'[a].by = "approval" => j[a].do = "consume" /\ permit'[a].n = j[a].n
      BY <2>4, <2>5, <3>1
    <3>4. permit'[a].by # "none" /\ permit'[a].params = j[a].params
      BY <2>4, <2>5
    <3> HIDE DEF j
    <3> QED BY <2>1, <2>2, <2>3, <3>2, <3>3, <3>4 DEF PermitSound, Names
  <2>6. CASE a \notin Dispatching(j)
    <3>1. row[a].status = "DISPATCHED"
      <4>1. row[a] \in Row /\ row'[a] = Moved(row[a], j[a].do)
        BY <1>0, <1>2, RowType DEF Commits, TickCommit
      <4> QED BY <4>1, <2>6 DEF Moved, Dispatching, Row
    <3>2. PermitSound(a) /\ permit'[a] = permit[a]
      BY <2>4, <2>6 DEF DispatchInv
    <3> HIDE DEF j
    <3> QED BY <2>1, <2>2, <2>3, <3>1, <3>2 DEF PermitSound, Names
  <2> QED BY <2>5, <2>6
<1> QED BY <1>1, <1>2

LEMMA DispatchInit == Init => DispatchInv
BY TypeInit DEF Init, DispatchInv, JudgedSoundly, PermitSound, Resting

LEMMA DispatchInvAlways ==
    ASSUME SoleScheduler PROVE Spec => []DispatchInv
<1>1. DispatchInv /\ [Next]_vars => DispatchInv'
  BY JudgedNext, PermitNext, TypeNext DEF DispatchInv
<1> QED BY <1>1, DispatchInit, PTL DEF Spec

(* Under one leading scheduler, what waits to be executed is what was       *)
(* judged, and its consent is spent, names its parameters and reaches       *)
(* their level.                                                             *)
THEOREM DispatchIsCovered ==
    ASSUME SoleScheduler PROVE Spec => []DispatchCovered
<1>1. DispatchInv => DispatchCovered
  BY DEF DispatchInv, PermitSound, Names, DispatchCovered
<1> QED BY <1>1, DispatchInvAlways, PTL

(* Under one leading scheduler each dispatch that needs consent spends an   *)
(* approval no dispatch had spent.                                          *)
THEOREM DispatchesSpend ==
    ASSUME SoleScheduler PROVE Spec => EachDispatchSpends
<1>1. ASSUME DispatchInv, [Next]_vars, NEW a \in Actions
      PROVE  /\ \A n \in Asked(a) : approval[a][n].consumed => approval'[a][n].consumed
             /\ row[a].status = "READY" /\ row'[a].status = "DISPATCHED" /\ permit'[a].by = "approval"
                  => ~approval[a][permit'[a].n].consumed /\ approval'[a][permit'[a].n].consumed
  <2>0. TypeOK /\ RowMove(a)
    BY <1>1, RowMoves DEF DispatchInv
  <2>1. CASE ~\E s \in Schedulers : Commits(s)
    <3>1. \A n \in Asked(a) : Quiet(a, n)
      BY <1>1, <2>0, <2>1, QuietMoves
    <3> QED BY <2>0, <2>1, <3>1 DEF RowMove, Quiet
  <2>2. ASSUME NEW s \in Schedulers, Commits(s)
        PROVE  /\ \A n \in Asked(a) : approval[a][n].consumed => approval'[a][n].consumed
               /\ row[a].status = "READY" /\ row'[a].status = "DISPATCHED" /\ permit'[a].by = "approval"
                    => ~approval[a][permit'[a].n].consumed /\ approval'[a][permit'[a].n].consumed
    <3> DEFINE j == sched[s].judged
    <3>1. \A n \in Asked(a) :
              /\ approval[a][n].consumed => approval'[a][n].consumed
              /\ j[a].do = "consume" /\ j[a].n = n => approval'[a][n].consumed
      BY <2>0, <2>2, CommitMoves
    <3>2. CASE row[a].status = "READY" /\ row'[a].status = "DISPATCHED" /\ permit'[a].by = "approval"
      <4>1. row'[a] = Moved(row[a], j[a].do) /\ row[a] \in Row
        BY <2>0, <2>2, RowType DEF Commits, TickCommit
      <4>2. a \in Dispatching(j) /\ j[a].do \in {"allow", "consume"}
        BY <3>2, <4>1 DEF Moved, Dispatching, Row
      <4>3. permit'[a] = [by |-> IF j[a].do = "allow" THEN "policy" ELSE "approval",
                          n |-> j[a].n, params |-> j[a].params]
        BY <2>2, <4>2 DEF Commits, TickCommit
      <4>4. j[a].do = "consume" /\ permit'[a].n = j[a].n
        BY <3>2, <4>2, <4>3
      <4>5. Names(a, j[a].n, j[a].params) /\ ~approval[a][j[a].n].consumed
        BY <1>1, <2>2, <4>4 DEF DispatchInv, JudgedSoundly, Commits, TickCommit
      <4> HIDE DEF j
      <4> QED BY <3>1, <4>4, <4>5 DEF Names
    <3> HIDE DEF j
    <3> QED BY <3>1, <3>2
  <2> QED BY <2>1, <2>2
<1>2. DispatchInv /\ [Next]_vars =>
        [\A a \in Actions :
            /\ \A n \in Asked(a) : approval[a][n].consumed => approval'[a][n].consumed
            /\ row[a].status = "READY" /\ row'[a].status = "DISPATCHED" /\ permit'[a].by = "approval"
                 => ~approval[a][permit'[a].n].consumed /\ approval'[a][permit'[a].n].consumed]_vars
  BY <1>1
<1> QED BY <1>2, DispatchInvAlways, PTL DEF Spec, EachDispatchSpends

(* Under one leading scheduler everything that reaches a worker was judged, *)
(* consented to and within the ceiling.                                     *)
THEOREM ConsentIsSound ==
    ASSUME SoleScheduler PROVE Spec => []ConsentSound
<1>1. TypeOK /\ DispatchCovered /\ CeilingHolds => ConsentSound
  BY DEF ConsentSound
<1> QED BY <1>1, GateTypeCorrect, DispatchIsCovered, CeilingRespected, PTL

-----------------------------------------------------------------------------
(* Waiting, under one scheduler and any number of handlers.  (Two handlers  *)
(* may read one open approval; the one that commits late answers the next   *)
(* question, or none, and its action may then wait without one.  redecided  *)
(* names the actions this has happened to.)                                 *)

(* Until a decision is written over another, a decision under way is about  *)
(* the open question of an action that waits, or about one that another     *)
(* handler has granted meanwhile, or the action has failed.                 *)
Granted(a, n) == approval[a][n].status \in Positive

Awaits(u) ==
    LET a == request[u].act
        n == request[u].n
    IN request[u].pc = "deciding" =>
        \/ a \in redecided \/ row[a].status = "FAILED" \/ Granted(a, n)
        \/ Waiting(a) /\ Pending(approval[a][n])

(* A tick that does not fail a waiting action expires none of its approvals.*)
SparesOpen(s, a) ==
    sched[s].pc = "commit" /\ Waiting(a) /\ sched[s].judged[a].do # "expire"
        => \A n \in Asked(a) : <<a, n>> \notin sched[s].due

(* A question a tick found open stays open until the tick commits.          *)
AsksOpen(s, a) ==
    LET j == sched[s].judged[a] IN
    sched[s].pc = "commit" /\ j.do = "ask" /\ j.n # 0 =>
        /\ ~Waiting(a) /\ j.n \in Asked(a) /\ <<a, j.n>> \notin sched[s].due
        /\ a \in redecided \/ row[a].status = "FAILED" \/ Pending(approval[a][j.n])

WaitingInv ==
    /\ QuestionInv
    /\ WaitingHasQuestion
    /\ \A u \in Requests : Awaits(u)
    /\ \A s \in Schedulers, a \in Actions : SparesOpen(s, a) /\ AsksOpen(s, a)

Answers(u, a) == RequestCommit(u) /\ ~GivesUp(u) /\ request[u].act = a

(* What has been decided twice stays so; an answer to a question that is    *)
(* not open decides it twice.                                               *)
LEMMA RedecidedGrows ==
    ASSUME [Next]_vars
    PROVE  /\ redecided \subseteq redecided'
           /\ \A u \in Requests, a \in Actions :
                Answers(u, a) => a \in redecided' \/ Pending(approval[a][request[u].n])
<1>1. \A u \in Requests, a \in Actions :
        Answers(u, a) => a \in redecided' \/ Pending(approval[a][request[u].n])
  BY DEF Answers, RequestCommit
<1>2. ASSUME NEW b \in Actions, WorkerNext(b) \/ WorkerFaults(b) PROVE redecided' = redecided
  BY <1>2, WorkerFrame DEF consent
<1>3. ASSUME NEW u \in Requests, RequestCommit(u) PROVE redecided \subseteq redecided'
  BY <1>3 DEF RequestCommit
<1>4. ASSUME NEW s \in Schedulers, TickCommit(s) PROVE redecided \subseteq redecided'
  BY <1>4 DEF TickCommit
<1>5. \/ redecided' = redecided
      \/ \E u \in Requests : RequestCommit(u)
      \/ \E s \in Schedulers : TickCommit(s)
  BY <1>2 DEF Next, vars, TickNext, TickStart, TickJudge, TickAborts, Restart, RequestRead, FallsDue, Reload
<1> QED BY <1>1, <1>3, <1>4, <1>5

(* Outside a commit an open question is closed by its answer alone.         *)
LEMMA OpenStays ==
    ASSUME TypeOK, [Next]_vars, ~\E s \in Schedulers : Commits(s), NEW a \in Actions,
           NEW n \in Asked(a), Pending(approval[a][n])
    PROVE  Pending(approval'[a][n]) \/ \E u \in Requests : Answers(u, a) /\ request[u].n = n
<1>0. approval \in [Actions -> Seq(Approval)] /\ approval[a] \in Seq(Approval)
  BY ApprovalType
<1>a. approval[a][n] \in Approval
  BY <1>0 DEF Asked
<1>1. CASE approval' = approval
  BY <1>1
<1>2. ASSUME NEW b \in Actions, FallsDue(b) PROVE Pending(approval'[a][n])
  <2>1. PICK m \in Asked(b) : approval' = [approval EXCEPT ![b][m].due = TRUE]
    BY <1>2 DEF FallsDue
  <2>2. PICK e : e = [approval[a][m] EXCEPT !.due = TRUE]
    OBVIOUS
  <2>3. approval'[a] = approval[a] \/ approval'[a] = [approval[a] EXCEPT ![m] = e]
    BY <1>0, <2>1, <2>2
  <2>4. approval'[a][n] = approval[a][n] \/ (n = m /\ approval'[a][n] = e)
    BY <1>0, <2>3 DEF Asked
  <2> QED BY <1>a, <2>2, <2>4 DEF Pending, Approval
<1>3. ASSUME NEW u \in Requests, RequestCommit(u), approval' # approval
      PROVE  Pending(approval'[a][n]) \/ (Answers(u, a) /\ request[u].n = n)
  <2> DEFINE q == request[u]
  <2>1. ~GivesUp(u) /\ q \in Request
    BY <1>3, RequestType DEF RequestCommit, tables
  <2>2. PICK e : e = Answered(approval[q.act][q.n], q)
    OBVIOUS
  <2>3. approval' = [approval EXCEPT ![q.act] = [approval[q.act] EXCEPT ![q.n] = e]]
    BY <1>3, <1>0, <2>1, <2>2 DEF RequestCommit, Request
  <2>4. CASE q.act = a /\ q.n = n
    BY <1>3, <2>1, <2>4 DEF Answers
  <2>5. CASE q.act # a
    BY <1>0, <2>3, <2>5
  <2>6. CASE q.act = a /\ q.n # n
    <3>1. approval'[a] = [approval[a] EXCEPT ![q.n] = e]
      BY <1>0, <2>3, <2>6
    <3>2. approval'[a][n] = approval[a][n]
      BY <1>0, <2>6, <3>1 DEF Asked
    <3> QED BY <3>2
  <2> QED BY <2>4, <2>5, <2>6
<1>4. \/ approval' = approval
      \/ \E b \in Actions : FallsDue(b)
      \/ \E u \in Requests : RequestCommit(u)
  BY WorkerFrame DEF Commits, Next, vars, TickNext, TickStart, TickJudge, TickCommit, TickAborts, Restart, RequestRead,
         consent, Reload, tables
<1> QED BY <1>1, <1>2, <1>3, <1>4

(* An action stops waiting as its question is answered or as it fails.      *)
LEMMA WaitingLeft ==
    ASSUME TypeOK, [Next]_vars, NEW a \in Actions, Waiting(a), ~Waiting(a)'
    PROVE  \/ \E u \in Requests : /\ Answers(u, a)
                                  /\ row'[a].status = "FAILED" <=> request[u].kind = "reject"
           \/ /\ row'[a].status = "FAILED"
              /\ \E s \in Schedulers : Commits(s) /\ sched[s].judged[a].do = "expire"
<1>0. row \in [Actions -> Row] /\ row[a] \in Row
  BY RowType
<1>1. ASSUME NEW s \in Schedulers, TickStart(s) PROVE FALSE
  BY <1>1 DEF TickStart, Abandoned, Waiting
<1>2. ASSUME NEW s \in Schedulers, TickCommit(s), ~Clash(s)
      PROVE  row'[a].status = "FAILED" /\ sched[s].judged[a].do = "expire"
  <2>1. row'[a] = Moved(row[a], sched[s].judged[a].do)
    BY <1>2 DEF TickCommit
  <2> QED BY <2>1, <1>0 DEF Moved, Row, Waiting
<1>3. ASSUME NEW u \in Requests, RequestCommit(u), row' # row
      PROVE  Answers(u, a) /\ (row'[a].status = "FAILED" <=> request[u].kind = "reject")
  <2>1. row' = [row EXCEPT ![request[u].act] = Decided(row[request[u].act], request[u])] /\ ~GivesUp(u)
    BY <1>3 DEF RequestCommit, tables
  <2>2. request[u].act = a /\ row'[a] = Decided(row[a], request[u])
    BY <2>1, <1>0 DEF Waiting
  <2> QED BY <1>0, <1>3, <2>1, <2>2 DEF Answers, Decided, Waiting, Row
<1>4. ASSUME NEW b \in Actions, WorkerNext(b) \/ WorkerFaults(b) PROVE FALSE
  BY <1>4, WorkerMoves DEF Waiting
<1>5. \/ row' = row
      \/ \E s \in Schedulers : TickStart(s) \/ (TickCommit(s) /\ ~Clash(s))
      \/ \E u \in Requests : RequestCommit(u)
      \/ \E b \in Actions : WorkerNext(b) \/ WorkerFaults(b)
  BY DEF Next, vars, TickNext, TickJudge, TickCommit, TickAborts, Restart, RequestRead, FallsDue, Reload, tables
<1> QED BY <1>1, <1>2, <1>3, <1>4, <1>5 DEF Commits, Waiting

(* A commit leaves the question of an action it does not fail open.         *)
LEMMA CommitSpares ==
    ASSUME WaitingInv, NEW s \in Schedulers, Commits(s), NEW a \in Actions, Waiting(a)
    PROVE  \/ row'[a].status = "FAILED"
           \/ /\ Waiting(a)'
              /\ \A n \in Asked(a) : n \in Asked(a)' /\ approval'[a][n].status = approval[a][n].status
<1>0. TypeOK /\ row[a] \in Row /\ row'[a] = Moved(row[a], sched[s].judged[a].do)
  BY RowType DEF WaitingInv, QuestionInv, Commits, TickCommit
<1>1. CASE sched[s].judged[a].do = "expire"
  BY <1>0, <1>1 DEF Moved, Waiting, Row
<1>2. CASE sched[s].judged[a].do # "expire"
  <2>1. row'[a] = row[a]
    BY <1>0, <1>2 DEF Moved, Waiting
  <2>2. \A n \in Asked(a) : <<a, n>> \notin sched[s].due
    BY <1>2 DEF WaitingInv, SparesOpen, Commits, TickCommit
  <2>3. \A n \in Asked(a) : n \in Asked(a)' /\ approval'[a][n].status = approval[a][n].status
    BY <1>0, <2>2, CommitMoves
  <2> QED BY <2>1, <2>3 DEF Waiting
<1> QED BY <1>1, <1>2

(* The gate asks the open question it found, which it does not expire.      *)
LEMMA CheckAsks ==
    ASSUME TypeOK, NEW a \in Actions, NEW due, Check(a, due).do = "ask", Check(a, due).n # 0
    PROVE  LET n == Check(a, due).n IN
           n \in Asked(a) /\ Pending(approval[a][n]) /\ <<a, n>> \notin due
<1> DEFINE usable == {n \in Asked(a) : Usable(approval[a][n], row[a].params)}
           pending == {n \in Asked(a) : Pending(approval[a][n]) /\ <<a, n>> \notin due}
<1>1. Len(approval[a]) \in Nat
  BY ApprovalType
<1>2. Check(a, due) = Consent(a, due)
  BY DEF Check
<1>a. Consent(a, due) = IF usable # {} THEN [do |-> "consume", n |-> Latest(usable), params |-> row[a].params]
                         ELSE IF pending # {} THEN [do |-> "ask", n |-> Latest(pending), params |-> row[a].params]
                         ELSE [do |-> "ask", n |-> 0, params |-> row[a].params]
  BY DEF Consent
<1>3. pending # {} /\ Consent(a, due).n = Latest(pending)
  <2> HIDE DEF pending, usable
  <2>1. Consent(a, due).do = "ask" /\ Consent(a, due).n # 0
    BY <1>2
  <2> QED BY <2>1, <1>a
<1>4. Latest(pending) \in pending
  <2>1. pending \subseteq 1..Len(approval[a])
    BY DEF Asked
  <2> HIDE DEF pending
  <2> QED BY <1>1, <1>3, <2>1, LatestIsOne
<1> QED BY <1>2, <1>3, <1>4

(* What an answer writes.                                                   *)
LEMMA AnswerWrites ==
    ASSUME TypeOK, NEW u \in Requests, NEW a \in Actions, Answers(u, a)
    PROVE  LET q == request[u] IN
           /\ q \in Request /\ q.pc = "deciding" /\ q.act = a /\ q.n \in Asked(a)
           /\ request'[u] = IdleRequest
           /\ row'[a] = Decided(row[a], q)
           /\ approval'[a][q.n].status = Decision(q.kind)
           /\ q.kind # "reject" => Decision(q.kind) \in Positive
<1> DEFINE q == request[u]
<1>1. q \in Request /\ q.pc = "deciding" /\ q.act = a /\ q.n \in Asked(a)
  BY RequestType, RequestRefers DEF Answers, RequestCommit
<1>2. request'[u] = IdleRequest /\ row'[a] = Decided(row[a], q)
  BY <1>1, RequestType, RowType DEF Answers, RequestCommit
<1>3. PICK e : e = Answered(approval[a][q.n], q)
  OBVIOUS
<1>4. approval \in [Actions -> Seq(Approval)] /\ approval[a][q.n] \in Approval
  BY <1>1, ApprovalType DEF Asked
<1>5. approval' = [approval EXCEPT ![a] = [approval[a] EXCEPT ![q.n] = e]]
  BY <1>1, <1>3, <1>4 DEF Answers, RequestCommit
<1>6. e.status = Decision(q.kind)
  BY <1>1, <1>3, <1>4 DEF Answered, Approval, Request
<1>7. q.kind # "reject" => Decision(q.kind) \in Positive
  BY <1>1 DEF Decision, Positive, Request
<1> HIDE DEF q
<1>8. approval'[a] = [approval[a] EXCEPT ![q.n] = e]
  BY <1>4, <1>5
<1>9. approval'[a][q.n] = e
  BY <1>1, <1>4, <1>8 DEF Asked
<1> QED BY <1>1, <1>2, <1>6, <1>7, <1>9 DEF q

(* A decision that is taken changes only as it is written over.             *)
LEMMA DecidedStays ==
    ASSUME TypeOK, [Next]_vars, NEW a \in Actions, NEW n \in Asked(a), ~Pending(approval[a][n])
    PROVE  approval'[a][n].status = approval[a][n].status \/ a \in redecided'
<1>0. /\ approval \in [Actions -> Seq(Approval)] /\ approval[a] \in Seq(Approval)
      /\ approval[a][n] \in Approval
  BY ApprovalType DEF Asked
<1>1. CASE approval' = approval
  BY <1>1
<1>2. ASSUME NEW b \in Actions, FallsDue(b) PROVE approval'[a][n].status = approval[a][n].status
  <2>1. PICK m \in Asked(b) : approval' = [approval EXCEPT ![b][m].due = TRUE]
    BY <1>2 DEF FallsDue
  <2>2. PICK e : e = [approval[a][m] EXCEPT !.due = TRUE]
    OBVIOUS
  <2>3. approval'[a] = approval[a] \/ approval'[a] = [approval[a] EXCEPT ![m] = e]
    BY <1>0, <2>1, <2>2
  <2>4. approval'[a][n] = approval[a][n] \/ (n = m /\ approval'[a][n] = e)
    BY <1>0, <2>3 DEF Asked
  <2> QED BY <1>0, <2>2, <2>4 DEF Approval
<1>3. ASSUME NEW u \in Requests, RequestCommit(u), approval' # approval
      PROVE  approval'[a][n].status = approval[a][n].status \/ a \in redecided'
  <2> DEFINE q == request[u]
  <2>1. ~GivesUp(u) /\ q \in Request
    BY <1>3, RequestType DEF RequestCommit, tables
  <2>2. PICK e : e = Answered(approval[q.act][q.n], q)
    OBVIOUS
  <2>3. approval' = [approval EXCEPT ![q.act] = [approval[q.act] EXCEPT ![q.n] = e]]
    BY <1>3, <1>0, <2>1, <2>2 DEF RequestCommit, Request
  <2>4. CASE q.act = a /\ q.n = n
    BY <1>3, <2>1, <2>4, RedecidedGrows DEF Answers
  <2>5. CASE q.act # a
    BY <1>0, <2>3, <2>5
  <2>6. CASE q.act = a /\ q.n # n
    <3>1. approval'[a] = [approval[a] EXCEPT ![q.n] = e]
      BY <1>0, <2>3, <2>6
    <3>2. approval'[a][n] = approval[a][n]
      BY <1>0, <2>6, <3>1 DEF Asked
    <3> QED BY <3>2
  <2> QED BY <2>4, <2>5, <2>6
<1>4. ASSUME NEW s \in Schedulers, Commits(s)
      PROVE  approval'[a][n].status = approval[a][n].status \/ a \in redecided'
  <2>1. CASE <<a, n>> \in sched[s].due
    BY <1>4, <2>1 DEF Commits, TickCommit
  <2>2. CASE <<a, n>> \notin sched[s].due
    BY <1>4, <2>2, CommitMoves
  <2> QED BY <2>1, <2>2
<1>5. \/ approval' = approval
      \/ \E b \in Actions : FallsDue(b)
      \/ \E u \in Requests : RequestCommit(u)
      \/ \E s \in Schedulers : Commits(s)
  BY WorkerFrame DEF Commits, Next, vars, TickNext, TickStart, TickJudge, TickCommit, TickAborts, Restart,
         RequestRead, consent, Reload, tables
<1> QED BY <1>1, <1>2, <1>3, <1>4, <1>5

LEMMA AwaitsNext ==
    ASSUME WaitingInv, [Next]_vars, NEW u \in Requests
    PROVE  Awaits(u)'
<1>0. TypeOK /\ Awaits(u) /\ request \in [Requests -> Request]
  BY RequestType DEF WaitingInv, QuestionInv
<1>1. CASE RequestRead(u)
  <2>1. PICK b \in Actions : \E m \in Asked(b) : \E k \in {"approve", "modify", "reject"} : \E v \in Params :
          /\ Decidable(b, m)
          /\ request' = [request EXCEPT ![u] =
                           [pc |-> "deciding", kind |-> k, act |-> b, n |-> m, params |-> v]]
    BY <1>1 DEF RequestRead
  <2>2. Waiting(request'[u].act) /\ Pending(approval[request'[u].act][request'[u].n])
    BY <2>1, <1>0 DEF Decidable
  <2>3. row' = row /\ approval' = approval
    BY <1>1 DEF RequestRead, tables
  <2> QED BY <2>2, <2>3 DEF Awaits, Waiting
<1>2. CASE request'[u].pc # "deciding"
  BY <1>2 DEF Awaits
<1>3. CASE request'[u] = request[u] /\ request[u].pc = "deciding"
  <2>a. PICK a \in Actions : a = request[u].act
    BY <1>0 DEF Request
  <2>n. PICK n \in Asked(a) : n = request[u].n
    BY <1>0, <1>3, <2>a, RequestRefers
  <2>0. a = request[u].act /\ n = request[u].n
    BY <2>a, <2>n
  <2>1. \/ a \in redecided' \/ row'[a].status = "FAILED" \/ Granted(a, n)'
        \/ Waiting(a)' /\ Pending(approval'[a][n])
    <3>1. CASE row[a].status = "FAILED"
      BY <1>0, <3>1, RowMoves DEF RowMove
    <3>2. CASE a \in redecided
      BY <3>2, RedecidedGrows
    <3>3. CASE Granted(a, n)
      <4>1. ~Pending(approval[a][n])
        BY <3>3 DEF Granted, Positive, Pending
      <4> QED BY <1>0, <3>3, <4>1, DecidedStays DEF Granted
    <3>4. CASE (Waiting(a) /\ Pending(approval[a][n])) /\ \E s \in Schedulers : Commits(s)
      BY <3>4, CommitSpares DEF Pending
    <3>5. ASSUME Waiting(a), Pending(approval[a][n]), NEW w \in Requests, Answers(w, a)
          PROVE  a \in redecided' \/ row'[a].status = "FAILED" \/ Granted(a, n)'
      <4> DEFINE q == request[w]
      <4>1. /\ q \in Request /\ q.n \in Asked(a) /\ row'[a] = Decided(row[a], q)
            /\ approval'[a][q.n].status = Decision(q.kind)
            /\ q.kind # "reject" => Decision(q.kind) \in Positive
        BY <1>0, <3>5, AnswerWrites
      <4>2. CASE ~Pending(approval[a][q.n])
        BY <3>5, <4>2, RedecidedGrows
      <4>3. CASE Pending(approval[a][q.n])
        <5>1. q.n = n
          BY <3>5, <4>1, <4>3 DEF WaitingInv, QuestionInv, OneOpenQuestion, Pending
        <5>2. CASE q.kind = "reject"
          <6>1. row[a] \in Row
            BY <1>0, RowType
          <6> QED BY <3>5, <4>1, <5>2, <6>1 DEF Decided, Waiting, Row
        <5>3. CASE q.kind # "reject"
          BY <4>1, <5>1, <5>3 DEF Granted
        <5> QED BY <5>2, <5>3
      <4> QED BY <4>2, <4>3
    <3>6. CASE /\ Waiting(a) /\ Pending(approval[a][n])
               /\ ~\E s \in Schedulers : Commits(s)
               /\ ~\E w \in Requests : Answers(w, a)
      <4>1. Waiting(a)'
        BY <1>0, <3>6, WaitingLeft
      <4>2. Pending(approval'[a][n])
        BY <1>0, <3>6, OpenStays
      <4> QED BY <4>1, <4>2
    <3> QED BY <1>0, <1>3, <2>0, <3>1, <3>2, <3>3, <3>4, <3>5, <3>6 DEF Awaits
  <2> QED BY <1>3, <2>0, <2>1 DEF Awaits, Waiting, Granted
<1>4. \/ RequestRead(u)
      \/ request'[u].pc # "deciding"
      \/ request'[u] = request[u] /\ request[u].pc = "deciding"
  <2>1. ASSUME NEW w \in Requests, RequestCommit(w)
        PROVE  request'[u] = request[u] \/ request'[u].pc # "deciding"
    BY <2>1, <1>0 DEF RequestCommit, IdleRequest
  <2>2. ASSUME NEW w \in Requests, RequestRead(w)
        PROVE  RequestRead(u) \/ request'[u] = request[u]
    <3>1. CASE w = u
      BY <2>2, <3>1
    <3>2. CASE w # u
      <4>1. PICK r : request' = [request EXCEPT ![w] = r]
        BY <2>2 DEF RequestRead
      <4> QED BY <1>0, <3>2, <4>1
    <3> QED BY <3>1, <3>2
  <2>3. request' = request \/ \E w \in Requests : RequestRead(w) \/ RequestCommit(w)
    BY WorkerFrame DEF Next, vars, TickNext, TickStart, TickJudge, TickCommit, TickAborts, Restart,
           consent, FallsDue, Reload
  <2> QED BY <2>1, <2>2, <2>3
<1> QED BY <1>1, <1>2, <1>3, <1>4

LEMMA TickKeepsQuestions ==
    ASSUME SoleScheduler, WaitingInv, [Next]_vars, NEW s \in Schedulers, NEW a \in Actions
    PROVE  SparesOpen(s, a)' /\ AsksOpen(s, a)'
<1>0. TypeOK /\ sched \in [Schedulers -> Tick] /\ SparesOpen(s, a) /\ AsksOpen(s, a) /\ RowMove(a)
  BY SchedType, RowMoves DEF WaitingInv, QuestionInv
<1>1. CASE TickJudge(s)
  <2>1. PICK S \in SUBSET {b \in Actions : row[b].status = "READY"} :
          sched' = [sched EXCEPT ![s].pc = "commit",
                      ![s].judged = [b \in Actions |->
                          IF Unanswered(b, sched[s].due) THEN [Undecided[b] EXCEPT !.do = "expire"]
                          ELSE IF b \in S THEN Check(b, sched[s].due) ELSE Undecided[b]]]
    BY <1>1 DEF TickJudge
  <2>2. /\ sched'[s].due = sched[s].due
        /\ sched'[s].judged[a] = IF Unanswered(a, sched[s].due) THEN [Undecided[a] EXCEPT !.do = "expire"]
                                 ELSE IF a \in S THEN Check(a, sched[s].due) ELSE Undecided[a]
    BY <1>0, <2>1 DEF Tick
  <2>3. Undecided[a].do = "none" /\ [Undecided[a] EXCEPT !.do = "expire"].do = "expire"
    BY DEF Undecided
  <2>4. row' = row /\ approval' = approval
    BY <1>1 DEF TickJudge, tables
  <2>5. SparesOpen(s, a)'
    BY <2>2, <2>3, <2>4 DEF SparesOpen, Unanswered, Waiting, Asked
  <2>6. ASSUME sched'[s].judged[a].do = "ask", sched'[s].judged[a].n # 0 PROVE AsksOpen(s, a)'
    <3>1. a \in S /\ sched'[s].judged[a] = Check(a, sched[s].due)
      BY <2>2, <2>3, <2>6
    <3>2. row[a].status = "READY"
      BY <3>1
    <3> DEFINE n == Check(a, sched[s].due).n
    <3>3. n \in Asked(a) /\ Pending(approval[a][n]) /\ <<a, n>> \notin sched[s].due
      BY <1>0, <2>6, <3>1, CheckAsks
    <3> HIDE DEF n
    <3>4. sched'[s].judged[a].n = n
      BY <3>1 DEF n
    <3> QED BY <2>2, <2>4, <3>2, <3>3, <3>4 DEF AsksOpen, Waiting, Asked
  <2> QED BY <2>5, <2>6 DEF AsksOpen
<1>2. CASE sched'[s] = sched[s] /\ ~\E t \in Schedulers : Commits(t)
  <2>1. Waiting(a)' => Waiting(a)
    BY <1>0, <1>2 DEF RowMove, Waiting
  <2>2. Asked(a)' = Asked(a)
    BY <1>0, <1>2, QuietMoves DEF Asked
  <2>3. SparesOpen(s, a)'
    BY <1>0, <1>2, <2>1, <2>2 DEF SparesOpen
  <2> DEFINE j == sched[s].judged[a]
  <2>4. ASSUME sched[s].pc = "commit", j.do = "ask", j.n # 0
        PROVE  a \in redecided' \/ row'[a].status = "FAILED" \/ Pending(approval'[a][j.n])
    <3>1. /\ ~Waiting(a) /\ j.n \in Asked(a)
          /\ a \in redecided \/ row[a].status = "FAILED" \/ Pending(approval[a][j.n])
      BY <1>0, <2>4 DEF AsksOpen
    <3>2. CASE row[a].status = "FAILED"
      BY <1>0, <3>2 DEF RowMove
    <3>3. CASE a \in redecided
      BY <3>3, RedecidedGrows
    <3>4. CASE Pending(approval[a][j.n]) /\ row[a].status # "FAILED" /\ a \notin redecided
      <4>1. ASSUME NEW u \in Requests, Answers(u, a), request[u].n = j.n PROVE FALSE
        BY <3>1, <3>4, <4>1 DEF WaitingInv, Awaits, Answers, RequestCommit, Granted, Positive, Pending
      <4> HIDE DEF j
      <4> QED BY <1>0, <1>2, <3>1, <3>4, <4>1, OpenStays
    <3> QED BY <3>1, <3>2, <3>3, <3>4
  <2>5. AsksOpen(s, a)'
    BY <1>0, <1>2, <2>1, <2>2, <2>4 DEF AsksOpen
  <2> QED BY <2>3, <2>5
<1>3. CASE sched'[s].pc # "commit"
  BY <1>3 DEF SparesOpen, AsksOpen
<1> QED BY <1>0, <1>1, <1>2, <1>3, TickMoves

LEMMA QuestionStays ==
    ASSUME WaitingInv, [Next]_vars, NEW a \in Actions, Waiting(a)', a \notin redecided'
    PROVE  HasQuestion(a)'
<1>0. TypeOK /\ a \notin redecided
  BY RedecidedGrows DEF WaitingInv, QuestionInv
<1>1. CASE ~\E s \in Schedulers : Commits(s)
  <2>1. Waiting(a) /\ Asked(a)' = Asked(a)
    BY <1>0, <1>1, RowMoves, QuietMoves DEF RowMove, Asked, Waiting
  <2>2. PICK n \in Asked(a) : Pending(approval[a][n])
    BY <1>0, <2>1 DEF WaitingInv, WaitingHasQuestion, HasQuestion, Pending
  <2>3. ASSUME NEW u \in Requests, Answers(u, a) PROVE FALSE
    <3>1. row'[a] = Decided(row[a], request[u]) /\ row[a] \in Row
      BY <1>0, <2>3, AnswerWrites, RowType
    <3> QED BY <3>1, <2>1 DEF Decided, Waiting, Row
  <2>4. Pending(approval'[a][n])
    BY <1>0, <1>1, <2>2, <2>3, OpenStays
  <2> QED BY <2>1, <2>4 DEF Pending, HasQuestion
<1>2. ASSUME NEW s \in Schedulers, Commits(s), Waiting(a)
      PROVE  HasQuestion(a)'
  <2>1. PICK n \in Asked(a) : approval[a][n].status = "PENDING"
    BY <1>0, <1>2 DEF WaitingInv, WaitingHasQuestion, HasQuestion
  <2>2. n \in Asked(a)' /\ approval'[a][n].status = approval[a][n].status
    BY <1>2, CommitSpares DEF Waiting
  <2> QED BY <2>1, <2>2 DEF HasQuestion
<1>3. ASSUME NEW s \in Schedulers, Commits(s), ~Waiting(a)
      PROVE  HasQuestion(a)'
  <2> DEFINE j == sched[s].judged[a]
  <2>1. row'[a] = Moved(row[a], j.do) /\ row[a] \in Row
    BY <1>0, <1>3, RowType DEF Commits, TickCommit
  <2>2. j.do = "ask" /\ row[a].status = "READY"
    BY <1>3, <2>1 DEF Moved, Waiting, Row
  <2>3. CASE j.n # 0
    <3>1. j.n \in Asked(a) /\ <<a, j.n>> \notin sched[s].due /\ approval[a][j.n].status = "PENDING"
      BY <1>0, <1>3, <2>2, <2>3 DEF WaitingInv, AsksOpen, Commits, TickCommit, Pending
    <3>2. PICK k \in Asked(a) : <<a, k>> \notin sched[s].due /\ approval[a][k].status = "PENDING"
      BY <3>1
    <3>3. k \in Asked(a)' /\ approval'[a][k].status = approval[a][k].status
      BY <1>0, <1>3, <3>2, CommitMoves
    <3> QED BY <3>2, <3>3 DEF HasQuestion
  <2>4. CASE j.n = 0
    <3> DEFINE M == Marked(a, sched[s].due, j)
               N == NewApproval(j.params)
    <3>1. /\ M \in Seq(Approval) /\ N \in Approval
          /\ approval'[a] = Append(M, N)
      BY <1>0, <1>3, <2>2, <2>4, CommittedApprovals DEF Commits, New
    <3>2. N.status = "PENDING"
      BY DEF NewApproval
    <3> HIDE DEF M, N
    <3>3. Len(approval'[a]) = Len(M) + 1 /\ approval'[a][Len(M) + 1] = N /\ Len(M) \in Nat
      BY <3>1, AppendProperties
    <3>4. Len(M) + 1 \in Asked(a)'
      BY <3>3 DEF Asked
    <3> QED BY <3>2, <3>3, <3>4 DEF HasQuestion
  <2> QED BY <2>3, <2>4
<1> QED BY <1>1, <1>2, <1>3

LEMMA WaitingInit == Init => WaitingInv
BY TypeInit DEF Init, WaitingInv, QuestionInv, OneOpenQuestion, Asked, WaitingHasQuestion, Awaits,
   SparesOpen, AsksOpen, Resting, IdleRequest, Waiting

LEMMA WaitingInvHolds ==
    ASSUME SoleScheduler PROVE Spec => []WaitingInv
<1>1. ASSUME WaitingInv, [Next]_vars PROVE WaitingInv'
  <2>1. QuestionInv'
    BY <1>1, QuestionNext DEF WaitingInv
  <2>2. WaitingHasQuestion'
    BY <1>1, QuestionStays DEF WaitingHasQuestion
  <2>3. \A u \in Requests : Awaits(u)'
    BY <1>1, AwaitsNext
  <2>4. \A s \in Schedulers, a \in Actions : SparesOpen(s, a)' /\ AsksOpen(s, a)'
    BY <1>1, TickKeepsQuestions
  <2> QED BY <2>1, <2>2, <2>3, <2>4 DEF WaitingInv
<1> QED BY <1>1, WaitingInit, PTL DEF Spec

(* Under one scheduler, for any number of handlers, an action that waits    *)
(* for the user has an open question, whatever is edited, expires, is       *)
(* restarted or rolled back meanwhile, until one of its approvals is decided*)
(* over an earlier decision (gate.py, _require_approval and expire_overdue).*)
THEOREM WaitersAreAsked ==
    ASSUME SoleScheduler PROVE Spec => []WaitingHasQuestion
<1>1. WaitingInv => WaitingHasQuestion
  BY DEF WaitingInv
<1> QED BY <1>1, WaitingInvHolds, PTL

(* Under one scheduler, for any number of handlers, an action leaves        *)
(* WAITING_FOR_USER towards execution only as a handler commits a positive  *)
(* answer, and a refused or expired question releases nothing before a      *)
(* decision is written over another (orchestrator/approvals.py, gate.py).   *)
THEOREM SilenceIsNoConsent ==
    ASSUME SoleScheduler PROVE Spec => OnlyAnswersRelease
<1> DEFINE Released(a) ==
       \E u \in Requests :
           LET q == request[u] IN
           /\ q.pc = "deciding" /\ q.act = a /\ request'[u] = IdleRequest
           /\ approval'[a][q.n].status \in Positive
           /\ approval[a][q.n].status \in Positive \cup {"PENDING"} \/ a \in redecided
<1>1. ASSUME WaitingInv, [Next]_vars, NEW a \in Actions, Waiting(a),
             row'[a].status \notin {"WAITING_FOR_USER", "FAILED"}
      PROVE  Released(a)
  <2>0. TypeOK
    BY <1>1 DEF WaitingInv, QuestionInv
  <2>1. PICK u \in Requests : Answers(u, a) /\ request[u].kind # "reject"
    BY <1>1, <2>0, WaitingLeft DEF Waiting
  <2>2. LET q == request[u] IN
        /\ q.pc = "deciding" /\ q.act = a /\ request'[u] = IdleRequest
        /\ approval'[a][q.n].status \in Positive
    BY <2>0, <2>1, AnswerWrites
  <2>3. approval[a][request[u].n].status \in Positive \cup {"PENDING"} \/ a \in redecided
    BY <1>1, <2>2 DEF WaitingInv, Awaits, Waiting, Granted, Pending
  <2> QED BY <2>2, <2>3
<1>2. WaitingInv /\ [Next]_vars =>
        [\A a \in Actions : Waiting(a) /\ row'[a].status \notin {"WAITING_FOR_USER", "FAILED"} =>
            Released(a)]_vars
  BY <1>1
<1> QED BY <1>2, WaitingInvHolds, PTL DEF Spec, OnlyAnswersRelease
=============================================================================
