--------------------------- MODULE WorkflowLearning ---------------------------
(* Learned workflows: mining proposes one per recurring pattern, people       *)
(* accept or reject them, a rejection suppresses the pattern. Every request   *)
(* is one transaction of the Postgres store, which reads first and writes     *)
(* later; requests to the in-memory store are atomic.                         *)
EXTENDS Naturals, Sequences

CONSTANTS
    Requests,      \* concurrent requests, the mining hook of the tick among them
    Patterns,      \* pattern keys
    Definitions,   \* what mining may make of a pattern
    CapabilityOf,  \* CapabilityOf[d]: the highest capability of d's tools, 0..4
    MaxRows        \* rows of the workflows table

ASSUME LearningAssumption == CapabilityOf \in [Definitions -> 0..4]

VARIABLES
    backend,     \* the configured store
    rows,        \* the workflows table: a sequence, a row's id is its position
    suppressed,  \* the patterns of workflow_suppressions
    request      \* request[q]: the transaction q is in and what it has read

learningVars == <<backend, rows, suppressed, request>>

NoRequest == [op |-> "none", row |-> 0, pattern |-> {}, definition |-> {},
              seen |-> "", locks |-> FALSE, inserts |-> FALSE]

LearningInit ==
    /\ backend = "unset" /\ rows = <<>> /\ suppressed = {}
    /\ request = [q \in Requests |-> NoRequest]

Configure(b) == backend = "unset" /\ backend' = b /\ UNCHANGED <<rows, suppressed, request>>

-----------------------------------------------------------------------------
(* Trust is the highest capability among the steps' tools, never above L2. *)
LearnedTrust(d) == IF CapabilityOf[d] <= 2 THEN CapabilityOf[d] ELSE 2

Proposal(p, d) ==
    [pattern |-> p, definition |-> d, trust |-> LearnedTrust(d), status |-> "proposed"]

Existing(p) == {i \in DOMAIN rows : rows[i].pattern = p /\ rows[i].status # "rejected"}

(* Mining refreshes the row, an accepted one too, and leaves its status. *)
Refreshed(i, d) ==
    [rows EXCEPT ![i].definition = d, ![i].trust = LearnedTrust(d)]

(* The mapper updates a column only when it differs from what was read. *)
WithStatus(i, seen, status) ==
    IF seen = status THEN rows ELSE [rows EXCEPT ![i].status = status]

Acceptable(i) == rows[i].status # "rejected" /\ rows[i].trust <= 2

-----------------------------------------------------------------------------
(* The in-memory store. *)
MemoryPut(p, d) ==
    /\ backend = "memory" /\ p \notin suppressed
    /\ IF Existing(p) # {} THEN \E i \in Existing(p) : rows' = Refreshed(i, d)
       ELSE Len(rows) < MaxRows /\ rows' = Append(rows, Proposal(p, d))
    /\ UNCHANGED <<backend, suppressed, request>>

MemoryAccept(i) ==
    /\ backend = "memory" /\ Acceptable(i)
    /\ rows' = [rows EXCEPT ![i].status = "accepted"]
    /\ UNCHANGED <<backend, suppressed, request>>

MemoryReject(i) ==
    /\ backend = "memory"
    /\ rows' = [rows EXCEPT ![i].status = "rejected"]
    /\ suppressed' = suppressed \cup {rows[i].pattern}
    /\ UNCHANGED <<backend, request>>

-----------------------------------------------------------------------------
(* The Postgres store. Mining asks whether the pattern is suppressed ...      *)
BugNeverAsks(p) == TRUE
MayPropose(p) == p \notin suppressed

MineCheck(q, p, d) ==
    /\ backend = "postgres" /\ request[q] = NoRequest /\ MayPropose(p)
    /\ request' = [request EXCEPT ![q] =
                    [NoRequest EXCEPT !.op = "check", !.pattern = {p}, !.definition = {d}]]
    /\ UNCHANGED <<backend, rows, suppressed>>

(* ... then looks for a row of the pattern that is not rejected ... *)
MineFind(q, p) ==
    /\ request[q].op = "check" /\ p \in request[q].pattern
    /\ IF Existing(p) = {} THEN request' = [request EXCEPT ![q].op = "insert"]
       ELSE \E i \in Existing(p) :
                request' = [request EXCEPT ![q].op = "refresh", ![q].row = i]
    /\ UNCHANGED <<backend, rows, suppressed>>

Unlocked(i) == \A q \in Requests : ~(request[q].locks /\ request[q].row = i)

(* ... and writes what that reading told it to. *)
MineCommit(q, p, d) ==
    /\ p \in request[q].pattern /\ d \in request[q].definition
    /\ \/ request[q].op = "insert" /\ Len(rows) < MaxRows /\ rows' = Append(rows, Proposal(p, d))
       \/ /\ request[q].op = "refresh" /\ Unlocked(request[q].row)
          /\ rows' = Refreshed(request[q].row, d)
    /\ request' = [request EXCEPT ![q] = NoRequest]
    /\ UNCHANGED <<backend, suppressed>>

Asked(q, op, i) ==
    request' = [request EXCEPT ![q] =
                 [NoRequest EXCEPT !.op = op, !.row = i, !.seen = rows[i].status]]

AcceptRead(q, i) ==
    /\ backend = "postgres" /\ request[q] = NoRequest /\ Acceptable(i)
    /\ Asked(q, "accept", i)
    /\ UNCHANGED <<backend, rows, suppressed>>

AcceptCommit(q) ==
    /\ request[q].op = "accept" /\ Unlocked(request[q].row)
    /\ rows' = WithStatus(request[q].row, request[q].seen, "accepted")
    /\ request' = [request EXCEPT ![q] = NoRequest]
    /\ UNCHANGED <<backend, suppressed>>

RejectRead(q, i) ==
    /\ backend = "postgres" /\ request[q] = NoRequest
    /\ Asked(q, "reject", i)
    /\ UNCHANGED <<backend, rows, suppressed>>

(* The status is written first: the row stays locked while the suppression    *)
(* list is read and, where the pattern is missing, added to.                  *)
RejectFlush(q) ==
    /\ request[q].op = "reject" /\ ~request[q].locks /\ Unlocked(request[q].row)
    /\ request' = [request EXCEPT ![q].locks = TRUE,
                     ![q].inserts = rows[request[q].row].pattern \notin suppressed]
    /\ UNCHANGED <<backend, rows, suppressed>>

(* A second insertion of one pattern breaks its primary key: rolled back. *)
PatternOf(q) == {rows[request[q].row].pattern}
RejectCommit(q) ==
    /\ request[q].op = "reject" /\ request[q].locks
    /\ IF request[q].inserts /\ rows[request[q].row].pattern \in suppressed
       THEN UNCHANGED <<rows, suppressed>>
       ELSE /\ rows' = WithStatus(request[q].row, request[q].seen, "rejected")
            /\ suppressed' = suppressed \cup PatternOf(q)
    /\ request' = [request EXCEPT ![q] = NoRequest]
    /\ UNCHANGED backend

RequestFails(q) ==
    /\ request[q] # NoRequest
    /\ request' = [request EXCEPT ![q] = NoRequest]
    /\ UNCHANGED <<backend, rows, suppressed>>

-----------------------------------------------------------------------------
LearningNext ==
    \/ \E b \in {"memory", "postgres"} : Configure(b)
    \/ \E p \in Patterns, d \in Definitions : MemoryPut(p, d)
    \/ \E i \in DOMAIN rows : MemoryAccept(i) \/ MemoryReject(i)
    \/ \E q \in Requests :
         \/ \E p \in Patterns, d \in Definitions : MineCheck(q, p, d) \/ MineCommit(q, p, d)
         \/ \E p \in Patterns : MineFind(q, p)
         \/ \E i \in DOMAIN rows : AcceptRead(q, i) \/ RejectRead(q, i)
         \/ AcceptCommit(q) \/ RejectFlush(q) \/ RejectCommit(q) \/ RequestFails(q)

LearningSpec == LearningInit /\ [][LearningNext]_learningVars

-----------------------------------------------------------------------------
(* Whatever mining makes of a pattern, a row's trust stays within what the    *)
(* table's constraint admits (models.py:616).                                 *)
LearningTypeOK ==
    /\ backend \in {"unset", "memory", "postgres"} /\ suppressed \subseteq Patterns
    /\ \A i \in DOMAIN rows :
         /\ rows[i].pattern \in Patterns /\ rows[i].definition \in Definitions
         /\ rows[i].status \in {"proposed", "accepted", "rejected"} /\ rows[i].trust \in 0..2
    /\ \A q \in Requests : request[q].row \in 0..Len(rows)

LiveRows(p) == {i \in DOMAIN rows : rows[i].pattern = p /\ rows[i].status # "rejected"}

(* The memory store, whose requests are atomic, keeps one live workflow per   *)
(* pattern and none of a suppressed one (store.py:57-80). The tables promise  *)
(* neither: two minings insert twice, a mining that overlaps a rejection      *)
(* proposes the pattern again, a duplicate outlives the rejection of its twin.*)
MemoryKeepsPatterns ==
    backend = "memory" =>
        \A p \in Patterns :
            /\ \A i, j \in LiveRows(p) : i = j
            /\ p \in suppressed => LiveRows(p) = {}

(* A rejected row is revived only by an acceptance that read it before the    *)
(* rejection was committed, and a rejected row's pattern is suppressed.       *)
RejectionHolds ==
    [][\A i \in DOMAIN rows :
         /\ rows[i].status = "rejected" /\ rows'[i].status # "rejected" =>
              \E q \in Requests : request[q].op = "accept" /\ request[q].row = i
         /\ rows'[i].status = "rejected" => rows'[i].pattern \in suppressed'
      ]_learningVars

(* Once the minings and acceptances that read before the rejection are over,  *)
(* a suppressed pattern without a live row never gets one again               *)
(* (docs/08-MEMORY-SYSTEM.md:171-175).                                        *)
Settled(p) ==
    /\ LiveRows(p) = {}
    /\ \A q \in Requests :
         /\ p \notin request[q].pattern
         /\ request[q].op = "accept" => rows[request[q].row].pattern # p

SuppressedForGood ==
    [][\A p \in suppressed : Settled(p) => Settled(p)']_learningVars

(* A workflow the user rejected stays rejected and its pattern is not proposed*)
(* again, except where a transaction of the Postgres store overlaps the       *)
(* rejection (reject, upsert_proposed, is_suppressed).                        *)
RejectionIsForGood ==
    /\ [](LearningTypeOK /\ MemoryKeepsPatterns)
    /\ RejectionHolds
    /\ SuppressedForGood
=============================================================================
