------------------------------ MODULE AuditChain ------------------------------
(* The hash-chained audit trail: transactions that append to it and commit or *)
(* roll back, somebody who edits the table behind its back, and the          *)
(* verification that walks it.                                               *)
EXTENDS Naturals, FiniteSets

CONSTANTS
    Writers,     \* transactions that append
    Bodies,      \* what a record may say
    MaxAppends,  \* appends, and ids of the sequence
    MaxTampers   \* edits of stored rows

ASSUME AuditAssumption == MaxAppends \in Nat /\ MaxTampers \in Nat

VARIABLES
    log,      \* the committed rows
    lastId,   \* the sequence that numbers rows; a rollback leaves a gap
    writer,   \* writer[w]: whether it holds the chain, and its uncommitted rows
    tampered  \* the ids of rows that were edited

auditVars == <<log, lastId, writer, tampered>>

(* A digest is the tuple it is computed from: equal only when that is equal.  *)
NoHash == <<>>
Digest(id, body, prev) == <<id, body, prev>>
Record(id, body, prev) ==
    [id |-> id, body |-> body, prev |-> prev, hash |-> Digest(id, body, prev)]

NoWriter == [chain |-> FALSE, pending |-> {}]

AuditInit ==
    /\ log = {} /\ lastId = 0 /\ tampered = {}
    /\ writer = [w \in Writers |-> NoWriter]

-----------------------------------------------------------------------------
BugNoLock(w) == TRUE
ChainFree(w) == \A v \in Writers \ {w} : ~writer[v].chain

(* The hash of the row with the greatest id that the transaction sees. *)
Visible(w) == log \cup writer[w].pending
LastHash(rows) ==
    IF rows = {} THEN NoHash
    ELSE (CHOOSE r \in rows : \A s \in rows : s.id <= r.id).hash

(* The advisory lock is held until the transaction ends. *)
AppendRecord(w, body) ==
    /\ ChainFree(w) /\ lastId < MaxAppends
    /\ lastId' = lastId + 1
    /\ writer' = [writer EXCEPT ![w] = [chain |-> TRUE, pending |->
                    @.pending \cup {Record(lastId + 1, body, LastHash(Visible(w)))}]]
    /\ UNCHANGED <<log, tampered>>

AuditCommit(w) ==
    /\ writer[w] # NoWriter
    /\ log' = log \cup writer[w].pending
    /\ writer' = [writer EXCEPT ![w] = NoWriter]
    /\ UNCHANGED <<lastId, tampered>>

(* The transaction fails, or the database breaks a deadlock between the      *)
(* chain's lock and the row locks of two transactions.                       *)
AuditRollback(w) ==
    /\ writer[w] # NoWriter
    /\ writer' = [writer EXCEPT ![w] = NoWriter]
    /\ UNCHANGED <<log, lastId, tampered>>

(* Somebody with access to the table rewrites a stored row. *)
Tamper(r, body) ==
    /\ Cardinality(tampered) < MaxTampers /\ r.id \notin tampered /\ body # r.body
    /\ log' = (log \ {r}) \cup {[r EXCEPT !.body = body]}
    /\ tampered' = tampered \cup {r.id}
    /\ UNCHANGED <<lastId, writer>>

-----------------------------------------------------------------------------
(* verify(start_id) walks the suffix from start: the first row whose prev is *)
(* not the hash of the row before it, or whose hash is not that of its       *)
(* contents; 0 when there is none.                                           *)
Below(id) == {r \in log : r.id < id}
Reproduces(r) ==
    /\ r.prev = LastHash(Below(r.id))
    /\ r.hash = Digest(r.id, r.body, r.prev)

FirstDivergence(start) ==
    LET bad == {r \in log : r.id >= start /\ ~Reproduces(r)}
    IN  IF bad = {} THEN 0 ELSE (CHOOSE r \in bad : \A s \in bad : r.id <= s.id).id

-----------------------------------------------------------------------------
AuditNext ==
    \/ \E w \in Writers :
         \/ \E body \in Bodies : AppendRecord(w, body)
         \/ AuditCommit(w) \/ AuditRollback(w)
    \/ \E r \in log, body \in Bodies : Tamper(r, body)

AuditSpec == AuditInit /\ [][AuditNext]_auditVars

-----------------------------------------------------------------------------
(* Rows are numbered by the sequence, and a transaction that has appended    *)
(* holds the chain.                                                          *)
AuditTypeOK ==
    /\ lastId \in Nat /\ tampered \subseteq 1..lastId
    /\ \A r \in log : r.id \in 1..lastId
    /\ \A w \in Writers :
         /\ writer[w].chain \in BOOLEAN
         /\ \A r \in writer[w].pending : r.id \in 1..lastId

(* However transactions interleave, roll back and leave gaps, nobody's edits  *)
(* aside the whole chain verifies, and so does what any transaction sees: no *)
(* two rows follow the same row (audit.py:10-14).                            *)
ChainIsLinear ==
    tampered = {} =>
        /\ FirstDivergence(1) = 0
        /\ \A r, s \in log : r.prev = s.prev => r = s

(* An edit of any stored row is found, and blamed on the row that was edited, *)
(* by a verification of the whole chain and of every suffix that has the row. *)
TamperingIsFound ==
    \A start \in 1..lastId :
        LET edited == {id \in tampered : id >= start}
        IN  IF edited = {} THEN FirstDivergence(start) = 0
            ELSE FirstDivergence(start) = CHOOSE id \in edited : \A j \in edited : id <= j

(* Concurrent appends leave one chain, and a verification finds every change  *)
(* made to a record that a later one names (AuditLog.append, verify_chain).   *)
ChainProves ==
    /\ AuditTypeOK
    /\ ChainIsLinear
    /\ TamperingIsFound
=============================================================================
