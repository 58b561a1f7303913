----------------------------- MODULE StoresProofs -----------------------------
(* Proofs about the audit chain, the verification engine, the policy and the  *)
(* stores beside the action engine, for every set of their users and contents *)
(* and every bound.                                                           *)
EXTENDS AuditChain, Verification, WorkflowLearning, SemanticMemory, TokenVault, PolicyEvaluation,
        FiniteSetTheorems, SequenceTheorems, WellFoundedInduction, TLAPS

------------------------------------------------------------------------------
(* The audit chain.                                                           *)

(* One transaction at a time holds the chain, and only it has entries that       *)
(* nobody else sees.                                                          *)
ChainHeld ==
    /\ \A w \in Writers : writer[w].pending # {} => writer[w].chain
    /\ \A v, w \in Writers : writer[v].chain /\ writer[w].chain => v = w

(* The row of the greatest id.                                                *)
IsLast(t, entries) == t \in entries /\ \A s \in entries : s.id <= t.id
HasLast(entries) == entries # {} => \E t \in entries : IsLast(t, entries)

IsRow(r) == r = [id |-> r.id, body |-> r.body, prev |-> r.prev, hash |-> r.hash]
Numbered(entries) ==
    /\ \A r \in entries : IsRow(r) /\ r.id \in Nat
    /\ \A r, s \in entries : r.id = s.id => r = s

(* A row names the one before it: its prev is the hash of the greatest row    *)
(* below, and its hash that of what it said when it was appended, which an    *)
(* edit changes and nothing else does.                                        *)
Before(r, entries) == {s \in entries : s.id < r.id}
Follows(r, entries) ==
    \/ r.prev = NoHash /\ Before(r, entries) = {}
    \/ \E t \in Before(r, entries) : IsLast(t, Before(r, entries)) /\ r.prev = t.hash
Sealed(r, edited) ==
    \E body : /\ r.hash = Digest(r.id, body, r.prev)
              /\ (r.id \in edited) <=> (body # r.body)
Linked(entries, edited) ==
    /\ Numbered(entries) /\ HasLast(entries)
    /\ \A r \in entries : Follows(r, entries) /\ Sealed(r, edited)

IsWriter(x) == x = [chain |-> x.chain, pending |-> x.pending]

ChainInv ==
    /\ AuditTypeOK
    /\ DOMAIN writer = Writers /\ \A w \in Writers : IsWriter(writer[w])
    /\ ChainHeld
    /\ \A id \in tampered : \E r \in log : r.id = id
    /\ \A w \in Writers : \A r \in writer[w].pending : \A s \in log : s.id < r.id
    /\ Linked(log, tampered)
    /\ \A w \in Writers : Linked(Visible(w), tampered)

------------------------------------------------------------------------------
(* The hash a transaction reads is that of the last row it sees.              *)
LEMMA LastIsRead ==
    ASSUME NEW entries, NEW t, Numbered(entries), IsLast(t, entries)
    PROVE  LastHash(entries) = t.hash
<1> DEFINE Top(r) == \A s \in entries : s.id <= r.id
<1>1. t \in entries /\ Top(t)
  BY DEF IsLast
<1>2. (CHOOSE r \in entries : Top(r)) \in entries /\ Top(CHOOSE r \in entries : Top(r))
  <2> HIDE DEF Top
  <2> QED BY <1>1
<1>3. ASSUME NEW r \in entries, Top(r) PROVE r = t
  <2>1. r.id <= t.id /\ t.id <= r.id /\ r.id \in Nat /\ t.id \in Nat
    BY <1>1, <1>3 DEF Numbered
  <2> QED BY <2>1, <1>1, <1>3 DEF Numbered
<1>4. (CHOOSE r \in entries : Top(r)) = t
  <2> HIDE DEF Top
  <2> QED BY <1>2, <1>3
<1> QED BY <1>1, <1>4 DEF LastHash

LEMMA PrevIsRead ==
    ASSUME NEW entries, NEW r \in entries, Numbered(entries), Follows(r, entries)
    PROVE  r.prev = LastHash(Before(r, entries))
<1>1. CASE r.prev = NoHash /\ Before(r, entries) = {}
  BY <1>1 DEF LastHash
<1>2. ASSUME NEW t \in Before(r, entries), IsLast(t, Before(r, entries)), r.prev = t.hash
      PROVE  r.prev = LastHash(Before(r, entries))
  <2>1. Numbered(Before(r, entries))
    BY DEF Numbered, Before
  <2> QED BY <1>2, <2>1, LastIsRead
<1> QED BY <1>1, <1>2 DEF Follows

(* A row appended at the end of what a transaction sees is linked to it.      *)
LEMMA AppendedIsLinked ==
    ASSUME NEW entries, NEW edited, NEW n \in Nat, NEW body,
           Linked(entries, edited), \A s \in entries : s.id <= n, n + 1 \notin edited
    PROVE  Linked(entries \cup {Record(n + 1, body, LastHash(entries))}, edited)
<1> DEFINE new == Record(n + 1, body, LastHash(entries))
           more == entries \cup {new}
<1>1. /\ new.id = n + 1 /\ new.body = body /\ new.prev = LastHash(entries)
      /\ new.hash = Digest(n + 1, body, LastHash(entries)) /\ IsRow(new)
  BY DEF Record, IsRow
<1> HIDE DEF new
<1>2. Numbered(entries) /\ HasLast(entries) /\ \A s \in entries : s.id \in Nat
  BY DEF Linked, Numbered
<1>3. Numbered(more)
  BY <1>1, <1>2 DEF Numbered
<1>4. IsLast(new, more)
  BY <1>1, <1>2 DEF IsLast
<1>5. Before(new, more) = entries
  BY <1>1, <1>2 DEF Before
<1>6. Follows(new, more)
  <2>1. CASE entries = {}
    BY <2>1, <1>1, <1>5 DEF Follows, LastHash
  <2>2. CASE entries # {}
    <3>1. PICK t \in entries : IsLast(t, entries)
      BY <2>2, <1>2 DEF HasLast
    <3>2. new.prev = t.hash
      BY <3>1, <1>1, <1>2, LastIsRead
    <3> QED BY <3>1, <3>2, <1>5 DEF Follows
  <2> QED BY <2>1, <2>2
<1>7. Sealed(new, edited)
  BY <1>1 DEF Sealed
<1>8. ASSUME NEW r \in entries PROVE Follows(r, more) /\ Sealed(r, edited)
  <2>1. Before(r, more) = Before(r, entries)
    BY <1>1, <1>2 DEF Before
  <2>2. Follows(r, entries) /\ Sealed(r, edited)
    BY DEF Linked
  <2> QED BY <2>1, <2>2 DEF Follows
<1> QED BY <1>3, <1>4, <1>6, <1>7, <1>8 DEF Linked, HasLast, new

(* A row that is edited keeps its id, its prev and its hash: the chain goes   *)
(* through it as before, and only its own seal is broken.                     *)
LEMMA EditedIsLinked ==
    ASSUME NEW entries, NEW edited, NEW r \in entries, NEW body,
           Linked(entries, edited), r.id \notin edited, body # r.body
    PROVE  Linked((entries \ {r}) \cup {[r EXCEPT !.body = body]}, edited \cup {r.id})
<1> DEFINE new == [r EXCEPT !.body = body]
           more == (entries \ {r}) \cup {new}
           marked == edited \cup {r.id}
<1>0. /\ Numbered(entries) /\ HasLast(entries)
      /\ \A s \in entries : s.id \in Nat /\ IsRow(s) /\ Follows(s, entries) /\ Sealed(s, edited)
  BY DEF Linked, Numbered
<1>1. /\ new.id = r.id /\ new.body = body /\ new.prev = r.prev /\ new.hash = r.hash /\ IsRow(new)
  <2>1. r = [id |-> r.id, body |-> r.body, prev |-> r.prev, hash |-> r.hash]
    BY <1>0 DEF IsRow
  <2>2. new = [id |-> r.id, body |-> body, prev |-> r.prev, hash |-> r.hash]
    BY <2>1
  <2> QED BY <2>2 DEF IsRow
<1> HIDE DEF new
<1> DEFINE Twin(s) == IF s = r THEN new ELSE s
<1>2. \A s \in entries : Twin(s) \in more /\ Twin(s).id = s.id /\ Twin(s).hash = s.hash /\ Twin(s).prev = s.prev
  BY <1>1
<1>3. \A u \in more : \E s \in entries : u = Twin(s)
  OBVIOUS
<1> HIDE DEF more
<1>4. Numbered(more)
  <2>1. \A u \in more : IsRow(u) /\ u.id \in Nat
    BY <1>0, <1>1, <1>3
  <2>2. \A u, v \in more : u.id = v.id => u = v
    <3> HIDE DEF Twin
    <3> QED BY <1>0, <1>2, <1>3 DEF Numbered
  <2> QED BY <2>1, <2>2 DEF Numbered
<1>5. HasLast(more)
  <2> HIDE DEF Twin
  <2>1. entries # {}
    OBVIOUS
  <2>2. PICK t \in entries : IsLast(t, entries)
    BY <1>0, <2>1 DEF HasLast
  <2>3. IsLast(Twin(t), more)
    BY <2>2, <1>2, <1>3 DEF IsLast
  <2> QED BY <2>3, <1>2 DEF HasLast
<1>6. ASSUME NEW s \in entries PROVE Follows(Twin(s), more)
  <2> HIDE DEF Twin
  <2>1. \A u \in entries : Twin(u) \in Before(Twin(s), more) <=> u \in Before(s, entries)
    BY <1>2 DEF Before
  <2>2. CASE s.prev = NoHash /\ Before(s, entries) = {}
    <3>1. Before(Twin(s), more) = {}
      BY <2>1, <2>2, <1>3 DEF Before
    <3> QED BY <3>1, <2>2, <1>2 DEF Follows
  <2>3. ASSUME NEW t \in Before(s, entries), IsLast(t, Before(s, entries)), s.prev = t.hash
        PROVE  Follows(Twin(s), more)
    <3>1. t \in entries
      BY DEF Before
    <3>2. Twin(t) \in Before(Twin(s), more)
      BY <2>1, <3>1
    <3>3. \A v \in Before(Twin(s), more) : v.id <= Twin(t).id
      <4> TAKE v \in Before(Twin(s), more)
      <4>1. PICK u \in entries : v = Twin(u)
        BY <1>3 DEF Before
      <4>2. u \in Before(s, entries)
        BY <4>1, <2>1
      <4> QED BY <4>1, <4>2, <2>3, <3>1, <1>2 DEF IsLast
    <3>4. Twin(s).prev = Twin(t).hash
      BY <2>3, <3>1, <1>2
    <3> QED BY <3>2, <3>3, <3>4 DEF Follows, IsLast
  <2>4. Follows(s, entries)
    BY <1>0
  <2> QED BY <2>2, <2>3, <2>4 DEF Follows
<1>7. ASSUME NEW s \in entries PROVE Sealed(Twin(s), marked)
  <2>1. PICK said : s.hash = Digest(s.id, said, s.prev) /\ (s.id \in edited <=> said # s.body)
    BY <1>0 DEF Sealed
  <2>2. CASE s = r
    <3>1. said = r.body /\ said # new.body /\ r.id \in marked
      BY <2>1, <2>2, <1>1
    <3>2. new.hash = Digest(new.id, said, new.prev)
      BY <2>1, <2>2, <1>1
    <3> QED BY <3>1, <3>2, <2>2, <1>1 DEF Sealed
  <2>3. CASE s # r
    <3>1. s.id # r.id
      BY <2>3, <1>0 DEF Numbered
    <3> QED BY <3>1, <2>1, <2>3 DEF Sealed
  <2> QED BY <2>2, <2>3
<1>8. \A u \in more : Follows(u, more) /\ Sealed(u, marked)
  <2> HIDE DEF Twin, marked
  <2> QED BY <1>3, <1>6, <1>7
<1> QED BY <1>4, <1>5, <1>8 DEF Linked, more, new

------------------------------------------------------------------------------
LEMMA ChainInvInit == AuditInit => ChainInv
<1> SUFFICES ASSUME AuditInit PROVE ChainInv
  OBVIOUS
<1>1. /\ log = {} /\ lastId = 0 /\ tampered = {}
      /\ \A w \in Writers : writer[w] = NoWriter /\ Visible(w) = {}
  BY DEF AuditInit, Visible, NoWriter
<1>2. \A w \in Writers : writer[w].chain = FALSE /\ writer[w].pending = {}
  BY <1>1 DEF NoWriter
<1>3. Linked({}, {})
  BY DEF Linked, Numbered, HasLast
<1>4. DOMAIN writer = Writers /\ \A w \in Writers : IsWriter(writer[w])
  BY <1>1 DEF AuditInit, NoWriter, IsWriter
<1>5. AuditTypeOK /\ ChainHeld
  BY <1>1, <1>2 DEF AuditTypeOK, ChainHeld
<1>6. Linked(log, tampered) /\ \A w \in Writers : Linked(Visible(w), tampered)
  BY <1>1, <1>3
<1>7. \A w \in Writers : \A r \in writer[w].pending : \A s \in log : s.id < r.id
  BY <1>1
<1> QED BY <1>1, <1>4, <1>5, <1>6, <1>7 DEF ChainInv

LEMMA ChainInvAppend ==
    ASSUME ChainInv, NEW w \in Writers, NEW body \in Bodies, AppendRecord(w, body)
    PROVE  ChainInv'
<1> DEFINE new == Record(lastId + 1, body, LastHash(Visible(w)))
<1>1. /\ ChainFree(w) /\ lastId' = lastId + 1
      /\ writer' = [writer EXCEPT ![w] = [chain |-> TRUE, pending |-> @.pending \cup {new}]]
      /\ log' = log /\ tampered' = tampered
  BY DEF AppendRecord
<1>2. new.id = lastId + 1
  BY DEF Record
<1> HIDE DEF new
<1>3. DOMAIN writer = Writers /\ \A v \in Writers : IsWriter(writer[v])
  BY DEF ChainInv
<1>4. writer'[w] = [chain |-> TRUE, pending |-> writer[w].pending \cup {new}]
  BY <1>1, <1>3
<1>5. /\ writer'[w].chain = TRUE /\ writer'[w].pending = writer[w].pending \cup {new}
      /\ \A v \in Writers \ {w} : writer'[v] = writer[v] /\ ~writer[v].chain
  BY <1>1, <1>3, <1>4 DEF ChainFree
<1>6. AuditTypeOK'
  <2>1. /\ lastId \in Nat /\ tampered \subseteq 1..lastId
        /\ \A r \in log : r.id \in 1..lastId
        /\ \A v \in Writers : writer[v].chain \in BOOLEAN
                              /\ \A r \in writer[v].pending : r.id \in 1..lastId
    BY DEF ChainInv, AuditTypeOK
  <2>2. lastId' \in Nat /\ 1..lastId \subseteq 1..lastId' /\ new.id \in 1..lastId'
    BY <1>1, <1>2, <2>1
  <2>3. \A v \in Writers : writer'[v].chain \in BOOLEAN
                              /\ \A r \in writer'[v].pending : r.id \in 1..lastId'
    BY <1>5, <2>1, <2>2
  <2> QED BY <1>1, <2>1, <2>2, <2>3 DEF AuditTypeOK
<1>7. DOMAIN writer' = Writers /\ \A v \in Writers : IsWriter(writer'[v])
  BY <1>1, <1>3, <1>4, <1>5 DEF IsWriter
<1>8. ChainHeld'
  BY <1>5 DEF ChainInv, ChainHeld
<1>9. \A v \in Writers : \A r \in writer'[v].pending : \A s \in log' : s.id < r.id
  BY <1>1, <1>2, <1>5 DEF ChainInv, AuditTypeOK
<1>10. \A v \in Writers : Linked(Visible(v)', tampered')
  <2>1. Linked(Visible(w) \cup {new}, tampered)
    <3>1. \A s \in Visible(w) : s.id <= lastId
      BY DEF ChainInv, AuditTypeOK, Visible
    <3>2. lastId \in Nat /\ lastId + 1 \notin tampered /\ Linked(Visible(w), tampered)
      BY DEF ChainInv, AuditTypeOK
    <3> QED BY <3>1, <3>2, AppendedIsLinked DEF new
  <2>2. Visible(w)' = Visible(w) \cup {new}
    BY <1>1, <1>5 DEF Visible
  <2>3. \A v \in Writers \ {w} : Visible(v)' = Visible(v)
    BY <1>1, <1>5 DEF Visible
  <2> QED BY <1>1, <2>1, <2>2, <2>3 DEF ChainInv
<1> QED BY <1>1, <1>6, <1>7, <1>8, <1>9, <1>10 DEF ChainInv

(* The end of a transaction: its entries are in the log, or nowhere.             *)
LEMMA ChainInvEnd ==
    ASSUME ChainInv, NEW w \in Writers, AuditCommit(w) \/ AuditRollback(w)
    PROVE  ChainInv'
<1>1. /\ writer[w] # NoWriter /\ log' \in {log, Visible(w)}
      /\ writer' = [writer EXCEPT ![w] = NoWriter]
      /\ lastId' = lastId /\ tampered' = tampered
  BY DEF AuditCommit, AuditRollback, Visible
<1>2. DOMAIN writer = Writers /\ \A v \in Writers : IsWriter(writer[v])
  BY DEF ChainInv
<1>3. \A v \in Writers : writer[v].chain \in BOOLEAN
  BY DEF ChainInv, AuditTypeOK
<1>4. writer[w].chain
  <2>1. CASE writer[w].pending # {}
    BY <2>1 DEF ChainInv, ChainHeld
  <2>2. CASE writer[w].pending = {} /\ ~writer[w].chain
    <3>1. writer[w] = [chain |-> FALSE, pending |-> {}]
      BY <1>2, <1>3, <2>2 DEF IsWriter
    <3> QED BY <1>1, <3>1 DEF NoWriter
  <2> QED BY <2>1, <2>2
<1>5. /\ writer'[w].chain = FALSE /\ writer'[w].pending = {}
      /\ \A v \in Writers \ {w} : writer'[v] = writer[v] /\ writer[v].pending = {}
  BY <1>1, <1>2, <1>4 DEF NoWriter, ChainInv, ChainHeld
<1>6. DOMAIN writer' = Writers /\ \A v \in Writers : IsWriter(writer'[v])
  BY <1>1, <1>2, <1>5 DEF NoWriter, IsWriter
<1>7. \A v \in Writers : writer'[v].pending = {} /\ Visible(v)' = log'
  BY <1>5 DEF Visible
<1>8. AuditTypeOK' /\ ChainHeld'
  BY <1>1, <1>5 DEF ChainInv, AuditTypeOK, ChainHeld, Visible
<1>9. \A id \in tampered' : \E r \in log' : r.id = id
  BY <1>1 DEF ChainInv, Visible
<1>10. Linked(log', tampered')
  BY <1>1 DEF ChainInv
<1> QED BY <1>6, <1>7, <1>8, <1>9, <1>10 DEF ChainInv

LEMMA ChainInvTamper ==
    ASSUME ChainInv, NEW r \in log, NEW body \in Bodies, Tamper(r, body)
    PROVE  ChainInv'
<1> DEFINE new == [r EXCEPT !.body = body]
<1>1. /\ r.id \notin tampered /\ body # r.body
      /\ log' = (log \ {r}) \cup {new} /\ tampered' = tampered \cup {r.id}
      /\ lastId' = lastId /\ writer' = writer
  BY DEF Tamper
<1>2. new.id = r.id
  <2>1. IsRow(r)
    BY DEF ChainInv, Linked, Numbered
  <2>2. new = [id |-> r.id, body |-> body, prev |-> r.prev, hash |-> r.hash]
    BY <2>1 DEF IsRow
  <2> QED BY <2>2
<1>3. Linked(log', tampered')
  BY <1>1, EditedIsLinked DEF ChainInv
<1>4. ASSUME NEW w \in Writers PROVE Linked(Visible(w)', tampered')
  <2>1. r \in Visible(w) /\ Linked(Visible(w), tampered)
    BY DEF ChainInv, Visible
  <2>2. r.id \in Nat /\ \A s \in writer[w].pending : r.id < s.id
    BY DEF ChainInv, Linked, Numbered
  <2>3. r \notin writer[w].pending
    BY <2>2
  <2>4. Visible(w)' = (Visible(w) \ {r}) \cup {new}
    BY <1>1, <2>3 DEF Visible
  <2>5. Linked((Visible(w) \ {r}) \cup {new}, tampered \cup {r.id})
    <3> HIDE DEF Visible
    <3> QED BY <1>1, <2>1, EditedIsLinked
  <2> QED BY <1>1, <2>4, <2>5
<1> HIDE DEF new
<1>5. AuditTypeOK' /\ ChainHeld'
  BY <1>1, <1>2 DEF ChainInv, AuditTypeOK, ChainHeld
<1>6. \A id \in tampered' : \E s \in log' : s.id = id
  BY <1>1, <1>2 DEF ChainInv
<1>7. \A w \in Writers : \A s \in writer'[w].pending : \A t \in log' : t.id < s.id
  BY <1>1, <1>2 DEF ChainInv
<1> QED BY <1>1, <1>3, <1>4, <1>5, <1>6, <1>7 DEF ChainInv

LEMMA ChainInvStep == ChainInv /\ [AuditNext]_auditVars => ChainInv'
<1> SUFFICES ASSUME ChainInv, [AuditNext]_auditVars PROVE ChainInv'
  OBVIOUS
<1>1. CASE UNCHANGED auditVars
  BY <1>1 DEF auditVars, ChainInv, AuditTypeOK, ChainHeld, Visible
<1>2. ASSUME NEW w \in Writers, NEW body \in Bodies, AppendRecord(w, body) PROVE ChainInv'
  BY <1>2, ChainInvAppend
<1>3. ASSUME NEW w \in Writers, AuditCommit(w) \/ AuditRollback(w) PROVE ChainInv'
  BY <1>3, ChainInvEnd
<1>4. ASSUME NEW r \in log, NEW body \in Bodies, Tamper(r, body) PROVE ChainInv'
  BY <1>4, ChainInvTamper
<1> QED BY <1>1, <1>2, <1>3, <1>4 DEF AuditNext

------------------------------------------------------------------------------
LEMMA LeastIs ==
    ASSUME NEW N, N \subseteq Nat, N # {}
    PROVE  \E n \in N : \A m \in N : n <= m
<1> DEFINE R == OpToRel(<, Nat)
<1>1. IsWellFoundedOn(R, Nat)
  BY NatLessThanWellFounded
<1> HIDE DEF R
<1>2. PICK n \in N : \A m \in N : <<m, n>> \notin R
  BY <1>1, WFMin
<1>3. \A m \in N : ~(m < n) /\ m \in Nat /\ n \in Nat
  BY <1>2 DEF R, OpToRel
<1> QED BY <1>2, <1>3

(* A row verifies exactly when nobody has edited it.                          *)
LEMMA OnlyEditsDiverge ==
    ASSUME ChainInv, NEW r \in log
    PROVE  Reproduces(r) <=> r.id \notin tampered
<1>1. Numbered(log) /\ Follows(r, log) /\ Sealed(r, tampered)
  BY DEF ChainInv, Linked
<1>2. r.prev = LastHash(Below(r.id))
  <2>1. Below(r.id) = Before(r, log)
    BY DEF Below, Before
  <2> QED BY <1>1, <2>1, PrevIsRead
<1>3. PICK said : r.hash = Digest(r.id, said, r.prev) /\ (r.id \in tampered <=> said # r.body)
  BY <1>1 DEF Sealed
<1>4. r.hash = Digest(r.id, r.body, r.prev) <=> said = r.body
  BY <1>3 DEF Digest
<1> QED BY <1>2, <1>3, <1>4 DEF Reproduces

LEMMA FirstEditIsBlamed ==
    ASSUME ChainInv, NEW start \in Nat
    PROVE  LET edited == {id \in tampered : id >= start}
           IN  IF edited = {} THEN FirstDivergence(start) = 0
               ELSE FirstDivergence(start) = CHOOSE id \in edited : \A j \in edited : id <= j
<1> DEFINE edited == {id \in tampered : id >= start}
           bad == {r \in log : r.id >= start /\ ~Reproduces(r)}
           First(r) == \A s \in bad : r.id <= s.id
           Least(id) == \A j \in edited : id <= j
<1>1. FirstDivergence(start) = IF bad = {} THEN 0 ELSE (CHOOSE r \in bad : First(r)).id
  BY DEF FirstDivergence
<1>2. /\ \A r \in bad : r.id \in edited
      /\ \A id \in edited : \E r \in bad : r.id = id
      /\ edited \subseteq Nat
  <2>1. \A r \in log : Reproduces(r) <=> r.id \notin tampered
    BY OnlyEditsDiverge
  <2>2. \A id \in tampered : id \in Nat /\ \E r \in log : r.id = id
    BY DEF ChainInv, AuditTypeOK
  <2> QED BY <2>1, <2>2
<1> HIDE DEF edited, bad
<1>3. CASE edited = {}
  BY <1>1, <1>2, <1>3 DEF edited
<1>4. CASE edited # {}
  <2>1. PICK m \in edited : Least(m)
    BY <1>2, <1>4, LeastIs
  <2>2. PICK r \in bad : r.id = m
    BY <1>2, <2>1
  <2>3. First(r)
    BY <1>2, <2>1, <2>2
  <2>4. (CHOOSE x \in bad : First(x)) \in bad /\ First(CHOOSE x \in bad : First(x))
    <3> HIDE DEF First
    <3> QED BY <2>2, <2>3
  <2>5. ASSUME NEW x \in bad, First(x) PROVE x.id = m
    <3>1. x.id <= r.id /\ x.id \in edited
      BY <1>2, <2>2, <2>5
    <3>2. m <= x.id
      BY <2>1, <3>1
    <3>3. x.id \in Nat /\ m \in Nat
      BY <1>2, <3>1
    <3> QED BY <2>2, <3>1, <3>2, <3>3
  <2>6. (CHOOSE x \in bad : First(x)).id = m
    <3> HIDE DEF First
    <3> QED BY <2>4, <2>5
  <2>7. (CHOOSE id \in edited : Least(id)) \in edited /\ Least(CHOOSE id \in edited : Least(id))
    <3> HIDE DEF Least
    <3> QED BY <2>1
  <2>8. \A id \in edited : Least(id) => id = m
    BY <1>2, <2>1
  <2>9. (CHOOSE id \in edited : Least(id)) = m
    <3> HIDE DEF Least
    <3> QED BY <2>7, <2>8
  <2>10. FirstDivergence(start) = m
    <3> HIDE DEF First
    <3> QED BY <1>1, <2>2, <2>6
  <2> QED BY <2>9, <2>10, <1>4 DEF edited
<1> QED BY <1>3, <1>4

(* No two entries follow the same row: the greater of the two would follow one   *)
(* at least as great as the other.                                            *)
LEMMA NothingForks ==
    ASSUME ChainInv, NEW r \in log, NEW s \in log, r.prev = s.prev
    PROVE  r = s
<1>1. Numbered(log) /\ Follows(r, log) /\ Follows(s, log) /\ \A t \in log : Sealed(t, tampered)
  BY DEF ChainInv, Linked
<1>2. \A t \in log : t.id \in Nat /\ \E said : t.hash = <<t.id, said, t.prev>>
  BY <1>1 DEF Numbered, Sealed, Digest
<1>3. ASSUME NEW x \in log, NEW y \in log, x.prev = y.prev, Follows(x, log), Follows(y, log), x.id < y.id
      PROVE  FALSE
  <2>1. x \in Before(y, log)
    BY <1>3 DEF Before
  <2>2. PICK u \in Before(y, log) : IsLast(u, Before(y, log)) /\ y.prev = u.hash
    BY <1>3, <2>1 DEF Follows
  <2>3. u \in log /\ x.id <= u.id
    BY <2>1, <2>2 DEF IsLast, Before
  <2>4. PICK said : y.prev = <<u.id, said, u.prev>>
    BY <1>2, <2>2, <2>3
  <2>5. x.prev # NoHash
    BY <1>3, <2>4 DEF NoHash
  <2>6. PICK t \in Before(x, log) : x.prev = t.hash
    BY <1>3, <2>5 DEF Follows
  <2>7. t \in log /\ t.id < x.id
    BY <2>6 DEF Before
  <2>8. t.id = u.id
    BY <1>2, <1>3, <2>4, <2>6, <2>7
  <2> QED BY <1>2, <2>3, <2>7, <2>8
<1>4. ~(r.id < s.id) /\ ~(s.id < r.id)
  BY <1>1, <1>3
<1> QED BY <1>1, <1>2, <1>4 DEF Numbered

LEMMA ChainInvProves == ChainInv => ChainProves
<1> SUFFICES ASSUME ChainInv PROVE ChainProves
  OBVIOUS
<1>1. AuditTypeOK
  BY DEF ChainInv
<1>2. TamperingIsFound
  <2>1. \A start \in 1..lastId : start \in Nat
    BY <1>1 DEF AuditTypeOK
  <2> QED BY <2>1, FirstEditIsBlamed DEF TamperingIsFound
<1>3. ChainIsLinear
  <2>1. tampered = {} => FirstDivergence(1) = 0
    <3>1. tampered = {} => {id \in tampered : id >= 1} = {}
      OBVIOUS
    <3> QED BY <3>1, FirstEditIsBlamed
  <2> QED BY <2>1, NothingForks DEF ChainIsLinear
<1> QED BY <1>1, <1>2, <1>3 DEF ChainProves

(* However transactions interleave, commit and roll back, the log is one      *)
(* chain, and an edit of any row by whoever can reach the table is found and  *)
(* blamed on that row by every verification that starts at or before it       *)
(* (AuditLog.append, verify).                                                 *)
THEOREM ChainHolds == AuditSpec => []ChainProves
<1>1. ChainInv => ChainProves
  BY ChainInvProves
<1> QED BY <1>1, ChainInvInit, ChainInvStep, PTL DEF AuditSpec

------------------------------------------------------------------------------
(* Verification.                                                              *)

CheckLists == UNION {[1..n -> Postconditions] : n \in 0..2}

CheckedType ==
    checked \in [stage : {"none"}] \cup
                [stage : {"running", "returned", "succeeded", "unverified", "failed"}, level : {1, 2},
                 checks : CheckLists, observing : BOOLEAN, disturbed : BOOLEAN]

(* A verdict is final, and the checks agreed with the world it was given on.  *)
VerdictInv ==
    /\ CheckedType
    /\ VerdictsAreSeen

(* Each check passes, fails or has no method.                                 *)
LEMMA Outcomes ==
    ASSUME NEW c PROVE RunOne(c) \in {"PASS", "FAIL", "NO_METHOD"}
BY DEF RunOne, ValueEquals, FileExists, FileHash, ElementExists, ApiReadback, Equal

(* One PASS of the engine: every check passed, and above L1 there was one.    *)
LEMMA PassMeans ==
    ASSUME NEW level \in {1, 2}, NEW checks \in CheckLists, VerifyResult(level, checks) = "PASS"
    PROVE  /\ level >= 2 => checks # <<>>
           /\ \A i \in DOMAIN checks : RunOne(checks[i]) = "PASS"
<1>1. CASE checks = <<>>
  BY <1>1 DEF VerifyResult
<1>2. CASE checks # <<>>
  <2>1. Aggregate({ RunOne(checks[i]) : i \in DOMAIN checks }) = "PASS"
    BY <1>2 DEF VerifyResult
  <2>2. \A i \in DOMAIN checks : RunOne(checks[i]) \notin {"FAIL", "NO_METHOD"}
    BY <2>1 DEF Aggregate
  <2>3. \A i \in DOMAIN checks : RunOne(checks[i]) = "PASS"
    BY <2>2, Outcomes
  <2> QED BY <1>2, <2>3
<1> QED BY <1>1, <1>2

(* A verdict that is not a failure: no check failed.                          *)
LEMMA NoneFailed ==
    ASSUME NEW level, NEW checks, VerifyResult(level, checks) # "FAIL", NEW i \in DOMAIN checks,
           checks # <<>>
    PROVE  RunOne(checks[i]) # "FAIL"
BY DEF VerifyResult, Aggregate

LEMMA VerdictGiven ==
    ASSUME VerdictInv, Verify PROVE VerdictInv'
<1> DEFINE level == checked.level
           checks == checked.checks
           outcome == VerifyResult(level, checks)
<1>1. /\ level \in {1, 2} /\ checks \in CheckLists /\ checked.stage = "returned"
      /\ checked' = [checked EXCEPT !.stage = Verdict(outcome)]
      /\ atCheck' = world /\ claimed' = claimed /\ world' = world
  BY DEF Verify, VerdictInv, CheckedType
<1>2. Verdict(outcome) \in {"succeeded", "unverified", "failed"}
  BY DEF Verdict
<1>3. CheckedType'
  BY <1>1, <1>2 DEF VerdictInv, CheckedType
<1>4. /\ checked'.stage = Verdict(outcome) /\ checked'.level = level /\ checked'.checks = checks
  BY <1>1 DEF VerdictInv, CheckedType
<1>5. \A i \in DOMAIN checks : checks[i] \in Postconditions
  BY <1>1 DEF CheckLists
<1> HIDE DEF level, checks, outcome
<1>6. SuccessWasSeen'
  <2> SUFFICES ASSUME Verdict(outcome) = "succeeded", level >= 2
               PROVE  /\ checks # <<>>
                      /\ \A i \in DOMAIN checks :
                            LET c == checks[i]
                            IN  /\ c.target # LeftOut
                                /\ IF c.type = "value_equals" THEN claimed[c.target] = c.expected
                                   ELSE /\ world[c.target] # Nothing
                                        /\ c.expected # LeftOut /\ c.type # "file_exists" =>
                                               world[c.target] = c.expected
    BY <1>1, <1>4 DEF SuccessWasSeen
  <2>1. outcome = "PASS"
    BY DEF Verdict
  <2>2. checks # <<>> /\ \A i \in DOMAIN checks : RunOne(checks[i]) = "PASS"
    BY <1>1, <2>1, PassMeans DEF outcome
  <2>3. ASSUME NEW c \in Postconditions, RunOne(c) = "PASS"
        PROVE  /\ c.target # LeftOut
               /\ IF c.type = "value_equals" THEN claimed[c.target] = c.expected
                  ELSE /\ world[c.target] # Nothing
                       /\ c.expected # LeftOut /\ c.type # "file_exists" => world[c.target] = c.expected
    <3>1. c.expected # Nothing
      BY VerificationAssumption
    <3> QED BY <2>3, <3>1 DEF RunOne, ValueEquals, FileExists, FileHash, ElementExists, ApiReadback, Equal
  <2> QED BY <1>5, <2>2, <2>3
<1>7. ContradictionsFail'
  <2>1. checked'.observing = checked.observing
    BY <1>1 DEF VerdictInv, CheckedType
  <2> SUFFICES ASSUME Verdict(outcome) \in {"succeeded", "unverified"}, NEW i \in DOMAIN checks,
                      NEW c, c = checks[i], CanLook(c),
                      \/ world[c.target] = Nothing
                      \/ c.type # "file_exists" /\ c.expected # LeftOut /\ world[c.target] # c.expected
               PROVE  FALSE
    BY <1>1, <1>4, <2>1 DEF ContradictionsFail, CanLook, Contradicted
  <2>2. outcome # "FAIL"
    BY DEF Verdict
  <2>3. checks # <<>>
    OBVIOUS
  <2>4. RunOne(c) # "FAIL"
    BY <2>2, <2>3, NoneFailed DEF outcome
  <2>5. c.expected # Nothing
    BY <1>5, VerificationAssumption
  <2> QED BY <2>4, <2>5
      DEF CanLook, RunOne, FileExists, FileHash, ElementExists, ApiReadback, Equal
<1> QED BY <1>3, <1>6, <1>7 DEF VerdictInv, VerdictsAreSeen

(* A postcondition that passed was looked at, and one that was contradicted   *)
(* fails the action, for all postconditions a plan or a tool may declare      *)
(* (verify_result, _aggregate).                                               *)
THEOREM VerdictsRestOnLooks == VerifySpec => []VerdictsAreSeen
<1>1. VerifyInit => VerdictInv
  BY DEF VerifyInit, VerdictInv, CheckedType, VerdictsAreSeen, SuccessWasSeen, ContradictionsFail
<1>2. ASSUME VerdictInv, [VerifyNext]_verifyVars PROVE VerdictInv'
  <2>1. CASE BeginAction
    <3>1. PICK level \in {1, 2}, observing \in BOOLEAN, n \in 0..2 : \E checks \in [1..n -> Postconditions] :
            checked' = [stage |-> "running", level |-> level, checks |-> checks,
                        observing |-> observing, disturbed |-> FALSE]
      BY <2>1 DEF BeginAction
    <3>2. PICK checks \in [1..n -> Postconditions] :
            checked' = [stage |-> "running", level |-> level, checks |-> checks,
                        observing |-> observing, disturbed |-> FALSE]
      BY <3>1
    <3>3. checks \in CheckLists
      BY DEF CheckLists
    <3>4. CheckedType'
      BY <3>2, <3>3 DEF CheckedType
    <3> QED BY <3>2, <3>4 DEF VerdictInv, VerdictsAreSeen, SuccessWasSeen, ContradictionsFail
  <2>2. CASE ToolReturns
    <3>1. checked' = [checked EXCEPT !.stage = "returned"] /\ checked.stage = "running"
      BY <2>2 DEF ToolReturns
    <3>2. CheckedType' /\ checked'.stage = "returned"
      BY <1>2, <3>1 DEF VerdictInv, CheckedType
    <3> QED BY <3>2 DEF VerdictInv, VerdictsAreSeen, SuccessWasSeen, ContradictionsFail
  <2>3. CASE Interferes
    <3>1. checked' = [checked EXCEPT !.disturbed = TRUE] /\ checked.stage = "returned"
      BY <2>3 DEF Interferes
    <3>2. CheckedType' /\ checked'.stage = "returned"
      BY <1>2, <3>1 DEF VerdictInv, CheckedType
    <3> QED BY <3>2 DEF VerdictInv, VerdictsAreSeen, SuccessWasSeen, ContradictionsFail
  <2>4. CASE Verify
    BY <1>2, <2>4, VerdictGiven
  <2>5. CASE UNCHANGED verifyVars
    BY <1>2, <2>5 DEF verifyVars, VerdictInv, CheckedType, VerdictsAreSeen, SuccessWasSeen, ContradictionsFail,
        CanLook, Contradicted
  <2> QED BY <1>2, <2>1, <2>2, <2>3, <2>4, <2>5 DEF VerifyNext
<1>3. VerdictInv => VerdictsAreSeen
  BY DEF VerdictInv
<1> QED BY <1>1, <1>2, <1>3, PTL DEF VerifySpec

------------------------------------------------------------------------------
(* Learned workflows.                                                         *)

WorkflowStatus == {"proposed", "accepted", "rejected"}

WorkflowRow == [pattern : Patterns, definition : Definitions, trust : 0..2, status : WorkflowStatus]

LearningRequest ==
    [op : {"none", "check", "insert", "refresh", "accept", "reject"}, row : Nat,
     pattern : SUBSET Patterns, definition : SUBSET Definitions, seen : WorkflowStatus \cup {""},
     locks : BOOLEAN, inserts : BOOLEAN]

LearningShape ==
    /\ backend \in {"unset", "memory", "postgres"} /\ suppressed \subseteq Patterns
    /\ rows \in Seq(WorkflowRow)
    /\ request \in [Requests -> LearningRequest]

(* A request refers to a row that exists; only the tables see requests that   *)
(* overlap; and a rejected row's pattern is suppressed.                       *)
LearningInv ==
    /\ LearningShape
    /\ \A q \in Requests :
         /\ request[q].row \in 0..Len(rows)
         /\ request[q].op \in {"refresh", "accept", "reject"} => request[q].row \in 1..Len(rows)
         /\ backend # "postgres" => request[q] = NoRequest
    /\ backend = "unset" => rows = <<>> /\ suppressed = {}
    /\ \A i \in DOMAIN rows : rows[i].status = "rejected" => rows[i].pattern \in suppressed
    /\ MemoryKeepsPatterns

LEMMA RowWrites ==
    ASSUME NEW r \in WorkflowRow
    PROVE  /\ \A d \in Definitions : [r EXCEPT !.definition = d, !.trust = LearnedTrust(d)] \in WorkflowRow
           /\ \A d \in Definitions : [r EXCEPT !.definition = d, !.trust = LearnedTrust(d)].status = r.status
           /\ \A d \in Definitions : [r EXCEPT !.definition = d, !.trust = LearnedTrust(d)].pattern = r.pattern
           /\ \A st \in WorkflowStatus : [r EXCEPT !.status = st] \in WorkflowRow
           /\ \A st \in WorkflowStatus : [r EXCEPT !.status = st].status = st
           /\ \A st \in WorkflowStatus : [r EXCEPT !.status = st].pattern = r.pattern
<1>1. \A d \in Definitions : LearnedTrust(d) \in 0..2
  BY LearningAssumption DEF LearnedTrust
<1> QED BY <1>1 DEF WorkflowRow, WorkflowStatus

LEMMA ProposalIsRow ==
    ASSUME NEW p \in Patterns, NEW d \in Definitions
    PROVE  Proposal(p, d) \in WorkflowRow
<1>1. LearnedTrust(d) \in 0..2
  BY LearningAssumption DEF LearnedTrust
<1> QED BY <1>1 DEF Proposal, WorkflowRow, WorkflowStatus

LEMMA NoRequestIs ==
    NoRequest.op = "none" /\ NoRequest.row = 0 /\ NoRequest.pattern = {} /\ NoRequest \in LearningRequest
BY DEF NoRequest, LearningRequest

(* How a step changes the rows.                                               *)
RowsKept == rows' = rows /\ suppressed' = suppressed
RowRefreshed ==
    /\ \E i \in DOMAIN rows, d \in Definitions : rows' = Refreshed(i, d)
    /\ suppressed' = suppressed
RowAdded ==
    /\ suppressed' = suppressed
    /\ \E p \in Patterns, d \in Definitions :
         /\ rows' = Append(rows, Proposal(p, d))
         /\ \/ backend = "memory" /\ p \notin suppressed /\ Existing(p) = {}
            \/ backend = "postgres" /\ \E q \in Requests : p \in request[q].pattern
RowAccepted ==
    /\ suppressed' = suppressed
    /\ \E i \in DOMAIN rows :
         /\ rows' = rows \/ rows' = [rows EXCEPT ![i].status = "accepted"]
         /\ \/ backend = "memory" /\ Acceptable(i)
            \/ \E q \in Requests : request[q].op = "accept" /\ request[q].row = i
RowRejected ==
    \E i \in DOMAIN rows :
         /\ suppressed' = suppressed \cup {rows[i].pattern}
         /\ rows' = [rows EXCEPT ![i].status = "rejected"]
            \/ (rows' = rows /\ backend = "postgres")

LEMMA LearningWrites ==
    ASSUME LearningInv, [LearningNext]_learningVars
    PROVE  RowsKept \/ RowRefreshed \/ RowAdded \/ RowAccepted \/ RowRejected
<1>0. LearningShape
  BY DEF LearningInv
<1>1. ASSUME NEW p \in Patterns, NEW d \in Definitions, MemoryPut(p, d) PROVE RowRefreshed \/ RowAdded
  BY <1>1 DEF MemoryPut, Existing, RowRefreshed, RowAdded
<1>2. ASSUME NEW i \in DOMAIN rows, MemoryAccept(i) \/ MemoryReject(i) PROVE RowAccepted \/ RowRejected
  BY <1>2 DEF MemoryAccept, MemoryReject, RowAccepted, RowRejected
<1>3. ASSUME NEW q \in Requests, NEW p \in Patterns, NEW d \in Definitions, MineCommit(q, p, d)
      PROVE  RowRefreshed \/ RowAdded
  <2>a. request[q] # NoRequest
    BY <1>3, NoRequestIs DEF MineCommit
  <2>1. backend = "postgres"
    BY <2>a DEF LearningInv
  <2>2. request[q].op = "refresh" => request[q].row \in DOMAIN rows
    BY <1>0 DEF LearningInv, LearningShape
  <2> QED BY <1>3, <2>1, <2>2 DEF MineCommit, RowRefreshed, RowAdded
<1>4. ASSUME NEW q \in Requests, AcceptCommit(q) PROVE RowAccepted
  <2>1. request[q].row \in DOMAIN rows
    BY <1>0, <1>4 DEF LearningInv, LearningShape, AcceptCommit
  <2> QED BY <1>4, <2>1 DEF AcceptCommit, WithStatus, RowAccepted
<1>5. ASSUME NEW q \in Requests, RejectCommit(q) PROVE RowsKept \/ RowRejected
  <2>a. request[q] # NoRequest
    BY <1>5, NoRequestIs DEF RejectCommit
  <2>1. request[q].row \in DOMAIN rows /\ backend = "postgres"
    BY <1>0, <1>5, <2>a DEF LearningInv, LearningShape, RejectCommit
  <2> QED BY <1>5, <2>1 DEF RejectCommit, WithStatus, PatternOf, RowsKept, RowRejected
<1>6. \/ RowsKept
      \/ \E p \in Patterns, d \in Definitions :
            MemoryPut(p, d) \/ \E q \in Requests : MineCommit(q, p, d)
      \/ \E i \in DOMAIN rows : MemoryAccept(i) \/ MemoryReject(i)
      \/ \E q \in Requests : AcceptCommit(q) \/ RejectCommit(q)
  BY DEF LearningNext, learningVars, Configure, MineCheck, MineFind, AcceptRead, RejectRead,
         RejectFlush, RequestFails, RowsKept
<1> QED BY <1>1, <1>2, <1>3, <1>4, <1>5, <1>6

(* What follows for one row: it keeps its pattern, and its status moves as    *)
(* the store lets it.                                                         *)
StatusMoves(i, st) ==
    \/ st = rows[i].status
    \/ /\ st = "accepted"
       /\ \/ backend = "memory" /\ Acceptable(i)
          \/ \E q \in Requests : request[q].op = "accept" /\ request[q].row = i
    \/ st = "rejected" /\ rows[i].pattern \in suppressed'

RowFollows(i) ==
    /\ i \in DOMAIN rows' /\ rows'[i] \in WorkflowRow
    /\ rows'[i].pattern = rows[i].pattern
    /\ StatusMoves(i, rows'[i].status)

LEMMA RowsFollow ==
    ASSUME LearningInv, [LearningNext]_learningVars
    PROVE  /\ rows' \in Seq(WorkflowRow) /\ Len(rows) <= Len(rows')
           /\ suppressed \subseteq suppressed' /\ suppressed' \subseteq Patterns
           /\ \A i \in DOMAIN rows : RowFollows(i)
           /\ \A i \in DOMAIN rows' \ DOMAIN rows :
                RowAdded /\ i = Len(rows) + 1 /\ rows'[i] \in WorkflowRow /\ rows'[i].status = "proposed"
<1>0. /\ rows \in Seq(WorkflowRow) /\ suppressed \subseteq Patterns
      /\ \A i \in DOMAIN rows : rows[i] \in WorkflowRow
  BY DEF LearningInv, LearningShape
<1>1. ASSUME NEW i \in DOMAIN rows, NEW r \in WorkflowRow, rows' = [rows EXCEPT ![i] = r],
             r.pattern = rows[i].pattern, StatusMoves(i, r.status)
      PROVE  /\ rows' \in Seq(WorkflowRow) /\ Len(rows') = Len(rows) /\ DOMAIN rows' = DOMAIN rows
             /\ \A k \in DOMAIN rows : RowFollows(k)
  <2>1. rows' \in Seq(WorkflowRow) /\ Len(rows') = Len(rows) /\ DOMAIN rows' = DOMAIN rows
    BY <1>0, <1>1
  <2>2. \A k \in DOMAIN rows : rows'[k] = IF k = i THEN r ELSE rows[k]
    BY <1>0, <1>1
  <2> QED BY <1>0, <1>1, <2>1, <2>2 DEF RowFollows, StatusMoves
<1>2. CASE rows' = rows /\ suppressed \subseteq suppressed' /\ suppressed' \subseteq Patterns
  BY <1>0, <1>2 DEF RowFollows, StatusMoves
<1>3. CASE RowRefreshed
  <2>1. PICK i \in DOMAIN rows, d \in Definitions : rows' = Refreshed(i, d) /\ suppressed' = suppressed
    BY <1>3 DEF RowRefreshed
  <2> DEFINE r == [rows[i] EXCEPT !.definition = d, !.trust = LearnedTrust(d)]
  <2>4. r \in WorkflowRow /\ r.status = rows[i].status /\ r.pattern = rows[i].pattern
    BY <1>0, RowWrites
  <2>2. rows' = [[rows EXCEPT ![i].definition = d] EXCEPT ![i].trust = LearnedTrust(d)]
    BY <2>1 DEF Refreshed
  <2>3. rows' = [rows EXCEPT ![i] = r]
    BY <1>0, <2>2
  <2> HIDE DEF r
  <2>5. StatusMoves(i, r.status)
    BY <2>4 DEF StatusMoves
  <2>6. /\ rows' \in Seq(WorkflowRow) /\ Len(rows') = Len(rows) /\ DOMAIN rows' = DOMAIN rows
        /\ \A k \in DOMAIN rows : RowFollows(k)
    BY <1>1, <2>3, <2>4, <2>5
  <2> QED BY <1>0, <2>1, <2>6
<1>4. CASE RowAdded
  <2>1. PICK p \in Patterns, d \in Definitions : rows' = Append(rows, Proposal(p, d)) /\ suppressed' = suppressed
    BY <1>4 DEF RowAdded
  <2>2. PICK r \in WorkflowRow : r = Proposal(p, d) /\ r.status = "proposed"
    BY ProposalIsRow DEF Proposal
  <2>3. /\ rows' \in Seq(WorkflowRow) /\ Len(rows') = Len(rows) + 1 /\ rows'[Len(rows) + 1] = r
        /\ \A k \in DOMAIN rows : k \in DOMAIN rows' /\ rows'[k] = rows[k]
        /\ \A k \in DOMAIN rows' \ DOMAIN rows : k = Len(rows) + 1
    BY <1>0, <2>1, <2>2
  <2>4. \A k \in DOMAIN rows : RowFollows(k)
    BY <1>0, <2>3 DEF RowFollows, StatusMoves
  <2> QED BY <1>0, <1>4, <2>1, <2>2, <2>3, <2>4
<1>5. CASE RowAccepted
  <2>1. PICK i \in DOMAIN rows :
         /\ rows' = rows \/ rows' = [rows EXCEPT ![i].status = "accepted"]
         /\ \/ backend = "memory" /\ Acceptable(i)
            \/ \E q \in Requests : request[q].op = "accept" /\ request[q].row = i
    BY <1>5 DEF RowAccepted
  <2> DEFINE r == [rows[i] EXCEPT !.status = "accepted"]
  <2>3. r \in WorkflowRow /\ r.status = "accepted" /\ r.pattern = rows[i].pattern
    BY <1>0, RowWrites DEF WorkflowStatus
  <2>4. CASE rows' # rows
    <3>1. rows' = [rows EXCEPT ![i] = r]
      BY <2>1, <2>4
    <3> HIDE DEF r
    <3>2. StatusMoves(i, r.status)
      BY <2>1, <2>3 DEF StatusMoves
    <3>3. /\ rows' \in Seq(WorkflowRow) /\ Len(rows') = Len(rows) /\ DOMAIN rows' = DOMAIN rows
          /\ \A k \in DOMAIN rows : RowFollows(k)
      BY <1>1, <2>3, <3>1, <3>2
    <3> QED BY <1>0, <1>5, <3>3 DEF RowAccepted
  <2> QED BY <1>0, <1>2, <1>5, <2>4 DEF RowAccepted
<1>6. CASE RowRejected
  <2>1. PICK i \in DOMAIN rows :
         /\ suppressed' = suppressed \cup {rows[i].pattern}
         /\ rows' = [rows EXCEPT ![i].status = "rejected"] \/ rows' = rows
    BY <1>6 DEF RowRejected
  <2> DEFINE r == [rows[i] EXCEPT !.status = "rejected"]
  <2>3. r \in WorkflowRow /\ r.status = "rejected" /\ r.pattern = rows[i].pattern
    BY <1>0, RowWrites DEF WorkflowStatus
  <2>5. rows[i].pattern \in suppressed' /\ suppressed \subseteq suppressed' /\ suppressed' \subseteq Patterns
    BY <1>0, <2>1 DEF WorkflowRow
  <2>4. CASE rows' # rows
    <3>1. rows' = [rows EXCEPT ![i] = r]
      BY <2>1, <2>4
    <3> HIDE DEF r
    <3>2. StatusMoves(i, r.status)
      BY <2>3, <2>5 DEF StatusMoves
    <3>3. /\ rows' \in Seq(WorkflowRow) /\ Len(rows') = Len(rows) /\ DOMAIN rows' = DOMAIN rows
          /\ \A k \in DOMAIN rows : RowFollows(k)
      BY <1>1, <2>3, <3>1, <3>2
    <3> QED BY <1>0, <2>5, <3>3
  <2> QED BY <1>0, <1>2, <2>4, <2>5
<1>7. CASE RowsKept
  BY <1>0, <1>2, <1>7 DEF RowsKept
<1> QED BY <1>3, <1>4, <1>5, <1>6, <1>7, LearningWrites

LEMMA LearningRequests ==
    ASSUME LearningInv, [LearningNext]_learningVars
    PROVE  /\ request' \in [Requests -> LearningRequest]
           /\ \A q \in Requests :
                /\ request'[q].row \in 0..Len(rows')
                /\ request'[q].op \in {"refresh", "accept", "reject"} => request'[q].row \in 1..Len(rows')
                /\ backend' # "postgres" => request'[q] = NoRequest
           /\ backend' \in {"unset", "memory", "postgres"}
           /\ backend # "unset" => backend' = backend
<1>0. /\ request \in [Requests -> LearningRequest] /\ rows \in Seq(WorkflowRow)
      /\ backend \in {"unset", "memory", "postgres"}
      /\ Len(rows) \in Nat /\ Len(rows') \in Nat /\ Len(rows) <= Len(rows')
      /\ \A i \in DOMAIN rows : rows[i] \in WorkflowRow /\ i \in 1..Len(rows)
  BY RowsFollow DEF LearningInv, LearningShape
<1>1. \A q \in Requests : /\ request[q].row \in 0..Len(rows')
                          /\ request[q].op \in {"refresh", "accept", "reject"} => request[q].row \in 1..Len(rows')
  <2> TAKE q \in Requests
  <2>1. request[q].row \in 0..Len(rows) /\ (request[q].op \in {"refresh", "accept", "reject"} => request[q].row \in 1..Len(rows))
    BY DEF LearningInv
  <2> QED BY <1>0, <2>1
<1>2. ASSUME NEW q \in Requests, NEW r \in LearningRequest, request' = [request EXCEPT ![q] = r],
             r.row \in 0..Len(rows'), r.op \in {"refresh", "accept", "reject"} => r.row \in 1..Len(rows'),
             backend' # "postgres" => r = NoRequest, backend' = backend
      PROVE  /\ request' \in [Requests -> LearningRequest]
             /\ \A w \in Requests :
                  /\ request'[w].row \in 0..Len(rows')
                  /\ request'[w].op \in {"refresh", "accept", "reject"} => request'[w].row \in 1..Len(rows')
                  /\ backend' # "postgres" => request'[w] = NoRequest
  <2>1. \A w \in Requests : request'[w] = IF w = q THEN r ELSE request[w]
    BY <1>0, <1>2
  <2> QED BY <1>0, <1>1, <1>2, <2>1 DEF LearningInv
<1>3. CASE request' = request /\ (backend' = backend \/ \E b \in {"memory", "postgres"} : Configure(b))
  BY <1>0, <1>1, <1>3 DEF LearningInv, Configure
<1>4. ASSUME NEW q \in Requests, request' = [request EXCEPT ![q] = NoRequest], backend' = backend
      PROVE  /\ request' \in [Requests -> LearningRequest]
             /\ \A w \in Requests :
                  /\ request'[w].row \in 0..Len(rows')
                  /\ request'[w].op \in {"refresh", "accept", "reject"} => request'[w].row \in 1..Len(rows')
                  /\ backend' # "postgres" => request'[w] = NoRequest
  <2>1. NoRequest.row \in 0..Len(rows') /\ NoRequest.op \notin {"refresh", "accept", "reject"}
    BY <1>0, NoRequestIs
  <2> QED BY <1>2, <1>4, <2>1, NoRequestIs
<1>5. ASSUME NEW q \in Requests, NEW p \in Patterns, NEW d \in Definitions, MineCheck(q, p, d)
      PROVE  \E r \in LearningRequest : /\ request' = [request EXCEPT ![q] = r] /\ r.row = 0 /\ r.op = "check"
                                        /\ backend = "postgres" /\ backend' = backend
  <2> DEFINE r == [NoRequest EXCEPT !.op = "check", !.pattern = {p}, !.definition = {d}]
  <2>1. r \in LearningRequest /\ r.row = 0 /\ r.op = "check"
    BY NoRequestIs DEF LearningRequest
  <2>2. request' = [request EXCEPT ![q] = r] /\ backend = "postgres" /\ backend' = backend
    BY <1>5 DEF MineCheck
  <2> QED BY <2>1, <2>2
<1>6. ASSUME NEW q \in Requests, NEW p \in Patterns, MineFind(q, p)
      PROVE  \E r \in LearningRequest :
                /\ request' = [request EXCEPT ![q] = r] /\ r.row \in 0..Len(rows)
                /\ r.op \in {"insert", "refresh"} /\ (r.op = "refresh" => r.row \in 1..Len(rows))
                /\ backend = "postgres" /\ backend' = backend
  <2>1. request[q].op = "check" /\ request[q] \in LearningRequest /\ backend = "postgres" /\ backend' = backend
    BY <1>0, <1>6, NoRequestIs DEF MineFind, LearningInv
  <2>2. CASE request' = [request EXCEPT ![q].op = "insert"]
    <3> DEFINE r == [request[q] EXCEPT !.op = "insert"]
    <3>1. r \in LearningRequest /\ r.row = request[q].row /\ r.op = "insert"
      BY <2>1 DEF LearningRequest
    <3>2. request' = [request EXCEPT ![q] = r]
      BY <2>2
    <3>3. request[q].row \in 0..Len(rows)
      BY DEF LearningInv
    <3> HIDE DEF r
    <3> QED BY <2>1, <3>1, <3>2, <3>3
  <2>3. ASSUME NEW i \in Existing(p), request' = [request EXCEPT ![q].op = "refresh", ![q].row = i]
        PROVE  \E r \in LearningRequest :
                /\ request' = [request EXCEPT ![q] = r] /\ r.row = i /\ r.op = "refresh"
    <3> DEFINE r == [request[q] EXCEPT !.op = "refresh", !.row = i]
    <3>0. i \in Nat
      BY <1>0 DEF Existing
    <3>1. r \in LearningRequest /\ r.row = i /\ r.op = "refresh"
      BY <2>1, <3>0 DEF LearningRequest
    <3>2. request' = [request EXCEPT ![q] = r]
      BY <1>0, <2>3
    <3> HIDE DEF r
    <3> QED BY <3>1, <3>2
  <2>4. \A i \in Existing(p) : i \in 1..Len(rows) /\ i \in 0..Len(rows)
    BY <1>0 DEF Existing
  <2>5. \/ request' = [request EXCEPT ![q].op = "insert"]
        \/ \E i \in Existing(p) : request' = [request EXCEPT ![q].op = "refresh", ![q].row = i]
    BY <1>6 DEF MineFind
  <2> QED BY <2>1, <2>2, <2>3, <2>4, <2>5
<1>7. ASSUME NEW q \in Requests, NEW i \in DOMAIN rows, AcceptRead(q, i) \/ RejectRead(q, i)
      PROVE  \E r \in LearningRequest :
                /\ request' = [request EXCEPT ![q] = r] /\ r.row = i
                /\ backend = "postgres" /\ backend' = backend
  <2>1. PICK op \in {"accept", "reject"} : Asked(q, op, i)
    BY <1>7 DEF AcceptRead, RejectRead
  <2> DEFINE r == [NoRequest EXCEPT !.op = op, !.row = i, !.seen = rows[i].status]
  <2>2. rows[i].status \in WorkflowStatus /\ i \in Nat
    BY <1>0 DEF WorkflowRow
  <2>3. r \in LearningRequest /\ r.row = i
    BY <2>2, NoRequestIs DEF LearningRequest
  <2>4. request' = [request EXCEPT ![q] = r]
    BY <2>1 DEF Asked
  <2>5. backend = "postgres" /\ backend' = backend
    BY <1>7 DEF AcceptRead, RejectRead
  <2> HIDE DEF r
  <2> QED BY <2>3, <2>4, <2>5
<1>8. ASSUME NEW q \in Requests, RejectFlush(q)
      PROVE  \E r \in LearningRequest :
                /\ request' = [request EXCEPT ![q] = r] /\ r.row \in 1..Len(rows)
                /\ backend = "postgres" /\ backend' = backend
  <2>1. /\ request[q].op = "reject" /\ request[q] \in LearningRequest /\ backend = "postgres" /\ backend' = backend
        /\ request[q].row \in 1..Len(rows)
    BY <1>0, <1>8, NoRequestIs DEF RejectFlush, LearningInv
  <2> DEFINE b == rows[request[q].row].pattern \notin suppressed
             r == [request[q] EXCEPT !.locks = TRUE, !.inserts = b]
  <2>2. r \in LearningRequest /\ r.row = request[q].row
    BY <2>1 DEF LearningRequest
  <2>3. request' = [request EXCEPT ![q] = r]
    BY <1>0, <1>8 DEF RejectFlush
  <2> HIDE DEF r
  <2> QED BY <2>1, <2>2, <2>3
<1>9. \/ request' = request /\ (backend' = backend \/ \E b \in {"memory", "postgres"} : Configure(b))
      \/ \E q \in Requests :
            \/ \E p \in Patterns, d \in Definitions : MineCheck(q, p, d)
            \/ \E p \in Patterns : MineFind(q, p)
            \/ \E i \in DOMAIN rows : AcceptRead(q, i) \/ RejectRead(q, i)
            \/ RejectFlush(q)
            \/ request' = [request EXCEPT ![q] = NoRequest] /\ backend' = backend
  BY DEF LearningNext, learningVars, Configure, MemoryPut, MemoryAccept, MemoryReject, MineCommit,
         AcceptCommit, RejectCommit, RequestFails
<1>10. ASSUME NEW q \in Requests, NEW r \in LearningRequest, request' = [request EXCEPT ![q] = r],
              r.row \in 0..Len(rows), r.op \in {"refresh", "accept", "reject"} => r.row \in 1..Len(rows),
              backend = "postgres", backend' = backend
       PROVE  /\ request' \in [Requests -> LearningRequest]
              /\ \A w \in Requests :
                   /\ request'[w].row \in 0..Len(rows')
                   /\ request'[w].op \in {"refresh", "accept", "reject"} => request'[w].row \in 1..Len(rows')
                   /\ backend' # "postgres" => request'[w] = NoRequest
  <2>1. r.row \in 0..Len(rows') /\ (r.op \in {"refresh", "accept", "reject"} => r.row \in 1..Len(rows'))
    BY <1>0, <1>10
  <2> QED BY <1>2, <1>10, <2>1
<1>11. \A i \in DOMAIN rows : i \in 0..Len(rows) /\ i \in 1..Len(rows)
  BY <1>0
<1>12. \A k \in 1..Len(rows) : k \in 0..Len(rows)
  BY <1>0
<1>13. 0 \in 0..Len(rows)
  BY <1>0
<1>14. backend' \in {"unset", "memory", "postgres"} /\ (backend # "unset" => backend' = backend)
  BY <1>0, <1>5, <1>6, <1>7, <1>8, <1>9 DEF Configure
<1>15. CASE \E q \in Requests : \E p \in Patterns, d \in Definitions : MineCheck(q, p, d)
  <2>1. PICK q \in Requests : \E r \in LearningRequest :
            /\ request' = [request EXCEPT ![q] = r] /\ r.row = 0 /\ r.op = "check"
            /\ backend = "postgres" /\ backend' = backend
    BY <1>5, <1>15
  <2>2. PICK r \in LearningRequest :
            /\ request' = [request EXCEPT ![q] = r] /\ r.row = 0 /\ r.op = "check"
            /\ backend = "postgres" /\ backend' = backend
    BY <2>1
  <2>3. r.row \in 0..Len(rows) /\ (r.op \in {"refresh", "accept", "reject"} => r.row \in 1..Len(rows))
    BY <1>13, <2>2
  <2> QED BY <1>10, <1>14, <2>2, <2>3
<1>16. CASE \E q \in Requests : \E p \in Patterns : MineFind(q, p)
  <2>1. PICK q \in Requests : \E r \in LearningRequest :
                /\ request' = [request EXCEPT ![q] = r] /\ r.row \in 0..Len(rows)
                /\ r.op \in {"insert", "refresh"} /\ (r.op = "refresh" => r.row \in 1..Len(rows))
                /\ backend = "postgres" /\ backend' = backend
    BY <1>6, <1>16
  <2> QED BY <1>10, <1>14, <2>1
<1>17. CASE \E q \in Requests : \E i \in DOMAIN rows : AcceptRead(q, i) \/ RejectRead(q, i)
  BY <1>7, <1>10, <1>11, <1>14, <1>17
<1>18. CASE \E q \in Requests : RejectFlush(q)
  BY <1>8, <1>10, <1>12, <1>14, <1>18
<1> QED BY <1>3, <1>4, <1>9, <1>14, <1>15, <1>16, <1>17, <1>18

(* In the memory store a row that lives lived before, or is the first of a    *)
(* pattern that is not suppressed.                                            *)
LEMMA MemoryRows ==
    ASSUME LearningInv, [LearningNext]_learningVars, backend' = "memory"
    PROVE  MemoryKeepsPatterns'
<1>0. /\ rows \in Seq(WorkflowRow)
      /\ \A i \in DOMAIN rows : RowFollows(i) /\ rows[i] \in WorkflowRow
      /\ \A i \in DOMAIN rows' \ DOMAIN rows : RowAdded /\ i = Len(rows) + 1
  BY RowsFollow DEF LearningInv, LearningShape
<1>1. CASE backend = "memory"
  <2>1. \A q \in Requests : request[q] = NoRequest
    BY <1>1 DEF LearningInv
  <2>2. \A q \in Requests : request[q].op # "accept" /\ request[q].pattern = {}
    BY <2>1, NoRequestIs
  <2>3. \A i \in DOMAIN rows : rows'[i].status # "rejected" =>
            rows[i].status # "rejected" /\ rows'[i].pattern = rows[i].pattern
    BY <1>0, <2>2 DEF RowFollows, StatusMoves, Acceptable
  <2>4. CASE RowAdded
    <3>1. PICK p \in Patterns, d \in Definitions :
            rows' = Append(rows, Proposal(p, d)) /\ p \notin suppressed /\ Existing(p) = {}
      BY <1>1, <2>2, <2>4 DEF RowAdded
    <3>2. /\ \A i \in DOMAIN rows' \ DOMAIN rows : i = Len(rows) + 1
          /\ rows'[Len(rows) + 1] = Proposal(p, d)
      BY <1>0, <3>1, ProposalIsRow
    <3>3. rows'[Len(rows) + 1].pattern = p
      BY <3>2 DEF Proposal
    <3>4. suppressed' = suppressed
      BY <2>4 DEF RowAdded
    <3>5. \A r \in Patterns : r # p => LiveRows(r)' \subseteq LiveRows(r)
      BY <2>3, <3>2, <3>3 DEF LiveRows
    <3>6. LiveRows(p)' \subseteq {Len(rows) + 1}
      BY <2>3, <3>1, <3>2 DEF LiveRows, Existing
    <3> QED BY <1>1, <3>1, <3>4, <3>5, <3>6 DEF LearningInv, MemoryKeepsPatterns
  <2>5. CASE ~RowAdded
    <3>1. \A p \in Patterns : LiveRows(p)' \subseteq LiveRows(p)
      BY <1>0, <2>3, <2>5 DEF LiveRows
    <3>2. CASE suppressed' = suppressed
      BY <1>1, <3>1, <3>2 DEF LearningInv, MemoryKeepsPatterns
    <3>3. CASE RowRejected
      <4>a. PICK i \in DOMAIN rows :
              /\ suppressed' = suppressed \cup {rows[i].pattern}
              /\ \/ rows' = [rows EXCEPT ![i].status = "rejected"]
                 \/ rows' = rows /\ backend = "postgres"
        BY <3>3 DEF RowRejected
      <4>1. /\ suppressed' = suppressed \cup {rows[i].pattern}
            /\ rows' = [rows EXCEPT ![i].status = "rejected"]
        BY <1>1, <4>a
      <4>2. rows'[i].status = "rejected"
        <5> DEFINE r == [rows[i] EXCEPT !.status = "rejected"]
        <5>1. rows' = [rows EXCEPT ![i] = r]
          BY <4>1
        <5>2. r.status = "rejected"
          BY <1>0, RowWrites DEF WorkflowStatus
        <5> HIDE DEF r
        <5> QED BY <1>0, <5>1, <5>2
      <4>3. rows[i].status = "rejected" => rows[i].pattern \in suppressed
        BY DEF LearningInv
      <4>4. \A p \in Patterns : p \in suppressed' => LiveRows(p)' = {}
        <5> TAKE p \in Patterns
        <5>1. CASE p \in suppressed
          BY <1>1, <3>1, <5>1 DEF LearningInv, MemoryKeepsPatterns
        <5>2. CASE p \notin suppressed /\ p = rows[i].pattern
          <6>1. i \in LiveRows(p)
            BY <4>3, <5>2 DEF LiveRows
          <6>2. LiveRows(p) \subseteq {i}
            BY <1>1, <6>1 DEF LearningInv, MemoryKeepsPatterns
          <6>3. i \notin LiveRows(p)'
            BY <4>2 DEF LiveRows
          <6> QED BY <3>1, <6>2, <6>3
        <5> QED BY <4>1, <5>1, <5>2
      <4> QED BY <1>1, <3>1, <4>4 DEF LearningInv, MemoryKeepsPatterns
    <3>4. suppressed' = suppressed \/ RowRejected
      BY LearningWrites DEF RowsKept, RowRefreshed, RowAdded, RowAccepted
    <3> QED BY <3>2, <3>3, <3>4
  <2> QED BY <2>4, <2>5
<1>2. CASE backend = "unset"
  <2>1. \E b \in {"memory", "postgres"} : Configure(b)
    BY <1>2 DEF LearningNext, learningVars, Configure, MemoryPut, MemoryAccept, MemoryReject, MineCheck,
       MineFind, MineCommit, AcceptRead, AcceptCommit, RejectRead, RejectFlush, RejectCommit, RequestFails
  <2>2. rows' = <<>> /\ suppressed' = {}
    BY <1>2, <2>1 DEF LearningInv, Configure
  <2>3. \A p \in Patterns : LiveRows(p)' = {}
    BY <2>2 DEF LiveRows
  <2> QED BY <2>2, <2>3 DEF MemoryKeepsPatterns
<1>3. backend \in {"unset", "memory"}
  BY LearningRequests DEF LearningInv, LearningShape
<1> QED BY <1>1, <1>2, <1>3

LEMMA LearningInvNext ==
    ASSUME LearningInv, [LearningNext]_learningVars PROVE LearningInv'
<1>1. LearningShape'
  BY RowsFollow, LearningRequests DEF LearningShape
<1>2. backend' = "unset" => rows' = <<>> /\ suppressed' = {}
  <2> SUFFICES ASSUME backend' = "unset" PROVE rows' = <<>> /\ suppressed' = {}
    OBVIOUS
  <2>1. backend = "unset"
    BY LearningRequests DEF LearningInv, LearningShape
  <2>2. rows = <<>> /\ suppressed = {} /\ DOMAIN rows = {}
    BY <2>1 DEF LearningInv
  <2>3. \A q \in Requests : request[q].op = "none"
    BY <2>1, NoRequestIs DEF LearningInv
  <2> QED BY LearningWrites, <2>1, <2>2 DEF RowsKept, RowRefreshed, RowAdded, RowAccepted, RowRejected
<1>3. \A i \in DOMAIN rows' : rows'[i].status = "rejected" => rows'[i].pattern \in suppressed'
  BY RowsFollow DEF LearningInv, RowFollows, StatusMoves
<1>4. MemoryKeepsPatterns'
  BY MemoryRows DEF MemoryKeepsPatterns
<1> QED BY <1>1, <1>2, <1>3, <1>4, LearningRequests DEF LearningInv

(* A rejection holds: what revives a row is an acceptance that had read it,   *)
(* and a settled pattern stays without a live row (reject, upsert_proposed,   *)
(* is_suppressed), whatever requests overlap.                                 *)
THEOREM RejectionsHold == LearningSpec => RejectionIsForGood
<1>1. LearningInit => LearningInv
  <2> SUFFICES ASSUME LearningInit PROVE LearningInv
    OBVIOUS
  <2>1. rows \in Seq(WorkflowRow) /\ Len(rows) = 0 /\ DOMAIN rows = {}
    BY DEF LearningInit
  <2>2. \A q \in Requests : request[q] = NoRequest
    BY DEF LearningInit
  <2>3. request \in [Requests -> LearningRequest]
    BY NoRequestIs DEF LearningInit
  <2> QED BY <2>1, <2>2, <2>3, NoRequestIs DEF LearningInit, LearningInv, LearningShape, MemoryKeepsPatterns
<1>2. LearningInv => LearningTypeOK /\ MemoryKeepsPatterns
  <2> SUFFICES ASSUME LearningInv PROVE LearningTypeOK
    BY DEF LearningInv
  <2>1. \A i \in DOMAIN rows : rows[i] \in WorkflowRow
    BY DEF LearningInv, LearningShape
  <2> QED BY <2>1 DEF LearningInv, LearningShape, LearningTypeOK, WorkflowRow, WorkflowStatus
<1>3. ASSUME LearningInv, [LearningNext]_learningVars, NEW i \in DOMAIN rows
      PROVE  /\ rows[i].status = "rejected" /\ rows'[i].status # "rejected" =>
                  \E q \in Requests : request[q].op = "accept" /\ request[q].row = i
             /\ rows'[i].status = "rejected" => rows'[i].pattern \in suppressed'
  <2>1. RowFollows(i) /\ LearningInv'
    BY <1>3, RowsFollow, LearningInvNext
  <2>2. i \in DOMAIN rows'
    BY <2>1 DEF RowFollows
  <2> QED BY <2>1, <2>2 DEF RowFollows, StatusMoves, Acceptable, LearningInv
<1>4. ASSUME LearningInv, [LearningNext]_learningVars, NEW p \in suppressed, Settled(p)
      PROVE  Settled(p)'
  <2>0. /\ \A i \in DOMAIN rows : RowFollows(i)
        /\ \A i \in DOMAIN rows' \ DOMAIN rows : RowAdded /\ i = Len(rows) + 1
        /\ rows \in Seq(WorkflowRow) /\ request \in [Requests -> LearningRequest]
    BY <1>4, RowsFollow DEF LearningInv, LearningShape
  <2>1. LiveRows(p)' = {}
    <3>1. \A i \in DOMAIN rows : i \notin LiveRows(p)'
      <4> TAKE i \in DOMAIN rows
      <4>1. rows'[i].pattern = rows[i].pattern /\ StatusMoves(i, rows'[i].status)
        BY <2>0 DEF RowFollows
      <4>2. rows[i].pattern = p => rows[i].status = "rejected"
        BY <1>4 DEF Settled, LiveRows
      <4>3. rows[i].pattern = p => ~\E q \in Requests : request[q].op = "accept" /\ request[q].row = i
        BY <1>4 DEF Settled
      <4> QED BY <4>1, <4>2, <4>3 DEF LiveRows, StatusMoves, Acceptable
    <3>2. \A i \in DOMAIN rows' \ DOMAIN rows : rows'[i].pattern # p
      <4> TAKE i \in DOMAIN rows' \ DOMAIN rows
      <4>1. PICK r \in Patterns, d \in Definitions :
              /\ rows' = Append(rows, Proposal(r, d))
              /\ r \notin suppressed \/ \E q \in Requests : r \in request[q].pattern
        BY <2>0 DEF RowAdded
      <4>2. rows'[i] = Proposal(r, d) /\ rows'[i].pattern = r
        BY <2>0, <4>1, ProposalIsRow DEF Proposal
      <4> QED BY <1>4, <4>1, <4>2 DEF Settled
    <3> QED BY <3>1, <3>2 DEF LiveRows
  <2>2. \A q \in Requests : p \notin request'[q].pattern
    <3>1. \A q \in Requests : \/ request'[q].pattern = request[q].pattern
                              \/ request'[q].pattern = {}
                              \/ \E r \in Patterns : r \notin suppressed /\ request'[q].pattern = {r}
      <4>1. CASE request' = request
        BY <4>1
      <4>2. ASSUME NEW w \in Requests, request' = [request EXCEPT ![w] = NoRequest]
            PROVE  \A q \in Requests : request'[q].pattern = request[q].pattern \/ request'[q].pattern = {}
        BY <2>0, <4>2, NoRequestIs
      <4>3. ASSUME NEW w \in Requests, NEW r \in Patterns, NEW d \in Definitions, MineCheck(w, r, d)
            PROVE  \A q \in Requests : request'[q].pattern = request[q].pattern
                                       \/ (r \notin suppressed /\ request'[q].pattern = {r})
        <5> DEFINE e == [NoRequest EXCEPT !.op = "check", !.pattern = {r}, !.definition = {d}]
        <5>1. e.pattern = {r}
          BY DEF NoRequest
        <5>2. request' = [request EXCEPT ![w] = e] /\ r \notin suppressed
          BY <4>3 DEF MineCheck, MayPropose
        <5> HIDE DEF e
        <5> QED BY <2>0, <5>1, <5>2
      <4>4. ASSUME NEW w \in Requests, NEW r \in Patterns, MineFind(w, r)
            PROVE  \A q \in Requests : request'[q].pattern = request[q].pattern
        <5> USE <2>0
        <5>1. request[w] \in LearningRequest
          OBVIOUS
        <5>2. CASE request' = [request EXCEPT ![w].op = "insert"]
          BY <5>1, <5>2 DEF LearningRequest
        <5>3. ASSUME NEW i, request' = [request EXCEPT ![w].op = "refresh", ![w].row = i]
              PROVE  \A q \in Requests : request'[q].pattern = request[q].pattern
          BY <5>1, <5>3 DEF LearningRequest
        <5> QED BY <4>4, <5>2, <5>3 DEF MineFind
      <4>5. ASSUME NEW w \in Requests, NEW i \in DOMAIN rows, AcceptRead(w, i) \/ RejectRead(w, i)
            PROVE  \A q \in Requests : request'[q].pattern = request[q].pattern \/ request'[q].pattern = {}
        BY <2>0, <4>5 DEF AcceptRead, RejectRead, Asked, NoRequest
      <4>6. ASSUME NEW w \in Requests, RejectFlush(w)
            PROVE  \A q \in Requests : request'[q].pattern = request[q].pattern
        BY <2>0, <4>6 DEF RejectFlush, LearningRequest
      <4>7. \/ request' = request
            \/ \E w \in Requests :
                  \/ request' = [request EXCEPT ![w] = NoRequest]
                  \/ \E r \in Patterns, d \in Definitions : MineCheck(w, r, d)
                  \/ \E r \in Patterns : MineFind(w, r)
                  \/ \E i \in DOMAIN rows : AcceptRead(w, i) \/ RejectRead(w, i)
                  \/ RejectFlush(w)
        BY <1>4 DEF LearningNext, learningVars, Configure, MemoryPut, MemoryAccept, MemoryReject, MineCommit,
           AcceptCommit, RejectCommit, RequestFails
      <4> QED BY <4>1, <4>2, <4>3, <4>4, <4>5, <4>6, <4>7
    <3> QED BY <1>4, <3>1 DEF Settled
  <2>3. \A q \in Requests : request'[q].op = "accept" => rows'[request'[q].row].pattern # p
    <3>1. \A q \in Requests : request'[q].op = "accept" =>
             \/ request[q].op = "accept" /\ request'[q].row = request[q].row
             \/ \E i \in DOMAIN rows : Acceptable(i) /\ request'[q].row = i
      <4>1. ASSUME NEW w \in Requests, NEW i \in DOMAIN rows, AcceptRead(w, i)
            PROVE  \A q \in Requests : request'[q] = request[q] \/ (Acceptable(i) /\ request'[q].row = i)
        BY <2>0, <4>1 DEF AcceptRead, Asked, NoRequest
      <4>2. \A q \in Requests : request'[q].op = "accept" =>
               request'[q] = request[q] \/ \E i \in DOMAIN rows : AcceptRead(q, i)
        <5>1. ASSUME NEW w \in Requests, NEW r \in Patterns, NEW d \in Definitions, MineCheck(w, r, d)
              PROVE  \A q \in Requests : request'[q] = request[q] \/ request'[q].op = "check"
          BY <2>0, <5>1 DEF MineCheck, NoRequest
        <5>2. ASSUME NEW w \in Requests, NEW r \in Patterns, MineFind(w, r)
              PROVE  \A q \in Requests : request'[q] = request[q] \/ request'[q].op \in {"insert", "refresh"}
          BY <2>0, <5>2 DEF MineFind, LearningRequest
        <5>3. ASSUME NEW w \in Requests, NEW i \in DOMAIN rows, RejectRead(w, i)
              PROVE  \A q \in Requests : request'[q] = request[q] \/ request'[q].op = "reject"
          BY <2>0, <5>3 DEF RejectRead, Asked, NoRequest
        <5>4. ASSUME NEW w \in Requests, RejectFlush(w)
              PROVE  \A q \in Requests : request'[q] = request[q] \/ request'[q].op = "reject"
          BY <2>0, <5>4 DEF RejectFlush, LearningRequest
        <5>5. ASSUME NEW w \in Requests, request' = [request EXCEPT ![w] = NoRequest]
              PROVE  \A q \in Requests : request'[q] = request[q] \/ request'[q].op = "none"
          BY <2>0, <5>5, NoRequestIs
        <5>6. ASSUME NEW w \in Requests, NEW i \in DOMAIN rows, AcceptRead(w, i)
              PROVE  \A q \in Requests : request'[q] = request[q] \/ AcceptRead(q, i)
          BY <2>0, <5>6 DEF AcceptRead, Asked
        <5>7. \/ request' = request
              \/ \E w \in Requests :
                    \/ request' = [request EXCEPT ![w] = NoRequest]
                    \/ \E r \in Patterns, d \in Definitions : MineCheck(w, r, d)
                    \/ \E r \in Patterns : MineFind(w, r)
                    \/ \E i \in DOMAIN rows : AcceptRead(w, i) \/ RejectRead(w, i)
                    \/ RejectFlush(w)
          BY <1>4 DEF LearningNext, learningVars, Configure, MemoryPut, MemoryAccept, MemoryReject, MineCommit,
             AcceptCommit, RejectCommit, RequestFails
        <5> QED BY <5>1, <5>2, <5>3, <5>4, <5>5, <5>6, <5>7
      <4> QED BY <4>1, <4>2
    <3>2. \A i \in DOMAIN rows : rows[i].pattern = p => ~Acceptable(i)
      BY <1>4 DEF Settled, LiveRows, Acceptable
    <3>3. \A q \in Requests : request[q].op = "accept" =>
             request[q].row \in DOMAIN rows /\ rows[request[q].row].pattern # p
      BY <1>4, <2>0 DEF Settled, LearningInv
    <3> QED BY <2>0, <3>1, <3>2, <3>3 DEF RowFollows
  <2> QED BY <2>1, <2>2, <2>3 DEF Settled
<1>5. LearningInv /\ [LearningNext]_learningVars => LearningInv'
  BY LearningInvNext
<1>6. LearningInv /\ [LearningNext]_learningVars =>
        [\A i \in DOMAIN rows :
            /\ rows[i].status = "rejected" /\ rows'[i].status # "rejected" =>
                  \E q \in Requests : request[q].op = "accept" /\ request[q].row = i
            /\ rows'[i].status = "rejected" => rows'[i].pattern \in suppressed']_learningVars
  BY <1>3
<1>7. LearningInv /\ [LearningNext]_learningVars =>
        [\A p \in suppressed : Settled(p) => Settled(p)']_learningVars
  BY <1>4
<1>8. LearningSpec => [](LearningTypeOK /\ MemoryKeepsPatterns)
  BY <1>1, <1>2, <1>5, PTL DEF LearningSpec
<1>9. LearningSpec => RejectionHolds
  BY <1>1, <1>5, <1>6, PTL DEF LearningSpec, RejectionHolds
<1>10. LearningSpec => SuppressedForGood
  BY <1>1, <1>5, <1>7, PTL DEF LearningSpec, SuppressedForGood
<1> QED BY <1>8, <1>9, <1>10 DEF RejectionIsForGood

------------------------------------------------------------------------------
(* The token vault.                                                           *)

VaultWork ==
    [step : {"none", "set", "index", "list", "load", "truncate", "write"}, account : SUBSET Accounts,
     token : Nat, loaded : SUBSET (Accounts \cup [Accounts -> Nat])]

(* What a process has loaded is the index with the keyring, and with the file *)
(* the tokens of some earlier moment.                                         *)
VaultInv ==
    /\ issued \in Nat /\ crashes \in Nat /\ kind \in {"unset", "file", "keyring"}
    /\ process \in [Processes -> VaultWork]
    /\ VaultTypeOK
    /\ \A p \in Processes :
         /\ process[p].step = "set" => kind = "keyring"
         /\ process[p].step \in {"load", "truncate", "write"} => kind = "file"
         /\ process[p].step = "list" => process[p].loaded \subseteq Accounts
         /\ process[p].step \in {"truncate", "write"} =>
              process[p].loaded \subseteq [Accounts -> 0..issued]

LEMMA NoWorkIs ==
    /\ NoWork \in VaultWork /\ NoWork.step = "none" /\ NoWork.token = 0 /\ NoWork.account = {}
BY DEF NoWork, VaultWork

Starting(st, a, n) == [NoWork EXCEPT !.step = st, !.account = {a}, !.token = n]

LEMMA StartsWork ==
    ASSUME NEW a \in Accounts, NEW n \in Nat, NEW st \in {"set", "load"}
    PROVE  /\ Starting(st, a, n) \in VaultWork
           /\ Starting(st, a, n).step = st /\ Starting(st, a, n).token = n
<1>1. ASSUME NEW r \in VaultWork
      PROVE  /\ [r EXCEPT !.step = st, !.account = {a}, !.token = n] \in VaultWork
             /\ [r EXCEPT !.step = st, !.account = {a}, !.token = n].step = st
             /\ [r EXCEPT !.step = st, !.account = {a}, !.token = n].token = n
  BY DEF VaultWork
<1> QED BY <1>1, NoWorkIs DEF Starting

(* Each step is one of these, as far as its process and the tokens go.        *)
VaultBegins(p) ==
    /\ process[p] = NoWork /\ kind # "unset"
    /\ \E a \in Accounts, n \in 0..issued' :
         process' = [process EXCEPT ![p] = Starting(FirstStep, a, n)]
    /\ issued' \in {issued, issued + 1}
    /\ UNCHANGED <<kind, stored, listed, json, crashes, past>>

LEMMA VaultSteps ==
    ASSUME VaultInv, [VaultNext]_vaultVars
    PROVE  \/ /\ UNCHANGED <<stored, listed, json, issued, process, crashes, past>>
              /\ kind' = kind \/ (kind = "unset" /\ kind' \in {"file", "keyring"})
           \/ \E p \in Processes :
                \/ VaultBegins(p) \/ (\E a \in Accounts : SetEntry(p, a))
                \/ ReadIndex(p) \/ WriteIndex(p) \/ LoadFile(p) \/ Truncate(p) \/ WriteFile(p) \/ Dies(p)
<1>1. ASSUME NEW p \in Processes, NEW a \in Accounts, Login(p, a) \/ UseToken(p, a) \/ Logout(p, a)
      PROVE  VaultBegins(p)
  <2>1. issued \in Nat
    BY DEF VaultInv
  <2>2. CASE Login(p, a) \/ UseToken(p, a)
    <3>1. issued' = issued + 1 /\ issued' \in 0..issued'
      BY <2>1, <2>2 DEF Login, UseToken
    <3> QED BY <2>2, <3>1 DEF Login, UseToken, Begin, VaultBegins, Starting
  <2>3. CASE Logout(p, a)
    <3>1. issued' = issued /\ 0 \in 0..issued'
      BY <2>1, <2>3 DEF Logout
    <3> QED BY <2>3, <3>1 DEF Logout, Begin, VaultBegins, Starting
  <2> QED BY <1>1, <2>2, <2>3
<1>2. CASE UNCHANGED vaultVars
  BY <1>2 DEF vaultVars, past
<1>3. CASE VaultNext
  <2>1. CASE \E k \in {"file", "keyring"} : Install(k)
    BY <2>1 DEF Install
  <2>2. CASE \E n \in 1..MaxIssued : Expires(n)
    BY <2>2 DEF Expires
  <2> QED BY <1>1, <1>3, <2>1, <2>2 DEF VaultNext
<1> QED BY <1>2, <1>3

(* Only the work of one process changes, and what it is now at fits.          *)
WorkChanges(p, w) ==
    /\ w \in VaultWork /\ process' = [process EXCEPT ![p] = w]
    /\ issued' \in Nat /\ issued <= issued' /\ crashes' \in Nat /\ kind' = kind
    /\ stored' \in [Accounts -> 0..issued'] /\ held' \in [Accounts -> 0..issued']
    /\ listed' \subseteq Accounts /\ (json' # "whole" => kind = "file")
    /\ w.token \in 0..issued'
    /\ w.step = "set" => kind = "keyring"
    /\ w.step \in {"load", "truncate", "write"} => kind = "file"
    /\ w.step = "list" => w.loaded \subseteq Accounts
    /\ w.step \in {"truncate", "write"} => w.loaded \subseteq [Accounts -> 0..issued]

LEMMA WorkFits ==
    ASSUME VaultInv, NEW p \in Processes, NEW w, WorkChanges(p, w) PROVE VaultInv'
<1>0. /\ issued \in Nat /\ crashes \in Nat /\ kind \in {"unset", "file", "keyring"}
      /\ process \in [Processes -> VaultWork]
      /\ stored \in [Accounts -> 0..issued] /\ held \in [Accounts -> 0..issued]
      /\ listed \subseteq Accounts /\ (json # "whole" => kind = "file")
      /\ \A q \in Processes :
           /\ process[q].token \in 0..issued
           /\ process[q].step = "set" => kind = "keyring"
           /\ process[q].step \in {"load", "truncate", "write"} => kind = "file"
           /\ process[q].step = "list" => process[q].loaded \subseteq Accounts
           /\ process[q].step \in {"truncate", "write"} =>
                process[q].loaded \subseteq [Accounts -> 0..issued]
  BY DEF VaultInv, VaultTypeOK
<1>1. \A q \in Processes : process'[q] = IF q = p THEN w ELSE process[q]
  BY <1>0 DEF WorkChanges
<1>2. process' \in [Processes -> VaultWork]
  BY <1>0 DEF WorkChanges
<1>3. 0..issued \subseteq 0..issued' /\ [Accounts -> 0..issued] \subseteq [Accounts -> 0..issued']
  BY <1>0 DEF WorkChanges
<1>4. \A q \in Processes :
         /\ process'[q].token \in 0..issued'
         /\ process'[q].step = "set" => kind' = "keyring"
         /\ process'[q].step \in {"load", "truncate", "write"} => kind' = "file"
         /\ process'[q].step = "list" => process'[q].loaded \subseteq Accounts
         /\ process'[q].step \in {"truncate", "write"} =>
              process'[q].loaded \subseteq [Accounts -> 0..issued']
  <2> TAKE q \in Processes
  <2>1. CASE q = p
    BY <1>1, <1>3, <2>1 DEF WorkChanges
  <2>2. CASE q # p
    <3>1. process'[q] = process[q] /\ process[q].token \in 0..issued
      BY <1>0, <1>1, <2>2
    <3> QED BY <1>0, <1>3, <3>1 DEF WorkChanges
  <2> QED BY <2>1, <2>2
<1> QED BY <1>0, <1>2, <1>4 DEF WorkChanges, VaultInv, VaultTypeOK

LEMMA VaultInvNext ==
    ASSUME VaultInv, [VaultNext]_vaultVars PROVE VaultInv'
<1>0. /\ issued \in Nat /\ crashes \in Nat /\ kind \in {"unset", "file", "keyring"}
      /\ process \in [Processes -> VaultWork]
      /\ stored \in [Accounts -> 0..issued] /\ held \in [Accounts -> 0..issued]
      /\ listed \subseteq Accounts /\ (json # "whole" => kind = "file")
      /\ \A p \in Processes :
           /\ process[p].token \in 0..issued
           /\ process[p].step = "set" => kind = "keyring"
           /\ process[p].step \in {"load", "truncate", "write"} => kind = "file"
           /\ process[p].step = "list" => process[p].loaded \subseteq Accounts
           /\ process[p].step \in {"truncate", "write"} =>
                process[p].loaded \subseteq [Accounts -> 0..issued]
  BY DEF VaultInv, VaultTypeOK
<1>2. CASE /\ UNCHANGED <<stored, listed, json, issued, process, crashes, past>>
           /\ kind' = kind \/ (kind = "unset" /\ kind' \in {"file", "keyring"})
  BY <1>0, <1>2 DEF VaultInv, VaultTypeOK, past
<1>3. ASSUME NEW p \in Processes, VaultBegins(p) PROVE VaultInv'
  <2>1. PICK a \in Accounts, n \in 0..issued' :
          process' = [process EXCEPT ![p] = Starting(FirstStep, a, n)]
    BY <1>3 DEF VaultBegins
  <2> DEFINE w == Starting(FirstStep, a, n)
  <2>2. process' = [process EXCEPT ![p] = w]
    BY <2>1
  <2>3. issued' \in Nat /\ issued <= issued'
    BY <1>0, <1>3 DEF VaultBegins
  <2>4. FirstStep \in {"set", "load"} /\ (FirstStep = "load" => kind = "file")
        /\ (FirstStep = "set" => kind = "keyring")
    BY <1>0, <1>3 DEF FirstStep, VaultBegins
  <2>5. w \in VaultWork /\ w.token \in 0..issued' /\ w.step = FirstStep
    <3>1. n \in Nat
      BY <2>3
    <3> QED BY <2>4, <3>1, StartsWork
  <2>6. UNCHANGED <<kind, stored, listed, json, crashes, held>>
    BY <1>3 DEF VaultBegins, past
  <2>7. stored' \in [Accounts -> 0..issued'] /\ held' \in [Accounts -> 0..issued']
    BY <1>0, <2>3, <2>6
  <2> HIDE DEF w
  <2>8. WorkChanges(p, w)
    BY <1>0, <2>2, <2>3, <2>4, <2>5, <2>6, <2>7 DEF WorkChanges
  <2> QED BY <2>8, WorkFits
<1>4. ASSUME NEW p \in Processes, NEW a \in Accounts, SetEntry(p, a) PROVE VaultInv'
  <2> DEFINE w == [process[p] EXCEPT !.step = "index"]
  <2>1. process' = [process EXCEPT ![p] = w] /\ UNCHANGED <<kind, listed, json, issued, crashes>>
    BY <1>4 DEF SetEntry
  <2>2. process[p] \in VaultWork
    BY <1>0
  <2>3. w \in VaultWork /\ w.step = "index" /\ w.token = process[p].token
    BY <2>2 DEF VaultWork
  <2>4. stored' \in [Accounts -> 0..issued'] /\ held' = stored'
    BY <1>0, <1>4, <2>1 DEF SetEntry
  <2> HIDE DEF w
  <2>8. WorkChanges(p, w)
    BY <1>0, <2>1, <2>3, <2>4 DEF WorkChanges
  <2> QED BY <2>8, WorkFits
<1>5. ASSUME NEW p \in Processes, ReadIndex(p) PROVE VaultInv'
  <2> DEFINE w == [process[p] EXCEPT !.step = "list", !.loaded = listed]
  <2>2. process[p] \in VaultWork
    BY <1>0
  <2>1. process' = [process EXCEPT ![p] = w] /\ UNCHANGED <<kind, stored, listed, json, issued, crashes, held>>
    BY <1>0, <1>5, <2>2 DEF ReadIndex, past
  <2>3. w \in VaultWork /\ w.step = "list" /\ w.token = process[p].token /\ w.loaded = listed
    BY <1>0, <2>2 DEF VaultWork
  <2> HIDE DEF w
  <2>8. WorkChanges(p, w)
    BY <1>0, <2>1, <2>3 DEF WorkChanges
  <2> QED BY <2>8, WorkFits
<1>6. ASSUME NEW p \in Processes, WriteIndex(p) PROVE VaultInv'
  <2>1. process' = [process EXCEPT ![p] = NoWork] /\ UNCHANGED <<kind, stored, json, issued, crashes, held>>
    BY <1>6 DEF WriteIndex, past
  <2>2. listed' \subseteq Accounts
    <3>1. process[p] \in VaultWork /\ process[p].loaded \subseteq Accounts
      BY <1>0, <1>6 DEF WriteIndex
    <3>2. process[p].account \subseteq Accounts
      BY <3>1 DEF VaultWork
    <3> QED BY <1>0, <1>6, <3>1, <3>2 DEF WriteIndex, Reindexed
  <2>8. WorkChanges(p, NoWork)
    BY <1>0, <2>1, <2>2, NoWorkIs DEF WorkChanges
  <2> QED BY <2>8, WorkFits, NoWorkIs
<1>7. ASSUME NEW p \in Processes, LoadFile(p) PROVE VaultInv'
  <2> DEFINE w == IF ~Readable \/ (process[p].token = 0 /\ \A a \in process[p].account : stored[a] = 0)
                  THEN NoWork ELSE [process[p] EXCEPT !.step = "truncate", !.loaded = {stored}]
  <2>1. process' = [process EXCEPT ![p] = w]
        /\ UNCHANGED <<kind, stored, listed, json, issued, crashes, held>>
    BY <1>0, <1>7 DEF LoadFile, past
  <2>2. process[p] \in VaultWork /\ kind = "file" /\ stored \in [Accounts -> Nat]
    BY <1>0, <1>7 DEF LoadFile
  <2>3. w \in VaultWork /\ w.step \in {"none", "truncate"} /\ w.token \in {0, process[p].token}
        /\ (w.step = "truncate" => w.loaded = {stored})
    BY <2>2, NoWorkIs DEF VaultWork
  <2> HIDE DEF w
  <2>8. WorkChanges(p, w)
    BY <1>0, <2>1, <2>2, <2>3 DEF WorkChanges
  <2> QED BY <2>8, WorkFits
<1>8. ASSUME NEW p \in Processes, Truncate(p) PROVE VaultInv'
  <2> DEFINE w == [process[p] EXCEPT !.step = "write"]
  <2>1. process' = [process EXCEPT ![p] = w] /\ UNCHANGED <<kind, listed, issued, crashes, held>>
        /\ stored' = Empty
    BY <1>8 DEF Truncate, past
  <2>2. process[p] \in VaultWork /\ process[p].step = "truncate" /\ kind = "file"
    BY <1>0, <1>8 DEF Truncate
  <2>3. w \in VaultWork /\ w.step = "write" /\ w.token = process[p].token /\ w.loaded = process[p].loaded
    BY <2>2 DEF VaultWork
  <2>4. stored' \in [Accounts -> 0..issued]
    BY <1>0, <2>1 DEF Empty
  <2> HIDE DEF w
  <2>8. WorkChanges(p, w)
    BY <1>0, <2>1, <2>2, <2>3, <2>4 DEF WorkChanges
  <2> QED BY <2>8, WorkFits
<1>9. ASSUME NEW p \in Processes, WriteFile(p) PROVE VaultInv'
  <2>1. process' = [process EXCEPT ![p] = NoWork] /\ UNCHANGED <<kind, listed, issued, crashes>>
    BY <1>9 DEF WriteFile
  <2>2. kind = "file" /\ process[p].token \in 0..issued
    BY <1>0, <1>9 DEF WriteFile
  <2>3. stored' \in [Accounts -> 0..issued] /\ held' \in [Accounts -> 0..issued]
    <3>1. PICK tokens \in process[p].loaded :
            /\ stored' \in {Changed(p, tokens), Empty} /\ held' \in {stored', held}
      BY <1>9 DEF WriteFile
    <3>2. tokens \in [Accounts -> 0..issued]
      BY <1>0, <1>9, <3>1 DEF WriteFile
    <3>3. Changed(p, tokens) \in [Accounts -> 0..issued] /\ Empty \in [Accounts -> 0..issued]
      BY <1>0, <2>2, <3>2 DEF Changed, Empty
    <3> QED BY <1>0, <3>1, <3>3
  <2>8. WorkChanges(p, NoWork)
    BY <1>0, <2>1, <2>2, <2>3, NoWorkIs DEF WorkChanges
  <2> QED BY <2>8, WorkFits, NoWorkIs
<1>10. ASSUME NEW p \in Processes, Dies(p) PROVE VaultInv'
  <2>1. process' = [process EXCEPT ![p] = NoWork] /\ UNCHANGED <<kind, stored, listed, json, issued, held>>
        /\ crashes' \in Nat
    BY <1>0, <1>10 DEF Dies
  <2>8. WorkChanges(p, NoWork)
    BY <1>0, <2>1, NoWorkIs DEF WorkChanges
  <2> QED BY <2>8, WorkFits, NoWorkIs
<1> QED BY <1>2, <1>3, <1>4, <1>5, <1>6, <1>7, <1>8, <1>9, <1>10, VaultSteps

(* The file is unreadable while a process writes it, or spoiled.             *)
LEMMA LossExplained ==
    ASSUME VaultInv, LossHasACause, [VaultNext]_vaultVars PROVE LossHasACause'
<1>0. process \in [Processes -> VaultWork]
  BY DEF VaultInv
<1>1. CASE UNCHANGED <<stored, json, process, past>>
  BY <1>1 DEF LossHasACause, Readable, past
<1>2. ASSUME NEW p \in Processes, process[p].step # "write", NEW w, process' = [process EXCEPT ![p] = w],
             UNCHANGED <<json, spoiled>>, UNCHANGED <<stored, held>> \/ (Readable /\ held' = stored')
      PROVE  LossHasACause'
  <2>1. \A q \in Processes : process[q].step = "write" => process'[q].step = "write"
    BY <1>0, <1>2
  <2> QED BY <1>2, <2>1 DEF LossHasACause, Readable
<1>3. ASSUME NEW p \in Processes, VaultBegins(p) \/ ReadIndex(p) \/ WriteIndex(p) \/ LoadFile(p)
      PROVE  LossHasACause'
  <2>1. CASE VaultBegins(p)
    BY <1>2, <2>1, NoWorkIs DEF VaultBegins, past
  <2>2. CASE ReadIndex(p)
    BY <1>0, <1>2, <2>2 DEF ReadIndex, past
  <2>3. CASE WriteIndex(p)
    BY <1>2, <2>3 DEF WriteIndex, past
  <2>4. CASE LoadFile(p)
    BY <1>0, <1>2, <2>4 DEF LoadFile, past
  <2> QED BY <1>3, <2>1, <2>2, <2>3, <2>4
<1>4. ASSUME NEW p \in Processes, NEW a \in Accounts, SetEntry(p, a) PROVE LossHasACause'
  <2>1. Readable
    BY <1>4 DEF SetEntry, VaultInv, VaultTypeOK, Readable
  <2> QED BY <1>2, <1>4, <2>1 DEF SetEntry
<1>5. ASSUME NEW p \in Processes, Truncate(p) PROVE LossHasACause'
  <2>1. process'[p].step = "write" /\ json' = "empty"
    BY <1>0, <1>5 DEF Truncate, VaultWork
  <2> QED BY <2>1 DEF LossHasACause, Readable
<1>6. ASSUME NEW p \in Processes, WriteFile(p) PROVE LossHasACause'
  BY <1>6 DEF WriteFile, LossHasACause, Readable
<1>7. ASSUME NEW p \in Processes, Dies(p) PROVE LossHasACause'
  <2>1. /\ process' = [process EXCEPT ![p] = NoWork] /\ UNCHANGED <<stored, json, held>>
        /\ spoiled' = (spoiled \/ (process[p].step = "write" /\ ~Readable))
    BY <1>7 DEF Dies
  <2>2. \A q \in Processes : q # p => process'[q] = process[q]
    BY <1>0, <2>1
  <2> QED BY <2>1, <2>2 DEF LossHasACause, Readable
<1> QED BY <1>1, <1>3, <1>4, <1>5, <1>6, <1>7, VaultSteps

(* A token changes only by the login, logout or rotation of its account, or   *)
(* back to what a file held when a process loaded it.                         *)
LEMMA TokenIntent ==
    ASSUME VaultInv, LossHasACause, [VaultNext]_vaultVars, NEW a \in Accounts, held'[a] # held[a]
    PROVE  \E p \in Processes :
              /\ process[p].step \in {"set", "write"}
              /\ process'[p].step \in {"none", "index"}
              /\ \/ Does(p, a) /\ held'[a] = process[p].token
                 \/ \E tokens \in process[p].loaded : tokens # held /\ held'[a] = tokens[a]
<1>0. process \in [Processes -> VaultWork] /\ stored \in [Accounts -> 0..issued]
  BY DEF VaultInv, VaultTypeOK
<1>1. PICK p \in Processes : WriteFile(p) \/ \E b \in Accounts : SetEntry(p, b)
  BY VaultSteps DEF VaultBegins, ReadIndex, WriteIndex, LoadFile, Truncate, Dies, past
<1>2. CASE WriteFile(p)
  <2>1. process[p].step = "write" /\ process' = [process EXCEPT ![p] = NoWork]
    BY <1>2 DEF WriteFile
  <2>2. process'[p].step = "none"
    BY <1>0, <2>1, NoWorkIs
  <2>3. PICK tokens \in process[p].loaded : held' = Changed(p, tokens)
    BY <1>2 DEF WriteFile
  <2>4. \/ Does(p, a) /\ held'[a] = process[p].token
        \/ held'[a] = tokens[a]
    BY <2>3 DEF Changed
  <2> QED BY <2>1, <2>2, <2>3, <2>4
<1>3. ASSUME NEW b \in Accounts, SetEntry(p, b)
      PROVE  /\ process[p].step = "set" /\ process'[p].step = "index"
             /\ Does(p, a) /\ held'[a] = process[p].token
  <2>1. process[p].step = "set" /\ process'[p].step = "index"
    BY <1>0, <1>3 DEF SetEntry, VaultWork
  <2>2. Does(p, b) /\ stored' = [stored EXCEPT ![b] = process[p].token] /\ held' = stored'
    BY <1>3 DEF SetEntry
  <2>3. stored = held
    BY <2>1 DEF VaultInv, VaultTypeOK, LossHasACause, Readable
  <2> QED BY <1>0, <2>1, <2>2, <2>3
<1> QED BY <1>1, <1>2, <1>3

(* A process at the end of a login or logout is there in one step only, and   *)
(* that step writes the index.                                                *)
LEMMA IndexMended ==
    ASSUME VaultInv, [VaultNext]_vaultVars, NEW p \in Processes, NEW a \in Accounts,
           process[p].step = "list", Does(p, a), process'[p] = NoWork, crashes' = crashes,
           process[p].loaded = listed
    PROVE  a \in listed' <=> process[p].token # 0
<1>0. process \in [Processes -> VaultWork] /\ crashes \in Nat
  BY DEF VaultInv
<1>1. process'[p] # process[p]
  BY NoWorkIs
<1>2. ~Dies(p)
  BY <1>0 DEF Dies
<1>3. \A q \in Processes : q # p =>
         ~(VaultBegins(q) \/ (\E b \in Accounts : SetEntry(q, b)) \/ ReadIndex(q) \/ WriteIndex(q)
           \/ LoadFile(q) \/ Truncate(q) \/ WriteFile(q) \/ Dies(q))
  BY <1>0, <1>1 DEF VaultBegins, SetEntry, ReadIndex, WriteIndex, LoadFile, Truncate, WriteFile, Dies
<1>4. WriteIndex(p)
  BY <1>1, <1>2, <1>3, VaultSteps, NoWorkIs
     DEF VaultBegins, SetEntry, ReadIndex, LoadFile, Truncate, WriteFile
<1>5. listed' = Reindexed(p)
  BY <1>4 DEF WriteIndex
<1> QED BY <1>5 DEF Reindexed, Does

(* For any number of processes, accounts and crashes: between two writes,     *)
(* two processes and a crash a token changes only as some process meant it,   *)
(* or is lost with all others when a process dies with the file emptied or    *)
(* two write over one another; and the next operation on an account mends the *)
(* index (KeyringTokenStore, FileTokenStore).                                 *)
THEOREM VaultKeepsTokens == VaultSpec => TokensAreKept
<1>1. VaultInit => VaultInv /\ LossHasACause
  <2>1. VaultInit => VaultInv
    BY NoWorkIs DEF VaultInit, VaultInv, VaultTypeOK, Empty
  <2> QED BY <2>1 DEF VaultInit, LossHasACause, Readable
<1>2. VaultInv /\ LossHasACause /\ [VaultNext]_vaultVars => VaultInv' /\ LossHasACause'
  BY VaultInvNext, LossExplained
<1>3. VaultInv => VaultTypeOK
  BY DEF VaultInv
<1>4. VaultInv /\ LossHasACause /\ [VaultNext]_vaultVars =>
        [\A a \in Accounts : held'[a] # held[a] =>
           \E p \in Processes :
              /\ process[p].step \in {"set", "write"}
              /\ process'[p].step \in {"none", "index"}
              /\ \/ Does(p, a) /\ held'[a] = process[p].token
                 \/ \E tokens \in process[p].loaded : tokens # held /\ held'[a] = tokens[a]
        ]_vaultVars
  BY TokenIntent
<1>5. VaultInv /\ [VaultNext]_vaultVars =>
        [\A p \in Processes, a \in Accounts :
           process[p].step = "list" /\ Does(p, a) /\ process'[p] = NoWork /\ crashes' = crashes
           /\ process[p].loaded = listed
           => (a \in listed' <=> process[p].token # 0)]_vaultVars
  BY IndexMended
<1>6. VaultSpec => [](VaultTypeOK /\ LossHasACause)
  BY <1>1, <1>2, <1>3, PTL DEF VaultSpec
<1>7. VaultSpec => TokensChangeByIntent
  BY <1>1, <1>2, <1>4, PTL DEF VaultSpec, TokensChangeByIntent
<1>8. VaultSpec => IndexRepaired
  BY <1>1, <1>2, <1>5, PTL DEF VaultSpec, IndexRepaired
<1> QED BY <1>6, <1>7, <1>8 DEF TokensAreKept

------------------------------------------------------------------------------
(* Semantic memory and the context graph.                                     *)

DocumentRow == [id : Nat, hash : Contents, version : Nat]
ChunkRow == [id : Nat, content : Contents]
EntityRow == [id : Nat, facts : SUBSET Facts]

MemoryClient ==
    [op : {"none", "digested", "extract", "ingest", "remember", "forget"}, digest : SUBSET Contents,
     text : SUBSET Contents, document : SUBSET DocumentRow, chunks : SUBSET ChunkRow,
     entity : SUBSET EntityRow, fact : SUBSET Facts]

(* At most one document, its chunks written since it was, and nothing read    *)
(* that was not written.                                                      *)
TablesFit ==
    /\ file \in Contents /\ writes \in 0..MaxWrites
    /\ document \subseteq DocumentRow /\ chunks \subseteq ChunkRow /\ entities \subseteq EntityRow
    /\ document = {} \/ \E d \in DocumentRow : document = {d}
    /\ document = {} => chunks = {}
    /\ \A d \in document :
         /\ d.version \in 1..writes /\ d.id <= writes
         /\ \A k \in chunks : d.id <= k.id

ClientFits(w, n) ==
    /\ w \in MemoryClient
    /\ w.op \in {"digested", "extract", "ingest"} => \E h \in Contents : w.digest = {h}
    /\ w.op = "ingest" => \E t \in Contents : w.text = {t}
    /\ \A d \in w.document : d.version <= n

ClientsFit ==
    /\ client \in [Clients -> MemoryClient]
    /\ \A c \in Clients : ClientFits(client[c], writes)

MemoryInv == TablesFit /\ ClientsFit

LEMMA NoClientIs ==
    /\ NoClient \in MemoryClient /\ NoClient.op = "none" /\ NoClient.document = {}
BY DEF NoClient, MemoryClient

LEMMA NoClientFits == ASSUME NEW n PROVE ClientFits(NoClient, n)
BY NoClientIs DEF ClientFits

(* What a request has read, step by step.                                     *)
Digesting(h) == [NoClient EXCEPT !.op = "digested", !.digest = {h}]
Extracting(r, d, k) == [r EXCEPT !.op = "extract", !.document = d, !.chunks = k]
Ingesting(r, t) == [r EXCEPT !.op = "ingest", !.text = {t}]
Remembering(e, f) == [NoClient EXCEPT !.op = "remember", !.entity = e, !.fact = {f}]
ForgettingDocument(d) == [NoClient EXCEPT !.op = "forget", !.document = d]
ForgettingEntity(e) == [NoClient EXCEPT !.op = "forget", !.entity = e]

LEMMA DigestingFits == ASSUME NEW h \in Contents, NEW n PROVE ClientFits(Digesting(h), n)
<1>1. ASSUME NEW r \in MemoryClient
      PROVE  /\ [r EXCEPT !.op = "digested", !.digest = {h}] \in MemoryClient
             /\ [r EXCEPT !.op = "digested", !.digest = {h}].op = "digested"
             /\ [r EXCEPT !.op = "digested", !.digest = {h}].digest = {h}
             /\ [r EXCEPT !.op = "digested", !.digest = {h}].document = r.document
  BY DEF MemoryClient
<1>2. /\ Digesting(h) \in MemoryClient /\ Digesting(h).op = "digested"
      /\ Digesting(h).digest = {h} /\ Digesting(h).document = {}
  BY <1>1, NoClientIs DEF Digesting
<1> QED BY <1>2 DEF ClientFits

LEMMA ExtractingFits ==
    ASSUME NEW n, NEW r, ClientFits(r, n), r.op = "digested",
           NEW d \in SUBSET DocumentRow, NEW k \in SUBSET ChunkRow, \A x \in d : x.version <= n
    PROVE  ClientFits(Extracting(r, d, k), n)
<1>1. /\ Extracting(r, d, k) \in MemoryClient /\ Extracting(r, d, k).op = "extract"
      /\ Extracting(r, d, k).digest = r.digest /\ Extracting(r, d, k).document = d
  BY DEF ClientFits, MemoryClient, Extracting
<1> QED BY <1>1 DEF ClientFits

LEMMA IngestingFits ==
    ASSUME NEW n, NEW r, ClientFits(r, n), r.op = "extract", NEW t \in Contents
    PROVE  ClientFits(Ingesting(r, t), n)
<1>1. /\ Ingesting(r, t) \in MemoryClient /\ Ingesting(r, t).op = "ingest"
      /\ Ingesting(r, t).digest = r.digest /\ Ingesting(r, t).document = r.document
      /\ Ingesting(r, t).text = {t}
  BY DEF ClientFits, MemoryClient, Ingesting
<1> QED BY <1>1 DEF ClientFits

LEMMA RememberingFits ==
    ASSUME NEW n, NEW e \in SUBSET EntityRow, NEW f \in Facts
    PROVE  ClientFits(Remembering(e, f), n)
<1>1. ASSUME NEW r \in MemoryClient
      PROVE  /\ [r EXCEPT !.op = "remember", !.entity = e, !.fact = {f}] \in MemoryClient
             /\ [r EXCEPT !.op = "remember", !.entity = e, !.fact = {f}].op = "remember"
             /\ [r EXCEPT !.op = "remember", !.entity = e, !.fact = {f}].document = r.document
  BY DEF MemoryClient
<1>2. /\ Remembering(e, f) \in MemoryClient /\ Remembering(e, f).op = "remember"
      /\ Remembering(e, f).document = {}
  BY <1>1, NoClientIs DEF Remembering
<1> QED BY <1>2 DEF ClientFits

LEMMA ForgettingFits ==
    ASSUME NEW n
    PROVE  /\ \A d \in SUBSET DocumentRow :
                (\A x \in d : x.version <= n) => ClientFits(ForgettingDocument(d), n)
           /\ \A e \in SUBSET EntityRow : ClientFits(ForgettingEntity(e), n)
<1>1. ASSUME NEW r \in MemoryClient, NEW d \in SUBSET DocumentRow
      PROVE  /\ [r EXCEPT !.op = "forget", !.document = d] \in MemoryClient
             /\ [r EXCEPT !.op = "forget", !.document = d].op = "forget"
             /\ [r EXCEPT !.op = "forget", !.document = d].document = d
  BY DEF MemoryClient
<1>2. ASSUME NEW r \in MemoryClient, NEW e \in SUBSET EntityRow
      PROVE  /\ [r EXCEPT !.op = "forget", !.entity = e] \in MemoryClient
             /\ [r EXCEPT !.op = "forget", !.entity = e].op = "forget"
             /\ [r EXCEPT !.op = "forget", !.entity = e].document = r.document
  BY DEF MemoryClient
<1>3. ASSUME NEW d \in SUBSET DocumentRow
      PROVE  /\ ForgettingDocument(d) \in MemoryClient /\ ForgettingDocument(d).op = "forget"
             /\ ForgettingDocument(d).document = d
  BY <1>1, NoClientIs DEF ForgettingDocument
<1>4. ASSUME NEW e \in SUBSET EntityRow
      PROVE  /\ ForgettingEntity(e) \in MemoryClient /\ ForgettingEntity(e).op = "forget"
             /\ ForgettingEntity(e).document = {}
  BY <1>2, NoClientIs DEF ForgettingEntity
<1> QED BY <1>3, <1>4 DEF ClientFits

(* Only one request moves, and what it has read fits.                         *)
ClientMoved(c, w) ==
    /\ ClientFits(w, writes') /\ client' = [client EXCEPT ![c] = w]
    /\ writes \in Nat /\ writes' \in Nat /\ writes <= writes'

LEMMA ClientMoves ==
    ASSUME ClientsFit, NEW c \in Clients, NEW w, ClientMoved(c, w) PROVE ClientsFit'
<1>1. client \in [Clients -> MemoryClient] /\ w \in MemoryClient
  BY DEF ClientsFit, ClientFits, ClientMoved
<1>2. client' \in [Clients -> MemoryClient]
  BY <1>1 DEF ClientMoved
<1>3. \A q \in Clients : client'[q] = IF q = c THEN w ELSE client[q]
  BY <1>1 DEF ClientMoved
<1>4. \A q \in Clients : ClientFits(client'[q], writes')
  <2> TAKE q \in Clients
  <2>1. CASE q = c
    BY <1>3, <2>1 DEF ClientMoved
  <2>2. CASE q # c
    <3>1. client'[q] = client[q] /\ ClientFits(client[q], writes)
      BY <1>3, <2>2 DEF ClientsFit
    <3>2. \A d \in client[q].document : d.version \in Nat
      BY <1>1 DEF MemoryClient, DocumentRow
    <3> QED BY <3>1, <3>2 DEF ClientFits, ClientMoved
  <2> QED BY <2>1, <2>2
<1> QED BY <1>2, <1>4 DEF ClientsFit

(* A step that only reads.                                                    *)
LEMMA TablesStay ==
    ASSUME TablesFit, UNCHANGED <<document, chunks, entities, writes>>, file' \in Contents
    PROVE  TablesFit'
BY DEF TablesFit

LEMMA WritesCount == ASSUME TablesFit PROVE writes \in Nat
BY MemoryAssumption DEF TablesFit

LEMMA RequestReads ==
    ASSUME MemoryInv, NEW c \in Clients,
           \/ IngestDigest(c) \/ IngestLookup(c) \/ IngestExtract(c)
           \/ (\E fact \in Facts : RememberRead(c, fact)) \/ ForgetRead(c) \/ MemoryRequestFails(c)
    PROVE  MemoryInv'
<1>0. /\ TablesFit /\ ClientsFit /\ writes \in Nat /\ ClientFits(client[c], writes)
      /\ client \in [Clients -> MemoryClient]
      /\ file \in Contents /\ document \in SUBSET DocumentRow /\ chunks \in SUBSET ChunkRow
      /\ entities \in SUBSET EntityRow
      /\ \A d \in document : d.version <= writes
  BY WritesCount DEF MemoryInv, ClientsFit, TablesFit
<1>1. UNCHANGED <<file, document, chunks, entities, writes>> /\ writes <= writes'
  <2>1. UNCHANGED <<file, document, chunks, entities, writes>>
    <3>1. ASSUME NEW fact \in Facts, RememberRead(c, fact)
          PROVE  UNCHANGED <<file, document, chunks, entities, writes>>
      BY <3>1 DEF RememberRead
    <3>2. ForgetRead(c) => UNCHANGED <<file, document, chunks, entities, writes>>
      BY DEF ForgetRead
    <3>3. IngestDigest(c) \/ IngestLookup(c) \/ IngestExtract(c) \/ MemoryRequestFails(c) =>
             UNCHANGED <<file, document, chunks, entities, writes>>
      BY DEF IngestDigest, IngestLookup, IngestExtract, MemoryRequestFails
    <3> QED BY <3>1, <3>2, <3>3
  <2> QED BY <1>0, <2>1
<1>2. TablesFit'
  BY <1>0, <1>1, TablesStay
<1>3. \E w : ClientFits(w, writes) /\ client' = [client EXCEPT ![c] = w]
  <2>1. CASE IngestDigest(c)
    <3>1. client' = [client EXCEPT ![c] = Digesting(file)]
      BY <2>1 DEF IngestDigest, Digesting
    <3> QED BY <1>0, <3>1, DigestingFits
  <2>2. CASE MemoryRequestFails(c)
    <3>1. client' = [client EXCEPT ![c] = NoClient]
      BY <2>2 DEF MemoryRequestFails
    <3> QED BY <3>1, NoClientFits
  <2>3. CASE IngestLookup(c)
    <3>1. CASE Unchanged(c)
      <4>1. client' = [client EXCEPT ![c] = NoClient]
        BY <2>3, <3>1 DEF IngestLookup
      <4> QED BY <4>1, NoClientFits
    <3>2. CASE ~Unchanged(c)
      <4>1. client' = [client EXCEPT ![c] = Extracting(client[c], document, chunks)]
        BY <1>0, <2>3, <3>2 DEF IngestLookup, Extracting
      <4>2. ClientFits(Extracting(client[c], document, chunks), writes)
        BY <1>0, <2>3, ExtractingFits DEF IngestLookup
      <4> QED BY <4>1, <4>2
    <3> QED BY <3>1, <3>2
  <2>4. CASE IngestExtract(c)
    <3>1. client' = [client EXCEPT ![c] = Ingesting(client[c], file)]
      BY <1>0, <2>4 DEF IngestExtract, Ingesting
    <3>2. ClientFits(Ingesting(client[c], file), writes)
      BY <1>0, <2>4, IngestingFits DEF IngestExtract
    <3> QED BY <3>1, <3>2
  <2>5. ASSUME NEW fact \in Facts, RememberRead(c, fact)
        PROVE  \E w : ClientFits(w, writes) /\ client' = [client EXCEPT ![c] = w]
    <3>1. PICK e \in SUBSET entities : client' = [client EXCEPT ![c] = Remembering(e, fact)]
      BY <2>5 DEF RememberRead, Remembering
    <3>2. ClientFits(Remembering(e, fact), writes)
      BY <1>0, RememberingFits
    <3> QED BY <3>1, <3>2
  <2>6. CASE ForgetRead(c)
    <3>1. \/ client' = [client EXCEPT ![c] = ForgettingDocument(document)]
          \/ \E e \in entities : client' = [client EXCEPT ![c] = ForgettingEntity({e})]
      BY <2>6 DEF ForgetRead, ForgettingDocument, ForgettingEntity
    <3>2. ClientFits(ForgettingDocument(document), writes)
      BY <1>0, ForgettingFits
    <3>3. \A e \in entities : ClientFits(ForgettingEntity({e}), writes)
      BY <1>0, ForgettingFits
    <3> QED BY <3>1, <3>2, <3>3
  <2> QED BY <2>1, <2>2, <2>3, <2>4, <2>5, <2>6
<1>4. PICK w : ClientFits(w, writes) /\ client' = [client EXCEPT ![c] = w]
  BY <1>3
<1>5. ClientMoved(c, w)
  BY <1>0, <1>1, <1>4 DEF ClientMoved
<1>6. ClientsFit'
  BY <1>0, <1>5, ClientMoves
<1> QED BY <1>2, <1>6 DEF MemoryInv

LEMMA VersionedIs ==
    ASSUME NEW c, NEW d \in DocumentRow, NEW h \in Contents,
           (CHOOSE e \in client[c].document : TRUE).version \in Nat
    PROVE  /\ Versioned(c, d, h) \in DocumentRow
           /\ Versioned(c, d, h).id = d.id /\ Versioned(c, d, h).hash = h
           /\ Versioned(c, d, h).version = (CHOOSE e \in client[c].document : TRUE).version + 1
<1>1. ASSUME NEW v \in Nat
      PROVE  /\ [d EXCEPT !.hash = h, !.version = v] \in DocumentRow
             /\ [d EXCEPT !.hash = h, !.version = v].id = d.id
             /\ [d EXCEPT !.hash = h, !.version = v].hash = h
             /\ [d EXCEPT !.hash = h, !.version = v].version = v
  BY DEF DocumentRow
<1> DEFINE read == CHOOSE e \in client[c].document : TRUE
<1>2. Versioned(c, d, h) = [d EXCEPT !.hash = h, !.version = read.version + 1]
  BY DEF Versioned
<1>3. read.version + 1 \in Nat
  OBVIOUS
<1> HIDE DEF read
<1>4. /\ [d EXCEPT !.hash = h, !.version = read.version + 1] \in DocumentRow
      /\ [d EXCEPT !.hash = h, !.version = read.version + 1].id = d.id
      /\ [d EXCEPT !.hash = h, !.version = read.version + 1].hash = h
      /\ [d EXCEPT !.hash = h, !.version = read.version + 1].version = read.version + 1
  BY <1>1, <1>3
<1> QED BY <1>2, <1>4 DEF read

(* What an ingest leaves when its row is still there, or still is not.        *)
LEMMA Ingested ==
    ASSUME MemoryInv, NEW c \in Clients, IngestWrite(c), StillThere(c)
    PROVE  \E t \in Contents, d \in DocumentRow :
              /\ client[c].text = {t} /\ client[c].digest = {d.hash}
              /\ document' = {d} /\ d.version \in 1..writes'
              /\ chunks' = OtherChunks(c) \cup {Chunk(writes', t)}
              /\ \/ document = {} /\ d.id = writes'
                 \/ document # {} /\ \A e \in document : d.id = e.id
<1>0. /\ writes \in Nat /\ writes' = writes + 1 /\ client[c].op = "ingest"
      /\ client[c] \in MemoryClient /\ ClientFits(client[c], writes)
  BY WritesCount DEF MemoryInv, ClientsFit, IngestWrite
<1>1. PICK h \in Contents, t \in Contents : client[c].digest = {h} /\ client[c].text = {t}
  BY <1>0 DEF ClientFits
<1>2. chunks' = OtherChunks(c) \cup {Chunk(writes', t)}
  BY <1>1 DEF IngestWrite
<1>3. document' = IF client[c].document = {} THEN {[id |-> writes', hash |-> h, version |-> 1]}
                  ELSE {Versioned(c, d, h) : d \in document}
  BY <1>1 DEF IngestWrite
<1>4. CASE client[c].document = {}
  <2>1. document = {}
    BY <1>4 DEF StillThere
  <2> DEFINE d == [id |-> writes', hash |-> h, version |-> 1]
  <2>2. d \in DocumentRow /\ d.hash = h /\ d.version \in 1..writes' /\ d.id = writes'
    BY <1>0 DEF DocumentRow
  <2>3. document' = {d}
    BY <1>3, <1>4
  <2> HIDE DEF d
  <2> QED BY <1>1, <1>2, <2>1, <2>2, <2>3
<1>5. CASE client[c].document # {}
  <2> DEFINE read == CHOOSE e \in client[c].document : TRUE
  <2>1. read \in client[c].document
    BY <1>5
  <2>2. read.version \in Nat /\ read.version <= writes
    BY <1>0, <2>1 DEF MemoryClient, DocumentRow, ClientFits
  <2>3. document # {}
    BY <1>5 DEF StillThere
  <2>4. PICK e \in DocumentRow : document = {e}
    BY <2>3 DEF MemoryInv, TablesFit
  <2> DEFINE d == Versioned(c, e, h)
  <2>5. d \in DocumentRow /\ d.id = e.id /\ d.hash = h /\ d.version = read.version + 1
    BY <2>2, VersionedIs
  <2>6. document' = {d}
    BY <1>3, <1>5, <2>4
  <2>7. d.version \in 1..writes'
    BY <1>0, <2>2, <2>5
  <2> HIDE DEF d, read
  <2> QED BY <1>1, <1>2, <2>3, <2>4, <2>5, <2>6, <2>7
<1> QED BY <1>4, <1>5

LEMMA RequestWrites ==
    ASSUME MemoryInv, NEW c \in Clients, IngestWrite(c) \/ RememberWrite(c) \/ ForgetWrite(c)
    PROVE  MemoryInv'
<1>0. /\ TablesFit /\ ClientsFit /\ writes \in Nat /\ ClientFits(client[c], writes)
      /\ client[c] \in MemoryClient
      /\ file \in Contents /\ document \in SUBSET DocumentRow /\ chunks \in SUBSET ChunkRow
      /\ entities \in SUBSET EntityRow
      /\ document = {} \/ \E d \in DocumentRow : document = {d}
      /\ document = {} => chunks = {}
      /\ \A d \in document : d.version \in 1..writes /\ d.id <= writes /\ \A k \in chunks : d.id <= k.id
  BY WritesCount DEF MemoryInv, ClientsFit, TablesFit
<1>1. /\ client' = [client EXCEPT ![c] = NoClient] /\ file' = file
      /\ writes' \in 0..MaxWrites /\ writes <= writes' /\ writes' \in Nat
  BY <1>0, MemoryAssumption DEF TablesFit, IngestWrite, RememberWrite, ForgetWrite
<1>2. ClientsFit'
  <2>1. ClientMoved(c, NoClient)
    BY <1>0, <1>1, NoClientFits DEF ClientMoved
  <2> QED BY <1>0, <2>1, ClientMoves
<1>3. CASE IngestWrite(c) /\ StillThere(c)
  <2>1. PICK t \in Contents, d \in DocumentRow :
          /\ document' = {d} /\ d.version \in 1..writes'
          /\ chunks' = OtherChunks(c) \cup {Chunk(writes', t)}
          /\ \/ document = {} /\ d.id = writes'
             \/ document # {} /\ \A e \in document : d.id = e.id
    BY <1>3, Ingested
  <2>2. Chunk(writes', t) \in ChunkRow /\ Chunk(writes', t).id = writes'
    BY <1>1 DEF Chunk, ChunkRow
  <2>3. chunks' \subseteq ChunkRow /\ \A k \in chunks' : k \in chunks \/ k.id = writes'
    BY <1>0, <2>1, <2>2 DEF OtherChunks
  <2>4. d.id <= writes' /\ \A k \in chunks' : d.id <= k.id
    <3>1. CASE document = {}
      BY <1>0, <1>1, <2>1, <2>3, <3>1
    <3>2. CASE document # {}
      <4>1. PICK e \in document : d.id = e.id
        BY <2>1, <3>2
      <4>2. e.id \in Nat /\ e.id <= writes /\ \A k \in chunks : e.id <= k.id
        BY <1>0 DEF DocumentRow
      <4> QED BY <1>0, <1>1, <2>3, <4>1, <4>2
    <3> QED BY <3>1, <3>2
  <2>5. entities' = entities
    BY <1>3 DEF IngestWrite
  <2>6. TablesFit'
    BY <1>0, <1>1, <2>1, <2>3, <2>4, <2>5 DEF TablesFit
  <2> QED BY <1>2, <2>6 DEF MemoryInv
<1>4. CASE IngestWrite(c) /\ ~StillThere(c)
  <2>1. UNCHANGED <<document, chunks, entities>>
    BY <1>4 DEF IngestWrite
  <2>2. \A d \in document : d.version \in 1..writes' /\ d.id <= writes'
    BY <1>0, <1>1 DEF DocumentRow
  <2>3. TablesFit'
    BY <1>0, <1>1, <2>1, <2>2 DEF TablesFit
  <2> QED BY <1>2, <2>3 DEF MemoryInv
<1>5. CASE RememberWrite(c)
  <2>1. UNCHANGED <<document, chunks>>
    BY <1>5 DEF RememberWrite
  <2>2. \A d \in document : d.version \in 1..writes' /\ d.id <= writes'
    BY <1>0, <1>1 DEF DocumentRow
  <2>3. entities' \subseteq EntityRow
    <3>1. CASE client[c].entity = {}
      <4>1. client[c].fact \subseteq Facts
        BY <1>0 DEF MemoryClient
      <4>2. [id |-> writes', facts |-> client[c].fact] \in EntityRow
        BY <1>1, <4>1 DEF EntityRow
      <4> QED BY <1>0, <1>5, <3>1, <4>2 DEF RememberWrite
    <3>2. CASE client[c].entity # {}
      <4>1. ASSUME NEW e \in entities PROVE Remembered(c, e) \subseteq EntityRow
        <5>1. \A s \in client[c].entity : Merged(c, s.facts) \subseteq Facts
          BY <1>0 DEF MemoryClient, EntityRow, Merged
        <5>2. e \in EntityRow
          BY <1>0
        <5>3. \A f \in SUBSET Facts : [e EXCEPT !.facts = f] \in EntityRow
          BY <5>2 DEF EntityRow
        <5> QED BY <5>1, <5>2, <5>3 DEF Remembered
      <4>2. entities' = UNION {Remembered(c, e) : e \in entities}
        BY <1>5, <3>2 DEF RememberWrite
      <4> QED BY <4>1, <4>2
    <3> QED BY <3>1, <3>2
  <2>4. TablesFit'
    BY <1>0, <1>1, <2>1, <2>2, <2>3 DEF TablesFit
  <2> QED BY <1>2, <2>4 DEF MemoryInv
<1>6. CASE ForgetWrite(c)
  <2>1. /\ document' \subseteq document /\ entities' \subseteq entities /\ writes' = writes
        /\ chunks' = IF document' = document THEN chunks ELSE {}
    BY <1>6 DEF ForgetWrite
  <2>2. document' = {} \/ document' = document
    BY <1>0, <2>1
  <2>3. TablesFit'
    BY <1>0, <1>1, <2>1, <2>2 DEF TablesFit
  <2> QED BY <1>2, <2>3 DEF MemoryInv
<1> QED BY <1>3, <1>4, <1>5, <1>6

LEMMA MemoryInvNext ==
    ASSUME MemoryInv, [MemoryNext]_memoryVars PROVE MemoryInv'
<1>1. ASSUME NEW content \in Contents, FileChanges(content) PROVE MemoryInv'
  <2>1. UNCHANGED <<document, chunks, entities, client, writes>> /\ file' \in Contents
    BY <1>1 DEF FileChanges
  <2>2. TablesFit'
    BY <2>1, TablesStay DEF MemoryInv
  <2> QED BY <2>1, <2>2 DEF MemoryInv, ClientsFit
<1>2. CASE UNCHANGED memoryVars
  BY <1>2 DEF memoryVars, MemoryInv, TablesFit, ClientsFit
<1> QED BY <1>1, <1>2, RequestReads, RequestWrites DEF MemoryNext

(* Which steps end a request, and which change the rows.                      *)
LEMMA RequestEnds ==
    ASSUME MemoryInv, [MemoryNext]_memoryVars, NEW c \in Clients, client[c].op = "ingest",
           client'[c] = NoClient, document' # document
    PROVE  IngestWrite(c) /\ StillThere(c)
<1>0. client \in [Clients -> MemoryClient]
  BY DEF MemoryInv, ClientsFit
<1>1. client'[c] # client[c]
  BY NoClientIs
<1>2. \A q \in Clients : IngestWrite(q) \/ ForgetWrite(q) => q = c
  BY <1>0, <1>1 DEF IngestWrite, ForgetWrite
<1>3. ~ForgetWrite(c)
  BY DEF ForgetWrite
<1>4. \A q \in Clients :
         IngestDigest(q) \/ IngestLookup(q) \/ IngestExtract(q) \/ RememberWrite(q)
         \/ ForgetRead(q) \/ MemoryRequestFails(q) \/ (\E fact \in Facts : RememberRead(q, fact))
         => document' = document
  <2> TAKE q \in Clients
  <2>1. ASSUME NEW fact \in Facts, RememberRead(q, fact) PROVE document' = document
    BY <2>1 DEF RememberRead
  <2>2. ForgetRead(q) => document' = document
    BY DEF ForgetRead
  <2> QED BY <2>1, <2>2 DEF IngestDigest, IngestLookup, IngestExtract, RememberWrite, MemoryRequestFails
<1>5. (\E content \in Contents : FileChanges(content)) \/ UNCHANGED memoryVars => document' = document
  BY DEF FileChanges, memoryVars
<1>6. IngestWrite(c)
  BY <1>2, <1>3, <1>4, <1>5 DEF MemoryNext
<1> QED BY <1>6 DEF IngestWrite

LEMMA IngestLeavesItsChunks ==
    ASSUME MemoryInv, [MemoryNext]_memoryVars, NEW c \in Clients, client[c].op = "ingest",
           client'[c] = NoClient, document' # document, client[c].text = client[c].digest,
           client[c].chunks = chunks, NEW d \in document'
    PROVE  {k.content : k \in chunks'} = {d.hash} /\ Cardinality(chunks') = 1
<1>1. PICK t \in Contents, e \in DocumentRow :
        /\ client[c].text = {t} /\ client[c].digest = {e.hash} /\ document' = {e}
        /\ chunks' = OtherChunks(c) \cup {Chunk(writes', t)}
  BY RequestEnds, Ingested
<1>2. d = e /\ t = d.hash
  BY <1>1
<1>3. chunks' = {Chunk(writes', t)}
  BY <1>1 DEF OtherChunks
<1>4. Chunk(writes', t).content = t
  BY DEF Chunk
<1> QED BY <1>2, <1>3, <1>4, FS_Singleton

LEMMA FactsLeave ==
    ASSUME MemoryInv, [MemoryNext]_memoryVars, NEW f \in Known \ Known'
    PROVE  \E c \in Clients :
              /\ client'[c] = NoClient
              /\ \/ client[c].op = "forget"
                 \/ client[c].op = "remember" /\ \A e \in client[c].entity : f \notin e.facts
<1>0. client \in [Clients -> MemoryClient] /\ entities \subseteq EntityRow
  BY DEF MemoryInv, ClientsFit, TablesFit
<1>1. PICK e \in entities : f \in e.facts
  BY DEF Known
<1>2. \A x \in entities' : f \notin x.facts
  BY DEF Known
<1>3. entities' # entities
  BY <1>1, <1>2
<1>4. PICK c \in Clients : RememberWrite(c) \/ ForgetWrite(c)
  <2>1. \A q \in Clients :
           IngestDigest(q) \/ IngestLookup(q) \/ IngestExtract(q) \/ IngestWrite(q)
           \/ ForgetRead(q) \/ MemoryRequestFails(q) \/ (\E fact \in Facts : RememberRead(q, fact))
           => entities' = entities
    <3> TAKE q \in Clients
    <3>1. ASSUME NEW fact \in Facts, RememberRead(q, fact) PROVE entities' = entities
      BY <3>1 DEF RememberRead
    <3>2. ForgetRead(q) => entities' = entities
      BY DEF ForgetRead
    <3> QED BY <3>1, <3>2 DEF IngestDigest, IngestLookup, IngestExtract, IngestWrite, MemoryRequestFails
  <2>2. (\E content \in Contents : FileChanges(content)) \/ UNCHANGED memoryVars => entities' = entities
    BY DEF FileChanges, memoryVars
  <2> QED BY <1>3, <2>1, <2>2 DEF MemoryNext
<1>5. client'[c] = NoClient
  BY <1>0, <1>4 DEF RememberWrite, ForgetWrite
<1>6. CASE ForgetWrite(c)
  BY <1>5, <1>6 DEF ForgetWrite
<1>7. CASE RememberWrite(c)
  <2>1. ASSUME NEW s \in client[c].entity PROVE f \notin s.facts
    <3>1. entities' = UNION {Remembered(c, x) : x \in entities}
      BY <1>7, <2>1 DEF RememberWrite
    <3>2. Remembered(c, e) \subseteq entities'
      BY <3>1
    <3>3. e \notin Remembered(c, e)
      BY <1>1, <1>2, <3>2
    <3>4. Remembered(c, e) = {[e EXCEPT !.facts = Merged(c, x.facts)] : x \in client[c].entity}
      BY <3>3 DEF Remembered
    <3>5. [e EXCEPT !.facts = Merged(c, s.facts)].facts = Merged(c, s.facts)
      BY <1>0 DEF EntityRow
    <3>6. f \notin Merged(c, s.facts)
      BY <1>2, <2>1, <3>2, <3>4, <3>5
    <3> QED BY <3>6 DEF Merged
  <2> QED BY <1>5, <1>7, <2>1 DEF RememberWrite
<1> QED BY <1>4, <1>6, <1>7

(* What was forgotten answers no query again, an ingestion nothing overlapped *)
(* leaves exactly the chunks of its text, and a fact vanishes only by being   *)
(* forgotten or by two overlapping writers (ingest_path, remember, forget),   *)
(* for any number of requests, contents and facts.                            *)
THEOREM MemoryKeepsFaith == MemorySpec => MemoryIsFaithful
<1>1. MemoryInit => MemoryInv
  <2> SUFFICES ASSUME MemoryInit PROVE MemoryInv
    OBVIOUS
  <2>1. file \in Contents /\ 0 \in 0..MaxWrites
    BY MemoryAssumption DEF MemoryInit
  <2>2. client \in [Clients -> MemoryClient] /\ \A c \in Clients : client[c] = NoClient
    BY NoClientIs DEF MemoryInit
  <2>3. ClientsFit
    BY <2>2, NoClientFits DEF ClientsFit
  <2> QED BY <2>1, <2>3 DEF MemoryInit, MemoryInv, TablesFit
<1>2. MemoryInv /\ [MemoryNext]_memoryVars => MemoryInv'
  BY MemoryInvNext
<1>3. MemoryInv => ForgottenStaysForgotten
  <2> SUFFICES ASSUME MemoryInv PROVE ForgottenStaysForgotten
    OBVIOUS
  <2>1. Cardinality(document) <= 1
    <3>1. document = {} \/ \E d \in DocumentRow : document = {d}
      BY DEF MemoryInv, TablesFit
    <3>2. CASE document = {}
      <4>1. Cardinality(document) = 0
        BY <3>2, FS_EmptySet
      <4> QED BY <4>1
    <3>3. ASSUME NEW d, document = {d} PROVE Cardinality(document) <= 1
      <4>1. Cardinality(document) = 1
        BY <3>3, FS_Singleton
      <4> QED BY <4>1
    <3> QED BY <3>1, <3>2, <3>3
  <2>2. \A d \in document : d.hash \in Contents /\ d.version \in 1..MaxWrites
    <3>1. writes \in Nat /\ writes <= MaxWrites
      BY WritesCount, MemoryAssumption DEF MemoryInv, TablesFit
    <3> QED BY <3>1, MemoryAssumption DEF MemoryInv, TablesFit, DocumentRow
  <2>3. \A k \in chunks : k.content \in Contents /\ \E d \in document : d.id <= k.id
    BY DEF MemoryInv, TablesFit, ChunkRow
  <2> QED BY <2>1, <2>2, <2>3 DEF ForgottenStaysForgotten, MemoryInv, TablesFit
<1>4. MemoryInv /\ [MemoryNext]_memoryVars =>
        [\A c \in Clients :
           client[c].op = "ingest" /\ client'[c] = NoClient /\ document' # document
           /\ client[c].text = client[c].digest /\ client[c].chunks = chunks
           => \A d \in document' : {k.content : k \in chunks'} = {d.hash}
                                   /\ Cardinality(chunks') = 1]_memoryVars
  BY IngestLeavesItsChunks
<1>5. MemoryInv /\ [MemoryNext]_memoryVars =>
        [\A f \in Known \ Known' : \E c \in Clients :
           /\ client'[c] = NoClient
           /\ \/ client[c].op = "forget"
              \/ client[c].op = "remember" /\ \A e \in client[c].entity : f \notin e.facts
        ]_memoryVars
  BY FactsLeave
<1>6. MemorySpec => []ForgottenStaysForgotten
  BY <1>1, <1>2, <1>3, PTL DEF MemorySpec
<1>7. MemorySpec => IngestIsFaithful
  BY <1>1, <1>2, <1>4, PTL DEF MemorySpec, IngestIsFaithful
<1>8. MemorySpec => FactsVanishOnlyByOverlap
  BY <1>1, <1>2, <1>5, PTL DEF MemorySpec, FactsVanishOnlyByOverlap
<1> QED BY <1>6, <1>7, <1>8 DEF MemoryIsFaithful

------------------------------------------------------------------------------
(* The policy: classification and evaluation for every policy and every call, *)
(* the copy of the file however it is edited, and direct invokes wherever     *)
(* they die.                                                                  *)

(* A document as an editor writes it, whole or cut short.                     *)
IsDocument(doc) ==
    /\ doc = [defaults |-> doc.defaults, rules |-> doc.rules]
    /\ \A level \in DOMAIN doc.defaults : doc.defaults[level] \in Decisions
    /\ doc.rules \in Seq({doc.rules[i] : i \in DOMAIN doc.rules})
    /\ \A i \in DOMAIN doc.rules :
         doc.rules[i].limits \subseteq Levels /\ doc.rules[i].decision \in Decisions
IsContent(content) == content \in {Broken, Missing} \/ IsDocument(content)

IsPolicy(policy) ==
    /\ \A level \in Levels : policy.defaults[level] # Unstated => policy.defaults[level] \in Decisions
    /\ policy.defaults[4] # "allow"
    /\ DOMAIN policy.rules \subseteq Nat
    /\ \A i \in DOMAIN policy.rules :
         policy.rules[i].limits \subseteq Levels /\ policy.rules[i].decision \in Decisions

------------------------------------------------------------------------------
LEMMA LoadedIsPolicy ==
    ASSUME NEW content, IsContent(content)
    PROVE  IsPolicy(Load(content))
<1>1. IsPolicy(DenyAll)
  BY DEF IsPolicy, DenyAll, Decisions, Levels
<1>2. ASSUME IsDocument(content)
      PROVE  IsPolicy([defaults |-> ParseDefaults(content.defaults), rules |-> content.rules])
  <2>1. \A level \in Levels : LET d == ParseDefaults(content.defaults)[level]
                              IN  d # Unstated => d \in Decisions
    BY <1>2 DEF IsDocument, ParseDefaults, Decisions
  <2>2. DOMAIN content.rules \subseteq Nat
    BY <1>2 DEF IsDocument
  <2>3. ParseDefaults(content.defaults)[4] # "allow"
    BY PolicyAssumption DEF ParseDefaults, Levels, Decisions
  <2> QED BY <1>2, <2>1, <2>2, <2>3 DEF IsPolicy, IsDocument
<1> QED BY <1>1, <1>2 DEF Load, IsContent

LEMMA PrefixIsContent ==
    ASSUME NEW doc, IsDocument(doc), NEW n \in 0 .. Len(doc.rules) - 1
    PROVE  IsDocument([doc EXCEPT !.rules = SubSeq(@, 1, n)])
<1> DEFINE S == {doc.rules[i] : i \in DOMAIN doc.rules}
           first == SubSeq(doc.rules, 1, n)
           new == [doc EXCEPT !.rules = SubSeq(@, 1, n)]
<1>1. doc.rules \in Seq(S) /\ Len(doc.rules) \in Nat /\ DOMAIN doc.rules = 1..Len(doc.rules)
  BY DEF IsDocument
<1>2. n \in Nat /\ n <= Len(doc.rules)
  BY <1>1
<1> HIDE DEF S
<1>3. first \in Seq(S) /\ Len(first) = n /\ \A i \in 1..n : first[i] = doc.rules[i]
  BY <1>1, <1>2
<1> HIDE DEF first
<1>4. DOMAIN first = 1..n
  BY <1>3
<1> DEFINE T == {first[i] : i \in DOMAIN first}
<1>5. first \in Seq(T)
  <2>1. first = [i \in 1..n |-> first[i]]
    BY <1>3, <1>4
  <2>2. \A i \in 1..n : first[i] \in T
    BY <1>4
  <2> HIDE DEF T
  <2>3. first \in [1..n -> T]
    BY <2>1, <2>2
  <2> QED BY <1>2, <2>3
<1>6. new = [defaults |-> doc.defaults, rules |-> first]
  <2>1. PICK d, r : doc = [defaults |-> d, rules |-> r]
    BY DEF IsDocument
  <2>2. doc.defaults = d /\ doc.rules = r
    BY <2>1
  <2>3. new = [doc EXCEPT !.rules = SubSeq(r, 1, n)]
    BY <2>2
  <2> HIDE DEF new
  <2>4. new = [defaults |-> d, rules |-> SubSeq(r, 1, n)]
    BY <2>1, <2>3
  <2> QED BY <2>2, <2>4 DEF first
<1>7. ASSUME NEW i \in DOMAIN first
      PROVE  first[i].limits \subseteq Levels /\ first[i].decision \in Decisions
  <2>1. i \in DOMAIN doc.rules /\ first[i] = doc.rules[i]
    BY <1>1, <1>2, <1>3, <1>4
  <2> QED BY <2>1 DEF IsDocument
<1>8. new.defaults = doc.defaults /\ new.rules = first
  BY <1>6
<1> HIDE DEF first
<1> HIDE DEF new
<1>9. IsDocument(new)
  BY <1>5, <1>6, <1>7, <1>8 DEF IsDocument
<1> QED BY <1>9 DEF new

------------------------------------------------------------------------------
(* Classification.                                                            *)
LEMMA ClassifyIsLevel ==
    ASSUME NEW call \in Calls
    PROVE  Classify(call) \in Levels
BY PolicyAssumption
DEF Classify, Levels, Greater, RaisedBy, VisionMinimum, TaintMinimum, TaintLevels, BulkLevels, UnknownTool

LEMMA ClassifyGrows ==
    ASSUME NEW call \in Calls, NEW c \in Shapes, NoWorse(c, call)
    PROVE  Classify(c) <= Classify(call)
<1>1. c.base \in 0..4 /\ c.base # Unstated
  BY PolicyAssumption DEF Shapes, Levels
<1>2. CASE call.base = Unstated
  BY <1>1, <1>2
  DEF Shapes, Classify, Levels, Greater, RaisedBy, VisionMinimum, TaintMinimum, TaintLevels, BulkLevels, UnknownTool
<1>3. CASE call.base # Unstated
  <2>1. call.base \in 0..4 /\ c.base <= call.base
    BY <1>3, PolicyAssumption DEF NoWorse, Levels
  <2> QED BY <1>1, <1>3, <2>1
      DEF NoWorse, Classify, Greater, RaisedBy, VisionMinimum, TaintMinimum, TaintLevels, BulkLevels, UnknownTool
<1> QED BY <1>2, <1>3

------------------------------------------------------------------------------
(* Evaluation.                                                                *)
Applying(policy, tool, level, day) ==
    { i \in DOMAIN policy.rules : Applies(policy.rules[i], tool, level, day) }
Denying(policy, tool, level, day) ==
    { i \in Applying(policy, tool, level, day) : policy.rules[i].decision = "deny" }
Fallback(policy, level) ==
    IF policy.defaults[level] = Unstated THEN "deny" ELSE policy.defaults[level]

\* What evaluation decides before the check on the highest level.
Decides(policy, tool, level, day, decision) ==
    \/ Denying(policy, tool, level, day) # {} /\ decision = "deny"
    \/ /\ Denying(policy, tool, level, day) = {}
       /\ \E i \in Applying(policy, tool, level, day) :
            /\ \A j \in Applying(policy, tool, level, day) : i <= j
            /\ decision = policy.rules[i].decision
    \/ /\ Applying(policy, tool, level, day) = {}
       /\ decision = Fallback(policy, level)

LEMMA EvaluationDecides ==
    ASSUME NEW policy, IsPolicy(policy), NEW tool, NEW level \in Levels, NEW day
    PROVE  \E decision \in Decisions :
              /\ Decides(policy, tool, level, day, decision)
              /\ Evaluate(policy, tool, level, day) = Checked(level, decision)
<1> DEFINE A == Applying(policy, tool, level, day)
           B == Denying(policy, tool, level, day)
           First(S) == CHOOSE i \in S : \A j \in S : i <= j
           d == IF B # {} THEN "deny"
                ELSE IF A # {} THEN policy.rules[First(A)].decision
                ELSE Fallback(policy, level)
<1>1. Evaluate(policy, tool, level, day) = Checked(level, d)
  BY DEF Evaluate, Applying, Denying, Fallback
<1>2. A \subseteq DOMAIN policy.rules /\ A \subseteq Nat /\ B \subseteq A
  BY DEF Applying, Denying, IsPolicy
<1>3. CASE B # {}
  BY <1>1, <1>3 DEF Decides, Decisions
<1>4. CASE B = {} /\ A # {}
  <2> HIDE DEF A, B
  <2>1. \E i \in A : \A j \in A : i <= j
    BY <1>2, <1>4, LeastIs
  <2>2. First(A) \in A /\ \A j \in A : First(A) <= j
    BY <2>1
  <2> HIDE DEF First
  <2>3. d = policy.rules[First(A)].decision
    BY <1>4
  <2>4. d \in Decisions
    BY <1>2, <2>2, <2>3 DEF IsPolicy
  <2> HIDE DEF d
  <2>5. Decides(policy, tool, level, day, d)
    BY <1>4, <2>2, <2>3 DEF Decides, A, B
  <2> QED BY <1>1, <2>4, <2>5
<1>5. CASE A = {}
  <2>1. B = {} /\ d = Fallback(policy, level)
    BY <1>2, <1>5
  <2>2. d \in Decisions
    BY <2>1 DEF Fallback, IsPolicy, Decisions
  <2>3. Decides(policy, tool, level, day, d)
    BY <1>5, <2>1 DEF Decides
  <2> QED BY <1>1, <2>2, <2>3
<1> QED BY <1>3, <1>4, <1>5

LEMMA RaisingKeepsStrength ==
    ASSUME NEW policy, IsPolicy(policy), Sensible(policy), NEW tool, NEW day,
           NEW l \in Levels, NEW m \in Levels, l <= m
    PROVE  Strength[Evaluate(policy, tool, l, day)] <= Strength[Evaluate(policy, tool, m, day)]
<1> DEFINE A(n) == Applying(policy, tool, n, day)
           B(n) == Denying(policy, tool, n, day)
<1>1. PICK d \in Decisions : /\ Decides(policy, tool, l, day, d)
                             /\ Evaluate(policy, tool, l, day) = Checked(l, d)
  BY EvaluationDecides
<1>2. PICK e \in Decisions : /\ Decides(policy, tool, m, day, e)
                             /\ Evaluate(policy, tool, m, day) = Checked(m, e)
  BY EvaluationDecides
<1>3. Strength["allow"] = 0 /\ Strength["confirm"] = 1 /\ Strength["deny"] = 2 /\ Strength["raises"] = 3
  BY DEF Strength
<1>4. CASE l = m
  <2>1. Strength[Evaluate(policy, tool, l, day)] \in Nat
    BY <1>1, <1>3 DEF Checked, Decisions
  <2> QED BY <1>4, <2>1
<1>5. CASE l # m
  <2>1. l # 4
    BY <1>5 DEF Levels
  <2>2. Evaluate(policy, tool, l, day) = d
    BY <1>1, <2>1 DEF Checked
  <2>3. Strength[e] <= Strength[Checked(m, e)]
    BY <1>2, <1>3 DEF Checked, Decisions
  <2>4. A(m) \subseteq A(l) /\ B(m) \subseteq B(l)
    <3>1. ASSUME NEW i \in A(m) PROVE i \in A(l)
      <4>1. i \in DOMAIN policy.rules /\ policy.rules[i].limits \subseteq Levels
        BY <3>1 DEF Applying, IsPolicy
      <4>2. \A limit \in policy.rules[i].limits : m <= limit => l <= limit
        BY <4>1 DEF Levels
      <4> QED BY <3>1, <4>1, <4>2 DEF Applying, Applies
    <3> QED BY <3>1 DEF Denying
  <2>5. ASSUME NEW i \in A(l), policy.rules[i].decision # "allow"
        PROVE  i \in A(m)
    BY <2>5 DEF Applying, Applies, Sensible
  <2>6. B(l) \subseteq B(m)
    BY <2>5 DEF Denying
  <2>7. Strength[d] <= Strength[e]
    <3>1. CASE B(l) # {}
      BY <1>1, <1>2, <1>3, <2>4, <2>6, <3>1 DEF Decides, Denying
    <3>2. CASE B(l) = {} /\ A(m) # {}
      <4>1. PICK i \in A(l) : (\A j \in A(l) : i <= j) /\ d = policy.rules[i].decision
        BY <1>1, <2>4, <3>2 DEF Decides
      <4>2. PICK k \in A(m) : (\A j \in A(m) : k <= j) /\ e = policy.rules[k].decision
        BY <1>2, <2>4, <3>2 DEF Decides, Denying
      <4>3. CASE d = "allow"
        BY <1>2, <1>3, <4>3 DEF Decisions
      <4>4. CASE d # "allow"
        <5>1. i \in A(m) /\ k \in A(l)
          BY <2>4, <2>5, <4>1, <4>4
        <5>2. i \in Nat /\ k \in Nat
          BY <5>1 DEF Applying, IsPolicy
        <5>3. i = k
          BY <4>1, <4>2, <5>1, <5>2
        <5> QED BY <1>1, <1>3, <4>1, <4>2, <5>3 DEF Decisions
      <4> QED BY <4>3, <4>4
    <3>3. CASE B(l) = {} /\ A(m) = {} /\ A(l) # {}
      <4>1. PICK i \in A(l) : d = policy.rules[i].decision
        BY <1>1, <3>3 DEF Decides
      <4>2. d = "allow"
        BY <2>5, <3>3, <4>1
      <4> QED BY <1>2, <1>3, <4>2 DEF Decisions
    <3>4. CASE A(m) = {} /\ A(l) = {}
      <4>1. d = Fallback(policy, l) /\ e = Fallback(policy, m)
        BY <1>1, <1>2, <3>4 DEF Decides, Denying
      <4>2. DefaultStrength(policy, l) <= DefaultStrength(policy, m)
        BY DEF Sensible
      <4> QED BY <4>1, <4>2 DEF Fallback, DefaultStrength
    <3> QED BY <3>1, <3>2, <3>3, <3>4
  <2> QED BY <1>1, <1>2, <1>3, <2>2, <2>3, <2>7 DEF Checked, Decisions
<1> QED BY <1>4, <1>5

LEMMA RaisingIsExplained ==
    ASSUME NEW policy, IsPolicy(policy), NEW tool, NEW day, NEW level \in Levels,
           Evaluate(policy, tool, level, day) = "raises"
    PROVE  /\ level = 4
           /\ \E i \in DOMAIN policy.rules :
                LET rule == policy.rules[i]
                IN  rule.decision = "allow" /\ tool \in rule.tools /\ rule.limits \subseteq {4}
<1>1. PICK d \in Decisions : /\ Decides(policy, tool, level, day, d)
                             /\ Evaluate(policy, tool, level, day) = Checked(level, d)
  BY EvaluationDecides
<1>2. level = 4 /\ d = "allow"
  BY <1>1 DEF Checked, Decisions
<1>3. Fallback(policy, level) # "allow"
  BY <1>2 DEF IsPolicy, Fallback
<1>4. PICK i \in Applying(policy, tool, level, day) : policy.rules[i].decision = "allow"
  BY <1>1, <1>2, <1>3 DEF Decides
<1>5. i \in DOMAIN policy.rules /\ tool \in policy.rules[i].tools
  BY DEF Applying, Applies
<1>6. \A limit \in policy.rules[i].limits : limit \in 0..4 /\ 4 <= limit
  BY <1>2, <1>5 DEF Applying, Applies, IsPolicy, Levels
<1>7. policy.rules[i].limits \subseteq {4}
  BY <1>6
<1> QED BY <1>2, <1>4, <1>5, <1>7

------------------------------------------------------------------------------
(* The inductive invariant: what is in the file parses or is refused, the     *)
(* copy is a policy stamped no later than the file, an invoke past its        *)
(* decision has the record that allows it.                                    *)
Entries == [event : {"decided", "ok", "error"}, number : Nat, level : Levels, decision : Decisions]
Past(stamp) == \E t \in Nat : \E size : t <= policyFile.mtime /\ stamp = <<t, size>>
Allowed(trail, number, level) ==
    /\ level < 4
    /\ \E i \in DOMAIN trail :
         /\ trail[i].event = "decided" /\ trail[i].number = number
         /\ trail[i].decision = "allow" /\ trail[i].level = level

FileInv ==
    /\ policyFile = [content |-> policyFile.content, mtime |-> policyFile.mtime,
                     writing |-> policyFile.writing]
    /\ policyFile.mtime \in Nat
    /\ IsContent(policyFile.content) /\ IsContent(policyFile.writing)
StoreInv ==
    /\ store = [policy |-> store.policy, stamp |-> store.stamp, seen |-> store.seen]
    /\ store.policy # Unstated =>
         /\ IsPolicy(store.policy) /\ Past(store.stamp)
         /\ store.stamp = Stamp => store.policy = Load(policyFile.content)
InvokeInv ==
    invoke # Idle =>
      /\ invoke = [stage |-> invoke.stage, call |-> invoke.call, policy |-> invoke.policy,
                   number |-> invoke.number]
      /\ invoke.stage \in {"arrived", "statted", "decide", "run", "ran"}
      /\ invoke.call \in Calls /\ IsPolicy(invoke.policy) /\ invoke.number \in Nat
      /\ invoke.stage = "statted" => Past(store.seen)
      /\ invoke.stage \in {"run", "ran"} => Allowed(ledgerTrail, invoke.number, Classify(invoke.call))
TrailInv ==
    /\ ledgerTrail \in Seq(Entries)
    /\ \A r \in ran : Allowed(ledgerTrail, r.number, r.level)
PolicyInv == FileInv /\ StoreInv /\ InvokeInv /\ TrailInv

LEMMA IdleHasNoStage ==
    ASSUME invoke = Idle
    PROVE  invoke.stage = "none"
BY DEF Idle

LEMMA DenyAllIsPolicy == IsPolicy(DenyAll)
BY DEF IsPolicy, DenyAll, Decisions, Levels

LEMMA StartsIn == PolicyInit => PolicyInv
<1> SUFFICES ASSUME PolicyInit PROVE PolicyInv
  OBVIOUS
<1>1. FileInv
  BY DEF PolicyInit, FileInv, IsContent
<1>2. StoreInv
  BY DEF PolicyInit, StoreInv
<1>3. InvokeInv /\ TrailInv
  BY DEF PolicyInit, InvokeInv, TrailInv
<1> QED BY <1>1, <1>2, <1>3 DEF PolicyInv

(* An edit gives the file a later stamp than any copy carries.                *)
LEMMA EditsKeep ==
    ASSUME PolicyInv, EditFile
    PROVE  PolicyInv'
<1>1. PICK content, writing : Puts(content, writing) /\ IsContent(content) /\ IsContent(writing)
  <2>1. ASSUME NEW doc \in Documents PROVE IsDocument(doc)
    BY PolicyAssumption DEF IsDocument
  <2>2. IsContent(Missing) /\ IsContent(Broken) /\ IsContent(policyFile.writing)
    BY DEF IsContent, PolicyInv, FileInv
  <2>3. CASE \E doc \in Documents : Puts(doc, Missing)
    BY <2>1, <2>2, <2>3 DEF IsContent
  <2>4. CASE \E doc \in Documents : \E n \in 0 .. Len(doc.rules) - 1 :
                Puts([doc EXCEPT !.rules = SubSeq(@, 1, n)], doc)
    <3>1. PICK doc \in Documents : \E n \in 0 .. Len(doc.rules) - 1 :
            Puts([doc EXCEPT !.rules = SubSeq(@, 1, n)], doc)
      BY <2>4
    <3>2. IsDocument(doc)
      BY <2>1
    <3>3. PICK n \in 0 .. Len(doc.rules) - 1 : Puts([doc EXCEPT !.rules = SubSeq(@, 1, n)], doc)
      BY <3>1
    <3>4. IsDocument([doc EXCEPT !.rules = SubSeq(@, 1, n)])
      BY <3>2, PrefixIsContent
    <3> QED BY <3>2, <3>3, <3>4 DEF IsContent
  <2>5. CASE \E doc \in Documents : Puts(Broken, doc)
    BY <2>1, <2>2, <2>5 DEF IsContent
  <2>6. CASE Puts(policyFile.writing, Missing)
    BY <2>2, <2>6
  <2>7. CASE Puts(Missing, Missing)
    BY <2>2, <2>7
  <2> QED BY <2>3, <2>4, <2>5, <2>6, <2>7 DEF EditFile
<1>2. /\ policyFile' = [content |-> content, mtime |-> policyFile.mtime + 1, writing |-> writing]
      /\ UNCHANGED <<store, invoke, ledgerTrail, ran>>
  BY <1>1 DEF Puts, EditFile
<1>3. policyFile.mtime \in Nat /\ policyFile'.mtime = policyFile.mtime + 1
  BY <1>2 DEF PolicyInv, FileInv
<1>4. FileInv'
  BY <1>1, <1>2, <1>3 DEF FileInv
<1>5. \A stamp : Past(stamp) => Past(stamp)' /\ stamp # Stamp'
  BY <1>3 DEF Past, Stamp
<1>6. StoreInv'
  BY <1>2, <1>5 DEF PolicyInv, StoreInv
<1>7. InvokeInv'
  BY <1>2, <1>5 DEF PolicyInv, InvokeInv, Allowed
<1>8. TrailInv'
  BY <1>2 DEF PolicyInv, TrailInv, Allowed
<1> QED BY <1>4, <1>6, <1>7, <1>8 DEF PolicyInv

LEMMA ReadsKeep ==
    ASSUME PolicyInv, StatPolicy \/ ReadPolicy
    PROVE  PolicyInv'
<1>1. /\ UNCHANGED <<policyFile, ledgerTrail, ran>>
      /\ invoke # Idle
  BY DEF StatPolicy, ReadPolicy, Idle
<1>2. FileInv' /\ TrailInv'
  BY <1>1 DEF PolicyInv, FileInv, TrailInv, Allowed
<1>3. CASE StatPolicy /\ policyFile.content = Missing
  BY <1>1, <1>2, <1>3, DenyAllIsPolicy
  DEF StatPolicy, PolicyInv, StoreInv, InvokeInv, Past, Stamp, Idle
<1>4. CASE StatPolicy /\ policyFile.content # Missing
  <2>1. /\ store' = [policy |-> store.policy, stamp |-> store.stamp, seen |-> Stamp]
        /\ invoke' = [invoke EXCEPT !.stage = "statted"]
    BY <1>4 DEF StatPolicy, PolicyInv, StoreInv
  <2>2. Past(Stamp)
    BY DEF Past, Stamp, PolicyInv, FileInv
  <2>3. StoreInv'
    BY <1>1, <2>1 DEF PolicyInv, StoreInv, Past, Stamp
  <2>4. InvokeInv'
    BY <1>1, <2>1, <2>2 DEF PolicyInv, InvokeInv, Past, Stamp
  <2> QED BY <1>2, <2>3, <2>4 DEF PolicyInv
<1>5. CASE ReadPolicy
  <2> DEFINE fresh == store.policy # Unstated /\ store.seen = store.stamp
             policy == IF fresh THEN store.policy ELSE Load(policyFile.content)
  <2>1. /\ store' = [policy |-> policy, stamp |-> store.seen, seen |-> Unstated]
        /\ invoke' = [invoke EXCEPT !.stage = "decide", !.policy = policy]
        /\ invoke.stage = "statted"
    BY <1>5 DEF ReadPolicy
  <2>2. Past(store.seen)
    BY <1>1, <2>1 DEF PolicyInv, InvokeInv
  <2>3. IsPolicy(policy)
    BY LoadedIsPolicy DEF PolicyInv, FileInv, StoreInv
  <2>4. store.seen = Stamp => policy = Load(policyFile.content)
    BY DEF PolicyInv, StoreInv
  <2> HIDE DEF policy
  <2>5. StoreInv'
    BY <1>1, <2>1, <2>2, <2>3, <2>4 DEF StoreInv, Past, Stamp
  <2>6. InvokeInv'
    BY <1>1, <2>1, <2>3 DEF PolicyInv, InvokeInv
  <2> QED BY <1>2, <2>5, <2>6 DEF PolicyInv
<1> QED BY <1>3, <1>4, <1>5

LEMMA ArrivalsKeep ==
    ASSUME PolicyInv, NEW call \in Calls, Arrive(call)
    PROVE  PolicyInv'
<1>1. /\ UNCHANGED <<policyFile, store, ledgerTrail, ran>>
      /\ invoke' = [stage |-> "arrived", call |-> call, policy |-> DenyAll,
                    number |-> Len(ledgerTrail) + 1]
  BY DEF Arrive
<1>2. Len(ledgerTrail) + 1 \in Nat
  BY DEF PolicyInv, TrailInv
<1>3. InvokeInv'
  BY <1>1, <1>2, DenyAllIsPolicy DEF InvokeInv
<1> QED BY <1>1, <1>3 DEF PolicyInv, FileInv, StoreInv, TrailInv, Past, Stamp, Allowed

LEMMA RecordsKeep ==
    ASSUME PolicyInv, invoke # Idle, NEW event \in {"decided", "ok", "error"},
           NEW decision \in Decisions, Records(event, decision)
    PROVE  /\ ledgerTrail' \in Seq(Entries)
           /\ \A number, level : Allowed(ledgerTrail, number, level) => Allowed(ledgerTrail', number, level)
           /\ LET level == Classify(invoke.call)
              IN  event = "decided" /\ decision = "allow" /\ level < 4 =>
                      Allowed(ledgerTrail', invoke.number, level)
<1> DEFINE entry == [event |-> event, number |-> invoke.number,
                     level |-> Classify(invoke.call), decision |-> decision]
<1>1. entry \in Entries
  BY ClassifyIsLevel DEF PolicyInv, InvokeInv, Entries
<1>2. ledgerTrail' = Append(ledgerTrail, entry) /\ ledgerTrail \in Seq(Entries)
  BY DEF Records, PolicyInv, TrailInv
<1>3. /\ entry.event = event /\ entry.number = invoke.number
      /\ entry.level = Classify(invoke.call) /\ entry.decision = decision
  OBVIOUS
<1> HIDE DEF entry
<1>4. /\ ledgerTrail' \in Seq(Entries)
      /\ Len(ledgerTrail') = Len(ledgerTrail) + 1 /\ Len(ledgerTrail) \in Nat
      /\ \A i \in 1 .. Len(ledgerTrail) : ledgerTrail'[i] = ledgerTrail[i]
      /\ ledgerTrail'[Len(ledgerTrail) + 1] = entry
  BY <1>1, <1>2, AppendProperties
<1>5. DOMAIN ledgerTrail = 1 .. Len(ledgerTrail) /\ DOMAIN ledgerTrail' = 1 .. Len(ledgerTrail) + 1
  BY <1>2, <1>4
<1>6. ASSUME NEW number, NEW level, Allowed(ledgerTrail, number, level)
      PROVE  Allowed(ledgerTrail', number, level)
  BY <1>4, <1>5, <1>6 DEF Allowed
<1>7. ASSUME event = "decided", decision = "allow", Classify(invoke.call) < 4
      PROVE  \E i \in DOMAIN ledgerTrail' :
                /\ ledgerTrail'[i].event = "decided" /\ ledgerTrail'[i].number = invoke.number
                /\ ledgerTrail'[i].decision = "allow"
                /\ ledgerTrail'[i].level = Classify(invoke.call)
  BY <1>3, <1>4, <1>5, <1>7
<1> QED BY <1>4, <1>6, <1>7 DEF Allowed

LEMMA RequestsKeep ==
    ASSUME PolicyInv, Decide \/ RunTool \/ ToolFails \/ RecordOutcome \/ ProcessDies
    PROVE  PolicyInv'
<1>1. UNCHANGED policyFile /\ invoke # Idle
  BY DEF Decide, RunTool, ToolFails, RecordOutcome, ProcessDies, Idle
<1>2. FileInv'
  BY <1>1 DEF PolicyInv, FileInv
<1>3. invoke.call \in Calls /\ IsPolicy(invoke.policy) /\ Classify(invoke.call) \in Levels
  BY <1>1, ClassifyIsLevel DEF PolicyInv, InvokeInv
<1>4. UNCHANGED store => StoreInv'
  BY <1>1 DEF PolicyInv, StoreInv, Past, Stamp
<1>5. invoke' = Idle => InvokeInv'
  BY DEF InvokeInv, Idle
<1>6. CASE Decide
  <2> DEFINE d == Evaluate(invoke.policy, invoke.call.tool, Classify(invoke.call), today)
  <2>1. CASE d = "raises"
    BY <1>2, <1>4, <1>5, <1>6, <2>1 DEF Decide, PolicyInv, TrailInv, Allowed
  <2>2. CASE d \in Decisions
    <3>1. Records("decided", d) /\ UNCHANGED <<store, ran>>
      BY <1>6, <2>2 DEF Decide, Decisions
    <3> HIDE DEF d
    <3>2. /\ ledgerTrail' \in Seq(Entries)
          /\ \A number, level : Allowed(ledgerTrail, number, level) => Allowed(ledgerTrail', number, level)
          /\ d = "allow" /\ Classify(invoke.call) < 4 =>
                Allowed(ledgerTrail', invoke.number, Classify(invoke.call))
      BY <1>1, <2>2, <3>1, RecordsKeep
    <3>3. TrailInv'
      BY <3>1, <3>2 DEF PolicyInv, TrailInv
    <3>4. CASE d = "allow"
      <4>1. invoke' = [invoke EXCEPT !.stage = "run"]
        BY <1>6, <3>4 DEF Decide, d
      <4>2. /\ invoke'.call = invoke.call /\ invoke'.number = invoke.number
            /\ invoke'.stage = "run"
        BY <1>1, <4>1 DEF PolicyInv, InvokeInv
      <4>3. Classify(invoke.call) < 4
        <5>1. PICK e \in Decisions :
                d = Checked(Classify(invoke.call), e)
          BY <1>3, EvaluationDecides DEF d
        <5> QED BY <1>3, <3>4, <5>1 DEF Checked, Levels
      <4>4. Allowed(ledgerTrail', invoke'.number, Classify(invoke'.call))
        BY <3>2, <3>4, <4>2, <4>3 DEF Allowed
      <4>5. InvokeInv'
        BY <1>1, <4>1, <4>2, <4>4 DEF PolicyInv, InvokeInv
      <4> QED BY <1>2, <1>4, <3>1, <3>3, <4>5 DEF PolicyInv
    <3>5. CASE d # "allow"
      BY <1>2, <1>4, <1>5, <1>6, <2>2, <3>1, <3>3, <3>5 DEF Decide, PolicyInv, Decisions, d
    <3> QED BY <3>4, <3>5
  <2> QED BY <1>6, <2>1, <2>2 DEF Decide, Decisions
<1>7. CASE RunTool
  <2>1. Allowed(ledgerTrail, invoke.number, Classify(invoke.call))
    BY <1>1, <1>7 DEF RunTool, PolicyInv, InvokeInv
  <2>2. TrailInv'
    BY <1>7, <2>1 DEF RunTool, PolicyInv, TrailInv, Allowed
  <2>3. InvokeInv'
    BY <1>1, <1>7 DEF RunTool, PolicyInv, InvokeInv, Allowed
  <2> QED BY <1>2, <1>4, <1>7, <2>2, <2>3 DEF RunTool, PolicyInv
<1>8. CASE ToolFails \/ RecordOutcome
  <2>1. PICK event \in {"error", "ok"} : Records(event, "allow")
    BY <1>8 DEF ToolFails, RecordOutcome
  <2>2. UNCHANGED <<store, ran>> /\ invoke' = Idle
    BY <1>8 DEF ToolFails, RecordOutcome
  <2>3. /\ ledgerTrail' \in Seq(Entries)
        /\ \A number, level : Allowed(ledgerTrail, number, level) => Allowed(ledgerTrail', number, level)
    BY <1>1, <2>1, RecordsKeep DEF Decisions
  <2>4. TrailInv'
    BY <2>2, <2>3 DEF PolicyInv, TrailInv
  <2> QED BY <1>2, <1>4, <1>5, <2>2, <2>4 DEF PolicyInv
<1>9. CASE ProcessDies
  <2>1. StoreInv'
    BY <1>9 DEF ProcessDies, StoreInv
  <2> QED BY <1>2, <1>5, <1>9, <2>1 DEF ProcessDies, PolicyInv, TrailInv, Allowed
<1> QED BY <1>6, <1>7, <1>8, <1>9

LEMMA StepsKeep == PolicyInv /\ [PolicyNext]_policyVars => PolicyInv'
<1> SUFFICES ASSUME PolicyInv, [PolicyNext]_policyVars PROVE PolicyInv'
  OBVIOUS
<1>1. CASE DayPasses \/ UNCHANGED policyVars
  <2>1. UNCHANGED <<policyFile, store, invoke, ledgerTrail, ran>>
    BY <1>1 DEF DayPasses, policyVars
  <2> QED BY <2>1
      DEF PolicyInv, FileInv, StoreInv, InvokeInv, TrailInv, Past, Stamp, Allowed
<1> QED BY <1>1, EditsKeep, ReadsKeep, ArrivalsKeep, RequestsKeep DEF PolicyNext

LEMMA InvariantHolds ==
    ASSUME PolicyInv
    PROVE  PolicyHolds
<1>1. EscalationOnlyRaises
  BY ClassifyGrows DEF EscalationOnlyRaises, PolicyInv, InvokeInv
<1>2. RaisingNeverWeakens
  BY RaisingKeepsStrength DEF RaisingNeverWeakens, PolicyInv, StoreInv
<1>3. RaisesOnlyUnderUnscopedAllows
  BY RaisingIsExplained DEF RaisesOnlyUnderUnscopedAllows, PolicyInv, StoreInv
<1>4. CopyIsCurrent
  BY DEF CopyIsCurrent, PolicyInv, StoreInv
<1>5. EffectsFollowRecords /\ L4NeverRuns
  BY DEF EffectsFollowRecords, L4NeverRuns, PolicyInv, TrailInv, Allowed
<1> QED BY <1>1, <1>2, <1>3, <1>4, <1>5 DEF PolicyHolds

(* Whatever calls, contents and numbers of edits and invokes: raising the     *)
(* level of a call never weakens what is asked for it, evaluation raises only *)
(* for an allow rule that says L4 itself, a copy with the file's stamp is the *)
(* file's policy, and nothing runs before its permission is on record or at   *)
(* L4 (classify, PolicyEngine.evaluate, PolicyStore.get, DirectInvoker.invoke).*)
THEOREM DirectCallsAreGoverned == PolicySpec => []PolicyHolds
<1>1. PolicyInv => PolicyHolds
  BY InvariantHolds
<1> QED BY <1>1, StartsIn, StepsKeep, PTL DEF PolicySpec
==============================================================================
