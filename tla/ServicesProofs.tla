---------------------------- MODULE ServicesProofs ----------------------------
(* What the services promise at every moment, for any number of replicas,      *)
(* connections, providers and speeches: the safety that the liveness of        *)
(* MCServices rests on.                                                        *)
EXTENDS LeaderElection, LocalAgent, ModelRouting, VoiceSession, FiniteSetTheorems, SequenceTheorems,
        WellFoundedInduction, TLAPS

-------------------------------------------------------------------------------
(* Leader election.                                                           *)

Process ==
    [pc : {"waiting", "recovering", "idle", "ticking", "publishing", "dead"},
     held : BOOLEAN, outlived : BOOLEAN, batch : 0..MaxBatches]

(* Batches are numbered, and one that is being published has a number.        *)
LeaderInv ==
    /\ batches \in 0..MaxBatches
    /\ LeaderTypeOK
    /\ \A r \in Replicas : replica[r].pc = "publishing" => replica[r].batch # 0
    /\ OnlyALapseOverlaps

(* A step of one replica, p, with the lock in k.                              *)
ReplicaIs(r, p, k) ==
    /\ p \in Process /\ replica' = [replica EXCEPT ![r] = p] /\ lock' = k
    /\ p.pc = "publishing" => p.batch # 0
    /\ p.pc \in {"ticking", "publishing"} /\ k # r => p.outlived
    /\ k \in Replicas \cup {Nobody, Ghost}
    /\ \A q \in Replicas \ {r} : lock = q => k = q

LEMMA ReplicaKeeps ==
    ASSUME LeaderInv, NEW r \in Replicas, NEW p, NEW k, ReplicaIs(r, p, k),
           batches' \in 0..MaxBatches, orphans' \subseteq 1..MaxBatches
    PROVE  LeaderInv'
<1>1. replica \in [Replicas -> Process] /\ replica' \in [Replicas -> Process]
  BY DEF LeaderInv, LeaderTypeOK, ReplicaIs, Process
<1>2. replica'[r] = p /\ \A q \in Replicas \ {r} : replica'[q] = replica[q]
  BY <1>1 DEF ReplicaIs
<1>3. LeaderTypeOK'
  BY <1>1 DEF LeaderTypeOK, ReplicaIs, Process
<1>4. \A q \in Replicas : replica'[q].pc = "publishing" => replica'[q].batch # 0
  BY <1>2 DEF LeaderInv, ReplicaIs
<1>5. ASSUME NEW q \in Replicas, Ticking(q)', ~Owns(q)' PROVE replica'[q].outlived
  <2>1. CASE q = r
    BY <1>2, <1>5, <2>1 DEF Ticking, Owns, ReplicaIs
  <2>2. CASE q # r
    <3>1. Ticking(q) /\ ~Owns(q)
      BY <1>2, <1>5, <2>2 DEF Ticking, Owns, ReplicaIs
    <3> QED BY <1>2, <2>2, <3>1 DEF LeaderInv, OnlyALapseOverlaps
  <2> QED BY <2>1, <2>2
<1> QED BY <1>3, <1>4, <1>5 DEF LeaderInv, OnlyALapseOverlaps

LEMMA ProcessWrites ==
    ASSUME NEW p \in Process, NEW n \in 0..MaxBatches
    PROVE  /\ [p EXCEPT !.pc = "publishing", !.batch = n] \in Process
           /\ [p EXCEPT !.pc = "publishing", !.batch = n].pc = "publishing"
           /\ [p EXCEPT !.pc = "publishing", !.batch = n].batch = n
           /\ [p EXCEPT !.pc = "publishing", !.batch = n].outlived = p.outlived
           /\ [p EXCEPT !.pc = "idle", !.batch = n] \in Process
           /\ [p EXCEPT !.pc = "idle", !.batch = n].pc = "idle"
BY DEF Process

LEMMA NewProcess ==
    Started \in Process /\ [Started EXCEPT !.pc = "dead"] \in Process
    /\ [Started EXCEPT !.pc = "dead"].pc = "dead" /\ Started.pc = "waiting"
<1>1. 0 \in 0..MaxBatches
  BY LeaderAssumption
<1>2. Started \in Process
  BY <1>1 DEF Process, Started
<1> QED BY <1>2 DEF Process, Started

LEMMA LeaderInvNext == LeaderInv /\ [LeaderNext]_leaderVars => LeaderInv'
<1> SUFFICES ASSUME LeaderInv, [LeaderNext]_leaderVars PROVE LeaderInv'
  OBVIOUS
<1>0. /\ replica \in [Replicas -> Process] /\ MaxBatches \in Nat
      /\ batches \in 0..MaxBatches /\ orphans \subseteq 1..MaxBatches
      /\ lock \in Replicas \cup {Nobody, Ghost}
  BY LeaderAssumption DEF LeaderInv, LeaderTypeOK, Process
<1>1. ASSUME NEW r \in Replicas, NEW then \in {"recovering", "idle"}, TryAcquire(r, then),
             UNCHANGED <<orphans, batches>>, replica[r].pc \in {"waiting", "idle"}
      PROVE  LeaderInv'
  <2>1. CASE lock = Nobody
    <3> DEFINE p == [replica[r] EXCEPT !.held = TRUE, !.pc = then]
    <3>1. p \in Process /\ p.pc = then
      BY <1>0, <1>1 DEF Process
    <3>2. replica' = [replica EXCEPT ![r] = p] /\ lock' = r
      BY <1>0, <1>1, <2>1 DEF TryAcquire, Process
    <3> HIDE DEF p
    <3>3. ReplicaIs(r, p, r)
      BY <1>1, <2>1, <3>1, <3>2, LeaderAssumption DEF ReplicaIs
    <3> QED BY <1>0, <1>1, <3>3, ReplicaKeeps
  <2>2. CASE lock # Nobody
    <3> DEFINE p == [replica[r] EXCEPT !.held = FALSE]
    <3>1. p \in Process /\ p.pc = replica[r].pc
      BY <1>0 DEF Process
    <3>2. replica' = [replica EXCEPT ![r] = p] /\ lock' = lock
      BY <1>0, <1>1, <2>2 DEF TryAcquire, Process
    <3> HIDE DEF p
    <3>3. ReplicaIs(r, p, lock)
      BY <1>0, <1>1, <3>1, <3>2 DEF ReplicaIs
    <3> QED BY <1>0, <1>1, <3>3, ReplicaKeeps
  <2> QED BY <2>1, <2>2
<1>2. ASSUME NEW r \in Replicas, Recover(r) PROVE LeaderInv'
  <2> DEFINE p == [replica[r] EXCEPT !.pc = "idle"]
  <2>1. p \in Process /\ p.pc = "idle"
    BY <1>0 DEF Process
  <2>2. replica' = [replica EXCEPT ![r] = p] /\ lock' = lock
    BY <1>2 DEF Recover
  <2> HIDE DEF p
  <2>3. ReplicaIs(r, p, lock)
    BY <1>0, <2>1, <2>2 DEF ReplicaIs
  <2> QED BY <1>0, <1>2, <2>3, ReplicaKeeps DEF Recover, NotRecovered
<1>3. ASSUME NEW r \in Replicas, Renew(r) PROVE LeaderInv'
  <2>1. CASE Renewed(r)
    <3> DEFINE p == [replica[r] EXCEPT !.pc = "ticking", !.outlived = FALSE]
    <3>1. p \in Process /\ p.pc = "ticking"
      BY <1>0 DEF Process
    <3>2. replica' = [replica EXCEPT ![r] = p] /\ lock' = lock /\ lock = r
      BY <1>0, <1>3, <2>1 DEF Renew, Renewed, Owns, Process
    <3> HIDE DEF p
    <3>3. ReplicaIs(r, p, lock)
      BY <1>0, <3>1, <3>2 DEF ReplicaIs
    <3> QED BY <1>0, <1>3, <3>3, ReplicaKeeps DEF Renew
  <2>2. CASE ~Renewed(r)
    <3> DEFINE p == [replica[r] EXCEPT !.held = FALSE]
    <3>1. p \in Process /\ p.pc = "idle"
      BY <1>0, <1>3 DEF Process, Renew
    <3>2. replica' = [replica EXCEPT ![r] = p] /\ lock' = lock
      BY <1>0, <1>3, <2>2 DEF Renew
    <3> HIDE DEF p
    <3>3. ReplicaIs(r, p, lock)
      BY <1>0, <3>1, <3>2 DEF ReplicaIs
    <3> QED BY <1>0, <1>3, <3>3, ReplicaKeeps DEF Renew
  <2> QED BY <2>1, <2>2
<1>4. ASSUME NEW r \in Replicas, TickCommits(r) PROVE LeaderInv'
  <2>0. replica[r].pc = "ticking" /\ (lock # r => replica[r].outlived)
    BY <1>4 DEF TickCommits, LeaderInv, OnlyALapseOverlaps, Ticking, Owns
  <2>1. CASE replica' = [replica EXCEPT ![r].pc = "idle"] /\ UNCHANGED batches
    <3> DEFINE p == [replica[r] EXCEPT !.pc = "idle"]
    <3>1. p \in Process /\ p.pc = "idle"
      BY <1>0 DEF Process
    <3>2. replica' = [replica EXCEPT ![r] = p] /\ lock' = lock
      BY <1>4, <2>1 DEF TickCommits
    <3> HIDE DEF p
    <3>3. ReplicaIs(r, p, lock)
      BY <1>0, <3>1, <3>2 DEF ReplicaIs
    <3> QED BY <1>0, <1>4, <2>1, <3>3, ReplicaKeeps DEF TickCommits
  <2>2. CASE /\ batches < MaxBatches /\ batches' = batches + 1
             /\ replica' = [replica EXCEPT ![r].pc = "publishing", ![r].batch = batches + 1]
    <3> DEFINE p == [replica[r] EXCEPT !.pc = "publishing", !.batch = batches + 1]
    <3>0. batches + 1 \in 1..MaxBatches
      BY <1>0, <2>2
    <3>1. p \in Process /\ p.pc = "publishing" /\ p.batch # 0 /\ p.outlived = replica[r].outlived
      <4>1. batches + 1 \in 0..MaxBatches /\ batches + 1 # 0 /\ replica[r] \in Process
        BY <1>0, <3>0
      <4> QED BY <4>1, ProcessWrites
    <3>2. replica' = [replica EXCEPT ![r] = p] /\ lock' = lock
      BY <1>0, <1>4, <2>2 DEF TickCommits, Process
    <3> HIDE DEF p
    <3>3. ReplicaIs(r, p, lock)
      BY <1>0, <2>0, <3>1, <3>2 DEF ReplicaIs
    <3>4. batches' \in 0..MaxBatches /\ orphans' \subseteq 1..MaxBatches
      BY <1>0, <1>4, <2>2, <3>0 DEF TickCommits
    <3> QED BY <3>3, <3>4, ReplicaKeeps
  <2> QED BY <1>4, <2>1, <2>2 DEF TickCommits
<1>5. ASSUME NEW r \in Replicas, PublishBatch(r) PROVE LeaderInv'
  <2> DEFINE p == [replica[r] EXCEPT !.pc = "idle", !.batch = 0]
  <2>1. p \in Process /\ p.pc = "idle"
    <3>1. 0 \in 0..MaxBatches /\ replica[r] \in Process
      BY <1>0
    <3> QED BY <3>1, ProcessWrites
  <2>2. replica' = [replica EXCEPT ![r] = p] /\ lock' = lock
    BY <1>0, <1>5 DEF PublishBatch, Process
  <2> HIDE DEF p
  <2>3. ReplicaIs(r, p, lock)
    BY <1>0, <2>1, <2>2 DEF ReplicaIs
  <2>4. batches' \in 0..MaxBatches /\ orphans' \subseteq 1..MaxBatches
    BY <1>0, <1>5 DEF PublishBatch
  <2> QED BY <2>3, <2>4, ReplicaKeeps
<1>6. ASSUME NEW r \in Replicas, Exit(r) \/ Killed(r) PROVE LeaderInv'
  <2> DEFINE p == [Started EXCEPT !.pc = "dead"]
  <2>1. p \in Process /\ p.pc = "dead"
    BY NewProcess
  <2>2. replica' = [replica EXCEPT ![r] = p] /\ batches' = batches /\ orphans' = orphans \cup Left(r)
    BY <1>6 DEF Exit, Killed
  <2> HIDE DEF p
  <2>3. Left(r) \subseteq 1..MaxBatches
    BY <1>0 DEF Left, LeaderInv, Process
  <2>4. ReplicaIs(r, p, lock')
    BY <1>0, <1>6, <2>1, <2>2, LeaderAssumption DEF ReplicaIs, Exit, Killed, Released, Owns
  <2>5. batches' \in 0..MaxBatches /\ orphans' \subseteq 1..MaxBatches
    BY <1>0, <2>2, <2>3
  <2> QED BY <2>4, <2>5, ReplicaKeeps
<1>7. ASSUME NEW r \in Replicas, StartAgain(r) PROVE LeaderInv'
  <2>1. Started \in Process /\ Started.pc = "waiting"
    BY NewProcess
  <2>2. ReplicaIs(r, Started, lock)
    BY <1>0, <1>7, <2>1 DEF ReplicaIs, StartAgain
  <2> QED BY <1>0, <1>7, <2>2, ReplicaKeeps DEF StartAgain
<1>8. CASE GhostExpires
  BY <1>0, <1>8, LeaderAssumption
     DEF GhostExpires, Expiring, LeaderInv, LeaderTypeOK, OnlyALapseOverlaps, Ticking, Owns
<1>9. CASE LockLapses
  <2> DEFINE p == [replica[lock] EXCEPT !.outlived = TRUE]
  <2>1. lock \in Replicas /\ p \in Process /\ p.outlived /\ p.pc = replica[lock].pc
        /\ p.batch = replica[lock].batch
    BY <1>0, <1>9 DEF LockLapses, Process
  <2>2. replica' = [replica EXCEPT ![lock] = p] /\ lock' = Nobody
    BY <1>9 DEF LockLapses
  <2> HIDE DEF p
  <2>3. ReplicaIs(lock, p, Nobody)
    BY <1>0, <2>1, <2>2 DEF ReplicaIs, LeaderInv
  <2> QED BY <1>0, <1>9, <2>1, <2>3, ReplicaKeeps DEF LockLapses
<1>10. CASE UNCHANGED leaderVars
  BY <1>10 DEF leaderVars, LeaderInv, LeaderTypeOK, OnlyALapseOverlaps, Ticking, Owns
<1> QED
  BY <1>1, <1>2, <1>3, <1>4, <1>5, <1>6, <1>7, <1>8, <1>9, <1>10
     DEF LeaderNext, FirstAcquire, Reacquire

(* A replica ticks without the lock only when its own time to live ran out     *)
(* since it renewed, for any number of replicas, lapses, exits and deaths.     *)
THEOREM OnlyLapsesMakeTwoLeaders == LeaderSpec => [](LeaderTypeOK /\ OnlyALapseOverlaps)
<1>1. LeaderInit => LeaderInv
  BY LeaderAssumption
     DEF LeaderInit, LeaderInv, LeaderTypeOK, OnlyALapseOverlaps, Started, Ticking
<1>2. LeaderInv => LeaderTypeOK /\ OnlyALapseOverlaps
  BY DEF LeaderInv
<1> QED BY <1>1, <1>2, LeaderInvNext, PTL DEF LeaderSpec

-------------------------------------------------------------------------------
(* The voice session.                                                         *)

Playback == {"none", "created", "playing", "cancelled", "done"}

(* What was not spoken yet has no playback.                                   *)
VoiceInv ==
    /\ spoken \in 0..MaxSpeeches
    /\ task \in [1..MaxSpeeches -> Playback]
    /\ \A n \in 1..MaxSpeeches : n > spoken => task[n] = "none"
    /\ VoiceTypeOK
    /\ OneVoice

(* Cancelling leaves nothing alive, for only the known task was.              *)
LEMMA CancelSilences ==
    ASSUME VoiceInv
    PROVE  /\ CancelSpeak(task) \in [1..MaxSpeeches -> Playback]
           /\ \A n \in 1..MaxSpeeches : CancelSpeak(task)[n] \notin {"created", "playing"}
           /\ \A n \in 1..MaxSpeeches : n > spoken => CancelSpeak(task)[n] = "none"
BY DEF VoiceInv, CancelSpeak, Playback, OneVoice, Live, VoiceTypeOK

LEMMA VoiceInvNext == VoiceInv /\ [VoiceNext]_voiceVars => VoiceInv'
<1> SUFFICES ASSUME VoiceInv, [VoiceNext]_voiceVars PROVE VoiceInv'
  OBVIOUS
<1>0. /\ spoken \in 0..MaxSpeeches /\ MaxSpeeches \in Nat /\ speak \in 0..spoken
      /\ waiting \subseteq 1..spoken /\ task \in [1..MaxSpeeches -> Playback]
      /\ state \in {"idle", "speaking", "barge_in", "listening_utterance"}
  BY VoiceAssumption DEF VoiceInv, VoiceTypeOK
<1>1. CASE BargeIn \/ ResetSession
  <2>1. /\ task' = CancelSpeak(task) /\ speak' = 0 /\ UNCHANGED <<waiting, spoken>>
        /\ state' \in {"idle", "speaking", "barge_in", "listening_utterance"}
    BY <1>0, <1>1 DEF BargeIn, ResetSession
  <2>2. Live' = {}
    BY <2>1, CancelSilences DEF Live
  <2>3. state' # "speaking"
    BY <1>1 DEF BargeIn, ResetSession, VoiceInv, VoiceTypeOK, OneVoice
  <2> QED BY <1>0, <2>1, <2>2, <2>3, CancelSilences DEF VoiceInv, VoiceTypeOK, OneVoice
<1>2. ASSUME NEW wait \in BOOLEAN, Speak(wait) PROVE VoiceInv'
  <2> DEFINE n == spoken + 1
             quiet == CancelSpeak(task)
  <2>1. /\ n \in 1..MaxSpeeches /\ spoken' = n /\ speak' = n /\ state' = "speaking"
        /\ task' = [quiet EXCEPT ![n] = "created"] /\ waiting' \subseteq waiting \cup {n}
    BY <1>0, <1>2 DEF Speak
  <2>2. /\ quiet \in [1..MaxSpeeches -> Playback]
        /\ \A m \in 1..MaxSpeeches : quiet[m] \notin {"created", "playing"}
        /\ \A m \in 1..MaxSpeeches : m > spoken => quiet[m] = "none"
    BY CancelSilences
  <2> HIDE DEF quiet
  <2>3. task' \in [1..MaxSpeeches -> Playback] /\ Live' = {n}
    BY <2>1, <2>2 DEF Live, Playback
  <2>4. \A m \in 1..MaxSpeeches : m > n => task'[m] = "none"
    BY <1>0, <2>1, <2>2
  <2>5. waiting' \subseteq 1..n /\ n \in 0..n
    BY <1>0, <2>1
  <2> QED BY <2>1, <2>3, <2>4, <2>5 DEF VoiceInv, VoiceTypeOK, OneVoice
<1>3. ASSUME NEW detected \in BOOLEAN, NEW empty \in BOOLEAN, Listen(detected, empty)
      PROVE  VoiceInv'
  BY <1>3 DEF Listen, VoiceInv, VoiceTypeOK, OneVoice, Live
<1>4. ASSUME NEW n \in 1..MaxSpeeches, PlaybackBegins(n) PROVE VoiceInv'
  <2>1. task' = [task EXCEPT ![n] = "playing"] /\ task[n] = "created"
        /\ UNCHANGED <<state, speak, waiting, spoken>>
    BY <1>4 DEF PlaybackBegins
  <2>2. task' \in [1..MaxSpeeches -> Playback] /\ Live' = Live
    BY <1>0, <2>1 DEF Live, Playback
  <2>3. \A m \in 1..MaxSpeeches : m > spoken => task'[m] = "none"
    BY <1>0, <2>1 DEF VoiceInv
  <2> QED BY <1>0, <2>1, <2>2, <2>3 DEF VoiceInv, VoiceTypeOK, OneVoice
<1>5. ASSUME NEW n \in 1..MaxSpeeches, PlaybackEnds(n) PROVE VoiceInv'
  <2>1. task' = [task EXCEPT ![n] = "done"] /\ task[n] # "none" /\ state' = CleanedUp
        /\ UNCHANGED <<speak, waiting, spoken>>
    BY <1>5 DEF PlaybackEnds
  <2>2. task' \in [1..MaxSpeeches -> Playback] /\ Live' \subseteq Live
    BY <1>0, <2>1 DEF Live, Playback
  <2>3. \A m \in 1..MaxSpeeches : m > spoken => task'[m] = "none"
    BY <1>0, <2>1 DEF VoiceInv
  <2>4. state' # "speaking" /\ state' \in {"idle", "speaking", "barge_in", "listening_utterance"}
    BY <1>0, <2>1 DEF CleanedUp
  <2> QED BY <1>0, <2>1, <2>2, <2>3, <2>4 DEF VoiceInv, VoiceTypeOK, OneVoice
<1>6. ASSUME NEW n \in 1..MaxSpeeches, WaitReturns(n) PROVE VoiceInv'
  BY <1>6 DEF WaitReturns, VoiceInv, VoiceTypeOK, OneVoice, Live
<1>7. CASE UNCHANGED voiceVars
  BY <1>7 DEF voiceVars, VoiceInv, VoiceTypeOK, OneVoice, Live
<1> QED BY <1>1, <1>2, <1>3, <1>4, <1>5, <1>6, <1>7 DEF VoiceNext, LoopTurn

(* At most one speech is heard, the one the session knows of, whatever was     *)
(* begun, replaced, cancelled or cleaned up in which order.                    *)
THEOREM OneVoiceAtATime == VoiceSpec => [](VoiceTypeOK /\ OneVoice)
<1>1. VoiceInit => VoiceInv
  BY VoiceAssumption DEF VoiceInit, VoiceInv, VoiceTypeOK, OneVoice, Live, Playback
<1>2. VoiceInv => VoiceTypeOK /\ OneVoice
  BY DEF VoiceInv
<1> QED BY <1>1, <1>2, VoiceInvNext, PTL DEF VoiceSpec

-------------------------------------------------------------------------------
(* Model routing.                                                             *)

Outcomes == { s \in Seq(BOOLEAN) : Len(s) <= Window }
Breaker == [state : {"closed", "open", "half_open"}, failures : 0..Threshold, outcomes : Outcomes]
ModelCall ==
    [pc : {"idle", "choosing", "asking", "alone"}, route : SUBSET (DOMAIN Prefer),
     sensitive : BOOLEAN]

Tripped(b) == b.state = "closed" \/ Trips(b.failures, b.outcomes)
Routed(c) ==
    /\ c.pc \in {"asking", "alone"} => c.route # {}
    /\ c.sensitive => \A n \in c.route : Prefer[n] \notin Remote

(* A breaker that is not closed keeps what tripped it; a sensitive call has    *)
(* only local providers left to try, not only first.                          *)
RoutingInv ==
    /\ breaker \in [Providers -> Breaker] /\ \A p \in Providers : Tripped(breaker[p])
    /\ healthy \in [Providers -> BOOLEAN]
    /\ call \in [Callers -> ModelCall] /\ \A k \in Callers : Routed(call[k])

LEMMA NumbersHaveLeast ==
    ASSUME NEW S \in SUBSET Nat, S # {}
    PROVE  \E n \in S : \A m \in S : n <= m
<1> DEFINE R == OpToRel(<, Nat)
<1>1. IsWellFoundedOn(R, Nat)
  BY NatLessThanWellFounded
<1> HIDE DEF R
<1>2. PICK n \in S : \A m \in S : <<m, n>> \notin R
  BY <1>1, WFMin
<1>3. \A m \in S : ~(m < n) /\ m \in Nat /\ n \in Nat
  BY <1>2 DEF R, OpToRel
<1> QED BY <1>3

LEMMA FirstPlaceIs ==
    ASSUME RoutingInv, NEW k \in Callers, call[k].route # {}
    PROVE  FirstPlace(k) \in call[k].route /\ Asked(k) \in Providers
<1>1. call[k].route \in SUBSET Nat /\ call[k].route \subseteq DOMAIN Prefer
  BY RoutingAssumption DEF RoutingInv, ModelCall
<1>2. \E n \in call[k].route : \A m \in call[k].route : n <= m
  BY <1>1, NumbersHaveLeast
<1>3. FirstPlace(k) \in call[k].route
  BY <1>2 DEF FirstPlace
<1> QED BY <1>1, <1>3, RoutingAssumption DEF Asked

(* A full window of outcomes drops its oldest for the newest.                 *)
Moved(S, s, v, t) ==
    t \in Seq(S) /\ Len(t) = Window /\ t[Window] = v /\ \A i \in 1..Window - 1 : t[i] = s[i + 1]

LEMMA WindowMoves ==
    ASSUME NEW S, NEW s \in Seq(S), NEW v \in S, Len(s) = Window
    PROVE  Moved(S, s, v, Trim(Append(s, v)))
<1>0. Window \in Nat /\ Window # 0
  BY RoutingAssumption
<1>1. PICK u : u = Append(s, v)
  OBVIOUS
<1>2. u \in Seq(S) /\ Len(u) = Window + 1
  BY <1>0, <1>1
<1>3. u[Window + 1] = v /\ \A i \in 1..Window : u[i] = s[i]
  BY <1>1, AppendProperties
<1>4. Len(u) > Window /\ Len(u) - Window + 1 = 2
  BY <1>0, <1>2
<1>5. Trim(u) = SubSeq(u, 2, Window + 1)
  BY <1>2, <1>4 DEF Trim
<1>6. PICK t : t = SubSeq(u, 2, Window + 1)
  OBVIOUS
<1>7. t \in Seq(S) /\ Len(t) = Window /\ \A i \in 1..Window : t[i] = u[i + 1]
  BY <1>0, <1>2, <1>6
<1>8. t[Window] = v /\ \A i \in 1..Window - 1 : t[i] = s[i + 1]
  BY <1>0, <1>3, <1>7
<1> QED BY <1>1, <1>5, <1>6, <1>7, <1>8 DEF Moved

(* The oldest outcome makes room for a failure: no fewer failures are left.   *)
LEMMA FailuresStay ==
    ASSUME NEW s \in Seq(BOOLEAN), NEW t, Len(s) = Window, Moved(BOOLEAN, s, FALSE, t)
    PROVE  Failed(s) <= Failed(t) /\ Failed(s) \in Nat /\ Failed(t) \in Nat
<1>0. Window \in Nat \ {0} /\ DOMAIN s = 1..Window /\ DOMAIN t = 1..Window
  BY RoutingAssumption DEF Moved
<1>a. ~t[Window] /\ \A i \in 1..Window - 1 : t[i] = s[i + 1]
  BY DEF Moved
<1> DEFINE A == { i \in 1..Window : ~s[i] }
           B == { i \in 1..Window : ~t[i] }
           f == [i \in A |-> IF i = 1 THEN Window ELSE i - 1]
<1>1. Failed(s) = Cardinality(A) /\ Failed(t) = Cardinality(B)
  BY <1>0 DEF Failed
<1>2. IsFiniteSet(A) /\ IsFiniteSet(B)
  <2>1. IsFiniteSet(1..Window)
    BY <1>0, FS_Interval
  <2> QED BY <2>1, FS_Subset
<1>3. f \in [A -> B]
  <2>1. ASSUME NEW i \in A PROVE (IF i = 1 THEN Window ELSE i - 1) \in B
    <3>1. CASE i = 1
      BY <1>0, <1>a, <3>1
    <3>2. CASE i # 1
      <4>1. i - 1 \in 1..Window - 1 /\ (i - 1) + 1 = i
        BY <1>0, <3>2
      <4>2. t[i - 1] = s[i]
        BY <1>a, <4>1
      <4> QED BY <1>0, <3>2, <4>1, <4>2
    <3> QED BY <3>1, <3>2
  <2> QED BY <2>1
<1>4. \A i, j \in A : f[i] = f[j] => i = j
  BY <1>0
<1> HIDE DEF f
<1>5. f \in Injection(A, B)
  BY <1>3, <1>4 DEF Injection, IsInjective
<1> HIDE DEF A, B
<1>6. Cardinality(A) <= Cardinality(B)
  BY <1>2, <1>5, FS_Injection
<1>7. Cardinality(A) \in Nat /\ Cardinality(B) \in Nat
  BY <1>2, FS_CardinalityType
<1> QED BY <1>1, <1>6, <1>7

LEMMA TrimFits ==
    ASSUME NEW s \in Outcomes, NEW v \in BOOLEAN
    PROVE  Trim(Append(s, v)) \in Outcomes
<1>0. Window \in Nat \ {0}
  BY RoutingAssumption
<1> DEFINE u == Append(s, v)
<1>1. u \in Seq(BOOLEAN) /\ Len(u) = Len(s) + 1 /\ Len(s) \in 0..Window
  BY <1>0 DEF Outcomes
<1> HIDE DEF u
<1>2. CASE Len(u) > Window
  <2>1. Len(u) - Window + 1 = 2 /\ Len(u) = Window + 1
    BY <1>0, <1>1, <1>2
  <2>2. SubSeq(u, 2, Window + 1) \in Seq(BOOLEAN) /\ Len(SubSeq(u, 2, Window + 1)) = Window
    BY <1>0, <1>1, <2>1
  <2> QED BY <1>2, <2>1, <2>2, <1>0 DEF Trim, Outcomes, u
<1>3. CASE ~(Len(u) > Window)
  BY <1>0, <1>1, <1>3 DEF Trim, Outcomes, u
<1> QED BY <1>2, <1>3

LEMMA FailsIs ==
    ASSUME NEW b \in Breaker, Tripped(b)
    PROVE  /\ Fails(b) \in Breaker /\ Tripped(Fails(b))
           /\ b.state # "closed" => Fails(b).state = "open"
<1> DEFINE n == b.failures + 1
           s == Trim(Append(b.outcomes, FALSE))
           c == IF n > Threshold THEN Threshold ELSE n
<1>0. Threshold \in Nat \ {0} /\ Window \in Nat \ {0} /\ b.failures \in 0..Threshold
      /\ b.outcomes \in Outcomes /\ b.state \in {"closed", "open", "half_open"}
  BY RoutingAssumption DEF Breaker
<1>1. s \in Outcomes
  BY <1>0, TrimFits
<1>n. n \in Nat /\ n > b.failures /\ c \in 0..Threshold /\ (n >= Threshold => c >= Threshold)
      /\ (~(n >= Threshold) => c = n)
  BY <1>0
<1>2. Fails(b) = [state |-> IF Trips(n, s) THEN "open" ELSE b.state, failures |-> c, outcomes |-> s]
  BY DEF Fails
<1> HIDE DEF n, s, c
<1>3. b.state # "closed" => Trips(n, s)
  <2> SUFFICES ASSUME b.state # "closed" PROVE Trips(n, s)
    OBVIOUS
  <2>1. CASE b.failures >= Threshold
    <3>1. n >= Threshold
      BY <1>0, <1>n, <2>1
    <3> QED BY <3>1 DEF Trips
  <2>2. CASE Len(b.outcomes) >= Window /\ 2 * Failed(b.outcomes) >= Len(b.outcomes)
    <3>1. b.outcomes \in Seq(BOOLEAN) /\ Len(b.outcomes) = Window
      BY <1>0, <2>2 DEF Outcomes
    <3>2. /\ Len(s) = Window /\ Failed(b.outcomes) <= Failed(s)
          /\ Failed(b.outcomes) \in Nat /\ Failed(s) \in Nat
      <4>1. PICK t : t = s
        OBVIOUS
      <4>2. Moved(BOOLEAN, b.outcomes, FALSE, t)
        <5>1. FALSE \in BOOLEAN
          OBVIOUS
        <5> QED BY <3>1, <4>1, <5>1, WindowMoves, Zenon DEF s
      <4>3. Failed(b.outcomes) <= Failed(t) /\ Failed(b.outcomes) \in Nat /\ Failed(t) \in Nat
        BY <3>1, <4>2, FailuresStay
      <4> QED BY <4>1, <4>2, <4>3 DEF Moved
    <3>3. 2 * Failed(s) >= Len(s)
      BY <1>0, <2>2, <3>1, <3>2
    <3> QED BY <1>0, <3>2, <3>3 DEF Trips
  <2> QED BY <2>1, <2>2 DEF Tripped, Trips
<1>4. Trips(n, s) => Trips(c, s)
  BY <1>n DEF Trips
<1>6. Fails(b) \in Breaker
  BY <1>0, <1>1, <1>2, <1>n DEF Breaker
<1>7. Tripped(Fails(b))
  BY <1>2, <1>3, <1>4 DEF Tripped
<1> QED BY <1>2, <1>3, <1>6, <1>7

LEMMA SucceededIs ==
    ASSUME NEW b \in Breaker
    PROVE  Succeeded(b) \in Breaker /\ Tripped(Succeeded(b))
<1>0. b.outcomes \in Outcomes /\ 0 \in 0..Threshold
  BY RoutingAssumption DEF Breaker
<1>1. Trim(Append(b.outcomes, TRUE)) \in Outcomes
  BY <1>0, TrimFits
<1> QED BY <1>0, <1>1 DEF Succeeded, Breaker, Tripped

(* What a step does to one call, and to one breaker.                          *)
CallIs(k, c) == c \in ModelCall /\ Routed(c) /\ call' = [call EXCEPT ![k] = c]
BreakerIs(p, b) == b \in Breaker /\ Tripped(b) /\ breaker' = [breaker EXCEPT ![p] = b]

LEMMA RouteKeeps ==
    ASSUME NEW c \in ModelCall, Routed(c), NEW R \in SUBSET c.route
    PROVE  LET d == [c EXCEPT !.pc = "choosing", !.route = R] IN d \in ModelCall /\ Routed(d)
<1> DEFINE d == [c EXCEPT !.pc = "choosing", !.route = R]
<1>1. R \in SUBSET (DOMAIN Prefer)
  BY DEF ModelCall
<1>2. d \in ModelCall
  BY <1>1 DEF ModelCall
<1>3. d.pc = "choosing" /\ d.route = R /\ d.sensitive = c.sensitive
  BY DEF ModelCall
<1> HIDE DEF d
<1>4. Routed(d)
  BY <1>3 DEF Routed
<1> QED BY <1>2, <1>4 DEF d

LEMMA NoCallIs == NoCall \in ModelCall /\ Routed(NoCall)
BY DEF NoCall, ModelCall, Routed

LEMMA RoutingInvNext == RoutingInv /\ [RoutingNext]_routingVars => RoutingInv'
<1> SUFFICES ASSUME RoutingInv, [RoutingNext]_routingVars PROVE RoutingInv'
  OBVIOUS
<1>0. /\ breaker \in [Providers -> Breaker] /\ \A p \in Providers : Tripped(breaker[p])
      /\ healthy \in [Providers -> BOOLEAN]
      /\ call \in [Callers -> ModelCall] /\ \A k \in Callers : Routed(call[k])
  BY DEF RoutingInv
<1>a. ASSUME NEW k \in Callers, NEW c, CallIs(k, c), UNCHANGED <<breaker, healthy>>
      PROVE  RoutingInv'
  BY <1>0, <1>a DEF CallIs, RoutingInv
<1>1. ASSUME NEW k \in Callers, NEW sensitive \in BOOLEAN, NEW offline \in BOOLEAN,
             RouteCall(k, sensitive, offline)
      PROVE  RoutingInv'
  <2> DEFINE route == { n \in DOMAIN Prefer : Eligible(Prefer[n], sensitive, offline) }
             c == [pc |-> IF Cardinality(route) = 1 THEN "alone" ELSE "choosing",
                   route |-> route, sensitive |-> sensitive]
  <2>1. route # {} /\ route \subseteq DOMAIN Prefer
        /\ (sensitive => \A n \in route : Prefer[n] \notin Remote)
    BY <1>1 DEF RouteCall, Eligible
  <2>2. call' = [call EXCEPT ![k] = c] /\ UNCHANGED <<breaker, healthy>>
    BY <1>1 DEF RouteCall
  <2> HIDE DEF route
  <2>3. c \in ModelCall /\ Routed(c)
    BY <2>1 DEF ModelCall, Routed
  <2> HIDE DEF c
  <2>4. CallIs(k, c)
    BY <2>2, <2>3 DEF CallIs
  <2> QED BY <1>a, <2>2, <2>4
<1>2. ASSUME NEW k \in Callers, AskOrSkip(k) PROVE RoutingInv'
  <2>0. call[k].pc = "choosing" /\ call[k].route # {} /\ call[k] \in ModelCall /\ Routed(call[k])
        /\ UNCHANGED <<breaker, healthy>>
    BY <1>0, <1>2 DEF AskOrSkip
  <2>1. CASE breaker[Asked(k)].state = "open"
    <3> DEFINE c == [call[k] EXCEPT !.route = Dropped(k)]
    <3>1. c \in ModelCall /\ Routed(c)
      BY <2>0 DEF ModelCall, Routed, Dropped
    <3>2. CallIs(k, c)
      BY <1>2, <2>1, <3>1 DEF AskOrSkip, CallIs
    <3> QED BY <1>a, <2>0, <3>2
  <2>2. CASE breaker[Asked(k)].state # "open"
    <3> DEFINE c == [call[k] EXCEPT !.pc = "asking"]
    <3>1. c \in ModelCall /\ Routed(c)
      BY <2>0 DEF ModelCall, Routed
    <3>2. CallIs(k, c)
      BY <1>2, <2>2, <3>1 DEF AskOrSkip, CallIs
    <3> QED BY <1>a, <2>0, <3>2
  <2> QED BY <2>1, <2>2
<1>3. ASSUME NEW k \in Callers, GiveUp(k) \/ AnswersAlone(k) PROVE RoutingInv'
  <2>1. CallIs(k, NoCall) /\ UNCHANGED <<breaker, healthy>>
    BY <1>3, NoCallIs DEF GiveUp, AnswersAlone, CallIs
  <2> QED BY <1>a, <2>1
<1>4. ASSUME NEW k \in Callers, Answers(k) PROVE RoutingInv'
  <2> DEFINE p == Asked(k)
  <2>0. /\ call[k].pc = "asking" /\ call[k] \in ModelCall /\ Routed(call[k])
        /\ call[k].route # {} /\ UNCHANGED healthy
    BY <1>0, <1>4 DEF Answers, Routed
  <2>1. p \in Providers
    BY <2>0, FirstPlaceIs
  <2> HIDE DEF p
  <2>2. \E c, b : CallIs(k, c) /\ BreakerIs(p, b)
    <3>1. CASE healthy[p]
      <4>1. call' = [call EXCEPT ![k] = NoCall] /\ breaker' = [breaker EXCEPT ![p] = Succeeded(breaker[p])]
        BY <1>4, <3>1 DEF Answers, p
      <4> QED BY <1>0, <2>1, <4>1, NoCallIs, SucceededIs DEF CallIs, BreakerIs
    <3>2. CASE ~healthy[p]
      <4> DEFINE c == [call[k] EXCEPT !.pc = "choosing", !.route = Dropped(k)]
      <4>1. breaker' = [breaker EXCEPT ![p] = Fails(breaker[p])] /\ call' = NextProvider(k)
        BY <1>4, <3>2 DEF Answers, p
      <4>2. Dropped(k) \in SUBSET call[k].route
        BY DEF Dropped
      <4>3. c \in ModelCall /\ Routed(c)
        BY <2>0, <4>2, RouteKeeps
      <4>4. call' = [call EXCEPT ![k] = c]
        BY <1>0, <4>1 DEF NextProvider, ModelCall
      <4> HIDE DEF c
      <4>5. CallIs(k, c)
        BY <4>3, <4>4 DEF CallIs
      <4>6. BreakerIs(p, Fails(breaker[p]))
        BY <1>0, <2>1, <4>1, FailsIs DEF BreakerIs
      <4> QED BY <4>5, <4>6
    <3> QED BY <3>1, <3>2
  <2> QED BY <1>0, <2>0, <2>1, <2>2 DEF CallIs, BreakerIs, RoutingInv
<1>5. ASSUME NEW p \in Providers, HalfOpens(p) PROVE RoutingInv'
  <2> DEFINE b == [breaker[p] EXCEPT !.state = "half_open"]
  <2>1. b \in Breaker /\ Tripped(b)
    BY <1>0, <1>5 DEF Breaker, Tripped, HalfOpens
  <2>2. breaker' = [breaker EXCEPT ![p] = b] /\ UNCHANGED <<healthy, call>>
    BY <1>5 DEF HalfOpens, Probing
  <2> HIDE DEF b
  <2> QED BY <1>0, <2>1, <2>2 DEF RoutingInv
<1>6. ASSUME NEW p \in Providers, HealthChanges(p) PROVE RoutingInv'
  BY <1>0, <1>6 DEF HealthChanges, RoutingInv
<1>7. CASE UNCHANGED routingVars
  BY <1>0, <1>7 DEF routingVars, RoutingInv
<1> QED BY <1>1, <1>2, <1>3, <1>4, <1>5, <1>6, <1>7 DEF RoutingNext

LEMMA RoutingInvHolds == RoutingSpec => []RoutingInv
<1>1. RoutingInit => RoutingInv
  <2> SUFFICES ASSUME RoutingInit PROVE RoutingInv
    OBVIOUS
  <2>1. Closed \in Breaker /\ Tripped(Closed)
    BY RoutingAssumption DEF Closed, Breaker, Outcomes, Tripped
  <2> QED BY <2>1, NoCallIs DEF RoutingInit, RoutingInv
<1> QED BY <1>1, RoutingInvNext, PTL DEF RoutingSpec

(* A sensitive request is on its way to local providers only, whichever it     *)
(* fails over to, and the breakers keep their shape.                           *)
THEOREM SensitiveNeverLeaves == RoutingSpec => [](RoutingTypeOK /\ SensitiveStaysLocal)
<1>1. ASSUME RoutingInv PROVE RoutingTypeOK
  BY <1>1 DEF RoutingInv, RoutingTypeOK, Breaker, Outcomes, Routed
<1>2. ASSUME RoutingInv, NEW k \in Callers, call[k].sensitive, call[k].pc \in {"asking", "alone"}
      PROVE  Asked(k) \notin Remote
  BY <1>2, FirstPlaceIs DEF RoutingInv, Routed, Asked
<1>3. RoutingInv => RoutingTypeOK /\ SensitiveStaysLocal
  BY <1>1, <1>2 DEF SensitiveStaysLocal
<1> QED BY <1>3, RoutingInvHolds, PTL

(* A failed probe opens its breaker again, for every threshold, every window   *)
(* and every number of calls that answer late.                                 *)
THEOREM ProbesReopen == RoutingSpec => FailedProbeReopens
<1>1. ASSUME RoutingInv, [RoutingNext]_routingVars, NEW p \in Providers, NEW k \in Callers,
             breaker[p].state = "half_open", call[k].pc = "asking", Asked(k) = p,
             call'[k].pc = "choosing"
      PROVE  breaker'[p].state = "open"
  <2>0. call \in [Callers -> ModelCall] /\ breaker \in [Providers -> Breaker] /\ Tripped(breaker[p])
    BY <1>1 DEF RoutingInv
  <2>1. Answers(k)
    <3>1. call'[k] # call[k]
      BY <1>1
    <3>2. \A j \in Callers : j # k =>
             ~RouteCall(j, TRUE, TRUE) /\ ~RouteCall(j, TRUE, FALSE) /\ ~RouteCall(j, FALSE, TRUE)
             /\ ~RouteCall(j, FALSE, FALSE) /\ ~AskOrSkip(j) /\ ~GiveUp(j) /\ ~Answers(j) /\ ~AnswersAlone(j)
      BY <2>0, <3>1 DEF RouteCall, AskOrSkip, GiveUp, Answers, AnswersAlone, NextProvider
    <3>3. \A q \in Providers : ~HalfOpens(q) /\ ~HealthChanges(q)
      BY <3>1 DEF HalfOpens, HealthChanges
    <3>4. ~(UNCHANGED routingVars)
      BY <3>1 DEF routingVars
    <3>5. /\ \A sensitive, offline \in BOOLEAN : ~RouteCall(k, sensitive, offline)
          /\ ~AskOrSkip(k) /\ ~GiveUp(k) /\ ~AnswersAlone(k)
      BY <1>1 DEF RouteCall, AskOrSkip, GiveUp, AnswersAlone
    <3> QED BY <1>1, <3>2, <3>3, <3>4, <3>5 DEF RoutingNext
  <2>2. ~healthy[p]
    BY <1>1, <2>0, <2>1 DEF Answers, NoCall
  <2>3. breaker' = [breaker EXCEPT ![p] = Fails(breaker[p])]
    BY <1>1, <2>1, <2>2 DEF Answers
  <2> QED BY <1>1, <2>0, <2>3, FailsIs
<1>2. RoutingInv /\ [RoutingNext]_routingVars =>
        [\A p \in Providers : \A k \in Callers :
            breaker[p].state = "half_open" /\ call[k].pc = "asking" /\ Asked(k) = p
            /\ call'[k].pc = "choosing"
            => breaker'[p].state = "open"]_routingVars
  BY <1>1
<1> QED BY <1>2, RoutingInvHolds, PTL DEF RoutingSpec, FailedProbeReopens

-------------------------------------------------------------------------------
(* The local agent.                                                           *)

Connection == [handler : {"none", "serving", "ended"}, up : BOOLEAN, queue : Seq(Jobs), took : SUBSET Jobs]
Laptops == [holds : Jobs \cup {None}, pc : {"free", "received", "claimed", "executed"}]
JobStatus == {"READY", "DISPATCHED", "SUCCEEDED", "FAILED"}

Queued(c, a) == \E i \in DOMAIN c.queue : c.queue[i] = a
Working(x) == x.pc \in {"claimed", "executed"}

AgentShape ==
    /\ hub \in Connections \cup {None} /\ stream \subseteq Jobs
    /\ conn \in [Connections -> Connection] /\ agent \in [Connections -> Laptops]
    /\ job \in [Jobs -> JobStatus] /\ effects \in [Jobs -> [kept : Nat, lost : Nat]]
    /\ hub = None \/ conn[hub].handler = "serving"
    /\ \A c \in Connections : agent[c].holds = None <=> agent[c].pc = "free"

(* What a connection has queued, or its laptop holds, it had accepted.        *)
Accepted ==
    \A c \in Connections : \A a \in Jobs :
        Queued(conn[c], a) \/ agent[c].holds = a => a \in conn[c].took

(* A laptop works alone on a row that has not ended, and a row on which an     *)
(* execution was recorded has ended.                                          *)
WorksAlone ==
    /\ \A c \in Connections : Working(agent[c]) => job[agent[c].holds] \in {"READY", "DISPATCHED"}
    /\ \A c, d \in Connections :
          Working(agent[c]) /\ Working(agent[d]) /\ agent[c].holds = agent[d].holds => c = d
    /\ \A a \in Jobs : effects[a].kept # 0 => effects[a].kept = 1 /\ job[a] \in {"SUCCEEDED", "FAILED"}

AgentInv == AgentShape /\ Accepted /\ WorksAlone /\ LostOnlyWithConnection

LEMMA AgentConstants == None \notin Connections /\ None \notin Jobs
BY AgentAssumption

Somewhere(a) ==
    \/ a \in stream
    \/ \E c \in Connections : conn[c].up /\ Queued(conn[c], a)
    \/ \E c \in Connections : agent[c].holds = a
    \/ \E c \in Connections : a \in conn[c].took /\ ~conn[c].up

LEMMA LostIs == LostOnlyWithConnection <=> \A a \in Jobs : job[a] = "DISPATCHED" => Somewhere(a)
BY DEF LostOnlyWithConnection, Somewhere, Queued

(* Jobs are handed to the registered connection, or to the stream.            *)
LEMMA HandedOver ==
    ASSUME AgentShape, Accepted, NEW jobs \in SUBSET Jobs, Hand(jobs), UNCHANGED <<hub, agent>>
    PROVE  /\ stream' \subseteq Jobs /\ conn' \in [Connections -> Connection]
           /\ \A c \in Connections : conn'[c].handler = conn[c].handler
           /\ Accepted'
           /\ \A a \in Jobs : a \in jobs \/ Somewhere(a) => Somewhere(a)'
<1>1. CASE hub = None
  <2>1. conn' = conn /\ stream' = stream \cup jobs
    BY <1>1 DEF Hand
  <2> QED BY <2>1 DEF AgentShape, Accepted, Somewhere, Queued
<1>2. CASE hub # None
  <2>0. hub \in Connections /\ conn[hub] \in Connection /\ conn \in [Connections -> Connection]
    BY <1>2 DEF AgentShape
  <2>1. PICK order \in [1..Cardinality(jobs) -> jobs] :
            /\ \A a \in jobs : \E i \in DOMAIN order : order[i] = a
            /\ conn' = [conn EXCEPT ![hub].queue = @ \o order, ![hub].took = @ \cup jobs]
            /\ stream' = stream
    BY <1>2 DEF Hand
  <2> DEFINE old == conn[hub]
             queue == old.queue \o order
             new == [old EXCEPT !.queue = queue, !.took = old.took \cup jobs]
  <2>2. order \in Seq(Jobs) /\ DOMAIN order = 1..Len(order)
    <3>1. Cardinality(jobs) \in Nat
      BY AgentAssumption, FS_Subset, FS_CardinalityType
    <3> QED BY <3>1
  <2>3. old.queue \in Seq(Jobs) /\ DOMAIN old.queue = 1..Len(old.queue) /\ Len(old.queue) \in Nat
    BY <2>0 DEF Connection
  <2>4. queue \in Seq(Jobs) /\ \A a : (\E i \in DOMAIN queue : queue[i] = a) <=>
            (\E i \in DOMAIN old.queue : old.queue[i] = a) \/ (\E i \in DOMAIN order : order[i] = a)
    <3>1. PICK s \in Seq(Jobs) : s = old.queue
      BY <2>3
    <3>2. s \o order \in Seq(Jobs) /\ Len(s \o order) = Len(s) + Len(order)
          /\ \A i \in 1..Len(s) + Len(order) :
                (s \o order)[i] = IF i <= Len(s) THEN s[i] ELSE order[i - Len(s)]
      BY <2>2
    <3>3. PICK t : t = s \o order
      OBVIOUS
    <3>4. \A i \in DOMAIN s : i \in DOMAIN t /\ t[i] = s[i]
      BY <2>2, <3>2, <3>3
    <3>5. \A i \in DOMAIN order : i + Len(s) \in DOMAIN t /\ t[i + Len(s)] = order[i]
      BY <2>2, <3>2, <3>3
    <3>6. \A i \in DOMAIN t : (i \in DOMAIN s /\ t[i] = s[i]) \/ (i - Len(s) \in DOMAIN order /\ t[i] = order[i - Len(s)])
      BY <2>2, <3>2, <3>3
    <3>7. ASSUME NEW a PROVE (\E i \in DOMAIN t : t[i] = a) <=>
             (\E i \in DOMAIN s : s[i] = a) \/ (\E i \in DOMAIN order : order[i] = a)
      <4>1. ASSUME NEW i \in DOMAIN t, t[i] = a
            PROVE  (\E k \in DOMAIN s : s[k] = a) \/ (\E k \in DOMAIN order : order[k] = a)
        BY <3>6, <4>1
      <4>2. ASSUME NEW i \in DOMAIN s, s[i] = a PROVE \E k \in DOMAIN t : t[k] = a
        BY <3>4, <4>2
      <4>3. ASSUME NEW i \in DOMAIN order, order[i] = a PROVE \E k \in DOMAIN t : t[k] = a
        BY <3>5, <4>3
      <4> QED BY <4>1, <4>2, <4>3
    <3>8. queue = t /\ t \in Seq(Jobs)
      BY <3>1, <3>2, <3>3
    <3> HIDE DEF queue
    <3> QED BY <3>1, <3>7, <3>8
  <2> HIDE DEF queue
  <2>5. /\ new \in Connection /\ new.queue = queue /\ new.took = old.took \cup jobs
        /\ new.up = old.up /\ new.handler = old.handler
    BY <2>0, <2>4 DEF Connection
  <2>6. conn' = [conn EXCEPT ![hub] = new]
    BY <2>0, <2>1 DEF Connection, queue
  <2> HIDE DEF new, old
  <2>7. conn'[hub] = new /\ \A c \in Connections : c # hub => conn'[c] = conn[c]
    BY <2>0, <2>6
  <2>8. \A a \in Jobs : Queued(new, a) <=> Queued(old, a) \/ a \in jobs
    <3>1. \A a : (\E i \in DOMAIN order : order[i] = a) <=> a \in jobs
      BY <2>1
    <3> QED BY <2>4, <2>5, <3>1 DEF Queued, old
  <2>9. Accepted'
    <3> SUFFICES ASSUME NEW c \in Connections, NEW a \in Jobs, Queued(conn'[c], a) \/ agent[c].holds = a
                 PROVE  a \in conn'[c].took
      BY DEF Accepted, Queued
    <3>1. CASE c = hub
      BY <2>5, <2>7, <2>8, <3>1 DEF Accepted, old
    <3>2. CASE c # hub
      BY <2>7, <3>2 DEF Accepted
    <3> QED BY <3>1, <3>2
  <2>10. ASSUME NEW a \in Jobs, a \in jobs \/ Somewhere(a) PROVE Somewhere(a)'
    <3>1. CASE a \in jobs
      <4>1. Queued(new, a) /\ a \in new.took
        BY <2>5, <2>8, <3>1
      <4> QED BY <2>0, <2>7, <4>1 DEF Somewhere, Queued
    <3>2. CASE a \in stream \/ \E c \in Connections : agent[c].holds = a
      BY <2>1, <3>2 DEF Somewhere
    <3>3. ASSUME NEW c \in Connections,
                 (conn[c].up /\ Queued(conn[c], a)) \/ (a \in conn[c].took /\ ~conn[c].up)
          PROVE  Somewhere(a)'
      <4>1. CASE c # hub
        BY <2>7, <3>3, <4>1 DEF Somewhere, Queued
      <4>2. CASE c = hub
        <5>1. (new.up /\ Queued(new, a)) \/ (a \in new.took /\ ~new.up)
          BY <2>5, <2>8, <3>3, <4>2 DEF old
        <5> QED BY <2>0, <2>7, <5>1 DEF Somewhere, Queued
      <4> QED BY <4>1, <4>2
    <3> QED BY <2>10, <3>1, <3>2, <3>3 DEF Somewhere
  <2>11. conn' \in [Connections -> Connection] /\ stream' \subseteq Jobs
         /\ \A c \in Connections : conn'[c].handler = conn[c].handler
    BY <2>0, <2>1, <2>5, <2>6, <2>7 DEF AgentShape, old
  <2> QED BY <2>9, <2>10, <2>11
<1> QED BY <1>1, <1>2

(* A step of one laptop, that leaves it with x.                               *)
LEMMA LaptopMoves ==
    ASSUME AgentInv, NEW c \in Connections, NEW x \in Laptops, x.holds = None <=> x.pc = "free",
           x.holds # None => x.holds \in conn[c].took,
           Working(x) => /\ job[x.holds] \in {"READY", "DISPATCHED"}
                         /\ \A d \in Connections : d # c /\ Working(agent[d]) => agent[d].holds # x.holds,
           agent' = [agent EXCEPT ![c] = x], conn' = conn, job' = job, UNCHANGED <<hub, stream, effects>>,
           agent[c].holds # x.holds /\ agent[c].holds # None =>
               job[agent[c].holds] # "DISPATCHED"
    PROVE  AgentInv'
<1>0. /\ agent \in [Connections -> Laptops] /\ agent'[c] = x
      /\ \A d \in Connections : d # c => agent'[d] = agent[d]
  BY DEF AgentInv, AgentShape
<1>1. AgentShape'
  BY <1>0 DEF AgentInv, AgentShape
<1>2. Accepted'
  BY <1>0, AgentConstants DEF AgentInv, Accepted, Queued
<1>3. WorksAlone'
  BY <1>0 DEF AgentInv, WorksAlone
<1>4. ASSUME NEW a \in Jobs, job[a] = "DISPATCHED" PROVE Somewhere(a)'
  <2>1. Somewhere(a)
    BY <1>4, LostIs DEF AgentInv
  <2>2. CASE \E d \in Connections : agent[d].holds = a
    BY <1>0, <1>4, <2>2, AgentConstants DEF Somewhere
  <2>3. CASE ~\E d \in Connections : agent[d].holds = a
    BY <2>1, <2>3 DEF Somewhere, Queued
  <2> QED BY <2>2, <2>3
<1>5. LostOnlyWithConnection'
  <2>1. \A a \in Jobs : job'[a] = "DISPATCHED" => Somewhere(a)'
    BY <1>4
  <2> QED BY <2>1, LostIs DEF LostOnlyWithConnection, Somewhere, Queued
<1> QED BY <1>1, <1>2, <1>3, <1>5 DEF AgentInv

LEMMA PumpKeeps == ASSUME AgentInv, NEW c \in Connections, Pump(c) PROVE AgentInv'
<1> DEFINE old == conn[c]
           new == [old EXCEPT !.queue = Tail(old.queue)]
           x == IF old.up THEN [holds |-> Head(old.queue), pc |-> "received"] ELSE agent[c]
<1>0. /\ conn \in [Connections -> Connection] /\ agent \in [Connections -> Laptops]
      /\ old \in Connection /\ agent[c] \in Laptops /\ agent[c].pc = "free" /\ agent[c].holds = None
      /\ old.queue # <<>> /\ UNCHANGED <<hub, job, stream, effects>>
  BY DEF AgentInv, AgentShape, Pump, HasJob
<1>1. /\ old.queue \in Seq(Jobs) /\ Head(old.queue) \in Jobs /\ Tail(old.queue) \in Seq(Jobs)
      /\ \A a : Queued(old, a) <=> a = Head(old.queue) \/ \E i \in DOMAIN Tail(old.queue) : Tail(old.queue)[i] = a
  <2>1. PICK q \in Seq(Jobs) : q = old.queue /\ q # <<>>
    BY <1>0 DEF Connection
  <2>2. /\ Tail(q) \in Seq(Jobs) /\ Len(Tail(q)) = Len(q) - 1 /\ Head(q) = q[1]
        /\ \A i \in 1..Len(q) - 1 : Tail(q)[i] = q[i + 1]
    BY <2>1
  <2>3. PICK t : t = Tail(q)
    OBVIOUS
  <2>4. DOMAIN q = 1..Len(q) /\ Len(q) \in Nat \ {0} /\ DOMAIN t = 1..Len(q) - 1
    BY <2>1, <2>2, <2>3
  <2>5. \A i \in DOMAIN t : i + 1 \in DOMAIN q /\ q[i + 1] = t[i]
    BY <2>2, <2>3, <2>4
  <2>6. \A i \in DOMAIN q : i = 1 \/ (i - 1 \in DOMAIN t /\ t[i - 1] = q[i])
    BY <2>2, <2>3, <2>4
  <2>7. 1 \in DOMAIN q /\ Head(q) = q[1] /\ Head(q) \in Jobs
    BY <2>2, <2>4
  <2>8. ASSUME NEW a PROVE (\E i \in DOMAIN q : q[i] = a) <=> a = Head(q) \/ \E i \in DOMAIN t : t[i] = a
    <3>1. ASSUME NEW i \in DOMAIN q, q[i] = a PROVE a = Head(q) \/ \E k \in DOMAIN t : t[k] = a
      BY <2>6, <2>7, <3>1
    <3>2. ASSUME NEW i \in DOMAIN t, t[i] = a PROVE \E k \in DOMAIN q : q[k] = a
      BY <2>5, <3>2
    <3> QED BY <2>7, <3>1, <3>2
  <2> QED BY <2>1, <2>2, <2>3, <2>7, <2>8 DEF Queued
<1>2. PICK h \in Jobs, t \in Seq(Jobs) : h = Head(old.queue) /\ t = Tail(old.queue)
  BY <1>1
<1>3. /\ new \in Connection /\ new.queue = t /\ new.took = old.took /\ new.up = old.up
      /\ new.handler = old.handler
  BY <1>0, <1>2 DEF Connection
<1>4. conn' = [conn EXCEPT ![c] = new] /\ agent' = [agent EXCEPT ![c] = x]
  BY <1>0 DEF Pump
<1>5. x \in Laptops /\ (x.holds = None <=> x.pc = "free") /\ ~Working(x)
      /\ x.holds = IF old.up THEN h ELSE None
  BY <1>0, <1>2, AgentConstants DEF Laptops, Working
<1> HIDE DEF new, x
<1>6. ASSUME NEW a PROVE Queued(old, a) <=> a = h \/ Queued(new, a)
  <2>1. Queued(new, a) <=> \E i \in DOMAIN t : t[i] = a
    BY <1>3 DEF Queued
  <2>2. Queued(old, a) <=> a = h \/ \E i \in DOMAIN t : t[i] = a
    BY <1>1, <1>2
  <2> QED BY <2>1, <2>2
<1>7. /\ conn'[c] = new /\ \A d \in Connections : d # c => conn'[d] = conn[d]
      /\ agent'[c] = x /\ \A d \in Connections : d # c => agent'[d] = agent[d]
      /\ conn' \in [Connections -> Connection] /\ agent' \in [Connections -> Laptops]
  BY <1>0, <1>3, <1>4, <1>5
<1>8. AgentShape'
  <2>1. \A d \in Connections : conn'[d].handler = conn[d].handler
    BY <1>3, <1>7
  <2>2. \A d \in Connections : agent'[d].holds = None <=> agent'[d].pc = "free"
    BY <1>5, <1>7 DEF AgentInv, AgentShape
  <2> QED BY <1>0, <1>7, <2>1, <2>2 DEF AgentInv, AgentShape
<1>9. Accepted'
  <2> SUFFICES ASSUME NEW d \in Connections, NEW a \in Jobs, Queued(conn'[d], a) \/ agent'[d].holds = a
               PROVE  a \in conn'[d].took
    BY DEF Accepted, Queued
  <2>1. CASE d = c
    <3>1. Queued(old, a)
      BY <1>5, <1>6, <1>7, <2>1, AgentConstants
    <3> QED BY <1>3, <1>7, <2>1, <3>1 DEF AgentInv, Accepted
  <2>2. CASE d # c
    BY <1>7, <2>2 DEF AgentInv, Accepted
  <2> QED BY <2>1, <2>2
<1>10. WorksAlone'
  <2>1. \A d \in Connections : Working(agent'[d]) => d # c /\ agent'[d] = agent[d]
    BY <1>5, <1>7
  <2> QED BY <1>0, <2>1 DEF AgentInv, WorksAlone
<1>11. ASSUME NEW a \in Jobs, job[a] = "DISPATCHED" PROVE Somewhere(a)'
  <2>1. Somewhere(a)
    BY <1>11, LostIs DEF AgentInv
  <2>2. CASE a \in stream
    BY <1>0, <2>2 DEF Somewhere
  <2>3. ASSUME NEW d \in Connections, conn[d].up /\ Queued(conn[d], a) PROVE Somewhere(a)'
    <3>1. CASE d # c
      BY <1>7, <2>3, <3>1 DEF Somewhere, Queued
    <3>2. CASE d = c /\ Queued(new, a)
      BY <1>3, <1>7, <2>3, <3>2 DEF Somewhere, Queued
    <3>3. CASE d = c /\ a = h
      BY <1>5, <1>7, <2>3, <3>3 DEF Somewhere
    <3> QED BY <1>6, <2>3, <3>1, <3>2, <3>3
  <2>4. ASSUME NEW d \in Connections, agent[d].holds = a PROVE Somewhere(a)'
    <3>1. d # c
      BY <1>0, <2>4, AgentConstants
    <3> QED BY <1>7, <2>4, <3>1 DEF Somewhere
  <2>5. ASSUME NEW d \in Connections, a \in conn[d].took, ~conn[d].up PROVE Somewhere(a)'
    <3>1. a \in conn'[d].took /\ ~conn'[d].up
      BY <1>3, <1>7, <2>5
    <3> QED BY <3>1 DEF Somewhere
  <2> QED BY <2>1, <2>2, <2>3, <2>4, <2>5 DEF Somewhere
<1>12. LostOnlyWithConnection'
  <2>1. \A a \in Jobs : job'[a] = "DISPATCHED" => Somewhere(a)'
    BY <1>0, <1>11
  <2> QED BY <2>1 DEF LostOnlyWithConnection, Somewhere, Queued
<1> QED BY <1>8, <1>9, <1>10, <1>12 DEF AgentInv

LEMMA DropKeeps == ASSUME AgentInv, NEW c \in Connections, ConnectionDrops(c) PROVE AgentInv'
<1> DEFINE new == [conn[c] EXCEPT !.up = FALSE]
<1>0. /\ conn \in [Connections -> Connection] /\ agent \in [Connections -> Laptops]
      /\ conn[c] \in Connection /\ conn[c].up /\ UNCHANGED <<hub, job, stream>>
      /\ effects \in [Jobs -> [kept : Nat, lost : Nat]]
  BY DEF AgentInv, AgentShape, ConnectionDrops
<1>1. /\ new \in Connection /\ new.queue = conn[c].queue /\ new.took = conn[c].took /\ ~new.up
      /\ new.handler = conn[c].handler
  BY <1>0 DEF Connection
<1>2. conn' = [conn EXCEPT ![c] = new]
  BY DEF ConnectionDrops
<1> HIDE DEF new
<1>3. /\ conn'[c] = new /\ \A d \in Connections : d # c => conn'[d] = conn[d]
      /\ conn' \in [Connections -> Connection]
  BY <1>0, <1>1, <1>2
<1>4. /\ agent' \in [Connections -> Laptops]
      /\ \A d \in Connections : agent'[d] = agent[d] \/ (d = c /\ agent'[d] = NoJob)
  <2>1. NoJob \in Laptops
    BY DEF NoJob, Laptops
  <2> QED BY <1>0, <2>1 DEF ConnectionDrops
<1>5. /\ effects' \in [Jobs -> [kept : Nat, lost : Nat]]
      /\ \A a \in Jobs : effects'[a].kept = effects[a].kept
  BY <1>0 DEF ConnectionDrops
<1>6. NoJob.holds = None /\ NoJob.pc = "free" /\ ~Working(NoJob)
  BY DEF NoJob, Working
<1>7. AgentShape'
  <2>1. \A d \in Connections : conn'[d].handler = conn[d].handler
    BY <1>1, <1>3
  <2>2. \A d \in Connections : agent'[d].holds = None <=> agent'[d].pc = "free"
    BY <1>4, <1>6 DEF AgentInv, AgentShape
  <2> QED BY <1>0, <1>3, <1>4, <1>5, <2>1, <2>2 DEF AgentInv, AgentShape
<1>8. Accepted'
  <2>1. \A d \in Connections : conn'[d].queue = conn[d].queue /\ conn'[d].took = conn[d].took
    BY <1>1, <1>3
  <2> QED BY <1>4, <1>6, <2>1, AgentConstants DEF AgentInv, Accepted, Queued
<1>9. WorksAlone'
  <2>1. \A d \in Connections : Working(agent'[d]) => agent'[d] = agent[d]
    BY <1>4, <1>6
  <2> QED BY <1>0, <1>5, <2>1 DEF AgentInv, WorksAlone
<1>10. ASSUME NEW a \in Jobs, job[a] = "DISPATCHED" PROVE Somewhere(a)'
  <2>1. Somewhere(a)
    BY <1>10, LostIs DEF AgentInv
  <2>2. CASE a \in conn[c].took
    BY <1>1, <1>3, <2>2 DEF Somewhere
  <2>3. CASE a \notin conn[c].took
    <3>1. ~Queued(conn[c], a) /\ agent[c].holds # a
      BY <2>3 DEF AgentInv, Accepted
    <3>2. CASE a \in stream
      BY <1>0, <3>2 DEF Somewhere
    <3>3. ASSUME NEW d \in Connections, agent[d].holds = a PROVE Somewhere(a)'
      BY <1>4, <3>1, <3>3 DEF Somewhere
    <3>4. ASSUME NEW d \in Connections, d # c,
                 (conn[d].up /\ Queued(conn[d], a)) \/ (a \in conn[d].took /\ ~conn[d].up)
          PROVE  Somewhere(a)'
      BY <1>3, <3>4 DEF Somewhere, Queued
    <3> QED BY <2>1, <2>3, <3>1, <3>2, <3>3, <3>4 DEF Somewhere
  <2> QED BY <2>2, <2>3
<1>11. LostOnlyWithConnection'
  <2>1. \A a \in Jobs : job'[a] = "DISPATCHED" => Somewhere(a)'
    BY <1>0, <1>10
  <2> QED BY <2>1 DEF LostOnlyWithConnection, Somewhere, Queued
<1> QED BY <1>7, <1>8, <1>9, <1>11 DEF AgentInv

LEMMA CommitKeeps == ASSUME AgentInv, NEW c \in Connections, CommitJob(c) PROVE AgentInv'
<1> DEFINE a == agent[c].holds
<1>0. /\ agent \in [Connections -> Laptops] /\ Working(agent[c]) /\ a \in Jobs
      /\ UNCHANGED <<hub, conn, stream>> /\ job \in [Jobs -> JobStatus]
      /\ effects \in [Jobs -> [kept : Nat, lost : Nat]]
  BY DEF AgentInv, AgentShape, CommitJob, Working, Laptops
<1>1. job[a] \in {"READY", "DISPATCHED"} /\ effects[a].kept = 0
  BY <1>0 DEF AgentInv, WorksAlone
<1>2. PICK status \in {"SUCCEEDED", "FAILED"} : job' = [job EXCEPT ![a] = status]
  BY DEF CommitJob
<1>3. /\ job' \in [Jobs -> JobStatus] /\ job'[a] = status
      /\ \A b \in Jobs : b # a => job'[b] = job[b]
  BY <1>0, <1>2 DEF JobStatus
<1>4. /\ effects' \in [Jobs -> [kept : Nat, lost : Nat]]
      /\ effects'[a].kept = 1 /\ \A b \in Jobs : b # a => effects'[b] = effects[b]
  BY <1>0, <1>1 DEF CommitJob
<1>5. /\ NoJob \in Laptops /\ NoJob.holds = None /\ NoJob.pc = "free" /\ ~Working(NoJob)
  BY DEF NoJob, Laptops, Working
<1>6. /\ agent' \in [Connections -> Laptops] /\ agent'[c] = NoJob
      /\ \A d \in Connections : d # c => agent'[d] = agent[d]
  BY <1>0, <1>5 DEF CommitJob
<1> HIDE DEF a
<1>7. AgentShape'
  <2>1. \A d \in Connections : agent'[d].holds = None <=> agent'[d].pc = "free"
    BY <1>5, <1>6 DEF AgentInv, AgentShape
  <2> QED BY <1>0, <1>3, <1>4, <1>6, <2>1 DEF AgentInv, AgentShape
<1>8. Accepted'
  BY <1>0, <1>5, <1>6, AgentConstants DEF AgentInv, Accepted, Queued
<1>9. WorksAlone'
  <2>1. \A d \in Connections : Working(agent'[d]) =>
           d # c /\ agent'[d] = agent[d] /\ agent[d].holds # a /\ agent[d].holds \in Jobs
    <3> SUFFICES ASSUME NEW d \in Connections, Working(agent'[d])
                 PROVE  d # c /\ agent'[d] = agent[d] /\ agent[d].holds # a /\ agent[d].holds \in Jobs
      OBVIOUS
    <3>1. d # c /\ agent'[d] = agent[d]
      BY <1>5, <1>6
    <3>2. agent[d].holds # a
      BY <1>0, <3>1 DEF AgentInv, WorksAlone, a
    <3>3. agent[d].holds \in Jobs
      BY <1>0, <3>1 DEF AgentInv, AgentShape, Working, Laptops
    <3> QED BY <3>1, <3>2, <3>3
  <2>2. \A d \in Connections : Working(agent'[d]) => job'[agent'[d].holds] \in {"READY", "DISPATCHED"}
    BY <1>3, <2>1 DEF AgentInv, WorksAlone
  <2>3. \A d, e \in Connections :
           Working(agent'[d]) /\ Working(agent'[e]) /\ agent'[d].holds = agent'[e].holds => d = e
    BY <2>1 DEF AgentInv, WorksAlone
  <2>4. \A b \in Jobs : effects'[b].kept # 0 => effects'[b].kept = 1 /\ job'[b] \in {"SUCCEEDED", "FAILED"}
    BY <1>3, <1>4 DEF AgentInv, WorksAlone
  <2> QED BY <2>2, <2>3, <2>4 DEF WorksAlone
<1>10. ASSUME NEW b \in Jobs, job'[b] = "DISPATCHED" PROVE Somewhere(b)'
  <2>1. b # a /\ job[b] = "DISPATCHED"
    BY <1>3, <1>10
  <2>2. Somewhere(b)
    BY <2>1, LostIs DEF AgentInv
  <2>3. \A d \in Connections : agent[d].holds = b => agent'[d].holds = b
    BY <1>6, <2>1 DEF a
  <2> QED BY <1>0, <2>2, <2>3 DEF Somewhere, Queued
<1>11. LostOnlyWithConnection'
  <2>1. \A b \in Jobs : job'[b] = "DISPATCHED" => Somewhere(b)'
    BY <1>10
  <2> QED BY <2>1 DEF LostOnlyWithConnection, Somewhere, Queued
<1> QED BY <1>7, <1>8, <1>9, <1>11 DEF AgentInv

LEMMA AgentInvNext == AgentInv /\ [AgentNext]_agentVars => AgentInv'
<1> SUFFICES ASSUME AgentInv, [AgentNext]_agentVars PROVE AgentInv'
  OBVIOUS
<1>0. /\ conn \in [Connections -> Connection] /\ agent \in [Connections -> Laptops]
      /\ job \in [Jobs -> JobStatus]
  BY DEF AgentInv, AgentShape
<1>1. ASSUME NEW jobs \in SUBSET Jobs, Hand(jobs), UNCHANGED <<hub, agent, effects>>,
             job' \in [Jobs -> JobStatus],
             \A b \in Jobs : job'[b] = job[b] \/ (b \in jobs /\ job[b] = "READY" /\ job'[b] = "DISPATCHED")
      PROVE  AgentInv'
  <2>1. /\ stream' \subseteq Jobs /\ conn' \in [Connections -> Connection]
        /\ \A c \in Connections : conn'[c].handler = conn[c].handler
        /\ Accepted' /\ \A b \in Jobs : b \in jobs \/ Somewhere(b) => Somewhere(b)'
    BY <1>1, HandedOver DEF AgentInv
  <2>2. AgentShape'
    BY <1>1, <2>1 DEF AgentInv, AgentShape
  <2>3. \A c \in Connections : Working(agent[c]) => agent[c].holds \in Jobs
    BY <1>0 DEF AgentInv, AgentShape, Working, Laptops
  <2>4. WorksAlone'
    BY <1>1, <2>3 DEF AgentInv, WorksAlone
  <2>5. \A b \in Jobs : job'[b] = "DISPATCHED" => Somewhere(b)'
    BY <1>1, <2>1, LostIs DEF AgentInv
  <2>6. LostOnlyWithConnection'
    BY <2>5 DEF LostOnlyWithConnection, Somewhere, Queued
  <2> QED BY <2>1, <2>2, <2>4, <2>6 DEF AgentInv
<1>2. CASE RecoverJobs
  BY <1>0, <1>1, <1>2 DEF RecoverJobs
<1>3. ASSUME NEW a \in Jobs, DispatchJob(a) PROVE AgentInv'
  <2>1. Hand({a}) /\ job[a] = "READY" /\ job' = [job EXCEPT ![a] = "DISPATCHED"]
        /\ UNCHANGED <<hub, agent, effects>>
    BY <1>3 DEF DispatchJob
  <2>2. job' \in [Jobs -> JobStatus]
    BY <1>0, <2>1 DEF JobStatus
  <2> QED BY <1>0, <1>1, <2>1, <2>2
<1>4. ASSUME NEW a \in Jobs, ClusterWorker(a) PROVE AgentInv'
  <2>0. /\ stream' = stream \ {a} /\ UNCHANGED <<hub, conn, agent, effects>>
        /\ job' \in [Jobs -> JobStatus] /\ job'[a] # "DISPATCHED"
        /\ \A b \in Jobs : job'[b] = job[b] \/ (b = a /\ job[b] = "DISPATCHED" /\ job'[b] = "FAILED")
        /\ RowFree(a)
    BY <1>0, <1>4 DEF ClusterWorker, JobStatus
  <2>1. AgentShape' /\ Accepted'
    BY <2>0 DEF AgentInv, AgentShape, Accepted, Queued
  <2>2. \A c \in Connections : Working(agent[c]) => agent[c].holds # a /\ agent[c].holds \in Jobs
    BY <1>0, <2>0 DEF RowFree, Working, AgentInv, AgentShape, Laptops
  <2>3. WorksAlone'
    BY <2>0, <2>2 DEF AgentInv, WorksAlone
  <2>4. ASSUME NEW b \in Jobs, job'[b] = "DISPATCHED" PROVE Somewhere(b)'
    <3>1. b # a /\ Somewhere(b)
      BY <2>0, <2>4, LostIs DEF AgentInv
    <3> QED BY <2>0, <3>1 DEF Somewhere, Queued
  <2>5. LostOnlyWithConnection'
    <3>1. \A b \in Jobs : job'[b] = "DISPATCHED" => Somewhere(b)'
      BY <2>4
    <3> QED BY <3>1 DEF LostOnlyWithConnection, Somewhere, Queued
  <2> QED BY <2>1, <2>3, <2>5 DEF AgentInv
<1>5. ASSUME NEW c \in Connections, Register(c) \/ HandlerEnds(c) PROVE AgentInv'
  <2>0. UNCHANGED <<agent, job, stream, effects>>
    BY <1>5 DEF Register, HandlerEnds
  <2>a. PICK x \in Connection :
          /\ conn' = [conn EXCEPT ![c] = x] /\ x.queue = conn[c].queue /\ x.took = conn[c].took
          /\ (conn[c].up => x.up) /\ (~x.up \/ conn[c].took = {})
          /\ hub' = None \/ (hub' = c /\ x.handler = "serving")
    <3>1. CASE Register(c)
      <4>0. conn[c] \in Connection /\ conn[c] = Unopened
        BY <1>0, <3>1 DEF Register
      <4>1. conn[c] \in Connection /\ conn[c].took = {}
        BY <4>0 DEF Unopened
      <4> DEFINE x == [[conn[c] EXCEPT !.handler = "serving"] EXCEPT !.up = TRUE]
      <4>2. x \in Connection /\ x.queue = conn[c].queue /\ x.took = conn[c].took /\ x.up /\ x.handler = "serving"
        BY <4>1 DEF Connection
      <4>3. conn' = [conn EXCEPT ![c] = x] /\ hub' = c
        BY <1>0, <3>1 DEF Register, Superseded, Connection
      <4> HIDE DEF x
      <4> QED BY <4>1, <4>2, <4>3
    <3>2. CASE HandlerEnds(c)
      <4> DEFINE x == [conn[c] EXCEPT !.handler = "ended"]
      <4>1. x \in Connection /\ x.queue = conn[c].queue /\ x.took = conn[c].took /\ x.up = conn[c].up
        BY <1>0 DEF Connection
      <4>2. conn' = [conn EXCEPT ![c] = x] /\ hub' = None
        BY <3>2 DEF HandlerEnds, Unregistered
      <4>3. ~conn[c].up \/ conn[c].took = {}
        BY <3>2 DEF HandlerEnds, Unopened
      <4> HIDE DEF x
      <4> QED BY <4>1, <4>2, <4>3
    <3> QED BY <1>5, <3>1, <3>2
  <2>1. /\ conn' \in [Connections -> Connection] /\ conn'[c] = x
        /\ \A d \in Connections : d # c => conn'[d] = conn[d]
        /\ hub' \in Connections \cup {None} /\ (hub' = None \/ conn'[hub'].handler = "serving")
    BY <1>0, <2>a
  <2>2. AgentShape'
    BY <2>0, <2>1 DEF AgentInv, AgentShape
  <2>3. \A d \in Connections : conn'[d].queue = conn[d].queue /\ conn'[d].took = conn[d].took
        /\ (conn[d].up => conn'[d].up) /\ (~conn'[d].up \/ conn[d].up \/ conn[d].took = {})
    BY <2>a, <2>1
  <2>4. Accepted' /\ WorksAlone'
    BY <2>0, <2>3 DEF AgentInv, Accepted, WorksAlone, Queued
  <2>5. \A b \in Jobs : job[b] = "DISPATCHED" => Somewhere(b)'
    BY <2>0, <2>3, LostIs DEF AgentInv, Somewhere, Queued
  <2>6. LostOnlyWithConnection'
    BY <2>0, <2>5 DEF LostOnlyWithConnection, Somewhere, Queued
  <2> QED BY <2>2, <2>4, <2>6 DEF AgentInv
<1>6. ASSUME NEW c \in Connections, ClaimJob(c) \/ ExecuteJob(c) PROVE AgentInv'
  <2>0. /\ agent[c].pc \in {"received", "claimed"} /\ agent[c] \in Laptops /\ agent[c].holds \in Jobs
        /\ UNCHANGED <<hub, conn, job, stream, effects>>
    BY <1>0, <1>6 DEF AgentInv, AgentShape, ClaimJob, ExecuteJob, Laptops
  <2>1. CASE ExecuteJob(c)
    <3> DEFINE x == [agent[c] EXCEPT !.pc = "executed"]
    <3>1. x \in Laptops /\ x.holds = agent[c].holds /\ x.pc = "executed" /\ Working(agent[c])
      BY <2>0, <2>1 DEF Laptops, ExecuteJob, Working
    <3>2. agent' = [agent EXCEPT ![c] = x]
      BY <2>1 DEF ExecuteJob
    <3> HIDE DEF x
    <3>3. /\ job[x.holds] \in {"READY", "DISPATCHED"} /\ x.holds \in conn[c].took /\ x.holds # None
          /\ \A d \in Connections : d # c /\ Working(agent[d]) => agent[d].holds # x.holds
      BY <2>0, <3>1, AgentConstants DEF AgentInv, WorksAlone, Accepted
    <3> QED BY <2>0, <3>1, <3>2, <3>3, LaptopMoves
  <2>2. CASE ClaimJob(c) /\ job[agent[c].holds] \in {"DISPATCHED", "READY"}
    <3> DEFINE x == [agent[c] EXCEPT !.pc = "claimed"]
    <3>1. x \in Laptops /\ x.holds = agent[c].holds /\ x.pc = "claimed"
      BY <2>0 DEF Laptops
    <3>2. agent' = [agent EXCEPT ![c] = x] /\ RowFree(agent[c].holds)
      BY <2>2 DEF ClaimJob
    <3> HIDE DEF x
    <3>3. /\ x.holds \in conn[c].took /\ x.holds # None
          /\ \A d \in Connections : d # c /\ Working(agent[d]) => agent[d].holds # x.holds
      BY <2>0, <3>1, <3>2, AgentConstants DEF AgentInv, Accepted, RowFree, Working
    <3> QED BY <2>0, <2>2, <3>1, <3>2, <3>3, LaptopMoves
  <2>3. CASE ClaimJob(c) /\ job[agent[c].holds] \notin {"DISPATCHED", "READY"}
    <3>1. NoJob \in Laptops /\ NoJob.holds = None /\ NoJob.pc = "free" /\ ~Working(NoJob)
      BY DEF NoJob, Laptops, Working
    <3>2. agent' = [agent EXCEPT ![c] = NoJob]
      BY <2>3 DEF ClaimJob
    <3> QED BY <2>0, <2>3, <3>1, <3>2, LaptopMoves
  <2> QED BY <1>6, <2>1, <2>2, <2>3
<1>7. CASE UNCHANGED agentVars
  BY <1>7 DEF agentVars, AgentInv, AgentShape, Accepted, WorksAlone, LostOnlyWithConnection, Queued
<1> QED BY <1>2, <1>3, <1>4, <1>5, <1>6, <1>7, PumpKeeps, DropKeeps, CommitKeeps DEF AgentNext

(* A job is recorded once, and one that is dispatched and nowhere was accepted *)
(* by a connection that dropped, for any number of jobs, connections and       *)
(* restarts (AgentHub.dispatch, agent_session, LocalAgentRunner).              *)
THEOREM JobsAreNotLost == AgentSpec => [](AgentTypeOK /\ RecordedOnce /\ LostOnlyWithConnection)
<1>1. AgentInit => AgentInv
  <2> SUFFICES ASSUME AgentInit PROVE AgentInv
    OBVIOUS
  <2>1. Unopened \in Connection /\ NoJob \in Laptops /\ NoJob.holds = None /\ NoJob.pc = "free"
        /\ \A a : ~Queued(Unopened, a)
    BY DEF Unopened, Connection, NoJob, Laptops, Queued
  <2>2. AgentShape
    BY <2>1 DEF AgentInit, AgentShape, JobStatus
  <2>3. Accepted /\ WorksAlone /\ LostOnlyWithConnection
    BY <2>1, AgentConstants
       DEF AgentInit, Accepted, WorksAlone, LostOnlyWithConnection, Working
  <2> QED BY <2>2, <2>3 DEF AgentInv
<1>2. ASSUME AgentInv PROVE AgentTypeOK
  BY <1>2 DEF AgentInv, AgentShape, AgentTypeOK, Connection, Laptops, NoJob, JobStatus
<1>3. ASSUME AgentInv PROVE RecordedOnce
  <2> SUFFICES ASSUME NEW a \in Jobs
               PROVE  /\ effects[a].kept <= 1
                      /\ Cardinality({c \in Connections : agent[c].holds = a /\ agent[c].pc \in {"claimed", "executed"}})
                           + effects[a].kept <= 1
    BY DEF RecordedOnce
  <2> DEFINE W == {c \in Connections : agent[c].holds = a /\ agent[c].pc \in {"claimed", "executed"}}
  <2>1. effects[a].kept \in {0, 1}
    BY <1>3 DEF AgentInv, AgentShape, WorksAlone
  <2>2. CASE W = {}
    <3>1. Cardinality(W) = 0
      BY <2>2, FS_EmptySet
    <3> HIDE DEF W
    <3> QED BY <2>1, <3>1 DEF W
  <2>3. ASSUME NEW c \in W PROVE Cardinality(W) + effects[a].kept <= 1
    <3>1. W = {c}
      BY <1>3, <2>3 DEF AgentInv, WorksAlone, Working
    <3>2. effects[a].kept = 0
      BY <1>3, <2>3 DEF AgentInv, WorksAlone, Working
    <3> HIDE DEF W
    <3>3. Cardinality(W) = 1
      BY <3>1, FS_Singleton
    <3> QED BY <3>2, <3>3
  <2> QED BY <2>1, <2>2, <2>3
<1>4. AgentInv => AgentTypeOK /\ RecordedOnce /\ LostOnlyWithConnection
  BY <1>2, <1>3 DEF AgentInv
<1> QED BY <1>1, <1>4, AgentInvNext, PTL DEF AgentSpec

===============================================================================
