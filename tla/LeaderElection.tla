---------------------------- MODULE LeaderElection ----------------------------
(* Replicas of the standalone scheduler and the Redis lock they tick under.  *)
(* The lock is a key with a time to live; a replica that outlives it does    *)
(* not notice before its next renewal.                                       *)
EXTENDS Naturals, FiniteSets

CONSTANTS
    Replicas,
    Nobody,     \* the lock is free
    Ghost,      \* the lock is a dead process's, until it expires
    MaxLapses,  \* expiries under a live owner
    MaxDeaths,  \* deaths of a process
    MaxBatches  \* ticks that dispatch something

ASSUME LeaderAssumption ==
    /\ Nobody \notin Replicas /\ Ghost \notin Replicas /\ Nobody # Ghost
    /\ MaxBatches \in Nat

VARIABLES
    lock,      \* who the key names
    replica,   \* the processes
    orphans,   \* batches committed as DISPATCHED that their tick never published
    lapses, deaths, batches

leaderVars == <<lock, replica, orphans, lapses, deaths, batches>>

Started == [pc |-> "waiting", held |-> FALSE, outlived |-> FALSE, batch |-> 0]

LeaderInit ==
    /\ lock = Nobody /\ orphans = {}
    /\ replica = [r \in Replicas |-> Started]
    /\ lapses = 0 /\ deaths = 0 /\ batches = 0

Owns(r) == lock = r
Ticking(r) == replica[r].pc \in {"ticking", "publishing"}

(* SET NX: it fails on every existing key, the caller's own included. *)
TryAcquire(r, then) ==
    IF lock = Nobody
    THEN /\ lock' = r
         /\ replica' = [replica EXCEPT ![r].held = TRUE, ![r].pc = then]
    ELSE /\ replica' = [replica EXCEPT ![r].held = FALSE]
         /\ UNCHANGED lock

(* The first acquisition of a process, and the recovery that follows it. *)
FirstAcquire(r) ==
    /\ replica[r].pc = "waiting"
    /\ TryAcquire(r, "recovering")
    /\ UNCHANGED <<orphans, lapses, deaths, batches>>

NotRecovered == {}
Recover(r) ==
    /\ replica[r].pc = "recovering"
    /\ replica' = [replica EXCEPT ![r].pc = "idle"]
    /\ orphans' = NotRecovered
    /\ UNCHANGED <<lock, lapses, deaths, batches>>

(* _tick_if_leader: held or acquired, then renewed, then one tick. *)
Reacquire(r) ==
    /\ replica[r].pc = "idle" /\ ~replica[r].held
    /\ TryAcquire(r, "idle")
    /\ UNCHANGED <<orphans, lapses, deaths, batches>>

BugRenewsAny(r) == lock # Nobody
Renewed(r) == Owns(r)

Renew(r) ==
    /\ replica[r].pc = "idle" /\ replica[r].held
    /\ replica' = IF Renewed(r)
                  THEN [replica EXCEPT ![r].pc = "ticking", ![r].outlived = FALSE]
                  ELSE [replica EXCEPT ![r].held = FALSE]
    /\ UNCHANGED <<lock, orphans, lapses, deaths, batches>>

TickCommits(r) ==
    /\ replica[r].pc = "ticking"
    /\ \/ replica' = [replica EXCEPT ![r].pc = "idle"] /\ UNCHANGED batches
       \/ /\ batches < MaxBatches /\ batches' = batches + 1
          /\ replica' = [replica EXCEPT ![r].pc = "publishing", ![r].batch = batches + 1]
    /\ UNCHANGED <<lock, orphans, lapses, deaths>>

PublishBatch(r) ==
    /\ replica[r].pc = "publishing"
    /\ replica' = [replica EXCEPT ![r].pc = "idle", ![r].batch = 0]
    /\ UNCHANGED <<lock, orphans, lapses, deaths, batches>>

Left(r) == IF replica[r].pc = "publishing" THEN {replica[r].batch} ELSE {}

(* An exception ends the process: it releases the lock if the key still      *)
(* names it.                                                                 *)
Released(r) == IF Owns(r) THEN Nobody ELSE lock

Exit(r) ==
    /\ replica[r].pc # "dead" /\ deaths < MaxDeaths
    /\ deaths' = deaths + 1
    /\ lock' = Released(r)
    /\ orphans' = orphans \cup Left(r)
    /\ replica' = [replica EXCEPT ![r] = [Started EXCEPT !.pc = "dead"]]
    /\ UNCHANGED <<lapses, batches>>

Killed(r) ==
    /\ replica[r].pc # "dead" /\ deaths < MaxDeaths
    /\ deaths' = deaths + 1
    /\ lock' = IF Owns(r) THEN Ghost ELSE lock
    /\ orphans' = orphans \cup Left(r)
    /\ replica' = [replica EXCEPT ![r] = [Started EXCEPT !.pc = "dead"]]
    /\ UNCHANGED <<lapses, batches>>

(* A new process has a new holder id: its predecessor's key is not its own. *)
StartAgain(r) ==
    /\ replica[r].pc = "dead"
    /\ replica' = [replica EXCEPT ![r] = Started]
    /\ UNCHANGED <<lock, orphans, lapses, deaths, batches>>

Expiring == lock = Ghost

GhostExpires ==
    /\ Expiring /\ lock' = Nobody
    /\ UNCHANGED <<replica, orphans, lapses, deaths, batches>>

(* The time to live runs out under a live owner that is slow. *)
LockLapses ==
    /\ lock \in Replicas /\ lapses < MaxLapses
    /\ lapses' = lapses + 1 /\ lock' = Nobody
    /\ replica' = [replica EXCEPT ![lock].outlived = TRUE]
    /\ UNCHANGED <<orphans, deaths, batches>>

LeaderStep(r) ==
    FirstAcquire(r) \/ Recover(r) \/ Reacquire(r) \/ Renew(r) \/ TickCommits(r) \/ PublishBatch(r)

LeaderNext ==
    \/ \E r \in Replicas :
         \/ FirstAcquire(r) \/ Recover(r) \/ Reacquire(r) \/ Renew(r)
         \/ TickCommits(r) \/ PublishBatch(r) \/ Exit(r) \/ Killed(r) \/ StartAgain(r)
    \/ GhostExpires \/ LockLapses

LeaderSpec == LeaderInit /\ [][LeaderNext]_leaderVars

-----------------------------------------------------------------------------
LeaderTypeOK ==
    /\ lock \in Replicas \cup {Nobody, Ghost}
    /\ replica \in [Replicas -> [pc : {"waiting", "recovering", "idle", "ticking", "publishing", "dead"},
                                 held : BOOLEAN, outlived : BOOLEAN, batch : 0..MaxBatches]]
    /\ orphans \subseteq 1..MaxBatches

(* A replica ticks without the lock only when its own time to live ran out   *)
(* since it renewed: no other replica's renewal, exit or late release takes  *)
(* the lock from a live owner (the GET-and-compare scripts of leader.py).    *)
OnlyALapseOverlaps == \A r \in Replicas : Ticking(r) /\ ~Owns(r) => replica[r].outlived

(* Once there has been a leader, there is always a tick to come while some    *)
(* replica stays up: the lock of a killed one expires, that of one that exits *)
(* is released, a lapsed one is taken again.                                  *)
TicksGoOn ==
    lock # Nobody \/ lapses + deaths > 0 ~>
        (\E r \in Replicas : Ticking(r)) \/ \A r \in Replicas : replica[r].pc = "dead"

(* What a leader committed and never published is published again, as long   *)
(* as no lock lapses under a live owner: whoever leads next is new and       *)
(* recovers first.  A replica that regains a lock it had lost does not.      *)
OrphansRepublished ==
    orphans # {} /\ lapses = 0 ~>
        orphans = {} \/ lapses > 0 \/ \A r \in Replicas : replica[r].pc = "dead"

(* Two replicas act as leader at once only after a lease lapsed under one that*)
(* still ticks; as long as a replica lives ticks go on, and what a leader     *)
(* committed and never published is published again (run_scheduler, LeaderLock).*)
LeadersServe ==
    /\ [](LeaderTypeOK /\ OnlyALapseOverlaps)
    /\ TicksGoOn
    /\ OrphansRepublished
=============================================================================
