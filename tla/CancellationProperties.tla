------------------------ MODULE CancellationProperties ------------------------
(* What a cancellation promises about the effects of a task. *)
EXTENDS Cancellation

(* The rows, the requests and the hands of the workers keep their shape.     *)
TypeOK ==
    /\ task \in {"RUNNING", "SUCCEEDED", "FAILED", "CANCELLED"}
    /\ row \in [Actions -> ActionStatus] /\ attempts \in [Actions -> Nat]
    /\ ledger \subseteq Actions /\ dead \subseteq Actions /\ overrun \in [Actions -> Nat]
    /\ world \in [Actions -> [effect : {"none", "done", "undone"}, undos : Nat]]
    /\ hand \in [Workers -> [pc : {"idle", "claimed", "loaded"} \cup Executing,
                             act : Actions \cup {NoAction}, last : BOOLEAN]]
    /\ step \in [Actions -> {"open", "skipped"}]
    /\ req \in [Requests -> [pc : {"idle", "marking", "undoing", "done", "reported", "refused", "dead"},
                             undoes : BOOLEAN, act : [Actions -> ActionStatus], todo : SUBSET Actions,
                             again : BOOLEAN, missed : SUBSET Actions, report : Report]]
    /\ faults \in 0..MaxFaults

(* Nothing is undone twice, however many requests cancel at once and in      *)
(* whichever transaction one of them dies: only the request whose update     *)
(* moved the task compensates, and its second pass skips what its first did. *)
UndoneOnce == \A a \in Actions : world[a].undos <= 1

(* The actions a worker may still have in hand when another has ended them.  *)
Redoable == {a \in Idempotent : overrun[a] > 0}

(* An effect is only ever undone whose success was recorded, and never under *)
(* a worker that is executing it (cancel.py:16-20); a row says ROLLED_BACK   *)
(* only over an effect that is gone.  Both fail where a lease lapsed under a *)
(* live worker of an idempotent tool, which repeats the effect that its      *)
(* successor recorded and the request undid.  The ledger keeps a tool that   *)
(* is not idempotent from it.                                                *)
RollbacksAreReal ==
    \A a \in Actions :
        /\ world[a].undos > 0 => row[a] \in {"SUCCEEDED", "ROLLED_BACK"}
        /\ row[a] = "ROLLED_BACK" => world[a].undos > 0
        /\ world[a].undos > 0 /\ a \notin Redoable =>
             /\ world[a].effect = "undone"
             /\ \A w \in Workers : ~(hand[w].act = a /\ hand[w].pc \in Executing)

(* When the request that cancelled the task reports, every recorded success  *)
(* that was left in the world is in its report.  Two cases escape: an action *)
(* that moved between the request's read and its first transaction, if the   *)
(* request saw no other action running, since the stale copy says CANCELLED  *)
(* and hides it from all that follows; and one whose lease lapsed under a    *)
(* live worker, read as READY and claimed once more, for which that worker   *)
(* then records its success.  What ended UNVERIFIED is no recorded success:  *)
(* its effect is neither undone nor reported (cancel.py:265).                *)
ReportAccounts ==
    \A r \in Requests : req[r].pc = "done" /\ req[r].undoes =>
        \A a \in Actions : row[a] = "SUCCEEDED" /\ world[a].effect = "done" =>
            \/ a \in req[r].report.irreversible \cup req[r].report.failed \cup req[r].report.running
            \/ a \in req[r].missed /\ ~req[r].again
            \/ overrun[a] > 0 /\ req[r].act[a] \in NotStarted

(* A cancelled task comes to rest: every worker sees the cancellation, and   *)
(* no action of the task stays in a worker's hands or on its way there;      *)
(* unless the reaper cannot pass, which takes a worker that outlived its     *)
(* lease, wrote the dead letter of an action that was no longer its own, and *)
(* left the next attempt to fail.                                            *)
CancelledComesToRest ==
    task = "CANCELLED" ~> \/ \A a \in Actions : row[a] \notin {"RUNNING", "DISPATCHED"}
                          \/ Wedged

(* Effects are undone before what they were built on (dag.py:93): among the  *)
(* successes a request found, none is undone after one it depends on.  A     *)
(* success that a worker records within the grace period comes too late for  *)
(* that (docs/07 section 8 says otherwise): the pass that undoes it follows  *)
(* the one that undid what it stands on.                                     *)
UndoneBeforeFoundation ==
    [][\A r \in Requests : \A b \in req[r].todo :
          ~req[r].again /\ world[b].undos # world'[b].undos =>
              \A a \in Deps[b] : world[a].undos = 0]_vars

(* Two requests, workers that end during the grace period or outlive their   *)
(* leases, and deaths in between never undo an effect twice, nor record a    *)
(* rollback of an effect that is still there (Canceller.cancel, cas_status). *)
CancellationSound ==
    /\ TypeOK
    /\ UndoneOnce
    /\ RollbacksAreReal
=============================================================================
