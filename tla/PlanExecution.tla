---------------------------- MODULE PlanExecution ----------------------------
(***************************************************************************)
(* What the execution engine promises about a plan, whatever the number of *)
(* workers, schedulers and failures underneath: an action is opened for    *)
(* execution only after everything it depends on ended acceptably, and an  *)
(* outcome, once recorded, is never revised.                               *)
(***************************************************************************)
CONSTANTS Actions, Deps, Tolerant

VARIABLE phase

Ended == {"succeeded", "unverified", "failed"}
Phase == {"blocked", "open"} \cup Ended

Acceptable(a, d) == phase[d] = "succeeded" \/ (phase[d] = "unverified" /\ a \in Tolerant)

Init == phase = [a \in Actions |-> "blocked"]

(* Several actions open in one scheduler pass, and several may end in one   *)
(* pass of the reaper.                                                      *)
Open(S) ==
    /\ \A a \in S : phase[a] = "blocked" /\ \A d \in Deps[a] : Acceptable(a, d)
    /\ phase' = [a \in Actions |-> IF a \in S THEN "open" ELSE phase[a]]

End(S, o) ==
    /\ \A a \in S : phase[a] = "open"
    /\ phase' = [a \in Actions |-> IF a \in S THEN o ELSE phase[a]]

Next == \E S \in SUBSET Actions : Open(S) \/ \E o \in Ended : End(S, o)

Spec == Init /\ [][Next]_phase
=============================================================================
