--------------------------- MODULE MCActionEngine ---------------------------
(* Small instances of ActionEngine for TLC.                                 *)
EXTENDS ActionEngineProperties, TLC

One == {1}
Two == {1, 2}
Three == {1, 2, 3}

NoDeps == [a \in Actions |-> {}]
Chain == [a \in Actions |-> {d \in Actions : d < a}]

OneTask == [a \in Actions |-> "t1"]
TaskEach == [a \in Actions |-> IF a = 1 THEN "t1" ELSE "t2"]

NoKeys == [a \in Actions |-> NoKey]
DesktopOnly == [a \in Actions |-> "desktop"]
DesktopTwo == [a \in Actions |-> IF a = 1 THEN NoKey ELSE "desktop"]
OneAtATime == [k \in Keys |-> 1]

AnyPoint == {"received", "claimed", "loaded", "executing", "finishing"}
AfterClaim == AnyPoint \ {"received"}
WhileReceived == {"received"}
Nowhere == {}

WorkerSymmetry == Permutations(Workers)
=============================================================================
