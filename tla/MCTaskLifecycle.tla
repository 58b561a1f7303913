--------------------------- MODULE MCTaskLifecycle ---------------------------
(* Small instances of TaskLifecycle: task t1 has a chain 1 -> 2 and spare 3,  *)
(* task t2 the two questions 4 and 5.                                         *)
EXTENDS TaskLifecycleProperties, TLC

TaskOfTwo == [a \in Actions |-> IF a <= 3 THEN "t1" ELSE "t2"]
Chained == [a \in Actions |-> IF a = 2 THEN {1} ELSE {}]
OneSpare == [t \in Tasks |-> IF t = "t1" THEN {3} ELSE {}]
Mixed == [a \in Actions |-> IF a >= 4 THEN "confirm" ELSE "allow"]
=============================================================================
