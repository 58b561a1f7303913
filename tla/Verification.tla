----------------------------- MODULE Verification ----------------------------
(* What the engine makes of an action's result: it looks again at the world   *)
(* the action changed, which others change too, and asserts the declared      *)
(* postconditions one by one.                                                 *)
(*   src/vyomel/verify/engine.py, src/vyomel/runtime/worker.py                *)
EXTENDS Integers, Sequences

CONSTANTS
    Observable,        \* what an action may change: files, elements, API entities
    Sandboxed,    \* the files below the allowed roots
    Seen,
    Nothing,      \* the fact does not hold: no such file, element or entity
    LeftOut,        \* left out of a postcondition
    Postconditions \* [type, target, expected, resource], where a resource is "named"
                   \* when the check itself says which entity it is about

(* What a plan or a tool expects is a value; that a fact should not hold it   *)
(* cannot say.                                                                *)
ASSUME VerificationAssumption == \A c \in Postconditions : c.expected # Nothing

VARIABLES
    world,        \* fact -> value
    claimed,      \* the result the tool returned: fact -> value
    checked,      \* the action: [stage, level, checks, ...]
    atCheck       \* the world the checks saw

verifyVars == <<world, claimed, checked, atCheck>>

------------------------------------------------------------------------------
(* One check.  An exception of the check, and a path outside the sandbox,     *)
(* is a failure; a check that lacks what it needs to look has no method.      *)

Equal(observed, expected) == IF observed = expected THEN "PASS" ELSE "FAIL"

ValueEquals(c) ==
    IF c.target = LeftOut THEN "NO_METHOD"
    ELSE IF claimed[c.target] = Nothing THEN "FAIL"
    ELSE Equal(claimed[c.target], c.expected)

FileExists(c) ==
    IF c.target = LeftOut THEN "NO_METHOD"
    ELSE IF c.target \in Sandboxed /\ world[c.target] # Nothing THEN "PASS" ELSE "FAIL"

FileHash(c) ==
    IF LeftOut \in {c.target, c.expected} THEN "NO_METHOD"
    ELSE IF c.target \notin Sandboxed THEN "FAIL"
    ELSE Equal(world[c.target], c.expected)

ElementExists(c) ==
    IF ~checked.observing \/ c.target = LeftOut THEN "NO_METHOD"
    ELSE IF world[c.target] = Nothing THEN "FAIL"
    ELSE IF c.expected = LeftOut THEN "PASS"
    ELSE Equal(world[c.target], c.expected)

(* Without an `expected` the value is the one the tool returned.  The check   *)
(* may say which entity to read; else the result says it, but not of a        *)
(* calendar event, which is looked up by an `event_id` results do not carry.  *)
ApiReadback(c) ==
    IF ~checked.observing \/ c.target = LeftOut \/ c.resource = "other" THEN "NO_METHOD"
    ELSE IF c.resource = "calendar" THEN "NO_METHOD"
    ELSE IF world[c.target] = Nothing \/ (c.resource # "named" /\ claimed[c.target] = Nothing) THEN "FAIL"
    ELSE Equal(world[c.target], IF c.expected = LeftOut THEN claimed[c.target] ELSE c.expected)

RunOne(c) ==
    CASE c.type = "value_equals"   -> ValueEquals(c)
      [] c.type = "file_exists"    -> FileExists(c)
      [] c.type = "file_hash"      -> FileHash(c)
      [] c.type = "element_exists" -> ElementExists(c)
      [] c.type = "api_readback"   -> ApiReadback(c)
      [] OTHER                     -> "NO_METHOD"

\* A check without a method hides one that failed.
BugNoMethodFirst(outcomes) ==
    IF "NO_METHOD" \in outcomes THEN "NO_METHOD"
    ELSE IF "FAIL" \in outcomes THEN "FAIL" ELSE "PASS"

Aggregate(outcomes) ==
    IF "FAIL" \in outcomes THEN "FAIL"
    ELSE IF "NO_METHOD" \in outcomes THEN "NO_METHOD" ELSE "PASS"

VerifyResult(level, checks) ==
    IF checks = <<>>
    THEN IF level >= 2 THEN "NO_METHOD" ELSE "PASS"
    ELSE Aggregate({ RunOne(checks[i]) : i \in DOMAIN checks })

------------------------------------------------------------------------------
VerifyInit ==
    /\ world = [f \in Observable |-> Nothing]
    /\ claimed = [f \in Observable |-> Nothing]
    /\ checked = [stage |-> "none"]
    /\ atCheck = world

(* The postconditions the plan declares, or, when it declares none, those of  *)
(* the tool.                                                                  *)
BeginAction ==
    /\ checked = [stage |-> "none"]
    /\ \E level \in {1, 2}, observing \in BOOLEAN, n \in 0..2 : \E checks \in [1..n -> Postconditions] :
           checked' = [stage |-> "running", level |-> level, checks |-> checks,
                       observing |-> observing, disturbed |-> FALSE]
    /\ UNCHANGED <<world, claimed, atCheck>>

(* The tool says it gave a fact a value; it may have done nothing.            *)
ToolReturns ==
    /\ checked.stage = "running"
    /\ \E f \in Observable, v \in Seen :
           /\ claimed' = [claimed EXCEPT ![f] = v]
           /\ world' \in {world, [world EXCEPT ![f] = v]}
    /\ checked' = [checked EXCEPT !.stage = "returned"]
    /\ UNCHANGED atCheck

(* Another action changes the world before the engine looks.                  *)
Interferes ==
    /\ checked.stage = "returned" /\ ~checked.disturbed
    /\ \E f \in Observable, v \in Seen \cup {Nothing} : world' = [world EXCEPT ![f] = v]
    /\ checked' = [checked EXCEPT !.disturbed = TRUE]
    /\ UNCHANGED <<claimed, atCheck>>

(* The verdict and what the worker makes of it.                               *)
Verdict(outcome) ==
    CASE outcome = "PASS" -> "succeeded"
      [] outcome = "NO_METHOD" -> "unverified"
      [] OTHER -> "failed"

Verify ==
    /\ checked.stage = "returned"
    /\ checked' = [checked EXCEPT !.stage = Verdict(VerifyResult(checked.level, checked.checks))]
    /\ atCheck' = world
    /\ UNCHANGED <<world, claimed>>

VerifyNext == BeginAction \/ ToolReturns \/ Interferes \/ Verify

VerifySpec == VerifyInit /\ [][VerifyNext]_verifyVars

------------------------------------------------------------------------------
(* FR-402: above L1 an action succeeds only if something was checked, every   *)
(* check had a way to look, and what each looked at was as declared - in the  *)
(* world, whoever changed it since, or, for value_equals, in the result.      *)
SuccessWasSeen ==
    checked.stage = "succeeded" /\ checked.level >= 2 =>
        /\ checked.checks # <<>>
        /\ \A i \in DOMAIN checked.checks :
              LET c == checked.checks[i]
              IN  /\ c.target # LeftOut
                  /\ IF c.type = "value_equals" THEN claimed[c.target] = c.expected
                     ELSE /\ atCheck[c.target] # Nothing
                          /\ c.expected # LeftOut /\ c.type # "file_exists" =>
                                 atCheck[c.target] = c.expected

(* A check that has what it needs to look at the world, and what it may see   *)
(* there that speaks against it.                                              *)
CanLook(c) ==
    /\ c.target # LeftOut
    /\ c.type = "file_hash" => c.expected # LeftOut
    /\ c.type \in {"element_exists", "api_readback"} => checked.observing
    /\ c.type = "api_readback" => c.resource \in {"github", "named"}
    /\ c.type \in {"file_exists", "file_hash", "element_exists", "api_readback"}
Contradicted(c) ==
    \/ atCheck[c.target] = Nothing
    \/ c.type # "file_exists" /\ c.expected # LeftOut /\ atCheck[c.target] # c.expected

(* An action whose change the engine could look at and did not find, or found *)
(* to be another, is failed, whatever its other checks lack.                  *)
ContradictionsFail ==
    checked.stage \in {"succeeded", "unverified"} =>
        \A i \in DOMAIN checked.checks : ~(CanLook(checked.checks[i]) /\ Contradicted(checked.checks[i]))

(* Success is reported only where some check looked and agreed, and a look that*)
(* contradicts it fails the action whatever the other checks could not see    *)
(* (verify_result, _aggregate).                                               *)
VerdictsAreSeen ==
    /\ SuccessWasSeen
    /\ ContradictionsFail
==============================================================================
