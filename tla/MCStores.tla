------------------------------- MODULE MCStores -------------------------------
(* What outlives an action: the stores beside the engine, and the worlds the  *)
(* tools change.  Each is a part of its own: a behaviour picks one and takes  *)
(* only its steps.                                                            *)
EXTENDS AuditChain, WorkflowLearning, SemanticMemory, TokenVault, FileTools, GitTools, ApiTools,
        SurfaceSessions, MediaTools, PolicyEvaluation, Verification, Planning, WorkflowMining,
        Retrieval, PolicyMatching, TLC

CONSTANTS a1, a2, c1, c2, c3, d1, d2, p1, p2, p3, form, list

VARIABLE part

storesVars == <<part, auditVars, learningVars, memoryVars, vaultVars, fileVars, gitVars, apiVars,
                surfaceVars, mediaVars, policyVars, verifyVars, planVars,
                miningVars, retrievalVars, matchingVars>>

Capabilities == d1 :> 1 @@ d2 :> 3

------------------------------------------------------------------------------
(* Two pages: the form's second box has no label, its third is a password.    *)
(* One point lies in a heading and the box in it, on the list in nothing.     *)
Element(role, names, id, secret, labelled, over) ==
    [role |-> role, names |-> names, id |-> id, secret |-> secret, labelled |-> labelled, over |-> over]
PageElements ==
    form :> <<Element("heading", {"n1"}, "i0", FALSE, TRUE, {"q1"}),
              Element("textbox", {"n1", "n2"}, "i1", FALSE, FALSE, {"q1"}),
              Element("textbox", {"n2"}, "i2", TRUE, TRUE, {"q2"})>>
    @@ list :> <<Element("button", {"n2"}, "i2", FALSE, TRUE, {}),
                 Element("textbox", {"n1"}, "i1", TRUE, FALSE, {"q2"})>>
Target(role, name, id, ref, point) ==
    [role |-> role, name |-> name, id |-> id, ref |-> ref, point |-> point]
PageTargets ==
    { Target("textbox", "n2", Unset, 0, Unset), Target(Unset, "n1", "i2", 0, Unset),
      Target("button", Unset, "i1", 0, "q2"), Target(Unset, Unset, "i2", 0, Unset),
      Target(Unset, Unset, Unset, 3, Unset), Target(Unset, Unset, Unset, 0, "q1") }

(* Two takes; spans that begin and end inside words, and at their borders.    *)
Word(text, from, to, kinds) == [text |-> text, from |-> from, to |-> to, kinds |-> kinds]
Takes ==
    p1 :> Clip(4, <<Word("w1", 0, 1, {}), Word("w2", 1, 3, {"profanity"}),
                    Word("w3", 3, 4, {"filler"})>>, <<[from |-> 0, to |-> 1]>>, <<>>)
    @@ p2 :> Clip(3, <<Word("w4", 1, 2, {"profanity", "filler"})>>, <<>>, <<[from |-> 1, to |-> 2]>>)
TakeSpans == { <<0, 2>>, <<2, 4>>, <<1, 3>> }

(* A plain call, a tainted bulk one, and one of a tool without a base level;  *)
(* a policy with an allow default at L4 and a deny that expires, and one with *)
(* an allow rule for every level and the same id twice, which does not parse. *)
Call(tool, base, tainted, bulk) ==
    [tool |-> tool, base |-> base, vision |-> FALSE, tainted |-> tainted, bulk |-> bulk,
     sensitive |-> FALSE]
PolicyCalls ==
    { Call(a1, 0, FALSE, FALSE), Call(a1, 0, TRUE, TRUE), Call(a2, Unstated, FALSE, FALSE) }
PolicyRule(id, tools, limits, decision, expires) ==
    [id |-> id, tools |-> tools, limits |-> limits, decision |-> decision, expires |-> expires]
PolicyDocuments ==
    { [defaults |-> [l \in 0..4 |-> IF l \in 1..3 THEN "confirm" ELSE "allow"],
       rules |-> <<PolicyRule(1, {a1}, {2}, "allow", Unstated),
                   PolicyRule(2, {a1}, {}, "deny", 0)>>],
      [defaults |-> [l \in 0..1 |-> "allow"],
       rules |-> <<PolicyRule(1, {a2}, {}, "allow", Unstated),
                   PolicyRule(1, {a1}, {1}, "allow", Unstated)>>] }

Check(type, target, expected, resource) ==
    [type |-> type, target |-> target, expected |-> expected, resource |-> resource]
Checks ==
    { Check("value_equals", p1, c1, "other"), Check("file_exists", p1, c1, "other"),
      Check("file_hash", p1, c2, "other"), Check("file_hash", p2, c2, "other"),
      Check("element_exists", p3, LeftOut, "other"), Check("api_readback", p3, LeftOut, "github"),
      Check("api_readback", p3, c1, "calendar"), Check("api_readback", p3, c2, "named"),
      Check("llm_judge", LeftOut, LeftOut, "other") }

(* Two steps of three actions: as sketches every way to connect them, and as  *)
(* drafts every choice of calls, the last of which asks for what there is not.*)
Steps3 == [a \in Aliases |-> IF a = 3 THEN 2 ELSE 1]
CallLevels == c1 :> 0 @@ c2 :> 2 @@ c3 :> 5
Document(after, needs, calls) == [after |-> after, needs |-> needs, calls |-> calls]
Unordered == [s \in PlanSteps |-> {}]
Loose == [a \in Aliases |-> {}]
Differing == [a \in Aliases |-> IF a = 1 THEN c2 ELSE c1]
SketchDocs ==
    { Document(after, needs, Differing) :
        after \in [PlanSteps -> SUBSET PlanSteps], needs \in [Aliases -> SUBSET Aliases] }
DraftDocs ==
    { Document(after, Loose, calls) :
        after \in {Unordered, [Unordered EXCEPT ![2] = {1}]}, calls \in [Aliases -> {c1, c2, c3}] }
    \cup { Document(Unordered, [Loose EXCEPT ![1] = {0}], Differing) }
RepairDocs == { Document(Unordered, Loose, Differing) }

(* Three calls that differ in a value, a type or the plan they belong to, and *)
(* a run of four of which they are a part.                                    *)
Did(tool, value, number) == [tool |-> tool, args |-> (p1 :> value), plan |-> number]
RecurringRuns ==
    { <<Did(a1, v, 1), Did(a2, w, n), Did(a1, c1, 2)>> : v \in {c1, c2}, w \in {c1, d1}, n \in {1, 2} }
    \cup {<<Did(a1, c2, 1), Did(a2, c1, 1), Did(a1, c1, 2), Did(a2, c2, 2)>>}
ValueTypes == c1 :> "str" @@ c2 :> "str" @@ d1 :> "int"

(* Every text of up to five words, gaps and headings of two levels.           *)
HeadingLevels == "h1" :> 1 @@ "h2" :> 2
ShortTexts == UNION { [1..n -> {"word", "blank", "h1", "h2"}] : n \in 0..5 }
NearestChunks == <<3, 1, 4, 2>>
MatchingChunks == <<2, 3>>

(* Paths of up to three of three names, in two spellings, as a parameter or   *)
(* deep inside one; addresses around a sensitive domain; and rules with each  *)
(* mark, one of them about a directory the policy file names by a variable.   *)
Chars == << <<"a">>, <<"b">>, <<"a", "b">> >>
Joined(names) == FoldLeft(LAMBDA path, n : path \o <<"/">> \o Chars[n], Chars[Head(names)], Tail(names))
PlainPaths == {Joined(names) : names \in UNION {[1..n -> 1..3] : n \in 1..3}}
OtherSpelling(path) ==
    [i \in DOMAIN path |-> CASE path[i] = "/" -> "\\" [] path[i] = "a" -> "A" [] OTHER -> path[i]]
Url(host) == <<"a", ":", "/", "/">> \o host \o <<"/", "b">>
Hosts == { <<"a", ".", "b">>, <<"b">>, <<"a", "b">>, <<"B", ".", "a", ".", "b">>, <<"A">> }
Leaf(keys, text) == [keys |-> keys, text |-> text]
Deep(n) == <<"path">> \o [i \in 1..n |-> "item"]
Judge(tool, workflow, keys, text) ==
    [tool |-> tool, workflow |-> workflow, parameters |-> {Leaf(keys, text)}]
JudgedCalls ==
    {Judge(<<"a", ".", "b">>, Unnamed, <<"path">>, t) :
        t \in PlainPaths \cup {OtherSpelling(path) : path \in PlainPaths}}
    \cup {Judge(t, Unnamed, keys, <<"b", "/", "b">>) :
        t \in {<<"a">>, <<"b", ".", "b">>},
        keys \in {<<"note">>, <<"dest">>, <<"note", "dest">>, Deep(5), Deep(6), <<"path", "note">>}}
    \cup {Judge(<<"b">>, Unnamed, <<"note">>, Url(h)) : h \in Hosts}
    \cup {Judge(<<"a", ".", "b">>, flow, <<"path">>, <<"a", "/", "b">>) :
        flow \in {<<"a">>, <<"a", "b">>, <<"b", "a">>}}
RuleOf(tool, workflow, args) == [tool |-> tool, workflow |-> workflow, args |-> args]
MatchedRules ==
    { RuleOf(<<"a", ".", "*">>, Unnamed, "path" :> {<<"var", "/", "*", "*">>}),
      RuleOf(Unnamed, Unnamed, "path" :> {<<"a", "/", "*">>, <<"a", "/", "?", "/", "B">>}),
      RuleOf(Unnamed, Unnamed, "path" :> {<<"*", "*", "/", "b">>}),
      RuleOf(Unnamed, <<"a", "?">>, "path" :> {<<"*", "b">>}),
      RuleOf(Unnamed, <<"a", "*">>, <<>>),
      RuleOf(Unnamed, Unnamed, "path" :> {<<"*", "b">>}),
      RuleOf(<<"?", ".", "b">>, Unnamed,
          "path" :> {<<"a", "\\", "*", "*", "/", "b">>} @@ "dest" :> {<<"*", "*">>}),
      RuleOf(<<"!a", ".", "*">>, Unnamed, <<>>),
      RuleOf(Unnamed, Unnamed, <<>>) }
VariablePath == <<"a", "/", "b">>
PathsWatched == {<<"*", "*", "/", "b", "/", "b">>, <<"*", "*", "/", "a", "b">>}
HostsWatched == {<<"*", ".", "b">>, <<"a", ".">>}

------------------------------------------------------------------------------
Init ==
    /\ part \in {"audit", "learning", "memory", "vault", "files", "git", "api", "surface", "media",
                 "policy", "verify", "plans", "mining", "retrieval", "matching"}
    /\ AuditInit /\ LearningInit /\ MemoryInit /\ VaultInit /\ FilesInit /\ GitInit /\ ApiInit
    /\ SurfaceInit /\ MediaInit /\ PolicyInit /\ VerifyInit /\ PlanningInit
    /\ MiningInit /\ RetrievalInit /\ MatchingInit

Stays(p) ==
    /\ part = p /\ UNCHANGED part
    /\ p # "audit" => UNCHANGED auditVars
    /\ p # "learning" => UNCHANGED learningVars
    /\ p # "memory" => UNCHANGED memoryVars
    /\ p # "vault" => UNCHANGED vaultVars
    /\ p # "files" => UNCHANGED fileVars
    /\ p # "git" => UNCHANGED gitVars
    /\ p # "api" => UNCHANGED apiVars
    /\ p # "surface" => UNCHANGED surfaceVars
    /\ p # "media" => UNCHANGED mediaVars
    /\ p # "policy" => UNCHANGED policyVars
    /\ p # "verify" => UNCHANGED verifyVars
    /\ p # "plans" => UNCHANGED planVars
    /\ p # "mining" => UNCHANGED miningVars
    /\ p # "retrieval" => UNCHANGED retrievalVars
    /\ p # "matching" => UNCHANGED matchingVars

Next ==
    \/ Stays("audit") /\ AuditNext
    \/ Stays("learning") /\ LearningNext
    \/ Stays("memory") /\ MemoryNext
    \/ Stays("vault") /\ VaultNext
    \/ Stays("files") /\ FilesNext
    \/ Stays("git") /\ GitNext
    \/ Stays("api") /\ ApiNext
    \/ Stays("surface") /\ SurfaceNext
    \/ Stays("media") /\ MediaNext
    \/ Stays("policy") /\ PolicyNext
    \/ Stays("verify") /\ VerifyNext
    \/ Stays("plans") /\ PlanningNext
    \/ Stays("mining") /\ MiningNext
    \/ Stays("retrieval") /\ RetrievalNext
    \/ Stays("matching") /\ MatchingNext

Spec == Init /\ [][Next]_storesVars
===============================================================================
