-------------------------- MODULE PolicyEvaluation ---------------------------
(* How a call is classified, how the policy file decides it, how a process    *)
(* keeps the policy in step with the file it re-reads, and the direct invoke  *)
(* that runs a call under that decision alone.  Levels are L0..L4 as 0..4.    *)
(*   src/vyomel/security/capability.py, src/vyomel/security/policy.py,        *)
(*   src/vyomel/orchestrator/tools.py                                         *)
EXTENDS Integers, Sequences, FiniteSets

CONSTANTS
    Calls,        \* the calls made, as what classification and rules see
    Documents,    \* the contents an editor gives the policy file
    Broken,       \* content that is not YAML, or not a policy
    Missing,      \* no file
    Unstated,        \* absent: a base level, a match, a default, an expiry
    MaxFileWrites,
    MaxInvokes

Levels == 0..4
Decisions == {"allow", "confirm", "deny"}

(* Levels, flags and decisions are what their parsers let through; whatever   *)
(* else a rule or a call says is only compared.                               *)
ASSUME PolicyAssumption ==
    /\ Unstated \notin Levels /\ Unstated \notin Decisions
    /\ \A call \in Calls :
         /\ call.base # Unstated => call.base \in Levels
         /\ \A flag \in {call.vision, call.tainted, call.bulk, call.sensitive} : flag \in BOOLEAN
    /\ \A doc \in Documents :
         /\ doc = [defaults |-> doc.defaults, rules |-> doc.rules]
         /\ \A level \in DOMAIN doc.defaults : doc.defaults[level] \in Decisions
         /\ doc.rules \in Seq({doc.rules[i] : i \in DOMAIN doc.rules})
         /\ \A i \in DOMAIN doc.rules :
              doc.rules[i].limits \subseteq Levels /\ doc.rules[i].decision \in Decisions

Strength == [allow |-> 0, confirm |-> 1, deny |-> 2, raises |-> 3]

VARIABLES
    policyFile,   \* [content, mtime, writing]: what is being written over it
    store,        \* [policy, stamp, seen]: seen is a stat not yet acted on
    today,        \* 0, then 1: a rule may expire in between
    invoke,       \* the direct call under way
    ledgerTrail,  \* the audit records committed, in order
    ran           \* the calls whose effect happened: [call, level, number]

policyVars == <<policyFile, store, today, invoke, ledgerTrail, ran>>

------------------------------------------------------------------------------
(* Classification: every rule may raise the level and none lowers it.         *)

Greater(m, n) == IF m > n THEN m ELSE n
RaisedBy(level, n) == IF level + n > 4 THEN 4 ELSE level + n

VisionMinimum == 2
TaintMinimum == 2
TaintLevels == 1
BulkLevels == 1
UnknownTool == 4

Classify(call) ==
    IF call.base = Unstated THEN UnknownTool
    ELSE LET seen == IF call.vision THEN Greater(call.base, VisionMinimum) ELSE call.base
             tainted == IF call.tainted
                        THEN Greater(RaisedBy(seen, TaintLevels), TaintMinimum) ELSE seen
             many == IF call.bulk THEN RaisedBy(tainted, BulkLevels) ELSE tainted
         IN  IF call.sensitive THEN 4 ELSE many

------------------------------------------------------------------------------
(* Parsing.  A document is [defaults, rules]: defaults maps some levels, a    *)
(* rule is [id, tools, limits, decision, expires], tools being the tools its  *)
(* patterns match and limits the levels it states as `level` or `max_level`.  *)

DenyAll == [defaults |-> [level \in Levels |-> "deny"], rules |-> <<>>]

ParseDefaults(defaults) ==
    [level \in Levels |->
        IF level = 4 /\ (4 \notin DOMAIN defaults \/ defaults[4] = "allow") THEN "confirm"
        ELSE IF level \in DOMAIN defaults THEN defaults[level] ELSE Unstated]

(* No id twice and no rule that matches every call.                           *)
WellFormed(rules) ==
    /\ \A i, j \in DOMAIN rules : rules[i].id = rules[j].id => i = j
    /\ \A i \in DOMAIN rules : rules[i].tools # Unstated

Load(content) ==
    IF content \in {Broken, Missing} \/ ~WellFormed(content.rules) THEN DenyAll
    ELSE [defaults |-> ParseDefaults(content.defaults), rules |-> content.rules]

------------------------------------------------------------------------------
(* Evaluation: the first deny that applies, then the first other rule that    *)
(* applies, then the default of the level, then deny.                         *)

Applies(rule, tool, level, day) ==
    /\ rule.expires # Unstated => day <= rule.expires
    /\ \A limit \in rule.limits : level <= limit
    /\ tool \in rule.tools

Checked(level, decision) == IF level = 4 /\ decision = "allow" THEN "raises" ELSE decision

Evaluate(policy, tool, level, day) ==
    LET applying == { i \in DOMAIN policy.rules : Applies(policy.rules[i], tool, level, day) }
        denying == { i \in applying : policy.rules[i].decision = "deny" }
        First(S) == CHOOSE i \in S : \A j \in S : i <= j
    IN  Checked(level,
            IF denying # {} THEN "deny"
            ELSE IF applying # {} THEN policy.rules[First(applying)].decision
            ELSE IF policy.defaults[level] # Unstated THEN policy.defaults[level]
            ELSE "deny")

------------------------------------------------------------------------------
(* The file and the process's copy of it.                                     *)

SizeOf(content) == IF content = Broken THEN 1 ELSE 2 + Len(content.rules)
Stamp == <<policyFile.mtime, SizeOf(policyFile.content)>>

Idle == [stage |-> "none"]

PolicyInit ==
    /\ policyFile = [content |-> Missing, mtime |-> 0, writing |-> Missing]
    /\ store = [policy |-> Unstated, stamp |-> Unstated, seen |-> Unstated]
    /\ today = 0
    /\ invoke = Idle
    /\ ledgerTrail = <<>>
    /\ ran = {}

Puts(content, writing) ==
    policyFile' = [content |-> content, mtime |-> policyFile.mtime + 1, writing |-> writing]

(* An editor replaces the file, removes it, or writes it over: then the file  *)
(* is for a while a prefix, one that does not parse or one that drops the     *)
(* last rules.                                                                *)
EditFile ==
    /\ policyFile.mtime < MaxFileWrites
    /\ \/ \E doc \in Documents : Puts(doc, Missing)
       \/ \E doc \in Documents : \E n \in 0 .. Len(doc.rules) - 1 :
             Puts([doc EXCEPT !.rules = SubSeq(@, 1, n)], doc)
       \/ \E doc \in Documents : Puts(Broken, doc)
       \/ policyFile.writing # Missing /\ Puts(policyFile.writing, Missing)
       \/ policyFile.content # Missing /\ Puts(Missing, Missing)
    /\ UNCHANGED <<store, today, invoke, ledgerTrail, ran>>

DayPasses ==
    /\ today = 0 /\ today' = 1
    /\ UNCHANGED <<policyFile, store, invoke, ledgerTrail, ran>>

(* PolicyStore.get in two reads: the stat, then the file when the stat is not *)
(* that of the copy.  A file that cannot be found denies and leaves the copy. *)
StatPolicy ==
    /\ invoke.stage = "arrived"
    /\ IF policyFile.content = Missing
       THEN /\ invoke' = [invoke EXCEPT !.stage = "decide", !.policy = DenyAll]
            /\ UNCHANGED store
       ELSE /\ store' = [store EXCEPT !.seen = Stamp]
            /\ invoke' = [invoke EXCEPT !.stage = "statted"]
    /\ UNCHANGED <<policyFile, today, ledgerTrail, ran>>

ReadPolicy ==
    /\ invoke.stage = "statted"
    /\ LET fresh == store.policy # Unstated /\ store.seen = store.stamp
           policy == IF fresh THEN store.policy ELSE Load(policyFile.content)
       IN  /\ store' = [policy |-> policy, stamp |-> store.seen, seen |-> Unstated]
           /\ invoke' = [invoke EXCEPT !.stage = "decide", !.policy = policy]
    /\ UNCHANGED <<policyFile, today, ledgerTrail, ran>>

------------------------------------------------------------------------------
(* DirectInvoker.invoke: the decision is in the audit trail before the tool   *)
(* runs, the outcome after.                                                   *)

Arrive(call) ==
    /\ invoke = Idle
    /\ Cardinality({ i \in DOMAIN ledgerTrail : ledgerTrail[i].event = "decided" }) < MaxInvokes
    /\ invoke' = [stage |-> "arrived", call |-> call, policy |-> DenyAll,
                  number |-> Len(ledgerTrail) + 1]
    /\ UNCHANGED <<policyFile, store, today, ledgerTrail, ran>>

Records(event, decision) ==
    ledgerTrail' = Append(ledgerTrail, [event |-> event, number |-> invoke.number,
                                        level |-> Classify(invoke.call), decision |-> decision])

\* The decision is committed with the outcome only.
BugCommitsLater ==
    /\ invoke.stage = "decide"
    /\ LET decision == Evaluate(invoke.policy, invoke.call.tool, Classify(invoke.call), today)
       IN  IF decision = "allow"
           THEN invoke' = [invoke EXCEPT !.stage = "run"] /\ UNCHANGED ledgerTrail
           ELSE invoke' = Idle /\ UNCHANGED ledgerTrail
    /\ UNCHANGED <<policyFile, store, today, ran>>

(* An evaluation that raises ends the request before anything is recorded.    *)
Decide ==
    /\ invoke.stage = "decide"
    /\ LET decision == Evaluate(invoke.policy, invoke.call.tool, Classify(invoke.call), today)
       IN  \/ /\ decision = "raises"
              /\ invoke' = Idle /\ UNCHANGED ledgerTrail
           \/ /\ decision = "allow"
              /\ Records("decided", decision)
              /\ invoke' = [invoke EXCEPT !.stage = "run"]
           \/ /\ decision \in {"confirm", "deny"}
              /\ Records("decided", decision)
              /\ invoke' = Idle
    /\ UNCHANGED <<policyFile, store, today, ran>>

RunTool ==
    /\ invoke.stage = "run"
    /\ ran' = ran \cup {[number |-> invoke.number, level |-> Classify(invoke.call)]}
    /\ invoke' = [invoke EXCEPT !.stage = "ran"]
    /\ UNCHANGED <<policyFile, store, today, ledgerTrail>>

(* The preflight refuses, or the tool fails before it has changed anything.   *)
ToolFails ==
    /\ invoke.stage = "run"
    /\ Records("error", "allow")
    /\ invoke' = Idle
    /\ UNCHANGED <<policyFile, store, today, ran>>

RecordOutcome ==
    /\ invoke.stage = "ran"
    /\ Records("ok", "allow")
    /\ invoke' = Idle
    /\ UNCHANGED <<policyFile, store, today, ran>>

(* The process dies: the copy of the policy and the request go with it.       *)
ProcessDies ==
    /\ invoke.stage \in {"run", "ran"}
    /\ invoke' = Idle
    /\ store' = [policy |-> Unstated, stamp |-> Unstated, seen |-> Unstated]
    /\ UNCHANGED <<policyFile, today, ledgerTrail, ran>>

PolicyNext ==
    \/ EditFile \/ DayPasses
    \/ \E call \in Calls : Arrive(call)
    \/ StatPolicy \/ ReadPolicy
    \/ Decide \/ RunTool \/ ToolFails \/ RecordOutcome \/ ProcessDies

PolicySpec == PolicyInit /\ [][PolicyNext]_policyVars

------------------------------------------------------------------------------
(* A call that is worse in any respect than another is never classified       *)
(* lower, whatever the order in which the rules raise it.                     *)
Shapes == [tool : {Unstated}, base : Levels, vision : BOOLEAN, tainted : BOOLEAN,
           bulk : BOOLEAN, sensitive : BOOLEAN]
NoWorse(c, d) ==
    /\ d.base # Unstated => c.base <= d.base
    /\ c.vision => d.vision
    /\ c.tainted => d.tainted
    /\ c.bulk => d.bulk
    /\ c.sensitive => d.sensitive
EscalationOnlyRaises ==
    invoke # Idle => \A c \in Shapes :
        NoWorse(c, invoke.call) => Classify(c) <= Classify(invoke.call)

(* Raising the level of a call never gets it a weaker decision, under every   *)
(* policy that states levels on its allow rules only and whose defaults grow  *)
(* with the level.                                                            *)
DefaultStrength(policy, level) ==
    IF policy.defaults[level] = Unstated THEN Strength["deny"] ELSE Strength[policy.defaults[level]]
Sensible(policy) ==
    /\ \A i \in DOMAIN policy.rules :
           policy.rules[i].decision # "allow" => policy.rules[i].limits = {}
    /\ \A l, m \in Levels : l <= m => DefaultStrength(policy, l) <= DefaultStrength(policy, m)
RaisingNeverWeakens ==
    LET policy == store.policy
    IN  policy # Unstated /\ Sensible(policy) =>
            \A c \in Calls, l, m \in Levels : l <= m =>
                Strength[Evaluate(policy, c.tool, l, today)] <=
                    Strength[Evaluate(policy, c.tool, m, today)]

(* An evaluation raises, and takes the scheduler's tick with it, only for a   *)
(* call at L4 that an allow rule without a lower level covers: no default     *)
(* does it, and no other rule.                                                *)
RaisesOnlyUnderUnscopedAllows ==
    store.policy # Unstated => \A c \in Calls, level \in Levels :
        Evaluate(store.policy, c.tool, level, today) = "raises" =>
            /\ level = 4
            /\ \E i \in DOMAIN store.policy.rules :
                   LET rule == store.policy.rules[i]
                   IN  rule.decision = "allow" /\ c.tool \in rule.tools /\ rule.limits \subseteq {4}

(* A copy that carries the file's stamp is the file's policy, whatever was    *)
(* written between the stat and the read.                                     *)
CopyIsCurrent ==
    store.policy # Unstated /\ store.seen = Unstated /\ policyFile.content # Missing =>
        (store.stamp = Stamp =>
            store.policy = Load(policyFile.content))

(* Whatever a direct invoke ran, an audit record that allows it was durable   *)
(* before, also when the process died on the way.                             *)
EffectsFollowRecords ==
    \A r \in ran : \E i \in DOMAIN ledgerTrail :
        /\ ledgerTrail[i].event = "decided" /\ ledgerTrail[i].number = r.number
        /\ ledgerTrail[i].decision = "allow" /\ ledgerTrail[i].level = r.level

(* Nothing at L4 is ever run without consent, whatever the file says.         *)
L4NeverRuns == \A r \in ran : r.level < 4

(* Raising the level of a call never weakens what is asked for it, nothing at *)
(* the highest level runs, the copy of a policy that decides is one the file  *)
(* held, and no tool runs before its decision is on record (classify, evaluate,*)
(* PolicyStore.get, DirectInvoker.invoke).                                    *)
PolicyHolds ==
    /\ EscalationOnlyRaises
    /\ RaisingNeverWeakens
    /\ RaisesOnlyUnderUnscopedAllows
    /\ CopyIsCurrent
    /\ EffectsFollowRecords
    /\ L4NeverRuns
==============================================================================
