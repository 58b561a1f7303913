---------------------------- MODULE PolicyMatching ----------------------------
(* What a rule of the policy covers and which calls touch something           *)
(* sensitive.  Texts are sequences of characters, since what is in question   *)
(* is how patterns are read: "!a" stands for the class [!a], "\\" for the     *)
(* other separator, "var" for a variable of the policy file.                  *)
(*   src/vyomel/security/matching.py, src/vyomel/security/policy.py,          *)
(*   src/vyomel/security/capability.py                                        *)
EXTENDS Integers, FiniteSets, SequencesExt, Listing

CONSTANTS
    PolicyRules,      \* the documents of rules: [tool, workflow, args], args by parameter
    Variable,         \* what "var" stands for
    SensitivePaths,   \* escalation.sensitive_paths, as patterns
    SensitiveHosts,   \* escalation.sensitive_domains, as patterns
    PolicyRequests    \* the calls: [tool, workflow, parameters], sets of leaves
\* A leaf is [keys, text]: the keys and list items on the way to it.

VARIABLES reading     \* [stage, rule, request, covers, touches]
matchingVars == <<reading>>

------------------------------------------------------------------------------
(* Globs.                                                                     *)
FoldedChar == [c \in {"\\", "A", "B"} |-> CASE c = "\\" -> "/" [] c = "A" -> "a" [] OTHER -> "b"]
Normalized(text) ==
    [i \in DOMAIN text |-> IF text[i] \in DOMAIN FoldedChar THEN FoldedChar[text[i]] ELSE text[i]]

At(p, i, mark) == \A n \in DOMAIN mark : i + n - 1 \in DOMAIN p /\ p[i + n - 1] = mark[n]
Stars == <<"*", "*">>
Dirs == <<"*", "*", "/">>

\* Two stars and a separator match any beginning, a part of a name too.
BugAnyPrefix(p, i, text, t) ==
    CASE At(p, i, Stars) -> t .. Len(text)
      [] p[i] = "*" /\ ~At(p, i, Stars) -> {u \in t .. Len(text) : \A v \in t + 1 .. u : text[v] # "/"}
      [] p[i] = "?" -> {u \in {t + 1} \cap DOMAIN text : text[u] # "/"}
      [] p[i] = "!a" -> {u \in {t + 1} \cap DOMAIN text : text[u] # "a"}
      [] OTHER -> {u \in {t + 1} \cap DOMAIN text : text[u] = p[i]}

(* The longest mark first: two stars and a separator, two stars, one.         *)
MarkEnds(p, i) == i + (IF At(p, i, Dirs) THEN 3 ELSE IF At(p, i, Stars) THEN 2 ELSE 1)

(* Where the mark at place i of p may leave off that begins after place t of  *)
(* text.  A class is the regular expression's own, and so may be a separator. *)
Translate(p, i, text, t) ==
    CASE At(p, i, Dirs) -> {t} \cup {u \in t + 1 .. Len(text) : text[u] = "/"}
      [] At(p, i, Stars) /\ ~At(p, i, Dirs) -> t .. Len(text)
      [] p[i] = "*" /\ ~At(p, i, Stars) -> {u \in t .. Len(text) : \A v \in t + 1 .. u : text[v] # "/"}
      [] p[i] = "?" -> {u \in {t + 1} \cap DOMAIN text : text[u] # "/"}
      [] p[i] = "!a" -> {u \in {t + 1} \cap DOMAIN text : text[u] # "a"}
      [] OTHER -> {u \in {t + 1} \cap DOMAIN text : text[u] = p[i]}

(* After which places of text the rest of it fits what p says from place i on.*)
Whole(text, p) ==
    LET fits[i \in 1 .. Len(p) + 1] ==
            IF i > Len(p) THEN {Len(text)}
            ELSE LET on == fits[MarkEnds(p, i)]
                 IN  {t \in 0 .. Len(text) : Translate(p, i, text, t) \cap on # {}}
    IN  0 \in fits[1]

Pieces(text, mark) ==
    LET cuts == Ascending({0, Len(text) + 1} \cup {i \in DOMAIN text : text[i] = mark})
    IN  [n \in 1 .. Len(cuts) - 1 |-> SubSeq(text, cuts[n] + 1, cuts[n + 1] - 1)]

(* A pattern without a separator is tried on the last segment, too.           *)
GlobMatch(value, pattern) ==
    LET text == Normalized(value)
        p == Normalized(pattern)
    IN  \/ Whole(text, p)
        \/ "/" \notin Range(p) /\ Whole(Last(Pieces(text, "/")), p)

AnyMatch(value, patterns) == \E p \in patterns : GlobMatch(value, p)

(* Hosts, without the dots they may end in.                                   *)
Bare(host) ==
    LET kept == {n \in 0 .. Len(host) : \A i \in n + 1 .. Len(host) : host[i] = "."}
    IN  SubSeq(Normalized(host), 1, CHOOSE n \in kept : \A m \in kept : n <= m)
EndsIn(s, end) == Len(end) <= Len(s) /\ SubSeq(s, Len(s) - Len(end) + 1, Len(s)) = end
DomainMatch(host, pattern) ==
    LET h == Bare(host)
        p == Bare(pattern)
    IN  IF At(p, 1, <<"*", ".">>)
        THEN EndsIn(h, Tail(p)) /\ h # Tail(Tail(p))
        ELSE h = p

------------------------------------------------------------------------------
(* Rules.                                                                     *)
Unnamed == <<>>

Substitute(pattern) ==
    FlattenSeq([i \in DOMAIN pattern |-> IF pattern[i] = "var" THEN Variable ELSE <<pattern[i]>>])

(* A rule that asks for nothing is refused, and the file with it.             *)
IsEmpty(doc) == doc.tool = Unnamed /\ doc.workflow = Unnamed /\ doc.args = <<>>
ParseMatch(doc) ==
    [tool |-> doc.tool, workflow |-> doc.workflow,
     args |-> [key \in DOMAIN doc.args |-> {Substitute(p) : p \in doc.args[key]}]]

(* A parameter that is absent, or is no text, is covered by nothing, and a    *)
(* call of no workflow by no rule about one.                                  *)
Covers(rule, request) ==
    /\ rule.tool # Unnamed => GlobMatch(request.tool, rule.tool)
    /\ rule.workflow # Unnamed =>
          request.workflow # Unnamed /\ GlobMatch(request.workflow, rule.workflow)
    /\ \A key \in DOMAIN rule.args : \E leaf \in request.parameters :
          leaf.keys = <<key>> /\ AnyMatch(leaf.text, rule.args[key])

------------------------------------------------------------------------------
(* Sensitive calls: every text of the parameters, down to six levels, under   *)
(* the nearest key; an item of a list is under the list's key.                *)
PathKeys == {"path", "src", "dest"}
Deepest == 6
NearestKey(keys) ==
    keys[CHOOSE n \in DOMAIN keys : keys[n] # "item" /\ \A m \in n + 1 .. Len(keys) : keys[m] = "item"]

HostOf(text) ==
    LET marks == {i \in DOMAIN text : At(text, i, <<":", "/", "/">>)}
    IN  IF marks = {} THEN <<>>
        ELSE Head(Pieces(SubSeq(text, 3 + CHOOSE i \in marks : \A j \in marks : i <= j, Len(text)), "/"))

Walk(request) == {leaf \in request.parameters : Len(leaf.keys) <= Deepest}
TouchesSensitive(request) ==
    \E leaf \in Walk(request) :
        \/ NearestKey(leaf.keys) \in PathKeys /\ AnyMatch(leaf.text, SensitivePaths)
        \/ HostOf(leaf.text) # <<>> /\ \E p \in SensitiveHosts : DomainMatch(HostOf(leaf.text), p)

(* What is assumed of a policy file: two stars are a whole part of a path, as *)
(* the table of matching.py has them, and a class stands in the names of      *)
(* tools and workflows only, which have no separators.                        *)
IsName(text) == text \in Seq(STRING) /\ \A i \in DOMAIN text : text[i] \notin {"/", "\\"}
WellMarked(pattern) ==
    /\ pattern \in Seq(STRING)
    /\ LET parts == Pieces(Normalized(pattern), "/") IN
       \A n \in DOMAIN parts : parts[n] = Stars \/ \A i \in DOMAIN parts[n] : ~At(parts[n], i, Stars)
IsPathPattern(pattern) == WellMarked(pattern) /\ \A i \in DOMAIN pattern : pattern[i] # "!a"

ASSUME MatchingAssumption ==
    /\ \A doc \in PolicyRules :
          /\ doc.tool # Unnamed => WellMarked(doc.tool)
          /\ doc.workflow # Unnamed => WellMarked(doc.workflow)
          /\ \A key \in DOMAIN doc.args : \A p \in doc.args[key] : IsPathPattern(Substitute(p))
    /\ \A p \in SensitivePaths : IsPathPattern(p)
    /\ SensitiveHosts \subseteq Seq(STRING)
    /\ \A request \in PolicyRequests :
          /\ IsName(request.tool) /\ IsName(request.workflow)
          /\ \A leaf \in request.parameters :
                leaf.text \in Seq(STRING) /\ leaf.keys \in Seq(STRING) \ {<<>>} /\ Head(leaf.keys) # "item"

------------------------------------------------------------------------------
Unread == [stage |-> "none"]
MatchingInit == reading = Unread

(* The policy is read, once ...                                               *)
ReadRule(doc) ==
    /\ reading = Unread
    /\ reading' = IF IsEmpty(doc) THEN [stage |-> "refused"]
                  ELSE [stage |-> "read", doc |-> doc, rule |-> ParseMatch(doc)]

(* ... and calls are judged by it.                                            *)
JudgeCall(request) ==
    /\ reading.stage = "read"
    /\ reading' = [stage |-> "judged", doc |-> reading.doc, rule |-> reading.rule, request |-> request,
                   covers |-> Covers(reading.rule, request), touches |-> TouchesSensitive(request)]

MatchingNext ==
    \/ \E doc \in PolicyRules : ReadRule(doc)
    \/ \E request \in PolicyRequests : JudgeCall(request)

MatchingSpec == MatchingInit /\ [][MatchingNext]_matchingVars

------------------------------------------------------------------------------
(* The table of matching.py, segment by segment: a star and a question mark   *)
(* stay inside a segment, two stars alone are any number of directories, and  *)
(* at the end everything strictly below.                                      *)
SegmentMeans(name, marks) ==
    LET rest[n \in 0 .. Len(marks)] ==
            IF n = 0 THEN {Len(name)}
            ELSE LET mark == marks[Len(marks) - n + 1]
                     on == rest[n - 1]
                 IN  {t \in 0 .. Len(name) :
                        IF mark = "*" THEN \E u \in t .. Len(name) : u \in on
                        ELSE /\ t < Len(name) /\ t + 1 \in on
                             /\ mark \in {"?", name[t + 1]} \/ (mark = "!a" /\ name[t + 1] # "a")}
    IN  0 \in rest[Len(marks)]
PathMeans(names, parts) ==
    LET rest[n \in 0 .. Len(parts)] ==
            IF n = 0 THEN {Len(names) + 1}
            ELSE LET part == parts[Len(parts) - n + 1]
                     on == rest[n - 1]
                 IN  {k \in 1 .. Len(names) :
                        IF part = Stars THEN n = 1 \/ \E l \in k .. Len(names) : l \in on
                        ELSE SegmentMeans(names[k], part) /\ k + 1 \in on}
    IN  1 \in rest[Len(parts)]
GlobMeans(value, pattern) ==
    LET names == Pieces(Normalized(value), "/")
        parts == Pieces(Normalized(pattern), "/")
    IN  PathMeans(IF Len(parts) = 1 THEN <<Last(names)>> ELSE names, parts)

(* A rule covers exactly the calls its patterns name segment by segment, in   *)
(* any spelling of a path: one directory, not its siblings and not the tree   *)
(* below it unless it says so; and never a call that lacks a parameter, or is *)
(* of no workflow, when the rule is about one (glob_match, Match.matches).    *)
CoversAsWritten ==
    reading.stage = "judged" =>
        (reading.covers <=>
            /\ reading.doc.tool # Unnamed => GlobMeans(reading.request.tool, reading.doc.tool)
            /\ reading.doc.workflow # Unnamed =>
                  /\ reading.request.workflow # Unnamed
                  /\ GlobMeans(reading.request.workflow, reading.doc.workflow)
            /\ \A key \in DOMAIN reading.doc.args :
                  \E leaf \in reading.request.parameters, p \in reading.doc.args[key] :
                      leaf.keys = <<key>> /\ GlobMeans(leaf.text, Substitute(p)))

(* A call touches something sensitive exactly when a path parameter, at most  *)
(* six levels down, names such a path, or any text is an address below such   *)
(* a domain: not the domain itself, nor one whose name merely ends alike      *)
(* (_touches_sensitive_resource, domain_match).                               *)
Labels(host) == Pieces(Bare(host), ".")
SensitiveIsFound ==
    reading.stage = "judged" =>
        (reading.touches <=>
            \E leaf \in reading.request.parameters :
                /\ Len(leaf.keys) <= Deepest
                /\ \/ /\ \E n \in DOMAIN leaf.keys :
                             /\ leaf.keys[n] \in PathKeys
                             /\ \A m \in n + 1 .. Len(leaf.keys) : leaf.keys[m] = "item"
                       /\ \E p \in SensitivePaths : GlobMeans(leaf.text, p)
                   \/ LET host == Labels(HostOf(leaf.text)) IN
                      HostOf(leaf.text) # <<>> /\ \E p \in SensitiveHosts :
                        LET named == Labels(p) IN
                        IF Len(named) > 1 /\ Head(named) = <<"*">>
                        THEN Len(host) >= Len(named) /\ EndsIn(host, Tail(named))
                        ELSE host = named)

(* Rules cover, and sensitive calls are found, as the table of marks reads.   *)
RulesReadAsWritten ==
    /\ CoversAsWritten
    /\ SensitiveIsFound
=============================================================================
