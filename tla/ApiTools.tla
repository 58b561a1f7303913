------------------------------ MODULE ApiTools ------------------------------
(* Mail, calendar and issue tools on the in-process service that backs them. *)
(* Each worker process has a service of its own for a task: an action handed  *)
(* out again may run where it ran before, or where nothing of it is known.    *)
EXTENDS Naturals, FiniteSets

CONSTANTS
    ApiProcesses,  \* worker processes
    ApiActions,
    Hours,         \* times of a day are 0..Hours
    Opens, Closes, \* the window find_free searches
    MaxRepeats     \* leases that lapse and processes that restart

ASSUME ApiAssumption ==
    /\ Hours \in Nat /\ MaxRepeats \in Nat
    /\ Opens \in 0..Hours /\ Closes \in Opens..Hours

VARIABLES
    drafts,   \* drafts[w]: the drafts of a process' service
    sent,     \* sent[w]: its sent messages, each with the run that sent it
    events,   \* events[w]: its calendar
    issues,   \* issues[w]: its issues and their comments
    apiCall,  \* what each action does
    apiStage, \* new, made at a process, done or failed
    apiRuns,  \* how often it has run
    repeats

apiVars == <<drafts, sent, events, issues, apiCall, apiStage, apiRuns, repeats>>

(* What a run makes is named for it; the seeded issue has number 1. *)
RunOf(a) == <<a, apiRuns[a] + 1>>
SeededIssue == [number |-> 1, by |-> <<"seed", 1>>, comments |-> {}]

Intervals == {i \in [start: 0..Hours, end: 0..Hours] : i.start < i.end}
ApiCalls ==
    {[tool |-> t] : t \in {"draft", "send", "create_issue"}} \cup
    [tool: {"send_draft", "delete_event"}, id: ApiActions] \cup
    [tool: {"create_event"}, at: Intervals] \cup
    [tool: {"comment"}, number: 1..2]

ApiInit ==
    /\ drafts = [w \in ApiProcesses |-> {}] /\ sent = [w \in ApiProcesses |-> {}]
    /\ events = [w \in ApiProcesses |-> {}] /\ issues = [w \in ApiProcesses |-> {SeededIssue}]
    /\ apiCall = [a \in ApiActions |-> [tool |-> "none"]]
    /\ apiStage = [a \in ApiActions |-> "new"] /\ apiRuns = [a \in ApiActions |-> 0]
    /\ repeats = 0

-----------------------------------------------------------------------------
(* A later action names what an earlier one has answered: its first run's.   *)
Named(c) == <<c.id, 1>>

Runs(a, c) ==
    /\ apiStage[a] = "new" /\ apiCall[a] \in {[tool |-> "none"], c}
    /\ apiCall' = [apiCall EXCEPT ![a] = c]
    /\ apiRuns' = [apiRuns EXCEPT ![a] = @ + 1]
    /\ UNCHANGED repeats
MadeAt(a, w) == apiStage' = [apiStage EXCEPT ![a] = w]
Refused(a) == apiStage' = [apiStage EXCEPT ![a] = "failed"]

Draft(a, w, c) ==
    /\ c.tool = "draft" /\ MadeAt(a, w)
    /\ drafts' = [drafts EXCEPT ![w] = @ \cup {RunOf(a)}]
    /\ UNCHANGED <<sent, events, issues>>

(* A message that never was a draft; http.post is recorded alike. *)
SendNew(a, w, c) ==
    /\ c.tool = "send" /\ MadeAt(a, w)
    /\ sent' = [sent EXCEPT ![w] = @ \cup {[id |-> RunOf(a), by |-> RunOf(a)]}]
    /\ UNCHANGED <<drafts, events, issues>>

(* Sending a draft takes it out of the drafts; one that is not there is not  *)
(* found, and that is never retried.                                          *)
SendDraft(a, w, c) ==
    /\ c.tool = "send_draft" /\ UNCHANGED <<events, issues>>
    /\ IF Named(c) \in drafts[w]
       THEN /\ MadeAt(a, w)
            /\ drafts' = [drafts EXCEPT ![w] = @ \ {Named(c)}]
            /\ sent' = [sent EXCEPT ![w] = @ \cup {[id |-> Named(c), by |-> RunOf(a)]}]
       ELSE Refused(a) /\ UNCHANGED <<drafts, sent>>

CreateEvent(a, w, c) ==
    /\ c.tool = "create_event" /\ MadeAt(a, w)
    /\ events' = [events EXCEPT ![w] =
                    @ \cup {[id |-> RunOf(a), start |-> c.at.start, end |-> c.at.end]}]
    /\ UNCHANGED <<drafts, sent, issues>>

DeleteEvent(a, w, c) ==
    LET gone == {e \in events[w] : e.id = Named(c)} IN
    /\ c.tool = "delete_event" /\ UNCHANGED <<drafts, sent, issues>>
    /\ IF gone = {} THEN Refused(a) /\ UNCHANGED events
       ELSE MadeAt(a, w) /\ events' = [events EXCEPT ![w] = @ \ gone]

NextNumber(w) == 1 + CHOOSE n \in {i.number : i \in issues[w]} : \A i \in issues[w] : i.number <= n

CreateIssue(a, w, c) ==
    /\ c.tool = "create_issue" /\ MadeAt(a, w)
    /\ issues' = [issues EXCEPT ![w] =
                    @ \cup {[number |-> NextNumber(w), by |-> RunOf(a), comments |-> {}]}]
    /\ UNCHANGED <<drafts, sent, events>>

Comment(a, w, c) ==
    LET found == {i \in issues[w] : i.number = c.number} IN
    /\ c.tool = "comment" /\ UNCHANGED <<drafts, sent, events>>
    /\ IF found = {} THEN Refused(a) /\ UNCHANGED issues
       ELSE /\ MadeAt(a, w)
            /\ issues' = [issues EXCEPT ![w] = (@ \ found) \cup
                            {[i EXCEPT !.comments = @ \cup {RunOf(a)}] : i \in found}]

Perform(a, w, c) ==
    /\ Runs(a, c)
    /\ \/ Draft(a, w, c) \/ SendNew(a, w, c) \/ SendDraft(a, w, c)
       \/ CreateEvent(a, w, c) \/ DeleteEvent(a, w, c)
       \/ CreateIssue(a, w, c) \/ Comment(a, w, c)

(* No token, an event that ends before it starts, a host that is not allowed. *)
Denied(a, c) ==
    /\ Runs(a, c) /\ Refused(a)
    /\ UNCHANGED <<drafts, sent, events, issues>>

ApiRecorded(a) ==
    /\ apiStage[a] \in ApiProcesses /\ apiStage' = [apiStage EXCEPT ![a] = "done"]
    /\ UNCHANGED <<drafts, sent, events, issues, apiCall, apiRuns, repeats>>

(* The lease lapses before the outcome is stored, and with it goes the        *)
(* reservation of a tool that is not idempotent.                              *)
ApiLapse(a) ==
    /\ apiStage[a] \in ApiProcesses /\ repeats < MaxRepeats
    /\ repeats' = repeats + 1 /\ apiStage' = [apiStage EXCEPT ![a] = "new"]
    /\ UNCHANGED <<drafts, sent, events, issues, apiCall, apiRuns>>

(* The process ends and takes its service with it. *)
ProcessRestarts(w) ==
    /\ repeats < MaxRepeats /\ repeats' = repeats + 1
    /\ apiStage' = [a \in ApiActions |-> IF apiStage[a] = w THEN "new" ELSE apiStage[a]]
    /\ drafts' = [drafts EXCEPT ![w] = {}] /\ sent' = [sent EXCEPT ![w] = {}]
    /\ events' = [events EXCEPT ![w] = {}] /\ issues' = [issues EXCEPT ![w] = {SeededIssue}]
    /\ UNCHANGED <<apiCall, apiRuns>>

ApiNext ==
    \/ \E a \in ApiActions :
         \/ \E c \in ApiCalls :
              \/ \E w \in ApiProcesses : Perform(a, w, c)
              \/ Denied(a, c)
         \/ ApiRecorded(a) \/ ApiLapse(a)
    \/ \E w \in ApiProcesses : ProcessRestarts(w)

ApiSpec == ApiInit /\ [][ApiNext]_apiVars

-----------------------------------------------------------------------------
(* find_free walks the day: the earliest event that has not ended at the      *)
(* cursor either leaves room for the span or moves the cursor to its end.     *)
BugFirstEvent(busy, cursor) ==
    LET later == {e \in busy : e.start >= cursor}
    IN  IF later = {} THEN {} ELSE {CHOOSE e \in later : \A f \in later : e.start <= f.start}
NextEvent(busy, cursor) ==
    LET ahead == {e \in busy : e.end > cursor}
    IN  IF ahead = {} THEN {} ELSE {CHOOSE e \in ahead : \A f \in ahead : e.start <= f.start}

(* One turn of the walk with left slots to find: later[c][n] are the slots    *)
(* that the walk from c on finds when n are left.                             *)
SlotsFrom(later, busy, span, cursor, left) ==
    LET blocking == {e \in NextEvent(busy, cursor) : cursor + span > e.start}
    IN  IF cursor + span > Closes \/ left = 0 THEN {}
        ELSE IF blocking = {} THEN {cursor} \cup later[cursor + span][left - 1]
        ELSE later[(CHOOSE e \in blocking : TRUE).end][left]

FindFree(busy, span, count) ==
    LET walk[cursor \in 0..Hours] ==
            [left \in 0..count |-> SlotsFrom(walk, busy, span, cursor, left)]
    IN  walk[Opens][count]

-----------------------------------------------------------------------------
(* No draft is sent twice by one service, however often the actions that name *)
(* it run, and a draft that was sent is a draft no more.                      *)
DraftsSentOnce ==
    \A w \in ApiProcesses :
        /\ \A m, n \in sent[w] : m.id = n.id => m = n
        /\ drafts[w] \cap {m.id : m \in sent[w]} = {}

(* Every issue of a service has its own number, so a comment reaches one.     *)
IssuesNumbered ==
    \A w \in ApiProcesses : \A i, j \in issues[w] : i.number = j.number => i = j

(* The slots found for a meeting are the first that fit: each starts at the   *)
(* earliest time after the one before it at which nothing of the calendar     *)
(* overlaps it, and fewer come back only when no other fits before closing.   *)
Fits(busy, t, span) ==
    t + span <= Closes /\ \A e \in busy : e.end <= t \/ e.start >= t + span
SlotsAreEarliest ==
    \A w \in {v \in ApiProcesses : events[v] # {}}, span \in 1..2, count \in 1..2 :
        LET slots == FindFree(events[w], span, count)
            free(from) == {t \in from..Hours : Fits(events[w], t, span)}
            after(S) == IF S = {} THEN Opens
                        ELSE span + CHOOSE t \in S : \A u \in S : u <= t
            before(s) == {t \in slots : t < s}
        IN  /\ \A s \in slots : s \in free(after(before(s)))
                                 /\ \A t \in free(after(before(s))) : s <= t
            /\ Cardinality(slots) <= count
            /\ Cardinality(slots) < count => free(after(slots)) = {}

(* In each process a draft is sent once however often its action is repeated, no*)
(* two issues share a number and comments reach theirs, and the slot found is *)
(* the earliest that is free (gmail, github and calendar services).           *)
ApiEffectsHold ==
    /\ DraftsSentOnce
    /\ IssuesNumbered
    /\ SlotsAreEarliest
=============================================================================
