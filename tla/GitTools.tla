------------------------------ MODULE GitTools ------------------------------
(* git.commit, its undo, and git.push, run by several workers in one          *)
(* repository: every git command is a process of its own, so commands of      *)
(* different actions interleave, and an action may be killed between two.     *)
EXTENDS Naturals, FiniteSets

CONSTANTS
    Committers,    \* actions that run git.commit; each stages a change of its own
    MaxCommits,    \* commits ever made
    MaxKills       \* deaths of workers in the middle of an action

ASSUME GitAssumption == MaxCommits \in Nat /\ MaxKills \in Nat

VARIABLES
    commits,     \* commits[n]: its parent, 0 for none, and what its tree holds
    head,        \* the commit the branch is at; 0 while it has none
    index,       \* the changes staged
    remote,      \* the commit the remote's branch is at
    gitStage,    \* how far each action is
    parentRead,  \* the head each action read first
    gitOutput,   \* its stored result
    window,      \* how many commits there were when it read its parent, when it ended,
                 \* and when its undo looked at the head
    overlapped,  \* the actions during whose run, or undo, somebody else moved the head
    rewound,     \* those during whose run, or undo, the head was moved by an undo
    kills

gitVars ==
    <<commits, head, index, remote, gitStage, parentRead, gitOutput, window, overlapped, rewound, kills>>

GitInit ==
    /\ commits = <<>> /\ head = 0 /\ index = {} /\ remote = 0
    /\ gitStage = [a \in Committers |-> "new"] /\ parentRead = [a \in Committers |-> 0]
    /\ gitOutput = [a \in Committers |-> [sha |-> 0, parent |-> 0]]
    /\ window = [a \in Committers |-> [from |-> 0, to |-> 0, looked |-> 0]]
    /\ overlapped = {} /\ rewound = {} /\ kills = 0

Commits == DOMAIN commits

(* The commits that n can reach, itself included. *)
Reach(cs, n) ==
    LET f[k \in 0..n] == IF k = 0 THEN {} ELSE {k} \cup f[cs[k].parent]
    IN  f[n]
Ancestry(n) == Reach(commits, n)

GitTo(a, s) == gitStage' = [gitStage EXCEPT ![a] = s]

Running == {a \in Committers : gitStage[a] \in {"read", "staged", "committed", "undoing"}}
MovesHead(a, n) ==
    /\ head' = n
    /\ overlapped' = IF n = head THEN overlapped ELSE overlapped \cup (Running \ {a})

ReadParent(a) ==
    /\ gitStage[a] = "new" /\ GitTo(a, "read")
    /\ parentRead' = [parentRead EXCEPT ![a] = head]
    /\ window' = [window EXCEPT ![a].from = Cardinality(Commits)]
    /\ overlapped' = overlapped \ {a} /\ rewound' = rewound \ {a}
    /\ UNCHANGED <<commits, head, index, remote, gitOutput, kills>>

StagePaths(a) ==
    /\ gitStage[a] = "read" /\ GitTo(a, "staged")
    /\ index' = index \cup {a}
    /\ UNCHANGED <<commits, head, remote, parentRead, gitOutput, window, overlapped, rewound, kills>>

(* commit takes the index as it is, whoever staged what is in it. *)
CommitIndex(a) ==
    /\ gitStage[a] = "staged" /\ GitTo(a, "committed")
    /\ Cardinality(Commits) < MaxCommits
    /\ LET n == Cardinality(Commits) + 1 IN
         /\ commits' = [k \in 1..n |-> IF k = n THEN [parent |-> head, by |-> a, holds |-> index]
                                       ELSE commits[k]]
         /\ MovesHead(a, n)
    /\ UNCHANGED <<index, remote, parentRead, gitOutput, window, rewound, kills>>

(* The result names whatever the branch is at when it is asked. *)
ReadSha(a) ==
    /\ gitStage[a] = "committed" /\ GitTo(a, "done")
    /\ gitOutput' = [gitOutput EXCEPT ![a] = [sha |-> head, parent |-> parentRead[a]]]
    /\ window' = [window EXCEPT ![a].to = Cardinality(Commits)]
    /\ UNCHANGED <<commits, head, index, remote, parentRead, overlapped, rewound, kills>>

(* Another process holds the index's or the head's lock, and nothing retries *)
(* a failed git; an undo that failed may be asked for again.                  *)
GitFails(a) ==
    /\ gitStage[a] \in {"read", "staged", "undoing"}
    /\ GitTo(a, IF gitStage[a] = "undoing" THEN "done" ELSE "failed")
    /\ \E b \in Running \ {a} : gitStage[b] \in {"read", "staged"}
    /\ UNCHANGED <<commits, head, index, remote, parentRead, gitOutput, window, overlapped, rewound, kills>>

(* The action, or its undo, runs again from the start. *)
CommitterKilled(a) ==
    /\ a \in Running /\ kills < MaxKills
    /\ kills' = kills + 1 /\ GitTo(a, IF gitStage[a] = "undoing" THEN "done" ELSE "new")
    /\ UNCHANGED <<commits, head, index, remote, parentRead, gitOutput, window, overlapped, rewound>>

(* The undo looks at the head, and leaves a branch that has moved on alone.   *)
BugForgetsToCompare(a) ==
    /\ gitStage[a] \in {"done", "undone"} /\ GitTo(a, "undoing")
    /\ window' = [window EXCEPT ![a].looked = Cardinality(Commits)]
    /\ UNCHANGED <<commits, head, index, remote, parentRead, gitOutput, overlapped, rewound, kills>>

UndoLooks(a) ==
    /\ gitStage[a] \in {"done", "undone"}
    /\ GitTo(a, IF head = gitOutput[a].sha THEN "undoing" ELSE "undone")
    /\ window' = [window EXCEPT ![a].looked = Cardinality(Commits)]
    /\ UNCHANGED <<commits, head, index, remote, parentRead, gitOutput, overlapped, rewound, kills>>

(* reset --soft, or update-ref -d when there was no parent: the index stays,  *)
(* and nobody looks again at what the branch is at by now.                    *)
UndoResets(a) ==
    /\ gitStage[a] = "undoing" /\ GitTo(a, "undone")
    /\ MovesHead(a, gitOutput[a].parent)
    /\ rewound' = IF head' = head THEN rewound ELSE rewound \cup (Running \ {a})
    /\ UNCHANGED <<commits, index, remote, parentRead, gitOutput, window, kills>>

(* The remote accepts a push that fast-forwards it. *)
Push ==
    /\ head # 0 /\ remote \in {0} \cup (Ancestry(head) \ {head})
    /\ remote' = head
    /\ UNCHANGED <<commits, head, index, gitStage, parentRead, gitOutput, window, overlapped, rewound, kills>>

GitNext ==
    \/ \E a \in Committers :
         \/ ReadParent(a) \/ StagePaths(a) \/ CommitIndex(a) \/ ReadSha(a)
         \/ GitFails(a) \/ CommitterKilled(a)
         \/ UndoLooks(a) \/ UndoResets(a)
    \/ Push

GitSpec == GitInit /\ [][GitNext]_gitVars

-----------------------------------------------------------------------------
Undoing(a) == gitStage[a] = "undoing" /\ gitStage'[a] = "undone"
Dropped == Ancestry(head) \ Ancestry(head')

(* An undo drops no commit made before its action read the parent and none    *)
(* made between the action's end and the undo's look: a later commit on the   *)
(* branch is left alone (git.py:125-129), unless it comes after the look. One *)
(* that another action made while this one ran goes with it, and where        *)
(* another undo moved the branch meanwhile nothing is promised.               *)
UndoDropsOnlyItsWindow ==
    [][\A a \in Committers : Undoing(a) /\ a \notin rewound =>
          \A n \in Dropped : \/ window[a].from < n /\ n <= window[a].to
                             \/ window[a].looked < n]_gitVars

(* The commit a result names holds the change the action was asked to commit, *)
(* when nobody else moved the head while it ran.                              *)
CommitHoldsItsPaths ==
    \A a \in Committers : gitStage[a] = "done" /\ a \notin overlapped =>
        a \in commits[gitOutput[a].sha].holds

(* When nobody else moved the head while the action or its undo ran, the undo *)
(* drops the commit it made and nothing else, and brings back no other one.   *)
UndoDropsOwnCommit ==
    [][\A a \in Committers : Undoing(a) /\ a \notin overlapped =>
          /\ Dropped = {gitOutput[a].sha} /\ commits[gitOutput[a].sha].by = a
          /\ Ancestry(head') \subseteq Ancestry(head)]_gitVars

(* A commit holds the paths it was asked for, and its undo drops nothing made *)
(* outside the action's run or behind the undo's look (git.commit).           *)
CommitsAreUndoneAlone ==
    /\ []CommitHoldsItsPaths
    /\ UndoDropsOnlyItsWindow
    /\ UndoDropsOwnCommit
=============================================================================
