------------------------------ MODULE FileTools ------------------------------
(* The tools that change the file system and the undo each promises: write,  *)
(* move, copy and delete, each a preparation (its checks and its backup) and *)
(* the change itself. Workers run them side by side, a worker may die in      *)
(* between or before its success is stored, and the action runs again.        *)
EXTENDS Naturals

CONSTANTS
    Paths,        \* paths of the sandbox; what is at p at first is called p
    Trees,        \* the paths that hold a directory at first
    Present,      \* the paths that hold anything at first
    FileActions,  \* actions; what a writes is called a
    Absent,       \* nothing is there
    EmptySlot,    \* the directory made for what a delete will take away
    MaxReruns     \* deaths of workers

ASSUME FileAssumption ==
    /\ Trees \subseteq Present /\ Present \subseteq Paths /\ MaxReruns \in Nat
    /\ Absent # EmptySlot /\ {Absent, EmptySlot} \cap (Paths \cup FileActions) = {}
    /\ Paths \cap FileActions = {}

VARIABLES
    tree,       \* tree[p]: what is at a path
    backup,     \* backup[a]: scratch/backups/<action>
    trash,      \* trash[a]: what is under trash/<action>
    call,       \* call[a]: the tool and its parameters
    stage,      \* how far the action is
    result,     \* result[a]: what the stored output says the undo needs
    before,     \* before[a]: the tree when a first ran
    disturbed,  \* the actions whose paths somebody else has changed since
    blind,      \* an action changed something after somebody disturbed it
    repeated,   \* the actions that ran again after their change was made
    reruns

fileVars == <<tree, backup, trash, call, stage, result, before, disturbed, blind, repeated, reruns>>

NoCall == [tool |-> "none", src |-> Absent, dest |-> Absent]
FileCalls ==
    [tool: {"write", "delete"}, src: Paths, dest: Paths] \cup
    {c \in [tool: {"move", "copy"}, src: Paths, dest: Paths] : c.src # c.dest}
OnePath(c) == c.tool \in {"write", "delete"} => c.src = c.dest

NoResult == [kept |-> FALSE, trashed |-> Absent]

FilesInit ==
    /\ tree = [p \in Paths |-> IF p \in Present THEN p ELSE Absent]
    /\ backup = [a \in FileActions |-> Absent] /\ trash = [a \in FileActions |-> Absent]
    /\ call = [a \in FileActions |-> NoCall] /\ stage = [a \in FileActions |-> "new"]
    /\ result = [a \in FileActions |-> NoResult]
    /\ before = [a \in FileActions |-> tree]
    /\ disturbed = {} /\ blind = FALSE /\ repeated = {} /\ reruns = 0

-----------------------------------------------------------------------------
IsTree(v) == v \in Trees \cup {EmptySlot}
Exists(p) == tree[p] # Absent

(* A file that is copied or moved onto a directory lands inside it. *)
Lands(p, v) == IF IsTree(tree[p]) THEN tree ELSE [tree EXCEPT ![p] = v]

(* Whoever's paths a change touches can no longer be put back as it was. *)
Touches(a, new) ==
    /\ tree' = new /\ blind' = (blind \/ a \in disturbed)
    /\ disturbed' = disturbed \cup
         {b \in FileActions \ {a} : call[b] # NoCall /\ stage[b] # "failed" /\
             \E p \in {call[b].src, call[b].dest} : new[p] # tree[p]}

To(a, s) == stage' = [stage EXCEPT ![a] = s]
Answers(a, kept, trashed) == result' = [result EXCEPT ![a] = [kept |-> kept, trashed |-> trashed]]
Same == UNCHANGED <<tree, disturbed, blind>>

(* The first run of an action fixes its parameters and what its undo owes.   *)
Starts(a, c) ==
    /\ stage[a] = "new" /\ call[a] \in {NoCall, c} /\ OnePath(c)
    /\ call' = [call EXCEPT ![a] = c]
    /\ before' = IF call[a] = NoCall THEN [before EXCEPT ![a] = tree] ELSE before
    /\ UNCHANGED <<repeated, reruns>>

Fails(a) == To(a, "failed") /\ Same /\ UNCHANGED <<backup, trash, result>>

Backed(a, p) ==
    /\ To(a, "saved") /\ Same /\ Answers(a, Exists(p), Absent)
    /\ backup' = IF Exists(p) THEN [backup EXCEPT ![a] = tree[p]] ELSE backup
    /\ UNCHANGED trash

PrepareWrite(a, c) ==
    /\ c.tool = "write" /\ Starts(a, c)
    /\ IF IsTree(tree[c.dest]) THEN Fails(a) ELSE Backed(a, c.dest)

(* The source gone and the destination there: the move has happened before.  *)
PrepareMove(a, c) ==
    /\ c.tool = "move" /\ Starts(a, c)
    /\ CASE ~Exists(c.src) /\ Exists(c.dest) ->
              To(a, "applied") /\ Same /\ Answers(a, FALSE, Absent) /\ UNCHANGED <<backup, trash>>
         [] (~Exists(c.src) /\ ~Exists(c.dest)) \/ (Exists(c.src) /\ IsTree(tree[c.dest])) -> Fails(a)
         [] OTHER -> Backed(a, c.dest)

PrepareCopy(a, c) ==
    /\ c.tool = "copy" /\ Starts(a, c)
    /\ IF ~Exists(c.src) \/ IsTree(tree[c.dest]) THEN Fails(a) ELSE Backed(a, c.dest)

(* A path that is gone while its slot is there has been deleted before.      *)
PrepareDelete(a, c) ==
    /\ c.tool = "delete" /\ Starts(a, c)
    /\ CASE ~Exists(c.src) /\ trash[a] # Absent ->
              To(a, "applied") /\ Same /\ Answers(a, FALSE, trash[a]) /\ UNCHANGED <<backup, trash>>
         [] ~Exists(c.src) /\ trash[a] = Absent -> Fails(a)
         [] OTHER ->
              /\ To(a, "saved") /\ Same /\ UNCHANGED <<backup, result>>
              /\ trash' = [trash EXCEPT ![a] = IF @ = Absent THEN EmptySlot ELSE @]

-----------------------------------------------------------------------------
Changing(a) ==
    /\ stage[a] = "saved"
    /\ UNCHANGED <<backup, call, before, repeated, reruns>>
Breaks(a) == To(a, "failed") /\ Same /\ UNCHANGED <<trash, result>>
Changes(a, new) == To(a, "applied") /\ Touches(a, new) /\ UNCHANGED <<trash, result>>

ApplyWrite(a) ==
    LET p == call[a].dest IN
    /\ Changing(a) /\ call[a].tool = "write"
    /\ IF IsTree(tree[p]) THEN Breaks(a) ELSE Changes(a, [tree EXCEPT ![p] = a])

ApplyMove(a) ==
    LET src == call[a].src
        dest == call[a].dest
        treeOntoFile == IsTree(tree[src]) /\ Exists(dest) /\ ~IsTree(tree[dest])
    IN
    /\ Changing(a) /\ call[a].tool = "move"
    /\ IF ~Exists(src) \/ treeOntoFile THEN Breaks(a)
       ELSE Changes(a, [Lands(dest, tree[src]) EXCEPT ![src] = Absent])

ApplyCopy(a) ==
    LET src == call[a].src
        dest == call[a].dest
    IN
    /\ Changing(a) /\ call[a].tool = "copy"
    /\ CASE ~Exists(src) \/ (IsTree(tree[src]) /\ IsTree(tree[dest])) -> Breaks(a)
         [] IsTree(tree[src]) /\ ~IsTree(tree[dest]) -> Changes(a, [tree EXCEPT ![dest] = tree[src]])
         [] OTHER -> Changes(a, Lands(dest, tree[src]))

ApplyDelete(a) ==
    LET p == call[a].src IN
    /\ Changing(a) /\ call[a].tool = "delete"
    /\ IF ~Exists(p) THEN Breaks(a)
       ELSE /\ To(a, "applied") /\ Touches(a, [tree EXCEPT ![p] = Absent])
            /\ trash' = [trash EXCEPT ![a] = tree[p]]
            /\ Answers(a, FALSE, tree[p])

-----------------------------------------------------------------------------
(* The worker dies, the lease lapses and the action is handed out again. *)
FileWorkerDies(a) ==
    /\ stage[a] \in {"saved", "applied"} /\ reruns < MaxReruns
    /\ reruns' = reruns + 1 /\ To(a, "new")
    /\ repeated' = IF stage[a] = "applied" THEN repeated \cup {a} ELSE repeated
    /\ UNCHANGED <<tree, backup, trash, call, result, before, disturbed, blind>>

FileRecorded(a) ==
    /\ stage[a] = "applied" /\ To(a, "done")
    /\ UNCHANGED <<tree, backup, trash, call, result, before, disturbed, blind, repeated, reruns>>

Undone(a, new) == To(a, "undone") /\ Touches(a, new) /\ UNCHANGED trash

UndoWrite(a) ==
    LET p == call[a].dest IN
    /\ call[a].tool = "write"
    /\ IF result[a].kept THEN Undone(a, Lands(p, backup[a]))
       ELSE ~IsTree(tree[p]) /\ Undone(a, [tree EXCEPT ![p] = Absent])

BugOverSource(a) ==
    LET src == call[a].src
        dest == call[a].dest
        back == IF Exists(dest) THEN [tree EXCEPT ![src] = tree[dest], ![dest] = Absent] ELSE tree
    IN
    /\ call[a].tool = "move"
    /\ Undone(a, IF result[a].kept THEN [back EXCEPT ![dest] = backup[a]] ELSE back)
UndoMove(a) ==
    LET src == call[a].src
        dest == call[a].dest
        back == IF Exists(dest) /\ ~Exists(src)
                THEN [tree EXCEPT ![src] = tree[dest], ![dest] = Absent] ELSE tree
    IN
    /\ call[a].tool = "move"
    /\ Undone(a, IF result[a].kept THEN [back EXCEPT ![dest] = backup[a]] ELSE back)

UndoCopy(a) ==
    /\ call[a].tool = "copy"
    /\ Undone(a, [tree EXCEPT ![call[a].dest] = IF result[a].kept THEN backup[a] ELSE Absent])

UndoDelete(a) ==
    LET p == call[a].src IN
    /\ call[a].tool = "delete" /\ To(a, "undone")
    /\ IF trash[a] = result[a].trashed /\ ~Exists(p)
       THEN /\ Touches(a, [tree EXCEPT ![p] = trash[a]])
            /\ trash' = [trash EXCEPT ![a] = IF @ = EmptySlot THEN Absent ELSE EmptySlot]
       ELSE Same /\ UNCHANGED trash

(* A cancelled task's success is undone; an undo that was not recorded is    *)
(* made again.                                                                *)
FileUndo(a) ==
    /\ stage[a] \in {"done", "undone"}
    /\ UndoWrite(a) \/ UndoMove(a) \/ UndoCopy(a) \/ UndoDelete(a)
    /\ UNCHANGED <<backup, call, result, before, repeated, reruns>>

PrepareFile(a, c) ==
    PrepareWrite(a, c) \/ PrepareMove(a, c) \/ PrepareCopy(a, c) \/ PrepareDelete(a, c)
ApplyFile(a) == ApplyWrite(a) \/ ApplyMove(a) \/ ApplyCopy(a) \/ ApplyDelete(a)

FilesNext ==
    \E a \in FileActions :
        \/ \E c \in FileCalls : PrepareFile(a, c)
        \/ ApplyFile(a) \/ FileWorkerDies(a) \/ FileRecorded(a) \/ FileUndo(a)

FilesSpec == FilesInit /\ [][FilesNext]_fileVars

-----------------------------------------------------------------------------
FileContents == Paths \cup FileActions \cup {Absent, EmptySlot}
FileStages == {"new", "saved", "applied", "done", "failed", "undone"}

FilesTypeOK ==
    /\ tree \in [Paths -> FileContents] /\ before \in [FileActions -> [Paths -> FileContents]]
    /\ backup \in [FileActions -> FileContents] /\ trash \in [FileActions -> FileContents]
    /\ call \in [FileActions -> FileCalls \cup {NoCall}]
    /\ stage \in [FileActions -> FileStages]
    /\ result \in [FileActions -> [kept: BOOLEAN, trashed: FileContents]]
    /\ disturbed \subseteq FileActions /\ blind \in BOOLEAN /\ repeated \subseteq FileActions /\ reruns \in 0..MaxReruns

PutBack(a) == \A p \in {call[a].src, call[a].dest} : tree[p] = before[a][p]
Undisturbed(a) ==
    /\ stage[a] = "undone" /\ a \notin disturbed
    /\ call[a].tool = "write" \/ before[a][call[a].src] # Absent

(* Undoing an action puts its paths back as they were before it first ran,   *)
(* when what it was to take was there and nobody else has changed them since *)
(* (fs.py:3-5). Refuted: an action that ran again backed up its own writing.  *)
UndoRestores == \A a \in FileActions : Undisturbed(a) => PutBack(a)

Overwrites(a) == call[a].tool # "delete" /\ before[a][call[a].dest] # Absent
Survives(a) == call[a].tool = "delete" \/ (call[a].tool = "move" /\ ~Overwrites(a))

(* It does put them back for an action whose change was made once, and for a *)
(* delete or a move to a free path however often it ran.                      *)
UndoneUnlessRepeated ==
    \A a \in FileActions : Undisturbed(a) /\ (a \notin repeated \/ Survives(a)) => PutBack(a)

(* While nothing runs twice and no action acts on what it saw before another *)
(* changed it, whatever was there at first is somewhere: in the tree, in the  *)
(* trash or in a backup.                                                      *)
Held(v) == \/ \E p \in Paths : tree[p] = v
           \/ \E a \in FileActions : v \in {backup[a], trash[a]}
OriginalsAreKept == reruns = 0 /\ ~blind => \A p \in Present : Held(p)

(* An undo that is made a second time changes nothing, unless somebody       *)
(* changed the paths in between.                                              *)
UndoTwiceIsOnce ==
    [][\A a \in FileActions :
          stage[a] = "undone" /\ stage'[a] = "undone" /\ a \notin disturbed /\ a \notin disturbed'
          /\ a \notin repeated
              => \A p \in {call[a].src, call[a].dest} : tree'[p] = tree[p]]_fileVars

(* Undoing a file action brings back what was there, once, and loses nobody's *)
(* file, unless another action wrote there in between or the action was replayed*)
(* (fs.copy, fs.move, fs.delete, fs.write and their compensations).           *)
UndoIsSafe ==
    /\ [](FilesTypeOK /\ UndoneUnlessRepeated /\ OriginalsAreKept)
    /\ UndoTwiceIsOnce
=============================================================================
