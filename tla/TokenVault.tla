------------------------------ MODULE TokenVault ------------------------------
(* The OAuth tokens of one machine: command lines log in and out, workers'    *)
(* tools read a token and rotate it when it has expired. The keyring keeps an *)
(* entry per account and an index of accounts; the file store rewrites one    *)
(* file. Every process has a store object, and so a lock, of its own.         *)
EXTENDS Naturals, FiniteSets

CONSTANTS
    Processes,  \* command lines and workers
    Accounts,   \* provider and account name
    MaxIssued,  \* tokens; token n is the n-th that was issued
    MaxCrashes  \* processes that die between two steps

ASSUME VaultAssumption == MaxIssued \in Nat /\ MaxCrashes \in Nat

VARIABLES
    kind,     \* the configured backend
    stored,   \* stored[a]: the token of account a, 0 when there is none
    listed,   \* the keyring's index
    json,     \* what parses: "whole", "empty" after it was opened, or "mixed"
    expired,  \* tokens past their hour
    issued,   \* tokens issued so far
    process,  \* process[p]: what it is doing, and what it has loaded
    crashes,
    held,     \* history: the tokens when they could last be read
    spoiled   \* history: a death or an overlap left the file as it is

vaultVars == <<kind, stored, listed, json, expired, issued, process, crashes, held, spoiled>>
past == <<held, spoiled>>

NoWork == [step |-> "none", account |-> {}, token |-> 0, loaded |-> {}]
Empty == [a \in Accounts |-> 0]

VaultInit ==
    /\ kind = "unset" /\ stored = Empty /\ listed = {} /\ json = "whole"
    /\ held = Empty /\ spoiled = FALSE
    /\ expired = {} /\ issued = 0 /\ crashes = 0
    /\ process = [p \in Processes |-> NoWork]

Install(k) ==
    /\ kind = "unset" /\ kind' = k
    /\ UNCHANGED <<stored, listed, json, expired, issued, process, crashes, past>>

Expires(n) ==
    /\ n \in 1..issued /\ expired' = expired \cup {n} /\ expired' # expired
    /\ UNCHANGED <<kind, stored, listed, json, issued, process, crashes, past>>

-----------------------------------------------------------------------------
Does(p, a) == process[p].account = {a}
Readable == json = "whole"
FirstStep == IF kind = "keyring" THEN "set" ELSE "load"

(* Login issues a token; so does a tool that finds an expired one. A missing  *)
(* token, or a file that does not parse, is an error to whoever reads it.     *)
Begin(p, a, step, token) ==
    /\ kind # "unset" /\ process[p] = NoWork
    /\ process' = [process EXCEPT ![p] =
                    [NoWork EXCEPT !.step = step, !.account = {a}, !.token = token]]
    /\ UNCHANGED <<kind, stored, listed, json, expired, crashes, past>>

Login(p, a) ==
    /\ issued < MaxIssued /\ issued' = issued + 1
    /\ Begin(p, a, FirstStep, issued')

NeedsRotation(a) == stored[a] \in expired
UseToken(p, a) ==
    /\ Readable /\ stored[a] # 0 /\ NeedsRotation(a)
    /\ issued < MaxIssued /\ issued' = issued + 1
    /\ Begin(p, a, FirstStep, issued')

Logout(p, a) == Readable /\ stored[a] # 0 /\ Begin(p, a, FirstStep, 0) /\ UNCHANGED issued

-----------------------------------------------------------------------------
(* The keyring: the entry, then the index read, then the index written when   *)
(* the account has to be added to it, or always when it is taken out.         *)
SetEntry(p, a) ==
    /\ process[p].step = "set" /\ Does(p, a)
    /\ stored' = [stored EXCEPT ![a] = process[p].token] /\ held' = stored'
    /\ process' = [process EXCEPT ![p].step = "index"]
    /\ UNCHANGED <<kind, listed, json, expired, issued, crashes, spoiled>>

ReadIndex(p) ==
    /\ process[p].step = "index"
    /\ process' = [process EXCEPT ![p].step = "list", ![p].loaded = listed]
    /\ UNCHANGED <<kind, stored, listed, json, expired, issued, crashes, past>>

Reindexed(p) ==
    IF process[p].token = 0 THEN process[p].loaded \ process[p].account
    ELSE IF process[p].account \subseteq process[p].loaded THEN listed
    ELSE process[p].loaded \cup process[p].account

WriteIndex(p) ==
    /\ process[p].step = "list"
    /\ listed' = Reindexed(p)
    /\ process' = [process EXCEPT ![p] = NoWork]
    /\ UNCHANGED <<kind, stored, json, expired, issued, crashes, past>>

(* The file: all of it loaded, emptied by the opening of write_text, and      *)
(* written with the one change.  Nothing is written for an account to be      *)
(* taken out that is not there.                                               *)
LoadFile(p) ==
    /\ process[p].step = "load"
    /\ process' = [process EXCEPT ![p] =
         IF ~Readable \/ (@.token = 0 /\ \A a \in @.account : stored[a] = 0) THEN NoWork
         ELSE [@ EXCEPT !.step = "truncate", !.loaded = {stored}]]
    /\ UNCHANGED <<kind, stored, listed, json, expired, issued, crashes, past>>

Truncate(p) ==
    /\ process[p].step = "truncate"
    /\ stored' = Empty /\ json' = "empty"
    /\ process' = [process EXCEPT ![p].step = "write"]
    /\ UNCHANGED <<kind, listed, expired, issued, crashes, past>>

BugWritesOwn(p, tokens) == [a \in Accounts |-> IF Does(p, a) THEN process[p].token ELSE 0]
Changed(p, tokens) == [a \in Accounts |-> IF Does(p, a) THEN process[p].token ELSE tokens[a]]

(* Over what another has written since, the shorter of the two leaves a tail  *)
(* of the longer.                                                             *)
WriteFile(p) ==
    /\ process[p].step = "write"
    /\ json' \in {"whole"} \cup (IF json = "empty" THEN {} ELSE {"mixed"})
    /\ \E tokens \in process[p].loaded :
         /\ stored' = IF json' = "whole" THEN Changed(p, tokens) ELSE Empty
         /\ held' = IF json' = "whole" THEN stored' ELSE held
    /\ spoiled' = (json' # "whole")
    /\ process' = [process EXCEPT ![p] = NoWork]
    /\ UNCHANGED <<kind, listed, expired, issued, crashes>>

Dies(p) ==
    /\ process[p] # NoWork /\ crashes < MaxCrashes /\ crashes' = crashes + 1
    /\ process' = [process EXCEPT ![p] = NoWork]
    /\ spoiled' = (spoiled \/ (process[p].step = "write" /\ ~Readable))
    /\ UNCHANGED <<kind, stored, listed, json, expired, issued, held>>

-----------------------------------------------------------------------------
VaultNext ==
    \/ \E k \in {"file", "keyring"} : Install(k)
    \/ \E n \in 1..MaxIssued : Expires(n)
    \/ \E p \in Processes :
         \/ \E a \in Accounts : Login(p, a) \/ UseToken(p, a) \/ Logout(p, a) \/ SetEntry(p, a)
         \/ ReadIndex(p) \/ WriteIndex(p) \/ LoadFile(p) \/ Truncate(p) \/ WriteFile(p) \/ Dies(p)

VaultSpec == VaultInit /\ [][VaultNext]_vaultVars

-----------------------------------------------------------------------------
VaultTypeOK ==
    /\ stored \in [Accounts -> 0..issued] /\ held \in [Accounts -> 0..issued]
    /\ listed \subseteq Accounts
    /\ \A p \in Processes : process[p].token \in 0..issued
    /\ json # "whole" => kind = "file"

(* From one time they can be read to the next, the token of an account        *)
(* changes only to the one that was just issued, to none by its own logout,   *)
(* or back to what a process had loaded from the file before another changed  *)
(* it: no other account's login or rotation touches it.                       *)
TokensChangeByIntent ==
    [][\A a \in Accounts : held'[a] # held[a] =>
         \E p \in Processes :
            /\ process[p].step \in {"set", "write"}
            /\ process'[p].step \in {"none", "index"}
            /\ \/ Does(p, a) /\ held'[a] = process[p].token
               \/ \E tokens \in process[p].loaded : tokens # held /\ held'[a] = tokens[a]
      ]_vaultVars

(* What could last be read can be read now, unless a process is writing the   *)
(* file, or one died between emptying and writing it, or two wrote over one   *)
(* another.  These two lose the tokens of every account.                      *)
LossHasACause ==
    IF Readable THEN stored = held
    ELSE spoiled \/ \E p \in Processes : process[p].step = "write"

(* Whatever crashes and overlaps have left, an account whose login or logout  *)
(* has updated an index nobody else changed meanwhile is listed exactly when  *)
(* that left it a token.                                                      *)
IndexRepaired ==
    [][\A p \in Processes, a \in Accounts :
         process[p].step = "list" /\ Does(p, a) /\ process'[p] = NoWork /\ crashes' = crashes
         /\ process[p].loaded = listed
         => (a \in listed' <=> process[p].token # 0)]_vaultVars

(* Between two writes, two processes and a crash a token changes only as some *)
(* process meant it, or is lost with all others by a death or an overlap in   *)
(* the writing of the file; and the next operation on an account mends the    *)
(* index of accounts (KeyringTokenStore, FileTokenStore).                     *)
TokensAreKept ==
    /\ [](VaultTypeOK /\ LossHasACause)
    /\ TokensChangeByIntent
    /\ IndexRepaired
=============================================================================
