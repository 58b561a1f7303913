----------------------------- MODULE VoiceSession -----------------------------
(* One voice session: speech is played by a task of the event loop while the   *)
(* session's other requests -- listening, speaking, barging in -- come and go. *)
(* Each request runs without interruption up to its await; a cancelled task    *)
(* notices at its next turn, and its cleanup then runs.                        *)
EXTENDS Naturals, FiniteSets

CONSTANT MaxSpeeches  \* speeches, and the tasks that play them

ASSUME VoiceAssumption == MaxSpeeches \in Nat

VARIABLES
    state,    \* what the session says it is doing
    speak,    \* the task the session knows of, 0 when none
    task,     \* task[n]: the playback of the n-th speech
    waiting,  \* tasks a request is awaiting
    spoken    \* speeches so far

voiceVars == <<state, speak, task, waiting, spoken>>

VoiceInit ==
    /\ state = "idle" /\ speak = 0 /\ waiting = {} /\ spoken = 0
    /\ task = [n \in 1..MaxSpeeches |-> "none"]

Live == {n \in 1..MaxSpeeches : task[n] \in {"created", "playing"}}

(* Cancelling a task that never ran ends it without its cleanup. *)
BugForgetsTask(tasks) == tasks
CancelSpeak(tasks) ==
    [n \in DOMAIN tasks |->
        IF n = speak /\ tasks[n] = "created" THEN "done"
        ELSE IF n = speak /\ tasks[n] = "playing" THEN "cancelled" ELSE tasks[n]]

BargeIn ==
    /\ task' = CancelSpeak(task) /\ speak' = 0
    /\ state' = IF speak \in Live THEN "barge_in" ELSE state
    /\ UNCHANGED <<waiting, spoken>>

ResetSession ==
    /\ task' = CancelSpeak(task) /\ speak' = 0 /\ state' = "idle"
    /\ UNCHANGED <<waiting, spoken>>

(* New speech cancels what plays; the caller may wait for the end of it. *)
Speak(wait) ==
    /\ spoken < MaxSpeeches /\ spoken' = spoken + 1
    /\ task' = [CancelSpeak(task) EXCEPT ![spoken'] = "created"]
    /\ speak' = spoken' /\ state' = "speaking"
    /\ waiting' = IF wait THEN waiting \cup {spoken'} ELSE waiting

(* Listening for the wake phrase, and for the utterance after it; an utterance *)
(* that is nothing but the phrase is an error and leaves the session listening.*)
Listen(detected, empty) ==
    /\ empty => detected
    /\ state' = IF empty THEN "listening_utterance" ELSE "idle"
    /\ UNCHANGED <<speak, task, waiting, spoken>>

PlaybackBegins(n) ==
    /\ task[n] = "created"
    /\ task' = [task EXCEPT ![n] = "playing"]
    /\ UNCHANGED <<state, speak, waiting, spoken>>

(* The end of the sleep and the delivery of a cancellation run one cleanup. *)
CleanedUp == IF state = "speaking" THEN "idle" ELSE state
PlaybackEnds(n) ==
    /\ task[n] \in {"playing", "cancelled"}
    /\ task' = [task EXCEPT ![n] = "done"]
    /\ state' = CleanedUp
    /\ UNCHANGED <<speak, waiting, spoken>>

Awaited(n) == task[n] = "done"
WaitReturns(n) ==
    /\ n \in waiting /\ Awaited(n)
    /\ waiting' = waiting \ {n}
    /\ UNCHANGED <<state, speak, task, spoken>>

LoopTurn(n) == PlaybackBegins(n) \/ PlaybackEnds(n) \/ WaitReturns(n)

VoiceNext ==
    \/ BargeIn \/ ResetSession
    \/ \E wait \in BOOLEAN : Speak(wait)
    \/ \E detected, empty \in BOOLEAN : Listen(detected, empty)
    \/ \E n \in 1..MaxSpeeches : LoopTurn(n)

VoiceSpec ==
    /\ VoiceInit /\ [][VoiceNext]_voiceVars
    /\ \A n \in 1..MaxSpeeches : WF_voiceVars(LoopTurn(n))

-----------------------------------------------------------------------------
(* A session that says it speaks has a playback that nobody cancelled         *)
(* (session.py:88-96). The converse does not hold: the cleanup of a cancelled *)
(* playback, or a listener, turns the state idle under the speech that        *)
(* replaced it.                                                               *)
VoiceTypeOK ==
    /\ state \in {"idle", "speaking", "barge_in", "listening_utterance"}
    /\ speak \in 0..spoken /\ waiting \subseteq 1..spoken
    /\ state = "speaking" => Live # {}

(* At most one speech is heard, and after a barge-in none: whatever was       *)
(* created, cancelled or finished in which order (FR-1004).                   *)
OneVoice == Live \subseteq {speak}

(* A request that waits for its speech returns, whether it was heard out, cut *)
(* off by another request, or never began.                                    *)
WaitersReturn == \A n \in 1..MaxSpeeches : n \in waiting ~> n \notin waiting

(* One utterance is played at a time however often one replaces another, and who*)
(* waits for its end is released (speak, cancel_speak, wait_speech_done).     *)
SpeechEnds ==
    /\ [](VoiceTypeOK /\ OneVoice)
    /\ WaitersReturn
=============================================================================
