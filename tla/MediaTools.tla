----------------------------- MODULE MediaTools ------------------------------
(* The media tools over clips: cut, concat, mute, caption and export, and the *)
(* undo of each.  A clip is the manifest the fixture backend keeps: its       *)
(* length, its timed words, its silences and highlights.  Time is in whole    *)
(* units; a word's `kinds` are the segment kinds the detector gives it.       *)
(*   src/vyomel/tools/media/tools.py, src/vyomel/tools/media/fixture.py       *)
EXTENDS Integers, Sequences, FiniteSets, Listing

CONSTANTS
    MediaFiles,   \* paths the calls name, the clip suffix already on them
    Recorded,     \* the clips there are before any call: file -> clip
    Spans,        \* the <<start, end>> the calls ask for
    CueWords,     \* most words of one caption cue (8)
    CueSpan,      \* length at which a cue is closed (3 seconds)
    NoFile,
    MaxEdits

(* What a recording says and when; each word is over before the next begins.  *)
WordTexts ==
    {"[muted]"} \cup
    UNION { { Recorded[f].words[i].text : i \in DOMAIN Recorded[f].words } : f \in DOMAIN Recorded }
TimedWords == [text : WordTexts, from : Nat, to : Nat, kinds : SUBSET {"filler", "profanity"}]
Stretches == [from : Nat, to : Nat]

InTime(words, length) ==
    \A i \in DOMAIN words :
        /\ words[i].from < words[i].to /\ words[i].to <= length
        /\ i > 1 => words[i - 1].to <= words[i].from

ASSUME MediaAssumption ==
    /\ DOMAIN Recorded \subseteq MediaFiles /\ Spans \subseteq Nat \X Nat
    /\ CueWords \in Nat \ {0} /\ CueSpan \in Nat /\ MaxEdits \in Nat
    /\ \A f \in DOMAIN Recorded : LET clip == Recorded[f] IN
          /\ clip = [kind |-> "clip", length |-> clip.length, words |-> clip.words,
                     quiet |-> clip.quiet, bright |-> clip.bright]
          /\ clip.length \in Nat /\ clip.words \in Seq(TimedWords) /\ InTime(clip.words, clip.length)
          /\ clip.quiet \in Seq(Stretches) /\ clip.bright \in Seq(Stretches)

VARIABLES
    files,        \* path -> clip, exported artifact or NoFile
    captions,     \* path -> cues of the .srt beside it or NoFile
    edits         \* the calls that succeeded, in order, and which are undone

mediaVars == <<files, captions, edits>>

Clip(length, words, quiet, bright) ==
    [kind |-> "clip", length |-> length, words |-> words, quiet |-> quiet, bright |-> bright]

Muted == "[muted]"
MutedAt(word) == [text |-> Muted, from |-> word.from, to |-> word.to, kinds |-> {}]

------------------------------------------------------------------------------
(* Slicing, shifting, muting.                                                 *)

Placed(item, from, to) == [item EXCEPT !.from = from, !.to = to]

(* What of a list of timed things falls in [from, to), in the cut's own time. *)
\* A straddling word is left out instead of clipped.
BugWholeWords(items, from, to) ==
    LET inside == Picked(items, { i \in DOMAIN items : items[i].from >= from /\ items[i].to <= to })
    IN  [i \in DOMAIN inside |-> [inside[i] EXCEPT !.from = @ - from, !.to = @ - from]]

Slice(items, from, to) ==
    LET inside == Picked(items, { i \in DOMAIN items : items[i].to > from /\ items[i].from < to })
        Low(n) == IF n < 0 THEN 0 ELSE n
        High(n) == IF n > to - from THEN to - from ELSE n
    IN  [i \in DOMAIN inside |->
            Placed(inside[i], Low(inside[i].from - from), High(inside[i].to - from))]

CanCut(clip, from, to) == from < to /\ to <= clip.length

Cut(clip, from, to) ==
    Clip(to - from, Slice(clip.words, from, to),
         Slice(clip.quiet, from, to), Slice(clip.bright, from, to))

Later(items, offset) ==
    [i \in DOMAIN items |-> Placed(items[i], items[i].from + offset, items[i].to + offset)]

Join(clip, next) ==
    Clip(clip.length + next.length,
         clip.words \o Later(next.words, clip.length),
         clip.quiet \o Later(next.quiet, clip.length),
         clip.bright \o Later(next.bright, clip.length))

(* Only words wholly inside are muted, and the range is not cut to the clip.  *)
Mute(clip, from, to) ==
    [clip EXCEPT
        !.words = [i \in DOMAIN @ |->
            IF @[i].from >= from /\ @[i].to <= to THEN MutedAt(@[i]) ELSE @[i]],
        !.quiet = Append(@, [from |-> from, to |-> to])]

(* The segments of the wanted kinds, sorted by start, end and kind.           *)
SegmentKinds == <<"filler", "highlight", "profanity", "silence">>

Timed(clip, kind) ==
    CASE kind = "silence" -> clip.quiet
      [] kind = "highlight" -> clip.bright
      [] OTHER -> clip.words

\* Each by the place of its kind and its own place among what has that kind.
Detected(clip, wanted) ==
    { p \in (DOMAIN SegmentKinds) \X (DOMAIN clip.words \cup DOMAIN clip.quiet \cup DOMAIN clip.bright) :
        LET kind == SegmentKinds[p[1]]
        IN  /\ kind \in wanted /\ p[2] \in DOMAIN Timed(clip, kind)
            /\ kind \in {"filler", "profanity"} => kind \in clip.words[p[2]].kinds }
Segment(clip, p) ==
    LET kind == SegmentKinds[p[1]]
    IN  [kind |-> kind, from |-> Timed(clip, kind)[p[2]].from, to |-> Timed(clip, kind)[p[2]].to]

Sooner(clip, p, q) ==
    LET a == Segment(clip, p)
        b == Segment(clip, q)
    IN  \/ a.from < b.from
        \/ a.from = b.from /\ a.to < b.to
        \/ a.from = b.from /\ a.to = b.to /\ p[1] < q[1]
        \/ a.from = b.from /\ a.to = b.to /\ p[1] = q[1] /\ p[2] < q[2]
Segments(clip, wanted) ==
    LET found == Detected(clip, wanted)
        sorted == Listed(found, { pair \in found \X found : Sooner(clip, pair[1], pair[2]) })
    IN  [n \in DOMAIN sorted |-> Segment(clip, sorted[n])]

------------------------------------------------------------------------------
(* Captions: words gathered into cues, a muted word closing the one that is   *)
(* open.                                                                      *)

Closed(state) ==
    IF state.open = <<>> THEN state
    ELSE [cues |-> Append(state.cues, [from |-> Head(state.open).from,
                                       to |-> state.open[Len(state.open)].to,
                                       words |-> state.open]),
          open |-> <<>>]

Hears(state, word) ==
    IF word.text = Muted THEN Closed(state)
    ELSE LET heard == [state EXCEPT !.open = Append(@, word)]
         IN  IF Len(heard.open) >= CueWords \/ word.to - Head(heard.open).from >= CueSpan
             THEN Closed(heard) ELSE heard

WordsToSrt(words) ==
    LET heard[n \in 0 .. Len(words)] ==
            IF n = 0 THEN [cues |-> <<>>, open |-> <<>>] ELSE Hears(heard[n - 1], words[n])
    IN  Closed(heard[Len(words)]).cues

------------------------------------------------------------------------------
IsClip(f) == files[f] # NoFile /\ files[f].kind = "clip"

MediaInit ==
    /\ files = [f \in MediaFiles |-> IF f \in DOMAIN Recorded THEN Recorded[f] ELSE NoFile]
    /\ captions = [f \in MediaFiles |-> NoFile]
    /\ edits = <<>>

(* A call that succeeded: what it read, where it wrote, how.                  *)
Edit(op, source, dest) ==
    /\ Len(edits) < MaxEdits
    /\ edits' = Append(edits, [op |-> op, source |-> source, dest |-> dest, undone |-> FALSE])

Write(dest, content) == files' = [files EXCEPT ![dest] = content]

CutClip(f, dest) ==
    /\ IsClip(f)
    /\ \E span \in Spans :
           /\ CanCut(files[f], span[1], span[2])
           /\ Write(dest, Cut(files[f], span[1], span[2]))
    /\ Edit("cut", f, dest)
    /\ UNCHANGED captions

ConcatClips(f, g, dest) ==
    /\ IsClip(f) /\ IsClip(g)
    /\ Write(dest, Join(files[f], files[g]))
    /\ Edit("concat", f, dest)
    /\ UNCHANGED captions

MuteSegment(f, dest) ==
    /\ IsClip(f)
    /\ \E span \in Spans :
           /\ span[1] < span[2]
           /\ Write(dest, Mute(files[f], span[1], span[2]))
    /\ Edit("mute", f, dest)
    /\ UNCHANGED captions

(* The words are the clip's own, or a transcript the caller took earlier,     *)
(* of this clip or of another.                                                *)
CaptionClip(f, heard, dest) ==
    /\ IsClip(f) /\ IsClip(heard)
    /\ captions' = [captions EXCEPT ![dest] = WordsToSrt(files[heard].words)]
    /\ \/ Edit("sidecar", f, dest) /\ UNCHANGED files
       \/ Edit("burn_in", f, dest) /\ Write(dest, files[f])

(* The artifact holds the clip but is no clip itself.                         *)
ExportClip(f, dest) ==
    /\ IsClip(f)
    /\ Write(dest, [files[f] EXCEPT !.kind = "export"])
    /\ Edit("export", f, dest)
    /\ UNCHANGED captions

(* Compensation unlinks what the call wrote, whoever wrote there since; that  *)
(* of a caption spares the clip the caption was made of.                      *)
UndoEdit(i) ==
    LET e == edits[i]
        captioned == e.op \in {"sidecar", "burn_in"}
        media == IF e.op = "sidecar" THEN e.source ELSE e.dest
        kept == captioned /\ media = e.source
    IN  /\ ~e.undone
        /\ files' = IF kept THEN files ELSE [files EXCEPT ![media] = NoFile]
        /\ captions' = IF captioned THEN [captions EXCEPT ![e.dest] = NoFile] ELSE captions
        /\ edits' = [edits EXCEPT ![i].undone = TRUE]

MediaNext ==
    \/ \E f, dest \in MediaFiles :
           \/ CutClip(f, dest)
           \/ MuteSegment(f, dest)
           \/ ExportClip(f, dest)
           \/ \E g \in MediaFiles : ConcatClips(f, g, dest) \/ CaptionClip(f, g, dest)
    \/ \E i \in DOMAIN edits : UndoEdit(i)

MediaSpec == MediaInit /\ [][MediaNext]_mediaVars

------------------------------------------------------------------------------
(* The clip the last call wrote.                                              *)
ClipsThere ==
    IF edits = <<>> THEN {}
    ELSE { files[f] : f \in { g \in {edits[Len(edits)].dest} : IsClip(g) } }

(* Whatever was cut, joined and muted before, the words of a clip follow one  *)
(* another in time and end within it: a caller may cut at a word's timings.   *)
WordsKeepTime ==
    \A clip \in ClipsThere : InTime(clip.words, clip.length)

(* A clip cut in two anywhere, inside a word too, and joined again says the   *)
(* same thing at every instant.                                               *)
Said(clip) ==
    UNION { {clip.words[i].text} \X (clip.words[i].from .. clip.words[i].to - 1) : i \in DOMAIN clip.words }
CutsRejoin ==
    \A clip \in ClipsThere : \A t \in 1 .. clip.length - 1 :
        Said(Join(Cut(clip, 0, t), Cut(clip, t, clip.length))) = Said(clip)

(* Muting the segments the detector reports, one call after another, leaves   *)
(* nothing of that kind to detect, and no caption cue says one of them.       *)
MutingClears ==
    \A clip \in ClipsThere : \A kind \in {"profanity", "filler"} :
        LET reported == Segments(clip, {kind})
            muted[n \in 0 .. Len(reported)] ==
                IF n = 0 THEN clip ELSE Mute(muted[n - 1], reported[n].from, reported[n].to)
        IN  Segments(muted[Len(reported)], {kind}) = <<>>

(* The cues of a clip say each of its audible words once, in order, in time   *)
(* that no other cue covers.                                                  *)
CuesSayEveryWord ==
    \A clip \in ClipsThere :
        LET cues == WordsToSrt(clip.words)
            said[n \in 0 .. Len(cues)] == IF n = 0 THEN <<>> ELSE said[n - 1] \o cues[n].words
        IN  /\ said[Len(cues)] = Picked(clip.words, { i \in DOMAIN clip.words : clip.words[i].text # Muted })
            /\ \A i \in DOMAIN cues : i > 1 => cues[i - 1].to <= cues[i].from

(* When every call that was made is undone, in whatever order, and none of    *)
(* them wrote over a clip that was there, the files are what they were.       *)
UndoneEditsLeaveNothing ==
    (\A i \in DOMAIN edits : edits[i].undone /\ edits[i].dest \notin DOMAIN Recorded) =>
        /\ \A f \in DOMAIN Recorded : files[f] = Recorded[f]
        /\ \A f \in MediaFiles : captions[f] = NoFile /\ (f \notin DOMAIN Recorded => files[f] = NoFile)

(* No chain of cuts, joins, mutes, captions and undos moves, doubles or drops a*)
(* word that it does not say it drops (cut, concat, mute_segment, words_to_srt).*)
EditsKeepWords ==
    /\ WordsKeepTime
    /\ CutsRejoin
    /\ MutingClears
    /\ CuesSayEveryWord
    /\ UndoneEditsLeaveNothing
==============================================================================
