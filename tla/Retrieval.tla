------------------------------- MODULE Retrieval -------------------------------
(* How memory answers: a file is cut into chunks under its headings, a query  *)
(* ranks the chunks by meaning and by words, fuses the two rankings, and then *)
(* reads the chunks again, each step a statement of its own.                  *)
(*   src/vyomel/memory/chunking.py, rrf.py, retrieve.py, tools/memory.py      *)
EXTENDS Integers, FiniteSets, SequencesExt, Listing

CONSTANTS
    Texts,         \* sequences of "word", "blank" and headings
    LevelOf,       \* LevelOf[h]: the level of a heading, 1 the highest
    WindowWords,   \* words of a chunk (TARGET_TOKENS, 512)
    OverlapWords,  \* words that two chunks of a section share (OVERLAP_TOKENS, 64)
    Nearest,       \* all chunks there will be, nearest to the query first
    BestWords,     \* those with the words of the query, the best first
    PlaceValues,   \* places tried for rrf alone
    RankedItems,   \* and the chunks that have them
    Wanted,        \* numbers of chunks a query asks for
    NoText

VARIABLES
    passage,   \* the file that was cut, or NoText
    fused,     \* two rankings and their fusion
    library,   \* the chunks stored now, and all that ever were: identifiers are new
    search     \* the query under way and what it has read

retrievalVars == <<passage, fused, library, search>>

CandidateK == 40
RrfK == 60

ASSUME RetrievalAssumption ==
    /\ OverlapWords \in Nat /\ WindowWords \in Nat /\ OverlapWords < WindowWords
    /\ {"word", "blank"} \cap DOMAIN LevelOf = {} /\ \A h \in DOMAIN LevelOf : LevelOf[h] \in Nat
    /\ Texts \subseteq Seq({"word", "blank"} \cup DOMAIN LevelOf)
    /\ Nearest \in Seq(Nat) /\ BestWords \in Seq(Nat) /\ Wanted \subseteq Nat
    /\ RankedItems \subseteq Nat /\ IsFiniteSet(RankedItems) /\ PlaceValues \subseteq 1..CandidateK

------------------------------------------------------------------------------
(* Sections: what lies between two headings, under the headings it is in. A   *)
(* heading closes those of its level and below.                               *)
IsHeading(line) == line \in DOMAIN LevelOf
Level(lines, i) == LevelOf[lines[i]]

Opened(lines, stack, i) ==
    Append(Picked(stack, { n \in DOMAIN stack : Level(lines, stack[n]) < Level(lines, i) }), i)

Sectioned(state, i) ==
    IF i > state.cursor
    THEN Append(state.sections, [path |-> state.stack, from |-> state.cursor, to |-> i - 1])
    ELSE state.sections

Reads(lines, state, i) ==
    IF ~IsHeading(lines[i]) THEN state
    ELSE [stack |-> Opened(lines, state.stack, i), sections |-> Sectioned(state, i), cursor |-> i + 1]

Sections(lines) ==
    LET read[n \in 0 .. Len(lines)] ==
            IF n = 0 THEN [stack |-> <<>>, sections |-> <<>>, cursor |-> 1] ELSE Reads(lines, read[n - 1], n)
        sections == Sectioned(read[Len(lines)], Len(lines) + 1)
    IN  IF sections = <<>> THEN <<[path |-> <<>>, from |-> 1, to |-> Len(lines)]>> ELSE sections

(* Windows: the words of a section, WindowWords at a time. Headings count as  *)
(* words where they are all there is.                                         *)
WordsOf(lines, section) == Ascending({ i \in section.from .. section.to : lines[i] # "blank" })

\* The next window begins where the last one ended.
BugNoOverlap(n) == n
NextWindow(n) == n - OverlapWords

(* The places of the words at which the windows of n words begin.             *)
Extended(starts, n) ==
    LET end == starts[Len(starts)] + WindowWords
    IN  IF end > n THEN starts ELSE Append(starts, NextWindow(end))
WindowStarts(n) ==
    LET begun[i \in 0..n] == IF i = 0 THEN <<1>> ELSE Extended(begun[i - 1], n) IN begun[n]

Windows(lines, section) ==
    LET words == WordsOf(lines, section)
        starts == WindowStarts(Len(words))
        last(n) == IF starts[n] + WindowWords > Len(words) THEN Len(words) ELSE starts[n] + WindowWords - 1
    IN  IF words = <<>> THEN <<>>
        ELSE [n \in DOMAIN starts |->
                [path |-> section.path, from |-> words[starts[n]], to |-> words[last(n)]]]

ChunkText(lines) ==
    LET sections == Sections(lines)
        cut[n \in 0 .. Len(sections)] ==
            IF n = 0 THEN <<>> ELSE cut[n - 1] \o Windows(lines, sections[n])
    IN  IF lines = <<>> THEN <<>> ELSE cut[Len(sections)]

------------------------------------------------------------------------------
(* Reciprocal rank fusion. A ranking is a function from chunks to places; the *)
(* score of a chunk is a fraction, ties go to the smaller identifier.         *)

Discounted(place) == RrfK + place

Score(r1, r2, x) ==
    CASE x \in DOMAIN r1 /\ x \in DOMAIN r2 ->
            [num |-> Discounted(r1[x]) + Discounted(r2[x]), den |-> Discounted(r1[x]) * Discounted(r2[x])]
      [] x \in DOMAIN r1 /\ x \notin DOMAIN r2 -> [num |-> 1, den |-> Discounted(r1[x])]
      [] OTHER -> [num |-> 1, den |-> Discounted(r2[x])]

Above(r1, r2, x, y) ==
    LET a == Score(r1, r2, x)
        b == Score(r1, r2, y)
    IN  \/ a.num * b.den > b.num * a.den
        \/ a.num * b.den = b.num * a.den /\ x < y

Rrf(r1, r2) ==
    LET items == DOMAIN r1 \cup DOMAIN r2
    IN  Listed(items, { pair \in items \X items : Above(r1, r2, pair[1], pair[2]) })

Places(ranking) == [x \in ToSet(ranking) |-> CHOOSE i \in DOMAIN ranking : ranking[i] = x]
Foremost(s, n) == SubSeq(s, 1, IF Len(s) < n THEN Len(s) ELSE n)

------------------------------------------------------------------------------
NoSearch == [stage |-> "none", k |-> 0, strategy |-> "none", vector |-> <<>>, lexical |-> <<>>,
             found |-> <<>>, seen |-> {}]

Ingested ==
    LET some == ToSet(Foremost(Nearest, Len(Nearest) - 1)) IN [now |-> some, ever |-> some]

RetrievalInit ==
    /\ passage = NoText /\ fused = <<>>
    /\ library = Ingested
    /\ search = NoSearch

Untried == passage = NoText /\ fused = <<>> /\ search = NoSearch
                /\ library = Ingested

CutText(lines) == Untried /\ passage' = lines /\ UNCHANGED <<fused, library, search>>

Fuse(r1, r2) ==
    /\ Untried
    /\ fused' = <<r1, r2, Rrf(r1, r2)>>
    /\ UNCHANGED <<passage, library, search>>

\* What of a list is there now.
Stored(s) == Picked(s, { i \in DOMAIN s : s[i] \in library.now })

(* `seen` is history: what has been there ever since the first statement.     *)
Ask(k, strategy) ==
    /\ passage = NoText /\ fused = <<>> /\ search = NoSearch
    /\ search' = [NoSearch EXCEPT !.stage = "vector", !.k = k, !.strategy = strategy, !.seen = library.now]
    /\ UNCHANGED <<passage, fused, library>>

RankByVector ==
    /\ search.stage = "vector"
    /\ search' = [search EXCEPT !.stage = "lexical", !.vector =
            IF search.strategy = "lexical" THEN <<>>
            ELSE Foremost(Stored(Nearest), CandidateK)]
    /\ UNCHANGED <<passage, fused, library>>

RankByWords ==
    /\ search.stage = "lexical"
    /\ search' = [search EXCEPT !.stage = "hydrate", !.lexical =
            IF search.strategy = "vector" THEN <<>>
            ELSE Foremost(Stored(BestWords), CandidateK)]
    /\ UNCHANGED <<passage, fused, library>>

Answer ==
    /\ search.stage = "hydrate"
    /\ search' = [search EXCEPT !.stage = "answered", !.found =
            Stored(Foremost(Rrf(Places(search.vector), Places(search.lexical)), search.k))]
    /\ UNCHANGED <<passage, fused, library>>

(* An ingest replaces a chunk by one that was not there before; a forget      *)
(* takes one away.                                                            *)
LibraryChanges(gone, new) ==
    /\ passage = NoText /\ fused = <<>> /\ search.stage # "answered"
    /\ gone \in library.now /\ new \cap library.ever = {}
    /\ library' = [now |-> (library.now \ {gone}) \cup new, ever |-> library.ever \cup new]
    /\ search' = [search EXCEPT !.seen = @ \ {gone}]
    /\ UNCHANGED <<passage, fused>>

Rankings(items) ==
    { r \in UNION { [dom -> PlaceValues] : dom \in SUBSET items } : IsInjective(r) }

RetrievalNext ==
    \/ \E lines \in Texts : CutText(lines)
    \/ \E r1, r2 \in Rankings(RankedItems) : Fuse(r1, r2)
    \/ \E k \in Wanted, strategy \in {"hybrid", "vector", "lexical"} : Ask(k, strategy)
    \/ RankByVector \/ RankByWords \/ Answer
    \/ \E gone \in library.now, new \in { {x} : x \in ToSet(Nearest) } \cup {{}} : LibraryChanges(gone, new)

RetrievalSpec == RetrievalInit /\ [][RetrievalNext]_retrievalVars

------------------------------------------------------------------------------
(* A phrase of one word more than the overlap, anywhere within a section, is  *)
(* whole in some chunk, and no chunk is longer than a window: nothing falls   *)
(* between two windows (chunking.py:109).                                     *)
Together(i, j) ==
    /\ i < j /\ \A n \in i..j : ~IsHeading(passage[n])
    /\ Cardinality({ n \in i..j : passage[n] = "word" }) = OverlapWords + 1
EveryPhraseIsWhole ==
    passage # NoText =>
        LET chunks == ChunkText(passage)
        IN  /\ \A i, j \in DOMAIN passage : Together(i, j) =>
                   \E n \in DOMAIN chunks : \A m \in i..j :
                       passage[m] = "word" => m \in chunks[n].from..chunks[n].to
            /\ \A n \in DOMAIN chunks :
                   Cardinality({ m \in chunks[n].from..chunks[n].to : passage[m] # "blank" }) <= WindowWords

(* A chunk with a heading before it lies under exactly the headings that are  *)
(* still open there, outermost first, and it crosses none.  The exception is  *)
(* a passage of headings alone (chunking.py:64).                              *)
Governs(h, i) ==
    /\ h < i /\ IsHeading(passage[h])
    /\ \A n \in h + 1..i : IsHeading(passage[n]) => Level(passage, n) > Level(passage, h)
ChunksKnowTheirHeadings ==
    passage # NoText /\ (\E i \in DOMAIN passage : ~IsHeading(passage[i])) =>
        LET chunks == ChunkText(passage)
        IN  \A n \in DOMAIN chunks :
                /\ \A m \in chunks[n].from..chunks[n].to : ~IsHeading(passage[m])
                /\ chunks[n].path =
                       Ascending({ h \in DOMAIN passage : Governs(h, chunks[n].from) })

(* Whatever both rankings found among their candidates comes before all that  *)
(* only one of them found: that is what the constant 60 does for lists of 40  *)
(* (rrf.py:13, retrieve.py:17).                                               *)
AgreementWins ==
    fused # <<>> =>
        \A i, j \in DOMAIN fused[3] : i < j =>
            LET both == DOMAIN fused[1] \cap DOMAIN fused[2]
            IN  fused[3][j] \in both => fused[3][i] \in both

(* A query that overlaps ingests and forgets cites only what is there when it *)
(* answers, in the fused order, and leaves out a chunk that was there all the *)
(* time only for k others that it ranked above it, or for 40 candidates that  *)
(* are nearer (retrieve.py:74).                                               *)
SurvivorsKeepTheirPlace ==
    search.stage = "answered" =>
        LET order == Rrf(Places(search.vector), Places(search.lexical))
            at(x) == CHOOSE i \in DOMAIN order : order[i] = x
        IN  /\ ToSet(search.found) \subseteq library.now
            /\ \A i, j \in DOMAIN search.found : i < j => at(search.found[i]) < at(search.found[j])
            /\ search.strategy # "lexical" => \A x \in search.seen \ ToSet(search.found) :
                   IF x \in ToSet(order) THEN at(x) > search.k ELSE Len(search.vector) = CandidateK

(* No phrase short enough to fit the overlap is cut, each chunk carries the   *)
(* headings it stands under, a chunk both rankings place well comes before one*)
(* either places lower, and what is gone drops out without moving the rest    *)
(* (chunk_text, rrf, retrieve).                                               *)
AnswersAreGrounded ==
    /\ EveryPhraseIsWhole
    /\ ChunksKnowTheirHeadings
    /\ AgreementWins
    /\ SurvivorsKeepTheirPlace
==============================================================================
