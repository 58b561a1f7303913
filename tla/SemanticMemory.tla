---------------------------- MODULE SemanticMemory ----------------------------
(* One local file in semantic memory and one named entity of the context       *)
(* graph, under concurrent ingests, remembers and forgets. Every request is    *)
(* one transaction that reads first and writes last; the file changes on disk  *)
(* whenever its owner likes. A content is its own digest, and makes one chunk. *)
EXTENDS Naturals, FiniteSets

CONSTANTS
    Clients,      \* concurrent requests of the API and of the memory tools
    Contents,     \* contents of the file
    Facts,        \* attributes an entity may be given
    MaxWrites     \* writing transactions; it numbers documents, chunks and rows

ASSUME MemoryAssumption == MaxWrites \in Nat /\ Contents # {}

VARIABLES
    file,      \* the content on disk
    document,  \* at most one row: the path is unique
    chunks,    \* rows of document_chunks
    entities,  \* rows of entities of one type and name; the pair is not unique
    client,    \* client[c]: the request c is in and what it has read
    writes     \* transactions that wrote so far

memoryVars == <<file, document, chunks, entities, client, writes>>

NoClient == [op |-> "none", digest |-> {}, text |-> {}, document |-> {}, chunks |-> {},
             entity |-> {}, fact |-> {}]

MemoryInit ==
    /\ file = (CHOOSE c \in Contents : TRUE)
    /\ document = {} /\ chunks = {} /\ entities = {} /\ writes = 0
    /\ client = [c \in Clients |-> NoClient]

FileChanges(content) ==
    /\ content # file /\ file' = content
    /\ UNCHANGED <<document, chunks, entities, client, writes>>

-----------------------------------------------------------------------------
(* Ingest: the digest, then the row with its chunks, then the file again. *)
IngestDigest(c) ==
    /\ client[c] = NoClient
    /\ client' = [client EXCEPT ![c] = [NoClient EXCEPT !.op = "digested", !.digest = {file}]]
    /\ UNCHANGED <<file, document, chunks, entities, writes>>

Unchanged(c) == \E d \in document : {d.hash} = client[c].digest

(* An unchanged digest skips the file; its entity is marked as seen. *)
IngestLookup(c) ==
    /\ client[c].op = "digested"
    /\ client' = [client EXCEPT ![c] =
         IF Unchanged(c) THEN NoClient
         ELSE [@ EXCEPT !.op = "extract", !.document = document, !.chunks = chunks]]
    /\ UNCHANGED <<file, document, chunks, entities, writes>>

IngestExtract(c) ==
    /\ client[c].op = "extract"
    /\ client' = [client EXCEPT ![c].op = "ingest", ![c].text = {file}]
    /\ UNCHANGED <<file, document, chunks, entities, writes>>

Chunk(n, content) == [id |-> n, content |-> content]

(* The chunks that were read are replaced, and the version that was read is   *)
(* incremented.                                                               *)
BugKeepsChunks(c) == chunks
OtherChunks(c) == chunks \ client[c].chunks
Versioned(c, d, digest) ==
    [d EXCEPT !.hash = digest,
              !.version = (CHOOSE e \in client[c].document : TRUE).version + 1]

(* A row that is gone, or a path that is taken by now, fails the request. *)
StillThere(c) == {d.id : d \in client[c].document} = {d.id : d \in document}

IngestWrite(c) ==
    /\ client[c].op = "ingest" /\ writes < MaxWrites
    /\ writes' = writes + 1
    /\ client' = [client EXCEPT ![c] = NoClient]
    /\ IF StillThere(c)
       THEN /\ \E digest \in client[c].digest :
                 document' = IF client[c].document = {}
                             THEN {[id |-> writes', hash |-> digest, version |-> 1]}
                             ELSE {Versioned(c, d, digest) : d \in document}
            /\ chunks' = OtherChunks(c) \cup {Chunk(writes', t) : t \in client[c].text}
       ELSE UNCHANGED <<document, chunks>>
    /\ UNCHANGED <<file, entities>>

-----------------------------------------------------------------------------
(* Remember: the row of that name, if there is one, takes the fact among the  *)
(* attributes that were read -- written back only if that changes them;       *)
(* otherwise a row is inserted. A row that is gone fails the request.         *)
RememberRead(c, fact) ==
    /\ client[c] = NoClient
    /\ \E e \in SUBSET entities :
         /\ Cardinality(e) = IF entities = {} THEN 0 ELSE 1
         /\ client' = [client EXCEPT ![c] =
                        [NoClient EXCEPT !.op = "remember", !.entity = e, !.fact = {fact}]]
    /\ UNCHANGED <<file, document, chunks, entities, writes>>

Merged(c, facts) == facts \cup client[c].fact
Remembered(c, e) ==
    IF \E s \in client[c].entity : s.id = e.id /\ Merged(c, s.facts) # s.facts
    THEN {[e EXCEPT !.facts = Merged(c, s.facts)] : s \in client[c].entity}
    ELSE {e}

RememberWrite(c) ==
    /\ client[c].op = "remember" /\ writes < MaxWrites
    /\ writes' = writes + 1
    /\ client' = [client EXCEPT ![c] = NoClient]
    /\ entities' =
         IF client[c].entity = {}
         THEN entities \cup {[id |-> writes', facts |-> client[c].fact]}
         ELSE UNION {Remembered(c, e) : e \in entities}
    /\ UNCHANGED <<file, document, chunks>>

-----------------------------------------------------------------------------
(* Forget deletes the entity; the document's entity takes the document and,   *)
(* by the foreign key, every chunk of it along. Rows already gone do not      *)
(* matter.                                                                    *)
ForgetRead(c) ==
    /\ client[c] = NoClient
    /\ \/ document # {} /\ client' = [client EXCEPT ![c] =
                              [NoClient EXCEPT !.op = "forget", !.document = document]]
       \/ \E e \in entities : client' = [client EXCEPT ![c] =
                              [NoClient EXCEPT !.op = "forget", !.entity = {e}]]
    /\ UNCHANGED <<file, document, chunks, entities, writes>>

Gone(c) == {d.id : d \in client[c].document}
ForgetWrite(c) ==
    /\ client[c].op = "forget"
    /\ client' = [client EXCEPT ![c] = NoClient]
    /\ document' = {d \in document : d.id \notin Gone(c)}
    /\ chunks' = IF document' = document THEN chunks ELSE {}
    /\ entities' = {e \in entities : \A s \in client[c].entity : e.id # s.id}
    /\ UNCHANGED <<file, writes>>

MemoryRequestFails(c) ==
    /\ client[c] # NoClient
    /\ client' = [client EXCEPT ![c] = NoClient]
    /\ UNCHANGED <<file, document, chunks, entities, writes>>

-----------------------------------------------------------------------------
MemoryNext ==
    \/ \E content \in Contents : FileChanges(content)
    \/ \E c \in Clients :
         \/ IngestDigest(c) \/ IngestLookup(c) \/ IngestExtract(c) \/ IngestWrite(c)
         \/ \E fact \in Facts : RememberRead(c, fact)
         \/ RememberWrite(c) \/ ForgetRead(c) \/ ForgetWrite(c) \/ MemoryRequestFails(c)

MemorySpec == MemoryInit /\ [][MemoryNext]_memoryVars

-----------------------------------------------------------------------------
(* At most one document of the path, chunks only beside it: an ingest that    *)
(* overlaps a forget resurrects nothing of what was forgotten (FR-509).       *)
ForgottenStaysForgotten ==
    /\ Cardinality(document) <= 1 /\ document = {} => chunks = {}
    /\ \A d \in document : d.hash \in Contents /\ d.version \in 1..MaxWrites
    /\ \A k \in chunks : k.content \in Contents /\ \E d \in document : d.id <= k.id

(* An ingest whose reading is still true when it writes -- the file did not   *)
(* change between digest and extraction, no other request wrote -- leaves     *)
(* exactly the chunks of the content whose digest the document carries,       *)
(* whatever an earlier overlap had left (FR-506).                             *)
IngestIsFaithful ==
    [][\A c \in Clients :
         client[c].op = "ingest" /\ client'[c] = NoClient /\ document' # document
         /\ client[c].text = client[c].digest /\ client[c].chunks = chunks
         => \A d \in document' : {k.content : k \in chunks'} = {d.hash}
                                 /\ Cardinality(chunks') = 1]_memoryVars

(* A fact leaves the graph only when it is forgotten, or when somebody writes *)
(* back an entity that was read before the fact was there (graph.py:133-146). *)
Known == UNION {e.facts : e \in entities}
FactsVanishOnlyByOverlap ==
    [][\A f \in Known \ Known' : \E c \in Clients :
         /\ client'[c] = NoClient
         /\ \/ client[c].op = "forget"
            \/ client[c].op = "remember" /\ \A e \in client[c].entity : f \notin e.facts
      ]_memoryVars

(* What was forgotten answers no query again, an ingestion nothing overlapped *)
(* leaves exactly the chunks of its text, and a fact vanishes only by being   *)
(* forgotten or by two overlapping writers (ingest_path, remember, forget).   *)
MemoryIsFaithful ==
    /\ []ForgottenStaysForgotten
    /\ IngestIsFaithful
    /\ FactsVanishOnlyByOverlap
=============================================================================
