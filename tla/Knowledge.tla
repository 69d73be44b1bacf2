------------------------------ MODULE Knowledge ------------------------------
(***************************************************************************)
(* The company brain (services/knowledge/ingest.py, synthesizer.py,        *)
(* routers/knowledge.py): artifacts of one company are copied into         *)
(* documents, one per source_ref, and each document into chunks that carry *)
(* embeddings when the provider answers.  Nothing but a look-up keeps a    *)
(* source_ref from having two documents; once it has, the look-up of every *)
(* later request raises.  An uploaded recording gets a source_ref of its   *)
(* own and is a document like any other.                                   *)
(***************************************************************************)
EXTENDS Naturals, FiniteSets

CONSTANTS
    Sources,     \* artifacts that a reindex finds, by source_ref
    Syntheses,   \* source_refs of the day's syntheses
    Indexers,    \* requests that are open at a time
    Blank,       \* the contents that chunk_text makes no piece of: white space only
    MaxVersion,  \* bound: contents an artifact has, one after the other
    MaxDocs      \* bound: rows of knowledge_documents

ASSUME KnowledgeAssumption ==
    /\ IsFiniteSet(Indexers)
    /\ MaxVersion \in Nat /\ MaxDocs \in Nat
    /\ Blank \subseteq 1..MaxVersion
    /\ "none" \notin Sources \union Syntheses

VARIABLES
    artifact,   \* the content of each artifact: its version, 0 before it exists
    doc,        \* knowledge_documents: source_ref and content (with its checksum)
    chunks,     \* knowledge_chunks by document: the content they were cut from, embedded or not
    indexer     \* the open requests

knowledgeVars == <<artifact, doc, chunks, indexer>>

Refs == Sources \union Syntheses
Docs == 1..MaxDocs
Versions == 0..MaxVersion
NoDoc == [ref |-> "none", version |-> 0]
Idle == [phase |-> "idle", todo |-> {}, ref |-> "none", version |-> 0, found |-> {},
         doc |-> 0, wrote |-> {}]

KnowledgeTypeOK ==
    /\ artifact \in [Sources -> Versions]
    /\ \A d \in Docs : doc[d] = NoDoc \/ doc[d] \in [ref: Refs, version: 1..MaxVersion]
    /\ \A d \in Docs : \A c \in chunks[d] : c.of \in Versions /\ c.embedded \in BOOLEAN
    /\ \A x \in Indexers :
        /\ indexer[x].phase \in {"idle", "next", "read", "found", "flushed"}
        /\ indexer[x].todo \subseteq Refs

KnowledgeInit ==
    /\ artifact = [s \in Sources |-> 0]
    /\ doc = [d \in Docs |-> NoDoc]
    /\ chunks = [d \in Docs |-> {}]
    /\ indexer = [x \in Indexers |-> Idle]

-----------------------------------------------------------------------------
\* A mail arrives, a recommendation changes, an interview goes on.
artifact_changes(s) ==
    /\ artifact[s] < MaxVersion
    /\ artifact' = [artifact EXCEPT ![s] = @ + 1]
    /\ UNCHANGED <<doc, chunks, indexer>>

\* One transaction for everything a reindex finds.
reindex(x) ==
    /\ indexer[x] = Idle
    /\ indexer' = [indexer EXCEPT ![x].phase = "next", ![x].todo = Sources]
    /\ UNCHANGED <<artifact, doc, chunks>>

\* A document that is uploaded with a source_ref, or the day's synthesis.
ingest_one(x, ref) ==
    /\ indexer[x] = Idle
    /\ ref \in Syntheses => \E d \in Docs : doc[d].ref \in Sources
    /\ indexer' = [indexer EXCEPT ![x].phase = "next", ![x].todo = {ref}]
    /\ UNCHANGED <<artifact, doc, chunks>>

\* An artifact that is empty is skipped; a synthesis may turn out anyhow.
read_artifact(x, ref, version) ==
    /\ indexer[x].phase = "next"
    /\ ref \in indexer[x].todo
    /\ version > 0
    /\ ref \in Sources => version = artifact[ref]
    /\ indexer' = [indexer EXCEPT ![x].phase = "read", ![x].ref = ref, ![x].version = version,
                                  ![x].todo = @ \ {ref}]
    /\ UNCHANGED <<artifact, doc, chunks>>

skip_artifact(x, ref) ==
    /\ indexer[x].phase = "next"
    /\ ref \in indexer[x].todo \intersect Sources
    /\ artifact[ref] = 0
    /\ indexer' = [indexer EXCEPT ![x].todo = @ \ {ref}]
    /\ UNCHANGED <<artifact, doc, chunks>>

\* The documents of a source_ref that the database has, or the transaction itself.
DocsOf(ref) == {d \in Docs : doc[d].ref = ref}

lookup(x) ==
    /\ indexer[x].phase = "read"
    /\ indexer' = [indexer EXCEPT ![x].phase = "found",
            ![x].found = {[id |-> d, version |-> doc[d].version] : d \in DocsOf(indexer[x].ref)}]
    /\ UNCHANGED <<artifact, doc, chunks>>

\* scalar_one_or_none raises on a second document: the request fails, with all of it.
lookup_fails(x) ==
    /\ indexer[x].phase = "found"
    /\ Cardinality(indexer[x].found) > 1
    /\ indexer' = [indexer EXCEPT ![x] = Idle]
    /\ UNCHANGED <<artifact, doc, chunks>>

\* The checksum says that nothing has changed: neither document nor chunks are touched,
\* whether or not the chunks have their embeddings.
unchanged(x) ==
    LET i == indexer[x] IN
    /\ i.phase = "found"
    /\ Cardinality(i.found) = 1
    /\ \A f \in i.found : f.version = i.version
    /\ indexer' = [indexer EXCEPT ![x].phase = "next"]
    /\ UNCHANGED <<artifact, doc, chunks>>

WrittenBy(x) == {w.id : w \in indexer[x].wrote} \union {indexer[x].doc}
LockedFor(x, d) == \E y \in Indexers \ {x} : d \in WrittenBy(y)

\* The UPDATE waits for the row; an INSERT takes a row of its own.
flush_document(x, d) ==
    LET i == indexer[x] IN
    /\ i.phase = "found"
    /\ \/ i.found = {} /\ doc[d] = NoDoc
       \/ \E f \in i.found : f.id = d /\ f.version # i.version /\ Cardinality(i.found) = 1
    /\ ~LockedFor(x, d)
    /\ d \notin {w.id : w \in i.wrote}
    /\ indexer' = [indexer EXCEPT ![x].phase = "flushed", ![x].doc = d]
    /\ UNCHANGED <<artifact, doc, chunks>>

\* Chunks are deleted and cut anew, none of a blank text; without the provider, or when
\* it fails, they are stored without embeddings.
rebuild_chunks(x, embedded) ==
    LET i == indexer[x]
        new == [id |-> i.doc, ref |-> i.ref, version |-> i.version, embedded |-> embedded]
    IN /\ i.phase = "flushed"
       /\ indexer' = [indexer EXCEPT ![x].phase = "next", ![x].doc = 0, ![x].wrote = @ \union {new}]
       /\ UNCHANGED <<artifact, doc, chunks>>

Pieces(w) ==
    IF w.version \in Blank THEN {} ELSE {[of |-> w.version, embedded |-> w.embedded]}

\* Variant of ChunksAfter for mutation: the old chunks are not deleted.
ChunksAfterKept(x, d) ==
    chunks[d] \union UNION {Pieces(w) : w \in {v \in indexer[x].wrote : v.id = d}}

ChunksAfter(x, d) ==
    LET mine == {w \in indexer[x].wrote : w.id = d} IN
    IF mine = {} THEN chunks[d] ELSE UNION {Pieces(w) : w \in mine}

DocAfter(x, d) ==
    LET mine == {w \in indexer[x].wrote : w.id = d} IN
    IF mine = {} THEN doc[d]
    ELSE LET w == CHOOSE v \in mine : TRUE IN [ref |-> w.ref, version |-> w.version]

indexer_commit(x) ==
    /\ indexer[x].phase = "next"
    /\ indexer[x].todo = {}
    /\ doc' = [d \in Docs |-> DocAfter(x, d)]
    /\ chunks' = [d \in Docs |-> ChunksAfter(x, d)]
    /\ indexer' = [indexer EXCEPT ![x] = Idle]
    /\ UNCHANGED artifact

\* The client is gone or an adapter raises.
indexer_abort(x) ==
    /\ indexer[x] # Idle
    /\ indexer' = [indexer EXCEPT ![x] = Idle]
    /\ UNCHANGED <<artifact, doc, chunks>>

-----------------------------------------------------------------------------
IndexerStep(x) ==
    \/ \E ref \in Refs, version \in 1..MaxVersion : read_artifact(x, ref, version)
    \/ \E ref \in Sources : skip_artifact(x, ref)
    \/ lookup(x)
    \/ lookup_fails(x)
    \/ unchanged(x)
    \/ \E d \in Docs : flush_document(x, d)
    \/ \E embedded \in BOOLEAN : rebuild_chunks(x, embedded)
    \/ indexer_commit(x)
    \/ indexer_abort(x)

KnowledgeNext ==
    \/ \E s \in Sources : artifact_changes(s)
    \/ \E x \in Indexers : \/ reindex(x)
                           \/ \E ref \in Syntheses : ingest_one(x, ref)
                           \/ IndexerStep(x)

KnowledgeSpec == KnowledgeInit /\ [][KnowledgeNext]_knowledgeVars

-----------------------------------------------------------------------------
(* Properties                                                              *)

\* What retrieval finds is what the document says: a document's chunks are all cut from
\* the content it has, and there are none only of a blank one, although document and chunks
\* are written by several statements of transactions that wait for and overwrite each
\* other.
ChunksMatchDocument ==
    \A d \in Docs : {c.of : c \in chunks[d]} =
        IF doc[d] = NoDoc \/ doc[d].version \in Blank THEN {} ELSE {doc[d].version}

\* Second documents come from races only: a source never has more documents than there
\* are requests that could look for one at the same time, however often it changes, is
\* reindexed or synthesized.
DuplicatesBounded == \A r \in Refs : Cardinality(DocsOf(r)) <= Cardinality(Indexers)

\* The invariant of the company brain: well-formed rows, chunks that say what their
\* document says, and no more duplicates than races.
KnowledgeInv == KnowledgeTypeOK /\ ChunksMatchDocument /\ DuplicatesBounded

=============================================================================
