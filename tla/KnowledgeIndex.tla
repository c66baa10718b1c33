---------------------------- MODULE KnowledgeIndex ----------------------------
(***************************************************************************)
(* The knowledge base: documents on disk and the SQLite index of them.  The*)
(* tool brings the index up to date before it searches; the admin page's   *)
(* reindex does the same in a thread, over the same connection, so that the*)
(* statements of both form one transaction.  A document's version stands   *)
(* for its text and for its modification time.                             *)
(***************************************************************************)
EXTENDS Naturals

CONSTANTS
    Doc,
    MaxVersion,   \* bound on the writes of a document
    MaxReindex    \* bound on the admin page's reindexes

ASSUME KnowledgeAssumption == MaxVersion \in Nat \ {0} /\ MaxReindex \in Nat

Indexer == {"tool", "admin"}
NoRow == [mtime |-> 0, chunks |-> 0]

VARIABLES
    file,      \* version on disk, 0 for none
    written,   \* versions written so far
    row, saved,  \* the index as the connection sees it, and as committed
    step,        \* step of each indexer
    left,      \* documents an indexer still has to look at
    doc, mtime, text,  \* what it is ingesting: document, st_mtime, parsed version
    reindexes,
    raced      \* two ingests have overlapped (history)

knowledgeVars == <<file, written, row, saved, step, left, doc, mtime, text, reindexes, raced>>
disk == <<file, written>>
index == <<row, saved>>

KnowledgeInit ==
    /\ file = [d \in Doc |-> 1] /\ written = file
    /\ row = [d \in Doc |-> NoRow] /\ saved = row
    /\ step = [i \in Indexer |-> "idle"]
    /\ left = [i \in Indexer |-> {}]
    /\ doc \in [Indexer -> Doc] /\ doc["tool"] = doc["admin"]
    /\ mtime = [i \in Indexer |-> 0] /\ text = mtime
    /\ reindexes = 0
    /\ raced = FALSE

\* Someone saves or removes a document.
WriteFile(d) ==
    /\ written[d] < MaxVersion
    /\ written' = [written EXCEPT ![d] = @ + 1]
    /\ file' = [file EXCEPT ![d] = written'[d]]
    /\ UNCHANGED <<index, step, left, doc, mtime, text, reindexes, raced>>
RemoveFile(d) ==
    /\ file[d] > 0
    /\ file' = [file EXCEPT ![d] = 0]
    /\ UNCHANGED <<written, index, step, left, doc, mtime, text, reindexes, raced>>

Moves(i, s) == step' = [step EXCEPT ![i] = s]
DoneWith(i, s) ==
    /\ Moves(i, s)
    /\ mtime' = [mtime EXCEPT ![i] = 0] /\ text' = [text EXCEPT ![i] = 0]

Lists(i) ==
    /\ step[i] = "idle"
    /\ Moves(i, "next")
    /\ left' = [left EXCEPT ![i] = {d \in Doc : file[d] > 0}]
    /\ UNCHANGED <<disk, index, doc, mtime, text, raced>>
Reindex == Lists("admin") /\ reindexes < MaxReindex /\ reindexes' = reindexes + 1

Ingesting(i) == step[i] \in {"parse", "delete", "upsert", "insert", "commit"}

\* ingest_document: the modification time is read first; a document that is
\* indexed with it is skipped, unless the reindex forces it.
Examine(i, d) ==
    /\ step[i] = "next" /\ d \in left[i]
    /\ left' = [left EXCEPT ![i] = @ \ {d}]
    /\ IF i = "tool" /\ file[d] > 0 /\ row[d].mtime = file[d]
       THEN UNCHANGED <<step, doc, mtime, raced>>
       ELSE /\ Moves(i, "parse")
            /\ doc' = [doc EXCEPT ![i] = d]
            /\ mtime' = [mtime EXCEPT ![i] = file[d]]
            /\ raced' = (raced \/ \E j \in Indexer \ {i} : Ingesting(j))
    /\ UNCHANGED <<disk, index, text, reindexes>>

\* A document that is gone, empty or undecodable: the importer notes the failure
\* and goes on, the tool's whole query fails.
Gone(i) == mtime[i] = 0 \/ file[doc[i]] = 0
Parse(i) ==
    /\ step[i] = "parse" /\ ~Gone(i)
    /\ text' = [text EXCEPT ![i] = file[doc[i]]]
    /\ Moves(i, "delete")
    /\ UNCHANGED <<disk, index, left, doc, mtime, reindexes, raced>>
ParseFails(i) ==
    /\ step[i] = "parse"
    /\ DoneWith(i, IF i = "tool" THEN "failed" ELSE "next")
    /\ UNCHANGED <<disk, index, left, doc, reindexes, raced>>

\* Mutant of UpsertDocument: the modification time is read when it is stored.
UpsertDocumentLate(i) ==
    /\ step[i] = "upsert" /\ Moves(i, "insert")
    /\ row' = [row EXCEPT ![doc[i]].mtime = file[doc[i]]]
    /\ UNCHANGED <<disk, saved, left, doc, mtime, text, reindexes, raced>>

\* replace_document, statement by statement.
DeleteChunks(i) ==
    /\ step[i] = "delete" /\ Moves(i, "upsert")
    /\ row' = [row EXCEPT ![doc[i]].chunks = 0]
    /\ UNCHANGED <<disk, saved, left, doc, mtime, text, reindexes, raced>>

UpsertDocument(i) ==
    /\ step[i] = "upsert" /\ Moves(i, "insert")
    /\ row' = [row EXCEPT ![doc[i]].mtime = mtime[i]]
    /\ UNCHANGED <<disk, saved, left, doc, mtime, text, reindexes, raced>>
\* Chunks of the document that are there by now violate the primary key; the
\* rollback takes back what the connection has not committed, whoever did it.
InsertChunks(i) ==
    /\ step[i] = "insert"
    /\ IF row[doc[i]].chunks = 0
       THEN row' = [row EXCEPT ![doc[i]].chunks = text[i]] /\ Moves(i, "commit") /\ UNCHANGED <<mtime, text>>
       ELSE row' = saved /\ DoneWith(i, IF i = "tool" THEN "failed" ELSE "next")
    /\ UNCHANGED <<disk, saved, left, doc, reindexes, raced>>
Commit(i) ==
    /\ step[i] = "commit" /\ DoneWith(i, "next")
    /\ saved' = row
    /\ UNCHANGED <<disk, row, left, doc, reindexes, raced>>

Ingest(i) ==
    \/ \E d \in Doc : Examine(i, d)
    \/ Parse(i) \/ ParseFails(i)
    \/ DeleteChunks(i) \/ UpsertDocument(i) \/ InsertChunks(i) \/ Commit(i)

ReindexEnds ==
    /\ step["admin"] = "next" /\ left["admin"] = {} /\ Moves("admin", "idle")
    /\ UNCHANGED <<disk, index, left, doc, mtime, text, reindexes, raced>>

\* What a search can find: chunks of the documents, deleted ones included.
Found == {<<d, row[d].chunks>> : d \in {e \in Doc : row[e].chunks > 0}}
ToolIndexed == step["tool"] = "next" /\ left["tool"] = {}
ToolLeaves ==
    /\ Moves("tool", "idle")
    /\ UNCHANGED <<disk, index, left, doc, mtime, text, reindexes, raced>>

\* The process ends between two statements: what is not committed is lost.
KnowledgeCrash ==
    /\ row' = saved
    /\ step' = [i \in Indexer |-> "idle"]
    /\ left' = [i \in Indexer |-> {}]
    /\ mtime' = [i \in Indexer |-> 0] /\ text' = mtime'
    /\ UNCHANGED <<disk, saved, doc, reindexes, raced>>

KnowledgeTypeOK ==
    /\ file \in [Doc -> 0..MaxVersion] /\ written \in [Doc -> 1..MaxVersion]
    /\ row \in [Doc -> [mtime : 0..MaxVersion, chunks : 0..MaxVersion]]
    /\ saved \in [Doc -> [mtime : 0..MaxVersion, chunks : 0..MaxVersion]]
    /\ step \in [Indexer -> {"idle", "next", "parse", "delete", "upsert", "insert", "commit", "failed"}]
    /\ left \in [Indexer -> SUBSET Doc]
    /\ doc \in [Indexer -> Doc]
    /\ mtime \in [Indexer -> 0..MaxVersion] /\ text \in [Indexer -> 0..MaxVersion]
===============================================================================
