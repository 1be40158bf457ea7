-------------------------- MODULE KnowledgeDocuments --------------------------
(* The documents a tenant writes in the portal, and what the two retrievals *)
(* find of them: the keyword search, which asks document_state, and the     *)
(* vector search, which looks at manifests, chunks and embeddings           *)
(* (knowledge_base/services/lifecycle.py and manual_rag.py, rag/sync.py and *)
(* indexing.py).                                                            *)
(*                                                                          *)
(* An actor runs one operation at a time: an upsert of the portal or of an  *)
(* import, a manual reindex, or the pipelines of an operation request; the  *)
(* portal's toggle, the admin site and the seed command save a row alone.   *)
(* Each works on the rows it loaded at its start, and every step is one     *)
(* transaction.  The chunks of all documents are rebuilt by one step, which *)
(* remembers whom it raced: two builds of one text, of which the second to  *)
(* insert breaks the chunks' unique constraint.  What two builds of         *)
(* different texts do to each other is in DriveSync.                        *)
(*                                                                          *)
(* An index run has an id, which it saves in the tenant's configuration     *)
(* when it takes its lock and records in a TenantRagIndexRun, unique, when  *)
(* it decides what to embed.  A reindex takes no lock and has no id of its  *)
(* own: it records the one that it finds in the configuration.              *)
(*                                                                          *)
(* A text is known by its version, and so are its fingerprint, its chunks   *)
(* and their embeddings.  The chunking and the embedding configuration do   *)
(* not change.                                                              *)
EXTENDS Naturals, FiniteSets

CONSTANTS
  Doc,        \* the documents
  Actor,      \* the processes that operate on them
  MaxVersion, \* bound: the texts a document may have
  MaxChanges, \* bound: texts and statuses set
  MaxRuns,    \* bound: index runs, of the command or of operation requests
  MaxMishaps  \* bound: processes killed, texts that cannot be cut, exceptions

ASSUME KnowledgeAssumption ==
  /\ IsFiniteSet(Doc)
  /\ MaxVersion \in Nat \ {0}
  /\ MaxChanges \in Nat
  /\ MaxRuns \in Nat
  /\ MaxMishaps \in Nat

Version == 1..MaxVersion
NoVersion == 0
Stamp == Version \cup {NoVersion}

Run == 1..MaxRuns
NoRun == 0

(* KnowledgeDocument.Status and LifecycleStatus; "draft" behaves as archived. *)
DocStatus == {"active", "archived"}
Lifecycle == {"new", "indexing", "indexed", "stale", "failed", "disabled"}
Row == [status : DocStatus, text : Version, content : Stamp, indexed : Stamp,
        lifecycle : Lifecycle]

(* The document's manifest with its staged text, "none" before the first.   *)
ManifestStatus == {"none", "exported", "updated", "unchanged", "removed"}
Manifest == [active : BOOLEAN, sha : Stamp, status : ManifestStatus]

Life == {"none", "active", "inactive"}

VARIABLES
  doc,      \* KnowledgeDocument rows
  manifest, \* TenantRagDriveFileManifest and TenantRagDriveTextStaging rows
  chunk,    \* TenantRagDocumentChunk, by text
  emb,      \* TenantRagChunkEmbedding, by text
  work,     \* what each actor runs, and its locals
  runId,    \* TenantRagConfiguration's last_index_run_id
  runs,     \* the ids of the TenantRagIndexRun rows
  raced,    \* documents whose staged text another build has cut since each
            \* actor's build read what there is
  changes, mishaps,
  excused,  \* history: documents whose row was set alone, or changed while an
            \* operation had it loaded or a build another text of it staged, or
            \* whose operation was killed
  clashed   \* history: documents of which a build lost such a race, or a
            \* reindex found its run's id recorded

documentVars ==
  <<doc, manifest, chunk, emb, work, runId, runs, raced, changes, mishaps, excused, clashed>>

Current(of) == {v \in Version : of[v] = "active"}

Retired(of) == [v \in Version |-> IF of[v] = "active" THEN "inactive" ELSE of[v]]

(* The embeddings of these chunks are retired with them. *)
RetiredOf(of, texts) == [v \in Version |-> IF v \in texts /\ of[v] = "active" THEN "inactive" ELSE of[v]]

(* Mutation: a withdrawn manifest keeps its flags. *)
RemovedInName(row) == row

(* deactivate_manual_document_from_rag's manifest. *)
Removed(row) == IF row.status = "none" THEN row ELSE [row EXCEPT !.active = FALSE, !.status = "removed"]

(* sync_manual_knowledge_document_to_rag for an active document. *)
Staged(row, text) ==
  [active |-> TRUE, sha |-> text,
   status |-> IF row.sha = NoVersion THEN "exported"
              ELSE IF row.sha = text THEN "unchanged" ELSE "updated"]

(* Mutations: the chunks of the earlier text are not retired; a text that   *)
(* was chunked before is not chunked again.                                 *)
ChunkedBeside(of, text) == IF text = NoVersion THEN of ELSE [of EXCEPT ![text] = "active"]
ChunkedOnce(of, text) ==
  IF text = NoVersion \/ of[text] # "none" THEN of ELSE [Retired(of) EXCEPT ![text] = "active"]

(* _process_staging_for_chunks: the chunks of a document with this text     *)
(* staged; a text already chunked keeps its own.                            *)
Chunked(of, text) ==
  IF text = NoVersion \/ Current(of) = {text} THEN of
  ELSE [Retired(of) EXCEPT ![text] = "active"]

(* What the vector search can answer from. *)
Searchable(d) ==
  IF manifest[d].active /\ manifest[d].status # "removed"
  THEN Current(chunk[d]) \cap Current(emb[d]) ELSE {}

(* document_state's usable_for_retrieval, for a row of the document. *)
UsableRow(d, r) ==
  \/ /\ r.status = "active" /\ r.lifecycle = "indexed"
     /\ r.content # NoVersion /\ r.content = r.indexed
     /\ Current(chunk[d]) # {} /\ Cardinality(Current(emb[d])) >= Cardinality(Current(chunk[d]))
     /\ manifest[d].active
  \/ /\ r.status = "active" /\ r.content = NoVersion /\ r.lifecycle = "new"
     /\ manifest[d].status = "none"

Usable(d) == UsableRow(d, doc[d])

(* Mutation: the embeddings are not asked for. *)
CompleteByChunks(d) == manifest[d].active /\ Current(chunk[d]) # {}

(* _has_complete_active_index. *)
CompleteIndex(d) ==
  /\ manifest[d].active /\ manifest[d].status # "removed"
  /\ Current(chunk[d]) # {} /\ Current(chunk[d]) \subseteq Current(emb[d])

(* The row an upsert writes. *)
Upserted(r, text, status) ==
  [r EXCEPT !.status = status, !.text = text, !.content = text,
            !.lifecycle = IF r.indexed \notin {NoVersion, text} \/ status = "active"
                          THEN "stale" ELSE "disabled"]

(* The row it writes once the document is synchronised. *)
Judged(d, r) ==
  IF r.status # "active" THEN [r EXCEPT !.lifecycle = "disabled"]
  ELSE LET fresh == [r EXCEPT !.content = r.text]
       IN [fresh EXCEPT !.lifecycle = IF r.indexed = r.text /\ UsableRow(d, fresh)
                                      THEN "indexed" ELSE "stale"]

(* Mutation: the fingerprint of what the row has when the index is complete. *)
IndexedRowAsFound(r, loaded) == [r EXCEPT !.indexed = r.content, !.lifecycle = "indexed"]

(* The row a reindex writes when its index is complete: the fingerprints    *)
(* are of the text it loaded.                                               *)
IndexedRow(r, loaded) ==
  [r EXCEPT !.content = loaded.text, !.indexed = loaded.text, !.lifecycle = "indexed"]

Blank == [status |-> "active", text |-> 1, content |-> NoVersion, indexed |-> NoVersion,
          lifecycle |-> "new"]

(* An operation: the documents it works on with the rows it loaded, those   *)
(* left to synchronise, the staged texts of its chunk build, the id its     *)
(* index run is to record, and the chunks it found without an embedding.    *)
NoOp == [name |-> "none", at |-> "idle", docs |-> {}, loaded |-> [d \in Doc |-> Blank],
         todo |-> {}, staged |-> [d \in Doc |-> NoVersion], run |-> NoRun,
         pending |-> [d \in Doc |-> {}], failed |-> FALSE]

(* What an operation does once its documents are synchronised. *)
AfterSync == [upsert |-> "judge", reindex |-> "stage", pipeline |-> "stage"]

(* A document as an import or the portal leaves it, and as the seed command *)
(* or the admin site does, which synchronise nothing.                       *)
Imported == [Blank EXCEPT !.content = 1, !.lifecycle = "stale"]

DocumentsInit ==
  /\ doc \in [Doc -> {Blank, Imported}]
  /\ manifest = [d \in Doc |-> IF doc[d] = Imported
                               THEN [active |-> TRUE, sha |-> 1, status |-> "exported"]
                               ELSE [active |-> FALSE, sha |-> NoVersion, status |-> "none"]]
  /\ chunk = [d \in Doc |-> [v \in Version |-> "none"]]
  /\ emb = [d \in Doc |-> [v \in Version |-> "none"]]
  /\ work = [a \in Actor |-> NoOp]
  /\ runId = NoRun
  /\ runs = {}
  /\ raced = [a \in Actor |-> {}]
  /\ changes = 0
  /\ mishaps = 0
  /\ excused = {}
  /\ clashed = {}

-----------------------------------------------------------------------------
(* What an operation uses of a row it loaded. *)
Loaded(r) == [Blank EXCEPT !.status = r.status, !.text = r.text]

(* a begins an operation on docs with the rows they have now, and a reindex *)
(* with the configuration's.                                                *)
Begin(a, name, at, docs, rows) ==
  /\ work[a].at = "idle"
  /\ work' = [work EXCEPT ![a] =
       [NoOp EXCEPT !.name = name, !.at = at, !.docs = docs, !.todo = docs,
                    !.run = IF name = "reindex" THEN runId ELSE NoRun,
                    !.loaded = [d \in Doc |-> IF d \in docs THEN Loaded(rows[d]) ELSE Blank]]]

Goes(a, at) == work' = [work EXCEPT ![a] = IF at = "idle" THEN NoOp ELSE [@ EXCEPT !.at = at]]

(* A document's text or status is set. *)
Change(d, row) ==
  /\ changes < MaxChanges
  /\ changes' = changes + 1
  /\ doc' = [doc EXCEPT ![d] = row]

(* The one document a reindex or an upsert is about. *)
Its(a) == CHOOSE d \in work[a].docs : TRUE

ids == <<runId, runs>>

Excuse(d, when) == excused' = IF when THEN excused \cup {d} ELSE excused

Held(a, d) == \E b \in Actor \ {a} : d \in work[b].docs

(* Another build of chunks, for whatever document, has a different text of  *)
(* this one at hand.                                                        *)
OtherStaged(a, d, text) ==
  \E b \in Actor \ {a} : work[b].at = "chunk" /\ work[b].staged[d] \notin {NoVersion, text}

(* upsert_document's transaction; a document that is as asked is left so.   *)
Upsert(a, d, text, status) ==
  /\ ~(doc[d].text = text /\ doc[d].status = status /\ doc[d].content = text)
  /\ Change(d, Upserted(doc[d], text, status))
  /\ Begin(a, "upsert", "sync", {d}, doc')
  /\ Excuse(d, Held(a, d))
  /\ UNCHANGED <<manifest, chunk, emb, mishaps, raced, clashed, ids>>

(* The portal's document toggle, the admin's form and actions and the seed  *)
(* command write the row alone.                                             *)
SetAlone(d, text, status) ==
  /\ doc[d].text # text \/ doc[d].status # status
  /\ Change(d, [doc[d] EXCEPT !.text = text, !.status = status])
  /\ Excuse(d, TRUE)
  /\ UNCHANGED <<manifest, chunk, emb, work, mishaps, raced, clashed, ids>>

(* A reindex of an archived document ends at once. *)
BeginReindex(a, d) ==
  /\ doc[d].status = "active"
  /\ Begin(a, "reindex", "mark", {d}, doc)
  /\ UNCHANGED <<doc, manifest, chunk, emb, changes, mishaps, excused, raced, clashed, ids>>

(* A build of chunks as an operation request does it, and as the command    *)
(* and a synchronisation of Drive do, which leave the documents as staged.  *)
StartPipeline(a) ==
  /\ \A c \in Actor : work[c].name # "pipeline"
  /\ Begin(a, "pipeline", "sync", Doc, doc) \/ Begin(a, "pipeline", "stage", {}, doc)
  /\ UNCHANGED <<doc, manifest, chunk, emb, changes, mishaps, excused, raced, clashed, ids>>

(* acquire_tenant_index_lock: one index run at a time, under a new id. *)
StartIndex(a) ==
  /\ \A c \in Actor : work[c].name # "index"
  /\ work[a].at = "idle"
  /\ runId < MaxRuns
  /\ runId' = runId + 1
  /\ work' = [work EXCEPT ![a] = [NoOp EXCEPT !.name = "index", !.at = "decide", !.run = runId']]
  /\ UNCHANGED <<doc, manifest, chunk, emb, changes, mishaps, excused, raced, clashed, runs>>

-----------------------------------------------------------------------------
(* sync_manual_knowledge_document_to_rag with the row that was loaded. *)
SyncManual(a, d) ==
  /\ work[a].at = "sync" /\ d \in work[a].todo
  /\ LET row == work[a].loaded[d] IN
     IF row.status = "active"
     THEN /\ manifest' = [manifest EXCEPT ![d] = Staged(@, row.text)]
          /\ Excuse(d, OtherStaged(a, d, row.text))
          /\ UNCHANGED <<chunk, emb>>
     ELSE /\ manifest' = [manifest EXCEPT ![d] = Removed(@)]
          /\ UNCHANGED excused
          /\ chunk' = [chunk EXCEPT ![d] = Retired(@)]
          /\ emb' = [emb EXCEPT ![d] = RetiredOf(@, Current(chunk[d]))]
  /\ work' = [work EXCEPT ![a] =
       IF work[a].todo # {d} THEN [work[a] EXCEPT !.todo = work[a].todo \ {d}]
       ELSE [work[a] EXCEPT !.todo = {}, !.at = AfterSync[work[a].name]]]
  /\ UNCHANGED <<doc, changes, mishaps, raced, clashed, ids>>

(* The upsert reads its document again, judges it, and saves the verdict.   *)
Judge(a) ==
  /\ work[a].at = "judge"
  /\ work' = [work EXCEPT ![a].at = "save", ![a].loaded[Its(a)] = Judged(Its(a), doc[Its(a)])]
  /\ UNCHANGED <<doc, manifest, chunk, emb, changes, mishaps, excused, raced, clashed, ids>>

SaveJudged(a) ==
  /\ work[a].at = "save"
  /\ LET d == Its(a)  row == work[a].loaded[d] IN
     doc' = [doc EXCEPT ![d].lifecycle = row.lifecycle,
                        ![d].content = IF row.status = "active" THEN row.content ELSE @]
  /\ Goes(a, "idle")
  /\ UNCHANGED <<manifest, chunk, emb, changes, mishaps, excused, raced, clashed, ids>>

MarkIndexing(a) ==
  /\ work[a].at = "mark"
  /\ doc' = [doc EXCEPT ![Its(a)].lifecycle = "indexing"]
  /\ Goes(a, "sync")
  /\ UNCHANGED <<manifest, chunk, emb, changes, mishaps, excused, raced, clashed, ids>>

(* run_chunk_build_for_tenant loads what is staged ... *)
LoadStaged(a) ==
  /\ work[a].at = "stage"
  /\ work' = [work EXCEPT ![a].at = "chunk",
                      ![a].staged = [d \in Doc |-> IF manifest[d].active THEN manifest[d].sha
                                                   ELSE NoVersion]]
  /\ UNCHANGED <<doc, manifest, chunk, emb, changes, mishaps, excused, raced, clashed, ids>>

(* This step makes the chunks of a document with this text active. *)
Activates(d, text) ==
  text # NoVersion /\ chunk[d][text] # "active" /\ chunk'[d][text] = "active"

(* ... and rebuilds the chunks of every document of the tenant from it; a   *)
(* text that cannot be cut, or has more chunks than allowed, leaves those   *)
(* there are and fails the build; so does one that another build cut since  *)
(* this one read, when its chunks are inserted a second time.               *)
BuildChunks(a, failing) ==
  /\ work[a].at = "chunk"
  /\ failing \subseteq raced[a] \/ mishaps < MaxMishaps
  /\ mishaps' = IF failing \subseteq raced[a] THEN mishaps ELSE mishaps + 1
  /\ clashed' = clashed \cup (failing \cap raced[a])
  /\ LET built(d) == IF d \in failing THEN chunk[d] ELSE Chunked(chunk[d], work[a].staged[d])
     IN /\ \A d \in failing \ raced[a] : chunk[d] # Chunked(chunk[d], work[a].staged[d])
        /\ chunk' = [d \in Doc |-> IF manifest[d].active THEN built(d) ELSE Retired(built(d))]
  /\ raced' = [b \in Actor |->
       IF b = a \/ work[b].at # "chunk" THEN {}
       ELSE raced[b] \cup {d \in Doc : Activates(d, work[b].staged[d])}]
  /\ work' = [work EXCEPT ![a] =
       IF work[a].name = "pipeline" THEN NoOp
       ELSE [@ EXCEPT !.at = "decide", !.staged = NoOp.staged, !.failed = failing # {}]]
  /\ UNCHANGED <<doc, manifest, emb, changes, excused, ids>>

(* run_index_for_tenant records its run.  _decide_pending: the chunks to    *)
(* embed, of the reindex's document or of all; and the embeddings whose     *)
(* chunk is inactive, of all, are retired.                                  *)
Decide(a) ==
  /\ work[a].at = "decide" /\ work[a].run \notin runs
  /\ runs' = runs \cup ({work[a].run} \ {NoRun})
  /\ work' = [work EXCEPT ![a].at = "embed", ![a].run = NoRun,
        ![a].pending = [d \in Doc |-> IF work[a].name = "reindex" /\ d # Its(a) THEN {}
                                      ELSE Current(chunk[d]) \ Current(emb[d])]]
  /\ emb' = [d \in Doc |-> RetiredOf(emb[d], Version \ Current(chunk[d]))]
  /\ UNCHANGED <<doc, manifest, chunk, changes, mishaps, excused, raced, clashed, runId>>

AfterIndex(a, failed) ==
  work' = [work EXCEPT ![a] = IF work[a].name = "index" THEN NoOp
                          ELSE [work[a] EXCEPT !.at = "verify", !.run = NoRun,
                                               !.pending = NoOp.pending,
                                               !.failed = work[a].failed \/ failed]]

(* Its id is recorded already: a reindex found that of an earlier index     *)
(* run, or an index run lost its own to a reindex.                          *)
RunTaken(a) ==
  /\ work[a].at = "decide" /\ work[a].run \in runs
  /\ AfterIndex(a, TRUE)
  /\ clashed' = clashed \cup work[a].docs
  /\ UNCHANGED <<doc, manifest, chunk, emb, changes, mishaps, excused, raced, ids>>

(* _persist_embedding does not ask whether the chunk is still active. *)
Embed(a) ==
  /\ work[a].at = "embed"
  /\ emb' = [d \in Doc |-> [v \in Version |-> IF v \in work[a].pending[d] THEN "active"
                                              ELSE emb[d][v]]]
  /\ AfterIndex(a, FALSE)
  /\ UNCHANGED <<doc, manifest, chunk, changes, mishaps, excused, raced, clashed, ids>>

(* An exception of an index run, or anywhere in a reindex: a refused or     *)
(* failing provider, an index that is disabled or of another schema, a      *)
(* failing statement.                                                       *)
Breaks(a) ==
  /\ \/ work[a].name = "reindex" /\ work[a].at \notin {"verify", "hide"}
     \/ work[a].name = "index"
  /\ mishaps < MaxMishaps
  /\ mishaps' = mishaps + 1
  /\ work' = [work EXCEPT ![a] =
       IF work[a].name = "index" THEN NoOp
       ELSE [@ EXCEPT !.at = "verify", !.todo = {}, !.staged = NoOp.staged, !.run = NoRun,
                      !.pending = NoOp.pending, !.failed = TRUE]]
  /\ raced' = [raced EXCEPT ![a] = {}]
  /\ UNCHANGED <<doc, manifest, chunk, emb, changes, excused, clashed, ids>>

Succeeds(a) == ~work[a].failed /\ CompleteIndex(Its(a))

FinishReindex(a) ==
  /\ work[a].at = "verify" /\ Succeeds(a)
  /\ doc' = [doc EXCEPT ![Its(a)] = IndexedRow(@, work[a].loaded[Its(a)])]
  /\ Goes(a, "idle")
  /\ UNCHANGED <<manifest, chunk, emb, changes, mishaps, excused, raced, clashed, ids>>

(* The same save, and its audit event is refused: an exception like any.    *)
FinishUnrecorded(a) ==
  /\ work[a].at = "verify" /\ Succeeds(a)
  /\ doc' = [doc EXCEPT ![Its(a)] = IndexedRow(@, work[a].loaded[Its(a)])]
  /\ work' = [work EXCEPT ![a].failed = TRUE]
  /\ mishaps < MaxMishaps
  /\ mishaps' = mishaps + 1
  /\ UNCHANGED <<manifest, chunk, emb, changes, excused, raced, clashed, ids>>

(* document_index_incomplete, or an exception: the row is marked failed ... *)
FailReindex(a) ==
  /\ work[a].at = "verify" /\ ~Succeeds(a)
  /\ doc' = [doc EXCEPT ![Its(a)].lifecycle = "failed"]
  /\ Goes(a, "hide")
  /\ UNCHANGED <<manifest, chunk, emb, changes, mishaps, excused, raced, clashed, ids>>

(* ... and its chunks and their embeddings are withdrawn. *)
HideChunks(a) ==
  /\ work[a].at = "hide"
  /\ LET d == Its(a) IN
     /\ chunk' = [chunk EXCEPT ![d] = Retired(@)]
     /\ emb' = [emb EXCEPT ![d] = RetiredOf(@, Current(chunk[d]))]
  /\ Goes(a, "idle")
  /\ UNCHANGED <<doc, manifest, changes, mishaps, excused, raced, clashed, ids>>

Killed(a) ==
  /\ work[a].at # "idle"
  /\ mishaps < MaxMishaps
  /\ mishaps' = mishaps + 1
  /\ Goes(a, "idle")
  /\ excused' = excused \cup work[a].docs
  /\ raced' = [raced EXCEPT ![a] = {}]
  /\ UNCHANGED <<doc, manifest, chunk, emb, changes, clashed, ids>>

Step(a) ==
  \/ \E d \in Doc, text \in Version, status \in DocStatus : Upsert(a, d, text, status)
  \/ \E d \in Doc : BeginReindex(a, d)
  \/ StartPipeline(a) \/ StartIndex(a)
  \/ \E d \in Doc : SyncManual(a, d)
  \/ Judge(a) \/ SaveJudged(a) \/ MarkIndexing(a) \/ LoadStaged(a)
  \/ \E failing \in SUBSET Doc : BuildChunks(a, failing)
  \/ Decide(a) \/ RunTaken(a) \/ Embed(a) \/ Breaks(a)
  \/ FinishReindex(a) \/ FinishUnrecorded(a) \/ FailReindex(a) \/ HideChunks(a)
  \/ Killed(a)

DocumentsNext ==
  \/ \E a \in Actor : Step(a)
  \/ \E d \in Doc, text \in Version, status \in DocStatus : SetAlone(d, text, status)

DocumentsSpec == DocumentsInit /\ [][DocumentsNext]_documentVars

-----------------------------------------------------------------------------
(* Every variable keeps the values its columns and locals may have. *)
KnowledgeTypeOK ==
  /\ doc \in [Doc -> Row]
  /\ manifest \in [Doc -> Manifest]
  /\ chunk \in [Doc -> [Version -> Life]]
  /\ emb \in [Doc -> [Version -> Life]]
  /\ \A a \in Actor :
       /\ work[a].at \in {"idle", "mark", "sync", "judge", "save", "stage", "chunk",
                        "decide", "embed", "verify", "hide"}
       /\ work[a].loaded \in [Doc -> Row]
       /\ work[a].todo \subseteq work[a].docs /\ work[a].docs \subseteq Doc
       /\ work[a].staged \in [Doc -> Stamp]
       /\ work[a].pending \in [Doc -> SUBSET Version]
       /\ work[a].run \in Run \cup {NoRun}
  /\ changes \in 0..MaxChanges /\ mishaps \in 0..MaxMishaps
  /\ raced \in [Actor -> SUBSET Doc]
  /\ runId \in Run \cup {NoRun} /\ runs \subseteq Run
  /\ excused \subseteq Doc /\ clashed \subseteq Doc

AtRest(d) == \A a \in Actor : d \notin work[a].docs

(* An archived document is not found by the vector search, once no          *)
(* operation works on it, unless its row was set alone, changed under an    *)
(* operation that had it loaded or a build that had it staged, or an        *)
(* operation on it was killed (deactivate_manual_document_from_rag).        *)
ArchivedIsSilent ==
  \A d \in Doc : doc[d].status = "archived" /\ AtRest(d) =>
    Searchable(d) = {} \/ d \in excused

(* When the keyword search takes a document as indexed, the vector search   *)
(* finds no text of it but the one of its row; and it finds that one unless *)
(* there was a mishap or a clash, for a reindex may then have withdrawn the *)
(* chunks, and the embeddings counted may be of retired ones: same          *)
(* exceptions (reindex_document, document_state).                           *)
UsableIsCurrent ==
  \A d \in Doc : Usable(d) /\ doc[d].lifecycle = "indexed" =>
    \/ /\ Searchable(d) \subseteq {doc[d].text}
       /\ Searchable(d) = {} => mishaps > 0 \/ clashed # {}
    \/ d \in excused

(* A reindex marks its document failed, and withdraws it, only for a cause: *)
(* a process killed, a text that cannot be cut, an exception, the row       *)
(* changed under the reindex, a build that lost the race of inserting       *)
(* chunks another had inserted, or an index run whose id the reindex found  *)
(* in the configuration and recorded already.  Nothing else that crosses it *)
(* undoes what it has synchronised, cut and embedded (reindex_document,     *)
(* _has_complete_active_index).                                             *)
FailsForCause ==
  [][\A d \in Doc : doc'[d].lifecycle = "failed" /\ doc[d].lifecycle # "failed" =>
       d \in excused \/ mishaps > 0 \/ clashed # {}]_documentVars
=============================================================================
