------------------------------ MODULE DriveSync ------------------------------
(* The files of a tenant's approved Drive folder, from the listing to the   *)
(* chunks the retrieval searches (knowledge_base/rag/sync.py).              *)
(*                                                                          *)
(* A locked operation of the tenant is one of the three modes of            *)
(* sync_tenant_rag: it inventories the folder, inventories and exports, or  *)
(* builds the chunks.  RagOperations shows that these exclude each other    *)
(* while their lock lasts, so one process, Pipe, runs them one by one.  A   *)
(* manual reindex builds chunks too, for all the files of the tenant, and   *)
(* takes no lock.                                                           *)
(*                                                                          *)
(* A text is known by its version: the version is also the modified time    *)
(* Drive gives the file, and the sha256 of its normalised text.  The        *)
(* manifest's hash and the staged text are written by one transaction, so   *)
(* sha stands for both.                                                     *)
EXTENDS Naturals, FiniteSets

CONSTANTS
  File,        \* the files of the folder, listed or not
  Pipe,        \* the process that runs the locked operations
  Reindexer,   \* the manual reindexes
  MaxVersion,  \* bound: the last version a file reaches
  MaxMishaps,  \* bound: files removed or restored, and processes killed
  TooLong,     \* the <<file, version>> with more chunks than a document may have
  Blank        \* the <<file, version>> whose text is blank: there is no chunk to make

ASSUME DriveAssumption ==
  /\ IsFiniteSet(File)
  /\ Pipe \notin Reindexer
  /\ MaxVersion \in Nat \ {0}
  /\ MaxMishaps \in Nat

Version == 1..MaxVersion
NoVersion == 0
Stamp == Version \cup {NoVersion}
Builder == Reindexer \cup {Pipe}
Mode == {"inventory_only", "export_text", "build_chunks"}

(* What the sync makes of a file by its type and its name. *)
Kind == {"text", "shortcut", "temporary", "unsupported"}
SkippedAs == [shortcut    |-> "unavailable",
              temporary   |-> "skipped_temporary_artifact",
              unsupported |-> "skipped_unsupported"]

(* TenantRagDriveFileManifest.Status, and "none" for a file with no row. *)
Status == {"none", "discovered", "exported", "updated", "unchanged", "removed",
           "failed", "unavailable", "skipped_temporary_artifact", "skipped_unsupported"}

NoRow == [active |-> FALSE, modified |-> NoVersion, sha |-> NoVersion, status |-> "none"]

(* Files come in the order of their Drive ids. *)
First(files) == CHOOSE f \in files : TRUE

(* A builder's progress: the staged texts it loaded at its start, the file  *)
(* it is at, the versions its first statement saw active, those of them it  *)
(* has locked and deactivates, and whether a set of chunks can be reused.   *)
Idle == [at |-> "idle", staged |-> [f \in File |-> NoVersion], file |-> First(File),
         saw |-> {}, locked |-> {}, reuse |-> FALSE, failed |-> FALSE]

NoPass == [at |-> "idle", mode |-> "inventory_only", listed |-> [f \in File |-> NoVersion],
           todo |-> {}, file |-> First(File),
           modified |-> NoVersion, sha |-> NoVersion, text |-> NoVersion, failed |-> FALSE]

VARIABLES
  drive,      \* the folder itself: whether a file is there, and its version
  kind,       \* the type of each file
  manifest,   \* TenantRagDriveFileManifest and TenantRagDriveTextStaging rows
  chunks,     \* TenantRagDocumentChunk: the set of chunks of each version
  pass,       \* the inventory that Pipe is running
  build,      \* the chunk builds
  mishaps,    \* drops and crashes so far
  overlooked, \* history: listed versions noted in the manifest and not exported
  crossed,    \* history: files whose chunks two builds were rebuilding together
  alone       \* history: builds during which nothing else ran

vars == <<drive, kind, manifest, chunks, pass, build, mishaps, overlooked, crossed, alone>>

Active(f) == {v \in Version : chunks[f][v] = "active"}

(* Mutations: the modified time not looked at, a set of chunks compared by  *)
(* one member, the old chunks left active, and a set that exists not        *)
(* reactivated.                                                             *)
AppearsNew(modified, sha, listed) == sha = NoVersion
SameVersionAmong(active, staged) == staged \in active
RebuiltBeside(of, replaced, staged) == [of EXCEPT ![staged] = "active"]
RebuiltIfNew(of, replaced, staged) ==
  [v \in Version |-> IF v = staged /\ of[v] = "none" THEN "active"
                     ELSE IF v \in replaced THEN "replaced" ELSE of[v]]

(* get_or_create's new row, or the assignments to the row that was there:   *)
(* the modified time is saved now, whatever becomes of the export.          *)
Seen(row, listed) ==
  [row EXCEPT !.active = TRUE, !.modified = listed,
              !.status = IF row.status = "none" THEN "discovered" ELSE row.status]

(* _document_appears_changed, on what the row held before this pass. *)
AppearsChanged(modified, sha, listed) == sha = NoVersion \/ modified # listed

(* The status of a row whose text was just exported. *)
ExportedAs(row) == IF row.sha = NoVersion THEN "exported" ELSE "updated"

(* mark_manifests_as_removed_if_missing. *)
MissingMarked(rows, listed) ==
  [f \in File |->
     IF rows[f].active /\ listed[f] = NoVersion
     THEN [rows[f] EXCEPT !.active = FALSE, !.status = "removed"]
     ELSE rows[f]]

(* same_version: every active chunk is of the staged text. *)
SameVersion(active, staged) == active # {} /\ active \subseteq {staged}

(* The chunks of f after a rebuild from the staged text: those that were    *)
(* active are replaced, and the staged text's are reactivated or created.   *)
Rebuilt(of, replaced, staged) ==
  [v \in Version |-> IF v = staged THEN "active"
                     ELSE IF v \in replaced THEN "replaced" ELSE of[v]]

Init ==
  /\ drive = [f \in File |-> [there |-> TRUE, version |-> 1]]
  /\ kind \in [File -> Kind]
  /\ \E f \in File : kind[f] = "text"
  /\ manifest = [f \in File |-> NoRow]
  /\ chunks = [f \in File |-> [v \in Version |-> "none"]]
  /\ pass = NoPass
  /\ build = [b \in Builder |-> Idle]
  /\ mishaps = 0
  /\ overlooked = [f \in File |-> {}]
  /\ crossed = {}
  /\ alone = {}

-----------------------------------------------------------------------------
(* The folder's owner. *)

Edit(f) ==
  /\ drive[f].there
  /\ drive[f].version < MaxVersion
  /\ drive' = [drive EXCEPT ![f].version = @ + 1]
  /\ UNCHANGED <<kind, manifest, chunks, pass, build, mishaps, overlooked, crossed, alone>>

Drop(f) ==
  /\ mishaps < MaxMishaps
  /\ mishaps' = mishaps + 1
  /\ drive' = [drive EXCEPT ![f].there = ~@]
  /\ UNCHANGED <<kind, manifest, chunks, pass, build, overlooked, crossed, alone>>

-----------------------------------------------------------------------------
(* run_sync_for_inventory. *)

PipeFree == pass.at = "idle" /\ build[Pipe].at = "idle"

(* The folder is listed.  The requests of the traversal are one step. *)
StartPass(mode) ==
  /\ PipeFree
  /\ mode \in Mode \ {"build_chunks"}
  /\ pass' = [NoPass EXCEPT !.at = "scan", !.mode = mode,
                            !.todo = {f \in File : drive[f].there},
                            !.listed = [f \in File |-> IF drive[f].there THEN drive[f].version
                                                       ELSE NoVersion]]
  /\ alone' = {}
  /\ UNCHANGED <<drive, kind, manifest, chunks, build, mishaps, overlooked, crossed>>

(* The first save of a file's row. *)
Observe(f) ==
  /\ pass.at = "scan" /\ pass.todo # {} /\ f = First(pass.todo)
  /\ manifest' = [manifest EXCEPT ![f] = Seen(@, pass.listed[f])]
  /\ pass' = [pass EXCEPT !.at = "item", !.todo = @ \ {f}, !.file = f,
                          !.modified = manifest[f].modified, !.sha = manifest[f].sha]
  /\ UNCHANGED <<drive, kind, chunks, build, mishaps, overlooked, crossed, alone>>

Onward(failed) ==
  [NoPass EXCEPT !.at = "scan", !.mode = pass.mode, !.listed = pass.listed, !.todo = pass.todo,
                 !.failed = failed]

(* The row's second save, and the next file: for a file that is not text,   *)
(* in an inventory, and for a file that appears unchanged.                  *)
SetStatus(status) ==
  /\ manifest' = [manifest EXCEPT ![pass.file].status = status]
  /\ pass' = Onward(pass.failed)
  /\ UNCHANGED <<drive, kind, chunks, build, mishaps, crossed, alone>>

(* The file's version is in its row from now on, and its text is not. *)
Overlook ==
  overlooked' = [overlooked EXCEPT ![pass.file] =
    @ \cup (IF kind[pass.file] = "text" THEN {pass.listed[pass.file]} \ {manifest[pass.file].sha}
            ELSE {})]

Skip ==
  /\ pass.at = "item" /\ kind[pass.file] # "text"
  /\ SetStatus(SkippedAs[kind[pass.file]])
  /\ UNCHANGED overlooked

Inventory ==
  /\ pass.at = "item" /\ kind[pass.file] = "text" /\ pass.mode = "inventory_only"
  /\ SetStatus(IF pass.modified = NoVersion THEN "discovered" ELSE "unchanged")
  /\ Overlook

Exporting ==
  /\ pass.at = "item" /\ kind[pass.file] = "text" /\ pass.mode = "export_text"

LeaveUnchanged ==
  /\ Exporting
  /\ ~AppearsChanged(pass.modified, pass.sha, pass.listed[pass.file])
  /\ SetStatus("unchanged")
  /\ UNCHANGED overlooked

(* The text Drive gives is that of the moment, maybe newer than the list. *)
Fetch ==
  /\ Exporting
  /\ AppearsChanged(pass.modified, pass.sha, pass.listed[pass.file])
  /\ drive[pass.file].there
  /\ pass' = [pass EXCEPT !.at = "fetched", !.text = drive[pass.file].version]
  /\ UNCHANGED <<drive, kind, manifest, chunks, build, mishaps, overlooked, crossed, alone>>

Persist ==
  /\ pass.at = "fetched"
  /\ LET f == pass.file IN
     /\ manifest' = [manifest EXCEPT ![f].sha = pass.text, ![f].status = ExportedAs(manifest[f])]
     /\ overlooked' = [overlooked EXCEPT ![f] = @ \ {pass.listed[f]}]
  /\ pass' = Onward(pass.failed)
  /\ UNCHANGED <<drive, kind, chunks, build, mishaps, crossed, alone>>

(* Any exception of the export: a request that fails, a file that is gone,  *)
(* a text over the limit or in no known encoding.                           *)
ExportFails ==
  /\ \/ Exporting /\ AppearsChanged(pass.modified, pass.sha, pass.listed[pass.file])
     \/ pass.at = "fetched"
  /\ manifest' = [manifest EXCEPT ![pass.file].status = "failed"]
  /\ pass' = Onward(TRUE)
  /\ Overlook
  /\ UNCHANGED <<drive, kind, chunks, build, mishaps, crossed, alone>>

(* The scan is over: the files it missed are marked only if no file failed. *)
ClosePass ==
  /\ pass.at = "scan" /\ pass.todo = {}
  /\ manifest' = IF pass.failed THEN manifest ELSE MissingMarked(manifest, pass.listed)
  /\ pass' = NoPass
  /\ UNCHANGED <<drive, kind, chunks, build, mishaps, overlooked, crossed, alone>>

-----------------------------------------------------------------------------
(* run_chunk_build_for_tenant. *)

(* The staged texts of the active files are loaded once, at the start. *)
StartBuild(b) ==
  /\ build[b].at = "idle"
  /\ b = Pipe => PipeFree
  /\ build' = [build EXCEPT ![b] =
       [Idle EXCEPT !.at = "next",
                    !.staged = [f \in File |-> IF manifest[f].active THEN manifest[f].sha
                                               ELSE NoVersion]]]
  /\ alone' = IF pass.at = "idle" /\ \A c \in Builder : build[c].at = "idle" THEN {b} ELSE {}
  /\ UNCHANGED <<drive, kind, manifest, chunks, pass, mishaps, overlooked, crossed>>

Left(b) == {f \in File : build[b].staged[f] # NoVersion}

(* The file's chunks are of the staged text already, or cannot be made: a   *)
(* blank text is skipped, whatever is active, and one too long fails.       *)
Settled(b, f) ==
  \/ <<f, build[b].staged[f]>> \in Blank \cup TooLong
  \/ SameVersion(Active(f), build[b].staged[f])

FailsToCut(b, f) ==
  /\ <<f, build[b].staged[f]>> \in TooLong \ Blank
  /\ ~SameVersion(Active(f), build[b].staged[f])

PassOver(b) ==
  /\ build[b].at = "next" /\ Left(b) # {}
  /\ LET f == First(Left(b)) IN
     /\ Settled(b, f)
     /\ build' = [build EXCEPT ![b].staged[f] = NoVersion,
                               ![b].failed = @ \/ FailsToCut(b, f)]
  /\ UNCHANGED <<drive, kind, manifest, chunks, pass, mishaps, overlooked, crossed, alone>>

BeginRebuild(b) ==
  /\ build[b].at = "next" /\ Left(b) # {}
  /\ ~Settled(b, First(Left(b)))
  /\ build' = [build EXCEPT ![b].at = "rebuild", ![b].file = First(Left(b))]
  /\ UNCHANGED <<drive, kind, manifest, chunks, pass, mishaps, overlooked, crossed, alone>>

Rebuilding(b, f) == build[b].at \in {"select", "locked"} /\ build[b].file = f

(* The transaction's SELECT ... FOR UPDATE sees the rows active now ...     *)
SelectActive(b) ==
  /\ build[b].at = "rebuild"
  /\ LET f == build[b].file IN
     /\ build' = [build EXCEPT ![b].at = "select", ![b].saw = Active(f)]
     /\ crossed' = IF \E c \in Builder \ {b} : Rebuilding(c, f) THEN crossed \cup {f} ELSE crossed
  /\ UNCHANGED <<drive, kind, manifest, chunks, pass, mishaps, overlooked, alone>>

(* ... and has them once no other transaction does, those still active; the *)
(* second statement finds the inactive chunks of the staged text.           *)
LockActive(b) ==
  /\ build[b].at = "select"
  /\ LET f == build[b].file  v == build[b].staged[f] IN
     /\ \A c \in Builder \ {b} :
          build[c].at = "locked" /\ build[c].file = f
            => /\ build[b].saw \cap build[c].locked = {}
               /\ ~(build[c].reuse /\ build[c].staged[f] = v)
     /\ build' = [build EXCEPT ![b].at = "locked",
                               ![b].locked = build[b].saw \cap Active(f),
                               ![b].reuse = chunks[f][v] = "replaced"]
  /\ UNCHANGED <<drive, kind, manifest, chunks, pass, mishaps, overlooked, crossed, alone>>

(* The commit.  Creating chunks that exist breaks the unique constraint of  *)
(* (manifest, text, configuration, ordinal) and undoes the transaction.     *)
CommitRebuild(b) ==
  /\ build[b].at = "locked"
  /\ LET f == build[b].file
         v == build[b].staged[f]
         fine == build[b].reuse \/ chunks[f][v] = "none"
     IN /\ chunks' = IF fine THEN [chunks EXCEPT ![f] = Rebuilt(@, build[b].locked, v)] ELSE chunks
        /\ build' = [build EXCEPT ![b] =
             [build[b] EXCEPT !.at = "next", !.staged[f] = NoVersion, !.file = First(File),
                              !.saw = {}, !.locked = {}, !.reuse = FALSE, !.failed = @ \/ ~fine]]
  /\ UNCHANGED <<drive, kind, manifest, pass, mishaps, overlooked, crossed, alone>>

(* _deactivate_chunks_for_inactive_manifests, and the final status. *)
CloseBuild(b) ==
  /\ build[b].at = "next" /\ Left(b) = {}
  /\ chunks' = [f \in File |-> IF manifest[f].active THEN chunks[f]
                               ELSE [v \in Version |-> IF chunks[f][v] = "active" THEN "replaced"
                                                       ELSE chunks[f][v]]]
  /\ build' = [build EXCEPT ![b] = Idle]
  /\ alone' = alone \ {b}
  /\ UNCHANGED <<drive, kind, manifest, pass, mishaps, overlooked, crossed>>

-----------------------------------------------------------------------------
(* A killed process: an open transaction is undone, and the lock of Pipe    *)
(* goes with its timeout.                                                   *)
Crash(b) ==
  /\ mishaps < MaxMishaps
  /\ \/ build[b].at # "idle"
     \/ b = Pipe /\ pass.at # "idle"
  /\ mishaps' = mishaps + 1
  /\ pass' = IF b = Pipe THEN NoPass ELSE pass
  /\ build' = [build EXCEPT ![b] = Idle]
  /\ alone' = alone \ {b}
  /\ IF b = Pipe /\ pass.at \in {"item", "fetched"} THEN Overlook ELSE UNCHANGED overlooked
  /\ UNCHANGED <<drive, kind, manifest, chunks, crossed>>

PassStep ==
  \/ \E f \in File : Observe(f)
  \/ Skip \/ Inventory \/ LeaveUnchanged \/ Fetch \/ Persist \/ ExportFails \/ ClosePass

BuildStep(b) ==
  \/ PassOver(b) \/ BeginRebuild(b)
  \/ SelectActive(b) \/ LockActive(b) \/ CommitRebuild(b) \/ CloseBuild(b)

Next ==
  \/ \E f \in File : Edit(f) \/ Drop(f)
  \/ \E mode \in Mode : StartPass(mode)
  \/ PassStep
  \/ \E b \in Builder : StartBuild(b) \/ BuildStep(b) \/ Crash(b)

Spec == Init /\ [][Next]_vars

-----------------------------------------------------------------------------
(* Every variable keeps the values its columns and locals may have. *)
DriveTypeOK ==
  /\ drive \in [File -> [there : BOOLEAN, version : Version]]
  /\ kind \in [File -> Kind]
  /\ manifest \in [File -> [active : BOOLEAN, modified : Stamp, sha : Stamp, status : Status]]
  /\ chunks \in [File -> [Version -> {"none", "active", "replaced"}]]
  /\ pass \in [at : {"idle", "scan", "item", "fetched"}, mode : Mode, listed : [File -> Stamp],
               todo : SUBSET File, file : File, modified : Stamp, sha : Stamp, text : Stamp,
               failed : BOOLEAN]
  /\ build \in [Builder -> [at : {"idle", "next", "rebuild", "select", "locked"},
                            staged : [File -> Stamp], file : File, saw : SUBSET Version,
                            locked : SUBSET Version, reuse : BOOLEAN, failed : BOOLEAN]]
  /\ mishaps \in 0..MaxMishaps
  /\ overlooked \in [File -> SUBSET Version]
  /\ crossed \subseteq File
  /\ alone \subseteq Builder

(* An export pass that ends with no failure leaves every text it listed     *)
(* staged at the version listed or a later one, except a version that an    *)
(* earlier pass noted in the manifest without exporting it: an inventory,   *)
(* a failed export or a crash makes the change invisible to every later     *)
(* pass (run_sync_for_inventory, _process_inventory_item).                  *)
ExportCatchesUp ==
  [][(pass.at = "scan" /\ pass' = NoPass /\ pass.mode = "export_text" /\ ~pass.failed
        /\ mishaps' = mishaps)
       => \A f \in File : (pass.listed[f] # NoVersion /\ kind[f] = "text")
            => manifest[f].sha >= pass.listed[f] \/ pass.listed[f] \in overlooked[f]]_vars

(* What may be active of a file once a build is through with it: its staged *)
(* text and no other.  A blank text is never active itself, but takes the   *)
(* place of nothing, so an earlier text stays to be answered from.          *)
Served(f, active) ==
  IF ~manifest[f].active \/ manifest[f].sha = NoVersion THEN active = {}
  ELSE IF <<f, manifest[f].sha>> \in Blank THEN manifest[f].sha \notin active
  ELSE active = {manifest[f].sha}

(* A build during which nothing else ran leaves the staged text's chunks    *)
(* active and no others, unless the text is blank, and none for an inactive *)
(* file, or it reports a failure; and it fails only for a text that is too  *)
(* long, or where two builds once crossed (run_chunk_build_for_tenant).     *)
BuildServesExport ==
  [][\A b \in alone :
       (build[b].at = "next" /\ build'[b] = Idle /\ mishaps' = mishaps)
         => /\ build[b].failed \/ \A f \in File :
                 Served(f, {v \in Version : chunks'[f][v] = "active"})
            /\ build[b].failed =>
                 \E f \in File : f \in crossed \/ <<f, manifest[f].sha>> \in TooLong]_vars

(* The chunks of two versions of a file are active together only after two  *)
(* builds were rebuilding the file at once: the first's rows are invisible  *)
(* to the second's statement (_process_staging_for_chunks).                 *)
OneTextActive == \A f \in File : Cardinality(Active(f)) > 1 => f \in crossed

(* A file that can be answered from keeps some text's chunks until the file *)
(* itself is inactive: a rebuild that fails leaves the earlier chunks.      *)
NeverUnserved ==
  [][\A f \in File : (Active(f) # {} /\ \A v \in Version : chunks'[f][v] # "active")
                       => ~manifest[f].active]_vars
=============================================================================
