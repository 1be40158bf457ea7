----------------------------- MODULE DriveProofs -----------------------------
(***************************************************************************)
(* Theorems about DriveSync, for any files, reindexes and versions.        *)
(*                                                                         *)
(* Four invariants carry them.  Kept: what a row says of a file's version *)
(* is staged, or is one the pass has overlooked.  Sole: unless two builds  *)
(* crossed at a file, one text of it is active, and the build that is at   *)
(* it has seen and locked that one.  Uncut: no chunks are of a blank text. *)
(* Undisturbed: a build with nothing beside it works from the manifest as  *)
(* it is.                                                                  *)
(***************************************************************************)
EXTENDS DriveSync, FiniteSetTheorems, TLAPS

USE DriveAssumption

AtItem(f) == pass.at \in {"item", "fetched"} /\ pass.file = f

(* The text of version v was staged, or was noted and not exported. *)
Accounted(f, v) == manifest[f].sha >= v \/ v \in overlooked[f]

(* What the pass under way has listed, and what it is at. *)
Listing ==
  /\ \A f \in File : pass.listed[f] <= drive[f].version
  /\ \A f \in pass.todo : pass.listed[f] # NoVersion
  /\ pass.at = "fetched" => pass.text >= pass.listed[pass.file] /\ pass.text \in Version
  /\ \A f \in File : AtItem(f) =>
       /\ pass.listed[f] # NoVersion /\ manifest[f].sha = pass.sha
       /\ manifest[f].modified = pass.listed[f]
       /\ kind[f] = "text" /\ pass.modified # NoVersion => Accounted(f, pass.modified)

(* A row's version is accounted for, but while a pass is at the file. *)
Kept ==
  \A f \in File :
    kind[f] = "text" /\ manifest[f].modified # NoVersion /\ ~AtItem(f) =>
      Accounted(f, manifest[f].modified)

(* A pass that exports has accounted for every file it is done with. *)
Caught ==
  pass.at # "idle" /\ pass.mode = "export_text" /\ ~pass.failed =>
    \A f \in File :
      kind[f] = "text" /\ pass.listed[f] # NoVersion /\ f \notin pass.todo /\ ~AtItem(f) =>
        Accounted(f, pass.listed[f])

(* A build is at a file whose text it has, and a text in use was exported. *)
Exported ==
  /\ \A b \in Builder : build[b].at \in {"rebuild", "select", "locked"} =>
       build[b].staged[build[b].file] # NoVersion
  /\ \A b \in Builder, f \in File : build[b].staged[f] # NoVersion => manifest[f].sha # NoVersion
  /\ \A f \in File : Active(f) # {} => manifest[f].sha # NoVersion

(* The build at a file that no two have crossed at has what is active. *)
Sole ==
  \A f \in File \ crossed :
    /\ \A v, w \in Active(f) : v = w
    /\ \A b, c \in Builder : Rebuilding(b, f) /\ Rebuilding(c, f) => b = c
    /\ \A b \in Builder : build[b].file = f =>
         /\ build[b].at = "select" => Active(f) \subseteq build[b].saw
         /\ build[b].at = "locked" => Active(f) \subseteq build[b].locked

(* A blank text has no active chunks, and no build is rebuilding it. *)
Uncut ==
  /\ \A f \in File : \A v \in Active(f) : <<f, v>> \notin Blank
  /\ \A b \in Builder : build[b].at \in {"rebuild", "select", "locked"} =>
       <<build[b].file, build[b].staged[build[b].file]>> \notin Blank

Undisturbed ==
  \A b \in alone :
    /\ pass.at = "idle" /\ build[b].at # "idle"
    /\ \A c \in Builder : build[c].at # "idle" => c = b
    /\ \A f \in File :
         /\ build[b].staged[f] # NoVersion => manifest[f].active /\ manifest[f].sha = build[b].staged[f]
         /\ build[b].staged[f] = NoVersion /\ ~build[b].failed
              /\ manifest[f].active /\ manifest[f].sha # NoVersion /\ <<f, manifest[f].sha>> \notin Blank
              => Active(f) = {manifest[f].sha}
    /\ build[b].failed => \E f \in File : f \in crossed \/ <<f, manifest[f].sha>> \in TooLong
    /\ build[b].at \in {"rebuild", "select", "locked"} => ~Settled(b, build[b].file)
    /\ build[b].at = "select" => Active(build[b].file) \subseteq build[b].saw
    /\ build[b].at = "locked" =>
         /\ Active(build[b].file) \subseteq build[b].locked
         /\ build[b].reuse <=> chunks[build[b].file][build[b].staged[build[b].file]] = "replaced"


-----------------------------------------------------------------------------
DriveRow == [there : BOOLEAN, version : Version]
ManifestRow == [active : BOOLEAN, modified : Stamp, sha : Stamp, status : Status]
ChunkRow == [Version -> {"none", "active", "replaced"}]
PassRow == [at : {"idle", "scan", "item", "fetched"}, mode : Mode, listed : [File -> Stamp],
            todo : SUBSET File, file : File, modified : Stamp, sha : Stamp, text : Stamp,
            failed : BOOLEAN]
BuildRow == [at : {"idle", "next", "rebuild", "select", "locked"},
             staged : [File -> Stamp], file : File, saw : SUBSET Version,
             locked : SUBSET Version, reuse : BOOLEAN, failed : BOOLEAN]

(* DriveTypeOK, with names for the kinds of row, of a folder with files. *)
Typed ==
  /\ drive \in [File -> DriveRow] /\ kind \in [File -> Kind]
  /\ manifest \in [File -> ManifestRow] /\ chunks \in [File -> ChunkRow]
  /\ pass \in PassRow /\ build \in [Builder -> BuildRow]
  /\ mishaps \in 0..MaxMishaps
  /\ overlooked \in [File -> SUBSET Version] /\ crossed \subseteq File /\ alone \subseteq Builder
  /\ File # {}

LEMMA TypedIsTypeOK == Typed <=> DriveTypeOK /\ File # {}
BY DEF Typed, DriveTypeOK, DriveRow, ManifestRow, ChunkRow, PassRow, BuildRow

LEMMA Versions ==
  /\ Version \subseteq Nat /\ Stamp \subseteq Nat /\ NoVersion \in Stamp /\ NoVersion \in Nat
  /\ \A v \in Stamp : v # NoVersion => v \in Version
  /\ \A v \in Version : v # NoVersion /\ v \in Stamp
  /\ 1 \in Version
BY DEF Version, Stamp, NoVersion

LEMMA FirstIsOne ==
  ASSUME NEW S \in SUBSET File, S # {}
  PROVE  First(S) \in S
BY DEF First

(* What becomes of a build's row in each of its steps. *)
LEMMA BuildFields ==
  \A r \in BuildRow :
    /\ r.at \in {"idle", "next", "rebuild", "select", "locked"} /\ r.staged \in [File -> Stamp]
    /\ r.file \in File /\ r.saw \in SUBSET Version /\ r.locked \in SUBSET Version
    /\ r.reuse \in BOOLEAN /\ r.failed \in BOOLEAN
    /\ r = [at |-> r.at, staged |-> r.staged, file |-> r.file, saw |-> r.saw, locked |-> r.locked,
            reuse |-> r.reuse, failed |-> r.failed]
BY DEF BuildRow

LEMMA Rests ==
  ASSUME File # {}
  PROVE  Idle \in BuildRow /\ NoPass \in PassRow /\ NoRow \in ManifestRow
<1>1. First(File) \in File
  BY FirstIsOne
<1>2. QED
  BY <1>1, Versions DEF Idle, BuildRow, NoPass, PassRow, NoRow, ManifestRow, Mode, Status

(* The row r is what a step makes of the build b. *)
Becomes(b, r) == r \in BuildRow /\ build' = [build EXCEPT ![b] = r]

LEMMA StartBecomes ==
  ASSUME Typed, NEW b \in Builder, StartBuild(b)
  PROVE  Becomes(b, [Idle EXCEPT !.at = "next",
                      !.staged = [f \in File |-> IF manifest[f].active THEN manifest[f].sha ELSE NoVersion]])
<1> DEFINE staged == [f \in File |-> IF manifest[f].active THEN manifest[f].sha ELSE NoVersion]
           r == [Idle EXCEPT !.at = "next", !.staged = staged]
<1>1. staged \in [File -> Stamp]
  BY Versions DEF Typed, ManifestRow
<1>2. build' = [build EXCEPT ![b] = r]
  BY DEF StartBuild
<1> HIDE DEF staged
<1>3. Idle \in BuildRow
  BY Rests DEF Typed
<1>4. r \in BuildRow
  BY <1>1, <1>3 DEF BuildRow
<1>5. QED
  BY <1>2, <1>4 DEF Becomes, staged

LEMMA PassOverBecomes ==
  ASSUME Typed, NEW b \in Builder, PassOver(b)
  PROVE  LET f == First(Left(b))
         IN  /\ f \in Left(b) /\ f \in File /\ Settled(b, f) /\ build[b].at = "next"
             /\ Becomes(b, [build[b] EXCEPT
                  !.staged = [build[b].staged EXCEPT ![f] = NoVersion],
                  !.failed = build[b].failed \/ FailsToCut(b, f)])
<1> DEFINE f == First(Left(b))
           failed == build[b].failed \/ FailsToCut(b, f)
           r == [build[b] EXCEPT !.staged = [build[b].staged EXCEPT ![f] = NoVersion], !.failed = failed]
<1>1. f \in Left(b) /\ f \in File
  BY FirstIsOne DEF PassOver, Left
<1>2. build[b] \in BuildRow /\ failed \in BOOLEAN
  BY DEF Typed, FailsToCut
<1>3. build' = [build EXCEPT ![b] = r]
  BY DEF PassOver
<1>4. Settled(b, f) /\ build[b].at = "next"
  BY DEF PassOver
<1> HIDE DEF f, failed
<1>5. r \in BuildRow
  BY <1>1, <1>2, Versions DEF BuildRow
<1>6. QED
  BY <1>1, <1>3, <1>4, <1>5 DEF Becomes, f, failed

LEMMA BeginBecomes ==
  ASSUME Typed, NEW b \in Builder, BeginRebuild(b)
  PROVE  LET f == First(Left(b))
         IN  /\ f \in Left(b) /\ f \in File /\ ~Settled(b, f) /\ build[b].at = "next"
             /\ Becomes(b, [build[b] EXCEPT !.at = "rebuild", !.file = f])
<1> DEFINE f == First(Left(b))
           r == [build[b] EXCEPT !.at = "rebuild", !.file = f]
<1>1. f \in Left(b) /\ f \in File
  BY FirstIsOne DEF BeginRebuild, Left
<1>2. build[b] \in BuildRow
  BY DEF Typed
<1>3. build' = [build EXCEPT ![b] = r]
  BY DEF BeginRebuild
<1>4. ~Settled(b, f) /\ build[b].at = "next"
  BY DEF BeginRebuild
<1> HIDE DEF f
<1>5. r \in BuildRow
  BY <1>1, <1>2 DEF BuildRow
<1>6. QED
  BY <1>1, <1>3, <1>4, <1>5 DEF Becomes, f

LEMMA SelectBecomes ==
  ASSUME Typed, NEW b \in Builder, SelectActive(b)
  PROVE  build[b].at = "rebuild"
         /\ Becomes(b, [build[b] EXCEPT !.at = "select", !.saw = Active(build[b].file)])
<1> DEFINE r == [build[b] EXCEPT !.at = "select", !.saw = Active(build[b].file)]
<1>1. build[b] \in BuildRow /\ Active(build[b].file) \subseteq Version
  BY DEF Typed, Active
<1>2. build' = [build EXCEPT ![b] = r]
  BY DEF SelectActive
<1>3. r \in BuildRow
  BY <1>1 DEF BuildRow
<1>4. QED
  BY <1>2, <1>3 DEF Becomes, SelectActive

LEMMA LockBecomes ==
  ASSUME Typed, NEW b \in Builder, LockActive(b)
  PROVE  LET f == build[b].file
         IN  /\ build[b].at = "select"
             /\ Becomes(b, [build[b] EXCEPT !.at = "locked",
                             !.locked = build[b].saw \cap Active(f),
                             !.reuse = (chunks[f][build[b].staged[f]] = "replaced")])
<1> DEFINE f == build[b].file
           locked == build[b].saw \cap Active(f)
           reuse == (chunks[f][build[b].staged[f]] = "replaced")
           r == [build[b] EXCEPT !.at = "locked", !.locked = locked, !.reuse = reuse]
<1>1. build[b] \in BuildRow /\ locked \in SUBSET Version /\ reuse \in BOOLEAN
  BY DEF Typed, Active
<1>2. build' = [build EXCEPT ![b] = r]
  BY DEF LockActive
<1>3. build[b].at = "select"
  BY DEF LockActive
<1> HIDE DEF locked, reuse
<1>4. r \in BuildRow
  BY <1>1 DEF BuildRow
<1>5. QED
  BY <1>2, <1>3, <1>4 DEF Becomes, locked, reuse

(* Whether the chunks of a build's file can be created or reactivated. *)
Fine(b) == build[b].reuse \/ chunks[build[b].file][build[b].staged[build[b].file]] = "none"

LEMMA CommitBecomes ==
  ASSUME Typed, NEW b \in Builder, CommitRebuild(b)
  PROVE  LET f == build[b].file
         IN  /\ build[b].at = "locked"
             /\ Becomes(b, [build[b] EXCEPT !.at = "next",
                             !.staged = [build[b].staged EXCEPT ![f] = NoVersion],
                             !.file = First(File), !.saw = {}, !.locked = {}, !.reuse = FALSE,
                             !.failed = build[b].failed \/ ~Fine(b)])
             /\ chunks' = IF Fine(b)
                          THEN [chunks EXCEPT ![f] = Rebuilt(chunks[f], build[b].locked, build[b].staged[f])]
                          ELSE chunks
<1> DEFINE f == build[b].file
           failed == build[b].failed \/ ~Fine(b)
           r == [build[b] EXCEPT !.at = "next",
                             !.staged = [build[b].staged EXCEPT ![f] = NoVersion],
                             !.file = First(File), !.saw = {}, !.locked = {}, !.reuse = FALSE,
                             !.failed = failed]
<1>1. build[b] \in BuildRow /\ failed \in BOOLEAN /\ f \in File
  BY BuildFields DEF Typed, Fine
<1>2. First(File) \in File
  BY FirstIsOne DEF Typed
<1>3. build' = [build EXCEPT ![b] = r]
  BY DEF CommitRebuild, Fine
<1>4. /\ build[b].at = "locked"
      /\ chunks' = IF Fine(b)
                   THEN [chunks EXCEPT ![f] = Rebuilt(chunks[f], build[b].locked, build[b].staged[f])]
                   ELSE chunks
  BY DEF CommitRebuild, Fine
<1> HIDE DEF f, failed
<1>5. r \in BuildRow
  BY <1>1, <1>2, Versions DEF BuildRow
<1>6. QED
  BY <1>3, <1>4, <1>5 DEF Becomes, f, failed

LEMMA RestBecomes ==
  ASSUME Typed, NEW b \in Builder, CloseBuild(b) \/ Crash(b)
  PROVE  Becomes(b, Idle)
BY Rests DEF Becomes, CloseBuild, Crash, Typed

-----------------------------------------------------------------------------
(* A step of a build, and what is left to the other builds. *)
Runs(b) == StartBuild(b) \/ BuildStep(b) \/ Crash(b)

LEMMA WhoSteps ==
  ASSUME [Next]_vars
  PROVE  \/ \E b \in Builder : Runs(b)
         \/ /\ build' = build /\ chunks' = chunks /\ crossed' = crossed
            /\ \/ \E f \in File : Edit(f) \/ Drop(f)
               \/ \E mode \in Mode : StartPass(mode)
               \/ PassStep \/ UNCHANGED vars
<1>1. ASSUME NEW f \in File, Edit(f) \/ Drop(f)
      PROVE  build' = build /\ chunks' = chunks /\ crossed' = crossed
  BY <1>1 DEF Edit, Drop
<1>2. ASSUME NEW mode \in Mode, StartPass(mode)
      PROVE  build' = build /\ chunks' = chunks /\ crossed' = crossed
  BY <1>2 DEF StartPass
<1>3. ASSUME PassStep
      PROVE  build' = build /\ chunks' = chunks /\ crossed' = crossed
  BY <1>3 DEF PassStep, Observe, Skip, Inventory, LeaveUnchanged, Fetch, Persist, ExportFails,
     ClosePass, SetStatus
<1>4. UNCHANGED vars => build' = build /\ chunks' = chunks /\ crossed' = crossed
  BY DEF vars
<1>5. QED
  BY <1>1, <1>2, <1>3, <1>4 DEF Next, Runs

LEMMA OthersStay ==
  ASSUME Typed, NEW b \in Builder, Runs(b), NEW c \in Builder, c # b
  PROVE  build'[c] = build[c]
<1>1. \E r : Becomes(b, r)
  BY StartBecomes, PassOverBecomes, BeginBecomes, SelectBecomes, LockBecomes, CommitBecomes, RestBecomes
     DEF Runs, BuildStep
<1>2. QED
  BY <1>1 DEF Becomes, Typed

LEMMA BuildSteps ==
  ASSUME Typed, NEW b \in Builder, Runs(b)
  PROVE  \/ /\ StartBuild(b) /\ build'[b].at = "next" /\ ~build'[b].failed
            /\ \A f \in File :
                 build'[b].staged[f] = IF manifest[f].active THEN manifest[f].sha ELSE NoVersion
         \/ \E f \in File :
              /\ PassOver(b) /\ Settled(b, f) /\ build[b].staged[f] # NoVersion
              /\ build[b].at = "next" /\ build'[b].at = "next"
              /\ build'[b].failed <=> build[b].failed \/ FailsToCut(b, f)
              /\ build'[b].staged = [build[b].staged EXCEPT ![f] = NoVersion]
         \/ \E f \in File :
              /\ BeginRebuild(b) /\ ~Settled(b, f) /\ build[b].staged[f] # NoVersion
              /\ build[b].at = "next" /\ build'[b].at = "rebuild" /\ build'[b].file = f
              /\ build'[b].failed = build[b].failed /\ build'[b].staged = build[b].staged
         \/ /\ SelectActive(b) /\ build[b].at = "rebuild" /\ build'[b].at = "select"
            /\ build'[b].saw = Active(build[b].file) /\ build'[b].file = build[b].file
            /\ build'[b].failed = build[b].failed /\ build'[b].staged = build[b].staged
         \/ /\ LockActive(b) /\ build[b].at = "select" /\ build'[b].at = "locked"
            /\ build'[b].locked = build[b].saw \cap Active(build[b].file)
            /\ build'[b].reuse <=> chunks[build[b].file][build[b].staged[build[b].file]] = "replaced"
            /\ build'[b].file = build[b].file
            /\ build'[b].failed = build[b].failed /\ build'[b].staged = build[b].staged
         \/ /\ CommitRebuild(b) /\ build[b].at = "locked" /\ build'[b].at = "next"
            /\ build'[b].failed <=> build[b].failed \/ ~Fine(b)
            /\ build'[b].staged = [build[b].staged EXCEPT ![build[b].file] = NoVersion]
         \/ (CloseBuild(b) \/ Crash(b)) /\ build'[b] = Idle
<1>a. build \in [Builder -> BuildRow] /\ build[b] \in BuildRow
  BY DEF Typed
<1>b. ASSUME NEW r, Becomes(b, r)
      PROVE  build'[b] = r
  BY <1>a, <1>b DEF Becomes
<1>1. CASE StartBuild(b)
  <2> DEFINE staged == [f \in File |-> IF manifest[f].active THEN manifest[f].sha ELSE NoVersion]
  <2>1. build'[b] = [Idle EXCEPT !.at = "next", !.staged = staged]
    BY <1>1, <1>b, StartBecomes
  <2>2. \A f \in File : staged[f] = IF manifest[f].active THEN manifest[f].sha ELSE NoVersion
    OBVIOUS
  <2> HIDE DEF staged
  <2>3. build'[b].at = "next" /\ ~build'[b].failed /\ build'[b].staged = staged
    BY <2>1 DEF Idle
  <2>4. QED
    BY <1>1, <2>2, <2>3
<1>2. CASE PassOver(b)
  <2> DEFINE f == First(Left(b))
             failed == build[b].failed \/ FailsToCut(b, f)
             staged == [build[b].staged EXCEPT ![f] = NoVersion]
  <2>1. /\ f \in Left(b) /\ f \in File /\ Settled(b, f) /\ build[b].at = "next"
        /\ build'[b] = [build[b] EXCEPT !.staged = staged, !.failed = failed]
    BY <1>2, <1>b, PassOverBecomes
  <2>2. build[b].staged[f] # NoVersion
    BY <2>1 DEF Left
  <2> HIDE DEF f, failed, staged
  <2>3. build'[b].at = build[b].at /\ build'[b].staged = staged /\ build'[b].failed = failed
    BY <1>a, <2>1 DEF BuildRow
  <2>4. QED
    BY <1>2, <2>1, <2>2, <2>3 DEF failed, staged
<1>3. CASE BeginRebuild(b)
  <2> DEFINE f == First(Left(b))
  <2>1. /\ f \in Left(b) /\ f \in File /\ ~Settled(b, f) /\ build[b].at = "next"
        /\ build'[b] = [build[b] EXCEPT !.at = "rebuild", !.file = f]
    BY <1>3, <1>b, BeginBecomes
  <2>2. build[b].staged[f] # NoVersion
    BY <2>1 DEF Left
  <2> HIDE DEF f
  <2>3. /\ build'[b].at = "rebuild" /\ build'[b].file = f
        /\ build'[b].failed = build[b].failed /\ build'[b].staged = build[b].staged
    BY <1>a, <2>1 DEF BuildRow
  <2>4. QED
    BY <1>3, <2>1, <2>2, <2>3
<1>4. CASE SelectActive(b)
  <2>1. /\ build[b].at = "rebuild"
        /\ build'[b] = [build[b] EXCEPT !.at = "select", !.saw = Active(build[b].file)]
    BY <1>4, <1>b, SelectBecomes
  <2>2. QED
    BY <1>4, <1>a, <2>1 DEF BuildRow
<1>5. CASE LockActive(b)
  <2> DEFINE locked == build[b].saw \cap Active(build[b].file)
             reuse == (chunks[build[b].file][build[b].staged[build[b].file]] = "replaced")
  <2>1. /\ build[b].at = "select"
        /\ build'[b] = [build[b] EXCEPT !.at = "locked", !.locked = locked, !.reuse = reuse]
    BY <1>5, <1>b, LockBecomes
  <2> HIDE DEF locked, reuse
  <2>2. /\ build'[b].at = "locked" /\ build'[b].locked = locked /\ build'[b].reuse = reuse
        /\ build'[b].file = build[b].file
        /\ build'[b].failed = build[b].failed /\ build'[b].staged = build[b].staged
    BY <1>a, <2>1 DEF BuildRow
  <2>3. QED
    BY <1>5, <2>1, <2>2 DEF locked, reuse
<1>6. CASE CommitRebuild(b)
  <2> DEFINE failed == build[b].failed \/ ~Fine(b)
             staged == [build[b].staged EXCEPT ![build[b].file] = NoVersion]
  <2>1. /\ build[b].at = "locked"
        /\ build'[b] = [build[b] EXCEPT !.at = "next", !.staged = staged, !.file = First(File),
                          !.saw = {}, !.locked = {}, !.reuse = FALSE, !.failed = failed]
    BY <1>6, <1>b, CommitBecomes
  <2> HIDE DEF failed, staged
  <2>2. build'[b].at = "next" /\ build'[b].staged = staged /\ build'[b].failed = failed
    BY <1>a, <2>1 DEF BuildRow
  <2>3. QED
    BY <1>6, <2>1, <2>2 DEF failed, staged
<1>7. CASE CloseBuild(b) \/ Crash(b)
  BY <1>7, <1>b, RestBecomes
<1>8. QED
  BY <1>1, <1>2, <1>3, <1>4, <1>5, <1>6, <1>7 DEF Runs, BuildStep

(* What becomes of a file's chunks: a rebuild's commit, or the end of a     *)
(* build that finds the file inactive.                                      *)
Silenced(of) == [v \in Version |-> IF of[v] = "active" THEN "replaced" ELSE of[v]]

LEMMA ChunkSteps ==
  ASSUME Typed, [Next]_vars, NEW f \in File
  PROVE  \/ chunks'[f] = chunks[f]
         \/ \E b \in Builder :
              /\ CommitRebuild(b) /\ build[b].at = "locked" /\ build[b].file = f /\ Fine(b)
              /\ chunks'[f] = Rebuilt(chunks[f], build[b].locked, build[b].staged[f])
         \/ /\ \E b \in Builder : CloseBuild(b)
            /\ ~manifest[f].active /\ chunks'[f] = Silenced(chunks[f])
<1>1. ASSUME NEW b \in Builder, CommitRebuild(b)
      PROVE  \/ chunks'[f] = chunks[f]
             \/ /\ CommitRebuild(b) /\ build[b].at = "locked" /\ build[b].file = f /\ Fine(b)
                /\ chunks'[f] = Rebuilt(chunks[f], build[b].locked, build[b].staged[f])
  <2> DEFINE g == build[b].file
             row == Rebuilt(chunks[g], build[b].locked, build[b].staged[g])
  <2>1. /\ build[b].at = "locked"
        /\ chunks' = IF Fine(b) THEN [chunks EXCEPT ![g] = row] ELSE chunks
    BY <1>1, CommitBecomes
  <2>2. chunks \in [File -> ChunkRow]
    BY DEF Typed
  <2> HIDE DEF g, row
  <2>3. chunks'[f] = chunks[f] \/ (Fine(b) /\ f = g /\ chunks'[f] = row)
    BY <2>1, <2>2
  <2>4. QED
    BY <1>1, <2>1, <2>3 DEF g, row
<1>2. ASSUME NEW b \in Builder, CloseBuild(b)
      PROVE  chunks'[f] = chunks[f] \/ (~manifest[f].active /\ chunks'[f] = Silenced(chunks[f]))
  <2>1. chunks' = [g \in File |-> IF manifest[g].active THEN chunks[g] ELSE Silenced(chunks[g])]
    BY <1>2 DEF CloseBuild, Silenced
  <2>2. QED
    BY <2>1
<1>3. ASSUME NEW b \in Builder, StartBuild(b) \/ PassOver(b) \/ BeginRebuild(b) \/ SelectActive(b)
                                  \/ LockActive(b) \/ Crash(b)
      PROVE  chunks'[f] = chunks[f]
  BY <1>3 DEF StartBuild, PassOver, BeginRebuild, SelectActive, LockActive, Crash
<1>4. QED
  BY <1>1, <1>2, <1>3, WhoSteps DEF Runs, BuildStep

LEMMA ChunkType ==
  ASSUME Typed, [Next]_vars
  PROVE  chunks' \in [File -> ChunkRow]
<1>1. ASSUME NEW b \in Builder, CommitRebuild(b)
      PROVE  chunks' \in [File -> ChunkRow]
  <2>1. Rebuilt(chunks[build[b].file], build[b].locked, build[b].staged[build[b].file]) \in ChunkRow
    BY BuildFields DEF Typed, Rebuilt, ChunkRow
  <2>2. QED
    BY <1>1, <2>1, CommitBecomes DEF Typed
<1>2. ASSUME NEW b \in Builder, CloseBuild(b)
      PROVE  chunks' \in [File -> ChunkRow]
  BY <1>2 DEF CloseBuild, Typed, ChunkRow
<1>3. ASSUME NEW b \in Builder, StartBuild(b) \/ PassOver(b) \/ BeginRebuild(b) \/ SelectActive(b)
                                  \/ LockActive(b) \/ Crash(b)
      PROVE  chunks' = chunks
  BY <1>3 DEF StartBuild, PassOver, BeginRebuild, SelectActive, LockActive, Crash
<1>4. QED
  BY <1>1, <1>2, <1>3, WhoSteps DEF Runs, BuildStep, Typed

(* What becomes of the folder, the rows and the pass. *)
LEMMA QuietBuilds ==
  ASSUME NEW b \in Builder, StartBuild(b) \/ BuildStep(b)
  PROVE  UNCHANGED <<drive, kind, manifest, pass, mishaps, overlooked>>
BY DEF StartBuild, BuildStep, PassOver, BeginRebuild, SelectActive, LockActive, CommitRebuild, CloseBuild

LEMMA KindStays ==
  ASSUME [Next]_vars
  PROVE  kind' = kind
<1>1. ASSUME NEW b \in Builder, Crash(b) PROVE kind' = kind
  BY <1>1 DEF Crash
<1>2. QED
  BY <1>1, QuietBuilds DEF Next, Edit, Drop, StartPass, PassStep, Observe, Skip, Inventory,
     LeaveUnchanged, Fetch, Persist, ExportFails, ClosePass, SetStatus, vars

LEMMA DriveSteps ==
  ASSUME Typed, [Next]_vars
  PROVE  /\ drive' \in [File -> DriveRow]
         /\ \A f \in File : drive'[f].version >= drive[f].version
<1>a. drive \in [File -> DriveRow] /\ \A f \in File : drive[f].version \in Nat
  BY Versions DEF Typed, DriveRow
<1>1. ASSUME NEW f \in File, Edit(f)
      PROVE  /\ drive' \in [File -> DriveRow]
             /\ \A g \in File : drive'[g].version >= drive[g].version
  <2>1. drive' = [drive EXCEPT ![f] = [drive[f] EXCEPT !.version = drive[f].version + 1]]
    BY <1>1 DEF Edit
  <2>2. drive[f] \in DriveRow
    BY <1>a
  <2>3. drive[f].version + 1 \in Version
    BY <1>1, <2>2 DEF Edit, Version, DriveRow
  <2>4. [drive[f] EXCEPT !.version = drive[f].version + 1] \in DriveRow
    BY <2>2, <2>3 DEF DriveRow
  <2>5. [drive[f] EXCEPT !.version = drive[f].version + 1].version = drive[f].version + 1
    BY <2>2 DEF DriveRow
  <2>6. QED
    BY <1>a, <2>1, <2>4, <2>5
<1>2. ASSUME NEW f \in File, Drop(f)
      PROVE  /\ drive' \in [File -> DriveRow]
             /\ \A g \in File : drive'[g].version >= drive[g].version
  <2>1. drive' = [drive EXCEPT ![f] = [drive[f] EXCEPT !.there = ~drive[f].there]]
    BY <1>2 DEF Drop
  <2>2. drive[f] \in DriveRow
    BY <1>a
  <2>3. /\ [drive[f] EXCEPT !.there = ~drive[f].there] \in DriveRow
        /\ [drive[f] EXCEPT !.there = ~drive[f].there].version = drive[f].version
    BY <2>2 DEF DriveRow
  <2>4. QED
    BY <1>a, <2>1, <2>3
<1>3. CASE drive' = drive
  BY <1>a, <1>3
<1>4. ASSUME NEW b \in Builder, Crash(b) PROVE drive' = drive
  BY <1>4 DEF Crash
<1>5. ASSUME (\E mode \in Mode : StartPass(mode)) \/ PassStep \/ UNCHANGED vars
      PROVE  drive' = drive
  BY <1>5 DEF StartPass, PassStep, Observe, Skip, Inventory, LeaveUnchanged, Fetch, Persist,
     ExportFails, ClosePass, SetStatus, vars
<1>6. QED
  BY <1>1, <1>2, <1>3, <1>4, <1>5, QuietBuilds DEF Next

-----------------------------------------------------------------------------
(* What each step of a pass makes of it, of the rows and of what is         *)
(* overlooked.                                                              *)
RowsTyped == /\ manifest \in [File -> ManifestRow] /\ pass \in PassRow
             /\ overlooked \in [File -> SUBSET Version]

(* The rows keep the version and the text they stand for. *)
SameTexts ==
  \A f \in File : manifest'[f].sha = manifest[f].sha /\ manifest'[f].modified = manifest[f].modified

LEMMA PassFields ==
  \A r \in PassRow :
    /\ r.at \in {"idle", "scan", "item", "fetched"} /\ r.mode \in Mode /\ r.listed \in [File -> Stamp]
    /\ r.todo \in SUBSET File /\ r.file \in File /\ r.modified \in Stamp /\ r.sha \in Stamp
    /\ r.text \in Stamp /\ r.failed \in BOOLEAN
BY DEF PassRow

LEMMA ManifestFields ==
  /\ \A r \in ManifestRow :
       /\ r.active \in BOOLEAN /\ r.modified \in Stamp /\ r.sha \in Stamp /\ r.status \in Status
       /\ \A s \in Status : /\ [r EXCEPT !.status = s] \in ManifestRow
                            /\ [r EXCEPT !.status = s].sha = r.sha
                            /\ [r EXCEPT !.status = s].modified = r.modified
                            /\ [r EXCEPT !.status = s].active = r.active
       /\ [r EXCEPT !.active = FALSE, !.status = "removed"] \in ManifestRow
       /\ [r EXCEPT !.active = FALSE, !.status = "removed"].sha = r.sha
       /\ [r EXCEPT !.active = FALSE, !.status = "removed"].modified = r.modified
BY DEF ManifestRow, Status

LEMMA OnwardFields ==
  ASSUME Typed, NEW failed \in BOOLEAN, pass' = Onward(failed)
  PROVE  /\ pass' \in PassRow /\ pass'.at = "scan" /\ pass'.mode = pass.mode
         /\ pass'.listed = pass.listed /\ pass'.todo = pass.todo /\ pass'.failed = failed
<1>1. pass \in PassRow /\ First(File) \in File
  BY FirstIsOne DEF Typed
<1>2. /\ pass.mode \in Mode /\ pass.listed \in [File -> Stamp] /\ pass.todo \in SUBSET File
  BY <1>1, PassFields
<1>3. pass' = [at |-> "scan", mode |-> pass.mode, listed |-> pass.listed, todo |-> pass.todo,
               file |-> First(File), modified |-> NoVersion, sha |-> NoVersion, text |-> NoVersion,
               failed |-> failed]
  BY DEF Onward, NoPass
<1>4. QED
  BY <1>1, <1>2, <1>3, Versions DEF PassRow

(* A status is saved, and nothing else of the rows. *)
LEMMA StatusSaved ==
  ASSUME Typed, NEW f \in File, NEW status \in Status,
         manifest' = [manifest EXCEPT ![f].status = status]
  PROVE  manifest' \in [File -> ManifestRow] /\ SameTexts
         /\ \A g \in File : manifest'[g].active = manifest[g].active
<1>1. manifest' = [manifest EXCEPT ![f] = [manifest[f] EXCEPT !.status = status]]
  OBVIOUS
<1>2. manifest \in [File -> ManifestRow] /\ manifest[f] \in ManifestRow
  BY DEF Typed
<1> DEFINE r == [manifest[f] EXCEPT !.status = status]
<1>3. r \in ManifestRow /\ r.sha = manifest[f].sha /\ r.modified = manifest[f].modified
      /\ r.active = manifest[f].active
  BY <1>2, ManifestFields
<1>4. manifest' = [manifest EXCEPT ![f] = r]
  BY <1>1
<1> HIDE DEF r
<1>5. QED
  BY <1>2, <1>3, <1>4 DEF SameTexts

LEMMA OverlookFields ==
  ASSUME Typed, Overlook, pass.listed[pass.file] # NoVersion
  PROVE  /\ overlooked' \in [File -> SUBSET Version]
         /\ \A f \in File : overlooked[f] \subseteq overlooked'[f]
         /\ kind[pass.file] = "text" =>
              \/ pass.listed[pass.file] \in overlooked'[pass.file]
              \/ pass.listed[pass.file] = manifest[pass.file].sha
<1> DEFINE f == pass.file
           more == IF kind[f] = "text" THEN {pass.listed[f]} \ {manifest[f].sha} ELSE {}
<1>1. f \in File /\ overlooked \in [File -> SUBSET Version] /\ pass.listed[f] \in Version
  BY PassFields, Versions DEF Typed
<1>2. overlooked' = [overlooked EXCEPT ![f] = overlooked[f] \cup more]
  BY DEF Overlook
<1>3. more \subseteq Version /\ (kind[f] = "text" => pass.listed[f] \in more \/ pass.listed[f] = manifest[f].sha)
  BY <1>1
<1> HIDE DEF more
<1>4. overlooked' \in [File -> SUBSET Version] /\ \A g \in File : overlooked[g] \subseteq overlooked'[g]
  BY <1>1, <1>2, <1>3
<1>5. overlooked'[f] = overlooked[f] \cup more
  BY <1>1, <1>2
<1>6. QED
  BY <1>3, <1>4, <1>5

AccountedNext(f, v) == manifest'[f].sha >= v \/ v \in overlooked'[f]

Begun ==
  /\ pass.at = "idle" /\ pass'.at = "scan" /\ manifest' = manifest /\ overlooked' = overlooked
  /\ drive' = drive /\ pass'.todo = {f \in File : drive[f].there}
  /\ \A f \in File : pass'.listed[f] = IF drive[f].there THEN drive[f].version ELSE NoVersion

SameRound == pass'.listed = pass.listed /\ pass'.mode = pass.mode /\ (pass.failed => pass'.failed)

Seeing(f) ==
  /\ pass.at = "scan" /\ f \in pass.todo /\ pass'.at = "item" /\ pass'.file = f
  /\ pass'.todo = pass.todo \ {f} /\ SameRound
  /\ pass'.modified = manifest[f].modified /\ pass'.sha = manifest[f].sha
  /\ manifest'[f].sha = manifest[f].sha /\ manifest'[f].modified = pass.listed[f]
  /\ overlooked' = overlooked /\ \A g \in File : g # f => manifest'[g] = manifest[g]

Leaving ==
  /\ pass.at \in {"item", "fetched"} /\ pass'.at = "scan" /\ pass'.todo = pass.todo /\ SameRound
  /\ \A f \in File : /\ manifest'[f].modified = manifest[f].modified
                     /\ manifest[f].sha # NoVersion => manifest'[f].sha # NoVersion
                     /\ f # pass.file => /\ manifest'[f].sha = manifest[f].sha
                                         /\ overlooked[f] \subseteq overlooked'[f]
  /\ kind[pass.file] = "text" => AccountedNext(pass.file, pass.listed[pass.file])

Fetching ==
  /\ pass.at = "item" /\ pass'.at = "fetched" /\ pass'.text = drive[pass.file].version
  /\ pass'.file = pass.file /\ pass'.todo = pass.todo /\ SameRound
  /\ pass'.modified = pass.modified /\ pass'.sha = pass.sha
  /\ manifest' = manifest /\ overlooked' = overlooked /\ drive' = drive

Closing ==
  /\ pass.at = "scan" /\ pass.todo = {} /\ pass' = NoPass /\ overlooked' = overlooked /\ SameTexts

Breaking ==
  /\ pass' = NoPass /\ manifest' = manifest /\ mishaps' # mishaps
  /\ \A f \in File : /\ overlooked[f] \subseteq overlooked'[f]
                     /\ AtItem(f) /\ kind[f] = "text" => AccountedNext(f, pass.listed[f])

LEMMA BeginDoes ==
  ASSUME Typed, NEW mode \in Mode, StartPass(mode)
  PROVE  RowsTyped' /\ Begun
<1> DEFINE listed == [f \in File |-> IF drive[f].there THEN drive[f].version ELSE NoVersion]
           todo == {f \in File : drive[f].there}
           r == [NoPass EXCEPT !.at = "scan", !.mode = mode, !.todo = todo, !.listed = listed]
<1>1. pass' = r /\ pass.at = "idle" /\ UNCHANGED <<drive, manifest, overlooked>>
  BY DEF StartPass, PipeFree
<1>2. listed \in [File -> Stamp] /\ todo \in SUBSET File /\ First(File) \in File
  BY Versions, FirstIsOne DEF Typed, DriveRow
<1>3. \A f \in File : listed[f] = IF drive[f].there THEN drive[f].version ELSE NoVersion
  OBVIOUS
<1> HIDE DEF listed, todo
<1>4. NoPass \in PassRow
  BY Rests DEF Typed
<1>5. r \in PassRow /\ r.at = "scan" /\ r.todo = todo /\ r.listed = listed
  BY <1>2, <1>4 DEF PassRow
<1> HIDE DEF r
<1>6. QED
  BY <1>1, <1>3, <1>5 DEF Begun, RowsTyped, Typed, todo

LEMMA ObserveDoes ==
  ASSUME Typed, NEW f \in File, Observe(f)
  PROVE  RowsTyped' /\ Seeing(f)
<1> DEFINE row == Seen(manifest[f], pass.listed[f])
           r == [pass EXCEPT !.at = "item", !.todo = pass.todo \ {f}, !.file = f,
                             !.modified = manifest[f].modified, !.sha = manifest[f].sha]
<1>1. /\ pass' = r /\ manifest' = [manifest EXCEPT ![f] = row] /\ overlooked' = overlooked
      /\ pass.at = "scan"
  BY DEF Observe
<1>2. f \in pass.todo
  <2>1. pass.todo \in SUBSET File
    BY PassFields DEF Typed
  <2>2. QED
    BY <2>1, FirstIsOne DEF Observe
<1>3. pass \in PassRow /\ manifest[f] \in ManifestRow /\ manifest \in [File -> ManifestRow]
  BY DEF Typed
<1>4. manifest[f].modified \in Stamp /\ manifest[f].sha \in Stamp /\ pass.listed[f] \in Stamp
      /\ pass.todo \ {f} \in SUBSET File
  BY <1>3, ManifestFields, PassFields
<1>5. row \in ManifestRow /\ row.sha = manifest[f].sha /\ row.modified = pass.listed[f]
  BY <1>3, <1>4 DEF Seen, ManifestRow, Status
<1>6. /\ r \in PassRow /\ r.at = "item" /\ r.todo = pass.todo \ {f} /\ r.file = f
      /\ r.modified = manifest[f].modified /\ r.sha = manifest[f].sha
      /\ r.listed = pass.listed /\ r.mode = pass.mode /\ r.failed = pass.failed
  BY <1>3, <1>4 DEF PassRow
<1> HIDE DEF row, r
<1>7. QED
  BY <1>1, <1>2, <1>3, <1>5, <1>6 DEF Seeing, SameRound, RowsTyped, Typed

LEMMA FetchDoes ==
  ASSUME Typed, Fetch
  PROVE  RowsTyped' /\ Fetching
<1> DEFINE v == drive[pass.file].version
           r == [pass EXCEPT !.at = "fetched", !.text = v]
<1>1. pass' = r /\ pass.at = "item" /\ UNCHANGED <<drive, manifest, overlooked>>
  BY DEF Fetch, Exporting
<1>2. pass \in PassRow /\ v \in Stamp
  BY PassFields, Versions DEF Typed, DriveRow
<1> HIDE DEF v
<1>3. /\ r \in PassRow /\ r.at = "fetched" /\ r.text = v /\ r.file = pass.file /\ r.todo = pass.todo
      /\ r.listed = pass.listed /\ r.mode = pass.mode /\ r.failed = pass.failed
      /\ r.modified = pass.modified /\ r.sha = pass.sha
  BY <1>2 DEF PassRow
<1> HIDE DEF r
<1>4. QED
  BY <1>1, <1>3 DEF Fetching, SameRound, RowsTyped, Typed, v

LEMMA CloseDoes ==
  ASSUME Typed, ClosePass
  PROVE  RowsTyped' /\ Closing
<1>1. /\ pass' = NoPass /\ pass.at = "scan" /\ pass.todo = {} /\ overlooked' = overlooked
      /\ manifest' = IF pass.failed THEN manifest ELSE MissingMarked(manifest, pass.listed)
  BY DEF ClosePass
<1>2. manifest \in [File -> ManifestRow] /\ NoPass \in PassRow
  BY Rests DEF Typed
<1>3. \A f \in File : MissingMarked(manifest, pass.listed)[f] \in
        {manifest[f], [manifest[f] EXCEPT !.active = FALSE, !.status = "removed"]}
  BY DEF MissingMarked
<1>4. MissingMarked(manifest, pass.listed) = [f \in File |-> MissingMarked(manifest, pass.listed)[f]]
  BY DEF MissingMarked
<1>5. \A f \in File : /\ MissingMarked(manifest, pass.listed)[f] \in ManifestRow
                      /\ MissingMarked(manifest, pass.listed)[f].sha = manifest[f].sha
                      /\ MissingMarked(manifest, pass.listed)[f].modified = manifest[f].modified
  BY <1>2, <1>3, ManifestFields
<1>6. QED
  BY <1>1, <1>2, <1>4, <1>5 DEF Closing, SameTexts, RowsTyped, Typed

(* The end of a file in a pass, whatever it was.                            *)
LEMMA LeaveDoes ==
  ASSUME Typed, Listing, Skip \/ Inventory \/ LeaveUnchanged \/ Persist \/ ExportFails
  PROVE  RowsTyped' /\ Leaving
<1> DEFINE f == pass.file
<1>a. /\ f \in File /\ pass.listed[f] \in Stamp /\ pass.failed \in BOOLEAN /\ f = pass.file
      /\ manifest \in [File -> ManifestRow] /\ overlooked \in [File -> SUBSET Version]
      /\ pass.at \in {"item", "fetched"}
  BY PassFields DEF Typed, Skip, Inventory, LeaveUnchanged, Exporting, Persist, ExportFails
<1>b. /\ pass.listed[f] # NoVersion /\ pass.listed[f] \in Version /\ manifest[f].sha = pass.sha
      /\ manifest[f].modified = pass.listed[f] /\ manifest[f].sha \in Stamp
      /\ kind[f] = "text" /\ pass.modified # NoVersion => Accounted(f, pass.modified)
  BY <1>a, ManifestFields, Versions DEF Listing, AtItem
<1>c. ASSUME NEW status \in Status, NEW failed \in BOOLEAN, pass.failed => failed,
             manifest' = [manifest EXCEPT ![pass.file].status = status], pass' = Onward(failed),
             \A g \in File : overlooked[g] \subseteq overlooked'[g],
             overlooked' \in [File -> SUBSET Version],
             kind[f] = "text" => AccountedNext(f, pass.listed[f])
      PROVE  RowsTyped' /\ Leaving
  <2>1. manifest' \in [File -> ManifestRow] /\ SameTexts
    BY <1>a, <1>c, StatusSaved
  <2>2. /\ pass' \in PassRow /\ pass'.at = "scan" /\ pass'.mode = pass.mode
        /\ pass'.listed = pass.listed /\ pass'.todo = pass.todo /\ pass'.failed = failed
    BY <1>c, OnwardFields
  <2>3. QED
    BY <1>a, <1>c, <2>1, <2>2 DEF Leaving, SameRound, SameTexts, RowsTyped
<1>1. CASE Skip
  <2>1. /\ SkippedAs[kind[f]] \in Status /\ kind[f] # "text" /\ overlooked' = overlooked
        /\ manifest' = [manifest EXCEPT ![pass.file].status = SkippedAs[kind[f]]]
        /\ pass' = Onward(pass.failed)
    BY <1>a, <1>1 DEF Skip, SetStatus, SkippedAs, Status, Kind, Typed
  <2>2. QED
    BY <1>a, <1>c, <2>1
<1>2. CASE Inventory
  <2> DEFINE status == IF pass.modified = NoVersion THEN "discovered" ELSE "unchanged"
  <2>1. /\ status \in Status /\ Overlook /\ pass' = Onward(pass.failed)
        /\ manifest' = [manifest EXCEPT ![pass.file].status = status]
    BY <1>2 DEF Inventory, SetStatus, Status
  <2>2. SameTexts
    BY <1>a, <2>1, StatusSaved
  <2>3. kind[f] = "text" => AccountedNext(f, pass.listed[f])
    BY <1>a, <1>b, <2>1, <2>2, OverlookFields, Versions DEF AccountedNext, SameTexts
  <2> HIDE DEF status
  <2>4. QED
    BY <1>a, <1>b, <1>c, <2>1, <2>3, OverlookFields
<1>3. CASE LeaveUnchanged
  <2>1. /\ "unchanged" \in Status /\ overlooked' = overlooked /\ pass' = Onward(pass.failed)
        /\ manifest' = [manifest EXCEPT ![pass.file].status = "unchanged"]
        /\ pass.sha # NoVersion /\ pass.modified = pass.listed[f] /\ kind[f] = "text"
    BY <1>3 DEF LeaveUnchanged, Exporting, AppearsChanged, SetStatus, Status
  <2>2. SameTexts
    BY <1>a, <2>1, StatusSaved
  <2>3. AccountedNext(f, pass.listed[f])
    BY <1>a, <1>b, <2>1, <2>2 DEF AccountedNext, Accounted, SameTexts
  <2>4. QED
    BY <1>a, <1>c, <2>1, <2>3
<1>4. CASE Persist
  <2> DEFINE row == [manifest[f] EXCEPT !.sha = pass.text, !.status = ExportedAs(manifest[f])]
             failed == pass.failed
  <2>1. /\ manifest' = [manifest EXCEPT ![f] = row]
        /\ overlooked' = [overlooked EXCEPT ![f] = overlooked[f] \ {pass.listed[f]}]
        /\ pass' = Onward(failed) /\ pass.at = "fetched"
    BY <1>4 DEF Persist
  <2>2. pass.text >= pass.listed[f] /\ pass.text \in Version
    BY <2>1 DEF Listing
  <2>3. row \in ManifestRow /\ row.sha = pass.text /\ row.modified = manifest[f].modified
    <3>1. manifest[f] \in ManifestRow /\ pass.text \in Stamp /\ ExportedAs(manifest[f]) \in Status
      BY <1>a, <2>2, Versions DEF ExportedAs, Status
    <3>2. QED
      BY <3>1 DEF ManifestRow
  <2>4. /\ pass' \in PassRow /\ pass'.at = "scan" /\ pass'.mode = pass.mode
        /\ pass'.listed = pass.listed /\ pass'.todo = pass.todo /\ pass'.failed = failed
    BY <1>a, <2>1, OnwardFields
  <2> HIDE DEF row
  <2>5. /\ manifest' \in [File -> ManifestRow] /\ overlooked' \in [File -> SUBSET Version]
        /\ manifest'[f].sha = pass.text /\ manifest'[f].modified = manifest[f].modified
        /\ \A g \in File : g # f => manifest'[g] = manifest[g] /\ overlooked'[g] = overlooked[g]
    BY <1>a, <2>1, <2>3
  <2>6. pass.text # NoVersion
    BY <2>2, Versions
  <2>7. AccountedNext(f, pass.listed[f])
    BY <2>2, <2>5 DEF AccountedNext
  <2> HIDE DEF f
  <2>8. QED
    BY <1>a, <2>1, <2>4, <2>5, <2>6, <2>7 DEF Leaving, SameRound, RowsTyped
<1>5. CASE ExportFails
  <2>1. /\ "failed" \in Status /\ Overlook /\ pass' = Onward(TRUE)
        /\ manifest' = [manifest EXCEPT ![pass.file].status = "failed"]
    BY <1>5 DEF ExportFails, Status
  <2>2. SameTexts
    BY <1>a, <2>1, StatusSaved
  <2>3. kind[f] = "text" => AccountedNext(f, pass.listed[f])
    BY <1>a, <1>b, <2>1, <2>2, OverlookFields, Versions DEF AccountedNext, SameTexts
  <2>4. QED
    BY <1>a, <1>b, <1>c, <2>1, <2>3, OverlookFields
<1>6. QED
  BY <1>1, <1>2, <1>3, <1>4, <1>5

LEMMA CrashDoes ==
  ASSUME Typed, Listing, NEW b \in Builder, Crash(b)
  PROVE  RowsTyped' /\ (Breaking \/ (pass' = pass /\ manifest' = manifest /\ overlooked' = overlooked))
<1>1. /\ manifest' = manifest /\ mishaps' # mishaps
      /\ pass' = IF b = Pipe THEN NoPass ELSE pass
      /\ IF b = Pipe /\ pass.at \in {"item", "fetched"} THEN Overlook ELSE overlooked' = overlooked
  BY DEF Crash, Typed
<1>2. CASE b = Pipe /\ pass.at \in {"item", "fetched"}
  <2>1. /\ pass.file \in File /\ pass.listed[pass.file] # NoVersion
        /\ pass.listed[pass.file] \in Version /\ manifest[pass.file].sha \in Stamp
    BY <1>2, PassFields, ManifestFields, Versions DEF Typed, Listing, AtItem
  <2>2. /\ overlooked' \in [File -> SUBSET Version]
        /\ \A f \in File : overlooked[f] \subseteq overlooked'[f]
        /\ kind[pass.file] = "text" =>
             \/ pass.listed[pass.file] \in overlooked'[pass.file]
             \/ pass.listed[pass.file] = manifest[pass.file].sha
    BY <1>1, <1>2, <2>1, OverlookFields
  <2>3. \A f \in File : AtItem(f) /\ kind[f] = "text" => AccountedNext(f, pass.listed[f])
    <3>1. ASSUME kind[pass.file] = "text"
          PROVE  AccountedNext(pass.file, pass.listed[pass.file])
      <4>1. manifest' = manifest /\ manifest[pass.file].sha >= manifest[pass.file].sha
        <5>1. manifest[pass.file].sha \in Nat
          BY <2>1, Versions
        <5>2. manifest' = manifest
          BY <1>1
        <5>3. QED
          BY <5>1, <5>2
      <4>2. QED
        BY <2>2, <3>1, <4>1 DEF AccountedNext
    <3>2. QED
      BY <3>1 DEF AtItem
  <2>4. QED
    BY <1>1, <1>2, <2>2, <2>3, Rests DEF Breaking, RowsTyped, Typed
<1>3. CASE ~(b = Pipe /\ pass.at \in {"item", "fetched"})
  BY <1>1, <1>3, Rests DEF Breaking, RowsTyped, Typed, AtItem
<1>4. QED
  BY <1>2, <1>3

LEMMA PassSteps ==
  ASSUME Typed, Listing, [Next]_vars
  PROVE  /\ RowsTyped'
         /\ \/ pass' = pass /\ manifest' = manifest /\ overlooked' = overlooked
            \/ Begun \/ (\E f \in File : Observe(f) /\ Seeing(f)) \/ Leaving \/ Fetching
            \/ (ClosePass /\ Closing) \/ Breaking
<1>1. ASSUME pass' = pass, manifest' = manifest, overlooked' = overlooked
      PROVE  RowsTyped'
  BY <1>1 DEF RowsTyped, Typed
<1>2. ASSUME (\E f \in File : Edit(f) \/ Drop(f)) \/ UNCHANGED vars
      PROVE  pass' = pass /\ manifest' = manifest /\ overlooked' = overlooked
  BY <1>2 DEF Edit, Drop, vars
<1>3. QED
  BY <1>1, <1>2, QuietBuilds, BeginDoes, ObserveDoes, FetchDoes, CloseDoes, LeaveDoes, CrashDoes
     DEF Next, PassStep

-----------------------------------------------------------------------------
LEMMA TypedInit == Init => Typed
<1> SUFFICES ASSUME Init
             PROVE  Typed
  OBVIOUS
<1>1. File # {}
  BY DEF Init
<1>2. Idle \in BuildRow /\ NoPass \in PassRow /\ NoRow \in ManifestRow
  BY <1>1, Rests
<1>3. drive \in [File -> DriveRow] /\ chunks \in [File -> ChunkRow] /\ kind \in [File -> Kind]
  BY Versions DEF Init, DriveRow, ChunkRow
<1>4. QED
  BY <1>1, <1>2, <1>3 DEF Init, Typed

LEMMA TypedStep == Typed /\ Listing /\ [Next]_vars => Typed'
<1> SUFFICES ASSUME Typed, Listing, [Next]_vars
             PROVE  Typed'
  OBVIOUS
<1>1. drive' \in [File -> DriveRow] /\ kind' \in [File -> Kind] /\ chunks' \in [File -> ChunkRow]
  BY DriveSteps, KindStays, ChunkType DEF Typed
<1>2. /\ manifest' \in [File -> ManifestRow] /\ pass' \in PassRow
      /\ overlooked' \in [File -> SUBSET Version]
  BY PassSteps DEF RowsTyped
<1>3. build' \in [Builder -> BuildRow]
  <2>1. ASSUME NEW b \in Builder, Runs(b)
        PROVE  build' \in [Builder -> BuildRow]
    <3>1. \E r : Becomes(b, r)
      BY <2>1, StartBecomes, PassOverBecomes, BeginBecomes, SelectBecomes, LockBecomes, CommitBecomes,
         RestBecomes DEF Runs, BuildStep
    <3>2. QED
      BY <3>1 DEF Becomes, Typed
  <2>2. QED
    BY <2>1, WhoSteps DEF Typed
<1>4. mishaps' \in 0..MaxMishaps /\ crossed' \subseteq File /\ alone' \subseteq Builder
  <2>1. ASSUME NEW f \in File, Edit(f) \/ Drop(f)
        PROVE  mishaps' \in 0..MaxMishaps /\ crossed' \subseteq File /\ alone' \subseteq Builder
    BY <2>1 DEF Edit, Drop, Typed
  <2>2. ASSUME NEW mode \in Mode, StartPass(mode)
        PROVE  mishaps' \in 0..MaxMishaps /\ crossed' \subseteq File /\ alone' \subseteq Builder
    BY <2>2 DEF StartPass, Typed
  <2>3. ASSUME PassStep
        PROVE  UNCHANGED <<mishaps, crossed, alone>>
    BY <2>3 DEF PassStep, Observe, Skip, Inventory, LeaveUnchanged, Fetch, Persist, ExportFails,
       ClosePass, SetStatus
  <2>4. ASSUME NEW b \in Builder, Crash(b)
        PROVE  mishaps' \in 0..MaxMishaps /\ crossed' \subseteq File /\ alone' \subseteq Builder
    BY <2>4 DEF Crash, Typed
  <2>5. ASSUME NEW b \in Builder, BuildStep(b) \/ StartBuild(b)
        PROVE  mishaps' \in 0..MaxMishaps /\ crossed' \subseteq File /\ alone' \subseteq Builder
    <3>1. build[b].file \in File
      BY BuildFields DEF Typed
    <3>2. mishaps' = mishaps
      BY <2>5, QuietBuilds
    <3>3. crossed' \subseteq File /\ alone' \subseteq Builder
      BY <2>5, <3>1 DEF BuildStep, StartBuild, PassOver, BeginRebuild, SelectActive, LockActive,
         CommitRebuild, CloseBuild, Typed
    <3>4. QED
      BY <3>2, <3>3 DEF Typed
  <2>6. QED
    BY <2>1, <2>2, <2>3, <2>4, <2>5 DEF Next, Typed, vars
<1>5. QED
  BY <1>1, <1>2, <1>3, <1>4 DEF Typed

LEMMA ListingStep ==
  ASSUME Typed, Listing, Kept, [Next]_vars
  PROVE  Listing'
<1>a. /\ \A f \in File : /\ drive[f].version \in Nat /\ drive'[f].version \in Nat
                         /\ drive'[f].version >= drive[f].version
                         /\ drive[f].version \in Version /\ pass.listed[f] \in Nat
      /\ kind' = kind
  BY DriveSteps, KindStays, Versions, PassFields DEF Typed, DriveRow
<1>b. pass.file \in File /\ NoVersion = 0
  BY PassFields DEF Typed, NoVersion
<1>1. CASE pass' = pass /\ manifest' = manifest /\ overlooked' = overlooked
  BY <1>1, <1>a, <1>b DEF Listing, AtItem, Accounted
<1>2. CASE Begun
  <2>1. \A f \in File : pass'.listed[f] <= drive'[f].version
    BY <1>2, <1>a, <1>b DEF Begun
  <2>2. \A f \in pass'.todo : pass'.listed[f] # NoVersion
    BY <1>2, <1>a, Versions DEF Begun
  <2>3. pass'.at = "scan"
    BY <1>2 DEF Begun
  <2>4. QED
    BY <2>1, <2>2, <2>3 DEF Listing, AtItem
<1>3. CASE \E f \in File : Seeing(f)
  <2>1. PICK f \in File : Seeing(f)
    BY <1>3
  <2>2. pass.listed[f] # NoVersion
    BY <2>1 DEF Seeing, Listing
  <2>3. kind[f] = "text" /\ manifest[f].modified # NoVersion => Accounted(f, manifest[f].modified)
    BY <2>1 DEF Seeing, Kept, AtItem
  <2>4. \A g \in File : pass'.listed[g] <= drive'[g].version
    BY <1>a, <2>1 DEF Seeing, SameRound, Listing
  <2>5. \A g \in pass'.todo : pass'.listed[g] # NoVersion
    BY <2>1 DEF Seeing, SameRound, Listing
  <2>6. ASSUME NEW g \in File, AtItem(g)'
        PROVE  /\ pass'.listed[g] # NoVersion /\ manifest'[g].sha = pass'.sha
               /\ manifest'[g].modified = pass'.listed[g]
               /\ kind'[g] = "text" /\ pass'.modified # NoVersion => Accounted(g, pass.modified)'
    <3>1. g = f
      BY <2>1, <2>6 DEF Seeing, AtItem
    <3>2. QED
      BY <1>a, <2>1, <2>2, <2>3, <3>1 DEF Seeing, SameRound, Accounted
  <2>7. pass'.at # "fetched"
    BY <2>1 DEF Seeing
  <2>8. QED
    BY <2>4, <2>5, <2>6, <2>7 DEF Listing
<1>4. CASE Leaving
  BY <1>4, <1>a DEF Leaving, SameRound, Listing, AtItem
<1>5. CASE Fetching
  <2>1. pass'.text >= pass'.listed[pass'.file] /\ pass'.text \in Version
    BY <1>5, <1>a, <1>b DEF Fetching, SameRound, Listing
  <2>2. QED
    BY <1>5, <1>a, <2>1 DEF Fetching, SameRound, Listing, AtItem, Accounted
<1>6. CASE pass' = NoPass
  BY <1>6, <1>a, <1>b DEF NoPass, Listing, AtItem
<1>7. QED
  BY <1>1, <1>2, <1>3, <1>4, <1>5, <1>6, PassSteps DEF Closing, Breaking

LEMMA KeptStep ==
  ASSUME Typed, Listing, Kept, [Next]_vars
  PROVE  Kept'
<1> SUFFICES ASSUME NEW f \in File, kind'[f] = "text", manifest'[f].modified # NoVersion, ~AtItem(f)'
             PROVE  AccountedNext(f, manifest'[f].modified)
  BY DEF Kept, Accounted, AccountedNext
<1>a. kind[f] = "text" /\ pass.file \in File
  BY KindStays, PassFields DEF Typed
<1>b. manifest[f].modified # NoVersion /\ ~AtItem(f) => Accounted(f, manifest[f].modified)
  BY <1>a DEF Kept
<1>1. CASE pass' = pass /\ manifest' = manifest /\ overlooked' = overlooked
  BY <1>1, <1>b DEF AtItem, Accounted, AccountedNext
<1>2. CASE Begun
  BY <1>2, <1>b DEF Begun, AtItem, Accounted, AccountedNext
<1>3. CASE \E g \in File : Seeing(g)
  BY <1>3, <1>b DEF Seeing, AtItem, Accounted, AccountedNext
<1>4. CASE Leaving
  <2>1. CASE f = pass.file
    <3>1. AccountedNext(f, pass.listed[f]) /\ manifest[f].modified = pass.listed[f]
      BY <1>4, <1>a, <2>1 DEF Leaving, Listing, AtItem
    <3>2. QED
      BY <1>4, <3>1 DEF Leaving
  <2>2. CASE f # pass.file
    BY <1>4, <1>b, <2>2 DEF Leaving, AtItem, Accounted, AccountedNext
  <2>3. QED
    BY <2>1, <2>2
<1>5. CASE Fetching
  BY <1>5, <1>b DEF Fetching, AtItem, Accounted, AccountedNext
<1>6. CASE Closing
  BY <1>6, <1>b DEF Closing, SameTexts, AtItem, Accounted, AccountedNext
<1>7. CASE Breaking
  <2>1. CASE AtItem(f)
    BY <1>7, <1>a, <2>1 DEF Breaking, Listing
  <2>2. CASE ~AtItem(f)
    BY <1>7, <1>b, <2>2 DEF Breaking, Accounted, AccountedNext
  <2>3. QED
    BY <2>1, <2>2
<1>8. QED
  BY <1>1, <1>2, <1>3, <1>4, <1>5, <1>6, <1>7, PassSteps

LEMMA CaughtStep ==
  ASSUME Typed, Listing, Caught, [Next]_vars
  PROVE  Caught'
<1> SUFFICES ASSUME NEW f \in File, pass'.at # "idle", pass'.mode = "export_text", ~pass'.failed,
                    kind'[f] = "text", pass'.listed[f] # NoVersion, f \notin pass'.todo, ~AtItem(f)'
             PROVE  AccountedNext(f, pass'.listed[f])
  BY DEF Caught, Accounted, AccountedNext
<1>a. kind[f] = "text" /\ pass.file \in File
  BY KindStays, PassFields DEF Typed
<1>b. ASSUME pass.at # "idle", pass.mode = "export_text", ~pass.failed, pass.listed[f] # NoVersion,
             f \notin pass.todo, ~AtItem(f)
      PROVE  Accounted(f, pass.listed[f])
  BY <1>a, <1>b DEF Caught
<1>1. CASE pass' = pass /\ manifest' = manifest /\ overlooked' = overlooked
  BY <1>1, <1>b DEF AtItem, Accounted, AccountedNext
<1>2. CASE Begun
  BY <1>2 DEF Begun
<1>3. CASE \E g \in File : Seeing(g)
  <2>1. PICK g \in File : Seeing(g)
    BY <1>3
  <2>2. f # g
    BY <2>1 DEF Seeing, AtItem
  <2>3. QED
    BY <1>b, <2>1, <2>2 DEF Seeing, SameRound, AtItem, Accounted, AccountedNext
<1>4. CASE Leaving
  <2>1. CASE f = pass.file
    BY <1>4, <1>a, <2>1 DEF Leaving, SameRound
  <2>2. CASE f # pass.file
    BY <1>4, <1>b, <2>2 DEF Leaving, SameRound, AtItem, Accounted, AccountedNext
  <2>3. QED
    BY <2>1, <2>2
<1>5. CASE Fetching
  BY <1>5, <1>b DEF Fetching, SameRound, AtItem, Accounted, AccountedNext
<1>6. CASE pass' = NoPass
  BY <1>6 DEF NoPass
<1>7. QED
  BY <1>1, <1>2, <1>3, <1>4, <1>5, <1>6, PassSteps DEF Closing, Breaking

-----------------------------------------------------------------------------
(* A text that was exported is there for good. *)
LEMMA ShaStays ==
  ASSUME Typed, Listing, [Next]_vars, NEW f \in File, manifest[f].sha # NoVersion
  PROVE  manifest'[f].sha # NoVersion
<1>1. ASSUME NEW g \in File, Seeing(g)
      PROVE  manifest'[f].sha = manifest[f].sha
  BY <1>1 DEF Seeing
<1>2. Leaving => manifest'[f].sha # NoVersion
  BY DEF Leaving
<1>3. Begun \/ Fetching \/ Closing \/ Breaking => manifest'[f].sha = manifest[f].sha
  BY DEF Begun, Fetching, Closing, SameTexts, Breaking
<1>4. QED
  BY <1>1, <1>2, <1>3, PassSteps

(* What is active of a file: less than was, or what a commit made of it. *)
LEMMA ActiveSteps ==
  ASSUME Typed, Exported, [Next]_vars, NEW f \in File
  PROVE  \/ Active(f)' \subseteq Active(f)
         \/ \E b \in Builder :
              /\ CommitRebuild(b) /\ build[b].at = "locked" /\ build[b].file = f /\ Fine(b)
              /\ build'[b].at = "next" /\ build[b].staged[f] \in Version
              /\ Active(f)' = {build[b].staged[f]} \cup (Active(f) \ build[b].locked)
<1>1. CASE chunks'[f] = chunks[f]
  BY <1>1 DEF Active
<1>2. CASE chunks'[f] = Silenced(chunks[f])
  BY <1>2 DEF Active, Silenced
<1>3. ASSUME NEW b \in Builder, CommitRebuild(b), build[b].at = "locked", build[b].file = f, Fine(b),
             chunks'[f] = Rebuilt(chunks[f], build[b].locked, build[b].staged[f])
      PROVE  /\ build'[b].at = "next" /\ build[b].staged[f] \in Version
             /\ Active(f)' = {build[b].staged[f]} \cup (Active(f) \ build[b].locked)
  <2>1. build[b].staged[f] \in Version
    <3>1. build[b].staged[f] \in Stamp /\ build[b].staged[f] # NoVersion
      BY <1>3, BuildFields DEF Typed, Exported
    <3>2. QED
      BY <3>1, Versions
  <2>2. build'[b].at = "next"
    <3>1. build[b] \in BuildRow /\ build \in [Builder -> BuildRow]
      BY DEF Typed
    <3> DEFINE staged == [build[b].staged EXCEPT ![build[b].file] = NoVersion]
               failed == build[b].failed \/ ~Fine(b)
               r == [build[b] EXCEPT !.at = "next", !.staged = staged, !.file = First(File),
                       !.saw = {}, !.locked = {}, !.reuse = FALSE, !.failed = failed]
    <3>2. build' = [build EXCEPT ![b] = r]
      BY <1>3, CommitBecomes DEF Becomes
    <3> HIDE DEF staged, failed
    <3>3. r.at = "next"
      BY <3>1 DEF BuildRow
    <3> HIDE DEF r
    <3>4. QED
      BY <3>1, <3>2, <3>3
  <2>3. chunks[f] \in ChunkRow
    BY DEF Typed
  <2>4. Active(f)' = {build[b].staged[f]} \cup (Active(f) \ build[b].locked)
    BY <1>3, <2>1, <2>3 DEF Active, Rebuilt, ChunkRow
  <2>5. QED
    BY <2>1, <2>2, <2>4
<1>4. QED
  BY <1>1, <1>2, <1>3, ChunkSteps

LEMMA ExportedStep ==
  ASSUME Typed, Listing, Exported, [Next]_vars
  PROVE  Exported'
<1>1. ASSUME NEW b \in Builder
      PROVE  /\ build'[b].at \in {"rebuild", "select", "locked"} =>
                  build'[b].staged[build'[b].file] # NoVersion
             /\ \A f \in File : build'[b].staged[f] # NoVersion => manifest'[f].sha # NoVersion
  <2>a. /\ build[b].at \in {"rebuild", "select", "locked"} => build[b].staged[build[b].file] # NoVersion
        /\ \A f \in File : build[b].staged[f] # NoVersion => manifest[f].sha # NoVersion
        /\ build[b].staged \in [File -> Stamp]
    BY BuildFields DEF Exported, Typed
  <2>b. \A f \in File : manifest[f].sha # NoVersion => manifest'[f].sha # NoVersion
    BY ShaStays
  <2>1. CASE build'[b] = build[b]
    BY <2>1, <2>a, <2>b
  <2>2. CASE Runs(b)
    <3>1. CASE build'[b] = Idle
      BY <3>1 DEF Idle
    <3>2. CASE /\ build'[b].at = "next"
               /\ \A f \in File : build'[b].staged[f] = IF manifest[f].active THEN manifest[f].sha ELSE NoVersion
      BY <3>2, <2>b
    <3>3. CASE /\ build'[b].at = "next"
               /\ \E f \in File : build'[b].staged = [build[b].staged EXCEPT ![f] = NoVersion]
      BY <3>3, <2>a, <2>b
    <3>4. CASE /\ build'[b].staged = build[b].staged /\ build'[b].file \in File
               /\ build[b].staged[build'[b].file] # NoVersion
      BY <3>4, <2>a, <2>b
    <3>5. build[b].file \in File
      BY BuildFields DEF Typed
    <3>6. QED
      BY <2>2, <2>a, <3>1, <3>2, <3>3, <3>4, <3>5, BuildSteps
  <2>3. QED
    BY <2>1, <2>2, WhoSteps, OthersStay
<1>2. ASSUME NEW f \in File, Active(f)' # {}
      PROVE  manifest'[f].sha # NoVersion
  <2>1. manifest[f].sha # NoVersion
    BY <1>2, ActiveSteps, Versions DEF Exported
  <2>2. QED
    BY <2>1, ShaStays
<1>3. QED
  BY <1>1, <1>2 DEF Exported

LEMMA UncutStep ==
  ASSUME Typed, Exported, Uncut, [Next]_vars
  PROVE  Uncut'
<1>1. ASSUME NEW f \in File, NEW v \in Active(f)'
      PROVE  <<f, v>> \notin Blank
  BY <1>1, ActiveSteps DEF Uncut
<1>2. ASSUME NEW b \in Builder, build'[b].at \in {"rebuild", "select", "locked"}
      PROVE  <<build'[b].file, build'[b].staged[build'[b].file]>> \notin Blank
  <2>1. CASE build'[b] = build[b]
    BY <1>2, <2>1 DEF Uncut
  <2>2. CASE Runs(b)
    <3>1. build'[b] # Idle
      BY <1>2 DEF Idle
    <3>2. CASE \E f \in File : /\ ~Settled(b, f) /\ build'[b].file = f
                              /\ build'[b].staged = build[b].staged
      BY <3>2 DEF Settled
    <3>3. CASE /\ build[b].at \in {"rebuild", "select", "locked"} /\ build'[b].file = build[b].file
               /\ build'[b].staged = build[b].staged
      BY <3>3 DEF Uncut
    <3>4. QED
      BY <1>2, <2>2, <3>1, <3>2, <3>3, BuildSteps
  <2>3. QED
    BY <2>1, <2>2, WhoSteps, OthersStay
<1>3. QED
  BY <1>1, <1>2 DEF Uncut

LEMMA CrossedStays ==
  ASSUME [Next]_vars
  PROVE  crossed \subseteq crossed'
<1>1. ASSUME NEW b \in Builder, Runs(b)
      PROVE  crossed \subseteq crossed'
  BY <1>1 DEF Runs, StartBuild, BuildStep, PassOver, BeginRebuild, SelectActive, LockActive,
     CommitRebuild, CloseBuild, Crash
<1>2. QED
  BY <1>1, WhoSteps

(* A build comes to rebuild a file by selecting its chunks, which is when   *)
(* it crosses with another that is at it.                                   *)
LEMMA CrossingSteps ==
  ASSUME Typed, [Next]_vars, NEW f \in File \ crossed'
  PROVE  \/ \A d \in Builder : Rebuilding(d, f)' => Rebuilding(d, f)
         \/ \E c \in Builder : \A d \in Builder : Rebuilding(d, f)' => d = c
<1>a. ASSUME NEW c \in Builder, Runs(c), SelectActive(c), build[c].file = f
      PROVE  \A d \in Builder : Rebuilding(d, f)' => d = c
  <2>1. \A d \in Builder : Rebuilding(d, f) => d = c
    BY <1>a DEF SelectActive
  <2>2. QED
    BY <1>a, <2>1, OthersStay DEF Rebuilding
<1>b. ASSUME NEW c \in Builder, Runs(c), Rebuilding(c, f)'
      PROVE  Rebuilding(c, f) \/ (SelectActive(c) /\ build[c].file = f)
  <2>1. Idle.at = "idle" /\ build'[c].at \in {"select", "locked"} /\ build'[c].file = f
    BY <1>b DEF Rebuilding, Idle
  <2>2. \/ SelectActive(c) /\ build'[c].file = build[c].file
        \/ build[c].at = "select" /\ build'[c].file = build[c].file
    BY <1>b, <2>1, BuildSteps
  <2>3. QED
    BY <2>1, <2>2 DEF Rebuilding
<1>1. ASSUME NEW c \in Builder, Runs(c)
      PROVE  \/ \A d \in Builder : Rebuilding(d, f)' => Rebuilding(d, f)
             \/ \A d \in Builder : Rebuilding(d, f)' => d = c
  BY <1>1, <1>a, <1>b, OthersStay DEF Rebuilding
<1>2. CASE build' = build
  BY <1>2 DEF Rebuilding
<1>3. QED
  BY <1>1, <1>2, WhoSteps

LEMMA SoleStep ==
  ASSUME Typed, Exported, Sole, [Next]_vars
  PROVE  Sole'
<1> SUFFICES ASSUME NEW f \in File \ crossed'
             PROVE  /\ \A v, w \in Active(f)' : v = w
                    /\ \A b, c \in Builder : Rebuilding(b, f)' /\ Rebuilding(c, f)' => b = c
                    /\ \A b \in Builder : build'[b].file = f =>
                         /\ build'[b].at = "select" => Active(f)' \subseteq build'[b].saw
                         /\ build'[b].at = "locked" => Active(f)' \subseteq build'[b].locked
  BY DEF Sole
<1>a. /\ f \in File
      /\ \A v, w \in Active(f) : v = w
      /\ \A b, c \in Builder : Rebuilding(b, f) /\ Rebuilding(c, f) => b = c
      /\ \A b \in Builder : build[b].file = f =>
           /\ build[b].at = "select" => Active(f) \subseteq build[b].saw
           /\ build[b].at = "locked" => Active(f) \subseteq build[b].locked
  BY CrossedStays DEF Sole
<1>1. \A v, w \in Active(f)' : v = w
  BY <1>a, ActiveSteps
<1>2. \A b, c \in Builder : Rebuilding(b, f)' /\ Rebuilding(c, f)' => b = c
  BY <1>a, CrossingSteps
<1>3. ASSUME NEW b \in Builder, build'[b].file = f
      PROVE  /\ build'[b].at = "select" => Active(f)' \subseteq build'[b].saw
             /\ build'[b].at = "locked" => Active(f)' \subseteq build'[b].locked
  <2>1. CASE Active(f)' \subseteq Active(f)
    <3>1. CASE build'[b] = build[b]
      BY <1>a, <1>3, <2>1, <3>1
    <3>2. CASE Runs(b)
      <4>1. Idle.at = "idle"
        BY DEF Idle
      <4>2. \/ build'[b].at \notin {"select", "locked"}
            \/ build'[b].at = "select" /\ build'[b].saw = Active(f)
            \/ /\ build'[b].at = "locked" /\ build[b].at = "select" /\ build[b].file = f
               /\ build'[b].locked = build[b].saw \cap Active(f)
        BY <1>3, <3>2, <4>1, BuildSteps
      <4>3. QED
        BY <1>a, <2>1, <4>2
    <3>3. QED
      BY <3>1, <3>2, WhoSteps, OthersStay
  <2>2. CASE \E c \in Builder : CommitRebuild(c) /\ build[c].at = "locked" /\ build[c].file = f
                                  /\ build'[c].at = "next"
    <3>1. PICK c \in Builder : CommitRebuild(c) /\ build[c].at = "locked" /\ build[c].file = f
                                  /\ build'[c].at = "next"
      BY <2>2
    <3>2. CASE b = c
      BY <3>1, <3>2
    <3>3. CASE b # c
      <4>1. build'[b] = build[b]
        BY <3>1, <3>3, OthersStay DEF Runs, BuildStep
      <4>2. ~Rebuilding(b, f)
        BY <1>a, <3>1, <3>3 DEF Rebuilding
      <4>3. QED
        BY <1>3, <4>1, <4>2 DEF Rebuilding
    <3>4. QED
      BY <3>2, <3>3
  <2>3. QED
    BY <1>a, <2>1, <2>2, ActiveSteps
<1>4. QED
  BY <1>1, <1>2, <1>3

-----------------------------------------------------------------------------
(* What Undisturbed says of one build. *)
Quiet(b) ==
  /\ pass.at = "idle" /\ build[b].at # "idle"
  /\ \A c \in Builder : build[c].at # "idle" => c = b

InStep(b) ==
  /\ \A f \in File :
       /\ build[b].staged[f] # NoVersion => manifest[f].active /\ manifest[f].sha = build[b].staged[f]
       /\ build[b].staged[f] = NoVersion /\ ~build[b].failed
            /\ manifest[f].active /\ manifest[f].sha # NoVersion /\ <<f, manifest[f].sha>> \notin Blank
              => Active(f) = {manifest[f].sha}
  /\ build[b].failed => \E f \in File : f \in crossed \/ <<f, manifest[f].sha>> \in TooLong
  /\ build[b].at \in {"rebuild", "select", "locked"} => ~Settled(b, build[b].file)
  /\ build[b].at = "select" => Active(build[b].file) \subseteq build[b].saw
  /\ build[b].at = "locked" =>
       /\ Active(build[b].file) \subseteq build[b].locked
       /\ build[b].reuse <=> chunks[build[b].file][build[b].staged[build[b].file]] = "replaced"

LEMMA UndisturbedParts == Undisturbed <=> \A b \in alone : Quiet(b) /\ InStep(b)
BY DEF Undisturbed, Quiet, InStep

(* A build that is alone from its start on. *)
LEMMA AloneStarts ==
  ASSUME Typed, NEW b \in Builder, StartBuild(b), b \in alone'
  PROVE  Quiet(b)' /\ InStep(b)'
<1>1. pass.at = "idle" /\ \A c \in Builder : build[c].at = "idle"
  BY DEF StartBuild
<1>2. /\ manifest' = manifest /\ pass' = pass /\ chunks' = chunks
      /\ build'[b].at = "next" /\ ~build'[b].failed
      /\ \A f \in File : build'[b].staged[f] = IF manifest[f].active THEN manifest[f].sha ELSE NoVersion
  <2>1. build[b].at = "idle" /\ manifest' = manifest /\ pass' = pass /\ chunks' = chunks
    BY DEF StartBuild
  <2>2. build'[b].at # "idle"
    <3>1. build'[b] = [Idle EXCEPT !.at = "next",
            !.staged = [f \in File |-> IF manifest[f].active THEN manifest[f].sha ELSE NoVersion]]
      BY StartBecomes DEF Becomes, Typed
    <3>2. QED
      BY <3>1 DEF Idle
  <2>3. Idle.at = "idle"
    BY DEF Idle
  <2>4. ~\E f \in File : BeginRebuild(b) \/ SelectActive(b) \/ LockActive(b) \/ CommitRebuild(b) \/ PassOver(b)
    BY <2>1 DEF BeginRebuild, SelectActive, LockActive, CommitRebuild, PassOver
  <2>5. QED
    BY <2>1, <2>2, <2>3, <2>4, BuildSteps DEF Runs
<1>3. \A c \in Builder : c # b => build'[c].at = "idle"
  BY <1>1, OthersStay DEF Runs
<1>4. QED
  BY <1>1, <1>2, <1>3 DEF Quiet, InStep

LEMMA BuildKeeps ==
  ASSUME NEW b \in Builder, BuildStep(b)
  PROVE  /\ manifest' = manifest /\ pass' = pass /\ crossed \subseteq crossed'
         /\ PassOver(b) \/ BeginRebuild(b) \/ SelectActive(b) \/ LockActive(b) => chunks' = chunks
<1>1. manifest' = manifest /\ pass' = pass
  BY QuietBuilds
<1>2. QED
  BY <1>1 DEF BuildStep, PassOver, BeginRebuild, SelectActive, LockActive, CommitRebuild, CloseBuild

(* A commit that fails finds active what it was to create, beside another   *)
(* text: two builds have crossed at the file.                               *)
LEMMA CommitFails ==
  ASSUME Typed, Exported, Sole, NEW b \in Builder, InStep(b), build[b].at = "locked", ~Fine(b)
  PROVE  build[b].file \in crossed
<1> DEFINE f == build[b].file
           v == build[b].staged[f]
<1>1. f \in File /\ v \in Version
  <2>1. f \in File /\ v \in Stamp /\ v # NoVersion
    BY BuildFields DEF Typed, Exported
  <2>2. QED
    BY <2>1, Versions
<1>2. chunks[f][v] = "active"
  <2>1. chunks[f][v] \in {"none", "active", "replaced"}
    BY <1>1 DEF Typed, ChunkRow
  <2>2. chunks[f][v] # "none" /\ chunks[f][v] # "replaced"
    BY DEF Fine, InStep
  <2>3. QED
    BY <2>1, <2>2
<1>3. v \in Active(f)
  BY <1>1, <1>2 DEF Active
<1>4. ~(Active(f) \subseteq {v})
  BY <1>3 DEF InStep, Settled, SameVersion
<1>5. QED
  BY <1>1, <1>3, <1>4 DEF Sole

(* The steps of a build that is alone, until its end. *)
LEMMA AloneWorks ==
  ASSUME Typed, Exported, Sole, NEW b \in Builder, InStep(b), BuildStep(b), ~CloseBuild(b),
         ~Crash(b), build[b].at # "idle"
  PROVE  InStep(b)'
<1>a. /\ \A f \in File :
           /\ build[b].staged[f] # NoVersion => manifest[f].active /\ manifest[f].sha = build[b].staged[f]
           /\ build[b].staged[f] = NoVersion /\ ~build[b].failed
                /\ manifest[f].active /\ manifest[f].sha # NoVersion /\ <<f, manifest[f].sha>> \notin Blank
              => Active(f) = {manifest[f].sha}
      /\ build[b].failed => \E f \in File : f \in crossed \/ <<f, manifest[f].sha>> \in TooLong
  BY DEF InStep
<1>b. manifest' = manifest /\ crossed \subseteq crossed'
  BY BuildKeeps
<1>c. build[b].staged \in [File -> Stamp] /\ build[b].file \in File /\ build[b].failed \in BOOLEAN
      /\ build'[b].failed \in BOOLEAN
  <2>1. build'[b] \in BuildRow
    <3>1. \E r : Becomes(b, r)
      BY PassOverBecomes, BeginBecomes, SelectBecomes, LockBecomes, CommitBecomes, RestBecomes
         DEF BuildStep
    <3>2. QED
      BY <3>1 DEF Becomes, Typed
  <2>2. QED
    BY <2>1, BuildFields DEF Typed
<1>d. chunks' = chunks => \A f \in File : Active(f)' = Active(f)
  BY DEF Active
<1>1. ASSUME NEW f \in File, PassOver(b), Settled(b, f), build[b].staged[f] # NoVersion,
             build'[b].at = "next",
             build'[b].failed <=> build[b].failed \/ FailsToCut(b, f),
             build'[b].staged = [build[b].staged EXCEPT ![f] = NoVersion]
      PROVE  InStep(b)'
  <2>1. chunks' = chunks
    BY <1>1, BuildKeeps
  <2>2. \A g \in File : build'[b].staged[g] # NoVersion =>
          manifest'[g].active /\ manifest'[g].sha = build'[b].staged[g]
    BY <1>a, <1>b, <1>c, <1>1
  <2>3. ASSUME NEW g \in File, build'[b].staged[g] = NoVersion, ~build'[b].failed,
               manifest'[g].active, manifest'[g].sha # NoVersion, <<g, manifest'[g].sha>> \notin Blank
        PROVE  Active(g)' = {manifest'[g].sha}
    <3>1. CASE g = f
      BY <1>a, <1>b, <1>d, <1>1, <2>1, <2>3, <3>1 DEF SameVersion, Settled, FailsToCut
    <3>2. CASE g # f
      BY <1>a, <1>b, <1>c, <1>d, <1>1, <2>1, <2>3, <3>2
    <3>3. QED
      BY <3>1, <3>2
  <2>4. build'[b].failed => \E g \in File : g \in crossed' \/ <<g, manifest'[g].sha>> \in TooLong
    <3>1. CASE build[b].failed
      BY <1>a, <1>b, <3>1
    <3>2. CASE FailsToCut(b, f)
      <4>1. <<f, build[b].staged[f]>> \in TooLong
        BY <3>2 DEF FailsToCut
      <4>2. manifest'[f].sha = build[b].staged[f]
        BY <1>a, <1>b, <1>1
      <4>3. QED
        BY <4>1, <4>2
    <3>3. QED
      BY <1>1, <3>1, <3>2
  <2>5. QED
    BY <1>1, <2>2, <2>3, <2>4 DEF InStep
<1>2. ASSUME build'[b].staged = build[b].staged, build'[b].failed = build[b].failed, chunks' = chunks
      PROVE  /\ \A f \in File :
                  /\ build'[b].staged[f] # NoVersion => manifest'[f].active /\ manifest'[f].sha = build'[b].staged[f]
                  /\ build'[b].staged[f] = NoVersion /\ ~build'[b].failed
                       /\ manifest'[f].active /\ manifest'[f].sha # NoVersion
                            /\ <<f, manifest'[f].sha>> \notin Blank
                          => Active(f)' = {manifest'[f].sha}
             /\ build'[b].failed => \E f \in File : f \in crossed' \/ <<f, manifest'[f].sha>> \in TooLong
  BY <1>a, <1>b, <1>d, <1>2
<1>3. ASSUME NEW f \in File, BeginRebuild(b), ~Settled(b, f), build'[b].at = "rebuild", build'[b].file = f,
             build'[b].failed = build[b].failed, build'[b].staged = build[b].staged
      PROVE  InStep(b)'
  <2>1. chunks' = chunks
    BY <1>3, BuildKeeps
  <2>2. ~Settled(b, build[b].file)'
    BY <1>3, <2>1 DEF Settled, Active
  <2>3. QED
    BY <1>2, <1>3, <2>1, <2>2 DEF InStep
<1>4. ASSUME SelectActive(b), build[b].at = "rebuild", build'[b].at = "select",
             build'[b].saw = Active(build[b].file), build'[b].file = build[b].file,
             build'[b].failed = build[b].failed, build'[b].staged = build[b].staged
      PROVE  InStep(b)'
  <2>1. chunks' = chunks
    BY <1>4, BuildKeeps
  <2>2. ~Settled(b, build[b].file)' /\ Active(build[b].file)' \subseteq build'[b].saw
    BY <1>4, <2>1 DEF Settled, Active, InStep
  <2>3. QED
    BY <1>2, <1>4, <2>1, <2>2 DEF InStep
<1>5. ASSUME LockActive(b), build[b].at = "select", build'[b].at = "locked",
             build'[b].locked = build[b].saw \cap Active(build[b].file),
             build'[b].reuse <=> chunks[build[b].file][build[b].staged[build[b].file]] = "replaced",
             build'[b].file = build[b].file,
             build'[b].failed = build[b].failed, build'[b].staged = build[b].staged
      PROVE  InStep(b)'
  <2>1. chunks' = chunks
    BY <1>5, BuildKeeps
  <2>2. /\ ~Settled(b, build[b].file)' /\ Active(build[b].file)' \subseteq build'[b].locked
        /\ build'[b].reuse <=> chunks'[build'[b].file][build'[b].staged[build'[b].file]] = "replaced"
    BY <1>5, <2>1 DEF Settled, Active, InStep
  <2>3. QED
    BY <1>2, <1>5, <2>1, <2>2 DEF InStep
<1>6. ASSUME CommitRebuild(b), build[b].at = "locked", build'[b].at = "next",
             build'[b].failed <=> build[b].failed \/ ~Fine(b),
             build'[b].staged = [build[b].staged EXCEPT ![build[b].file] = NoVersion]
      PROVE  InStep(b)'
  <2> DEFINE f == build[b].file
  <2>1. \A g \in File : build'[b].staged[g] # NoVersion =>
          manifest'[g].active /\ manifest'[g].sha = build'[b].staged[g]
    BY <1>a, <1>b, <1>c, <1>6
  <2>2. /\ f \in File /\ Active(f) \subseteq build[b].locked
        /\ build[b].staged[f] \in Version /\ build[b].staged[f] # NoVersion
    <3>1. f \in File /\ build[b].staged[f] \in Stamp /\ build[b].staged[f] # NoVersion
      BY <1>c, <1>6 DEF Exported
    <3>2. Active(f) \subseteq build[b].locked
      BY <1>6 DEF InStep
    <3>3. QED
      BY <3>1, <3>2, Versions
  <2>3. ASSUME NEW g \in File, build'[b].staged[g] = NoVersion, ~build'[b].failed,
               manifest'[g].active, manifest'[g].sha # NoVersion, <<g, manifest'[g].sha>> \notin Blank
        PROVE  Active(g)' = {manifest'[g].sha}
    <3>1. Fine(b) /\ ~build[b].failed
      BY <1>6, <2>3
    <3>2. chunks' = [chunks EXCEPT ![f] = Rebuilt(chunks[f], build[b].locked, build[b].staged[f])]
      BY <1>6, <3>1, CommitBecomes
    <3>3. CASE g = f
      <4>1. chunks'[f] = Rebuilt(chunks[f], build[b].locked, build[b].staged[f])
        BY <2>2, <3>2 DEF Typed
      <4>2. \A v \in Version : chunks'[g][v] = "active" <=> v = build[b].staged[f]
        BY <2>2, <3>3, <4>1 DEF Active, Rebuilt
      <4>3. build[b].staged[f] \in Version
        BY <2>2
      <4> HIDE DEF f
      <4>4. Active(g)' = {build[b].staged[f]}
        BY <4>2, <4>3 DEF Active
      <4>5. QED
        BY <1>a, <1>b, <2>2, <3>3, <4>4
    <3>4. CASE g # f
      <4>1. chunks'[g] = chunks[g]
        BY <3>2, <3>4 DEF Typed
      <4>2. Active(g)' = Active(g)
        BY <4>1 DEF Active
      <4>3. build[b].staged[g] = NoVersion
        BY <1>c, <1>6, <2>3, <3>4
      <4>4. QED
        BY <1>a, <1>b, <2>3, <3>1, <4>2, <4>3
    <3>5. QED
      BY <3>3, <3>4
  <2>4. build'[b].failed => \E g \in File : g \in crossed' \/ <<g, manifest'[g].sha>> \in TooLong
    BY <1>a, <1>b, <1>c, <1>6, CommitFails
  <2>5. QED
    BY <1>6, <2>1, <2>3, <2>4 DEF InStep
<1>7. ~StartBuild(b)
  BY DEF StartBuild
<1>8. QED
  BY <1>1, <1>3, <1>4, <1>5, <1>6, <1>7, BuildSteps DEF Runs

LEMMA UndisturbedStep ==
  ASSUME Typed, Listing, Exported, Sole, Undisturbed, [Next]_vars
  PROVE  Undisturbed'
<1>b. alone' \subseteq Builder
  BY TypedStep DEF Typed
<1> SUFFICES ASSUME NEW b \in Builder, b \in alone'
             PROVE  Quiet(b)' /\ InStep(b)'
  BY <1>b DEF Undisturbed, Quiet, InStep
<1>1. CASE StartBuild(b)
  BY <1>1, AloneStarts
<1>a. ASSUME ~StartBuild(b)
      PROVE  b \in alone /\ Quiet(b) /\ InStep(b)
  <2>1. ASSUME NEW c \in Builder, StartBuild(c)
        PROVE  b \in alone
    BY <1>a, <2>1 DEF StartBuild
  <2>2. ASSUME NEW c \in Builder, BuildStep(c) \/ Crash(c)
        PROVE  b \in alone
    BY <2>2 DEF BuildStep, PassOver, BeginRebuild, SelectActive, LockActive, CommitRebuild, CloseBuild, Crash
  <2>3. ASSUME NEW f \in File, Edit(f) \/ Drop(f)
        PROVE  b \in alone
    BY <2>3 DEF Edit, Drop
  <2>4. ASSUME PassStep
        PROVE  b \in alone
    BY <2>4 DEF PassStep, Observe, Skip, Inventory, LeaveUnchanged, Fetch, Persist, ExportFails,
       ClosePass, SetStatus
  <2>5. ASSUME NEW mode \in Mode, StartPass(mode)
        PROVE  b \in alone
    BY <2>5 DEF StartPass
  <2>6. UNCHANGED vars => b \in alone
    BY DEF vars
  <2>7. b \in alone
    BY <2>1, <2>2, <2>3, <2>4, <2>5, <2>6 DEF Next
  <2>8. QED
    BY <2>7 DEF Undisturbed, Quiet, InStep
<1>2. ASSUME ~StartBuild(b), BuildStep(b), ~CloseBuild(b), ~Crash(b)
      PROVE  Quiet(b)' /\ InStep(b)'
  <2>1. Quiet(b) /\ InStep(b)
    BY <1>a, <1>2
  <2>2. InStep(b)'
    BY <1>2, <2>1, AloneWorks DEF Quiet
  <2>3. build'[b].at # "idle"
    BY <1>2, BuildSteps DEF Runs
  <2>4. pass' = pass /\ \A c \in Builder : c # b => build'[c] = build[c]
    BY <1>2, BuildKeeps, OthersStay DEF Runs
  <2>5. QED
    BY <2>1, <2>2, <2>3, <2>4 DEF Quiet
<1>3. ~StartBuild(b) => ~CloseBuild(b) /\ ~Crash(b)
  BY DEF CloseBuild, Crash
<1>4. ASSUME ~StartBuild(b), NEW c \in Builder, c # b, Runs(c)
      PROVE  FALSE
  <2>1. Quiet(b) /\ build[c].at = "idle"
    BY <1>a, <1>4 DEF Quiet
  <2>2. ~BuildStep(c)
    BY <2>1 DEF BuildStep, PassOver, BeginRebuild, SelectActive, LockActive, CommitRebuild, CloseBuild
  <2>3. ~Crash(c)
    BY <2>1 DEF Crash, Quiet
  <2>4. ~StartBuild(c)
    BY <1>4, <2>1 DEF StartBuild, Quiet
  <2>5. QED
    BY <1>4, <2>2, <2>3, <2>4 DEF Runs
<1>5. ASSUME ~StartBuild(b), build' = build, chunks' = chunks, crossed' = crossed,
             (\E f \in File : Edit(f) \/ Drop(f)) \/ UNCHANGED vars
      PROVE  Quiet(b)' /\ InStep(b)'
  <2>1. Quiet(b) /\ InStep(b)
    BY <1>a, <1>5
  <2>2. pass' = pass /\ manifest' = manifest
    BY <1>5 DEF Edit, Drop, vars
  <2>3. QED
    BY <1>5, <2>1, <2>2 DEF Quiet, InStep, Settled, Active
<1>6. ASSUME NEW mode \in Mode, StartPass(mode)
      PROVE  FALSE
  BY <1>6 DEF StartPass
<1>7. ASSUME ~StartBuild(b), PassStep
      PROVE  FALSE
  <2>1. pass.at = "idle"
    BY <1>a, <1>7 DEF Quiet
  <2>2. QED
    BY <1>7, <2>1 DEF PassStep, Observe, Skip, Inventory, LeaveUnchanged, Fetch, Persist, ExportFails,
       ClosePass, Exporting
<1>8. QED
  BY <1>1, <1>2, <1>3, <1>4, <1>5, <1>6, <1>7, WhoSteps DEF Runs

-----------------------------------------------------------------------------
(* The invariant the theorems share. *)
Sound == Typed /\ Listing /\ Kept /\ Caught /\ Exported /\ Sole /\ Uncut /\ Undisturbed

LEMMA SoundInit == Init => Sound
<1> SUFFICES ASSUME Init
             PROVE  Sound
  OBVIOUS
<1>1. Typed
  BY TypedInit
<1>2. /\ \A f \in File : drive[f].version = 1 /\ manifest[f].modified = NoVersion
      /\ \A f \in File, v \in Version : chunks[f][v] = "none"
      /\ alone = {}
  BY DEF Init, NoRow
<1>3. pass.at = "idle" /\ pass.todo = {} /\ \A f \in File : pass.listed[f] = NoVersion
  BY DEF Init, NoPass
<1>4. \A b \in Builder : build[b].at = "idle" /\ \A f \in File : build[b].staged[f] = NoVersion
  BY DEF Init, Idle
<1>5. \A f \in File : Active(f) = {}
  BY <1>2 DEF Active
<1>6. Listing /\ Kept /\ Caught
  BY <1>2, <1>3 DEF Listing, Kept, Caught, AtItem, NoVersion
<1>7. Exported
  BY <1>4, <1>5 DEF Exported
<1>8. Sole /\ Uncut /\ Undisturbed
  BY <1>2, <1>4, <1>5 DEF Sole, Rebuilding, Uncut, Undisturbed
<1>9. QED
  BY <1>1, <1>6, <1>7, <1>8 DEF Sound

LEMMA SoundStep == Sound /\ [Next]_vars => Sound'
<1> SUFFICES ASSUME Sound, [Next]_vars
             PROVE  Sound'
  OBVIOUS
<1>1. Typed /\ Listing /\ Kept /\ Caught /\ Exported /\ Sole /\ Uncut /\ Undisturbed
  BY DEF Sound
<1>2. Typed' /\ Listing' /\ Kept' /\ Caught'
  BY <1>1, TypedStep, ListingStep, KeptStep, CaughtStep
<1>3. Exported' /\ Sole' /\ Uncut' /\ Undisturbed'
  BY <1>1, ExportedStep, SoleStep, UncutStep, UndisturbedStep
<1>4. QED
  BY <1>2, <1>3 DEF Sound

LEMMA SoundAlways == Spec => []Sound
BY SoundInit, SoundStep, PTL DEF Spec

(* The rows, the staged texts and the chunks of the folder, the pass over   *)
(* it and the builds keep the values their columns and locals may have.     *)
THEOREM DriveTypeCorrect == Spec => []DriveTypeOK
<1>1. Sound => DriveTypeOK
  BY TypedIsTypeOK DEF Sound
<1>2. QED
  BY <1>1, SoundAlways, PTL

(* At any number of files and reindexes, the chunks of two versions of a    *)
(* file are active together only where two builds crossed: the rows of the  *)
(* one were invisible to the other's statement                              *)
(* (_process_staging_for_chunks).                                           *)
THEOREM OneText == Spec => []OneTextActive
<1>1. Sound => OneTextActive
  <2> SUFFICES ASSUME Sound, NEW f \in File, f \notin crossed
               PROVE  ~(Cardinality(Active(f)) > 1)
    BY DEF OneTextActive
  <2>1. \A v, w \in Active(f) : v = w
    BY DEF Sound, Sole
  <2>2. Active(f) = {} \/ \E v \in Active(f) : Active(f) = {v}
    BY <2>1
  <2>3. Cardinality(Active(f)) = 0 \/ Cardinality(Active(f)) = 1
    BY <2>2, FS_EmptySet, FS_Singleton
  <2>4. QED
    BY <2>3
<1>2. QED
  BY <1>1, SoundAlways, PTL

(* No step takes the last active chunks of an active file away: a rebuild   *)
(* puts the staged text's in their place in one transaction, or is undone   *)
(* (_process_staging_for_chunks, _deactivate_chunks_for_inactive_manifests).*)
THEOREM ServedUntilInactive == Spec => NeverUnserved
<1>1. Sound /\ [Next]_vars => [\A f \in File : (Active(f) # {} /\ \A v \in Version : chunks'[f][v] # "active")
                                 => ~manifest[f].active]_vars
  <2> SUFFICES ASSUME Sound, [Next]_vars, NEW f \in File, NEW v \in Version, v \in Active(f),
                      \A w \in Version : chunks'[f][w] # "active", manifest[f].active
               PROVE  FALSE
    BY DEF Active
  <2>1. Typed /\ Exported
    BY DEF Sound
  <2>2. chunks[f][v] = "active"
    BY DEF Active
  <2>3. PICK b \in Builder :
          /\ build[b].at = "locked" /\ build[b].file = f
          /\ chunks'[f] = Rebuilt(chunks[f], build[b].locked, build[b].staged[f])
    BY <2>1, <2>2, ChunkSteps
  <2>4. build[b].staged[f] \in Version
    <3>1. build[b].staged[f] # NoVersion /\ build[b].staged[f] \in Stamp
      BY <2>1, <2>3, BuildFields DEF Typed, Exported
    <3>2. QED
      BY <3>1, Versions
  <2>5. QED
    BY <2>3, <2>4 DEF Rebuilt
<1>2. QED
  BY <1>1, SoundAlways, PTL DEF Spec, NeverUnserved

(* However often the folder's files change while it is read, an export pass *)
(* that ends with no failure has every listed text staged, unless an        *)
(* earlier pass noted the version and did not export it                     *)
(* (run_sync_for_inventory).                                                *)
THEOREM ExportsCatchUp == Spec => ExportCatchesUp
<1>1. Sound /\ [Next]_vars =>
        [(pass.at = "scan" /\ pass' = NoPass /\ pass.mode = "export_text" /\ ~pass.failed
            /\ mishaps' = mishaps)
           => \A f \in File : (pass.listed[f] # NoVersion /\ kind[f] = "text")
                => manifest[f].sha >= pass.listed[f] \/ pass.listed[f] \in overlooked[f]]_vars
  <2> SUFFICES ASSUME Sound, [Next]_vars, pass.at = "scan", pass' = NoPass,
                      pass.mode = "export_text", ~pass.failed, mishaps' = mishaps,
                      NEW f \in File, pass.listed[f] # NoVersion, kind[f] = "text"
               PROVE  manifest[f].sha >= pass.listed[f] \/ pass.listed[f] \in overlooked[f]
    OBVIOUS
  <2>1. Typed /\ Listing /\ Caught
    BY DEF Sound
  <2>2. NoPass.at = "idle"
    BY DEF NoPass
  <2>3. ClosePass /\ Closing
    BY <2>1, <2>2, PassSteps DEF Begun, Seeing, Leaving, Fetching, Breaking
  <2>4. pass.todo = {} /\ ~AtItem(f)
    BY <2>3 DEF Closing, AtItem
  <2>5. Accounted(f, pass.listed[f])
    BY <2>1, <2>4 DEF Caught
  <2>6. QED
    BY <2>5 DEF Accounted
<1>2. QED
  BY <1>1, SoundAlways, PTL DEF Spec, ExportCatchesUp

(* A build during which nothing else ran leaves the staged text of every    *)
(* active file to be answered from and no other, unless that text is blank, *)
(* or reports a failure; and it fails only for a text that is too long or   *)
(* where builds once crossed (run_chunk_build_for_tenant).                  *)
THEOREM BuildsServe == Spec => BuildServesExport
<1> DEFINE Serves(b) ==
       (build[b].at = "next" /\ build'[b] = Idle /\ mishaps' = mishaps)
         => /\ build[b].failed \/ \A f \in File :
                 Served(f, {v \in Version : chunks'[f][v] = "active"})
            /\ build[b].failed =>
                 \E f \in File : f \in crossed \/ <<f, manifest[f].sha>> \in TooLong
<1>1. Sound /\ [Next]_vars => [\A b \in alone : Serves(b)]_vars
  <2> SUFFICES ASSUME Sound, [Next]_vars, NEW b \in alone, build[b].at = "next",
                      build'[b] = Idle, mishaps' = mishaps
               PROVE  /\ build[b].failed \/ \A f \in File :
                           Served(f, {v \in Version : chunks'[f][v] = "active"})
                      /\ build[b].failed =>
                           \E f \in File : f \in crossed \/ <<f, manifest[f].sha>> \in TooLong
    OBVIOUS
  <2>1. Typed /\ Exported /\ Uncut /\ b \in Builder /\ InStep(b)
    BY UndisturbedParts DEF Sound, Typed
  <2>2. Idle.at = "idle"
    BY DEF Idle
  <2>3. CloseBuild(b)
    <3>1. Runs(b)
      BY <2>1, <2>2, WhoSteps, OthersStay
    <3>2. ~Crash(b)
      <4>1. mishaps \in Nat
        BY <2>1 DEF Typed
      <4>2. QED
        BY <4>1 DEF Crash
    <3>3. QED
      BY <2>1, <2>2, <3>1, <3>2, BuildSteps
  <2>4. \A f \in File : build[b].staged[f] = NoVersion
    BY <2>3 DEF CloseBuild, Left
  <2>5. ASSUME ~build[b].failed, NEW f \in File
        PROVE  Served(f, {v \in Version : chunks'[f][v] = "active"})
    <3> DEFINE active == {v \in Version : chunks'[f][v] = "active"}
    <3>1. chunks'[f] = IF manifest[f].active THEN chunks[f] ELSE Silenced(chunks[f])
      BY <2>3 DEF CloseBuild, Silenced
    <3>2. active = IF manifest[f].active THEN Active(f) ELSE {}
      BY <3>1 DEF Active, Silenced
    <3> HIDE DEF active
    <3>3. manifest[f].active /\ manifest[f].sha # NoVersion /\ <<f, manifest[f].sha>> \notin Blank
            => Active(f) = {manifest[f].sha}
      BY <2>1, <2>4, <2>5 DEF InStep
    <3>4. manifest[f].sha = NoVersion => Active(f) = {}
      BY <2>1 DEF Exported
    <3>5. <<f, manifest[f].sha>> \in Blank => manifest[f].sha \notin Active(f)
      BY <2>1 DEF Uncut
    <3>6. Served(f, active)
      BY <3>2, <3>3, <3>4, <3>5 DEF Served
    <3>7. QED
      BY <3>6 DEF active
  <2>6. build[b].failed => \E f \in File : f \in crossed \/ <<f, manifest[f].sha>> \in TooLong
    BY <2>1 DEF InStep
  <2>7. QED
    BY <2>5, <2>6
<1>2. QED
  BY <1>1, SoundAlways, PTL DEF Spec, BuildServesExport
=============================================================================
