------------------------------ MODULE BackupJobs ------------------------------
(***************************************************************************)
(* usecase/backup: the jobs that export, restore and reset one tenant.     *)
(* Jobs run in goroutines of their own and only share the database and the *)
(* object store.  An export has a second goroutine, the serializer, that   *)
(* writes the tables of one snapshot into a pipe which the upload reads.   *)
(* The jobs themselves live in memory: a crash forgets them, and keeps     *)
(* what they stored.  A table is a set of rows; the rows of a table cross  *)
(* the pipe in one write.                                                  *)
(***************************************************************************)
EXTENDS Integers, Sequences, FiniteSets, SequencesExt

CONSTANTS
  Backups,       \* identities of exports and of the backups they write
  Imports,       \* identities of restores and resets
  Tables,        \* backupableTables, in the order of the export
  WhatsappTables,\* those a reset clears outside the tenant's transaction
  Restorable,    \* allowedRestoreTables
  Rows           \* bound: rows ever inserted in a table

ASSUME BackupAssumption ==
  /\ IsFiniteSet(Backups) /\ IsFiniteSet(Imports) /\ IsFiniteSet(Rows)
  /\ Backups \cap Imports = {}
  /\ Tables \in Seq(ToSet(Tables))
  /\ \A i, k \in DOMAIN Tables : Tables[i] = Tables[k] => i = k
  /\ WhatsappTables \subseteq ToSet(Tables) /\ Restorable \subseteq ToSet(Tables)

VARIABLES
  db,        \* rows of each table
  jobs,      \* the JobStore and the goroutines of its jobs
  objects,   \* NDJSON files in the object store, by backup
  manifests, \* backups that have a manifest there
  born,      \* history: rows ever inserted by the traffic
  restored,  \* history: rows a restore put back
  wiped      \* history: backups a reset has deleted since their export began

backupVars == <<db, jobs, objects, manifests, born, restored, wiped>>

Jobs     == Backups \cup Imports
Table    == ToSet(Tables)
Empty    == [t \in Table |-> {}]
Nothing  == [at |-> "nothing"]
NoFile   == [missing |-> TRUE]
Union(a, b) == [t \in Table |-> a[t] \cup b[t]]
Minus(a, b) == [t \in Table |-> a[t] \ b[t]]

BackupTypeOK ==
  /\ db \in [Table -> SUBSET Rows] /\ born \in [Table -> SUBSET Rows]
  /\ restored \in [Table -> SUBSET Rows]
  /\ DOMAIN jobs = Jobs
  /\ objects \in [Backups -> [rows : [Table -> SUBSET Rows]] \cup {NoFile}]
  /\ manifests \subseteq Backups /\ wiped \subseteq Backups

BackupInit ==
  /\ db = Empty
  /\ jobs = [j \in Jobs |-> Nothing]
  /\ objects = [b \in Backups |-> NoFile]
  /\ manifests = {} /\ wiped = {}
  /\ born = Empty /\ restored = Empty

\* The job runs, is kept with its result, or was never there.
Over(j)    == jobs[j].at \in {"done", "failed"}
Is(j, kind, at) == jobs[j] # Nothing /\ jobs[j].kind = kind /\ jobs[j].at = at
Step(j, at)   == jobs' = [jobs EXCEPT ![j].at = at]
Stored     == <<objects, manifests, wiped>>
Database   == <<db, born, restored>>

\* The service of the tenant goes on and inserts rows.
Traffic(t) ==
  \E r \in Rows \ born[t] :
    /\ db' = [db EXCEPT ![t] = @ \cup {r}]
    /\ born' = [born EXCEPT ![t] = @ \cup {r}]
    /\ UNCHANGED <<jobs, restored, Stored>>

-----------------------------------------------------------------------------
(* Export.                                                                 *)

\* Export: the identities of jobs and backups are never used twice.
Export(j) ==
  /\ jobs[j] = Nothing /\ j \notin manifests /\ objects[j] = NoFile
  /\ jobs' = [jobs EXCEPT ![j] = [kind |-> "export", at |-> "pending"]]
  /\ wiped' = wiped \ {j}
  /\ UNCHANGED <<Database, objects, manifests>>

\* The REPEATABLE READ transaction opens, the serializer and the upload start.
BeginExport(j) ==
  /\ Is(j, "export", "pending")
  /\ jobs' = [jobs EXCEPT ![j] =
       [kind |-> "export", at |-> "upload", snap |-> db, file |-> Empty,
        ser |-> "query", next |-> 1, err |-> FALSE, eof |-> FALSE,
        broken |-> FALSE, lost |-> FALSE]]
  /\ UNCHANGED <<Database, Stored>>

\* The transaction is the exporting job's until it commits or returns.
TxOpen(j) == jobs[j].at \in {"upload", "collect", "commit"}

\* Mutant: every query sees what is committed when it runs.
SnapshotReadCommitted(j, t) == db[t]

\* What the queries of the export see.
Snapshot(j, t) == jobs[j].snap[t]

\* Mutant: the pipe is closed before the error is in the channel.
SerializerStopsLate(j) == [jobs[j] EXCEPT !.ser = "exit", !.eof = TRUE]

\* The serializer gives up: its error goes into the buffered channel, and only
\* then does the deferred call close the pipe.
SerializerStops(j) == [jobs[j] EXCEPT !.ser = "exit", !.err = TRUE, !.eof = TRUE]

\* The query of the next table; an empty one writes nothing.  After the last
\* one the pipe is closed.  Without the transaction the query fails.
Query(j) ==
  LET ex == jobs[j] IN
  /\ jobs[j] # Nothing /\ "ser" \in DOMAIN ex /\ ex.ser = "query"
  /\ jobs' = [jobs EXCEPT ![j] =
       IF ex.next > Len(Tables) THEN [ex EXCEPT !.ser = "exit", !.eof = TRUE]
       ELSE IF ~TxOpen(j) THEN SerializerStops(j)
       ELSE IF Snapshot(j, Tables[ex.next]) = {} THEN [ex EXCEPT !.next = @ + 1]
       ELSE [ex EXCEPT !.ser = "write"]]
  /\ UNCHANGED <<Database, Stored>>

\* A write waits for the upload to read it; a reader that was closed with an
\* error makes it fail.
Write(j) ==
  LET ex == jobs[j] IN
  /\ jobs[j] # Nothing /\ "ser" \in DOMAIN ex /\ ex.ser = "write"
  /\ ex.broken \/ ex.at = "upload"
  /\ jobs' = [jobs EXCEPT ![j] =
       IF ex.broken THEN SerializerStops(j)
       ELSE LET t == Tables[ex.next] IN
            [ex EXCEPT !.file[t] = Snapshot(j, t), !.next = @ + 1, !.ser = "query"]]
  /\ UNCHANGED <<Database, Stored>>

\* A query, a scan or the encoding of a row fails.
SerializerFails(j) ==
  /\ jobs[j] # Nothing /\ "ser" \in DOMAIN jobs[j] /\ jobs[j].ser \in {"query", "write"}
  /\ jobs' = [jobs EXCEPT ![j] = SerializerStops(j)]
  /\ UNCHANGED <<Database, Stored>>

\* A panic closes the reading end and reports nothing.
SerializerPanics(j) ==
  /\ jobs[j] # Nothing /\ "ser" \in DOMAIN jobs[j] /\ jobs[j].ser \in {"query", "write"}
  /\ jobs' = [jobs EXCEPT ![j].ser = "exit", ![j].broken = TRUE]
  /\ UNCHANGED <<Database, Stored>>

\* UploadStream reads to the end of the pipe and completes the object.
Upload(j) ==
  /\ Is(j, "export", "upload") /\ jobs[j].eof /\ ~jobs[j].broken
  /\ Step(j, "collect")
  /\ objects' = [objects EXCEPT ![j] = [rows |-> jobs[j].file]]
  /\ UNCHANGED <<Database, manifests, wiped>>

\* Mutant: the reading end is left open.
UploadFailsQuietly(j) ==
  /\ Is(j, "export", "upload")
  /\ jobs' = [jobs EXCEPT ![j].at = "collect", ![j].lost = TRUE]
  /\ UNCHANGED <<Database, Stored>>

\* UploadStream fails at any point: there is no object, and the reading end is
\* closed with the error, which runExport does not look at again.
UploadFails(j) ==
  /\ Is(j, "export", "upload")
  /\ jobs' = [jobs EXCEPT ![j].at = "collect", ![j].lost = TRUE, ![j].broken = TRUE]
  /\ UNCHANGED <<Database, Stored>>

\* The select with a default: an error that is there already fails the job.
Collect(j) ==
  /\ Is(j, "export", "collect")
  /\ Step(j, IF jobs[j].err THEN "failed" ELSE "commit")
  /\ UNCHANGED <<Database, Stored>>

\* tx.Commit, which the connection refuses while the serializer reads rows.
CommitExport(j) ==
  /\ Is(j, "export", "commit")
  /\ Step(j, IF jobs[j].ser = "write" THEN "failed" ELSE "manifest")
  /\ UNCHANGED <<Database, Stored>>

\* The manifest is stored; the audit that follows is best effort.
PutManifest(j) ==
  /\ Is(j, "export", "manifest")
  /\ Step(j, "done")
  /\ manifests' = manifests \cup {j}
  /\ UNCHANGED <<Database, objects, wiped>>

\* markFailed: BEGIN, the timeout of 30 minutes, COMMIT or the manifest.  (A panic
\* of runExport itself, which would leave the reading end open, is left out.)
ExportFails(j) ==
  /\ \E at \in {"pending", "collect", "commit", "manifest"} : Is(j, "export", at)
  /\ Step(j, "failed")
  /\ UNCHANGED <<Database, Stored>>

-----------------------------------------------------------------------------
(* Restore.                                                                *)

\* Restore: without a manifest the request is refused and there is no job.
Restore(j, b, dry) ==
  /\ jobs[j] = Nothing /\ b \in manifests
  /\ jobs' = [jobs EXCEPT ![j] = [kind |-> "restore", at |-> "pending", from |-> b, dry |-> dry]]
  /\ UNCHANGED <<Database, Stored>>

\* A dry run ends; otherwise the file is read and every row checked before the
\* database is touched.  A missing file or a table outside the list is fatal
\* for the whole restore, a file without rows ends it.
Parse(j) ==
  LET file == objects[jobs[j].from] IN
  /\ Is(j, "restore", "pending")
  /\ IF jobs[j].dry THEN Step(j, "done")
     ELSE IF file = NoFile THEN Step(j, "failed")
     ELSE IF \E t \in Table \ Restorable : file.rows[t] # {} THEN Step(j, "failed")
     ELSE IF file.rows = Empty THEN Step(j, "done")
     ELSE jobs' = [jobs EXCEPT ![j] = [kind |-> "restore", at |-> "upsert", rows |-> file.rows]]
  /\ UNCHANGED <<Database, Stored>>

\* The upserts of all tables and their COMMIT; rows that are not in the file
\* stay.
Upsert(j) ==
  /\ Is(j, "restore", "upsert")
  /\ Step(j, "done")
  /\ db' = Union(db, jobs[j].rows)
  /\ restored' = Union(restored, jobs[j].rows)
  /\ UNCHANGED <<born, Stored>>

\* A failed download, upsert or COMMIT.
RestoreFails(j) ==
  /\ Is(j, "restore", "pending") \/ Is(j, "restore", "upsert")
  /\ Step(j, "failed")
  /\ UNCHANGED <<Database, Stored>>

-----------------------------------------------------------------------------
(* Reset.                                                                  *)

\* Reset, after the confirmation and the password.
Reset(j) ==
  /\ jobs[j] = Nothing
  /\ jobs' = [jobs EXCEPT ![j] = [kind |-> "reset", at |-> "whatsapp", next |-> 1,
                                  start |-> db, taken |-> Empty]]
  /\ UNCHANGED <<Database, Stored>>

\* Mutant: the second list of tables starts where the first one ended.
DeleteWhatsappOnly(j) ==
  LET i == jobs[j].next
      t == Tables[i]
  IN
  /\ Is(j, "reset", "whatsapp")
  /\ IF i > Len(Tables)
     THEN /\ jobs' = [jobs EXCEPT ![j].at = "tenant"]
          /\ UNCHANGED db
     ELSE /\ jobs' = [jobs EXCEPT ![j].next = i + 1]
          /\ db' = IF t \in WhatsappTables THEN [db EXCEPT ![t] = {}] ELSE db
  /\ UNCHANGED <<born, restored, Stored>>

\* The tables of whatsmeow, each in a statement of its own that is committed at
\* once.
DeleteWhatsapp(j) ==
  LET i == jobs[j].next
      t == Tables[i]
  IN
  /\ Is(j, "reset", "whatsapp")
  /\ IF i > Len(Tables)
     THEN /\ jobs' = [jobs EXCEPT ![j].at = "tenant", ![j].next = 1]
          /\ UNCHANGED db
     ELSE /\ jobs' = [jobs EXCEPT ![j].next = i + 1]
          /\ db' = IF t \in WhatsappTables THEN [db EXCEPT ![t] = {}] ELSE db
  /\ UNCHANGED <<born, restored, Stored>>

\* The other tables, in one transaction: a statement takes the rows that are
\* committed when it runs.
DeleteTenant(j) ==
  LET i == jobs[j].next
      t == Tables[i]
  IN
  /\ Is(j, "reset", "tenant")
  /\ jobs' = IF i > Len(Tables) THEN [jobs EXCEPT ![j].at = "commit"]
             ELSE [jobs EXCEPT ![j].next = i + 1,
                               ![j].taken[t] = IF t \in WhatsappTables THEN {} ELSE db[t]]
  /\ UNCHANGED <<Database, Stored>>

\* COMMIT, answered or not; an answer that is lost fails the job.
CommitReset(j, answered) ==
  /\ Is(j, "reset", "commit")
  /\ Step(j, IF answered THEN "objects" ELSE "failed")
  /\ db' = Minus(db, jobs[j].taken)
  /\ UNCHANGED <<born, restored, Stored>>

\* DeletePrefix on both buckets: the media, and the tenant's backups.  Objects
\* that could not be removed are logged and stay: all of a kind, here, or none.
DeleteObjects(j) ==
  \E kept, left \in {{}, Backups} :
    /\ Is(j, "reset", "objects")
    /\ Step(j, "done")
    /\ objects' = [b \in Backups |-> IF b \in kept THEN objects[b] ELSE NoFile]
    /\ manifests' = manifests \cap left
    /\ wiped' = Backups
    /\ UNCHANGED Database

\* A DELETE, BEGIN or COMMIT fails; the tables of whatsmeow stay as they are.
ResetFails(j) ==
  /\ \E at \in {"whatsapp", "tenant", "commit"} : Is(j, "reset", at)
  /\ Step(j, "failed")
  /\ UNCHANGED <<Database, Stored>>

-----------------------------------------------------------------------------
(* The store of jobs.                                                      *)

\* Purge: a job that ended an hour ago is forgotten; its serializer, if it
\* still runs, is not.
Purge(j) ==
  /\ Over(j) /\ ("ser" \in DOMAIN jobs[j] => jobs[j].ser = "exit")
  /\ jobs' = [jobs EXCEPT ![j] = Nothing]
  /\ UNCHANGED <<Database, Stored>>

\* The process dies, and every job with it.
Crash ==
  /\ \E j \in Jobs : jobs[j] # Nothing
  /\ jobs' = [j \in Jobs |-> Nothing]
  /\ UNCHANGED <<Database, Stored>>

ExportNext(j) ==
  \/ Export(j) \/ BeginExport(j) \/ Query(j) \/ Write(j)
  \/ SerializerFails(j) \/ SerializerPanics(j)
  \/ Upload(j) \/ UploadFails(j) \/ Collect(j) \/ CommitExport(j)
  \/ PutManifest(j) \/ ExportFails(j)

RestoreNext(j) ==
  \/ \E b \in Backups, dry \in BOOLEAN : Restore(j, b, dry)
  \/ Parse(j) \/ Upsert(j) \/ RestoreFails(j)

ResetNext(j) ==
  \/ Reset(j) \/ DeleteWhatsapp(j) \/ DeleteTenant(j)
  \/ \E answered \in BOOLEAN : CommitReset(j, answered)
  \/ DeleteObjects(j) \/ ResetFails(j)

BackupNext ==
  \/ \E j \in Backups : ExportNext(j)
  \/ \E j \in Imports : RestoreNext(j) \/ ResetNext(j)
  \/ \E j \in Jobs : Purge(j)
  \/ \E t \in Table : Traffic(t)
  \/ Crash

BackupSpec == BackupInit /\ [][BackupNext]_backupVars

-----------------------------------------------------------------------------

\* export.go:294-306: an export that ends done although its serializer failed
\* half way, or a reset or the traffic worked on the tables meanwhile, stored
\* all rows of one instant: unless the upload failed, which the code forgets,
\* or a reset removed the file.
DoneExportIsSnapshot ==
  \A j \in Backups :
    (Is(j, "export", "done") /\ ~jobs[j].lost /\ j \notin wiped) =>
      objects[j] = [rows |-> jobs[j].snap]

\* export.go:286-291: when the job of an export is over, no serializer is left
\* blocked on a pipe that nobody reads; runExport itself does not panic here.
NoStuckSerializer ==
  \A j \in Jobs :
    (Over(j) /\ "ser" \in DOMAIN jobs[j] /\ jobs[j].ser = "write") => jobs[j].broken

\* reset.go:92-160: a reset that ends done removed every row that was there
\* when it began, whatever resets, exports and traffic ran beside it; only a
\* restore brings a row back.
DoneResetForgets ==
  \A j \in Jobs :
    (Is(j, "reset", "done") \/ Is(j, "reset", "objects")) =>
      \A t \in Table : jobs[j].start[t] \cap db[t] \subseteq restored[t]

=============================================================================
