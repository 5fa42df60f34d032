--------------------------- MODULE BackupRestore ---------------------------
(***************************************************************************)
(* scripts/backup_db.py and scripts/restore_db.py: a backup dumps the      *)
(* running database into a file beside it, a restore loads such a file     *)
(* into a database it creates.  Each is a sequence of files and database   *)
(* tools; the application and alembic go on working between any two steps, *)
(* a tool may fail, and the process may die.                               *)
(*                                                                         *)
(* A database is its alembic revision and a number standing for its rows.  *)
(* A file is an inode, as renaming and unlinking move or drop its name and *)
(* not the bytes a process is writing.                                     *)
(***************************************************************************)
EXTENDS Naturals

CONSTANTS Backup, Restore,  \* runs of the two scripts
          Name, Source,     \* database names; the one the container is configured with
          None,             \* no file, no database, no manifest
          MaxRev, MaxRows, MaxSecond,   \* bounds of the counters
          FirstComplete,    \* the first revision that has every core table
          SameSecond        \* whether two backups may take their name in one second

ASSUME NamesAssumption == Source \in Name /\ None \notin Name \cup Backup
ASSUME BoundsAssumption == /\ {MaxRev, MaxRows, MaxSecond, FirstComplete} \subseteq Nat
                           /\ FirstComplete > 0 /\ SameSecond \in BOOLEAN

VARIABLES
  now,        \* the second the clock shows
  databases,  \* each name's database, or None
  inode,      \* the bytes of the file each backup created
  archive, partial,  \* of each second's .dump and .dump.part, the inode
  manifest,   \* of each second's .dump.json
  backup, restore    \* what each run of a script has done and remembers

files == <<inode, archive, partial, manifest>>
vars == <<now, databases, files, backup, restore>>

Second == 0 .. MaxSecond
Database == [rev : 0 .. MaxRev, rows : 0 .. MaxRows]
EmptyDatabase == [rev |-> 0, rows |-> 0]
ASSUME NoneAssumption == None \notin Database

Content == [stage : {"empty", "part", "whole", "mixed"}, by : Backup, db : Database]
Torn == [rev |-> 0, size |-> "torn", hash |-> None]
Manifest == [rev : 0 .. MaxRev, size : {"part", "whole", "mixed"}, hash : Content]

StartOfBackup == [pc |-> "idle", second |-> 0, rev |-> 0, file |-> None, size |-> "empty",
                  hash |-> None, migrated |-> FALSE]
StartOfRestore == [pc |-> "idle", second |-> 0, target |-> Source, manifest |-> None,
                   created |-> FALSE]

(* inspect_database: a revision is recorded and every core table is there. *)
Usable(db) == db.rev >= FirstComplete

(* sha256 and size as _sha256 and stat find them now.                      *)
Bytes(s) == inode[archive[s]]
Matches(m, s) == m # None => m.size = Bytes(s).stage /\ m.hash = Bytes(s)
-----------------------------------------------------------------------------
(***************************************************************************)
(* Deliberate faults, for testing the properties; no specification uses    *)
(* them.                                                                   *)
(***************************************************************************)
OpenTheOutput(b) ==   \* no partial file
  /\ backup[b].pc = "named"
  /\ archive' = [archive EXCEPT ![backup[b].second] = b]
  /\ inode' = [inode EXCEPT ![b] = [stage |-> "empty", by |-> b, db |-> EmptyDatabase]]
  /\ backup' = [backup EXCEPT ![b].pc = "opened", ![b].file = b]
  /\ UNCHANGED <<now, databases, partial, manifest, restore>>
ManifestFromStart(b) ==   \* the size is the one of the file just opened
  /\ backup[b].pc = "hashed"
  /\ manifest' = [manifest EXCEPT ![backup[b].second] =
                    [rev |-> backup[b].rev, size |-> "part", hash |-> backup[b].hash]]
  /\ backup' = [backup EXCEPT ![b].pc = "done"]
  /\ UNCHANGED <<now, databases, inode, archive, partial, restore>>
CreateOrReuse(r) ==   \* an existing target is not an error
  /\ restore[r].pc = "looked"
  /\ databases' = [databases EXCEPT ![restore[r].target] = EmptyDatabase]
  /\ restore' = [restore EXCEPT ![r].pc = "created", ![r].created = TRUE]
  /\ UNCHANGED <<now, files, backup>>
AcceptUnchecked(r) ==   \* the revisions are not compared
  /\ restore[r].pc = "loaded"
  /\ Usable(databases[restore[r].target])
  /\ restore' = [restore EXCEPT ![r].pc = "done"]
  /\ UNCHANGED <<now, databases, files, backup>>
-----------------------------------------------------------------------------
Init ==
  /\ now = 0
  /\ \E rev \in 0 .. MaxRev :
       databases = [n \in Name |-> IF n = Source THEN [rev |-> rev, rows |-> 0] ELSE None]
  /\ inode = [b \in Backup |-> None]
  /\ archive = [s \in Second |-> None]
  /\ partial = [s \in Second |-> None]
  /\ manifest = [s \in Second |-> None]
  /\ backup = [b \in Backup |-> StartOfBackup]
  /\ restore = [r \in Restore |-> StartOfRestore]

Tick == now < MaxSecond /\ now' = now + 1 /\ UNCHANGED <<databases, files, backup, restore>>

(* The application writes rows; alembic upgrades in one transaction.       *)
Write ==
  /\ databases[Source].rows < MaxRows
  /\ databases' = [databases EXCEPT ![Source].rows = @ + 1]
  /\ UNCHANGED <<now, files, backup, restore>>

Migrate ==
  /\ databases[Source].rev < MaxRev
  /\ databases' = [databases EXCEPT ![Source].rev = @ + 1]
  /\ backup' = [b \in Backup |->
       [backup[b] EXCEPT !.migrated =
          @ \/ backup[b].pc \in {"revision", "verified", "named", "opened"}]]
  /\ UNCHANGED <<now, files, restore>>
-----------------------------------------------------------------------------
(* create_backup.                                                          *)
ReadRevisions(b) ==
  /\ backup[b].pc = "idle"
  /\ databases[Source].rev > 0
  /\ backup' = [backup EXCEPT ![b].pc = "revision", ![b].rev = databases[Source].rev]
  /\ UNCHANGED <<now, databases, files, restore>>

VerifyTables(b) ==
  /\ backup[b].pc = "revision"
  /\ Usable(databases[Source])
  /\ backup' = [backup EXCEPT ![b].pc = "verified"]
  /\ UNCHANGED <<now, databases, files, restore>>

(* The name has the second; an existing archive is refused, a partial file *)
(* of that name is unlinked.                                               *)
NameOutput(b) ==
  /\ backup[b].pc = "verified"
  /\ archive[now] = None
  /\ SameSecond \/ \A c \in Backup \ {b} : backup[c].file = None \/ backup[c].second # now
  /\ partial' = [partial EXCEPT ![now] = None]
  /\ backup' = [backup EXCEPT ![b].pc = "named", ![b].second = now, ![b].file = b]
  /\ UNCHANGED <<now, databases, inode, archive, manifest, restore>>

(* open("wb") creates the file, or truncates the one that has the name.    *)
OpenPartial(b) ==
  LET s == backup[b].second
      file == IF partial[s] = None THEN b ELSE partial[s]
  IN /\ backup[b].pc = "named"
     /\ partial' = [partial EXCEPT ![s] = file]
     /\ inode' = [inode EXCEPT ![file] = [stage |-> "empty", by |-> b, db |-> EmptyDatabase]]
     /\ backup' = [backup EXCEPT ![b].pc = "opened", ![b].file = file]
     /\ UNCHANGED <<now, databases, archive, manifest, restore>>

(* pg_dump works on one snapshot.  Two writers of one inode spoil it.      *)
Dump(b, pc, from, next, to) ==
  LET file == backup[b].file
      alone == inode[file].by = b /\ inode[file].stage = from
  IN /\ backup[b].pc = pc
     /\ inode' = [inode EXCEPT ![file].stage = IF alone THEN to ELSE "mixed",
                               ![file].db = IF from = "empty" THEN databases[Source] ELSE @]
     /\ backup' = [backup EXCEPT ![b].pc = next]
     /\ UNCHANGED <<now, databases, archive, partial, manifest, restore>>
DumpStarts(b) == Dump(b, "opened", "empty", "dumping", "part")
DumpEnds(b) == Dump(b, "dumping", "part", "dumped", "whole")

Measure(b) ==
  LET file == partial[backup[b].second] IN
  /\ backup[b].pc = "dumped"
  /\ file # None /\ inode[file].stage # "empty"
  /\ backup' = [backup EXCEPT ![b].pc = "measured", ![b].size = inode[file].stage]
  /\ UNCHANGED <<now, databases, files, restore>>

Publish(b) ==
  LET s == backup[b].second IN
  /\ backup[b].pc = "measured"
  /\ partial[s] # None
  /\ archive' = [archive EXCEPT ![s] = partial[s]]
  /\ partial' = [partial EXCEPT ![s] = None]
  /\ backup' = [backup EXCEPT ![b].pc = "published"]
  /\ UNCHANGED <<now, databases, inode, manifest, restore>>

HashArchive(b) ==
  /\ backup[b].pc = "published"
  /\ backup' = [backup EXCEPT ![b].pc = "hashed", ![b].hash = Bytes(backup[b].second)]
  /\ UNCHANGED <<now, databases, files, restore>>

WriteManifest(b) ==
  /\ backup[b].pc = "hashed"
  /\ manifest' = [manifest EXCEPT ![backup[b].second] =
                    [rev |-> backup[b].rev, size |-> backup[b].size, hash |-> backup[b].hash]]
  /\ backup' = [backup EXCEPT ![b].pc = "done"]
  /\ UNCHANGED <<now, databases, inode, archive, partial, restore>>

(* A tool fails, an inspection refuses, a file has vanished: within the    *)
(* try block the partial file is unlinked.                                 *)
BackupFails(b) ==
  /\ backup[b].pc \in {"idle", "revision", "verified", "named", "opened", "dumping", "dumped",
                       "measured"}
  /\ partial' = IF backup[b].pc \in {"idle", "revision", "verified"} THEN partial
                ELSE [partial EXCEPT ![backup[b].second] = None]
  /\ backup' = [backup EXCEPT ![b].pc = "failed"]
  /\ UNCHANGED <<now, databases, inode, archive, manifest, restore>>

(* The process dies: what is on disk stays, the manifest maybe half there. *)
BackupDies(b) ==
  /\ backup[b].pc \notin {"idle", "done", "failed"}
  /\ \/ UNCHANGED manifest
     \/ /\ backup[b].pc = "hashed"
        /\ manifest' = [manifest EXCEPT ![backup[b].second] = Torn]
  /\ backup' = [backup EXCEPT ![b].pc = "failed"]
  /\ UNCHANGED <<now, databases, inode, archive, partial, restore>>
-----------------------------------------------------------------------------
(* restore_backup, confirmed, of an archive that is a nonempty file.       *)
RequestRestore(r) ==
  /\ restore[r].pc = "idle"
  /\ \E s \in Second, n \in Name :
       /\ archive[s] # None /\ Bytes(s).stage # "empty"
       /\ manifest[s] # Torn
       /\ restore' = [restore EXCEPT ![r] = [@ EXCEPT !.pc = "requested", !.second = s,
                                                      !.target = n, !.manifest = manifest[s]]]
  /\ UNCHANGED <<now, databases, files, backup>>

(* The manifest's size and hash, then the name, then pg_restore --list.    *)
VerifyArchive(r) ==
  /\ restore[r].pc = "requested"
  /\ Matches(restore[r].manifest, restore[r].second)
  /\ restore[r].target # Source
  /\ restore' = [restore EXCEPT ![r].pc = "verified"]
  /\ UNCHANGED <<now, databases, files, backup>>

LookForTarget(r) ==
  /\ restore[r].pc = "verified"
  /\ databases[restore[r].target] = None
  /\ restore' = [restore EXCEPT ![r].pc = "looked"]
  /\ UNCHANGED <<now, databases, files, backup>>

(* createdb fails if the database exists.                                  *)
CreateTarget(r) ==
  /\ restore[r].pc = "looked"
  /\ databases[restore[r].target] = None
  /\ databases' = [databases EXCEPT ![restore[r].target] = EmptyDatabase]
  /\ restore' = [restore EXCEPT ![r].pc = "created", ![r].created = TRUE]
  /\ UNCHANGED <<now, files, backup>>

(* pg_restore --exit-on-error loads a whole archive or fails.              *)
Load(r) ==
  /\ restore[r].pc = "created"
  /\ Bytes(restore[r].second).stage = "whole"
  /\ databases' = [databases EXCEPT ![restore[r].target] = Bytes(restore[r].second).db]
  /\ restore' = [restore EXCEPT ![r].pc = "loaded"]
  /\ UNCHANGED <<now, files, backup>>

(* inspect_database on the target, then the revisions of the manifest.     *)
Accept(r) ==
  LET db == databases[restore[r].target] IN
  /\ restore[r].pc = "loaded"
  /\ Usable(db)
  /\ restore[r].manifest # None => restore[r].manifest.rev = db.rev
  /\ restore' = [restore EXCEPT ![r].pc = "done"]
  /\ UNCHANGED <<now, databases, files, backup>>

(* A check refuses, a tool fails or the process dies; a target is kept.    *)
RestoreFails(r) ==
  /\ restore[r].pc \notin {"idle", "done", "failed"}
  /\ restore' = [restore EXCEPT ![r].pc = "failed"]
  /\ UNCHANGED <<now, databases, files, backup>>
-----------------------------------------------------------------------------
BackupStep(b) ==
  \/ ReadRevisions(b) \/ VerifyTables(b) \/ NameOutput(b) \/ OpenPartial(b) \/ DumpStarts(b)
  \/ DumpEnds(b) \/ Measure(b) \/ Publish(b) \/ HashArchive(b) \/ WriteManifest(b)
  \/ BackupFails(b) \/ BackupDies(b)

RestoreStep(r) ==
  \/ RequestRestore(r) \/ VerifyArchive(r) \/ LookForTarget(r) \/ CreateTarget(r) \/ Load(r)
  \/ Accept(r) \/ RestoreFails(r)

Next ==
  \/ Tick \/ Write \/ Migrate
  \/ \E b \in Backup : BackupStep(b)
  \/ \E r \in Restore : RestoreStep(r)

Spec == Init /\ [][Next]_vars
-----------------------------------------------------------------------------
BackupRun ==
  [pc : {"idle", "revision", "verified", "named", "opened", "dumping", "dumped",
         "measured", "published", "hashed", "done", "failed"},
   second : Second, rev : 0 .. MaxRev, file : Backup \cup {None},
   size : {"empty", "part", "whole", "mixed"}, hash : Content \cup {None}, migrated : BOOLEAN]
RestoreRun ==
  [pc : {"idle", "requested", "verified", "looked", "created", "loaded", "done", "failed"},
   second : Second, target : Name, manifest : Manifest \cup {None}, created : BOOLEAN]

(* Every file, manifest, database and script variable has its type.        *)
TypeOK ==
  /\ now \in Second
  /\ databases \in [Name -> Database \cup {None}] /\ databases[Source] \in Database
  /\ inode \in [Backup -> Content \cup {None}]
  /\ archive \in [Second -> Backup \cup {None}]
  /\ partial \in [Second -> Backup \cup {None}]
  /\ manifest \in [Second -> Manifest \cup {None, Torn}]
  /\ backup \in [Backup -> BackupRun]
  /\ restore \in [Restore -> RestoreRun]

(* Whenever a backup stops, by success, failure or death at any step, the  *)
(* file that has an archive's name is a whole dump of a usable database:   *)
(* create_backup dumps under another name and renames.                     *)
PublishedIsWhole ==
  \A s \in Second : archive[s] # None => Bytes(s).stage = "whole" /\ Usable(Bytes(s).db)

(* A backup that reported success passes every check a restore will make   *)
(* of it, unless alembic upgraded while it ran: size, hash, revisions.     *)
BackupIsRestorable ==
  \A b \in Backup : backup[b].pc = "done" =>
    LET s == backup[b].second IN
    /\ Matches(manifest[s], s)
    /\ ~backup[b].migrated => manifest[s].rev = Bytes(s).db.rev

(* A database that a restore fills belongs to that restore alone, also     *)
(* when two of them looked for one name before either created it, and it   *)
(* is never the configured one.                                            *)
TargetHasOneRestore ==
  \A r \in Restore : restore[r].created =>
    /\ restore[r].target # Source
    /\ \A q \in Restore \ {r} : ~(restore[q].created /\ restore[q].target = restore[r].target)

(* A restore that reports success, however long after the backup and       *)
(* whatever other scripts did since, left in its target exactly the data   *)
(* of the archive it was given, with the revision its manifest promised.   *)
RestoredIsTheBackup ==
  \A r \in Restore : restore[r].pc = "done" =>
    /\ databases[restore[r].target] = Bytes(restore[r].second).db
    /\ Usable(databases[restore[r].target])
    /\ restore[r].manifest # None =>
         restore[r].manifest.rev = databases[restore[r].target].rev

(* The configured database changes only by the application's writes and    *)
(* migrations: no script takes anything from it or sets it back.           *)
SourceGrows ==
  /\ databases'[Source].rev >= databases[Source].rev
  /\ databases'[Source].rows >= databases[Source].rows
SourceOnlyGrows == [][SourceGrows]_vars
=============================================================================
