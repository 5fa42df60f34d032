------------------------- MODULE BackupRestoreProofs -------------------------
(***************************************************************************)
(* For any number of runs of the two scripts, database names and seconds:  *)
(* no two restores fill one database, none fills the configured one, and   *)
(* nothing but the application and alembic changes that one.               *)
(*                                                                         *)
(* restore_db.py compares the target with the configured name once, before *)
(* all else (Settled), and creates the database it will fill: a name for   *)
(* which a restore has a database is taken (Taken), so createdb refuses    *)
(* it to the next, however long ago that one looked for it.                *)
(*                                                                         *)
(* The last part adds, unless two backups take their name in one second:   *)
(* an archive under its own name is whole, a backup that reported success  *)
(* can be restored, and what a restore accepts is what was dumped.         *)
(***************************************************************************)
EXTENDS BackupRestore, TLAPS

(* Every name and every handle leads to bytes that exist.                  *)
FilesExist ==
  /\ \A s \in Second : archive[s] # None => Bytes(s) \in Content
  /\ \A s \in Second : partial[s] # None => inode[partial[s]] \in Content
  /\ \A b \in Backup : backup[b].pc \in {"opened", "dumping"} =>
       backup[b].file \in Backup /\ inode[backup[b].file] \in Content
  /\ \A b \in Backup : backup[b].pc \in {"published", "hashed"} => archive[backup[b].second] # None
  /\ \A b \in Backup : backup[b].pc \in {"measured", "published", "hashed"} => backup[b].size # "empty"
  /\ \A b \in Backup : backup[b].pc = "hashed" => backup[b].hash \in Content
  /\ \A r \in Restore : restore[r].pc \notin {"idle", "failed"} => archive[restore[r].second] # None

Settled ==
  \A r \in Restore :
    /\ restore[r].pc \in {"verified", "looked", "created", "loaded"} => restore[r].target # Source
    /\ restore[r].pc \in {"idle", "requested", "verified", "looked"} => ~restore[r].created

Taken ==
  \A r \in Restore : restore[r].created => databases[restore[r].target] \in Database

IInv == TypeOK /\ FilesExist /\ Settled /\ Taken /\ TargetHasOneRestore
-----------------------------------------------------------------------------
LEMMA Starts == Init => IInv
<1> SUFFICES ASSUME Init PROVE IInv
  OBVIOUS
<1> USE NamesAssumption, BoundsAssumption, NoneAssumption
<1>1. 0 \in Second /\ 0 \in 0 .. MaxRev /\ 0 \in 0 .. MaxRows
  BY DEF Second
<1>2. StartOfBackup.pc = "idle" /\ StartOfRestore.pc = "idle" /\ ~StartOfRestore.created
  BY DEF StartOfBackup, StartOfRestore
<1>3. /\ backup = [b \in Backup |-> StartOfBackup] /\ restore = [r \in Restore |-> StartOfRestore]
      /\ archive = [s \in Second |-> None] /\ partial = [s \in Second |-> None]
  BY DEF Init
<1>4. TypeOK
  BY <1>1, <1>3 DEF Init, TypeOK, Database, StartOfBackup, StartOfRestore, BackupRun, RestoreRun
<1>5. FilesExist
  BY <1>2, <1>3, <1>4 DEF FilesExist
<1>6. Settled /\ Taken /\ TargetHasOneRestore
  BY <1>2, <1>3 DEF Settled, Taken, TargetHasOneRestore
<1> QED
  BY <1>4, <1>5, <1>6 DEF IInv
-----------------------------------------------------------------------------
(* Steps that leave the restores alone keep what is said of them.          *)
LEMMA RestoresUntouched ==
  ASSUME IInv, UNCHANGED restore,
         \A n \in Name : databases[n] \in Database => databases'[n] \in Database
  PROVE  Settled' /\ Taken' /\ TargetHasOneRestore'
BY DEF IInv, TypeOK, RestoreRun, Settled, Taken, TargetHasOneRestore

LEMMA OutsideKeeps ==
  ASSUME IInv, Tick \/ Write \/ Migrate
  PROVE  IInv'
<1> USE NamesAssumption, BoundsAssumption
<1>1. TypeOK /\ FilesExist
  BY DEF IInv
<1>2. CASE Tick
  <2>1. now' \in Second /\ UNCHANGED <<databases, files, backup, restore>>
    BY <1>1, <1>2 DEF Tick, TypeOK, Second
  <2>2. TypeOK' /\ FilesExist'
    BY <1>1, <2>1 DEF TypeOK, FilesExist, files, Bytes
  <2> QED  BY <2>1, <2>2, RestoresUntouched DEF IInv
<1>3. CASE Write
  <2>1. /\ [databases[Source] EXCEPT !.rows = @ + 1] \in Database
        /\ databases' = [databases EXCEPT ![Source] = [databases[Source] EXCEPT !.rows = @ + 1]]
    BY <1>1, <1>3 DEF Write, TypeOK, Database
  <2>2. TypeOK' /\ FilesExist'
    BY <1>1, <1>3, <2>1 DEF Write, TypeOK, FilesExist, files, Bytes
  <2>3. UNCHANGED restore /\ \A n \in Name : databases[n] \in Database => databases'[n] \in Database
    BY <1>1, <1>3, <2>1 DEF Write, TypeOK
  <2> QED  BY <2>2, <2>3, RestoresUntouched DEF IInv
<1>4. CASE Migrate
  <2>1. /\ [databases[Source] EXCEPT !.rev = @ + 1] \in Database
        /\ databases' = [databases EXCEPT ![Source] = [databases[Source] EXCEPT !.rev = @ + 1]]
    BY <1>1, <1>4 DEF Migrate, TypeOK, Database
  <2>2. UNCHANGED restore /\ \A n \in Name : databases[n] \in Database => databases'[n] \in Database
    BY <1>1, <1>4, <2>1 DEF Migrate, TypeOK
  <2>3. /\ backup' \in [Backup -> BackupRun]
        /\ \A b \in Backup : /\ backup'[b].pc = backup[b].pc /\ backup'[b].file = backup[b].file
                             /\ backup'[b].second = backup[b].second /\ backup'[b].size = backup[b].size
                             /\ backup'[b].hash = backup[b].hash
    <3> DEFINE seen(b) == backup[b].migrated \/ backup[b].pc \in {"revision", "verified", "named", "opened"}
               new(b) == [backup[b] EXCEPT !.migrated = seen(b)]
    <3>1. ASSUME NEW b \in Backup, NEW x \in BOOLEAN
          PROVE  LET n == [backup[b] EXCEPT !.migrated = x] IN
                 /\ n \in BackupRun /\ n.pc = backup[b].pc /\ n.file = backup[b].file
                 /\ n.second = backup[b].second /\ n.size = backup[b].size /\ n.hash = backup[b].hash
      <4>1. backup[b] \in BackupRun
        BY <1>1 DEF TypeOK
      <4> QED  BY <4>1 DEF BackupRun
    <3>2. \A b \in Backup : seen(b) \in BOOLEAN
      BY <1>1 DEF TypeOK, BackupRun
    <3>3. backup' = [b \in Backup |-> new(b)]
      BY <1>4 DEF Migrate
    <3> HIDE DEF seen
    <3> QED  BY <3>1, <3>2, <3>3
  <2>4. TypeOK'
    BY <1>1, <1>4, <2>1, <2>3 DEF Migrate, TypeOK, files
  <2>5. UNCHANGED <<inode, archive, partial, restore>>
    BY <1>4 DEF Migrate, files
  <2>6. FilesExist'
    BY <1>1, <2>3, <2>5 DEF FilesExist, Bytes
  <2> QED  BY <2>2, <2>4, <2>6, RestoresUntouched DEF IInv
<1> QED
  BY <1>2, <1>3, <1>4
-----------------------------------------------------------------------------
(* A step of a backup that touches no file, or its own.                    *)
LEMMA RunStep ==
  ASSUME IInv, NEW b \in Backup, NEW new \in BackupRun, backup' = [backup EXCEPT ![b] = new],
         UNCHANGED <<now, databases, restore>>,
         inode' \in [Backup -> Content \cup {None}],
         archive' \in [Second -> Backup \cup {None}],
         partial' \in [Second -> Backup \cup {None}],
         manifest' \in [Second -> Manifest \cup {None, Torn}],
         \A c \in Backup : inode[c] \in Content => inode'[c] \in Content,
         \A s \in Second : archive'[s] = archive[s] \/ (archive'[s] # None /\ Bytes(s)' \in Content),
         \A s \in Second : partial'[s] \in {None, partial[s]} \/ inode'[partial'[s]] \in Content,
         new.pc \in {"opened", "dumping"} => new.file \in Backup /\ inode'[new.file] \in Content,
         new.pc \in {"published", "hashed"} => archive'[new.second] # None,
         new.pc \in {"measured", "published", "hashed"} => new.size # "empty",
         new.pc = "hashed" => new.hash \in Content
  PROVE  IInv'
<1>1. TypeOK /\ FilesExist
  BY DEF IInv
<1>2. /\ backup' \in [Backup -> BackupRun] /\ backup'[b] = new
      /\ \A c \in Backup : c # b => backup'[c] = backup[c]
  BY <1>1 DEF TypeOK
<1>3. TypeOK'
  BY <1>1, <1>2 DEF TypeOK
<1>4. \A s \in Second : archive[s] # None => archive'[s] # None
  OBVIOUS
<1>5. FilesExist'
  <2>1. (\A s \in Second : archive[s] # None => Bytes(s) \in Content)'
    <3> SUFFICES ASSUME NEW s \in Second, archive'[s] # None, archive'[s] = archive[s]
                 PROVE  Bytes(s)' \in Content
      OBVIOUS
    <3>1. archive[s] \in Backup /\ inode[archive[s]] \in Content
      BY <1>1 DEF TypeOK, FilesExist, Bytes
    <3> QED  BY <3>1 DEF Bytes
  <2>2. (\A s \in Second : partial[s] # None => inode[partial[s]] \in Content)'
    <3> SUFFICES ASSUME NEW s \in Second, partial'[s] # None, partial'[s] = partial[s]
                 PROVE  inode'[partial'[s]] \in Content
      OBVIOUS
    <3>1. partial[s] \in Backup /\ inode[partial[s]] \in Content
      BY <1>1 DEF TypeOK, FilesExist
    <3> QED  BY <3>1
  <2>3. ASSUME NEW c \in Backup
        PROVE  /\ backup'[c].pc \in {"opened", "dumping"} =>
                    backup'[c].file \in Backup /\ inode'[backup'[c].file] \in Content
               /\ backup'[c].pc \in {"published", "hashed"} => archive'[backup'[c].second] # None
               /\ backup'[c].pc \in {"measured", "published", "hashed"} => backup'[c].size # "empty"
               /\ backup'[c].pc = "hashed" => backup'[c].hash \in Content
    <3>1. CASE c = b
      BY <1>2, <3>1
    <3>2. CASE c # b
      <4>1. backup'[c] = backup[c] /\ backup[c].second \in Second
        BY <1>1, <1>2, <3>2 DEF TypeOK, BackupRun
      <4> QED  BY <1>1, <1>4, <4>1 DEF FilesExist
    <3> QED  BY <3>1, <3>2
  <2>4. (\A r \in Restore : restore[r].pc \notin {"idle", "failed"} => archive[restore[r].second] # None)'
    BY <1>1, <1>4 DEF FilesExist, TypeOK, RestoreRun
  <2> QED  BY <2>1, <2>2, <2>3, <2>4 DEF FilesExist
<1> QED
  BY <1>3, <1>5, RestoresUntouched DEF IInv

(* create_backup before it has a file.                                     *)
LEMMA EarlySteps ==
  ASSUME IInv, NEW b \in Backup, ReadRevisions(b) \/ VerifyTables(b) \/ NameOutput(b)
  PROVE  IInv'
<1>1. TypeOK /\ backup[b] \in BackupRun
  BY DEF IInv, TypeOK
<1>2. CASE ReadRevisions(b)
  <2> DEFINE new == [backup[b] EXCEPT !.pc = "revision", !.rev = databases[Source].rev]
  <2>1. new \in BackupRun /\ new.pc = "revision" /\ backup' = [backup EXCEPT ![b] = new]
    BY <1>1, <1>2 DEF ReadRevisions, TypeOK, BackupRun, Database
  <2>2. UNCHANGED <<now, databases, inode, archive, partial, manifest, restore>>
    BY <1>2 DEF ReadRevisions, files
  <2> HIDE DEF new
  <2> QED  BY <1>1, <2>1, <2>2, RunStep DEF TypeOK
<1>3. CASE VerifyTables(b)
  <2> DEFINE new == [backup[b] EXCEPT !.pc = "verified"]
  <2>1. new \in BackupRun /\ new.pc = "verified" /\ backup' = [backup EXCEPT ![b] = new]
    BY <1>1, <1>3 DEF VerifyTables, BackupRun
  <2>2. UNCHANGED <<now, databases, inode, archive, partial, manifest, restore>>
    BY <1>3 DEF VerifyTables, files
  <2> HIDE DEF new
  <2> QED  BY <1>1, <2>1, <2>2, RunStep DEF TypeOK
<1>4. CASE NameOutput(b)
  <2> DEFINE new == [backup[b] EXCEPT !.pc = "named", !.second = now, !.file = b]
  <2>1. new \in BackupRun /\ new.pc = "named" /\ backup' = [backup EXCEPT ![b] = new]
    BY <1>1, <1>4 DEF NameOutput, BackupRun, TypeOK
  <2>2. UNCHANGED <<now, databases, inode, archive, manifest, restore>>
        /\ partial' = [partial EXCEPT ![now] = None]
    BY <1>4 DEF NameOutput
  <2> HIDE DEF new
  <2> QED  BY <1>1, <2>1, <2>2, RunStep DEF TypeOK
<1> QED
  BY <1>2, <1>3, <1>4

(* open and pg_dump: the bytes they write.                                 *)
LEMMA WritingSteps ==
  ASSUME IInv, NEW b \in Backup, OpenPartial(b) \/ DumpStarts(b) \/ DumpEnds(b)
  PROVE  IInv'
<1>1. TypeOK /\ backup[b] \in BackupRun /\ backup[b].second \in Second /\ FilesExist
  BY DEF IInv, TypeOK, BackupRun
<1>2. CASE OpenPartial(b)
  <2> DEFINE file == IF partial[backup[b].second] = None THEN b ELSE partial[backup[b].second]
             new == [backup[b] EXCEPT !.pc = "opened", !.file = file]
             bytes == [stage |-> "empty", by |-> b, db |-> EmptyDatabase]
  <2>1. file \in Backup
    BY <1>1 DEF TypeOK
  <2>2. new \in BackupRun /\ new.pc = "opened" /\ new.file = file /\ backup' = [backup EXCEPT ![b] = new]
    BY <1>1, <1>2, <2>1 DEF OpenPartial, BackupRun
  <2>3. bytes \in Content
    BY BoundsAssumption DEF Content, Database, EmptyDatabase
  <2>4. /\ inode' = [inode EXCEPT ![file] = bytes]
        /\ partial' = [partial EXCEPT ![backup[b].second] = file]
        /\ UNCHANGED <<now, databases, archive, manifest, restore>>
    BY <1>2 DEF OpenPartial
  <2> HIDE DEF file, new, bytes
  <2>5. /\ inode' \in [Backup -> Content \cup {None}] /\ inode'[file] \in Content
        /\ \A c \in Backup : inode[c] \in Content => inode'[c] \in Content
        /\ partial' \in [Second -> Backup \cup {None}]
        /\ \A s \in Second : partial'[s] \in {None, partial[s]} \/ inode'[partial'[s]] \in Content
    BY <1>1, <2>1, <2>3, <2>4 DEF TypeOK
  <2>6. /\ archive' \in [Second -> Backup \cup {None}] /\ manifest' \in [Second -> Manifest \cup {None, Torn}]
        /\ \A s \in Second : archive'[s] = archive[s] \/ (archive'[s] # None /\ Bytes(s)' \in Content)
        /\ UNCHANGED <<now, databases, restore>>
    BY <1>1, <2>4 DEF TypeOK
  <2>7. /\ new.pc \in {"opened", "dumping"} => new.file \in Backup /\ inode'[new.file] \in Content
        /\ new.pc \in {"published", "hashed"} => archive'[new.second] # None
        /\ new.pc \in {"measured", "published", "hashed"} => new.size # "empty"
        /\ new.pc = "hashed" => new.hash \in Content
    BY <2>1, <2>2, <2>5
  <2> QED  BY <2>2, <2>5, <2>6, <2>7, RunStep
<1>3. ASSUME NEW from \in {"empty", "part"}, NEW next \in {"dumping", "dumped"}, NEW to \in {"part", "whole"},
             backup[b].pc \in {"opened", "dumping"},
             Dump(b, backup[b].pc, from, next, to)
      PROVE  IInv'
  <2> DEFINE file == backup[b].file
             stage == IF inode[file].by = b /\ inode[file].stage = from THEN to ELSE "mixed"
             db == IF from = "empty" THEN databases[Source] ELSE inode[file].db
             bytes == [inode[file] EXCEPT !.stage = stage, !.db = db]
             new == [backup[b] EXCEPT !.pc = next]
  <2>1. file \in Backup /\ inode[file] \in Content
    BY <1>1, <1>3 DEF FilesExist
  <2>2. stage \in {"empty", "part", "whole", "mixed"} /\ db \in Database
    BY <1>1, <2>1 DEF TypeOK, Content
  <2>3. bytes \in Content
    <3> HIDE DEF stage, db
    <3> QED  BY <2>1, <2>2 DEF Content
  <2>4. new \in BackupRun /\ new.pc = next /\ new.file = file /\ backup' = [backup EXCEPT ![b] = new]
    BY <1>1, <1>3 DEF Dump, BackupRun
  <2>5. /\ inode' = [inode EXCEPT ![file] = bytes]
        /\ UNCHANGED <<now, databases, archive, partial, manifest, restore>>
    BY <1>1, <1>3, <2>1 DEF Dump, TypeOK
  <2> HIDE DEF file, new, bytes
  <2>6. /\ inode' \in [Backup -> Content \cup {None}] /\ inode'[file] \in Content
        /\ \A c \in Backup : inode[c] \in Content => inode'[c] \in Content
    BY <1>1, <2>1, <2>3, <2>5 DEF TypeOK
  <2> QED  BY <1>1, <2>1, <2>4, <2>5, <2>6, RunStep DEF TypeOK
<1>4. DumpStarts(b) => Dump(b, backup[b].pc, "empty", "dumping", "part") /\ backup[b].pc = "opened"
  BY DEF DumpStarts, Dump
<1>5. DumpEnds(b) => Dump(b, backup[b].pc, "part", "dumped", "whole") /\ backup[b].pc = "dumping"
  BY DEF DumpEnds, Dump
<1> QED
  BY <1>2, <1>3, <1>4, <1>5

(* What is done with a file that is written, and the two ways to stop.     *)
LEMMA LateSteps ==
  ASSUME IInv, NEW b \in Backup,
         Measure(b) \/ Publish(b) \/ HashArchive(b) \/ WriteManifest(b) \/ BackupFails(b) \/ BackupDies(b)
  PROVE  IInv'
<1> DEFINE s == backup[b].second
<1>1. TypeOK /\ backup[b] \in BackupRun /\ s \in Second /\ FilesExist
  BY DEF IInv, TypeOK, BackupRun
<1>2. CASE Measure(b)
  <2> DEFINE new == [backup[b] EXCEPT !.pc = "measured", !.size = inode[partial[s]].stage]
  <2>1. partial[s] # None /\ inode[partial[s]] \in Content /\ inode[partial[s]].stage # "empty"
    BY <1>1, <1>2 DEF Measure, FilesExist
  <2>2. new \in BackupRun /\ new.pc = "measured" /\ new.size # "empty" /\ backup' = [backup EXCEPT ![b] = new]
    BY <1>1, <1>2, <2>1 DEF Measure, BackupRun, Content
  <2>3. UNCHANGED <<now, databases, inode, archive, partial, manifest, restore>>
    BY <1>2 DEF Measure, files
  <2> HIDE DEF new
  <2> QED  BY <1>1, <2>2, <2>3, RunStep DEF TypeOK
<1>3. CASE Publish(b)
  <2> DEFINE new == [backup[b] EXCEPT !.pc = "published"]
  <2>1. /\ new \in BackupRun /\ new.pc = "published" /\ new.second = s /\ new.size # "empty"
        /\ backup' = [backup EXCEPT ![b] = new]
    BY <1>1, <1>3 DEF Publish, BackupRun, FilesExist
  <2>2. partial[s] # None /\ inode[partial[s]] \in Content /\ partial[s] \in Backup
    BY <1>1, <1>3 DEF Publish, FilesExist, TypeOK
  <2>3. /\ archive' = [archive EXCEPT ![s] = partial[s]] /\ partial' = [partial EXCEPT ![s] = None]
        /\ UNCHANGED <<now, databases, inode, manifest, restore>>
    BY <1>3 DEF Publish
  <2>4. /\ archive' \in [Second -> Backup \cup {None}] /\ partial' \in [Second -> Backup \cup {None}]
        /\ \A x \in Second : archive'[x] = archive[x] \/ (archive'[x] # None /\ inode[archive'[x]] \in Content)
        /\ \A x \in Second : partial'[x] \in {None, partial[x]}
        /\ archive'[s] # None
    BY <1>1, <2>2, <2>3 DEF TypeOK
  <2> HIDE DEF new
  <2> QED  BY <1>1, <2>1, <2>3, <2>4, RunStep DEF TypeOK, Bytes
<1>4. CASE HashArchive(b)
  <2> DEFINE new == [backup[b] EXCEPT !.pc = "hashed", !.hash = Bytes(s)]
  <2>1. archive[s] # None /\ Bytes(s) \in Content /\ backup[b].size # "empty"
    BY <1>1, <1>4 DEF HashArchive, FilesExist
  <2>2. /\ new \in BackupRun /\ new.pc = "hashed" /\ new.second = s /\ new.size # "empty" /\ new.hash \in Content
        /\ backup' = [backup EXCEPT ![b] = new]
    BY <1>1, <1>4, <2>1 DEF HashArchive, BackupRun
  <2>3. UNCHANGED <<now, databases, inode, archive, partial, manifest, restore>>
    BY <1>4 DEF HashArchive, files
  <2> HIDE DEF new
  <2> QED  BY <1>1, <2>1, <2>2, <2>3, RunStep DEF TypeOK
<1>5. CASE WriteManifest(b)
  <2> DEFINE new == [backup[b] EXCEPT !.pc = "done"]
             line == [rev |-> backup[b].rev, size |-> backup[b].size, hash |-> backup[b].hash]
  <2>1. new \in BackupRun /\ new.pc = "done" /\ backup' = [backup EXCEPT ![b] = new]
    BY <1>1, <1>5 DEF WriteManifest, BackupRun
  <2>2. line \in Manifest
    BY <1>1, <1>5 DEF WriteManifest, BackupRun, Manifest, FilesExist
  <2>3. /\ manifest' = [manifest EXCEPT ![s] = line]
        /\ UNCHANGED <<now, databases, inode, archive, partial, restore>>
    BY <1>5 DEF WriteManifest
  <2> HIDE DEF new, line
  <2> QED  BY <1>1, <2>1, <2>2, <2>3, RunStep DEF TypeOK
<1>6. CASE BackupFails(b) \/ BackupDies(b)
  <2> DEFINE new == [backup[b] EXCEPT !.pc = "failed"]
  <2>1. new \in BackupRun /\ new.pc = "failed" /\ backup' = [backup EXCEPT ![b] = new]
    BY <1>1, <1>6 DEF BackupFails, BackupDies, BackupRun
  <2>2. /\ partial' = partial \/ partial' = [partial EXCEPT ![s] = None]
        /\ manifest' = manifest \/ manifest' = [manifest EXCEPT ![s] = Torn]
        /\ UNCHANGED <<now, databases, inode, archive, restore>>
    BY <1>6 DEF BackupFails, BackupDies
  <2>3. /\ partial' \in [Second -> Backup \cup {None}] /\ manifest' \in [Second -> Manifest \cup {None, Torn}]
        /\ \A x \in Second : partial'[x] \in {None, partial[x]}
    BY <1>1, <2>2 DEF TypeOK
  <2> HIDE DEF new
  <2> QED  BY <1>1, <2>1, <2>2, <2>3, RunStep DEF TypeOK
<1> QED
  BY <1>2, <1>3, <1>4, <1>5, <1>6
-----------------------------------------------------------------------------
(* A step of a restore touches no file.                                    *)
LEMMA RestoreRunStep ==
  ASSUME IInv, NEW r \in Restore, NEW new \in RestoreRun, restore' = [restore EXCEPT ![r] = new],
         UNCHANGED <<now, files, backup>>, databases' \in [Name -> Database \cup {None}],
         \A n \in Name : databases[n] \in Database => databases'[n] \in Database,
         new.pc \notin {"idle", "failed"} => archive[new.second] # None,
         new.pc \in {"verified", "looked", "created", "loaded"} => new.target # Source,
         new.pc \in {"idle", "requested", "verified", "looked"} => ~new.created,
         new.created => /\ databases'[new.target] \in Database
                        /\ new.target # Source
                        /\ new.target = restore[r].target /\ (restore[r].created \/ databases[new.target] = None)
  PROVE  IInv'
<1>1. TypeOK /\ FilesExist /\ Settled /\ Taken /\ TargetHasOneRestore
  BY DEF IInv
<1>2. /\ restore' \in [Restore -> RestoreRun] /\ restore'[r] = new
      /\ \A q \in Restore : q # r => restore'[q] = restore[q]
      /\ \A q \in Restore : restore[q].target \in Name
  BY <1>1 DEF TypeOK, RestoreRun
<1>3. TypeOK'
  BY <1>1, <1>2, NamesAssumption DEF TypeOK, files
<1>4. FilesExist'
  BY <1>1, <1>2 DEF FilesExist, files, Bytes
<1>5. Settled'
  BY <1>1, <1>2 DEF Settled
<1>6. Taken'
  BY <1>1, <1>2 DEF Taken
<1>7. TargetHasOneRestore'
  <2>1. ASSUME NEW q \in Restore, q # r, restore'[q].created, new.created
        PROVE  restore'[q].target # new.target
    <3>1. CASE restore[r].created
      BY <1>1, <1>2, <2>1, <3>1 DEF TargetHasOneRestore
    <3>2. CASE databases[new.target] = None
      BY <1>1, <1>2, <2>1, <3>2, NoneAssumption DEF Taken
    <3> QED  BY <2>1, <3>1, <3>2
  <2> QED  BY <1>1, <1>2, <2>1 DEF TargetHasOneRestore
<1> QED
  BY <1>3, <1>4, <1>5, <1>6, <1>7 DEF IInv

LEMMA RestoreKeeps ==
  ASSUME IInv, NEW r \in Restore, RestoreStep(r)
  PROVE  IInv' /\ UNCHANGED databases[Source]
<1> DEFINE run == restore[r]
<1> USE NamesAssumption
<1>1. /\ TypeOK /\ FilesExist /\ Settled /\ Taken /\ TargetHasOneRestore
      /\ run \in RestoreRun /\ run.target \in Name /\ run.second \in Second
  BY DEF IInv, TypeOK, RestoreRun
<1>2. CASE RequestRestore(r)
  <2>1. PICK s \in Second, n \in Name :
          /\ archive[s] # None /\ manifest[s] # Torn
          /\ restore' = [restore EXCEPT ![r] = [@ EXCEPT !.pc = "requested", !.second = s,
                                                         !.target = n, !.manifest = manifest[s]]]
    BY <1>2 DEF RequestRestore
  <2> DEFINE new == [run EXCEPT !.pc = "requested", !.second = s, !.target = n, !.manifest = manifest[s]]
  <2>2. /\ run.pc = "idle" /\ run.created = FALSE /\ manifest[s] \in Manifest \cup {None}
        /\ UNCHANGED <<now, databases, files, backup>>
    BY <1>1, <1>2, <2>1 DEF RequestRestore, TypeOK, Settled, RestoreRun
  <2>3. new \in RestoreRun /\ new.pc = "requested" /\ new.second = s /\ new.created = FALSE
    BY <1>1, <2>2 DEF RestoreRun
  <2>4. restore' = [restore EXCEPT ![r] = new]
    BY <2>1
  <2> HIDE DEF new
  <2> QED  BY <1>1, <2>1, <2>2, <2>3, <2>4, RestoreRunStep DEF TypeOK
<1>3. CASE VerifyArchive(r) \/ LookForTarget(r) \/ Accept(r) \/ RestoreFails(r)
  <2>1. PICK pc \in {"verified", "looked", "done", "failed"} :
          /\ restore' = [restore EXCEPT ![r].pc = pc]
          /\ UNCHANGED <<now, databases, files, backup>>
          /\ pc # "failed" => run.pc \notin {"idle", "failed"}
          /\ pc \in {"verified", "looked"} => run.target # Source /\ run.pc \in {"requested", "verified"}
    BY <1>1, <1>3 DEF VerifyArchive, LookForTarget, Accept, RestoreFails, Settled
  <2> DEFINE new == [run EXCEPT !.pc = pc]
  <2>2. /\ new \in RestoreRun /\ new.pc = pc /\ new.second = run.second /\ new.target = run.target
        /\ new.created = run.created
    BY <1>1 DEF RestoreRun
  <2>3. restore' = [restore EXCEPT ![r] = new]
    BY <2>1
  <2>4. pc # "failed" => archive[run.second] # None
    BY <1>1, <2>1 DEF FilesExist
  <2>5. pc \in {"verified", "looked"} => ~run.created
    BY <1>1, <2>1 DEF Settled
  <2>6. run.created => databases[run.target] \in Database /\ run.target # Source
    BY <1>1 DEF Taken, TargetHasOneRestore
  <2> HIDE DEF new
  <2>7. /\ databases' \in [Name -> Database \cup {None}] /\ UNCHANGED <<now, files, backup, databases>>
        /\ \A n \in Name : databases[n] \in Database => databases'[n] \in Database
    BY <1>1, <2>1 DEF TypeOK
  <2>8. /\ new.pc \notin {"idle", "failed"} => archive[new.second] # None
        /\ new.pc \in {"verified", "looked", "created", "loaded"} => new.target # Source
        /\ new.pc \in {"idle", "requested", "verified", "looked"} => ~new.created
    BY <2>1, <2>2, <2>4, <2>5
  <2>9. new.created => /\ databases'[new.target] \in Database
                       /\ new.target # Source
                       /\ new.target = restore[r].target /\ (restore[r].created \/ databases[new.target] = None)
    BY <2>2, <2>6, <2>7
  <2> QED  BY <2>2, <2>3, <2>7, <2>8, <2>9, RestoreRunStep
<1>4. CASE CreateTarget(r)
  <2> DEFINE new == [run EXCEPT !.pc = "created", !.created = TRUE]
  <2>1. /\ run.pc = "looked" /\ databases[run.target] = None /\ UNCHANGED <<now, files, backup>>
        /\ databases' = [databases EXCEPT ![run.target] = EmptyDatabase]
        /\ restore' = [restore EXCEPT ![r] = new]
    BY <1>4 DEF CreateTarget
  <2>2. /\ new \in RestoreRun /\ new.pc = "created" /\ new.second = run.second /\ new.target = run.target
        /\ new.created = TRUE
    BY <1>1 DEF RestoreRun
  <2>3. run.target # Source /\ archive[run.second] # None /\ EmptyDatabase \in Database
    BY <1>1, <2>1, BoundsAssumption DEF Settled, FilesExist, EmptyDatabase, Database
  <2>4. /\ databases' \in [Name -> Database \cup {None}] /\ databases'[run.target] \in Database
        /\ \A n \in Name : databases[n] \in Database => databases'[n] \in Database
        /\ databases'[Source] = databases[Source]
    BY <1>1, <2>1, <2>3 DEF TypeOK
  <2> HIDE DEF new
  <2> QED  BY <2>1, <2>2, <2>3, <2>4, RestoreRunStep
<1>5. CASE Load(r)
  <2> DEFINE new == [run EXCEPT !.pc = "loaded"]
             db == Bytes(run.second).db
  <2>1. /\ run.pc = "created" /\ UNCHANGED <<now, files, backup>>
        /\ databases' = [databases EXCEPT ![run.target] = db]
        /\ restore' = [restore EXCEPT ![r] = new]
    BY <1>5 DEF Load
  <2>2. /\ new \in RestoreRun /\ new.pc = "loaded" /\ new.second = run.second /\ new.target = run.target
        /\ new.created = run.created
    BY <1>1 DEF RestoreRun
  <2>3. run.target # Source /\ archive[run.second] # None /\ db \in Database
    BY <1>1, <2>1 DEF Settled, FilesExist, Content
  <2>4. /\ databases' \in [Name -> Database \cup {None}] /\ databases'[run.target] \in Database
        /\ \A n \in Name : databases[n] \in Database => databases'[n] \in Database
        /\ databases'[Source] = databases[Source]
    BY <1>1, <2>1, <2>3 DEF TypeOK
  <2> HIDE DEF new
  <2> QED  BY <2>1, <2>2, <2>3, <2>4, RestoreRunStep
<1> QED
  BY <1>2, <1>3, <1>4, <1>5 DEF RestoreStep
-----------------------------------------------------------------------------
LEMMA StepKeeps ==
  ASSUME IInv, [Next]_vars
  PROVE  IInv' /\ SourceGrows
<1>1. TypeOK /\ databases[Source].rev \in Nat /\ databases[Source].rows \in Nat
  BY BoundsAssumption DEF IInv, TypeOK, Database
<1>2. CASE UNCHANGED vars
  <2>1. TypeOK' /\ FilesExist'
    BY <1>2 DEF vars, files, IInv, TypeOK, FilesExist, Bytes
  <2> QED  BY <1>1, <1>2, <2>1, RestoresUntouched DEF vars, IInv, SourceGrows
<1>3. CASE Tick \/ Write \/ Migrate
  <2>1. SourceGrows
    BY <1>1, <1>3, NamesAssumption DEF Tick, Write, Migrate, TypeOK, Database, SourceGrows
  <2> QED  BY <1>3, <2>1, OutsideKeeps
<1>4. ASSUME NEW b \in Backup, BackupStep(b)  PROVE IInv' /\ SourceGrows
  <2>1. IInv'
    BY <1>4, EarlySteps, WritingSteps, LateSteps DEF BackupStep
  <2>2. UNCHANGED databases
    BY <1>4 DEF BackupStep, ReadRevisions, VerifyTables, NameOutput, OpenPartial, DumpStarts, DumpEnds,
                Dump, Measure, Publish, HashArchive, WriteManifest, BackupFails, BackupDies
  <2> QED  BY <1>1, <2>1, <2>2 DEF SourceGrows
<1>5. ASSUME NEW r \in Restore, RestoreStep(r)  PROVE IInv' /\ SourceGrows
  BY <1>1, <1>5, RestoreKeeps DEF SourceGrows
<1> QED
  BY <1>2, <1>3, <1>4, <1>5 DEF Next

LEMMA Inductive == Spec => []IInv
BY Starts, StepKeeps, PTL DEF Spec

(* Every file, database and script variable keeps its type; the configured *)
(* database is always there (scripts/backup_db.py, scripts/restore_db.py). *)
THEOREM TypeCorrect == Spec => []TypeOK
<1>1. IInv => TypeOK
  BY DEF IInv
<1> QED
  BY <1>1, Inductive, PTL

(* No two restores ever fill one database, and none the configured one     *)
(* (the check of the target's name, _database_exists and createdb).        *)
THEOREM OneRestorePerTarget == Spec => []TargetHasOneRestore
<1>1. IInv => TargetHasOneRestore
  BY DEF IInv
<1> QED
  BY <1>1, Inductive, PTL

(* Neither script takes anything from the configured database or sets it   *)
(* back, whatever fails or dies in between.                                *)
THEOREM SourceNeverSetBack == Spec => SourceOnlyGrows
<1>1. IInv /\ [Next]_vars => [SourceGrows]_vars
  BY StepKeeps
<1> QED
  BY <1>1, Inductive, PTL DEF Spec, SourceOnlyGrows
-----------------------------------------------------------------------------
(***************************************************************************)
(* What the archives are worth.  backup_db.py names its file after the     *)
(* second and nothing else keeps two backups of one second apart, so this  *)
(* part supposes that there are none: then a backup alone has its names    *)
(* and its bytes, whatever other scripts stop half way, and an archive,    *)
(* once it has its name, never changes again.                              *)
(***************************************************************************)
Owns(b, s) == backup[b].file = b /\ backup[b].second = s

SecondHasOneBackup ==
  \A b, c \in Backup : b # c /\ backup[b].file # None /\ backup[c].file # None =>
    backup[b].second # backup[c].second

NamesAreOwned ==
  \A s \in Second : /\ archive[s] # None => Owns(archive[s], s)
                    /\ partial[s] # None => Owns(partial[s], s)

BeforeName == {"idle", "revision", "verified"}
Unpublished == {"named", "opened", "dumping", "dumped", "measured"}
Published == {"published", "hashed", "done"}

(* How far each backup is, in terms of the files and the source.           *)
Names(b) ==
  LET run == backup[b] IN
  /\ run.file \in {None, b}
  /\ run.pc \in BeforeName => run.file = None
  /\ run.pc \in Unpublished \cup Published => run.file = b
  /\ run.pc \in Unpublished => archive[run.second] = None
  /\ run.pc = "named" => partial[run.second] = None
  /\ run.pc \in Unpublished \ {"named"} => partial[run.second] = b
  /\ run.pc \in Published => archive[run.second] = b

Written(b) ==
  LET run == backup[b] IN
  /\ run.pc = "opened" => inode[b].by = b /\ inode[b].stage = "empty"
  /\ run.pc = "dumping" => inode[b].by = b /\ inode[b].stage = "part"
  /\ run.pc \in {"dumped", "measured"} \cup Published => inode[b].stage = "whole"
  /\ run.pc \in {"measured"} \cup Published => run.size = "whole"
  /\ run.pc \in {"hashed", "done"} => run.hash = inode[b]
  /\ run.pc = "done" => manifest[run.second] = [rev |-> run.rev, size |-> run.size, hash |-> run.hash]

Dumped == {"dumping", "dumped", "measured"} \cup Published
Dumping(b) ==
  LET run == backup[b] IN
  /\ run.pc \in {"verified", "named", "opened"} => Usable(databases[Source])
  /\ run.pc \in Dumped => Usable(inode[b].db)
  /\ run.pc \in {"revision", "verified", "named", "opened"} /\ ~run.migrated =>
       run.rev = databases[Source].rev
  /\ run.pc \in Dumped /\ ~run.migrated => run.rev = inode[b].db.rev

BackupsOK == \A b \in Backup : Names(b) /\ Written(b) /\ Dumping(b)

RestoresOK ==
  \A r \in Restore :
    /\ restore[r].pc \in {"created", "loaded", "done"} => restore[r].created
    /\ restore[r].pc \in {"loaded", "done"} =>
         databases[restore[r].target] = Bytes(restore[r].second).db

WInv == SecondHasOneBackup /\ NamesAreOwned /\ BackupsOK /\ PublishedIsWhole /\ RestoresOK
        /\ RestoredIsTheBackup
-----------------------------------------------------------------------------
LEMMA ArchivesStart == Init => WInv
<1> SUFFICES ASSUME Init PROVE WInv
  OBVIOUS
<1>1. /\ \A b \in Backup : backup[b].pc = "idle" /\ backup[b].file = None /\ backup[b].migrated = FALSE
      /\ \A r \in Restore : restore[r].pc = "idle"
      /\ \A s \in Second : archive[s] = None /\ partial[s] = None
  BY DEF Init, StartOfBackup, StartOfRestore
<1>2. SecondHasOneBackup /\ NamesAreOwned /\ PublishedIsWhole /\ RestoresOK /\ RestoredIsTheBackup
  BY <1>1 DEF SecondHasOneBackup, NamesAreOwned, PublishedIsWhole, RestoresOK, RestoredIsTheBackup
<1>3. BackupsOK
  BY <1>1 DEF BackupsOK, Names, Written, Dumping, BeforeName, Unpublished, Published, Dumped
<1> QED
  BY <1>2, <1>3 DEF WInv

(* What a restore has loaded stays what its archive holds.                 *)
LEMMA RestoresSee ==
  ASSUME IInv, RestoresOK, RestoredIsTheBackup, UNCHANGED restore,
         \A n \in Name : n # Source => databases'[n] = databases[n],
         \A s \in Second : archive[s] # None => Bytes(s)' = Bytes(s)
  PROVE  RestoresOK' /\ RestoredIsTheBackup'
<1> SUFFICES ASSUME NEW r \in Restore, restore[r].pc \in {"loaded", "done"}
             PROVE  /\ databases'[restore[r].target] = databases[restore[r].target]
                    /\ Bytes(restore[r].second)' = Bytes(restore[r].second)
  BY DEF RestoresOK, RestoredIsTheBackup
<1>1. restore[r].target \in Name /\ restore[r].second \in Second
  BY DEF IInv, TypeOK, RestoreRun
<1>2. restore[r].target # Source
  BY DEF RestoresOK, IInv, TargetHasOneRestore
<1>3. archive[restore[r].second] # None
  BY DEF IInv, FilesExist
<1>4. Bytes(restore[r].second)' = Bytes(restore[r].second)
  BY <1>1, <1>3 DEF Bytes
<1> QED
  BY <1>1, <1>2, <1>4

LEMMA OutsideKeepsArchives ==
  ASSUME IInv, WInv, Tick \/ Write \/ Migrate \/ UNCHANGED vars
  PROVE  WInv'
<1> USE NamesAssumption, BoundsAssumption
<1>1. TypeOK /\ databases[Source] \in Database /\ SecondHasOneBackup /\ NamesAreOwned /\ BackupsOK /\ PublishedIsWhole
      /\ RestoresOK /\ RestoredIsTheBackup
  BY DEF IInv, WInv, TypeOK
<1>2. UNCHANGED <<inode, archive, partial, manifest, restore>>
  BY DEF Tick, Write, Migrate, vars, files
<1>3. \A n \in Name : n # Source => databases'[n] = databases[n]
  BY <1>1 DEF Tick, Write, Migrate, vars, TypeOK
<1>4. /\ databases[Source].rev \in Nat /\ databases'[Source].rev \in Nat
      /\ databases'[Source].rev >= databases[Source].rev
      /\ databases'[Source].rev # databases[Source].rev => Migrate
  BY <1>1 DEF Tick, Write, Migrate, vars, TypeOK, Database
<1>5. \A b \in Backup :
        /\ backup'[b].pc = backup[b].pc /\ backup'[b].file = backup[b].file
        /\ backup'[b].second = backup[b].second /\ backup'[b].size = backup[b].size
        /\ backup'[b].hash = backup[b].hash /\ backup'[b].rev = backup[b].rev
        /\ ~backup'[b].migrated => ~backup[b].migrated
        /\ Migrate /\ backup[b].pc \in {"revision", "verified", "named", "opened"} => backup'[b].migrated
  <2>1. CASE Migrate
    <3> SUFFICES ASSUME NEW b \in Backup
                 PROVE  /\ backup'[b].pc = backup[b].pc /\ backup'[b].file = backup[b].file
                        /\ backup'[b].second = backup[b].second /\ backup'[b].size = backup[b].size
                        /\ backup'[b].hash = backup[b].hash /\ backup'[b].rev = backup[b].rev
                        /\ ~backup'[b].migrated => ~backup[b].migrated
                        /\ backup[b].pc \in {"revision", "verified", "named", "opened"} => backup'[b].migrated
      OBVIOUS
    <3> DEFINE seen == backup[b].migrated \/ backup[b].pc \in {"revision", "verified", "named", "opened"}
    <3>1. backup[b] \in BackupRun /\ backup'[b] = [backup[b] EXCEPT !.migrated = seen]
      BY <1>1, <2>1 DEF TypeOK, Migrate
    <3>2. backup'[b].migrated = seen
      BY <3>1 DEF BackupRun
    <3> HIDE DEF seen
    <3>3. /\ backup'[b].pc = backup[b].pc /\ backup'[b].file = backup[b].file
          /\ backup'[b].second = backup[b].second /\ backup'[b].size = backup[b].size
          /\ backup'[b].hash = backup[b].hash /\ backup'[b].rev = backup[b].rev
      BY <3>1 DEF BackupRun
    <3> USE DEF seen
    <3> QED  BY <3>2, <3>3
  <2>2. CASE ~Migrate
    BY <2>2 DEF Tick, Write, vars
  <2> QED  BY <2>1, <2>2
<1>6. SecondHasOneBackup'
  BY <1>1, <1>5 DEF SecondHasOneBackup
<1>7. NamesAreOwned' /\ PublishedIsWhole'
  <2>1. \A s \in Second : archive[s] \in Backup \cup {None} /\ partial[s] \in Backup \cup {None}
    BY <1>1 DEF TypeOK
  <2> QED  BY <1>1, <1>2, <1>5, <2>1 DEF NamesAreOwned, Owns, PublishedIsWhole, Bytes
<1>8. BackupsOK'
  <2> SUFFICES ASSUME NEW b \in Backup PROVE Names(b)' /\ Written(b)' /\ Dumping(b)'
    BY DEF BackupsOK
  <2>1. Names(b) /\ Written(b) /\ Dumping(b)
    BY <1>1 DEF BackupsOK
  <2>2. Names(b)'
    BY <1>2, <1>5, <2>1 DEF Names
  <2>3. Written(b)'
    BY <1>2, <1>5, <2>1 DEF Written
  <2>4. Dumping(b)'
    <3>1. Usable(databases[Source]) => Usable(databases[Source])'
      BY <1>4 DEF Usable
    <3>2. backup'[b].pc \in {"revision", "verified", "named", "opened"} /\ ~backup'[b].migrated =>
            databases'[Source].rev = databases[Source].rev
      BY <1>4, <1>5
    <3> QED  BY <1>2, <1>5, <2>1, <3>1, <3>2 DEF Dumping, Usable
  <2> QED  BY <2>2, <2>3, <2>4
<1>9. RestoresOK' /\ RestoredIsTheBackup'
  BY <1>1, <1>2, <1>3, RestoresSee DEF Bytes
<1> QED
  BY <1>6, <1>7, <1>8, <1>9 DEF WInv
-----------------------------------------------------------------------------
(* A step of one backup that changes only names and bytes of its own.      *)
LEMMA OwnStep ==
  ASSUME IInv, WInv, NEW b \in Backup, NEW new \in BackupRun, backup' = [backup EXCEPT ![b] = new],
         UNCHANGED <<databases, restore>>,
         new.file \in {None, b},
         backup[b].file # None => new.file = b /\ new.second = backup[b].second,
         \A c \in Backup \ {b} : new.file # None /\ backup[c].file # None => backup[c].second # new.second,
         \A s \in Second : \/ archive'[s] = archive[s]
                           \/ /\ s = new.second /\ new.file = b /\ archive[s] = None /\ archive'[s] = b
                              /\ inode'[b].stage = "whole" /\ Usable(inode'[b].db),
         \A s \in Second : \/ partial'[s] = partial[s]
                           \/ s = new.second /\ new.file = b /\ partial'[s] \in {None, b},
         \A s \in Second : manifest'[s] = manifest[s] \/ (s = new.second /\ new.file = b),
         \A c \in Backup : inode'[c] = inode[c] \/ (c = b /\ \A s \in Second : archive[s] # b),
         Names(b)' /\ Written(b)' /\ Dumping(b)'
  PROVE  WInv'
<1>1. TypeOK /\ SecondHasOneBackup /\ NamesAreOwned /\ BackupsOK /\ PublishedIsWhole
      /\ RestoresOK /\ RestoredIsTheBackup
  BY DEF IInv, WInv
<1>2. backup'[b] = new /\ \A c \in Backup : c # b => backup'[c] = backup[c]
  BY <1>1 DEF TypeOK
<1>3. \A c \in Backup : backup[c].second \in Second
  BY <1>1 DEF TypeOK, BackupRun
<1>4. \A s \in Second : archive[s] \in Backup \cup {None} /\ partial[s] \in Backup \cup {None}
  BY <1>1 DEF TypeOK
<1>5. SecondHasOneBackup'
  BY <1>1, <1>2 DEF SecondHasOneBackup
<1>6. ASSUME NEW c \in Backup, NEW s \in Second, Owns(c, s)  PROVE Owns(c, s)'
  BY <1>2, <1>6, NamesAssumption DEF Owns
<1>7. NamesAreOwned'
  <2>1. \A s \in Second : s = new.second /\ new.file = b => Owns(b, s)'
    BY <1>2 DEF Owns
  <2>2. ASSUME NEW s \in Second, NEW c \in Backup, archive'[s] = c \/ partial'[s] = c
        PROVE  Owns(c, s)'
    <3>1. CASE archive[s] = c \/ partial[s] = c
      BY <1>1, <1>6, <3>1, NamesAssumption DEF NamesAreOwned
    <3>2. CASE archive[s] # c /\ partial[s] # c
      BY <2>1, <2>2, <3>2, NamesAssumption
    <3> QED  BY <3>1, <3>2
  <2>3. \A s \in Second : archive'[s] \in Backup \cup {None} /\ partial'[s] \in Backup \cup {None}
    BY <1>4
  <2> QED  BY <2>2, <2>3 DEF NamesAreOwned, Owns
<1>8. ASSUME NEW s \in Second, archive[s] # None
      PROVE  archive'[s] = archive[s] /\ Bytes(s)' = Bytes(s)
  BY <1>4, <1>8 DEF Bytes
<1>9. PublishedIsWhole'
  <2> SUFFICES ASSUME NEW s \in Second, archive'[s] # None
               PROVE  Bytes(s)'.stage = "whole" /\ Usable(Bytes(s)'.db)
    BY DEF PublishedIsWhole, Usable
  <2>1. CASE archive[s] # None
    BY <1>1, <1>8, <2>1 DEF PublishedIsWhole
  <2>2. CASE archive[s] = None
    BY <2>2 DEF Bytes
  <2> QED  BY <2>1, <2>2
<1>10. BackupsOK'
  <2> SUFFICES ASSUME NEW c \in Backup, c # b PROVE Names(c)' /\ Written(c)' /\ Dumping(c)'
    BY DEF BackupsOK
  <2>1. Names(c) /\ Written(c) /\ Dumping(c) /\ backup'[c] = backup[c] /\ inode'[c] = inode[c]
    BY <1>1, <1>2 DEF BackupsOK
  <2>2. CASE backup[c].file = None
    <3>1. backup[c].pc \notin Unpublished \cup Published
      BY <2>1, <2>2, NamesAssumption DEF Names
    <3>2. Names(c)' /\ Written(c)' /\ Dumping(c)'
      BY <2>1, <3>1 DEF Names, Written, Dumping, Unpublished, Published, Dumped
    <3> QED  BY <3>2
  <2>3. CASE backup[c].file # None
    <3>1. new.file = b => backup[c].second # new.second
      BY <2>3, NamesAssumption
    <3>2. /\ archive'[backup[c].second] = archive[backup[c].second]
          /\ partial'[backup[c].second] = partial[backup[c].second]
          /\ manifest'[backup[c].second] = manifest[backup[c].second]
      BY <1>3, <3>1
    <3>3. Names(c)'
      BY <2>1, <3>2 DEF Names
    <3>4. Written(c)'
      BY <2>1, <3>2 DEF Written
    <3>5. Dumping(c)'
      BY <2>1 DEF Dumping, Usable
    <3> QED  BY <3>3, <3>4, <3>5
  <2> QED  BY <2>2, <2>3
<1>11. RestoresOK' /\ RestoredIsTheBackup'
  BY <1>1, <1>8, RestoresSee DEF IInv
<1> QED
  BY <1>5, <1>7, <1>9, <1>10, <1>11 DEF WInv

(* What a backup that has not renamed its file knows.                      *)
LEMMA NotYetArchived ==
  ASSUME WInv, NEW b \in Backup, backup[b].pc \in Unpublished
  PROVE  /\ backup[b].file = b /\ \A s \in Second : archive[s] # b
         /\ \A c \in Backup \ {b} : backup[c].file # None => backup[c].second # backup[b].second
<1>1. Names(b) /\ NamesAreOwned /\ SecondHasOneBackup
  BY DEF WInv, BackupsOK
<1>2. backup[b].file = b /\ archive[backup[b].second] = None
  BY <1>1 DEF Names
<1> QED
  BY <1>1, <1>2, NamesAssumption DEF NamesAreOwned, Owns, SecondHasOneBackup
-----------------------------------------------------------------------------
LEMMA EarlyArchives ==
  ASSUME SameSecond = FALSE, IInv, WInv, NEW b \in Backup,
         ReadRevisions(b) \/ VerifyTables(b) \/ NameOutput(b)
  PROVE  WInv'
<1>1. /\ TypeOK /\ backup[b] \in BackupRun /\ Names(b) /\ Dumping(b) /\ NamesAreOwned
      /\ archive \in [Second -> Backup \cup {None}] /\ partial \in [Second -> Backup \cup {None}]
      /\ now \in Second
  BY DEF IInv, WInv, TypeOK, BackupsOK
<1>2. backup[b].pc \in BeforeName /\ backup[b].file = None
  BY <1>1 DEF ReadRevisions, VerifyTables, NameOutput, Names, BeforeName
<1>3. CASE ReadRevisions(b)
  <2> DEFINE new == [backup[b] EXCEPT !.pc = "revision", !.rev = databases[Source].rev]
  <2>1. /\ new \in BackupRun /\ new.pc = "revision" /\ new.rev = databases[Source].rev
        /\ new.file = None /\ new.second = backup[b].second /\ backup' = [backup EXCEPT ![b] = new]
    BY <1>1, <1>2, <1>3 DEF ReadRevisions, TypeOK, BackupRun, Database
  <2>2. UNCHANGED <<now, databases, inode, archive, partial, manifest, restore>>
    BY <1>3 DEF ReadRevisions, files
  <2> HIDE DEF new
  <2>3. backup'[b] = new
    BY <1>1, <2>1 DEF TypeOK
  <2>4. Names(b)' /\ Written(b)' /\ Dumping(b)'
    BY <2>1, <2>2, <2>3 DEF Names, Written, Dumping, BeforeName, Unpublished, Published, Dumped
  <2> QED  BY <1>2, <2>1, <2>2, <2>4, OwnStep
<1>4. CASE VerifyTables(b)
  <2> DEFINE new == [backup[b] EXCEPT !.pc = "verified"]
  <2>1. /\ new \in BackupRun /\ new.pc = "verified" /\ new.rev = backup[b].rev
        /\ new.migrated = backup[b].migrated /\ backup[b].pc = "revision" /\ Usable(databases[Source])
        /\ new.file = None /\ new.second = backup[b].second /\ backup' = [backup EXCEPT ![b] = new]
    BY <1>1, <1>2, <1>4 DEF VerifyTables, BackupRun
  <2>2. UNCHANGED <<now, databases, inode, archive, partial, manifest, restore>>
    BY <1>4 DEF VerifyTables, files
  <2> HIDE DEF new
  <2>3. backup'[b] = new
    BY <1>1, <2>1 DEF TypeOK
  <2>4. Names(b)' /\ Written(b)' /\ Dumping(b)'
    BY <1>1, <2>1, <2>2, <2>3
    DEF Names, Written, Dumping, BeforeName, Unpublished, Published, Dumped, Usable
  <2> QED  BY <1>2, <2>1, <2>2, <2>4, OwnStep
<1>5. CASE NameOutput(b)
  <2> DEFINE new == [backup[b] EXCEPT !.pc = "named", !.second = now, !.file = b]
  <2>1. /\ new \in BackupRun /\ new.pc = "named" /\ new.rev = backup[b].rev
        /\ new.migrated = backup[b].migrated /\ backup[b].pc = "verified"
        /\ new.file = b /\ new.second = now /\ backup' = [backup EXCEPT ![b] = new]
    BY <1>1, <1>2, <1>5 DEF NameOutput, BackupRun
  <2>2. /\ UNCHANGED <<now, databases, inode, archive, manifest, restore>>
        /\ partial' = [partial EXCEPT ![now] = None] /\ archive[now] = None
        /\ \A c \in Backup \ {b} : backup[c].file = None \/ backup[c].second # now
    BY <1>5 DEF NameOutput
  <2>3. /\ partial'[now] = None
        /\ \A s \in Second : partial'[s] = partial[s] \/ (s = now /\ partial'[s] \in {None, b})
    BY <1>1, <2>2
  <2> HIDE DEF new
  <2>4. backup'[b] = new
    BY <1>1, <2>1 DEF TypeOK
  <2>5. Names(b)' /\ Written(b)' /\ Dumping(b)'
    BY <1>1, <2>1, <2>2, <2>3, <2>4
    DEF Names, Written, Dumping, BeforeName, Unpublished, Published, Dumped, Usable
  <2> QED  BY <1>2, <2>1, <2>2, <2>3, <2>5, OwnStep
<1> QED
  BY <1>3, <1>4, <1>5

(* pg_dump's two ends, of a file that nobody else writes.                  *)
LEMMA DumpStep ==
  ASSUME IInv, WInv, NEW b \in Backup, NEW next \in {"dumping", "dumped"},
         backup[b].pc \in {"opened", "dumping"}, backup' = [backup EXCEPT ![b].pc = next],
         \A c \in Backup \ {b} : inode'[c] = inode[c],
         UNCHANGED <<databases, archive, partial, manifest, restore>>,
         next = "dumping" => inode'[b].by = b /\ inode'[b].stage = "part",
         next = "dumped" => inode'[b].stage = "whole",
         Usable(inode'[b].db), ~backup[b].migrated => backup[b].rev = inode'[b].db.rev
  PROVE  WInv'
<1> DEFINE s == backup[b].second
           new == [backup[b] EXCEPT !.pc = next]
<1>1. /\ TypeOK /\ backup[b] \in BackupRun /\ Names(b)
  BY DEF IInv, WInv, TypeOK, BackupsOK
<1>2. /\ backup[b].file = b /\ \A x \in Second : archive[x] # b
      /\ \A c \in Backup \ {b} : backup[c].file # None => backup[c].second # s
  BY NotYetArchived DEF Unpublished
<1>3. /\ new \in BackupRun /\ new.pc = next /\ new.file = b /\ new.second = s
      /\ new.rev = backup[b].rev /\ new.migrated = backup[b].migrated /\ new.size = backup[b].size
  BY <1>1, <1>2 DEF BackupRun
<1>4. backup' = [backup EXCEPT ![b] = new]
  OBVIOUS
<1> HIDE DEF new
<1>5. backup'[b] = new
  BY <1>1, <1>4 DEF TypeOK
<1>6. Names(b)'
  BY <1>1, <1>3, <1>5 DEF Names, BeforeName, Unpublished, Published
<1>7. Written(b)' /\ Dumping(b)'
  BY <1>3, <1>5 DEF Written, Dumping, Unpublished, Published, Dumped, Usable
<1>8. \A c \in Backup : inode'[c] = inode[c] \/ (c = b /\ \A x \in Second : archive[x] # b)
  BY <1>2
<1>9. \A c \in Backup \ {b} : new.file # None /\ backup[c].file # None => backup[c].second # new.second
  BY <1>2, <1>3
<1>10. \A x \in Second : archive'[x] = archive[x] /\ partial'[x] = partial[x] /\ manifest'[x] = manifest[x]
  OBVIOUS
<1>11. UNCHANGED <<databases, restore>> /\ new.file \in {None, b}
       /\ (backup[b].file # None => new.file = b /\ new.second = backup[b].second)
  BY <1>3
<1> QED
  BY <1>3, <1>4, <1>6, <1>7, <1>8, <1>9, <1>10, <1>11, OwnStep

LEMMA WritingArchives ==
  ASSUME IInv, WInv, NEW b \in Backup, OpenPartial(b) \/ DumpStarts(b) \/ DumpEnds(b)
  PROVE  WInv'
<1> DEFINE s == backup[b].second
<1>1. /\ TypeOK /\ backup[b] \in BackupRun /\ s \in Second /\ Names(b) /\ Written(b) /\ Dumping(b)
      /\ inode \in [Backup -> Content \cup {None}]
      /\ archive \in [Second -> Backup \cup {None}] /\ partial \in [Second -> Backup \cup {None}]
  BY DEF IInv, WInv, TypeOK, BackupsOK, BackupRun
<1>2. backup[b].pc \in {"named", "opened", "dumping"}
  BY DEF OpenPartial, DumpStarts, DumpEnds, Dump
<1>3. /\ backup[b].file = b /\ \A x \in Second : archive[x] # b
      /\ \A c \in Backup \ {b} : backup[c].file # None => backup[c].second # s
  BY <1>2, NotYetArchived DEF Unpublished
<1>4. CASE OpenPartial(b)
  <2> DEFINE new == [backup[b] EXCEPT !.pc = "opened", !.file = b]
             bytes == [stage |-> "empty", by |-> b, db |-> EmptyDatabase]
  <2>1. backup[b].pc = "named" /\ partial[s] = None /\ archive[s] = None
    BY <1>1, <1>4 DEF OpenPartial, Names, Unpublished
  <2>2. /\ new \in BackupRun /\ new.pc = "opened" /\ new.file = b /\ new.second = s
        /\ new.rev = backup[b].rev /\ new.migrated = backup[b].migrated
    BY <1>1 DEF BackupRun
  <2>3. /\ backup' = [backup EXCEPT ![b] = new] /\ inode' = [inode EXCEPT ![b] = bytes]
        /\ partial' = [partial EXCEPT ![s] = b]
        /\ UNCHANGED <<now, databases, archive, manifest, restore>>
    BY <1>4, <2>1 DEF OpenPartial
  <2> HIDE DEF new
  <2>4. /\ backup'[b] = new /\ inode'[b] = bytes /\ partial'[s] = b
        /\ \A c \in Backup : inode'[c] = inode[c] \/ c = b
        /\ \A x \in Second : partial'[x] = partial[x] \/ (x = s /\ partial'[x] \in {None, b})
    BY <1>1, <2>3 DEF TypeOK
  <2>5. Names(b)' /\ Written(b)' /\ Dumping(b)'
    BY <1>1, <2>1, <2>2, <2>3, <2>4
    DEF Names, Written, Dumping, BeforeName, Unpublished, Published, Dumped, Usable
  <2>6. \A c \in Backup : inode'[c] = inode[c] \/ (c = b /\ \A x \in Second : archive[x] # b)
    BY <1>3, <2>4
  <2>7. \A c \in Backup \ {b} : new.file # None /\ backup[c].file # None => backup[c].second # new.second
    BY <1>3, <2>2
  <2>8. \A x \in Second : \/ partial'[x] = partial[x]
                          \/ x = new.second /\ new.file = b /\ partial'[x] \in {None, b}
    BY <2>2, <2>4
  <2> QED  BY <2>2, <2>3, <2>5, <2>6, <2>7, <2>8, OwnStep
<1>5. backup[b].pc \in {"opened", "dumping"} => inode[b] \in Content
  BY <1>3 DEF IInv, FilesExist
<1>6. CASE DumpStarts(b)
  <2> DEFINE bytes == [inode[b] EXCEPT !.stage = "part", !.db = databases[Source]]
  <2>1. backup[b].pc = "opened" /\ inode[b].by = b /\ inode[b].stage = "empty"
    BY <1>1, <1>6 DEF DumpStarts, Dump, Written
  <2>2. /\ inode' = [inode EXCEPT ![b] = bytes] /\ backup' = [backup EXCEPT ![b].pc = "dumping"]
        /\ UNCHANGED <<now, databases, archive, partial, manifest, restore>>
    BY <1>1, <1>3, <1>5, <1>6, <2>1 DEF DumpStarts, Dump
  <2>3. bytes.by = b /\ bytes.stage = "part" /\ bytes.db = databases[Source]
    BY <1>5, <2>1 DEF Content
  <2>4. Usable(bytes.db) /\ (~backup[b].migrated => backup[b].rev = bytes.db.rev)
    BY <1>1, <2>1, <2>3 DEF Dumping
  <2> HIDE DEF bytes
  <2>5. inode'[b] = bytes /\ \A c \in Backup \ {b} : inode'[c] = inode[c]
    BY <1>1, <2>2
  <2> QED  BY <2>1, <2>2, <2>3, <2>4, <2>5, DumpStep
<1>7. CASE DumpEnds(b)
  <2> DEFINE bytes == [inode[b] EXCEPT !.stage = "whole"]
  <2>1. backup[b].pc = "dumping" /\ inode[b].by = b /\ inode[b].stage = "part"
    BY <1>1, <1>7 DEF DumpEnds, Dump, Written
  <2>2. /\ inode' = [inode EXCEPT ![b] = bytes] /\ backup' = [backup EXCEPT ![b].pc = "dumped"]
        /\ UNCHANGED <<now, databases, archive, partial, manifest, restore>>
    BY <1>1, <1>3, <1>5, <1>7, <2>1 DEF DumpEnds, Dump, Content
  <2>3. bytes.stage = "whole" /\ bytes.db = inode[b].db
    BY <1>5 DEF Content
  <2>4. Usable(bytes.db) /\ (~backup[b].migrated => backup[b].rev = bytes.db.rev)
    BY <1>1, <2>1, <2>3 DEF Dumping, Dumped
  <2> HIDE DEF bytes
  <2>5. inode'[b] = bytes /\ \A c \in Backup \ {b} : inode'[c] = inode[c]
    BY <1>1, <2>2
  <2> QED  BY <2>1, <2>2, <2>3, <2>4, <2>5, DumpStep
<1> QED
  BY <1>4, <1>6, <1>7

LEMMA LateArchives ==
  ASSUME IInv, WInv, NEW b \in Backup,
         Measure(b) \/ Publish(b) \/ HashArchive(b) \/ WriteManifest(b) \/ BackupFails(b) \/ BackupDies(b)
  PROVE  WInv'
<1> DEFINE s == backup[b].second
<1> USE NamesAssumption
<1>1. /\ TypeOK /\ backup[b] \in BackupRun /\ s \in Second /\ Names(b) /\ Written(b) /\ Dumping(b)
      /\ SecondHasOneBackup
      /\ archive \in [Second -> Backup \cup {None}] /\ partial \in [Second -> Backup \cup {None}]
      /\ manifest \in [Second -> Manifest \cup {None, Torn}]
  BY DEF IInv, WInv, TypeOK, BackupsOK, BackupRun
<1>2. ASSUME NEW new \in BackupRun, backup' = [backup EXCEPT ![b] = new],
             new.file = backup[b].file, new.second = s,
             UNCHANGED <<databases, inode, restore>>,
             \A x \in Second : \/ archive'[x] = archive[x]
                               \/ /\ x = s /\ new.file = b /\ archive[x] = None /\ archive'[x] = b
                                  /\ inode'[b].stage = "whole" /\ Usable(inode'[b].db),
             \A x \in Second : \/ partial'[x] = partial[x]
                               \/ x = s /\ new.file = b /\ partial'[x] \in {None, b},
             \A x \in Second : manifest'[x] = manifest[x] \/ (x = s /\ new.file = b),
             Names(b)' /\ Written(b)' /\ Dumping(b)'
      PROVE  WInv'
  <2>1. new.file \in {None, b} /\ (backup[b].file # None => new.file = b)
    BY <1>1, <1>2 DEF Names
  <2>2. \A c \in Backup \ {b} : new.file # None /\ backup[c].file # None => backup[c].second # new.second
    BY <1>1, <1>2 DEF SecondHasOneBackup
  <2> QED  BY <1>2, <2>1, <2>2, OwnStep
<1>3. CASE Measure(b)
  <2> DEFINE new == [backup[b] EXCEPT !.pc = "measured", !.size = inode[partial[s]].stage]
  <2>1. backup[b].pc = "dumped" /\ partial[s] = b /\ inode[b].stage = "whole"
    BY <1>1, <1>3 DEF Measure, Names, Written, Unpublished
  <2>2. /\ new \in BackupRun /\ new.pc = "measured" /\ new.size = "whole" /\ new.file = backup[b].file
        /\ new.second = s /\ new.rev = backup[b].rev /\ new.migrated = backup[b].migrated
    BY <1>1, <2>1 DEF BackupRun
  <2>3. /\ backup' = [backup EXCEPT ![b] = new]
        /\ UNCHANGED <<databases, inode, archive, partial, manifest, restore>>
    BY <1>3 DEF Measure, files
  <2> HIDE DEF new
  <2>4. backup'[b] = new
    BY <1>1, <2>3 DEF TypeOK
  <2>5. Names(b)'
    BY <1>1, <2>1, <2>2, <2>3, <2>4 DEF Names, BeforeName, Unpublished, Published
  <2>6. Written(b)' /\ Dumping(b)'
    BY <1>1, <2>1, <2>2, <2>3, <2>4 DEF Written, Dumping, Unpublished, Published, Dumped, Usable
  <2> QED  BY <1>2, <2>2, <2>3, <2>5, <2>6
<1>4. CASE Publish(b)
  <2> DEFINE new == [backup[b] EXCEPT !.pc = "published"]
  <2>1. /\ backup[b].pc = "measured" /\ partial[s] = b /\ archive[s] = None /\ backup[b].file = b
        /\ inode[b].stage = "whole" /\ Usable(inode[b].db) /\ backup[b].size = "whole"
    BY <1>1, <1>4 DEF Publish, Names, Written, Dumping, Unpublished, Dumped
  <2>2. /\ new \in BackupRun /\ new.pc = "published" /\ new.size = "whole" /\ new.file = b
        /\ new.second = s /\ new.rev = backup[b].rev /\ new.migrated = backup[b].migrated
    BY <1>1, <2>1 DEF BackupRun
  <2>3. /\ backup' = [backup EXCEPT ![b] = new] /\ archive' = [archive EXCEPT ![s] = b]
        /\ partial' = [partial EXCEPT ![s] = None]
        /\ UNCHANGED <<databases, inode, manifest, restore>>
    BY <1>4, <2>1 DEF Publish
  <2> HIDE DEF new
  <2>4. /\ backup'[b] = new /\ archive'[s] = b /\ partial'[s] = None
        /\ \A x \in Second : x # s => archive'[x] = archive[x] /\ partial'[x] = partial[x]
    BY <1>1, <2>3 DEF TypeOK
  <2>5. Names(b)'
    BY <2>2, <2>4 DEF Names, BeforeName, Unpublished, Published
  <2>6. Written(b)' /\ Dumping(b)'
    BY <1>1, <2>1, <2>2, <2>3, <2>4 DEF Written, Dumping, Unpublished, Published, Dumped, Usable
  <2>7. Usable(inode'[b].db) /\ inode'[b].stage = "whole"
    BY <2>1, <2>3
  <2> QED  BY <1>2, <2>1, <2>2, <2>3, <2>4, <2>5, <2>6, <2>7
<1>5. CASE HashArchive(b)
  <2> DEFINE new == [backup[b] EXCEPT !.pc = "hashed", !.hash = inode[b]]
  <2>1. backup[b].pc = "published" /\ archive[s] = b /\ inode[b] \in Content
    BY <1>1, <1>5 DEF HashArchive, Names, Published, IInv, FilesExist, Bytes
  <2>2. /\ new \in BackupRun /\ new.pc = "hashed" /\ new.size = backup[b].size /\ new.file = backup[b].file
        /\ new.second = s /\ new.rev = backup[b].rev /\ new.migrated = backup[b].migrated
        /\ new.hash = inode[b]
    BY <1>1, <2>1 DEF BackupRun
  <2>3. /\ backup' = [backup EXCEPT ![b] = new]
        /\ UNCHANGED <<databases, inode, archive, partial, manifest, restore>>
    BY <1>5, <2>1 DEF HashArchive, files, Bytes
  <2> HIDE DEF new
  <2>4. backup'[b] = new
    BY <1>1, <2>3 DEF TypeOK
  <2>5. Names(b)'
    BY <1>1, <2>1, <2>2, <2>3, <2>4 DEF Names, BeforeName, Unpublished, Published
  <2>6. Written(b)' /\ Dumping(b)'
    BY <1>1, <2>1, <2>2, <2>3, <2>4 DEF Written, Dumping, Unpublished, Published, Dumped, Usable
  <2> QED  BY <1>2, <2>2, <2>3, <2>5, <2>6
<1>6. CASE WriteManifest(b)
  <2> DEFINE new == [backup[b] EXCEPT !.pc = "done"]
             line == [rev |-> backup[b].rev, size |-> backup[b].size, hash |-> backup[b].hash]
  <2>1. backup[b].pc = "hashed" /\ archive[s] = b /\ backup[b].file = b
    BY <1>1, <1>6 DEF WriteManifest, Names, Published
  <2>2. /\ new \in BackupRun /\ new.pc = "done" /\ new.size = backup[b].size /\ new.file = b
        /\ new.second = s /\ new.rev = backup[b].rev /\ new.migrated = backup[b].migrated
        /\ new.hash = backup[b].hash
    BY <1>1, <2>1 DEF BackupRun
  <2>3. /\ backup' = [backup EXCEPT ![b] = new] /\ manifest' = [manifest EXCEPT ![s] = line]
        /\ UNCHANGED <<databases, inode, archive, partial, restore>>
    BY <1>6 DEF WriteManifest
  <2> HIDE DEF new
  <2>4. /\ backup'[b] = new /\ manifest'[s] = line
        /\ \A x \in Second : x # s => manifest'[x] = manifest[x]
    BY <1>1, <2>3 DEF TypeOK
  <2>5. Names(b)'
    BY <1>1, <2>1, <2>2, <2>3, <2>4 DEF Names, BeforeName, Unpublished, Published
  <2>6. Written(b)' /\ Dumping(b)'
    BY <1>1, <2>1, <2>2, <2>3, <2>4 DEF Written, Dumping, Unpublished, Published, Dumped, Usable
  <2> QED  BY <1>2, <2>1, <2>2, <2>3, <2>4, <2>5, <2>6
<1>7. CASE BackupFails(b) \/ BackupDies(b)
  <2> DEFINE new == [backup[b] EXCEPT !.pc = "failed"]
  <2>1. new \in BackupRun /\ new.pc = "failed" /\ new.file = backup[b].file /\ new.second = s
    BY <1>1 DEF BackupRun
  <2>2. /\ backup' = [backup EXCEPT ![b] = new]
        /\ UNCHANGED <<databases, inode, archive, restore>>
    BY <1>7 DEF BackupFails, BackupDies
  <2>3. /\ partial' = partial \/ (partial' = [partial EXCEPT ![s] = None] /\ backup[b].file = b)
        /\ manifest' = manifest \/ (manifest' = [manifest EXCEPT ![s] = Torn] /\ backup[b].file = b)
    BY <1>1, <1>7 DEF BackupFails, BackupDies, Names, Unpublished, Published
  <2> HIDE DEF new
  <2>4. /\ \A x \in Second : partial'[x] = partial[x] \/ (x = s /\ new.file = b /\ partial'[x] \in {None, b})
        /\ \A x \in Second : manifest'[x] = manifest[x] \/ (x = s /\ new.file = b)
    BY <1>1, <2>1, <2>3
  <2>5. backup'[b] = new
    BY <1>1, <2>2 DEF TypeOK
  <2>6. Names(b)' /\ Written(b)' /\ Dumping(b)'
    BY <1>1, <2>1, <2>5 DEF Names, Written, Dumping, BeforeName, Unpublished, Published, Dumped
  <2> QED  BY <1>2, <2>1, <2>2, <2>4, <2>6
<1> QED
  BY <1>3, <1>4, <1>5, <1>6, <1>7
-----------------------------------------------------------------------------
(* A restore changes no file, and no database that another one has filled. *)
LEMMA RestoringKeeps ==
  ASSUME IInv, WInv, NEW r \in Restore, NEW new \in RestoreRun, restore' = [restore EXCEPT ![r] = new],
         UNCHANGED <<now, files, backup>>, databases'[Source] = databases[Source],
         \A q \in Restore \ {r} : restore[q].created =>
           databases'[restore[q].target] = databases[restore[q].target],
         new.pc \in {"created", "loaded", "done"} => new.created,
         new.pc \in {"loaded", "done"} => databases'[new.target] = Bytes(new.second).db,
         new.pc = "done" => /\ Usable(databases'[new.target])
                            /\ new.manifest # None => new.manifest.rev = databases'[new.target].rev
  PROVE  WInv'
<1>1. TypeOK /\ SecondHasOneBackup /\ NamesAreOwned /\ BackupsOK /\ PublishedIsWhole
      /\ RestoresOK /\ RestoredIsTheBackup
  BY DEF IInv, WInv
<1>2. restore'[r] = new /\ \A q \in Restore : q # r => restore'[q] = restore[q]
  BY <1>1 DEF TypeOK
<1>3. UNCHANGED <<inode, archive, partial, manifest, backup>>
  BY DEF files
<1>4. SecondHasOneBackup' /\ NamesAreOwned' /\ PublishedIsWhole'
  BY <1>1, <1>3 DEF SecondHasOneBackup, NamesAreOwned, Owns, PublishedIsWhole, Bytes
<1>5. BackupsOK'
  BY <1>1, <1>3 DEF BackupsOK, Names, Written, Dumping
<1>6. RestoresOK' /\ RestoredIsTheBackup'
  <2> SUFFICES ASSUME NEW q \in Restore
               PROVE  /\ restore'[q].pc \in {"created", "loaded", "done"} => restore'[q].created
                      /\ restore'[q].pc \in {"loaded", "done"} =>
                           databases'[restore'[q].target] = Bytes(restore'[q].second).db
                      /\ restore'[q].pc = "done" =>
                           /\ Usable(databases'[restore'[q].target])
                           /\ restore'[q].manifest # None =>
                                restore'[q].manifest.rev = databases'[restore'[q].target].rev
    BY <1>3 DEF RestoresOK, RestoredIsTheBackup, Bytes, Usable
  <2>1. CASE q = r
    BY <1>2, <2>1
  <2>2. CASE q # r
    <3>1. restore'[q] = restore[q]
      BY <1>2, <2>2
    <3>2. restore[q].created => databases'[restore[q].target] = databases[restore[q].target]
      BY <2>2
    <3>3. /\ restore[q].pc \in {"created", "loaded", "done"} => restore[q].created
          /\ restore[q].pc \in {"loaded", "done"} =>
               databases[restore[q].target] = Bytes(restore[q].second).db
          /\ restore[q].pc = "done" =>
               /\ Usable(databases[restore[q].target])
               /\ restore[q].manifest # None =>
                    restore[q].manifest.rev = databases[restore[q].target].rev
      BY <1>1 DEF RestoresOK, RestoredIsTheBackup
    <3> QED  BY <3>1, <3>2, <3>3
  <2> QED  BY <2>1, <2>2
<1> QED
  BY <1>4, <1>5, <1>6 DEF WInv

LEMMA RestoreKeepsArchives ==
  ASSUME IInv, WInv, NEW r \in Restore, RestoreStep(r)
  PROVE  WInv'
<1> DEFINE run == restore[r]
<1>1. /\ TypeOK /\ Settled /\ Taken /\ TargetHasOneRestore /\ run \in RestoreRun /\ run.target \in Name
      /\ RestoresOK /\ databases \in [Name -> Database \cup {None}]
      /\ \A q \in Restore : restore[q].target \in Name
  BY DEF IInv, WInv, TypeOK, RestoreRun
<1>2. databases'[Source] = databases[Source]
  BY RestoreKeeps
<1>3. CASE RequestRestore(r)
  <2>1. PICK s \in Second, n \in Name :
          /\ manifest[s] # Torn
          /\ restore' = [restore EXCEPT ![r] = [@ EXCEPT !.pc = "requested", !.second = s,
                                                         !.target = n, !.manifest = manifest[s]]]
          /\ UNCHANGED <<now, databases, files, backup>>
    BY <1>3 DEF RequestRestore
  <2> DEFINE new == [run EXCEPT !.pc = "requested", !.second = s, !.target = n, !.manifest = manifest[s]]
  <2>2. manifest[s] \in Manifest \cup {None}
    BY <1>1, <2>1 DEF TypeOK
  <2>3. new \in RestoreRun /\ new.pc = "requested"
    BY <1>1, <2>2 DEF RestoreRun
  <2>4. restore' = [restore EXCEPT ![r] = new]
    BY <2>1
  <2> HIDE DEF new
  <2> QED  BY <1>2, <2>1, <2>3, <2>4, RestoringKeeps
<1>4. CASE VerifyArchive(r) \/ LookForTarget(r) \/ Accept(r) \/ RestoreFails(r)
  <2>1. PICK pc \in {"verified", "looked", "done", "failed"} :
          /\ restore' = [restore EXCEPT ![r].pc = pc]
          /\ UNCHANGED <<now, databases, files, backup>>
          /\ pc = "done" => /\ run.pc = "loaded" /\ Usable(databases[run.target])
                            /\ run.manifest # None => run.manifest.rev = databases[run.target].rev
    BY <1>4 DEF VerifyArchive, LookForTarget, Accept, RestoreFails
  <2> DEFINE new == [run EXCEPT !.pc = pc]
  <2>2. /\ new \in RestoreRun /\ new.pc = pc /\ new.second = run.second /\ new.target = run.target
        /\ new.created = run.created /\ new.manifest = run.manifest
    BY <1>1 DEF RestoreRun
  <2>3. restore' = [restore EXCEPT ![r] = new]
    BY <2>1
  <2>4. pc = "done" => run.created /\ databases[run.target] = Bytes(run.second).db
    BY <1>1, <2>1 DEF RestoresOK
  <2> HIDE DEF new
  <2>5. /\ new.pc \in {"created", "loaded", "done"} => new.created
        /\ new.pc \in {"loaded", "done"} => databases'[new.target] = Bytes(new.second).db
        /\ new.pc = "done" => /\ Usable(databases'[new.target])
                              /\ new.manifest # None => new.manifest.rev = databases'[new.target].rev
    BY <2>1, <2>2, <2>4
  <2> QED  BY <1>2, <2>1, <2>2, <2>3, <2>5, RestoringKeeps
<1>5. CASE CreateTarget(r)
  <2> DEFINE new == [run EXCEPT !.pc = "created", !.created = TRUE]
  <2>1. /\ databases[run.target] = None /\ UNCHANGED <<now, files, backup>>
        /\ databases' = [databases EXCEPT ![run.target] = EmptyDatabase]
        /\ restore' = [restore EXCEPT ![r] = new]
    BY <1>5 DEF CreateTarget
  <2>2. new \in RestoreRun /\ new.pc = "created" /\ new.created
    BY <1>1 DEF RestoreRun
  <2> HIDE DEF new
  <2>3. \A q \in Restore : restore[q].created =>
          databases'[restore[q].target] = databases[restore[q].target]
    BY <1>1, <2>1, NoneAssumption DEF Taken
  <2> QED  BY <1>2, <2>1, <2>2, <2>3, RestoringKeeps
<1>6. CASE Load(r)
  <2> DEFINE new == [run EXCEPT !.pc = "loaded"]
  <2>1. /\ run.pc = "created" /\ UNCHANGED <<now, files, backup>>
        /\ databases' = [databases EXCEPT ![run.target] = Bytes(run.second).db]
        /\ restore' = [restore EXCEPT ![r] = new]
    BY <1>6 DEF Load
  <2>2. /\ new \in RestoreRun /\ new.pc = "loaded" /\ new.second = run.second /\ new.target = run.target
        /\ new.created = run.created
    BY <1>1 DEF RestoreRun
  <2>3. run.created
    BY <1>1, <2>1 DEF RestoresOK
  <2> HIDE DEF new
  <2>4. databases'[run.target] = Bytes(run.second).db
    BY <1>1, <2>1
  <2>5. \A q \in Restore \ {r} : restore[q].created =>
          databases'[restore[q].target] = databases[restore[q].target]
    BY <1>1, <2>1, <2>3 DEF TargetHasOneRestore
  <2> QED  BY <1>2, <2>1, <2>2, <2>3, <2>4, <2>5, RestoringKeeps
<1> QED
  BY <1>3, <1>4, <1>5, <1>6 DEF RestoreStep
-----------------------------------------------------------------------------
LEMMA ArchivesKept ==
  ASSUME SameSecond = FALSE, IInv, WInv, [Next]_vars
  PROVE  WInv'
BY OutsideKeepsArchives, EarlyArchives, WritingArchives, LateArchives, RestoreKeepsArchives
   DEF Next, BackupStep

LEMMA ArchivesInductive == SameSecond = FALSE => (Spec => [](IInv /\ WInv))
<1> SUFFICES ASSUME SameSecond = FALSE PROVE Spec => [](IInv /\ WInv)
  OBVIOUS
<1>1. IInv /\ WInv /\ [Next]_vars => WInv'
  BY ArchivesKept
<1> QED
  BY <1>1, ArchivesStart, Inductive, PTL DEF Spec

(* Whenever a backup stops, wherever, a file with an archive's name is a   *)
(* whole dump of a usable database, as long as no two backups name their   *)
(* file in one second (create_backup's partial file and its rename).       *)
THEOREM ArchivesAreWhole == SameSecond = FALSE => (Spec => []PublishedIsWhole)
<1> SUFFICES ASSUME SameSecond = FALSE PROVE Spec => []PublishedIsWhole
  OBVIOUS
<1>1. WInv => PublishedIsWhole
  BY DEF WInv
<1> QED
  BY <1>1, ArchivesInductive, PTL

(* A backup that reported success passes restore_backup's checks of size,  *)
(* hash and revision for ever after, unless alembic upgraded the database  *)
(* between its reading of the revision and pg_dump's snapshot.             *)
THEOREM SuccessIsRestorable == SameSecond = FALSE => (Spec => []BackupIsRestorable)
<1> SUFFICES ASSUME SameSecond = FALSE PROVE Spec => []BackupIsRestorable
  OBVIOUS
<1>1. IInv /\ WInv => BackupIsRestorable
  <2> SUFFICES ASSUME IInv, WInv, NEW b \in Backup, backup[b].pc = "done"
               PROVE  /\ Matches(manifest[backup[b].second], backup[b].second)
                      /\ ~backup[b].migrated =>
                           manifest[backup[b].second].rev = Bytes(backup[b].second).db.rev
    BY DEF BackupIsRestorable
  <2>1. Names(b) /\ Written(b) /\ Dumping(b)
    BY DEF WInv, BackupsOK
  <2>2. /\ archive[backup[b].second] = b /\ inode[b].stage = "whole"
        /\ backup[b].size = "whole" /\ backup[b].hash = inode[b]
        /\ ~backup[b].migrated => backup[b].rev = inode[b].db.rev
        /\ manifest[backup[b].second]
             = [rev |-> backup[b].rev, size |-> backup[b].size, hash |-> backup[b].hash]
    BY <2>1 DEF Names, Written, Dumping, Published, Dumped
  <2> QED  BY <2>2 DEF Matches, Bytes
<1> QED
  BY <1>1, ArchivesInductive, PTL

(* A restore that reports success left in its target exactly the archive's *)
(* data at the manifest's revision (restore_backup).                       *)
THEOREM RestoredData == SameSecond = FALSE => (Spec => []RestoredIsTheBackup)
<1> SUFFICES ASSUME SameSecond = FALSE PROVE Spec => []RestoredIsTheBackup
  OBVIOUS
<1>1. WInv => RestoredIsTheBackup
  BY DEF WInv
<1> QED
  BY <1>1, ArchivesInductive, PTL
=============================================================================
