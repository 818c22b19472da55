---------------------------- MODULE BackupStore ----------------------------
(***************************************************************************)
(* The Badger store of ONE node and its incremental encrypted backups:     *)
(* pkg/kvstore/badger.go, badger_backup.go, StartPeriodicBackup of         *)
(* cmd/mpcium/main.go and recoverDatabase of cmd/mpcium-cli/recovery.go.   *)
(*                                                                         *)
(* Badger numbers the commits (ts) and dumps what is newer than a          *)
(* watermark.  The watermark is kept in latest.version, a file that is     *)
(* truncated and then written.  The process may end between any two steps, *)
(* in an orderly shutdown too: StartPeriodicBackup is cancelled and not    *)
(* waited for.  What has been written to a file survives that.             *)
(*                                                                         *)
(* Encryption is taken to be correct: a file that is not whole does not    *)
(* decrypt.                                                                *)
(***************************************************************************)
EXTENDS Integers, FiniteSets

CONSTANTS
  Key,        \* the keys of the store
  MaxWrites,  \* bound: writes to the store
  MaxFaults   \* bound: ends of the process and failing calls, together

ASSUME KeyAssumption == IsFiniteSet(Key)
ASSUME BoundAssumption == MaxWrites \in Nat /\ MaxFaults \in Nat

VARIABLES
  up,         \* the process of the node runs
  db,         \* db[k]: the newest version of a key and its value
  ts,         \* the version of the last commit
  writes,     \* how many writes there have been, each of a value of its own
  step,       \* how far Execute has come
  dump,       \* what Execute has in memory: since, next and the entries
  files,      \* the backup files
  latest,     \* latest.version: the watermark, or Torn
  recovery,   \* how far recoverDatabase has come
  unread,     \* the files it has not loaded
  recovered,  \* the database at the recovery path
  faults      \* bounded by MaxFaults

storeVars == <<db, ts, writes>>
backupVars == <<step, dump, files, latest>>
recoveryVars == <<recovery, unread, recovered>>
vars == <<up, faults, storeVars, backupVars, recoveryVars>>

\* A latest.version that does not parse.
Torn == -1

\* Version 0: the key is not there.
None == [version |-> 0, value |-> 0]

Entry == [version : Nat, value : Nat]

Empty == [k \in Key |-> None]

NoDump == [since |-> 0, next |-> 0, entries |-> Empty]

Fault == faults < MaxFaults /\ faults' = faults + 1

-----------------------------------------------------------------------------
Init ==
  /\ up = TRUE
  /\ db = Empty
  /\ ts = 0
  /\ writes = 0
  /\ step = "idle"
  /\ dump = NoDump
  /\ files = {}
  /\ latest = 0
  /\ recovery = "none"
  /\ unread = {}
  /\ recovered = [entries |-> Empty, ts |-> 0]
  /\ faults = 0

\* Put; a Delete is a version of the key as well.
Put(k) ==
  /\ up /\ writes < MaxWrites
  /\ writes' = writes + 1
  /\ ts' = ts + 1
  /\ db' = [db EXCEPT ![k] = [version |-> ts + 1, value |-> writes + 1]]
  /\ UNCHANGED <<up, faults, backupVars, recoveryVars>>

-----------------------------------------------------------------------------
(* Execute.                                                                *)

\* DB.Backup (external): the entries newer than since, and the version of the
\* newest one.
Newer(since) == [k \in Key |-> IF db[k].version > since THEN db[k] ELSE None]

NewestVersion == CHOOSE v \in {db[k].version : k \in Key} :
                   \A k \in Key : db[k].version <= v

MutBackupSince ==
  /\ up /\ step = "idle"
  /\ \E k \in Key : db[k].version > latest
  /\ dump' = [since |-> latest, next |-> NewestVersion, entries |-> Newer(latest)]
  /\ step' = "dumped"
  /\ UNCHANGED <<up, faults, storeVars, files, latest, recoveryVars>>

MutBackupSinceLate ==
  /\ up /\ step = "idle" /\ latest # Torn
  /\ \E k \in Key : db[k].version > latest + 1
  /\ dump' = [since |-> latest, next |-> NewestVersion, entries |-> Newer(latest)]
  /\ step' = "dumped"
  /\ UNCHANGED <<up, faults, storeVars, files, latest, recoveryVars>>

\* LoadVersionInfo and the dump.  With a torn latest.version Execute ends in an
\* error, and without anything new it skips.
BackupSince ==
  /\ up /\ step = "idle" /\ latest # Torn
  /\ \E k \in Key : db[k].version > latest
  /\ dump' = [since |-> latest, next |-> NewestVersion, entries |-> Newer(latest)]
  /\ step' = "dumped"
  /\ UNCHANGED <<up, faults, storeVars, files, latest, recoveryVars>>

File(whole) == [next |-> dump.next, entries |-> dump.entries, whole |-> whole]

\* os.Create: from here on the file is on disk.  Nobody reads it while the
\* process runs, so that it counts once it is left alone.
CreateFile ==
  /\ up /\ step = "dumped"
  /\ step' = "created"
  /\ UNCHANGED <<up, faults, storeVars, dump, files, latest, recoveryVars>>

WriteFile ==
  /\ up /\ step = "created"
  /\ files' = files \cup {File(TRUE)}
  /\ step' = "written"
  /\ UNCHANGED <<up, faults, storeVars, dump, latest, recoveryVars>>

\* A file that is cut off stays as it is.
Abandoned == IF step = "created" THEN {File(FALSE)} ELSE {}

ExecuteFails ==
  /\ up /\ step \in {"dumped", "created"} /\ Fault
  /\ step' = "idle"
  /\ dump' = NoDump
  /\ files' = files \cup Abandoned
  /\ UNCHANGED <<up, storeVars, latest, recoveryVars>>

\* os.WriteFile truncates first.
TruncateVersionInfo ==
  /\ up /\ step = "written"
  /\ latest' = Torn
  /\ step' = "saving"
  /\ UNCHANGED <<up, faults, storeVars, dump, files, recoveryVars>>

MutSaveVersionInfo ==
  /\ up /\ step = "saving"
  /\ latest' = ts
  /\ step' = "idle"
  /\ dump' = NoDump
  /\ UNCHANGED <<up, faults, storeVars, files, recoveryVars>>

SaveVersionInfo ==
  /\ up /\ step = "saving"
  /\ latest' = dump.next
  /\ step' = "idle"
  /\ dump' = NoDump
  /\ UNCHANGED <<up, faults, storeVars, files, recoveryVars>>

\* A failing SaveVersionInfo is only a warning, before the truncation and after.
SaveFails ==
  /\ up /\ step \in {"written", "saving"} /\ Fault
  /\ step' = "idle"
  /\ dump' = NoDump
  /\ UNCHANGED <<up, storeVars, files, latest, recoveryVars>>

-----------------------------------------------------------------------------
(* The end of the process, and the recovery with mpcium-cli.               *)

Exit ==
  /\ up /\ Fault
  /\ up' = FALSE
  /\ step' = "idle"
  /\ dump' = NoDump
  /\ files' = files \cup Abandoned
  /\ UNCHANGED <<storeVars, latest, recoveryVars>>

Restart ==
  /\ ~up /\ recovery = "none"
  /\ up' = TRUE
  /\ UNCHANGED <<faults, storeVars, backupVars, recoveryVars>>

recoverDatabase ==
  /\ ~up /\ recovery = "none"
  /\ recovery' = "loading"
  /\ unread' = files
  /\ recovered' = [entries |-> Empty, ts |-> 0]
  /\ UNCHANGED <<up, faults, storeVars, backupVars>>

MutLoaded(f) == f.entries

\* DB.Load (external): an entry keeps its version, and the newest version of a
\* key is the one that counts, in whatever order the files are loaded.
Loaded(f) ==
  [k \in Key |-> IF f.entries[k].version > recovered.entries[k].version
                 THEN f.entries[k] ELSE recovered.entries[k]]

\* loadEncryptedBackup.  The names of the files are sorted by a wall clock, so
\* that any order is possible.
loadEncryptedBackup(f) ==
  /\ recovery = "loading" /\ f \in unread /\ f.whole
  /\ unread' = unread \ {f}
  /\ recovered' = [entries |-> Loaded(f),
                   ts |-> IF f.next > recovered.ts THEN f.next ELSE recovered.ts]
  /\ UNCHANGED <<up, faults, storeVars, backupVars, recovery>>

\* RestoreAllBackupsEncrypted gives up at the first file that is not whole.
RestoreFails ==
  /\ recovery = "loading" /\ \E f \in unread : ~f.whole
  /\ recovery' = "none"
  /\ unread' = {}
  /\ recovered' = [entries |-> Empty, ts |-> 0]
  /\ UNCHANGED <<up, faults, storeVars, backupVars>>

\* The operator puts the restored database in the place of the store.
Adopt ==
  /\ recovery = "loading" /\ unread = {}
  /\ recovery' = "none"
  /\ db' = recovered.entries
  /\ ts' = recovered.ts
  /\ recovered' = [entries |-> Empty, ts |-> 0]
  /\ UNCHANGED <<up, faults, writes, backupVars, unread>>

-----------------------------------------------------------------------------
Execute ==
  BackupSince \/ CreateFile \/ WriteFile \/ TruncateVersionInfo \/ SaveVersionInfo

RestoreAllBackupsEncrypted ==
  RestoreFails \/ Adopt \/ \E f \in unread : loadEncryptedBackup(f)

Next ==
  \/ \E k \in Key : Put(k)
  \/ Execute \/ ExecuteFails \/ SaveFails \/ Exit \/ Restart
  \/ recoverDatabase \/ RestoreAllBackupsEncrypted

Spec == Init /\ [][Next]_vars

(***************************************************************************)
(* The ticker of StartPeriodicBackup calls Execute again and again while   *)
(* the process runs, a recovery that has begun ends, and the operator does *)
(* not go on recovering for ever instead of starting the process again.    *)
(***************************************************************************)
FairSpec ==
  Spec /\ WF_vars(Execute) /\ WF_vars(RestoreAllBackupsEncrypted) /\ SF_vars(Restart)

-----------------------------------------------------------------------------
(* Properties.                                                             *)

FileType == [next : Nat, entries : [Key -> Entry], whole : BOOLEAN]

\* Every variable has the type the Go declarations give it.
TypeOK ==
  /\ up \in BOOLEAN
  /\ db \in [Key -> Entry]
  /\ ts \in Nat
  /\ writes \in 0..MaxWrites
  /\ step \in {"idle", "dumped", "created", "written", "saving"}
  /\ dump \in [since : Nat, next : Nat, entries : [Key -> Entry]]
  /\ files \subseteq FileType
  /\ latest \in Nat \cup {Torn}
  /\ recovery \in {"none", "loading"}
  /\ unread \subseteq files
  /\ recovered \in [entries : [Key -> Entry], ts : Nat]
  /\ faults \in 0..MaxFaults

Covered(e, k) == \E f \in files : f.whole /\ f.entries[k] = e

\* What the watermark of latest.version says is in the backups is there: no
\* later backup looks at it again.  Neither a write during a backup, nor a
\* backup that is cut off, nor a recovery breaks this.
WatermarkIsCovered ==
  latest # Torn =>
    \A k \in Key : db[k].version \in 1..latest => Covered(db[k], k)

\* A recovery gives back every key whose newest version the watermark covers,
\* with the value it had, and takes none back to an older one.
RecoveryKeepsBackedUp ==
  [][Adopt => \A k \in Key :
       (latest # Torn /\ db[k].version <= latest) => db'[k] = db[k]]_vars

(***************************************************************************)
(* The parts of the inductive invariant.                                   *)
(***************************************************************************)

Same(e, d) == e.version = d.version /\ e.version > 0 => e = d

\* n is the newest version in a dump or a database.
Newest(entries, n) ==
  /\ \A k \in Key : entries[k].version <= n
  /\ n > 0 => \E k \in Key : entries[k].version = n

StoreInv ==
  /\ Newest(db, ts)
  /\ \A k \in Key : db[k].version = 0 => db[k] = None
  /\ ~up => step = "idle"

FilesInv ==
  /\ \A f \in files : Newest(f.entries, f.next)
  /\ \A f \in files, k \in Key :
       f.entries[k].version <= db[k].version /\ Same(f.entries[k], db[k])
  /\ \A f, g \in files, k \in Key : Same(f.entries[k], g.entries[k])

LatestInv ==
  latest # Torn => latest <= ts /\ (latest > 0 => \E f \in files : f.next = latest)

DumpInv ==
  step # "idle" =>
    /\ dump.next <= ts
    /\ Newest(dump.entries, dump.next)
    /\ \A k \in Key :
         /\ dump.entries[k].version <= db[k].version /\ Same(dump.entries[k], db[k])
         /\ \A f \in files : Same(dump.entries[k], f.entries[k])
         /\ db[k].version \in 1..dump.next => Covered(db[k], k) \/ dump.entries[k] = db[k]
    /\ step \in {"written", "saving"} => File(TRUE) \in files

RecoveryInv ==
  /\ recovery = "none" => unread = {}
  /\ recovery = "loading" =>
       /\ ~up
       /\ Newest(recovered.entries, recovered.ts)
       /\ \A k \in Key :
            \/ recovered.entries[k] = None
            \/ recovered.entries[k].version > 0 /\ Covered(recovered.entries[k], k)
       /\ \A f \in files \ unread :
            /\ f.next <= recovered.ts
            /\ \A k \in Key : f.entries[k].version <= recovered.entries[k].version

\* The watermark, the files, the dump in memory and a recovery that is under
\* way never contradict the store, nor each other.
BackupInv ==
  /\ TypeOK /\ StoreInv /\ FilesInv /\ LatestInv /\ DumpInv /\ RecoveryInv
  /\ WatermarkIsCovered

\* Execute can never succeed again: it only ever reads this latest.version.
Stuck == latest = Torn /\ step # "saving"

\* What is written is covered by the watermark in the end, unless a recovery
\* has lost it or latest.version was left torn.
BackupCatchesUp ==
  \A v \in 1..MaxWrites : ts >= v ~> latest >= v \/ ts < v \/ Stuck
=============================================================================
