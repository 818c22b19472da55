-------------------------- MODULE BackupStoreProofs --------------------------
(***************************************************************************)
(* Proofs about BackupStore, for every set of keys and every bound on the  *)
(* number of writes and faults.                                            *)
(*                                                                         *)
(* BackupInv is the inductive invariant.  WatermarkIsCovered alone is not  *)
(* one: that a dump covers the entries up to its `next' needs to know      *)
(* that the commit clock is not behind any entry (StoreInv), that what a   *)
(* file holds is what the store held up to that version (FilesInv), and    *)
(* what an unfinished Execute is going to save (DumpInv).  There is one    *)
(* lemma per action, and one step in it per part of BackupInv.             *)
(***************************************************************************)
EXTENDS BackupStore, TLAPS

\* DB.Backup returns the version of the last commit when there is anything new.
LEMMA NewestIsTs ==
  ASSUME TypeOK, StoreInv, NEW k0 \in Key, db[k0].version > 0
  PROVE  NewestVersion = ts /\ ts \in Nat
<1>1. ts \in Nat /\ \A k \in Key : db[k].version \in Nat /\ db[k].version <= ts
  BY DEF TypeOK, Entry, StoreInv, Newest
<1>2. PICK k \in Key : db[k].version = ts
  BY <1>1 DEF StoreInv, Newest
<1>3. \A v \in {db[j].version : j \in Key} :
        (\A j \in Key : db[j].version <= v) => v = ts
  BY <1>1, <1>2
<1>4. ts \in {db[j].version : j \in Key} /\ \A j \in Key : db[j].version <= ts
  BY <1>1, <1>2
<1> QED  BY <1>1, <1>3, <1>4 DEF NewestVersion

\* What Execute writes has the type of a file.
LEMMA FileTyped ==
  ASSUME TypeOK, NEW whole \in BOOLEAN
  PROVE  File(whole) \in FileType
  BY DEF TypeOK, File, FileType

\* A committed write advances the commit clock, so that no file covers the new
\* entry and no watermark passes it.
LEMMA PutStep ==
  ASSUME BackupInv, NEW k0 \in Key, Put(k0)
  PROVE  BackupInv'
<1> USE DEF BackupInv
<1>1. TypeOK'
  BY BoundAssumption DEF Put, Entry, TypeOK, backupVars, recoveryVars
<1>2. StoreInv'
  BY DEF Put, Entry, StoreInv, Newest, TypeOK
<1>3. FilesInv'
  BY DEF Put, FilesInv, StoreInv, Newest, Same, TypeOK, Entry, FileType, backupVars
<1>4. LatestInv'
  BY DEF Put, LatestInv, TypeOK, backupVars
<1>5. DumpInv'
  <2> SUFFICES ASSUME step # "idle"  PROVE DumpInv'
    BY DEF Put, DumpInv, backupVars
  <2>1. /\ step' = step /\ dump' = dump /\ files' = files /\ ts' = ts + 1
        /\ ts \in Nat /\ dump.next \in Nat /\ dump.next <= ts
        /\ Newest(dump.entries, dump.next)
        /\ step \in {"written", "saving"} => File(TRUE) \in files
    BY DEF Put, DumpInv, TypeOK, backupVars
  <2>2. ASSUME NEW k \in Key
        PROVE  /\ dump.entries[k].version <= db'[k].version
               /\ Same(dump.entries[k], db'[k])
               /\ db'[k].version \in 1..dump.next =>
                    Covered(db'[k], k) \/ dump.entries[k] = db'[k]
    <3>1. dump.entries[k] \in Entry /\ dump.entries[k].version <= dump.next
      BY <2>1 DEF Newest, TypeOK
    <3>2. CASE k = k0
      BY <2>1, <3>1, <3>2 DEF Put, Entry, Same, TypeOK
    <3>3. CASE k # k0
      BY <3>3 DEF Put, DumpInv, TypeOK
    <3> QED  BY <3>2, <3>3
  <2>3. \A k \in Key, f \in files : Same(dump.entries[k], f.entries[k])
    BY DEF DumpInv
  <2>4. Newest(dump.entries, dump.next)'
    BY <2>1 DEF Newest
  <2>5. \A k \in Key : Covered(db'[k], k) => Covered(db[k], k)'
    BY <2>1 DEF Covered
  <2>6. \A k \in Key : Same(dump.entries[k], db'[k]) => Same(dump.entries[k], db[k])'
    BY <2>1 DEF Same
  <2>7. \A k \in Key, f \in files :
          Same(dump.entries[k], f.entries[k]) => Same(dump.entries[k], f.entries[k])'
    BY <2>1 DEF Same
  <2>8. /\ dump'.next <= ts'
        /\ step' \in {"written", "saving"} => File(TRUE)' \in files'
    BY <2>1 DEF File
  <2>9. \A k \in Key :
          /\ dump'.entries[k].version <= db'[k].version
          /\ Same(dump.entries[k], db[k])'
          /\ \A f \in files' : Same(dump.entries[k], f.entries[k])'
          /\ db'[k].version \in 1..dump'.next =>
               Covered(db[k], k)' \/ dump'.entries[k] = db'[k]
    BY <2>1, <2>2, <2>3, <2>5, <2>6, <2>7
  <2> QED  BY <2>4, <2>8, <2>9 DEF DumpInv
<1>6. RecoveryInv'
  BY DEF Put, RecoveryInv, recoveryVars
<1>7. WatermarkIsCovered'
  BY DEF Put, WatermarkIsCovered, LatestInv, Covered, TypeOK, backupVars
<1> QED  BY <1>1, <1>2, <1>3, <1>4, <1>5, <1>6, <1>7

\* DB.Backup reads the entries that are newer than the watermark: with the files
\* already written they are all there is up to the version it returns.
LEMMA BackupSinceStep ==
  ASSUME BackupInv, BackupSince
  PROVE  BackupInv'
<1> USE DEF BackupInv
<1>1. TypeOK'
  <2>1. PICK k0 \in Key : db[k0].version > latest
    BY DEF BackupSince
  <2>2. latest \in Nat /\ db[k0].version > 0
    BY <2>1 DEF BackupSince, TypeOK, Entry, Torn
  <2>3. NewestVersion \in Nat
    BY <2>2, NewestIsTs
  <2>4. Newer(latest) \in [Key -> Entry]
    BY DEF Newer, None, Entry, TypeOK
  <2> QED  BY <2>2, <2>3, <2>4 DEF BackupSince, TypeOK, storeVars, recoveryVars
<1>2. StoreInv'
  BY DEF BackupSince, StoreInv, storeVars
<1>3. FilesInv'
  BY DEF BackupSince, FilesInv, storeVars
<1>4. LatestInv'
  BY DEF BackupSince, LatestInv, storeVars
<1>5. DumpInv'
  <2>1. PICK k0 \in Key : db[k0].version > latest
    BY DEF BackupSince
  <2>2. latest \in Nat /\ db[k0].version > 0
    BY <2>1 DEF BackupSince, TypeOK, Entry, Torn
  <2>3. NewestVersion = ts /\ ts \in Nat
    BY <2>2, NewestIsTs
  <2>4. /\ dump' = [since |-> latest, next |-> ts, entries |-> Newer(latest)]
        /\ step' = "dumped" /\ UNCHANGED <<db, ts, files>>
    BY <2>3 DEF BackupSince, storeVars
  <2>5. Newest(Newer(latest), ts)
    BY <2>1, <2>2, <2>3 DEF StoreInv, Newest, Newer, None, TypeOK, Entry
  <2>6. ASSUME NEW k \in Key
        PROVE  /\ Newer(latest)[k].version <= db[k].version
               /\ Same(Newer(latest)[k], db[k])
               /\ \A f \in files : Same(Newer(latest)[k], f.entries[k])
    <3>1. Newer(latest)[k] = db[k] \/ Newer(latest)[k] = None
      BY DEF Newer
    <3> QED  BY <3>1 DEF FilesInv, Same, None, TypeOK, Entry, FileType
  <2>7. ASSUME NEW k \in Key, db[k].version \in 1..ts
        PROVE  Covered(db[k], k) \/ Newer(latest)[k] = db[k]
    BY <2>2, <2>3, <2>7 DEF WatermarkIsCovered, Newer, TypeOK, Entry, Torn
  <2> QED
    BY <2>3, <2>4, <2>5, <2>6, <2>7 DEF DumpInv, Newest, Same, Covered
<1>6. RecoveryInv'
  BY DEF BackupSince, RecoveryInv, recoveryVars
<1>7. WatermarkIsCovered'
  BY DEF BackupSince, WatermarkIsCovered, Covered, storeVars
<1> QED  BY <1>1, <1>2, <1>3, <1>4, <1>5, <1>6, <1>7

\* os.Create leaves an empty file: it hides no entry another file covers.
LEMMA CreateFileStep ==
  ASSUME BackupInv, CreateFile
  PROVE  BackupInv'
<1> USE DEF BackupInv
<1>1. TypeOK'
  BY DEF CreateFile, TypeOK, storeVars, recoveryVars
<1>2. StoreInv'
  BY DEF CreateFile, StoreInv, storeVars
<1>3. FilesInv'
  BY DEF CreateFile, FilesInv, storeVars
<1>4. LatestInv'
  BY DEF CreateFile, LatestInv, storeVars
<1>5. DumpInv'
  BY DEF CreateFile, DumpInv, Covered, storeVars
<1>6. RecoveryInv'
  BY DEF CreateFile, RecoveryInv, recoveryVars
<1>7. WatermarkIsCovered'
  BY DEF CreateFile, WatermarkIsCovered, Covered, storeVars
<1> QED  BY <1>1, <1>2, <1>3, <1>4, <1>5, <1>6, <1>7

\* Writing the encrypted dump completes the file: it covers the entries between
\* the old watermark and the new one.
LEMMA WriteFileStep ==
  ASSUME BackupInv, WriteFile
  PROVE  BackupInv'
<1> USE DEF BackupInv
<1>1. TypeOK'
  BY FileTyped DEF WriteFile, TypeOK, storeVars, recoveryVars
<1>2. StoreInv'
  BY DEF WriteFile, StoreInv, storeVars
<1>3. FilesInv'
  BY FileTyped DEF WriteFile, File, FilesInv, DumpInv, Newest, Same, storeVars,
     recoveryVars, TypeOK, Entry, FileType
<1>4. LatestInv'
  BY DEF WriteFile, LatestInv, storeVars
<1>5. DumpInv'
  BY DEF WriteFile, File, DumpInv, Same, Covered, storeVars
<1>6. RecoveryInv'
  BY DEF WriteFile, RecoveryInv, recoveryVars
<1>7. WatermarkIsCovered'
  BY DEF WriteFile, WatermarkIsCovered, Covered, storeVars
<1> QED  BY <1>1, <1>2, <1>3, <1>4, <1>5, <1>6, <1>7

\* Execute returns with an error and keeps the old watermark: the file it may have
\* left is one that nothing counts on.
LEMMA ExecuteFailsStep ==
  ASSUME BackupInv, ExecuteFails
  PROVE  BackupInv'
<1> USE DEF BackupInv
<1>1. TypeOK'
  <2>1. Abandoned \subseteq FileType
    BY FileTyped DEF Abandoned
  <2>2. NoDump \in [since : Nat, next : Nat, entries : [Key -> Entry]]
    BY DEF NoDump, Empty, None, Entry
  <2>3. faults' \in 0..MaxFaults
    BY BoundAssumption DEF ExecuteFails, Fault, TypeOK
  <2> QED
    BY <2>1, <2>2, <2>3 DEF ExecuteFails, TypeOK, storeVars, recoveryVars
<1>2. StoreInv'
  BY DEF ExecuteFails, StoreInv, storeVars
<1>3. FilesInv'
  BY FileTyped DEF ExecuteFails, Abandoned, File, FilesInv, DumpInv, Newest, Same,
     storeVars, recoveryVars, TypeOK, Entry, FileType
<1>4. LatestInv'
  BY DEF ExecuteFails, LatestInv, storeVars
<1>5. DumpInv'
  BY DEF ExecuteFails, DumpInv
<1>6. RecoveryInv'
  BY DEF ExecuteFails, RecoveryInv, recoveryVars
<1>7. WatermarkIsCovered'
  BY DEF ExecuteFails, WatermarkIsCovered, Covered, storeVars
<1> QED  BY <1>1, <1>2, <1>3, <1>4, <1>5, <1>6, <1>7

\* SaveVersionInfo truncates latest.version before it writes it: the watermark is
\* torn, never too high.
LEMMA TruncateVersionInfoStep ==
  ASSUME BackupInv, TruncateVersionInfo
  PROVE  BackupInv'
<1> USE DEF BackupInv
<1>1. TypeOK'
  BY DEF TruncateVersionInfo, TypeOK, storeVars, recoveryVars
<1>2. StoreInv'
  BY DEF TruncateVersionInfo, StoreInv, storeVars
<1>3. FilesInv'
  BY DEF TruncateVersionInfo, FilesInv, storeVars
<1>4. LatestInv'
  BY DEF TruncateVersionInfo, LatestInv
<1>5. DumpInv'
  BY DEF TruncateVersionInfo, DumpInv, Covered, File, storeVars
<1>6. RecoveryInv'
  BY DEF TruncateVersionInfo, RecoveryInv, recoveryVars
<1>7. WatermarkIsCovered'
  BY DEF TruncateVersionInfo, WatermarkIsCovered
<1> QED  BY <1>1, <1>2, <1>3, <1>4, <1>5, <1>6, <1>7

\* The new watermark is saved only after the file that covers it.
LEMMA SaveVersionInfoStep ==
  ASSUME BackupInv, SaveVersionInfo
  PROVE  BackupInv'
<1> USE DEF BackupInv
<1>1. TypeOK'
  BY DEF SaveVersionInfo, NoDump, Empty, None, Entry, TypeOK, storeVars, recoveryVars
<1>2. StoreInv'
  BY DEF SaveVersionInfo, StoreInv, storeVars
<1>3. FilesInv'
  BY DEF SaveVersionInfo, FilesInv, storeVars
<1>4. LatestInv'
  BY DEF SaveVersionInfo, LatestInv, DumpInv, File, TypeOK, storeVars, recoveryVars
<1>5. DumpInv'
  BY DEF SaveVersionInfo, DumpInv
<1>6. RecoveryInv'
  BY DEF SaveVersionInfo, RecoveryInv, recoveryVars
<1>7. WatermarkIsCovered'
  BY DEF SaveVersionInfo, WatermarkIsCovered, DumpInv, Covered, File, TypeOK, Entry,
     Torn, storeVars, recoveryVars
<1> QED  BY <1>1, <1>2, <1>3, <1>4, <1>5, <1>6, <1>7

\* A failed save leaves the old watermark, or a torn one.
LEMMA SaveFailsStep ==
  ASSUME BackupInv, SaveFails
  PROVE  BackupInv'
<1> USE DEF BackupInv
<1>1. TypeOK'
  BY BoundAssumption DEF SaveFails, NoDump, Empty, None, Entry, TypeOK, Fault,
     storeVars, recoveryVars
<1>2. StoreInv'
  BY DEF SaveFails, StoreInv, storeVars
<1>3. FilesInv'
  BY DEF SaveFails, FilesInv, storeVars
<1>4. LatestInv'
  BY DEF SaveFails, LatestInv, storeVars
<1>5. DumpInv'
  BY DEF SaveFails, DumpInv
<1>6. RecoveryInv'
  BY DEF SaveFails, RecoveryInv, recoveryVars
<1>7. WatermarkIsCovered'
  BY DEF SaveFails, WatermarkIsCovered, Covered, storeVars
<1> QED  BY <1>1, <1>2, <1>3, <1>4, <1>5, <1>6, <1>7

\* A crash loses what Execute had in memory and nothing that is on disk.
LEMMA ExitStep ==
  ASSUME BackupInv, Exit
  PROVE  BackupInv'
<1> USE DEF BackupInv
<1>1. TypeOK'
  <2>1. Abandoned \subseteq FileType
    BY FileTyped DEF Abandoned
  <2>2. NoDump \in [since : Nat, next : Nat, entries : [Key -> Entry]]
    BY DEF NoDump, Empty, None, Entry
  <2>3. faults' \in 0..MaxFaults
    BY BoundAssumption DEF Exit, Fault, TypeOK
  <2> QED
    BY <2>1, <2>2, <2>3 DEF Exit, TypeOK, storeVars, recoveryVars
<1>2. StoreInv'
  BY DEF Exit, StoreInv, storeVars
<1>3. FilesInv'
  BY FileTyped DEF Exit, Abandoned, File, FilesInv, DumpInv, Newest, Same, storeVars,
     recoveryVars, TypeOK, Entry, FileType
<1>4. LatestInv'
  BY DEF Exit, LatestInv, storeVars
<1>5. DumpInv'
  BY DEF Exit, DumpInv
<1>6. RecoveryInv'
  BY DEF Exit, RecoveryInv, recoveryVars
<1>7. WatermarkIsCovered'
  BY DEF Exit, WatermarkIsCovered, Covered, storeVars
<1> QED  BY <1>1, <1>2, <1>3, <1>4, <1>5, <1>6, <1>7

\* A restart reads the same store and the same files.
LEMMA RestartStep ==
  ASSUME BackupInv, Restart
  PROVE  BackupInv'
<1> USE DEF BackupInv
<1>1. TypeOK'
  BY DEF Restart, TypeOK, storeVars, backupVars, recoveryVars
<1>2. StoreInv'
  BY DEF Restart, StoreInv, storeVars
<1>3. FilesInv'
  BY DEF Restart, FilesInv, storeVars, backupVars
<1>4. LatestInv'
  BY DEF Restart, LatestInv, storeVars, backupVars
<1>5. DumpInv'
  BY DEF Restart, DumpInv, Covered, File, storeVars, backupVars
<1>6. RecoveryInv'
  BY DEF Restart, RecoveryInv, recoveryVars
<1>7. WatermarkIsCovered'
  BY DEF Restart, WatermarkIsCovered, Covered, storeVars, backupVars
<1> QED  BY <1>1, <1>2, <1>3, <1>4, <1>5, <1>6, <1>7

\* A recovery begins with an empty store beside the backup directory.
LEMMA RecoverDatabaseStep ==
  ASSUME BackupInv, recoverDatabase
  PROVE  BackupInv'
<1> USE DEF BackupInv
<1>1. TypeOK'
  BY DEF recoverDatabase, Empty, None, Entry, TypeOK, storeVars, backupVars
<1>2. StoreInv'
  BY DEF recoverDatabase, StoreInv, storeVars, backupVars
<1>3. FilesInv'
  BY DEF recoverDatabase, FilesInv, storeVars, backupVars
<1>4. LatestInv'
  BY DEF recoverDatabase, LatestInv, storeVars, backupVars
<1>5. DumpInv'
  BY DEF recoverDatabase, DumpInv, Covered, File, storeVars, backupVars
<1>6. RecoveryInv'
  BY DEF recoverDatabase, Empty, None, RecoveryInv, Newest, backupVars
<1>7. WatermarkIsCovered'
  BY DEF recoverDatabase, WatermarkIsCovered, Covered, storeVars, backupVars
<1> QED  BY <1>1, <1>2, <1>3, <1>4, <1>5, <1>6, <1>7

\* Loading the next file adds the entries that it holds, the newer of two
\* versions winning.
LEMMA LoadEncryptedBackupStep ==
  ASSUME BackupInv, NEW f0 \in unread, loadEncryptedBackup(f0)
  PROVE  BackupInv'
<1> USE DEF BackupInv
<1>1. TypeOK'
  BY DEF loadEncryptedBackup, Loaded, TypeOK, FileType, storeVars, backupVars
<1>2. StoreInv'
  BY DEF loadEncryptedBackup, StoreInv, storeVars, backupVars
<1>3. FilesInv'
  BY DEF loadEncryptedBackup, FilesInv, storeVars, backupVars
<1>4. LatestInv'
  BY DEF loadEncryptedBackup, LatestInv, storeVars, backupVars
<1>5. DumpInv'
  BY DEF loadEncryptedBackup, DumpInv, Covered, File, storeVars, backupVars
<1>6. RecoveryInv'
  <2> DEFINE new == recovered'.entries
  <2>1. /\ UNCHANGED <<up, files, recovery>> /\ unread' = unread \ {f0}
        /\ new = Loaded(f0) /\ recovery = "loading" /\ f0 \in files /\ f0.whole
        /\ recovered'.ts = IF f0.next > recovered.ts THEN f0.next ELSE recovered.ts
    BY DEF loadEncryptedBackup, backupVars, TypeOK
  <2>2. \A k \in Key : new[k] = IF f0.entries[k].version > recovered.entries[k].version
                                 THEN f0.entries[k] ELSE recovered.entries[k]
    BY <2>1 DEF Loaded
  <2>3. /\ recovered.ts \in Nat /\ \A f \in files : f.next \in Nat
        /\ \A k \in Key : recovered.entries[k].version \in Nat
        /\ \A f \in files, k \in Key : f.entries[k].version \in Nat
    BY DEF TypeOK, FileType, Entry
  <2>4. /\ Newest(recovered.entries, recovered.ts) /\ Newest(f0.entries, f0.next)
        /\ ~up
        /\ \A k \in Key :
             \/ recovered.entries[k] = None
             \/ recovered.entries[k].version > 0 /\ Covered(recovered.entries[k], k)
        /\ \A f \in files \ unread :
             /\ f.next <= recovered.ts
             /\ \A k \in Key : f.entries[k].version <= recovered.entries[k].version
    BY <2>1 DEF RecoveryInv, FilesInv
  <2>5. Newest(new, recovered'.ts)
    BY <2>1, <2>2, <2>3, <2>4 DEF Newest
  <2>6. ASSUME NEW k \in Key
        PROVE  \/ new[k] = None
               \/ /\ new[k].version > 0
                  /\ \E f \in files : f.whole /\ f.entries[k] = new[k]
    BY <2>1, <2>2, <2>3, <2>4 DEF Covered
  <2>7. ASSUME NEW f \in files' \ unread'
        PROVE  /\ f.next <= recovered'.ts
               /\ \A k \in Key : f.entries[k].version <= new[k].version
    BY <2>1, <2>2, <2>3, <2>4
  <2> QED  BY <2>1, <2>4, <2>5, <2>6, <2>7 DEF RecoveryInv, Newest, Covered
<1>7. WatermarkIsCovered'
  BY DEF loadEncryptedBackup, WatermarkIsCovered, Covered, storeVars, backupVars
<1> QED  BY <1>1, <1>2, <1>3, <1>4, <1>5, <1>6, <1>7

\* A file that cannot be read ends the recovery: the store stays as it was.
LEMMA RestoreFailsStep ==
  ASSUME BackupInv, RestoreFails
  PROVE  BackupInv'
<1> USE DEF BackupInv
<1>1. TypeOK'
  BY DEF RestoreFails, Empty, None, Entry, TypeOK, storeVars, backupVars
<1>2. StoreInv'
  BY DEF RestoreFails, StoreInv, storeVars, backupVars
<1>3. FilesInv'
  BY DEF RestoreFails, FilesInv, storeVars, backupVars
<1>4. LatestInv'
  BY DEF RestoreFails, LatestInv, storeVars, backupVars
<1>5. DumpInv'
  BY DEF RestoreFails, DumpInv, Newest, Same, Covered, File, storeVars, backupVars
<1>6. RecoveryInv'
  BY DEF RestoreFails, RecoveryInv
<1>7. WatermarkIsCovered'
  BY DEF RestoreFails, WatermarkIsCovered, Covered, storeVars, backupVars
<1> QED  BY <1>1, <1>2, <1>3, <1>4, <1>5, <1>6, <1>7

\* A finished recovery has loaded every file: what was covered is there.
LEMMA AdoptStep ==
  ASSUME BackupInv, Adopt
  PROVE  /\ BackupInv'
         /\ \A k \in Key : (latest # Torn /\ db[k].version <= latest) => db'[k] = db[k]
<1> USE DEF BackupInv
<1> DEFINE rec == recovered.entries
<1>1. /\ db' = rec /\ ts' = recovered.ts /\ ~up /\ step = "idle" /\ recovery' = "none"
      /\ UNCHANGED <<up, files, latest, step, dump>> /\ unread = {} /\ unread' = {}
  BY DEF Adopt, backupVars, RecoveryInv, StoreInv
<1>2. /\ recovered.ts \in Nat /\ ts \in Nat /\ \A f \in files : f.next \in Nat
      /\ \A k \in Key : rec[k].version \in Nat /\ db[k].version \in Nat
      /\ \A f \in files, k \in Key : f.entries[k].version \in Nat
  BY DEF TypeOK, FileType, Entry
<1>3. /\ Newest(rec, recovered.ts)
      /\ \A k \in Key : rec[k] = None \/ (rec[k].version > 0 /\ Covered(rec[k], k))
      /\ \A f \in files : /\ f.next <= recovered.ts
                           /\ \A k \in Key : f.entries[k].version <= rec[k].version
  BY <1>1 DEF Adopt, RecoveryInv
<1>4. TypeOK'
  BY DEF Adopt, TypeOK, backupVars, Empty, None, Entry
<1>5. StoreInv'
  BY <1>1, <1>2, <1>3 DEF StoreInv, Newest, None
<1>6. FilesInv'
  <2>1. ASSUME NEW f \in files, NEW k \in Key
        PROVE  Same(f.entries[k], rec[k])
    BY <1>2, <1>3 DEF FilesInv, Same, Covered, None
  <2> QED  BY <1>1, <1>3, <2>1 DEF FilesInv, Newest, Same
<1>7. LatestInv'
  BY <1>1, <1>3, <1>2 DEF LatestInv, TypeOK, Torn
<1>8. DumpInv'
  BY <1>1 DEF DumpInv
<1>9. RecoveryInv'
  BY <1>1 DEF RecoveryInv
<1>10. WatermarkIsCovered'
  BY <1>1, <1>3 DEF WatermarkIsCovered, Covered, None
<1>11. ASSUME NEW k \in Key, latest # Torn, db[k].version <= latest
       PROVE  db'[k] = db[k]
  <2>1. CASE db[k].version = 0
    BY <1>1, <1>2, <1>3, <2>1 DEF StoreInv, FilesInv, Covered, None
  <2>2. CASE db[k].version > 0
    <3>1. PICK f \in files : f.entries[k] = db[k]
      BY <1>2, <1>11, <2>2 DEF WatermarkIsCovered, Covered, TypeOK, Torn
    <3>2. rec[k].version >= db[k].version /\ rec[k] # None
      BY <1>2, <1>3, <2>2, <3>1 DEF None
    <3>3. PICK g \in files : g.entries[k] = rec[k]
      BY <1>3, <3>2 DEF Covered
    <3> QED  BY <1>1, <1>2, <2>2, <3>2, <3>3 DEF FilesInv, Same
  <2> QED  BY <1>2, <2>1, <2>2
<1> QED  BY <1>4, <1>5, <1>6, <1>7, <1>8, <1>9, <1>10, <1>11

\* The empty store with no backups satisfies the invariant.
LEMMA InitInv == Init => BackupInv
  BY BoundAssumption DEF Init, BackupInv, TypeOK, StoreInv, FilesInv, LatestInv, DumpInv,
    RecoveryInv, WatermarkIsCovered, Newest, Empty, None, NoDump, Entry, FileType, Torn

\* The invariant is a condition on the variables only.
LEMMA StutterInv == ASSUME BackupInv, UNCHANGED vars PROVE BackupInv'
  BY DEF vars, storeVars, backupVars, recoveryVars, BackupInv, TypeOK, StoreInv, FilesInv,
    LatestInv, DumpInv, RecoveryInv, WatermarkIsCovered, Newest, Same, Covered, File

\* Every step keeps the invariant.
LEMMA NextInv == ASSUME BackupInv, [Next]_vars PROVE BackupInv'
<1>1. CASE UNCHANGED vars
  BY <1>1, StutterInv
<1>2. CASE Next
  BY <1>2, PutStep, BackupSinceStep, CreateFileStep, WriteFileStep, ExecuteFailsStep,
    TruncateVersionInfoStep, SaveVersionInfoStep, SaveFailsStep, ExitStep, RestartStep,
    RecoverDatabaseStep, LoadEncryptedBackupStep, RestoreFailsStep, AdoptStep
    DEF Next, Execute, RestoreAllBackupsEncrypted
<1> QED  BY <1>1, <1>2

\* BackupInv holds of every reachable state: what Execute, SaveVersionInfo and the
\* recovery rely on.
THEOREM BackupIsInductive == Spec => []BackupInv
<1>1. BackupInv /\ [Next]_vars => BackupInv'
  BY NextInv
<1> QED  BY InitInv, <1>1, PTL DEF Spec

\* The variables keep their types: the files a recovery has not loaded are files
\* of the backup directory, and latest.version parses or is Torn.
THEOREM BackupTypeCorrect == Spec => []TypeOK
<1>1. BackupInv => TypeOK
  BY DEF BackupInv
<1> QED  BY <1>1, BackupIsInductive, PTL

\* The watermark in latest.version never claims more than the whole files cover
\* (pkg/kvstore/badger_backup.go: Execute saves it after the file is written).
THEOREM WatermarkTheorem == Spec => []WatermarkIsCovered
<1>1. BackupInv => WatermarkIsCovered
  BY DEF BackupInv
<1> QED  BY <1>1, BackupIsInductive, PTL

\* A recovery gives back every entry that the watermark covered when the store
\* was lost, in whatever order RestoreAllBackupsEncrypted loads the files.
THEOREM RecoveryTheorem == Spec => RecoveryKeepsBackedUp
<1>1. BackupInv /\ [Next]_vars =>
        [Adopt => \A k \in Key :
           (latest # Torn /\ db[k].version <= latest) => db'[k] = db[k]]_vars
  BY AdoptStep
<1> QED  BY <1>1, BackupIsInductive, PTL DEF Spec, RecoveryKeepsBackedUp
=============================================================================
