--------------------------- MODULE StateStoreProofs ---------------------------
(***************************************************************************)
(* The files of the LIVE engine keep what DurableState promises, for every *)
(* number of saves, crashes and damaged files.                             *)
(*                                                                         *)
(* Neither the types nor DamageCostsOneSave is inductive: a power loss      *)
(* brings back the files of the last sync, in any combination.  StoreInv   *)
(* says the same of both pairs and across them, that a save in progress    *)
(* holds the newest version, and that no readable primary is older than    *)
(* what was acknowledged; while nothing is damaged, a missing primary then *)
(* means that nothing was ever acknowledged, which is why a start may go   *)
(* on to the backup and the temporary files.  What the backup must hold    *)
(* when the primary is lost depends on how far the save has come           *)
(* (BackupServes, BackupReady).                                            *)
(***************************************************************************)
EXTENDS StateStore, TLAPS

SavingPcs == {"backup", "backsync", "write", "rename", "sync"}

\* Nothing holds a version that was never in memory.
VersionsKnown ==
  /\ prior <= acked /\ acked <= newest /\ mem <= newest
  /\ primary <= newest /\ backup <= newest
  /\ synced.primary <= newest /\ synced.backup <= newest
  /\ temps # <<>> => Head(temps) <= newest

SaveIsNewest == pc \in SavingPcs => mem = newest /\ acked < newest

\* A primary that can be read, now or after a power loss, is no older than the last
\* save that returned.
PrimaryFresh ==
  /\ Readable(primary) => acked <= primary
  /\ Readable(synced.primary) => acked <= synced.primary
  /\ pc = "sync" /\ Readable(primary) => primary = mem

\* While no file has been damaged.
Intact ==
  damages = 0 =>
    /\ acked <= primary /\ acked <= synced.primary
    /\ 0 <= backup /\ 0 <= synced.backup
    /\ pc # "salvage"
    /\ pc = "search" => primary = Missing
    /\ pc = "sync" => primary = mem

\* Until a file is damaged both backups are no older than prior; after one damage they are,
\* or both primaries can be read.
BackupServes ==
  damages <= 1 /\ ~stale /\ prior > 0 =>
    \/ prior <= backup /\ prior <= synced.backup
    \/ damages = 1 /\ Readable(primary) /\ Readable(synced.primary)

\* During a save acked is about to become prior: a backup that has been renewed is ready
\* for it before the primary is replaced, and a primary damaged since leaves the backup.
BackupReady ==
  /\ pc = "backsync" /\ Readable(backup) => acked <= backup
  /\ pc \in {"write", "rename", "sync"} /\ damages = 0 /\ ~stale => acked <= backup
  /\ pc = "sync" /\ damages <= 1 /\ ~stale => Readable(primary) \/ acked <= backup

FilesInv == VersionsKnown /\ SaveIsNewest /\ PrimaryFresh /\ Intact
BackupInv == BackupServes /\ BackupReady
StoreInv == StoreTypeOK /\ FilesInv /\ BackupInv

\* StoreTypeOK without its Booleans, which the SMT solver does not take with the rest.
VersionsTyped ==
  /\ primary \in Files /\ backup \in Files
  /\ temps \in Seq(Versions)
  /\ synced \in [primary : Files, backup : Files]
  /\ mem \in 0..MaxVersion
  /\ newest \in 0..MaxVersion /\ acked \in 0..MaxVersion /\ prior \in 0..MaxVersion
  /\ pc \in {"down", "salvage", "search", "run", "backup", "backsync", "write", "rename",
             "sync"}
  /\ crashes \in 0..MaxCrashes /\ damages \in 0..MaxDamage

USE StoreAssumption

------------------------------------------------------------------------------
LEMMA StoreInit == Init => StoreInv
<1> SUFFICES ASSUME Init PROVE StoreInv
  OBVIOUS
<1>1. StoreTypeOK
  <2>1. temps \in Seq(Versions)
    BY DEF Init
  <2>2. VersionsTyped
    BY <2>1 DEF Init, VersionsTyped, Files
  <2>3. safe \in BOOLEAN /\ stale \in BOOLEAN
    BY DEF Init
  <2> QED
    BY <2>2, <2>3 DEF StoreTypeOK, VersionsTyped
<1>2. FilesInv
  BY DEF Init, FilesInv, VersionsKnown, SaveIsNewest, PrimaryFresh, Intact, Versions,
         Missing, Readable, SavingPcs
<1>3. BackupInv
  BY DEF Init, BackupInv, BackupServes, BackupReady, Versions, Missing, Readable
<1> QED
  BY <1>1, <1>2, <1>3 DEF StoreInv

\* Each invariant has a lemma with one case for each action.  First the types: numbers
\* and files, then the two Booleans.
LEMMA VersionsStep ==
  ASSUME VersionsTyped, SaveIsNewest, [Next]_vars
  PROVE  VersionsTyped'
<1> USE DEF VersionsTyped, Files, Versions, Missing, Damaged, Readable, files,
            returned, At, Failure
<1>1. CASE SaveBegins
  BY <1>1 DEF SaveBegins
<1>2. CASE SaveBackup
  BY <1>2 DEF SaveBackup
<1>3. CASE SaveBackupSync
  BY <1>3 DEF SaveBackupSync
<1>4. CASE SaveBackupFails
  BY <1>4 DEF SaveBackupFails
<1>5. CASE SaveWrite
  BY <1>5 DEF SaveWrite
<1>6. CASE SaveRename
  BY <1>6 DEF SaveRename
<1>7. CASE SaveSync
  BY <1>7 DEF SaveSync
<1>8. CASE SaveFails
  BY <1>8 DEF SaveFails
<1>9. CASE LoadPrimary
  BY <1>9 DEF LoadPrimary, Loaded
<1>10. CASE LoadQuarantine
  BY <1>10 DEF LoadQuarantine
<1>11. CASE LoadMissing
  BY <1>11 DEF LoadMissing
<1>12. CASE LoadBackup
  BY <1>12 DEF LoadBackup, Loaded, Searching
<1>13. CASE LoadTemp
  BY <1>13 DEF LoadTemp, Loaded, Searching
<1>14. CASE LoadNothing
  BY <1>14 DEF LoadNothing, Loaded, Searching
<1>15. CASE Exit
  BY <1>15 DEF Exit, Dies
<1>16. CASE Kill
  <2>1. CASE pc = "rename"
    <3>1. mem \in Versions /\ temps' = <<mem>> \o temps
      BY <1>16, <2>1 DEF Kill, SaveIsNewest, SavingPcs
    <3>2. temps' \in Seq(Versions)
      BY <3>1
    <3> QED
      BY <1>16, <3>2 DEF Kill, Dies
  <2>2. CASE pc # "rename"
    BY <1>16, <2>2 DEF Kill, Dies
  <2> QED
    BY <2>1, <2>2
<1>17. CASE PowerLoss
  BY <1>17 DEF PowerLoss, Dies
<1>18. CASE Break
  <2>1. primary' \in Files /\ backup' \in Files
    BY <1>18 DEF Break
  <2>2. synced' \in [primary : Files, backup : Files]
    BY <1>18 DEF Break
  <2>3. damages' \in 0..MaxDamage /\ UNCHANGED <<temps, mem, newest, acked, prior, pc, crashes>>
    BY <1>18 DEF Break
  <2> QED
    BY <2>1, <2>2, <2>3
<1>19. CASE UNCHANGED vars
  BY <1>19 DEF vars
<1> QED
  BY <1>1, <1>2, <1>3, <1>4, <1>5, <1>6, <1>7, <1>8, <1>9, <1>10, <1>11, <1>12, <1>13,
     <1>14, <1>15, <1>16, <1>17, <1>18, <1>19 DEF Next, Save, Load

LEMMA BooleansStep ==
  ASSUME safe \in BOOLEAN, stale \in BOOLEAN, [Next]_vars
  PROVE  safe' \in BOOLEAN /\ stale' \in BOOLEAN
  BY Zenon DEF Next, Save, Load, vars, returned, At,
         SaveBegins, SaveBackup, SaveBackupSync, SaveBackupFails, SaveWrite, SaveRename,
         SaveSync, SaveFails, LoadPrimary, LoadQuarantine, LoadMissing, LoadBackup,
         LoadTemp, LoadNothing, Loaded, Searching, Exit, Kill, PowerLoss, Dies, Break

LEMMA FilesStep ==
  ASSUME StoreTypeOK, FilesInv, [Next]_vars
  PROVE  FilesInv'
<1> USE DEF StoreTypeOK, FilesInv, VersionsKnown, SaveIsNewest, PrimaryFresh, Intact,
            Files, Versions, Missing, Damaged, Readable, SavingPcs, files, returned, At,
            Failure
<1>1. CASE SaveBegins
  BY <1>1 DEF SaveBegins
<1>2. CASE SaveBackup
  BY <1>2 DEF SaveBackup
<1>3. CASE SaveBackupSync
  BY <1>3 DEF SaveBackupSync
<1>4. CASE SaveBackupFails
  BY <1>4 DEF SaveBackupFails
<1>5. CASE SaveWrite
  BY <1>5 DEF SaveWrite
<1>6. CASE SaveRename
  BY <1>6 DEF SaveRename
<1>7. CASE SaveSync
  BY <1>7 DEF SaveSync
<1>8. CASE SaveFails
  BY <1>8 DEF SaveFails
<1>9. CASE LoadPrimary
  BY <1>9 DEF LoadPrimary, Loaded
<1>10. CASE LoadQuarantine
  BY <1>10 DEF LoadQuarantine
<1>11. CASE LoadMissing
  BY <1>11 DEF LoadMissing
<1>12. CASE LoadBackup
  BY <1>12 DEF LoadBackup, Loaded, Searching
<1>13. CASE LoadTemp
  BY <1>13 DEF LoadTemp, Loaded, Searching
<1>14. CASE LoadNothing
  BY <1>14 DEF LoadNothing, Loaded, Searching
<1>15. CASE Exit
  BY <1>15 DEF Exit, Dies
<1>16. CASE Kill
  BY <1>16 DEF Kill, Dies
<1>17. CASE PowerLoss
  BY <1>17 DEF PowerLoss, Dies
<1>18. CASE Break
  BY <1>18, SMTT(30) DEF Break
<1>19. CASE UNCHANGED vars
  BY <1>19 DEF vars
<1> QED
  BY <1>1, <1>2, <1>3, <1>4, <1>5, <1>6, <1>7, <1>8, <1>9, <1>10, <1>11, <1>12, <1>13,
     <1>14, <1>15, <1>16, <1>17, <1>18, <1>19 DEF Next, Save, Load

LEMMA BackupStep ==
  ASSUME StoreTypeOK, FilesInv, BackupInv, [Next]_vars
  PROVE  BackupInv'
<1> USE DEF StoreTypeOK, FilesInv, VersionsKnown, SaveIsNewest, PrimaryFresh, Intact,
            BackupInv, BackupServes, BackupReady, Files, Versions, Missing, Damaged,
            Readable, SavingPcs, files, returned, At, Failure
<1>1. CASE SaveBegins
  BY <1>1 DEF SaveBegins
<1>2. CASE SaveBackup
  <2>1. /\ backup' = primary /\ pc' = "backsync"
        /\ UNCHANGED <<primary, synced, prior, acked, damages>>
    BY <1>2 DEF SaveBackup
  <2>2. ~stale' => ~stale /\ Readable(primary)
    BY <1>2, Zenon DEF SaveBackup
  <2>3. BackupServes'
    BY <2>1, <2>2
  <2>4. BackupReady'
    BY <2>1
  <2> QED
    BY <2>3, <2>4
<1>3. CASE SaveBackupSync
  <2>1. /\ synced'.primary = primary /\ synced'.backup = backup
        /\ pc = "backsync" /\ pc' = "write"
        /\ UNCHANGED <<primary, backup, prior, acked, damages>>
    BY <1>3 DEF SaveBackupSync
  <2>2. ~stale' => Readable(backup)
    BY <1>3, Zenon DEF SaveBackupSync
  <2>3. BackupServes'
    BY <2>1, <2>2
  <2>4. BackupReady'
    BY <2>1, <2>2
  <2> QED
    BY <2>3, <2>4
<1>4. CASE SaveBackupFails
  BY <1>4 DEF SaveBackupFails
<1>5. CASE SaveWrite
  BY <1>5 DEF SaveWrite
<1>6. CASE SaveRename
  BY <1>6 DEF SaveRename
<1>7. CASE SaveSync
  BY <1>7 DEF SaveSync
<1>8. CASE SaveFails
  BY <1>8 DEF SaveFails
<1>9. CASE LoadPrimary
  BY <1>9 DEF LoadPrimary, Loaded
<1>10. CASE LoadQuarantine
  BY <1>10 DEF LoadQuarantine
<1>11. CASE LoadMissing
  BY <1>11 DEF LoadMissing
<1>12. CASE LoadBackup
  BY <1>12 DEF LoadBackup, Loaded, Searching
<1>13. CASE LoadTemp
  BY <1>13 DEF LoadTemp, Loaded, Searching
<1>14. CASE LoadNothing
  BY <1>14 DEF LoadNothing, Loaded, Searching
<1>15. CASE Exit
  BY <1>15 DEF Exit, Dies
<1>16. CASE Kill
  BY <1>16 DEF Kill, Dies
<1>17. CASE PowerLoss
  BY <1>17 DEF PowerLoss, Dies
<1>18. CASE Break
  <2>1. (damages' <= 1 => damages = 0 /\ damages' = 1) /\ damages' # 0
    BY <1>18 DEF Break
  <2>2. ~stale /\ damages = 0 =>
          /\ prior > 0 => prior <= backup /\ prior <= synced.backup
          /\ pc \in {"write", "rename", "sync"} => acked <= backup
    BY DEF Break
  <2>3. stale' = stale
    BY <1>18, Zenon DEF Break
  <2>4. CASE primary' = Damaged /\ backup' = backup
                /\ synced' = [synced EXCEPT !.primary = Damaged]
    <3>1. /\ synced'.primary = Damaged /\ synced'.backup = synced.backup
          /\ UNCHANGED <<prior, acked, pc, mem>>
      BY <1>18, <2>4 DEF Break
    <3>2. BackupServes'
      BY <2>1, <2>4, <2>2, <2>3, <3>1
    <3>3. BackupReady'
      BY <2>1, <2>4, <2>2, <2>3, <3>1
    <3> QED
      BY <3>2, <3>3
  <2>5. CASE backup' = Damaged /\ primary' = primary
                /\ synced' = [synced EXCEPT !.backup = Damaged]
    <3>1. /\ synced'.primary = synced.primary /\ synced'.backup = Damaged
          /\ UNCHANGED <<prior, acked, pc, mem>>
      BY <1>18, <2>5 DEF Break
    <3>2. BackupServes'
      BY <2>1, <2>5, <2>2, <2>3, <3>1
    <3>3. BackupReady'
      BY <2>1, <2>5, <2>2, <2>3, <3>1
    <3> QED
      BY <3>2, <3>3
  <2> QED
    BY <1>18, <2>4, <2>5 DEF Break
<1>19. CASE UNCHANGED vars
  BY <1>19 DEF vars
<1> QED
  BY <1>1, <1>2, <1>3, <1>4, <1>5, <1>6, <1>7, <1>8, <1>9, <1>10, <1>11, <1>12, <1>13,
     <1>14, <1>15, <1>16, <1>17, <1>18, <1>19 DEF Next, Save, Load

LEMMA StoreStep ==
  ASSUME StoreInv, [Next]_vars
  PROVE  StoreInv'
<1>1. VersionsTyped /\ safe \in BOOLEAN /\ stale \in BOOLEAN
  BY DEF StoreInv, StoreTypeOK, VersionsTyped
<1>2. VersionsTyped' /\ safe' \in BOOLEAN /\ stale' \in BOOLEAN
  BY <1>1, VersionsStep, BooleansStep DEF StoreInv, FilesInv
<1>3. StoreTypeOK'
  BY <1>2 DEF StoreTypeOK, VersionsTyped
<1>4. FilesInv' /\ BackupInv'
  BY FilesStep, BackupStep DEF StoreInv
<1> QED
  BY <1>3, <1>4 DEF StoreInv

LEMMA StoreInvariant == Spec => []StoreInv
  BY StoreInit, StoreStep, PTL DEF Spec

\* _save_locked and _load_state: every version on disk, in memory and acknowledged is
\* one whose save began, and a start always ends at a place the code has.
THEOREM StoreTypeCorrect == Spec => []StoreTypeOK
<1>1. StoreInv => StoreTypeOK
  BY DEF StoreInv
<1> QED
  BY <1>1, StoreInvariant, PTL

\* _save_locked and _load_state: after any kills and power losses, and damage to one file,
\* a start finds at least the save before the last that returned, unless the backup had
\* last not been renewed or from a damaged primary.
THEOREM DamageCostsLittle == Spec => []DamageCostsOneSave
<1>1. ASSUME StoreInv PROVE DamageCostsOneSave
  <2>1. temps # <<>> => Head(temps) \in Versions
    BY <1>1 DEF StoreInv, StoreTypeOK
  <2> QED
    BY <1>1, <2>1 DEF StoreInv, StoreTypeOK, FilesInv, BackupInv, VersionsKnown, PrimaryFresh,
       BackupServes, DamageCostsOneSave, OnDisk, Readable, Files, Versions, Missing, Damaged
<1> QED
  BY <1>1, StoreInvariant, PTL

------------------------------------------------------------------------------
(* The contract                                                             *)

\* The versions whose saves have begun since the last that returned.
Begun == {v \in Versions : v > acked /\ v <= newest}

\* What leaves the contract's variables alone.
Hidden == UNCHANGED <<mem, safe, acked, newest, damages>>

LEMMA HiddenIsStutter ==
  ASSUME Hidden
  PROVE  UNCHANGED <<mem, safe, acked, Begun, damages > 0>>
  BY DEF Hidden, Begun

LEMMA ContractInit == Init => Durable!DurableInit
  BY DEF Init, Durable!DurableInit, Versions

\* One case for each action, grouped by what it is to the contract.
LEMMA ContractStep ==
  ASSUME StoreInv, [Next]_vars
  PROVE  [Durable!DurableNext]_(Durable!durable)
<1> USE DEF StoreInv, FilesInv, StoreTypeOK, Files, Versions, Missing, Damaged, Readable,
            returned
<1>1. CASE SaveBegins
  <2>1. mem' = newest + 1 /\ newest' = newest + 1 /\ newest < MaxVersion
    BY <1>1 DEF SaveBegins
  <2>2. mem' > acked /\ \A v \in Begun : mem' > v
    BY <2>1 DEF VersionsKnown, Begun
  <2>3. Begun' = Begun \cup {mem'}
    BY <1>1, <2>1 DEF SaveBegins, VersionsKnown, Begun
  <2>4. Durable!BeginSave
    BY <1>1, <2>2, <2>3 DEF SaveBegins, Durable!BeginSave, Begun
  <2> QED
    BY <2>4 DEF Durable!DurableNext
<1>2. CASE SaveSync
  <2>1. mem = newest /\ acked < newest /\ acked' = mem /\ newest' = newest
    BY <1>2 DEF SaveSync, At, SaveIsNewest, SavingPcs
  <2>2. mem \in Begun /\ Begun' = {}
    BY <2>1 DEF Begun
  <2>3. Durable!EndSave
    BY <1>2, <2>1, <2>2 DEF SaveSync, Durable!EndSave, Begun
  <2> QED
    BY <2>3 DEF Durable!DurableNext
<1>3. CASE Hidden
  BY <1>3, HiddenIsStutter DEF Durable!durable, Begun
<1>4. CASE SaveBackup \/ SaveBackupSync \/ SaveBackupFails \/ SaveWrite \/ SaveRename \/ SaveFails
           \/ LoadQuarantine \/ LoadMissing \/ UNCHANGED vars
  <2>1. Hidden
    BY <1>4 DEF SaveBackup, SaveBackupSync, SaveBackupFails, SaveWrite, SaveRename,
                SaveFails, Failure,
                LoadQuarantine, LoadMissing, vars, Hidden
  <2> QED
    BY <2>1, <1>3
\* A start: mem' and safe' are new, the rest of the contract's variables is not.
<1>5. ASSUME UNCHANGED <<acked, newest, damages>>,
             \/ mem' = acked \/ mem' \in Begun
             \/ damages > 0 /\ mem' \in 1..acked /\ safe' = TRUE
             \/ damages > 0 /\ mem' = 0,
             safe' \in BOOLEAN
      PROVE  Durable!Start
  <2>1. Begun' = Begun /\ (damages > 0)' = (damages > 0)
    BY <1>5 DEF Begun
  <2> QED
    BY <1>5, <2>1, Zenon DEF Durable!Start, Begun
<1>6. CASE LoadPrimary
  <2>1. mem' = primary /\ safe' = FALSE /\ UNCHANGED <<acked, newest, damages>>
    BY <1>6 DEF LoadPrimary, Loaded
  <2>2. mem' = acked \/ mem' \in Begun
    BY <1>6, <2>1 DEF LoadPrimary, VersionsKnown, PrimaryFresh, Begun
  <2>3. safe' \in BOOLEAN
    BY <2>1
  <2> QED
    BY <1>5, <2>1, <2>2, <2>3 DEF Durable!DurableNext
<1>7. damages = 0 /\ Searching => primary = Missing /\ acked = 0
  BY DEF Searching, Intact
<1>8. CASE LoadBackup
  <2>1. mem' = backup /\ safe' = TRUE /\ UNCHANGED <<acked, newest, damages>>
    BY <1>8 DEF LoadBackup, Loaded
  <2>2. mem' \in Begun \/ mem' \in 1..acked
    BY <1>8, <2>1 DEF LoadBackup, VersionsKnown, Begun
  <2>3. mem' \in Begun \/ damages > 0
    BY <1>8, <1>7, <2>2 DEF LoadBackup
  <2>4. safe' \in BOOLEAN
    BY <2>1
  <2> QED
    BY <1>5, <2>1, <2>2, <2>3, <2>4 DEF Durable!DurableNext
<1>9. CASE LoadTemp
  <2>1. mem' = Head(temps) /\ safe' = TRUE /\ UNCHANGED <<acked, newest, damages>>
    BY <1>9 DEF LoadTemp, Loaded
  <2>2. mem' \in Versions /\ mem' <= newest
    BY <1>9, <2>1 DEF LoadTemp, VersionsKnown
  <2>3. mem' \in Begun \/ mem' \in 1..acked
    BY <2>2 DEF Begun
  <2>4. mem' \in Begun \/ damages > 0
    BY <1>9, <1>7, <2>2 DEF LoadTemp, Begun
  <2>5. safe' \in BOOLEAN
    BY <2>1
  <2> QED
    BY <1>5, <2>1, <2>3, <2>4, <2>5 DEF Durable!DurableNext
<1>10. CASE LoadNothing
  <2>1. mem' = 0 /\ UNCHANGED <<acked, newest, damages>>
    BY <1>10 DEF LoadNothing, Loaded
  <2>2. mem' = acked \/ damages > 0
    BY <1>10, <1>7, <2>1 DEF LoadNothing
  <2>3. safe' \in BOOLEAN
    BY <1>10, Zenon DEF LoadNothing, Loaded
  <2> QED
    BY <1>5, <2>1, <2>2, <2>3 DEF Durable!DurableNext
<1>11. CASE Exit \/ Kill \/ PowerLoss
  <2>1. mem' = 0 /\ safe' = FALSE /\ UNCHANGED <<acked, newest, damages>>
    BY <1>11 DEF Exit, Kill, PowerLoss, Dies
  <2>2. Begun' = Begun /\ (damages > 0)' = (damages > 0)
    BY <2>1 DEF Begun
  <2>3. Durable!Stop
    BY <2>1, <2>2, Zenon DEF Durable!Stop, Begun
  <2> QED
    BY <2>3 DEF Durable!DurableNext
<1>12. CASE Break
  <2>1. damages' = damages + 1 /\ UNCHANGED <<mem, safe, acked, newest>>
    BY <1>12 DEF Break
  <2>2. Begun' = Begun /\ (damages > 0)' = TRUE
    BY <2>1 DEF Begun
  <2>3. Durable!Damage
    BY <2>1, <2>2, Zenon DEF Durable!Damage, Begun
  <2> QED
    BY <2>3 DEF Durable!DurableNext
<1> QED
  BY <1>1, <1>2, <1>4, <1>6, <1>8, <1>9, <1>10, <1>11, <1>12 DEF Next, Save, Load

\* _save_locked and _load_state, system call by system call, implement DurableState:
\* a save that returned survives kills and power losses, and a start that finds less
\* than it promised is in SAFE MODE or finds nothing, and only after damage.
THEOREM StoreImplementsDurable == Spec => ImplementsDurable
  BY ContractInit, ContractStep, StoreInvariant, PTL
     DEF Spec, ImplementsDurable, Durable!DurableSpec
==============================================================================
