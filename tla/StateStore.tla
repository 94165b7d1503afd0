------------------------------ MODULE StateStore ------------------------------
(***************************************************************************)
(* How live/engine.py keeps its state on disk: _save_locked copies the     *)
(* primary file over the backup and replaces the primary, both through a   *)
(* temporary file (_atomic_replace_bytes); _load_state reads the primary,  *)
(* else the backup, else the newest temporary file, and turns SAFE MODE on *)
(* when it had to.  The process may be killed or the machine lose power    *)
(* between any two system calls, a write may fail, and a file may be       *)
(* damaged.  LiveEngine treats a save as one step; this module is why.     *)
(*                                                                         *)
(* A file is the version of the state it holds, or Missing or Damaged.     *)
(* A rename that no directory fsync has followed may be undone by a power  *)
(* loss.  Temporary files cut short are unreadable and left out: there are *)
(* never more of them than the five _load_state looks at.                  *)
(***************************************************************************)
EXTENDS Integers, Sequences

CONSTANTS
  MaxVersion,   \* bound: saves begun
  MaxCrashes,   \* bound: crashes and failed writes (fewer than 5)
  MaxDamage     \* bound: damaged files

ASSUME StoreAssumption ==
  MaxVersion \in Nat \ {0} /\ MaxCrashes \in 0..4 /\ MaxDamage \in Nat

Missing == 0     \* loading it gives the empty state
Damaged == -1

Versions == 1..MaxVersion
Files    == Versions \cup {Missing, Damaged}

VARIABLES
  primary,   \* state.json
  backup,    \* state.prev.json
  temps,     \* complete .state.json.*.tmp files left behind, newest first
  synced,    \* primary and backup as of the last directory fsync
  mem,       \* version in memory
  safe,      \* SAFE MODE as the start left it
  newest,    \* highest version ever in memory
  acked,     \* last version whose _save_locked returned
  prior,     \* the one before (for the properties)
  stale,     \* backup was last not renewed, or from an unreadable primary (for the properties)
  pc,        \* next system call
  crashes, damages

files    == <<primary, backup, temps>>
returned == <<acked, prior>>
vars == <<files, synced, mem, safe, newest, returned, stale, pc, crashes, damages>>

Readable(f) == f \in Versions

StoreTypeOK ==
  /\ primary \in Files /\ backup \in Files
  /\ temps \in Seq(Versions)
  /\ synced \in [primary : Files, backup : Files]
  /\ mem \in 0..MaxVersion /\ safe \in BOOLEAN
  /\ newest \in 0..MaxVersion /\ acked \in 0..MaxVersion /\ prior \in 0..MaxVersion
  /\ stale \in BOOLEAN
  /\ pc \in {"down", "salvage", "search", "run", "backup", "backsync", "write", "rename",
             "sync"}
  /\ crashes \in 0..MaxCrashes /\ damages \in 0..MaxDamage

Init ==
  /\ primary = Missing /\ backup = Missing /\ temps = <<>>
  /\ synced = [primary |-> Missing, backup |-> Missing]
  /\ mem = 0 /\ safe = FALSE /\ newest = 0 /\ acked = 0 /\ prior = 0 /\ stale = FALSE
  /\ pc = "down" /\ crashes = 0 /\ damages = 0

At(p, q) == pc = p /\ pc' = q
Failure  == crashes < MaxCrashes /\ crashes' = crashes + 1

------------------------------------------------------------------------------
(* _save_locked                                                             *)

\* The state has changed; without a primary there is nothing to back up.
SaveBegins ==
  /\ At("run", IF primary = Missing THEN "write" ELSE "backup")
  /\ newest < MaxVersion
  /\ newest' = newest + 1 /\ mem' = newest + 1
  /\ UNCHANGED <<files, synced, safe, returned, stale, crashes, damages>>

\* Mutant: the primary is moved to the backup instead of copied.
SaveBackupMoved ==
  /\ At("backup", "backsync")
  /\ backup' = primary /\ primary' = Missing
  /\ stale' = (stale \/ ~Readable(primary))
  /\ UNCHANGED <<temps, synced, mem, safe, newest, returned, crashes, damages>>

\* Whatever the primary holds, readable or not, is renamed over the backup.
SaveBackup ==
  /\ At("backup", "backsync")
  /\ backup' = primary
  /\ stale' = (stale \/ ~Readable(primary))
  /\ UNCHANGED <<primary, temps, synced, mem, safe, newest, returned, crashes, damages>>

SaveBackupSync ==
  /\ At("backsync", "write")
  /\ synced' = [primary |-> primary, backup |-> backup]
  /\ stale' = ~Readable(backup)
  /\ UNCHANGED <<files, mem, safe, newest, returned, crashes, damages>>

\* An OSError before the backup's rename or of the directory fsync after it is swallowed.
SaveBackupFails ==
  /\ pc \in {"backup", "backsync"} /\ pc' = "write" /\ Failure
  /\ stale' = TRUE
  /\ UNCHANGED <<files, synced, mem, safe, newest, returned, damages>>

\* The temporary file is written and synced; until the rename it is only a candidate.
SaveWrite ==
  /\ At("write", "rename")
  /\ UNCHANGED <<files, synced, mem, safe, newest, returned, stale, crashes, damages>>

SaveRename ==
  /\ At("rename", "sync")
  /\ primary' = mem
  /\ UNCHANGED <<backup, temps, synced, mem, safe, newest, returned, stale, crashes, damages>>

\* Mutant: the directory is not synced.
SaveSyncSkipped ==
  /\ At("sync", "run")
  /\ acked' = mem /\ prior' = acked
  /\ UNCHANGED <<files, synced, mem, safe, newest, stale, crashes, damages>>

SaveSync ==
  /\ At("sync", "run")
  /\ synced' = [primary |-> primary, backup |-> backup]
  /\ acked' = mem /\ prior' = acked
  /\ UNCHANGED <<files, mem, safe, newest, stale, crashes, damages>>

\* A write of the primary fails: the temporary file is removed and the save raises.
SaveFails ==
  /\ pc \in {"write", "rename", "sync"} /\ pc' = "run" /\ Failure
  /\ UNCHANGED <<files, synced, mem, safe, newest, returned, stale, damages>>

Save == \/ SaveBegins \/ SaveBackup \/ SaveBackupSync \/ SaveBackupFails \/ SaveWrite
        \/ SaveRename \/ SaveSync \/ SaveFails

------------------------------------------------------------------------------
(* _load_state                                                              *)

Loaded(v, mode) == mem' = v /\ safe' = mode

\* Mutant: the primary is not validated.
LoadPrimaryUnchecked ==
  /\ At("down", "run") /\ primary # Missing
  /\ Loaded(primary, FALSE)
  /\ UNCHANGED <<files, synced, newest, returned, stale, crashes, damages>>

LoadPrimary ==
  /\ At("down", "run") /\ Readable(primary)
  /\ Loaded(primary, FALSE)
  /\ UNCHANGED <<files, synced, newest, returned, stale, crashes, damages>>

\* An unreadable primary is renamed out of the way.
LoadQuarantine ==
  /\ At("down", "salvage") /\ primary = Damaged
  /\ primary' = Missing
  /\ UNCHANGED <<backup, temps, synced, mem, safe, newest, returned, stale, crashes, damages>>

LoadMissing ==
  /\ At("down", "search") /\ primary = Missing
  /\ UNCHANGED <<files, synced, mem, safe, newest, returned, stale, crashes, damages>>

Searching == pc \in {"salvage", "search"} /\ pc' = "run"

LoadBackup ==
  /\ Searching /\ Readable(backup)
  /\ Loaded(backup, TRUE)
  /\ UNCHANGED <<files, synced, newest, returned, stale, crashes, damages>>

LoadTemp ==
  /\ Searching /\ ~Readable(backup) /\ temps # <<>>
  /\ Loaded(Head(temps), TRUE)
  /\ UNCHANGED <<files, synced, newest, returned, stale, crashes, damages>>

\* Nothing readable: the empty state, in SAFE MODE only if this start met some file.
LoadNothing ==
  /\ Searching /\ ~Readable(backup) /\ temps = <<>>
  /\ Loaded(0, pc = "salvage" \/ backup = Damaged)
  /\ UNCHANGED <<files, synced, newest, returned, stale, crashes, damages>>

Load == \/ LoadPrimary \/ LoadQuarantine \/ LoadMissing \/ LoadBackup \/ LoadTemp
        \/ LoadNothing

------------------------------------------------------------------------------
(* The environment                                                          *)

Dies == /\ pc' = "down" /\ mem' = 0 /\ safe' = FALSE
        /\ UNCHANGED <<newest, returned, stale, damages>>

\* stop: the process ends between two saves.
Exit == At("run", "down") /\ Dies /\ UNCHANGED <<files, synced, crashes>>

\* A complete temporary file that was not renamed yet stays behind.
Kill ==
  /\ pc # "down" /\ Dies /\ Failure
  /\ temps' = IF pc = "rename" THEN <<mem>> \o temps ELSE temps
  /\ UNCHANGED <<primary, backup, synced>>

PowerLoss ==
  /\ pc # "down" /\ Dies /\ Failure
  /\ primary' \in {primary, synced.primary}
  /\ backup' \in {backup, synced.backup}
  /\ synced' = [primary |-> primary', backup |-> backup']
  /\ UNCHANGED temps

Break ==
  /\ damages < MaxDamage /\ damages' = damages + 1
  /\ \/ /\ primary # Missing
        /\ primary' = Damaged /\ backup' = backup
        /\ synced' = [synced EXCEPT !.primary = Damaged]
     \/ /\ backup # Missing
        /\ backup' = Damaged /\ primary' = primary
        /\ synced' = [synced EXCEPT !.backup = Damaged]
  /\ UNCHANGED <<temps, mem, safe, newest, returned, stale, pc, crashes>>

Next == Save \/ Load \/ Exit \/ Kill \/ PowerLoss \/ Break

Spec == Init /\ [][Next]_vars

------------------------------------------------------------------------------
(* Properties                                                               *)

\* The version a start would take now.
OnDisk == IF Readable(primary) THEN primary
          ELSE IF Readable(backup) THEN backup
          ELSE IF temps # <<>> THEN Head(temps) ELSE 0

\* What the backup is for: damage to one file costs no more than the last returned save,
\* whichever kills and power losses there were, unless the last renewal of the backup
\* failed (which _save_locked tolerates) or copied a primary that was damaged already.
DamageCostsOneSave == damages <= 1 /\ ~stale => OnDisk >= prior

\* PRODUCTION_READINESS_REPORT.md:46, test_live_engine.py:502-513: a damaged primary
\* is recovered from the backup or a temporary file.
DamageIsRecovered == damages <= 1 /\ prior > 0 => OnDisk > 0

Durable == INSTANCE DurableState WITH
  held <- mem, locked <- safe, stored <- acked,
  pending <- {v \in Versions : v > acked /\ v <= newest}, damaged <- damages > 0

\* Every start finds what the last returned save wrote, or something newer, or, after
\* damage, something older in SAFE MODE.
ImplementsDurable == Durable!DurableSpec

\* HARDENED_LIVE_README_RU.md: a damaged state is not silently replaced by an empty one.
DamagedIsNotEmpty ==
  [][Searching /\ acked > 0 /\ mem' = 0 => safe']_vars
==============================================================================
