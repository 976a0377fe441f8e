--------------------------- MODULE LedgerStorage ---------------------------
(***************************************************************************)
(* The permission ledger of one profile and its snapshot files             *)
(* (extension_permission_ledger_storage.hpp).  A save writes a temporary   *)
(* file, makes the primary the backup and the temporary file the primary,  *)
(* each in a step of its own, so that the process can die or an operation  *)
(* fail between any two of them.  A snapshot file is what the next restore *)
(* can see of it: its profile, its leases, and whether its bytes are those *)
(* that were written.  The clock may step back.                            *)
(*                                                                         *)
(* Only the properties read no, completed, damages, setbacks and misreads: *)
(* they number the snapshots and count the saves that succeeded, the times *)
(* a primary was damaged, the times the clock stepped back, and the saves  *)
(* that could not read a good primary.                                     *)
(***************************************************************************)
EXTENDS ExtensionLedger, FiniteSets, Functions, Filtering

CONSTANTS
  Profile,       \* the profile whose ledger is saved
  Offers,        \* the leases the browser may issue, at clock 0
  MaxLeases,     \* kExtensionPermissionLedgerMaxPersistedLeases
  MaxWebsites,   \* kExtensionPermissionLedgerMaxWebsitesPerLease
  Failures,      \* file operations that may fail
  MaxClock, MaxSaves, MaxCrashes, MaxDamages, MaxSetbacks, MaxMisreads, \* bounds
  None

\* ExtensionPermissionLease; a lease is offered as it is before it was issued.
AnyLease == Leases(Nat, STRING, STRING, STRING, Nat)

ASSUME StorageAssumption ==
  /\ Profile \in STRING \ {""}
  /\ None \notin [no : Nat, profile : STRING, leases : Seq(AnyLease), intact : BOOLEAN]
  /\ Failures \subseteq {"read", "write", "backup", "remove", "rename", "rollback"}
  /\ {MaxLeases, MaxWebsites, MaxClock, MaxSaves, MaxCrashes,
      MaxDamages, MaxSetbacks, MaxMisreads} \subseteq Nat
  /\ MaxClock # 0

ASSUME OffersAssumption == \A offer \in Offers : offer \in AnyLease /\ Untimed(offer)

VARIABLES
  ledger,     \* the ledger in memory, a sequence of leases
  clock,
  primary, backup, temp,  \* the three files: None or a snapshot
  step,       \* where a save is: "down", "idle", "inspect", "backup", "remove", "rename"
              \* or "discard", a "remove" of a primary that could not be read
  kept,       \* primary_valid of the save in progress
  completed,  \* number of the last save that succeeded
  crashes,
  damages,    \* times the primary's bytes changed on disk
  setbacks,   \* times the clock was set back
  misreads    \* saves that could not read a primary they would have kept

vars == <<ledger, clock, primary, backup, temp, step, kept, completed, crashes,
          damages, setbacks, misreads>>

files == <<primary, backup, temp>>

Init ==
  /\ ledger = <<>> /\ clock = 1
  /\ primary = None /\ backup = None /\ temp = None
  /\ step = "idle" /\ kept = FALSE
  /\ completed = 0 /\ crashes = 0 /\ damages = 0 /\ setbacks = 0 /\ misreads = 0

----------------------------------------------------------------------------
(* Encoding and restoring                                                  *)

Durable(lease, now) ==
  /\ lease.active /\ ~lease.revoked /\ ~lease.consumed /\ lease.profile = Profile
  /\ \/ lease.lifetime = "always"
     \/ lease.lifetime = "one_hour" /\ now < lease.expires

Durables(now) == Filtered(ledger, {l \in Range(ledger) : Durable(l, now)})

HasDuplicateWebsites(lease) == Cardinality(Websites(lease)) < Len(lease.websites)

\* What keeps a whole snapshot from being encoded.
Encodable(leases, now) ==
  /\ Len(leases) <= MaxLeases
  /\ \A i \in DOMAIN leases :
       /\ ValidLease(leases[i])
       /\ leases[i].tab = "" /\ leases[i].session = ""
       /\ ~HasDuplicateWebsites(leases[i])
       /\ leases[i].lifetime = "one_hour" => leases[i].issued <= now
       /\ Len(leases[i].websites) <= MaxWebsites
       /\ Websites(leases[i]) \subseteq ValidSites

Snapshot(leases, no) == [no |-> no, profile |-> Profile, leases |-> leases, intact |-> TRUE]

\* The header and the checksum of a file.
Readable(file) == file # None /\ file.intact /\ file.profile = Profile

\* Whether restore accepts the leases of a readable file.
Restorable(file, now) ==
  /\ Readable(file)
  /\ Len(file.leases) <= MaxLeases
  /\ \A i, j \in DOMAIN file.leases : file.leases[i].id = file.leases[j].id => i = j
  /\ \A i \in DOMAIN file.leases :
       /\ ValidLease(file.leases[i])
       /\ file.leases[i].lifetime = "one_hour" => file.leases[i].issued <= now

\* The ledger a restore makes of it: what has expired is dropped.
Restored(file, now) ==
  Filtered(file.leases,
           {l \in Range(file.leases) : l.lifetime = "one_hour" => now < l.expires})

----------------------------------------------------------------------------
(* The ledger in memory, while no save is in progress                      *)

Storing ==
  <<primary, backup, temp, step, kept, completed, crashes, damages, setbacks, misreads>>

\* The browser issues one of the leases it offers; a one-hour lease starts now.
Grant ==
  /\ step = "idle"
  /\ \E offer \in Offers :
       LET lease == IF offer.lifetime = "one_hour"
                      THEN [offer EXCEPT !.issued = clock, !.expires = clock + Hour]
                      ELSE offer
       IN  CanAdd(ledger, lease) /\ ledger' = Added(ledger, lease)
  /\ UNCHANGED <<clock, Storing>>

Revoke ==
  /\ step = "idle"
  /\ \E i \in DOMAIN ledger : ~ledger[i].revoked /\ ledger' = Revoked(ledger, ledger[i].id)
  /\ UNCHANGED <<clock, Storing>>

RevokeProfile ==
  /\ step = "idle" /\ ledger # <<>>
  /\ ledger' = ProfileRevoked(ledger, Profile)
  /\ UNCHANGED <<clock, Storing>>

----------------------------------------------------------------------------
(* save_extension_permission_ledger                                        *)

SaveFrame == UNCHANGED <<ledger, clock, crashes>>

\* The save returns; the caller may go on.
Return(result) ==
  /\ step' = "idle"
  /\ kept' = FALSE
  /\ completed' = IF result = "saved" THEN temp.no ELSE completed

Fails(operation) == operation \in Failures

\* A ledger that cannot be encoded leaves the files alone.
SaveRefused ==
  /\ step = "idle"
  /\ ~Encodable(Durables(clock), clock)
  /\ UNCHANGED vars

\* The temporary file is replaced.
SaveWrite ==
  /\ step = "idle"
  /\ completed < MaxSaves
  /\ Encodable(Durables(clock), clock)
  /\ temp' = Snapshot(Durables(clock), completed + 1)
  /\ step' = "inspect"
  /\ UNCHANGED <<primary, backup, kept, completed, damages, setbacks, misreads>>
  /\ SaveFrame

SaveWriteFails ==
  /\ Fails("write") /\ step = "idle"
  /\ Encodable(Durables(clock), clock)
  /\ temp' = None
  /\ UNCHANGED <<primary, backup, step, kept, completed, damages, setbacks, misreads>>
  /\ SaveFrame

\* Mutant: the backup is never replaced.
SaveInspectKeepsBackup ==
  /\ step = "inspect"
  /\ kept' = (Restorable(primary, clock) /\ backup = None)
  /\ step' = IF kept' THEN "backup" ELSE IF primary # None THEN "remove" ELSE "rename"
  /\ UNCHANGED <<primary, backup, temp, completed, damages, setbacks, misreads>>
  /\ SaveFrame

\* The primary is read and restored to find out whether it is worth keeping; the
\* backup it is to replace is removed, and that may fail unnoticed.
SaveInspect ==
  /\ step = "inspect"
  /\ kept' = Restorable(primary, clock)
  /\ step' = IF kept' THEN "backup" ELSE IF primary # None THEN "remove" ELSE "rename"
  /\ \/ backup' = IF kept' THEN None ELSE backup
     \/ Fails("remove") /\ backup' = backup
  /\ UNCHANGED <<primary, temp, completed, damages, setbacks, misreads>>
  /\ SaveFrame

\* What cannot be read is not kept, good as it may be: a primary that could not be
\* found is replaced by the rename, and one that could not be read is removed.
SaveInspectFails ==
  /\ Fails("read") /\ step = "inspect"
  /\ kept' = FALSE
  /\ \/ step' = "rename"
     \/ primary # None /\ step' = "discard"
  /\ misreads' = IF Restorable(primary, clock) THEN misreads + 1 ELSE misreads
  /\ misreads' <= MaxMisreads
  /\ UNCHANGED <<primary, backup, temp, completed, damages, setbacks>>
  /\ SaveFrame

\* Mutant: the primary is removed and not kept.
SaveBackupDrops ==
  /\ step = "backup"
  /\ primary' = None
  /\ step' = "rename"
  /\ UNCHANGED <<backup, temp, kept, completed, damages, setbacks, misreads>>
  /\ SaveFrame

\* The old backup is gone; the primary takes its name.
SaveBackup ==
  /\ step = "backup"
  /\ backup' = primary /\ primary' = None
  /\ step' = "rename"
  /\ UNCHANGED <<temp, kept, completed, damages, setbacks, misreads>>
  /\ SaveFrame

SaveBackupFails ==
  /\ Fails("backup") /\ step = "backup"
  /\ temp' = None
  /\ Return("failed")
  /\ UNCHANGED <<primary, backup, damages, setbacks, misreads>>
  /\ SaveFrame

\* A primary that cannot be restored, or was not read, is removed, and the older
\* backup stays.
SaveRemove ==
  /\ step \in {"remove", "discard"}
  /\ primary' = None
  /\ step' = "rename"
  /\ UNCHANGED <<backup, temp, kept, completed, damages, setbacks, misreads>>
  /\ SaveFrame

SaveRemoveFails ==
  /\ Fails("remove") /\ step \in {"remove", "discard"}
  /\ temp' = None
  /\ Return("failed")
  /\ UNCHANGED <<primary, backup, damages, setbacks, misreads>>
  /\ SaveFrame

SaveRename ==
  /\ step = "rename"
  /\ primary' = temp /\ temp' = None
  /\ Return("saved")
  /\ UNCHANGED <<backup, damages, setbacks, misreads>>
  /\ SaveFrame

\* The rename fails: the backup becomes the primary again, if that succeeds.
SaveRenameFails ==
  /\ Fails("rename") /\ step = "rename"
  /\ temp' = None
  /\ \/ /\ kept
        /\ primary' = backup /\ backup' = None
     \/ /\ kept => Fails("rollback")
        /\ UNCHANGED <<primary, backup>>
  /\ Return("failed")
  /\ UNCHANGED <<damages, setbacks, misreads>>
  /\ SaveFrame

Save ==
  \/ SaveRefused \/ SaveWrite \/ SaveWriteFails \/ SaveInspect \/ SaveInspectFails
  \/ SaveBackup \/ SaveBackupFails \/ SaveRemove \/ SaveRemoveFails
  \/ SaveRename \/ SaveRenameFails

----------------------------------------------------------------------------
(* Process death, loading, and the world                                   *)

\* The process dies, in the middle of a save or not.
Crash ==
  /\ step # "down" /\ crashes < MaxCrashes
  /\ step' = "down" /\ ledger' = <<>> /\ kept' = FALSE
  /\ crashes' = crashes + 1
  /\ UNCHANGED <<clock, files, completed, damages, setbacks, misreads>>

\* The file a load takes its leases from: the primary, else the backup, else none;
\* each if it can be read.
Found(primaryRead, backupRead, now) ==
  IF primaryRead /\ Restorable(primary, now) THEN primary
  ELSE IF backupRead /\ Restorable(backup, now) THEN backup ELSE None

Loaded(now) == Found(TRUE, TRUE, now)

\* load_extension_permission_ledger.  A refused load gives an empty ledger, and
\* touches no file.
Load ==
  /\ step = "down"
  /\ \E primaryRead, backupRead \in {TRUE} \union {~Fails("read")} :
       LET found == Found(primaryRead, backupRead, clock) IN
         ledger' = IF found = None THEN <<>> ELSE Restored(found, clock)
  /\ step' = "idle"
  /\ UNCHANGED <<clock, files, kept, completed, crashes, damages, setbacks, misreads>>

Tick ==
  /\ clock < MaxClock
  /\ clock' = clock + 1
  /\ UNCHANGED <<ledger, Storing>>

\* The clock is set back while the process is not running.
ClockBack ==
  /\ step = "down" /\ setbacks < MaxSetbacks /\ clock > 1
  /\ clock' = clock - 1
  /\ setbacks' = setbacks + 1
  /\ UNCHANGED <<ledger, files, step, kept, completed, crashes, damages, misreads>>

\* The primary's bytes change on disk.
Damage ==
  /\ step \in {"idle", "down"} /\ damages < MaxDamages
  /\ primary # None /\ primary.intact
  /\ primary' = [primary EXCEPT !.intact = FALSE]
  /\ damages' = damages + 1
  /\ UNCHANGED <<ledger, clock, backup, temp, step, kept, completed, crashes, setbacks, misreads>>

World == Tick \/ ClockBack \/ Damage

Next == Grant \/ Revoke \/ RevokeProfile \/ Save \/ Crash \/ Load \/ World

Spec == Init /\ [][Next]_vars

----------------------------------------------------------------------------
(* Properties                                                              *)

\* Every variable keeps its type; the ledger holds valid issues of offers.
TypeOK ==
  /\ ledger \in Seq(AnyLease)
  /\ \A i \in DOMAIN ledger : \E offer \in Offers :
       \A f \in {"id", "permission", "profile", "scope", "lifetime", "websites"} :
         ledger[i][f] = offer[f]
  /\ clock \in 1..MaxClock
  /\ \A file \in {primary, backup, temp} :
       file # None => /\ file.no \in 1..MaxSaves
                      /\ \A i \in DOMAIN file.leases : Durable(file.leases[i], 0)
  /\ step \in {"down", "idle", "inspect", "backup", "remove", "discard", "rename"}
  /\ kept \in BOOLEAN
  /\ completed \in 0..MaxSaves
  /\ crashes \in 0..MaxCrashes /\ damages \in 0..MaxDamages
  /\ setbacks \in 0..MaxSetbacks /\ misreads \in 0..MaxMisreads

\* What may cost a snapshot: a damaged primary, a clock set back, a save that could
\* not read a good primary.
Losses == damages + setbacks + misreads

\* Once a save has succeeded, a readable snapshot is there at every later moment, in
\* the middle of a save and after any other failed file operation.
SnapshotSurvives == completed > 0 /\ Losses = 0 => Loaded(clock) # None

\* What a load finds, when it can read both files, is the last snapshot that was
\* saved, or one older for every loss since.
LoadIsRecent == Loaded(clock) # None => Loaded(clock).no >= completed - Losses

\* The files are good for a load at every moment: after a save there is a
\* snapshot to find, and what is found is not older than it need be.
FilesAreSound == TypeOK /\ SnapshotSurvives /\ LoadIsRecent

\* A save is atomic to a process that dies: after each of its steps a load finds the
\* snapshot it found before or the one that is being saved.  One step is not: it
\* discards a primary that the save could not read, which may be good.  (After the
\* clock was set back the primary may be refused when a save looks at it and would
\* be accepted again by the time it is removed.)
SaveIsAtomic ==
  [][Save /\ setbacks = 0 /\ step # "discard" =>
       Loaded(clock)' \in {Loaded(clock), temp}]_vars

\* EXTENSION_PERMISSION_LEDGER_STORAGE_V1.md:27 has it that recovery never
\* resurrects authorization: what a load returns was not revoked before the
\* last save.
NothingResurrected ==
  [][Load /\ primary # None /\ primary.no = completed =>
       \A i \in DOMAIN ledger' : \E j \in DOMAIN primary.leases :
         primary.leases[j].id = ledger'[i].id]_vars
=============================================================================
