------------------------------- MODULE Backups -------------------------------
(***************************************************************************)
(* Backups of the database file (lib/db/sqlite/backup.ts): one at boot and *)
(* one every intervalMs.  Each dumps the database into a file of its own,  *)
(* offers it to an off-site store, which has no time limit, and then       *)
(* deletes all but the newest files.  A crash leaves the file of a dump    *)
(* under way behind.                                                       *)
(*                                                                         *)
(* A backup is named by its place in the order of the time stamps: two do  *)
(* not start within the same second, and the clock of the machine does not *)
(* go back.                                                                *)
(***************************************************************************)
EXTENDS Naturals, FiniteSets

CONSTANTS
    Retention,  \* SQLITE_BACKUP_RETENTION
    Dumps,      \* dumps that can overlap: how many times intervalMs a dump may take
    MaxBackup   \* bound on the backups ever started

ASSUME BackupsAssumption ==
    /\ Retention \in Nat /\ Dumps \in Nat \ {0} /\ MaxBackup \in Nat
    /\ Dumps < Retention

VARIABLES
    file,     \* file[n]: the file of backup n
    backup,   \* backup[n]: how far it has come
    started,  \* how many have been started
    healthy,  \* what the scheduler knows of the last one settled
    failures, \* how many failed in a row
    alert,    \* the last alert sent since the boot
    offsite,  \* lastOffsiteResult
    secured   \* history: some backup has succeeded

backupVars == <<file, backup, started, healthy, failures, alert, offsite, secured>>

Name == 1..MaxBackup

(* Every variable has its type. *)
BackupsTypeOK ==
    /\ file \in [Name -> {"absent", "partial", "whole"}]
    /\ backup \in [Name -> {"none", "dump", "upload", "over"}]
    /\ started \in 0..MaxBackup
    /\ healthy \in {"unknown", "yes", "no"}
    /\ failures \in 0..MaxBackup
    /\ alert \in {"none", "error", "info"}
    /\ offsite \in {"none", "ok", "failed"}
    /\ secured \in BOOLEAN

BackupsInit ==
    /\ file = [n \in Name |-> "absent"]
    /\ backup = [n \in Name |-> "none"]
    /\ started = 0
    /\ healthy = "unknown" /\ failures = 0 /\ alert = "none" /\ offsite = "none"
    /\ secured = FALSE

-----------------------------------------------------------------------------
Listed(f) == {n \in Name : f[n] # "absent"}

(* selectBackupsToPrune: all but the Retention newest. *)
SelectBackupsToPrune(f) ==
    {n \in Listed(f) : Cardinality({m \in Listed(f) : m >= n}) > Retention}

(* The files after a pruning; a file that cannot be deleted stays.         *)
Pruned(f) ==
    {[n \in Name |-> IF n \in gone THEN "absent" ELSE f[n]] :
        gone \in SUBSET SelectBackupsToPrune(f)}

(* tick: a dump begins.  The file is there from its first page on.         *)
Begin(b, f) ==
    /\ started < MaxBackup
    /\ started' = started + 1
    /\ backup' = [b EXCEPT ![started + 1] = "dump"]
    /\ file' = [f EXCEPT ![started + 1] = "partial"]

BackupTick ==
    /\ started > 0
    /\ Cardinality({n \in Name : backup[n] = "dump"}) < Dumps
    /\ Begin(backup, file)
    /\ UNCHANGED <<healthy, failures, alert, offsite, secured>>

(* The process starts, for the first time or after a crash: what the       *)
(* scheduler knew is gone, the files are not.                              *)
Reboot ==
    /\ Begin([n \in Name |-> IF backup[n] = "none" THEN "none" ELSE "over"], file)
    /\ healthy' = "unknown" /\ failures' = 0 /\ alert' = "none" /\ offsite' = "none"
    /\ UNCHANGED secured

(* What the scheduler does with the outcome: an alert when the first one   *)
(* fails after another outcome or none, and one when the failures end.     *)
Settled(ok) ==
    /\ healthy' = IF ok THEN "yes" ELSE "no"
    /\ failures' = IF ok THEN 0 ELSE failures + 1
    /\ alert' = IF ok THEN (IF healthy = "no" THEN "info" ELSE alert)
                ELSE (IF healthy # "no" THEN "error" ELSE alert)
    /\ secured' = (secured \/ ok)

(* The dump fails, and the library removes its file; or the dump is there  *)
(* and cannot be read for its hash.                                        *)
DumpFails_Prunes(n) ==
    /\ backup[n] = "dump"
    /\ backup' = [backup EXCEPT ![n] = "over"]
    /\ \E f \in {"absent", "whole"} : file' \in Pruned([file EXCEPT ![n] = f])
    /\ Settled(FALSE)
    /\ UNCHANGED <<started, offsite>>
DumpFails(n) ==
    /\ backup[n] = "dump"
    /\ backup' = [backup EXCEPT ![n] = "over"]
    /\ \E f \in {"absent", "whole"} : file' = [file EXCEPT ![n] = f]
    /\ Settled(FALSE)
    /\ UNCHANGED <<started, offsite>>

DumpEnds(n) ==
    /\ backup[n] = "dump"
    /\ backup' = [backup EXCEPT ![n] = "upload"]
    /\ file' = [file EXCEPT ![n] = "whole"]
    /\ UNCHANGED <<started, healthy, failures, alert, offsite, secured>>

(* The off-site store, when there is one, has answered or failed; either   *)
(* way the backup has succeeded and the older files are pruned.            *)
UploadEnds(n) ==
    /\ backup[n] = "upload"
    /\ backup' = [backup EXCEPT ![n] = "over"]
    /\ offsite' \in {offsite, "ok", "failed"}
    /\ file' \in Pruned(file)
    /\ Settled(TRUE)
    /\ UNCHANGED started

BackupsNext ==
    \/ BackupTick \/ Reboot
    \/ \E n \in Name : DumpFails(n) \/ DumpEnds(n) \/ UploadEnds(n)

BackupsSpec == BackupsInit /\ [][BackupsNext]_backupVars

-----------------------------------------------------------------------------
(* Once a backup has succeeded there is a whole one on the volume, through *)
(* any crashes in the middle of dumps, failing dumps, uploads that end     *)
(* only when later backups have begun, and files that stay.  (The dumps    *)
(* that overlap must be fewer than the files that are kept: with one file  *)
(* kept, an upload that ends during the next dump deletes the only whole   *)
(* one.)                                                                   *)
WholeBackupRemains == secured => \E n \in Name : file[n] = "whole"
=============================================================================
