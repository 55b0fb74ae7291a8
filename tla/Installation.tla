------------------------------ MODULE Installation ------------------------------
(***************************************************************************)
(* The installer of the provider (src/scripts/install-provider.py: main,   *)
(* validate_existing_bash, copy_backup, restore_backup).                   *)
(*                                                                         *)
(* Four paths make an installation: the binary, the directory of           *)
(* integrations, the configuration and the link.  They are backed up and   *)
(* then replaced one after the other; an error puts the backup back, path  *)
(* by path.  Any step may fail, and the installer may be killed anywhere,  *)
(* so that the next one finds a mixture.                                   *)
(*                                                                         *)
(* Nothing is synced, and nothing promised of a power loss.  There is no   *)
(* lock: the model has one installer at a time, as the procedure in the    *)
(* README has.                                                             *)
(***************************************************************************)
EXTENDS Naturals, Sequences

CONSTANTS
  Releases,    \* releases that may be installed
  Absent,      \* nothing at a path
  Partial,     \* a file or directory that is removed or copied in part
  Linked,      \* the link to the installed binary
  MaxInstalls, \* bound: installers started
  MaxFailures  \* bound: failures and kills together

ASSUME InstallationAssumption == MaxInstalls \in Nat /\ MaxFailures \in Nat

VARIABLES
  disk,      \* [Targets -> what is installed there]
  installer, \* [at, release, next, backup, report] of the installer running
  backups,   \* complete backups that installers have left
  before,    \* history: what the installer found
  whole,     \* history: the last installation that was entire
  installs, failures

installVars == <<disk, installer, backups, before, whole, installs, failures>>

Order == <<"binary", "integrations", "config", "link">>
Targets == {Order[i] : i \in DOMAIN Order}

Installed(r) == [t \in Targets |-> IF t = "link" THEN Linked ELSE r]
Nothing == [t \in Targets |-> Absent]
Entire(d) == d = Nothing \/ \E r \in Releases : d = Installed(r)

Process(at, release, next, backup, report) ==
  [at |-> at, release |-> release, next |-> next, backup |-> backup, report |-> report]
Nobody == Process("idle", Absent, 1, Nothing, "none")
At(place, next) == Process(place, installer.release, next, installer.backup, "none")
Target == Order[installer.next]

InstallInit ==
  /\ disk \in {Nothing} \cup {Installed(r) : r \in Releases}
  /\ installer = Nobody /\ backups = {}
  /\ before = disk /\ whole = disk
  /\ installs = 0 /\ failures = 0

-----------------------------------------------------------------------------
(* The steps of main *)

Keep == UNCHANGED <<before, whole, installs, failures>>
Put(target, value) == disk' = [disk EXCEPT ![target] = value]

\* validate_existing_bash refuses integrations whose Bash it does not know, and
\* may know that of a directory that was copied in part.
Begin(r) ==
  /\ installer.at = "idle" /\ installs < MaxInstalls
  /\ installer' = Process("copy", r, 1, Nothing, "none")
  /\ before' = disk /\ whole' = IF Entire(disk) THEN disk ELSE whole
  /\ installs' = installs + 1
  /\ UNCHANGED <<disk, backups, failures>>

\* Variant: copies files and links, but no directories.
CopiedFiles ==
  [installer.backup EXCEPT ![Target] = IF Target = "integrations" THEN Absent ELSE disk[Target]]

\* copy_backup: a path that is absent leaves nothing in the backup.
Copied == [installer.backup EXCEPT ![Target] = disk[Target]]

Copy ==
  /\ installer.at = "copy" /\ installer.next < Len(Order)
  /\ installer' = Process("copy", installer.release, installer.next + 1, Copied, "none")
  /\ UNCHANGED <<disk, backups>> /\ Keep

CopyLast ==
  /\ installer.at = "copy" /\ installer.next = Len(Order)
  /\ installer' = Process("replace", installer.release, 1, Copied, "none")
  /\ backups' = backups \cup {Copied}
  /\ UNCHANGED disk /\ Keep

After(i) == IF i = Len(Order) THEN At("readback", i) ELSE At("replace", i + 1)

\* A file or the link is replaced by a rename over it.
Replace ==
  /\ installer.at = "replace" /\ (Target = "integrations" => disk[Target] = Absent)
  /\ Put(Target, Installed(installer.release)[Target])
  /\ installer' = After(installer.next)
  /\ UNCHANGED backups /\ Keep

\* A directory is moved into the staging area first.
MoveAway ==
  /\ installer.at = "replace" /\ Target = "integrations" /\ disk[Target] # Absent
  /\ Put(Target, Absent)
  /\ UNCHANGED <<installer, backups>> /\ Keep

Report(what) ==
  installer' = Process("reported", installer.release, installer.next, installer.backup, what)

ReadBack ==
  /\ installer.at = "readback" /\ disk = Installed(installer.release)
  /\ Report("installed")
  /\ UNCHANGED <<disk, backups>> /\ Keep

\* restore_backup removes and copies path by path, neither of them at once.
InPart ==
  /\ Target # "link" /\ disk[Target] # Partial
  /\ \/ installer.at = "remove" /\ disk[Target] # Absent
     \/ installer.at = "put back" /\ installer.backup[Target] # Absent
  /\ Put(Target, Partial)
  /\ UNCHANGED <<installer, backups>> /\ Keep

\* Variant: removes what will be put back, and leaves what is new.
RemoveReplaced ==
  /\ installer.at = "remove"
  /\ IF installer.backup[Target] = Absent THEN UNCHANGED disk ELSE Put(Target, Absent)
  /\ installer' = At("put back", installer.next)
  /\ UNCHANGED backups /\ Keep

RemoveNew ==
  /\ installer.at = "remove"
  /\ Put(Target, Absent)
  /\ installer' = At("put back", installer.next)
  /\ UNCHANGED backups /\ Keep

Restored(i) ==
  IF i = Len(Order) THEN Report("restored") ELSE installer' = At("remove", i + 1)

PutBack ==
  /\ installer.at = "put back"
  /\ IF installer.backup[Target] = Absent THEN UNCHANGED disk
     ELSE Put(Target, installer.backup[Target])
  /\ Restored(installer.next)
  /\ UNCHANGED backups /\ Keep

Leave ==
  /\ installer.at = "reported" /\ installer' = Nobody
  /\ UNCHANGED <<disk, backups>> /\ Keep

-----------------------------------------------------------------------------
(* What may go wrong *)

Failure == failures < MaxFailures /\ failures' = failures + 1

\* Before the first replacement an error changes nothing.
FailEarly ==
  /\ Failure /\ installer.at = "copy"
  /\ Report("unchanged")
  /\ UNCHANGED <<disk, backups, before, whole, installs>>

\* An OSError, ValueError or SubprocessError from the first replacement on,
\* readback included.
FailReplacing ==
  /\ Failure /\ installer.at \in {"replace", "readback"}
  /\ installer' = At("remove", 1)
  /\ UNCHANGED <<disk, backups, before, whole, installs>>

\* An OSError while restoring is reported with the place of the backup.
FailRestoring ==
  /\ Failure /\ installer.at \in {"remove", "put back"}
  /\ Report("rollback failed")
  /\ UNCHANGED <<disk, backups, before, whole, installs>>

\* The installer is killed or interrupted, which nothing restores.
Killed ==
  /\ Failure /\ installer.at \notin {"idle", "reported"}
  /\ installer' = Nobody
  /\ UNCHANGED <<disk, backups, before, whole, installs>>

InstallNext ==
  \/ \E r \in Releases : Begin(r)
  \/ Copy \/ CopyLast \/ Replace \/ MoveAway \/ ReadBack \/ InPart \/ RemoveNew \/ PutBack \/ Leave
  \/ FailEarly \/ FailReplacing \/ FailRestoring \/ Killed

-----------------------------------------------------------------------------
Contents == Releases \cup {Absent, Partial, Linked}
Disks == [Targets -> Contents]
Working == {"replace", "readback", "remove", "put back"}

Processes ==
  [at : {"idle", "copy", "reported"} \cup Working, release : Releases \cup {Absent},
   next : 1..Len(Order), backup : Disks,
   report : {"none", "installed", "restored", "unchanged", "rollback failed"}]

InstallTypeOK ==
  /\ disk \in Disks /\ before \in Disks /\ whole \in Disks /\ backups \subseteq Disks
  /\ installer \in Processes

\* How far the installer has come: paths before the one it is at are copied,
\* replaced or restored, and from the first replacement on it has a backup.
Progress ==
  LET done == 1..(installer.next - 1)
      release == Installed(installer.release)
  IN
  /\ installer.at # "reported" => installer.report = "none"
  /\ installer.at = "copy" =>
       disk = before /\ \A i \in done : installer.backup[Order[i]] = disk[Order[i]]
  /\ installer.at \in Working => installer.backup = before /\ whole \in backups
  /\ installer.at = "replace" => \A i \in done : disk[Order[i]] = release[Order[i]]
  /\ installer.at = "readback" => disk = release
  /\ installer.at \in {"remove", "put back"} => \A i \in done : disk[Order[i]] = before[Order[i]]
  /\ installer.at = "put back" /\ before[Target] = Absent => disk[Target] = Absent

\* What the installer reports is so: all four paths are of the release it says
\* it installed, or all are what they were before, the absent ones included,
\* also when it had to make good the mixture that a killed installer left.
ReportIsTrue ==
  /\ installer.report = "installed" => disk = Installed(installer.release)
  /\ installer.report \in {"restored", "unchanged"} => disk = before

\* The last entire installation is never lost: whatever failed or was killed
\* since, in whatever order, it is on disk or complete in one backup.
Recoverable == whole \in {disk} \cup backups
=============================================================================
