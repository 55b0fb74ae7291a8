--------------------------- MODULE ManagedTuiProofs ---------------------------
(***************************************************************************)
(* What holds of the installer, of the launch of a managed TUI and of its  *)
(* registrations for any number of releases, installers, failures, threads *)
(* and calls.  The installer, the launch and the registrations share no    *)
(* variable: each has a lemma that its steps keep its part of IInv, and    *)
(* the theorems put the parts together.                                    *)
(***************************************************************************)
EXTENDS ManagedTui, TLAPS

-----------------------------------------------------------------------------
(* The installer *)

\* The four targets, in order.
LEMMA OrderFacts ==
  /\ Len(Order) = 4 /\ DOMAIN Order = 1..4
  /\ \A i \in 1..4 : Order[i] \in Targets
  /\ \A i, j \in 1..4 : Order[i] = Order[j] => i = j
  /\ \A t \in Targets : \E i \in 1..4 : t = Order[i]
BY DEF Order, Targets

LEMMA InstalledIsDisk ==
  ASSUME NEW r \in Releases \cup {Absent}
  PROVE  Installed(r) \in Disks
BY DEF Installed, Disks, Contents

LEMMA InstallerFacts ==
  ASSUME InstallTypeOK
  PROVE  /\ installer.at \in {"idle", "copy", "reported"} \cup Working
         /\ installer.release \in Releases \cup {Absent} /\ installer.next \in 1..4
         /\ installer.backup \in Disks
BY OrderFacts DEF InstallTypeOK, Processes

LEMMA NothingIsDisk == Nothing \in Disks
BY DEF Nothing, Disks, Contents

\* Two disks that agree on every target, in order, are the same.
LEMMA SameDisk ==
  ASSUME NEW d \in Disks, NEW e \in Disks, \A i \in 1..4 : d[Order[i]] = e[Order[i]]
  PROVE  d = e
BY OrderFacts DEF Disks

InstallInv == InstallTypeOK /\ Progress /\ ReportIsTrue /\ Recoverable

\* Nobody installs.
LEMMA NobodyFacts ==
  /\ Nobody \in Processes /\ Nobody.at = "idle" /\ Nobody.report = "none"
BY OrderFacts, NothingIsDisk DEF Nobody, Process, Processes

LEMMA InstallInitInvariant == InstallInit => InstallInv
<1> SUFFICES ASSUME InstallInit PROVE InstallInv
  OBVIOUS
<1>1. InstallTypeOK
  BY InstalledIsDisk, NothingIsDisk, NobodyFacts DEF InstallInit, InstallTypeOK
<1>2. Progress /\ ReportIsTrue /\ Recoverable
  BY NobodyFacts DEF InstallInit, Progress, ReportIsTrue, Recoverable, Working
<1> QED BY <1>1, <1>2 DEF InstallInv

\* An installer that stops leaves what there was.
LEMMA NobodyInvariant ==
  ASSUME InstallInv, installer' = Nobody, UNCHANGED <<disk, backups, before, whole>>
  PROVE  InstallInv'
<1>1. InstallTypeOK'
  BY NobodyFacts DEF InstallInv, InstallTypeOK
<1>2. Progress' /\ ReportIsTrue' /\ Recoverable'
  BY NobodyFacts DEF InstallInv, Progress, ReportIsTrue, Recoverable, Working
<1> QED BY <1>1, <1>2 DEF InstallInv

\* An installer that starts knows nothing of what others have done.
LEMMA BeginInvariant ==
  ASSUME InstallInv, NEW r \in Releases, Begin(r)
  PROVE  InstallInv'
<1>1. installer' \in Processes
  BY OrderFacts, NothingIsDisk DEF Begin, Process, Processes
<1>2. installer'.at = "copy" /\ installer'.next = 1 /\ installer'.report = "none"
  BY DEF Begin, Process
<1>3. InstallTypeOK'
  BY <1>1 DEF Begin, InstallInv, InstallTypeOK
<1>4. Progress'
  <2>1. 1..(installer'.next - 1) = {}
    BY <1>2
  <2> QED BY <1>2, <2>1 DEF Begin, Progress, Working
<1>5. ReportIsTrue'
  BY <1>2 DEF ReportIsTrue
<1>6. Recoverable'
  BY DEF Begin, InstallInv, Recoverable
<1> QED BY <1>3, <1>4, <1>5, <1>6 DEF InstallInv

\* Another target is in the backup.
LEMMA CopiedFacts ==
  ASSUME InstallInv, installer.at = "copy"
  PROVE  /\ Copied \in Disks
         /\ \A i \in 1..installer.next : Copied[Order[i]] = disk[Order[i]]
         /\ installer.next = 4 => Copied = disk
<1>1. installer.next \in 1..4 /\ installer.backup \in Disks /\ disk \in Disks
  BY InstallerFacts DEF InstallInv, InstallTypeOK
<1>2. \A i \in 1..(installer.next - 1) : installer.backup[Order[i]] = disk[Order[i]]
  BY DEF InstallInv, Progress
<1>3. Copied \in Disks /\ \A i \in 1..installer.next : Copied[Order[i]] = disk[Order[i]]
  BY <1>1, <1>2, OrderFacts DEF Disks, Copied, Target
<1>4. ASSUME installer.next = 4 PROVE Copied = disk
  BY <1>1, <1>3, <1>4, SameDisk
<1> QED BY <1>3, <1>4

LEMMA CopyInvariant ==
  ASSUME InstallInv, Copy \/ CopyLast
  PROVE  InstallInv'
<1>1. /\ installer.next \in 1..4 /\ installer.release \in Releases \cup {Absent}
      /\ installer.at = "copy" /\ Len(Order) = 4
  BY InstallerFacts, OrderFacts DEF InstallInv, Copy, CopyLast
<1>2. CASE Copy
  <2>1. Copied \in Disks /\ \A i \in 1..installer.next : Copied[Order[i]] = disk[Order[i]]
    BY <1>1, CopiedFacts
  <2>2. installer.next + 1 \in 1..4
    BY <1>1, <1>2 DEF Copy
  <2>3. installer' \in Processes
    BY <1>1, <1>2, <2>1, <2>2 DEF Copy, Process, Processes
  <2>4. /\ installer'.at = "copy" /\ installer'.next = installer.next + 1
        /\ installer'.backup = Copied /\ installer'.report = "none"
    BY <1>2 DEF Copy, Process
  <2>5. InstallTypeOK'
    BY <1>2, <2>3 DEF Copy, Keep, InstallInv, InstallTypeOK
  <2>6. disk = before /\ disk' = disk /\ before' = before
    BY <1>1, <1>2 DEF Copy, Keep, InstallInv, Progress
  <2>7. \A i \in 1..(installer'.next - 1) : installer'.backup[Order[i]] = disk'[Order[i]]
    BY <1>1, <2>1, <2>4, <2>6
  <2>8. Progress'
    BY <2>4, <2>6, <2>7 DEF Progress, Working
  <2>9. ReportIsTrue' /\ Recoverable'
    BY <1>2, <2>4 DEF Copy, Keep, InstallInv, ReportIsTrue, Recoverable
  <2> QED BY <2>5, <2>8, <2>9 DEF InstallInv
<1>3. CASE CopyLast
  <2>1. Copied \in Disks /\ Copied = disk
    BY <1>1, <1>3, CopiedFacts DEF CopyLast
  <2>2. installer' \in Processes
    BY <1>1, <1>3, <2>1 DEF CopyLast, Process, Processes, Working
  <2>3. /\ installer'.at = "replace" /\ installer'.next = 1
        /\ installer'.backup = disk /\ installer'.report = "none"
    BY <1>3, <2>1 DEF CopyLast, Process
  <2>4. InstallTypeOK'
    BY <1>3, <2>1, <2>2 DEF CopyLast, Keep, InstallInv, InstallTypeOK
  <2>5. disk = before /\ whole' \in backups' /\ before' = before
    BY <1>1, <1>3, <2>1 DEF CopyLast, Keep, InstallInv, Progress, Recoverable
  <2>6. Progress'
    BY <2>3, <2>5 DEF Progress, Working
  <2>7. ReportIsTrue' /\ Recoverable'
    BY <2>3, <2>5 DEF ReportIsTrue, Recoverable
  <2> QED BY <2>4, <2>6, <2>7 DEF InstallInv
<1> QED BY <1>2, <1>3

\* From the first replacement on.
LEMMA WorkingFacts ==
  ASSUME InstallInv, installer.at \in Working
  PROVE  /\ installer.next \in 1..4 /\ installer.release \in Releases \cup {Absent}
         /\ disk \in Disks /\ before \in Disks /\ whole \in backups /\ backups \subseteq Disks
         /\ installer.backup = before /\ installer.report = "none"
         /\ Target \in Targets /\ \A i \in 1..(installer.next - 1) : Order[i] # Target
<1>1. installer.next \in 1..4 /\ installer.release \in Releases \cup {Absent}
  BY InstallerFacts DEF InstallInv
<1>2. Target \in Targets /\ \A i \in 1..(installer.next - 1) : Order[i] # Target
  BY <1>1, OrderFacts DEF Target
<1>3. /\ disk \in Disks /\ before \in Disks /\ backups \subseteq Disks
      /\ whole \in backups /\ installer.backup = before /\ installer.report = "none"
  BY DEF InstallInv, InstallTypeOK, Progress, Working
<1> QED BY <1>1, <1>2, <1>3

\* An installer at work that changes its target, and leaves the others.
LEMMA WorkInvariant ==
  ASSUME InstallInv, installer.at \in Working, NEW value \in Contents, Put(Target, value),
         UNCHANGED <<backups, before, whole>>,
         NEW at \in Working, NEW next \in 1..4, installer' = At(at, next),
         LET done == 1..(next - 1)
             release == Installed(installer.release)
         IN /\ at = "replace" => \A i \in done : disk'[Order[i]] = release[Order[i]]
            /\ at = "readback" => disk' = release
            /\ at \in {"remove", "put back"} => \A i \in done : disk'[Order[i]] = before[Order[i]]
            /\ at = "put back" /\ before[Order[next]] = Absent => disk'[Order[next]] = Absent
  PROVE  InstallInv'
<1>1. installer' \in Processes
  BY WorkingFacts, OrderFacts DEF At, Process, Processes
<1>2. /\ installer'.at = at /\ installer'.next = next /\ installer'.release = installer.release
      /\ installer'.backup = before /\ installer'.report = "none"
  BY WorkingFacts DEF At, Process
<1>3. disk' \in Disks
  BY WorkingFacts DEF Put, Disks
<1>4. InstallTypeOK'
  BY <1>1, <1>3 DEF InstallInv, InstallTypeOK
<1>5. whole' \in backups' /\ before' = before
  BY WorkingFacts
<1>6. Progress'
  BY <1>2, <1>5 DEF Progress, Target, Working
<1>7. ReportIsTrue' /\ Recoverable'
  BY <1>2, <1>5 DEF ReportIsTrue, Recoverable
<1> QED BY <1>4, <1>6, <1>7 DEF InstallInv

\* What an installer reports has to be so.
LEMMA ReportInvariant ==
  ASSUME InstallInv, installer.at \in {"copy"} \cup Working, UNCHANGED <<backups, before, whole>>,
         disk' \in Disks, whole \in {disk'} \cup backups,
         NEW what \in {"installed", "restored", "unchanged", "rollback failed"}, Report(what),
         what = "installed" => disk' = Installed(installer.release),
         what \in {"restored", "unchanged"} => disk' = before
  PROVE  InstallInv'
<1>1. installer' \in Processes
  BY InstallerFacts, OrderFacts DEF Report, InstallInv, Process, Processes
<1>2. /\ installer'.at = "reported" /\ installer'.report = what
      /\ installer'.release = installer.release
  BY DEF Report, Process
<1>3. InstallTypeOK'
  BY <1>1 DEF InstallInv, InstallTypeOK
<1>4. Progress'
  BY <1>2 DEF Progress, Working
<1>5. ReportIsTrue' /\ Recoverable'
  BY <1>2 DEF ReportIsTrue, Recoverable
<1> QED BY <1>3, <1>4, <1>5 DEF InstallInv

LEMMA ReplaceInvariant ==
  ASSUME InstallInv, Replace \/ MoveAway
  PROVE  InstallInv'
<1> DEFINE release == Installed(installer.release)
<1>1. installer.at = "replace" /\ installer.at \in Working
  BY DEF Replace, MoveAway, Working
<1>2. /\ installer.next \in 1..4 /\ disk \in Disks /\ release \in Disks
      /\ \A i \in 1..(installer.next - 1) : disk[Order[i]] = release[Order[i]] /\ Order[i] # Target
  BY <1>1, WorkingFacts, InstalledIsDisk DEF InstallInv, Progress
<1>3. release[Target] \in Contents
  BY <1>1, <1>2, WorkingFacts DEF Disks
<1>4. CASE Replace
  <2>1. Put(Target, release[Target]) /\ UNCHANGED <<backups, before, whole>>
    BY <1>4 DEF Replace, Keep
  <2>2. disk' \in Disks /\ \A i \in 1..installer.next : disk'[Order[i]] = release[Order[i]]
    BY <1>2, <1>3, <2>1, OrderFacts DEF Put, Disks, Target
  <2> HIDE DEF release
  <2>3. CASE installer.next = 4
    <3>1. disk' = release
      BY <1>2, <2>2, <2>3, SameDisk
    <3>2. installer' = At("readback", 4)
      BY <1>4, <2>3, OrderFacts DEF Replace, After
    <3>3. "readback" \in Working /\ 4 \in 1..4
      BY DEF Working
    <3> QED BY <1>1, <1>3, <2>1, <3>1, <3>2, <3>3, WorkInvariant DEF release
  <2>4. CASE installer.next # 4
    <3>1. installer.next + 1 \in 1..4
      BY <1>2, <2>4
    <3>2. installer' = At("replace", installer.next + 1)
      BY <1>4, <2>4, OrderFacts DEF Replace, After
    <3>3. \A i \in 1..((installer.next + 1) - 1) : disk'[Order[i]] = release[Order[i]]
      BY <1>2, <2>2
    <3> QED BY <1>1, <1>3, <2>1, <3>1, <3>2, <3>3, WorkInvariant DEF release, Working
  <2> QED BY <2>3, <2>4
<1>5. CASE MoveAway
  <2>1. Put(Target, Absent) /\ UNCHANGED <<backups, before, whole>> /\ Absent \in Contents
    BY <1>5 DEF MoveAway, Keep, Contents
  <2>2. \A i \in 1..(installer.next - 1) : disk'[Order[i]] = release[Order[i]]
    BY <1>2, <2>1, OrderFacts DEF Put, Disks
  <2>3. installer' = At("replace", installer.next)
    BY <1>1, <1>5, InstallerFacts, WorkingFacts DEF MoveAway, At, Process, InstallInv, InstallTypeOK, Processes
  <2> QED BY <1>1, <1>2, <2>1, <2>2, <2>3, WorkInvariant
<1> QED BY <1>4, <1>5

\* Restoring gets from path to path.
LEMMA RestoreInvariant ==
  ASSUME InstallInv, InPart \/ RemoveNew \/ PutBack
  PROVE  InstallInv'
<1>1. installer.at \in {"remove", "put back"} /\ installer.at \in Working
  BY DEF InPart, RemoveNew, PutBack, Working
<1>2. /\ installer.next \in 1..4 /\ disk \in Disks /\ before \in Disks /\ Target \in Targets
      /\ installer.backup = before
      /\ \A i \in 1..(installer.next - 1) : disk[Order[i]] = before[Order[i]] /\ Order[i] # Target
  BY <1>1, WorkingFacts DEF InstallInv, Progress
<1>3. UNCHANGED <<backups, before, whole>>
  BY DEF InPart, RemoveNew, PutBack, Keep
<1>4. Absent \in Contents /\ Partial \in Contents /\ before[Target] \in Contents
  BY <1>2 DEF Contents, Disks
<1>5. "remove" \in Working /\ "put back" \in Working
  BY DEF Working
<1>6. CASE InPart
  <2>1. installer' = At(installer.at, installer.next)
    BY <1>1, <1>6, InstallerFacts, WorkingFacts
    DEF InPart, At, Process, InstallInv, InstallTypeOK, Processes
  <2>2. Put(Target, Partial)
    BY <1>6 DEF InPart
  <2>3. \A i \in 1..(installer.next - 1) : disk'[Order[i]] = before[Order[i]]
    BY <1>2, <2>2, OrderFacts DEF Put, Disks
  <2>4. installer.at = "put back" => before[Target] # Absent
    BY <1>2, <1>6 DEF InPart, InstallInv, Progress
  <2> QED BY <1>1, <1>2, <1>3, <1>4, <2>1, <2>2, <2>3, <2>4, WorkInvariant DEF Target
<1>7. CASE RemoveNew
  <2>1. Put(Target, Absent) /\ installer' = At("put back", installer.next)
    BY <1>7 DEF RemoveNew
  <2>2. \A i \in 1..(installer.next - 1) : disk'[Order[i]] = before[Order[i]]
    <3>1. \A i \in 1..(installer.next - 1) : Order[i] \in Targets
      BY <1>2, OrderFacts
    <3> QED BY <1>2, <2>1, <3>1 DEF Put, Disks
  <2>3. disk'[Target] = Absent
    BY <1>2, <2>1 DEF Put, Disks
  <2> QED BY <1>1, <1>2, <1>3, <1>4, <1>5, <2>1, <2>2, <2>3, WorkInvariant DEF Target
<1>8. CASE PutBack
  <2>1. Put(Target, before[Target])
    BY <1>2, <1>8 DEF PutBack, InstallInv, Progress, Put, Disks
  <2>2. disk' \in Disks /\ \A i \in 1..installer.next : disk'[Order[i]] = before[Order[i]]
    BY <1>2, <1>4, <2>1, OrderFacts DEF Put, Disks, Target
  <2>3. CASE installer.next = 4
    <3>1. disk' = before
      BY <1>2, <2>2, <2>3, SameDisk
    <3>2. Report("restored")
      BY <1>8, <2>3, OrderFacts DEF PutBack, Restored
    <3>3. whole \in backups
      BY <1>1, WorkingFacts
    <3> QED BY <1>1, <1>3, <2>2, <3>1, <3>2, <3>3, ReportInvariant
  <2>4. CASE installer.next # 4
    <3>1. installer.next + 1 \in 1..4
      BY <1>2, <2>4
    <3>2. installer' = At("remove", installer.next + 1)
      BY <1>8, <2>4, OrderFacts DEF PutBack, Restored
    <3>3. \A i \in 1..((installer.next + 1) - 1) : disk'[Order[i]] = before[Order[i]]
      BY <1>2, <2>2
    <3> QED BY <1>1, <1>3, <1>4, <1>5, <2>1, <3>1, <3>2, <3>3, WorkInvariant
  <2> QED BY <2>3, <2>4
<1> QED BY <1>6, <1>7, <1>8

\* The steps that leave every path as it is.
LEMMA SettleInvariant ==
  ASSUME InstallInv, ReadBack \/ FailEarly \/ FailReplacing \/ FailRestoring
  PROVE  InstallInv'
<1>1. UNCHANGED <<disk, backups, before, whole>> /\ disk \in Disks /\ whole \in {disk} \cup backups
  BY DEF ReadBack, FailEarly, FailReplacing, FailRestoring, Keep, InstallInv, InstallTypeOK, Recoverable
<1>2. CASE ReadBack
  <2>1. Report("installed") /\ disk = Installed(installer.release) /\ installer.at \in Working
    BY <1>2 DEF ReadBack, Working
  <2> QED BY <1>1, <2>1, ReportInvariant
<1>3. CASE FailEarly
  <2>1. Report("unchanged") /\ installer.at = "copy" /\ disk = before
    BY <1>3 DEF FailEarly, InstallInv, Progress
  <2> QED BY <1>1, <2>1, ReportInvariant
<1>4. CASE FailRestoring
  <2>1. Report("rollback failed") /\ installer.at \in Working
    BY <1>4 DEF FailRestoring, Working
  <2> QED BY <1>1, <2>1, ReportInvariant
<1>5. CASE FailReplacing
  <2>1. installer.at \in Working /\ installer' = At("remove", 1)
    BY <1>5 DEF FailReplacing, Working
  <2>2. Put(Target, disk[Target]) /\ disk[Target] \in Contents
    BY <1>1, <2>1, WorkingFacts DEF Put, Disks
  <2>3. "remove" \in Working /\ 1 \in 1..4 /\ 1..(1 - 1) = {}
    BY DEF Working
  <2> QED BY <1>1, <2>1, <2>2, <2>3, WorkInvariant
<1> QED BY <1>2, <1>3, <1>4, <1>5

LEMMA InstallStepInvariant == InstallInv /\ InstallNext => InstallInv'
<1> SUFFICES ASSUME InstallInv, InstallNext PROVE InstallInv'
  OBVIOUS
<1>1. CASE \E r \in Releases : Begin(r)
  BY <1>1, BeginInvariant
<1>2. CASE Leave \/ Killed
  BY <1>2, NobodyInvariant DEF Leave, Killed, Keep
<1> QED BY <1>1, <1>2, CopyInvariant, ReplaceInvariant, RestoreInvariant, SettleInvariant
        DEF InstallNext

-----------------------------------------------------------------------------
(* The registrations *)

RegistrationInv == RegistrationTypeOK /\ Heard

LEMMA RegistrationInitInvariant == RegistrationInit => RegistrationInv
BY DEF RegistrationInit, RegistrationInv, RegistrationTypeOK, Heard, Quiet, Reporting

\* A step of one reporter's own, which gets from place to place.
LEMMA GotoInvariant ==
  ASSUME RegistrationInv, NEW p \in Reporters, reporter[p].at # "idle", Rest,
         NEW place \in {"registered", "failed", "dispatched", "report"}, Goto(p, place),
         place \in {"registered", "dispatched"} => reporter[p].id \in recorded
  PROVE  RegistrationInv'
<1> USE DEF RegistrationInv, RegistrationTypeOK, Goto, Rest
<1>1. RegistrationTypeOK'
  BY DEF Reporting
<1>2. Heard'
  BY DEF Heard
<1> QED BY <1>1, <1>2

LEMMA QuietInvariant ==
  ASSUME RegistrationInv, NEW p \in Reporters, reporter' = [reporter EXCEPT ![p] = Quiet], Rest
  PROVE  RegistrationInv'
BY DEF RegistrationInv, RegistrationTypeOK, Heard, Quiet, Rest, Reporting

LEMMA BeginsInvariant ==
  ASSUME RegistrationInv, NEW p \in Reporters, opened # NoThread,
         NEW place \in {"report", "failed"}, Begins(p, place),
         bound' \in Threads \cup {NoThread}, UNCHANGED <<resumed, opened, recorded>>
  PROVE  RegistrationInv'
<1> USE DEF RegistrationInv, RegistrationTypeOK, Begins, Quiet
<1>1. RegistrationTypeOK'
  BY DEF Reporting
<1>2. Heard'
  BY DEF Heard
<1> QED BY <1>1, <1>2

LEMMA RegistrationStepInvariant == RegistrationInv /\ RegistrationNext => RegistrationInv'
<1> SUFFICES ASSUME RegistrationInv, RegistrationNext PROVE RegistrationInv'
  OBVIOUS
<1> USE DEF Reporters
<1>1. ASSUME NEW t \in Threads, Open(t) \/ SwitchThread(t) PROVE RegistrationInv'
  BY <1>1 DEF Open, SwitchThread, RegistrationInv, RegistrationTypeOK, Heard
<1>2. CASE HookRuns
  BY <1>2, BeginsInvariant DEF HookRuns, Rest, RegistrationInv, RegistrationTypeOK
<1>3. CASE HookKilled \/ HookEnds
  BY <1>3, QuietInvariant DEF HookKilled, HookEnds
<1>4. ASSUME NEW c \in Calls, Call(c) PROVE RegistrationInv'
  BY <1>4, BeginsInvariant DEF Call, RegistrationInv, RegistrationTypeOK
<1>5. ASSUME NEW c \in Calls, Dispatch(c) PROVE RegistrationInv'
  BY <1>5, GotoInvariant DEF Dispatch, RegistrationInv, Heard
<1>6. ASSUME NEW c \in Calls, CallEnds(c) PROVE RegistrationInv'
  BY <1>6, QuietInvariant DEF CallEnds
<1>7. ASSUME NEW p \in Reporters PROVE RegistrationInv' \/ ~RegistrationStep(p)
  <2>1. CASE Connect(p)
    BY <2>1 DEF Connect, Rest, RegistrationInv, RegistrationTypeOK, Heard, Reporting
  <2>2. CASE Acknowledged(p)
    <3>1. reporter[p].id \in recorded
      BY <2>2 DEF Acknowledged, Exact, RegistrationInv, Heard
    <3> QED BY <2>2, <3>1, GotoInvariant DEF Acknowledged
  <2>3. CASE Timer(p)
    BY <2>3, GotoInvariant DEF Timer, Reporting
  <2> QED BY <2>1, <2>2, <2>3 DEF RegistrationStep
<1>8. ASSUME NEW p \in Reporters, ExchangeFails(p) PROVE RegistrationInv'
  BY <1>8, GotoInvariant DEF ExchangeFails
<1>9. ASSUME NEW p \in Reporters, Elapse(p) PROVE RegistrationInv'
  BY <1>9 DEF Elapse, Rest, RegistrationInv, RegistrationTypeOK, Heard, Reporting
<1>10. ASSUME NEW p \in Reporters, Record(p) PROVE RegistrationInv'
  <2>1. reporter[p].id \in Threads
    BY <1>10, SMT DEF Record, RegistrationInv, RegistrationTypeOK, Heard
  <2> QED BY <1>10, <2>1 DEF Record, RegistrationInv, RegistrationTypeOK, Heard
<1>11. ASSUME NEW p \in Reporters, NEW t \in Threads, Acknowledge(p, t) PROVE RegistrationInv'
  BY <1>11 DEF Acknowledge, Rest, RegistrationInv, RegistrationTypeOK, Heard, Reporting
<1> QED BY <1>1, <1>2, <1>3, <1>4, <1>5, <1>6, <1>7, <1>8, <1>9, <1>10, <1>11 DEF RegistrationNext
-----------------------------------------------------------------------------
(* The launch *)

TuiTypeOK ==
  /\ custom \in BOOLEAN
  /\ tui \in [at : {"none", "load", "check", "stage", "declare", "running"},
              release : Releases \cup {Absent}, private : Releases \cup {Absent},
              path : {"installed", "private"}]
  /\ loaded \in [Assets -> Contents \cup {Unread}]

TuiInv == TuiTypeOK /\ Staged /\ OneRelease

LEMMA TuiInitInvariant == Init => TuiInv
BY DEF Init, NoTui, TuiInv, TuiTypeOK, Staged, OneRelease

\* The launch reads the disk as it finds it; what is started later does not.
LEMMA TuiStepInvariant ==
  ASSUME TuiInv, InstallTypeOK, TuiNext
  PROVE  TuiInv'
<1> USE DEF TuiInv, TuiTypeOK
<1>1. CASE LaunchTui
  BY <1>1 DEF LaunchTui, NoTui, Staged, OneRelease
<1>2. CASE LoadConfig
  BY <1>2 DEF LoadConfig, Step, Staged, OneRelease
<1>3. CASE CheckCustom
  BY <1>3 DEF CheckCustom, Step, Staged, OneRelease
<1>4. CASE Publish
  BY <1>4 DEF Publish, Staged, OneRelease
<1>5. CASE DeclareAndExec
  BY <1>5 DEF DeclareAndExec, Step, Staged, OneRelease
<1>6. CASE Rejected
  BY <1>6 DEF Rejected, NoTui, Staged, OneRelease
<1>7. ASSUME NEW x \in Assets, Load(x) PROVE TuiInv'
  <2>1. Found = tui.release /\ Found \in Contents
    BY <1>7 DEF Load, Found, Staged, Contents
  <2> QED BY <1>7, <2>1 DEF Load, Staged, OneRelease
<1> QED BY <1>1, <1>2, <1>3, <1>4, <1>5, <1>6, <1>7 DEF TuiNext

-----------------------------------------------------------------------------
(* All of them together *)

LEMMA IInvIsTheParts == IInv <=> InstallInv /\ RegistrationInv /\ TuiInv
BY DEF IInv, TypeOK, InstallInv, RegistrationInv, TuiInv, TuiTypeOK

LEMMA Unchanging ==
  /\ InstallInv /\ UNCHANGED installVars => InstallInv'
  /\ RegistrationInv /\ UNCHANGED registrationVars => RegistrationInv'
  /\ TuiInv /\ UNCHANGED tuiVars => TuiInv'
<1>1. InstallInv /\ UNCHANGED installVars => InstallInv'
  BY DEF installVars, InstallInv, InstallTypeOK, Progress, ReportIsTrue, Recoverable, Target
<1>2. RegistrationInv /\ UNCHANGED registrationVars => RegistrationInv'
  BY DEF registrationVars, RegistrationInv, RegistrationTypeOK, Heard
<1>3. TuiInv /\ UNCHANGED tuiVars => TuiInv'
  BY DEF tuiVars, TuiInv, TuiTypeOK, Staged, OneRelease
<1> QED BY <1>1, <1>2, <1>3

\* The parts hold at the start, every step keeps them, and they hold for good.
THEOREM Inductive == Spec => []IInv
<1>1. Init => IInv
  BY InstallInitInvariant, RegistrationInitInvariant, TuiInitInvariant, IInvIsTheParts DEF Init
<1>2. IInv /\ [Next]_vars => IInv'
  <2> SUFFICES ASSUME IInv, [Next]_vars PROVE InstallInv' /\ RegistrationInv' /\ TuiInv'
    BY DEF IInv, TypeOK, InstallInv, RegistrationInv, TuiInv, TuiTypeOK
  <2>1. InstallInv /\ RegistrationInv /\ TuiInv /\ InstallTypeOK
    BY IInvIsTheParts DEF InstallInv
  <2>2. CASE InstallNext /\ UNCHANGED <<registrationVars, tuiVars>>
    BY <2>1, <2>2, InstallStepInvariant, Unchanging
  <2>3. CASE TuiNext /\ UNCHANGED <<installVars, registrationVars>>
    BY <2>1, <2>3, TuiStepInvariant, Unchanging
  <2>4. CASE RegistrationNext /\ UNCHANGED <<installVars, tuiVars>>
    BY <2>1, <2>4, RegistrationStepInvariant, Unchanging
  <2>5. CASE UNCHANGED vars
    BY <2>1, <2>5, Unchanging DEF vars
  <2> QED BY <2>2, <2>3, <2>4, <2>5 DEF Next
<1> QED BY <1>1, <1>2, PTL DEF Spec

\* The state keeps its types.
THEOREM TypesAreCorrect == Spec => []TypeOK
BY Inductive, PTL DEF IInv

\* What an installer reports is so, with any number of installers, releases and
\* failures, and whichever mixture a killed one has left.
THEOREM ReportsAreTrue == Spec => []ReportIsTrue
BY Inductive, PTL DEF IInv

\* The last entire installation is on disk or complete in one backup.
THEOREM LastInstallationIsRecoverable == Spec => []Recoverable
BY Inductive, PTL DEF IInv

\* A TUI is started with what is of the release of its own binary, whatever is
\* installed, half installed or restored in its lifetime.
THEOREM TuiHasOneRelease == Spec => []OneRelease
BY Inductive, PTL DEF IInv

\* A call is dispatched for a thread that the runner has recorded, whatever the
\* runner answered, whenever, and to whom.
THEOREM DispatchesAreRegistered == Spec => []DispatchIsRegistered
<1>1. IInv => DispatchIsRegistered
  BY DEF IInv, Heard, DispatchIsRegistered, Reporters
<1> QED BY <1>1, Inductive, PTL
=============================================================================
