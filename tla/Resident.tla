-------------------------------- MODULE Resident --------------------------------
(***************************************************************************)
(* The recorded templates of resident sessions (src/src/resident.rs:       *)
(* prepare, load_config, serve).                                           *)
(*                                                                         *)
(* resident.prepare records the launch template of a session under its     *)
(* digest and answers with the path; the host starts resident.serve with   *)
(* that path whenever it needs the session's endpoint, perhaps much later  *)
(* and after a restart of the machine.  Preparations of one template may   *)
(* overlap: there is no lock, the first file of that name is as good as    *)
(* any.  A process may be killed, or fail, between two system calls; a     *)
(* power loss may undo what was not synced.                                *)
(*                                                                         *)
(* A template is its digest.  A record is whole, cut short by a power      *)
(* loss, or changed by somebody else.                                      *)
(***************************************************************************)
EXTENDS Naturals

CONSTANTS
  Processes,  \* provider processes, preparing or serving
  Templates,  \* admitted templates
  NoTemplate, \* a process that serves none
  MaxFaults   \* bound: deaths, power losses and changes together

ASSUME TemplateAssumption == NoTemplate \notin Templates /\ MaxFaults \in Nat

VARIABLES
  pc,       \* where each process is
  about,    \* the template it prepares or serves
  records,  \* names in the configs directory
  anchored, \* names whose directory entry is durable
  content,  \* what a record holds: "whole", "short" or "changed"
  solid,    \* names whose content is durable
  staged,   \* whether a process's temporary file is synced
  answered, \* history: templates whose path was answered to a host
  recorded, \* history: those answered by a process that wrote the record itself
  faults

storeVars == <<records, anchored, content, solid>>
historyVars == <<answered, recorded>>
residentVars == <<pc, about, storeVars, staged, historyVars, faults>>

Stages == {"idle", "check", "write", "sync", "rename", "sync_dir", "answer", "load", "serving"}
Contents == {"whole", "short", "changed"}

ResidentTypeOK ==
  /\ pc \in [Processes -> Stages]
  /\ about \in [Processes -> Templates \cup {NoTemplate}]
  /\ records \subseteq Templates /\ anchored \subseteq records
  /\ content \in [Templates -> Contents] /\ solid \subseteq Templates
  /\ staged \in [Processes -> BOOLEAN]
  /\ answered \subseteq Templates /\ recorded \subseteq answered
  /\ faults \in 0..MaxFaults
  /\ \A p \in Processes : pc[p] = "idle" <=> about[p] = NoTemplate

ResidentInit ==
  /\ pc = [p \in Processes |-> "idle"]
  /\ about = [p \in Processes |-> NoTemplate]
  /\ records = {} /\ anchored = {} /\ solid = {}
  /\ content = [t \in Templates |-> "whole"]
  /\ staged = [p \in Processes |-> FALSE]
  /\ answered = {} /\ recorded = {} /\ faults = 0

-----------------------------------------------------------------------------
Goto(p, from, to) == pc[p] = from /\ pc' = [pc EXCEPT ![p] = to]

\* The process exits; a temporary file it still had is of no consequence.
Leave(p) ==
  /\ pc' = [pc EXCEPT ![p] = "idle"]
  /\ about' = [about EXCEPT ![p] = NoTemplate]
  /\ staged' = [staged EXCEPT ![p] = FALSE]

-----------------------------------------------------------------------------
(* resident.prepare *)

Prepare(p, t) ==
  /\ Goto(p, "idle", "check")
  /\ about' = [about EXCEPT ![p] = t]
  /\ UNCHANGED <<storeVars, staged, historyVars, faults>>

\* path.is_file(): nothing is written, synced or read.
FindRecord(p) ==
  /\ Goto(p, "check", "answer")
  /\ about[p] \in records
  /\ UNCHANGED <<about, storeVars, staged, historyVars, faults>>

FindNone(p) ==
  /\ Goto(p, "check", "write")
  /\ about[p] \notin records
  /\ UNCHANGED <<about, storeVars, staged, historyVars, faults>>

WriteTemporary(p) ==
  /\ Goto(p, "write", "sync")
  /\ UNCHANGED <<about, storeVars, staged, historyVars, faults>>

\* Variant: the temporary file is renamed as it is.
SyncTemporarySkipped(p) ==
  /\ Goto(p, "sync", "rename")
  /\ UNCHANGED <<about, storeVars, staged, historyVars, faults>>

SyncTemporary(p) ==
  /\ Goto(p, "sync", "rename")
  /\ staged' = [staged EXCEPT ![p] = TRUE]
  /\ UNCHANGED <<about, storeVars, historyVars, faults>>

\* persist: the name may be there by now, from another process; it is replaced.
Rename(p) ==
  /\ Goto(p, "rename", "sync_dir")
  /\ records' = records \cup {about[p]}
  /\ content' = [content EXCEPT ![about[p]] = "whole"]
  /\ solid' = IF staged[p] THEN solid \cup {about[p]} ELSE solid \ {about[p]}
  /\ UNCHANGED <<about, anchored, staged, historyVars, faults>>

\* Variant: the name is not synced before its path is answered.
SyncDirectorySkipped(p) ==
  /\ Goto(p, "sync_dir", "answer")
  /\ UNCHANGED <<about, storeVars, staged, historyVars, faults>>

SyncDirectory(p) ==
  /\ Goto(p, "sync_dir", "answer")
  /\ anchored' = records
  /\ UNCHANGED <<about, records, content, solid, staged, historyVars, faults>>

\* The path that resident.serve is to be given: of the record this process staged,
\* or of one it found.
AnswerPath(p) ==
  /\ pc[p] = "answer"
  /\ answered' = answered \cup {about[p]}
  /\ recorded' = IF staged[p] THEN recorded \cup {about[p]} ELSE recorded
  /\ Leave(p)
  /\ UNCHANGED <<storeVars, faults>>

-----------------------------------------------------------------------------
(* resident.serve *)

Serve(p, t) ==
  /\ t \in answered
  /\ Goto(p, "idle", "load")
  /\ about' = [about EXCEPT ![p] = t]
  /\ UNCHANGED <<storeVars, staged, historyVars, faults>>

\* load_config: the content still has the digest the file is named for.
Matches(t) == t \in records /\ content[t] = "whole"

LoadConfig(p) ==
  /\ Goto(p, "load", "serving")
  /\ Matches(about[p])
  /\ UNCHANGED <<about, storeVars, staged, historyVars, faults>>

ConfigurationRefused(p) ==
  /\ pc[p] = "load" /\ ~Matches(about[p])
  /\ Leave(p)
  /\ UNCHANGED <<storeVars, historyVars, faults>>

\* The host closes the endpoint.
EndpointEnds(p) ==
  /\ pc[p] = "serving"
  /\ Leave(p)
  /\ UNCHANGED <<storeVars, historyVars, faults>>

-----------------------------------------------------------------------------
(* Faults *)

Fault == faults < MaxFaults /\ faults' = faults + 1 /\ UNCHANGED historyVars

Die(p) == Fault /\ pc[p] # "idle" /\ Leave(p) /\ UNCHANGED storeVars

\* Unsynced entries are lost or kept, each by itself.  A name whose entry was
\* durable when it was replaced stays: it names one of two files that differ
\* only if one was changed, which ChangeRecord may do to the file that stays.
PowerLoss ==
  /\ Fault
  /\ records' \in SUBSET records /\ anchored \subseteq records'
  /\ content' \in [Templates -> Contents]
  /\ \A t \in Templates : content'[t] \in {content[t]} \cup IF t \in solid THEN {} ELSE {"short"}
  /\ solid' = records' /\ anchored' = records'
  /\ pc' = [p \in Processes |-> "idle"]
  /\ about' = [p \in Processes |-> NoTemplate]
  /\ staged' = [p \in Processes |-> FALSE]

\* Somebody edits a record in place.
ChangeRecord(t) ==
  /\ Fault /\ t \in records
  /\ content' = [content EXCEPT ![t] = "changed"]
  /\ UNCHANGED <<pc, about, records, anchored, solid, staged>>

Step(p) ==
  \/ FindRecord(p) \/ FindNone(p) \/ WriteTemporary(p) \/ SyncTemporary(p)
  \/ Rename(p) \/ SyncDirectory(p) \/ AnswerPath(p)
  \/ LoadConfig(p) \/ ConfigurationRefused(p) \/ EndpointEnds(p)

ResidentNext ==
  \/ PowerLoss \/ \E t \in Templates : ChangeRecord(t)
  \/ \E p \in Processes : Step(p) \/ Die(p) \/ \E t \in Templates : Prepare(p, t) \/ Serve(p, t)

ResidentSpec == ResidentInit /\ [][ResidentNext]_residentVars

-----------------------------------------------------------------------------
(* Properties *)

\* A template whose path was answered by the process that wrote its record can be
\* served ever after, unless somebody changes the record: no power loss takes the
\* name or the content, although other preparations replace both meanwhile.
WrittenIsDurable == \A t \in recorded : t \in records /\ content[t] # "short"

\* Overlapping preparations of one template, deaths and power losses leave no
\* short record under a final name: prepare, which only asks whether the name
\* is there, would never mend it.
PublishedIsWhole == \A t \in records : content[t] # "short"

\* "records it durably": a path that was answered still names a record after a
\* loss of power.
RecordedIsDurable == answered \subseteq records
-----------------------------------------------------------------------------
(* The inductive invariant *)

\* Whatever has a final name, or is about to get it, is synced.
Synced ==
  /\ records \subseteq solid
  /\ \A p \in Processes : pc[p] = "rename" => staged[p]

\* A process that staged its record answers only when the name is durable.
Anchored ==
  /\ recorded \subseteq anchored
  /\ \A p \in Processes :
       /\ staged[p] => pc[p] \in {"rename", "sync_dir", "answer"}
       /\ pc[p] = "sync_dir" => about[p] \in records
       /\ pc[p] = "answer" /\ staged[p] => about[p] \in anchored

ResidentIInv == ResidentTypeOK /\ Synced /\ Anchored /\ PublishedIsWhole
=============================================================================
