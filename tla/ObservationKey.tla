--------------------------- MODULE ObservationKey ---------------------------
(***************************************************************************)
(* Publication of the key that authenticates observation cursors           *)
(* (src/src/session_turn_pages/observation.rs, key_with_observer and       *)
(* prepare_and_publish).                                                   *)
(*                                                                         *)
(* Any number of provider processes run `key` at once.  Everything happens *)
(* under an exclusive lock on the directory inode; a missing key is        *)
(* prepared in the one reserved slot key.preparing, synced, renamed to     *)
(* key, and no process returns the key before the file and the directory   *)
(* are synced.  A process may be killed, or fail on an I/O error, between  *)
(* any two system calls, and the host may lose power: the directory then   *)
(* comes back as any of the states it had since it was last synced, and an *)
(* unsynced file with any prefix of its bytes.                             *)
(*                                                                         *)
(* A file is identified with the 32 random bytes it is meant to hold, which*)
(* are drawn afresh by every preparation.                                  *)
(***************************************************************************)
EXTENDS Naturals

CONSTANTS Processes,   \* provider processes
          Candidates,  \* the random keys that may ever be drawn, and their files
          NoKey,       \* an empty directory slot
          NoOne,       \* a free lock
          MaxFaults    \* bound: process deaths and power losses together

ASSUME NoKeyAssumption == NoKey \notin Candidates
ASSUME NoOneAssumption == NoOne \notin Processes

VARIABLES
  pc,        \* where each process is in key()
  bearer,    \* whether its request carries a codex-obs1 token
  chosen,    \* the candidate a process prepares, or the key it has read
  lock,      \* holder of the directory inode's exclusive lock, or NoOne
  dir,       \* the directory as processes see it: slots key and prep
  onDisk,    \* the directory states a power loss may bring back
  written,   \* 0, 1 (a proper prefix) or 2 (all 32 bytes) of each file
  synced,    \* whether a file's present content is durable
  foreign,   \* files that are not private, regular and at most 32 bytes
  inherited, \* files an earlier process left in the directory
  drawn,     \* candidates drawn so far by this code
  granted,   \* history: every key returned to a caller
  faults     \* faults so far

vars == <<pc, bearer, chosen, lock, dir, onDisk, written, synced, foreign,
          inherited, drawn, granted, faults>>

disk == <<dir, onDisk, written, synced, foreign, inherited, drawn>>

Slot == Candidates \cup {NoKey}
Directory == [key : Slot, prep : Slot]
Stages == {"idle", "acquire", "probe", "recover", "create", "write",
           "sync_candidate", "rename", "validate", "sync_key", "sync_dir",
           "return"}
Preparing == {"recover", "create", "write", "sync_candidate", "rename"}
Confirming == {"sync_key", "sync_dir", "return"}
Holding == Stages \ {"idle", "acquire"}

TypeOK ==
  /\ pc \in [Processes -> Stages]
  /\ bearer \in [Processes -> BOOLEAN]
  /\ chosen \in [Processes -> Slot]
  /\ lock \in Processes \cup {NoOne}
  /\ dir \in Directory
  /\ onDisk \in SUBSET Directory
  /\ written \in [Candidates -> 0..2]
  /\ synced \in [Candidates -> BOOLEAN]
  /\ foreign \in SUBSET Candidates
  /\ inherited \in SUBSET Candidates
  /\ drawn \in SUBSET Candidates
  /\ granted \in SUBSET Candidates
  /\ faults \in Nat

(***************************************************************************)
(* A provider may start over a directory an earlier process left: nothing, *)
(* a residue in the preparation slot, a complete key, or the short key an  *)
(* older initializer stranded (observation.rs:166-168, 251-253).           *)
(***************************************************************************)
Init ==
  /\ pc = [p \in Processes |-> "idle"]
  /\ bearer = [p \in Processes |-> FALSE]
  /\ chosen = [p \in Processes |-> NoKey]
  /\ lock = NoOne
  /\ dir \in Directory
  /\ (dir.key # NoKey) => (dir.prep = NoKey)
  /\ onDisk = {dir}
  /\ inherited = {dir.key, dir.prep} \ {NoKey}
  /\ drawn = {}
  /\ \E n \in 0..2 : written = [c \in Candidates |-> IF c \in inherited THEN n ELSE 0]
  /\ synced = [c \in Candidates |-> c \in inherited]
  /\ foreign \in SUBSET inherited
  /\ granted = {}
  /\ faults = 0

Goto(p, from, to) == pc[p] = from /\ pc' = [pc EXCEPT ![p] = to]

\* An early return: the guard that holds the directory is dropped.
Leave(p) ==
  /\ pc' = [pc EXCEPT ![p] = "idle"]
  /\ chosen' = [chosen EXCEPT ![p] = NoKey]
  /\ lock' = NoOne

\* A directory change is visible at once and durable only after a sync.
ChangeDirectory(d) == dir' = d /\ onDisk' = onDisk \cup {d}

-----------------------------------------------------------------------------
Request(p) ==
  /\ Goto(p, "idle", "acquire")
  /\ \E b \in BOOLEAN : bearer' = [bearer EXCEPT ![p] = b]
  /\ UNCHANGED <<disk, chosen, lock, granted, faults>>

Acquire(p) ==
  /\ lock = NoOne
  /\ Goto(p, "acquire", "probe")
  /\ lock' = p
  /\ UNCHANGED <<disk, bearer, chosen, granted, faults>>

\* The final key exists: go and validate it, whatever it contains.
FindPublished(p) ==
  /\ Goto(p, "probe", "validate")
  /\ dir.key # NoKey
  /\ UNCHANGED <<disk, bearer, chosen, lock, granted, faults>>

\* A token was issued under a key that is gone: stale, never initialise.
RefuseBearer(p) ==
  /\ pc[p] = "probe" /\ dir.key = NoKey /\ bearer[p]
  /\ Leave(p)
  /\ UNCHANGED <<disk, bearer, granted, faults>>

BeginPreparation(p) ==
  /\ Goto(p, "probe", "recover")
  /\ dir.key = NoKey /\ ~bearer[p]
  /\ UNCHANGED <<disk, bearer, chosen, lock, granted, faults>>

\* Variant: any residue is an error, as it would be for create_new alone.
KeepResidue(p) ==
  /\ pc[p] = "recover"
  /\ IF dir.prep = NoKey THEN Goto(p, "recover", "create") /\ UNCHANGED <<chosen, lock>>
                         ELSE Leave(p)
  /\ UNCHANGED <<disk, bearer, granted, faults>>

\* A private residue of at most 32 bytes is discarded, even a complete one.
DiscardResidue(p) ==
  /\ Goto(p, "recover", "create")
  /\ dir.prep \notin foreign
  /\ IF dir.prep = NoKey THEN UNCHANGED <<dir, onDisk>>
                         ELSE ChangeDirectory([dir EXCEPT !.prep = NoKey])
  /\ UNCHANGED <<bearer, chosen, lock, written, synced, foreign, inherited,
                 drawn, granted, faults>>

RefuseResidue(p) ==
  /\ pc[p] = "recover" /\ dir.prep \in foreign
  /\ Leave(p)
  /\ UNCHANGED <<disk, bearer, granted, faults>>

\* create_new: fails when the slot is taken.
CreateCandidate(p) ==
  /\ Goto(p, "create", "write")
  /\ dir.prep = NoKey
  /\ \E c \in Candidates \ (inherited \cup drawn) :
       /\ drawn' = drawn \cup {c}
       /\ chosen' = [chosen EXCEPT ![p] = c]
       /\ ChangeDirectory([dir EXCEPT !.prep = c])
  /\ UNCHANGED <<bearer, lock, written, synced, foreign, inherited, granted,
                 faults>>

WriteSome(p) ==
  /\ pc[p] = "write" /\ written[chosen[p]] = 0
  /\ written' = [written EXCEPT ![chosen[p]] = 1]
  /\ UNCHANGED <<pc, bearer, chosen, lock, dir, onDisk, synced, foreign, inherited,
                 drawn, granted, faults>>

\* Variant: a retried write appends to what a partial one left.
WriteAllAppending(p) ==
  /\ Goto(p, "write", "sync_candidate")
  /\ written' = [written EXCEPT ![chosen[p]] = @ + 2]
  /\ UNCHANGED <<bearer, chosen, lock, dir, onDisk, synced, foreign, inherited,
                 drawn, granted, faults>>

WriteAll(p) ==
  /\ Goto(p, "write", "sync_candidate")
  /\ written' = [written EXCEPT ![chosen[p]] = 2]
  /\ UNCHANGED <<bearer, chosen, lock, dir, onDisk, synced, foreign, inherited,
                 drawn, granted, faults>>

\* Variant: rename before the candidate is synced.
SyncCandidateSkipped(p) ==
  /\ Goto(p, "sync_candidate", "rename")
  /\ UNCHANGED <<disk, bearer, chosen, lock, granted, faults>>

SyncCandidate(p) ==
  /\ Goto(p, "sync_candidate", "rename")
  /\ synced' = [synced EXCEPT ![chosen[p]] = TRUE]
  /\ UNCHANGED <<bearer, chosen, lock, dir, onDisk, written, foreign, inherited,
                 drawn, granted, faults>>

Rename(p) ==
  /\ Goto(p, "rename", "validate")
  /\ ChangeDirectory([key |-> dir.prep, prep |-> NoKey])
  /\ UNCHANGED <<bearer, chosen, lock, written, synced, foreign, inherited,
                 drawn, granted, faults>>

\* Variant: the length of the final key is not checked.
MalformedIgnoringLength(c) == c \in foreign

Malformed(c) == c \in foreign \/ written[c] # 2

ReadKey(p) ==
  /\ Goto(p, "validate", "sync_key")
  /\ ~Malformed(dir.key)
  /\ chosen' = [chosen EXCEPT ![p] = dir.key]
  /\ UNCHANGED <<disk, bearer, lock, granted, faults>>

\* Variant: a malformed final key is removed and prepared again.
RepairMalformed(p) ==
  /\ Goto(p, "validate", "recover")
  /\ Malformed(dir.key)
  /\ ChangeDirectory([dir EXCEPT !.key = NoKey])
  /\ UNCHANGED <<bearer, chosen, lock, written, synced, foreign, inherited,
                 drawn, granted, faults>>

\* Possibly damaged issued authority: an error, never a repair.
RefuseMalformed(p) ==
  /\ pc[p] = "validate" /\ Malformed(dir.key)
  /\ Leave(p)
  /\ UNCHANGED <<disk, bearer, granted, faults>>

SyncKey(p) ==
  /\ Goto(p, "sync_key", "sync_dir")
  /\ synced' = [synced EXCEPT ![chosen[p]] = TRUE]
  /\ UNCHANGED <<bearer, chosen, lock, dir, onDisk, written, foreign, inherited,
                 drawn, granted, faults>>

\* Variant: the directory is not synced before the key is returned.
SyncDirectorySkipped(p) ==
  /\ Goto(p, "sync_dir", "return")
  /\ UNCHANGED <<disk, bearer, chosen, lock, granted, faults>>

SyncDirectory(p) ==
  /\ Goto(p, "sync_dir", "return")
  /\ onDisk' = {dir}
  /\ UNCHANGED <<bearer, chosen, lock, dir, written, synced, foreign, inherited,
                 drawn, granted, faults>>

Return(p) ==
  /\ pc[p] = "return"
  /\ granted' = granted \cup {chosen[p]}
  /\ Leave(p)
  /\ UNCHANGED <<disk, bearer, faults>>

Step(p) ==
  \/ Acquire(p) \/ FindPublished(p) \/ RefuseBearer(p) \/ BeginPreparation(p)
  \/ DiscardResidue(p) \/ RefuseResidue(p) \/ CreateCandidate(p)
  \/ WriteSome(p) \/ WriteAll(p) \/ SyncCandidate(p) \/ Rename(p)
  \/ ReadKey(p) \/ RefuseMalformed(p) \/ SyncKey(p) \/ SyncDirectory(p)
  \/ Return(p)

-----------------------------------------------------------------------------
\* A process dies or its next system call fails: the kernel drops its lock
\* and what it wrote stays.
Die(p) ==
  /\ faults < MaxFaults
  /\ pc[p] # "idle"
  /\ pc' = [pc EXCEPT ![p] = "idle"]
  /\ chosen' = [chosen EXCEPT ![p] = NoKey]
  /\ lock' = IF lock = p THEN NoOne ELSE lock
  /\ faults' = faults + 1
  /\ UNCHANGED <<disk, bearer, granted>>

PowerLoss ==
  /\ faults < MaxFaults
  /\ dir' \in onDisk
  /\ onDisk' = {dir'}
  /\ written' \in [Candidates -> 0..2]
  /\ \A c \in Candidates :
       IF synced[c] THEN written'[c] = written[c] ELSE written'[c] <= written[c]
  /\ synced' = [c \in Candidates |-> TRUE]
  /\ pc' = [p \in Processes |-> "idle"]
  /\ chosen' = [p \in Processes |-> NoKey]
  /\ lock' = NoOne
  /\ faults' = faults + 1
  /\ UNCHANGED <<bearer, foreign, inherited, drawn, granted>>

\* Something outside the provider spoils the published file.
Damage ==
  /\ faults < MaxFaults
  /\ dir.key # NoKey /\ dir.key \notin foreign
  /\ foreign' = foreign \cup {dir.key}
  /\ faults' = faults + 1
  /\ UNCHANGED <<pc, bearer, chosen, lock, dir, onDisk, written, synced, inherited,
                 drawn, granted>>

Next ==
  \/ \E p \in Processes : Request(p) \/ Step(p) \/ Die(p)
  \/ PowerLoss
  \/ Damage

Spec == Init /\ [][Next]_vars

(***************************************************************************)
(* The provider binary runs to completion once started, and the kernel     *)
(* serves every waiter for the lock in the end; the host keeps observing   *)
(* the session, with fresh (tokenless) requests among its requests.        *)
(***************************************************************************)
FairSpec ==
  /\ Spec
  /\ \A p \in Processes :
       /\ WF_vars(Step(p))
       /\ SF_vars(Acquire(p))
       /\ SF_vars(Request(p) /\ ~bearer'[p])

-----------------------------------------------------------------------------
(* Properties.                                                             *)

\* Every key ever returned is the same key, and it is the one that every
\* power loss would bring back: no crash, race or damage makes a second
\* signing identity (key_with_observer, "Existing final authority is
\* immutable").
OneAuthority == \A k \in granted : \A d \in onDisk : d.key = k

\* A key that was returned is complete and durable, so that tokens signed
\* with it can be verified after any crash.
GrantedIsDurable == \A k \in granted : written[k] = 2 /\ synced[k]

\* Whatever this code publishes under the final name is complete on disk in
\* every state a power loss may bring back: it never strands a short key.
PublishedIsComplete ==
  \A d \in onDisk : d.key \in drawn => written[d.key] = 2 /\ synced[d.key]

\* The directory lock makes the requests take turns.
Exclusive ==
  \A p \in Processes : pc[p] \in Holding <=> lock = p

\* A final key, once in the directory, is only ever undone by a power loss,
\* and by none after some directory sync has made it durable.
KeyIsNeverReplaced ==
  [][dir.key # NoKey /\ dir'.key # dir.key =>
       dir'.key = NoKey /\ dir' \in onDisk /\ granted = {}]_vars

\* A residue left by a killed initializer never wedges the scope: unless
\* the reserved slot or the final key is not the provider's own private
\* file, some request is given a key in the end.
Usable == foreign = {} /\ (dir.key # NoKey => ~Malformed(dir.key))
Recovers == Usable ~> (granted # {} \/ ~Usable)

Authority ==
  IF \E k \in Candidates : \A d \in onDisk : d.key = k
    THEN CHOOSE k \in Candidates : \A d \in onDisk : d.key = k
    ELSE NoKey

Promise == INSTANCE SigningAuthority
             WITH Keys <- Candidates, authority <- Authority

\* Observation authentication implements a single write-once authority.
ImplementsAuthority == Promise!Spec
-----------------------------------------------------------------------------
(* The inductive invariant behind the theorems of ObservationKeyProofs.    *)

\* The visible directory may survive, and the others differ from it at most
\* by not having the key yet.
Survivors == dir \in onDisk /\ \A d \in onDisk : d.key \in {NoKey, dir.key}

\* While one process prepares there is no key; what it renames is durable.
Preparation ==
  \A p \in Processes :
    /\ pc[p] \in Preparing => dir.key = NoKey
    /\ pc[p] \in {"write", "sync_candidate", "rename"} =>
         chosen[p] \in drawn /\ dir.prep = chosen[p]
    /\ pc[p] \in {"sync_candidate", "rename"} => written[chosen[p]] = 2
    /\ pc[p] = "rename" => synced[chosen[p]]

\* What a process is about to return is the final key, ever more durably.
Confirmation ==
  \A p \in Processes :
    /\ pc[p] = "validate" => dir.key # NoKey
    /\ pc[p] \in Confirming =>
         chosen[p] = dir.key /\ dir.key # NoKey /\ written[dir.key] = 2
    /\ pc[p] \in {"sync_dir", "return"} => synced[dir.key]
    /\ pc[p] = "return" => onDisk = {dir}

IInv == /\ TypeOK /\ Exclusive /\ Survivors /\ Preparation /\ Confirmation
        /\ OneAuthority /\ GrantedIsDurable /\ PublishedIsComplete
=============================================================================
