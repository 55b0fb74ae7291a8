---------------------------- MODULE StagingStore ----------------------------
(***************************************************************************)
(* The retained store behind canonical page tokens                         *)
(* (src/src/session_turn_pages.rs: StagingAdmission, stage_partial,        *)
(* persist, scan_pack, load).                                              *)
(*                                                                         *)
(* A token names a cursor by its digest.  Cursors are frames appended to   *)
(* packs (one pack per hash bucket); a cursor that stopped inside a record *)
(* depends on a staged prefix, a file of its own.  Every canonical request *)
(* holds an exclusive lock on the directory inode from before it loads its *)
(* token until it answers; a request of the observation projection only    *)
(* while it loads an old token.  Space is bounded: what is retained is     *)
(* measured afresh from the directory before anything is written, nothing  *)
(* is ever collected, and a request that does not fit is refused.          *)
(*                                                                         *)
(* A process may die between any two system calls, or in the middle of a   *)
(* write, and power may be lost: unsynced frames and unsynced directory    *)
(* entries may then be gone, and an append may be cut anywhere.            *)
(***************************************************************************)
EXTENDS Naturals, FiniteSets, Functions

CONSTANTS
  Processes,   \* provider processes
  Cursors,     \* contents of cursors, each with its digest
  NoCursor,    \* no token presented, or nothing to persist
  Buckets,     \* the first byte of a digest: names of packs
  Bucket,      \* [Cursors -> Buckets]
  Prefixes,    \* contents of unfinished records
  NoPrefix,    \* a cursor at a record boundary
  Needs,       \* [Cursors -> Prefixes \cup {NoPrefix}]
  NoOne,       \* a free lock
  Legacy,      \* cursors an earlier release kept as one file each
  Quantum,     \* 4096: allocation quantum and per-file allowance
  FrameLength, \* length of a frame
  PrefixLength,\* [Prefixes -> lengths]
  MaxBytes, MaxObjects,  \* STAGING_LIMITS
  MaxFaults    \* bound: process deaths and power losses together

ASSUME StoreAssumption ==
  /\ NoCursor \notin Cursors /\ NoPrefix \notin Prefixes /\ NoOne \notin Processes
  /\ IsFiniteSet(Cursors) /\ IsFiniteSet(Prefixes) /\ IsFiniteSet(Buckets)
  /\ Buckets \cap Prefixes = {}
  /\ Bucket \in [Cursors -> Buckets]
  /\ Needs \in [Cursors -> Prefixes \cup {NoPrefix}]
  /\ Legacy \subseteq Cursors
  /\ Quantum \in Nat \ {0} /\ FrameLength \in Nat \ {0}
  /\ PrefixLength \in [Prefixes -> Nat]
  /\ MaxBytes \in Nat /\ MaxObjects \in Nat

VARIABLES
  pc,        \* where each process is
  token,     \* the cursor whose token its request presents, or NoCursor
  goal,      \* the cursor its request arrives at; NoCursor for a load only
  lock,      \* holder of the directory lock, or NoOne
  packs,     \* buckets whose pack file exists
  frames,    \* complete frames in the packs
  torn,      \* [Buckets -> bytes of an interrupted frame at the pack's end]
  parts,     \* published prefixes
  orphans,   \* temporary files that dead processes left
  alien,     \* an entry that is not a regular file
  solid,     \* frames whose content is synced
  anchored,  \* packs and parts whose directory entry is synced
  issued,    \* history: cursors whose token was returned
  faults     \* faults so far

vars == <<pc, token, goal, lock, packs, frames, torn, parts, orphans, alien, solid,
          anchored, issued, faults>>
requestVars == <<token, goal>>
storeVars == <<packs, frames, torn, parts, orphans, alien, solid, anchored>>

Stages == {"idle", "acquire", "load", "stage", "reserve_part", "write_part",
           "rename_part", "sync_stage", "scan", "reserve_frame", "truncate",
           "append", "sync_pack", "sync_dir", "return"}
Holding == Stages \ {"idle", "acquire"}

TypeOK ==
  /\ pc \in [Processes -> Stages]
  /\ token \in [Processes -> Cursors \cup {NoCursor}]
  /\ goal \in [Processes -> Cursors \cup {NoCursor}]
  /\ lock \in Processes \cup {NoOne}
  /\ packs \in SUBSET Buckets
  /\ frames \in SUBSET Cursors
  /\ torn \in [Buckets -> 0..(FrameLength - 1)]
  /\ parts \in SUBSET Prefixes
  /\ orphans \in SUBSET [of : Prefixes, at : Nat, length : Nat]
  /\ alien \in BOOLEAN
  /\ solid \in SUBSET frames
  /\ anchored \in SUBSET (packs \cup parts)
  /\ issued \in SUBSET Cursors
  /\ faults \in Nat

\* The prefixes that legacy cursors need were published with them.
LegacyParts == {Needs[c] : c \in Legacy} \ {NoPrefix}

Init ==
  /\ pc = [p \in Processes |-> "idle"]
  /\ token = [p \in Processes |-> NoCursor]
  /\ goal = [p \in Processes |-> NoCursor]
  /\ lock = NoOne
  /\ packs = {} /\ frames = {} /\ solid = {}
  /\ torn = [b \in Buckets |-> 0]
  /\ parts = LegacyParts
  /\ anchored = parts
  /\ orphans = {}
  /\ alien \in BOOLEAN
  /\ issued = Legacy
  /\ faults = 0

-----------------------------------------------------------------------------
(* Accounting.                                                             *)

charged_bytes(len) == ((len + Quantum - 1) \div Quantum) * Quantum + Quantum

ValidEnd(b) == Cardinality({c \in frames : Bucket[c] = b}) * FrameLength
PhysicalLength(b) == ValidEnd(b) + torn[b]

\* Processes with a temporary file, which they are about to fill or rename.
Writing == {p \in Processes : pc[p] \in {"write_part", "rename_part"}}

PackBytes == SumFunction([b \in packs |-> charged_bytes(PhysicalLength(b))])
PartBytes(published) == SumFunction([d \in published |-> charged_bytes(PrefixLength[d])])
WritingBytes == SumFunction([p \in Writing |-> charged_bytes(PrefixLength[Needs[goal[p]]])])
OrphanBytes == SumFunction([o \in orphans |-> charged_bytes(o.length)])
LegacyCursorBytes == Cardinality(Legacy) * charged_bytes(FrameLength)

\* What the directory holds at this moment.
PublishedBytes == PackBytes + PartBytes(parts) + LegacyCursorBytes
PublishedObjects == Cardinality(packs) + Cardinality(parts) + Cardinality(Legacy)

RetainedBytes == PublishedBytes + WritingBytes + OrphanBytes
RetainedObjects == PublishedObjects + Cardinality(Writing) + Cardinality(orphans)

\* Variant: a ledger of what was published, which forgets interrupted writes.
FitsLedger(bytes, objects) ==
  /\ ~alien
  /\ PublishedBytes + bytes <= MaxBytes
  /\ PublishedObjects + objects <= MaxObjects

\* reserve_growth: one pending write fits beside everything retained.
Fits(bytes, objects) ==
  /\ ~alien
  /\ RetainedBytes + bytes <= MaxBytes
  /\ RetainedObjects + objects <= MaxObjects

\* Growth of a pack by one frame, after its torn tail is cut.
FrameGrowth(b) ==
  LET old == IF b \in packs THEN charged_bytes(PhysicalLength(b)) ELSE 0
      new == charged_bytes(ValidEnd(b) + FrameLength)
  IN  IF new > old THEN new - old ELSE 0

-----------------------------------------------------------------------------
(* One request.                                                            *)

Goto(p, from, to) == pc[p] = from /\ pc' = [pc EXCEPT ![p] = to]

\* Any answer: the request's guard is dropped.
Leave(p) ==
  /\ pc' = [pc EXCEPT ![p] = "idle"]
  /\ token' = [token EXCEPT ![p] = NoCursor]
  /\ goal' = [goal EXCEPT ![p] = NoCursor]
  /\ lock' = NoOne

\* Canonical paging arrives at a cursor; an observation only loads a token.
Request(p) ==
  /\ Goto(p, "idle", "acquire")
  /\ \E t \in Cursors \cup {NoCursor}, c \in Cursors \cup {NoCursor} :
       /\ ~(t = NoCursor /\ c = NoCursor)
       /\ token' = [token EXCEPT ![p] = t]
       /\ goal' = [goal EXCEPT ![p] = c]
  /\ UNCHANGED <<lock, storeVars, issued, faults>>

Acquire(p) ==
  /\ Goto(p, "acquire", "load")
  /\ lock = NoOne
  /\ lock' = p
  /\ UNCHANGED <<requestVars, storeVars, issued, faults>>

\* The cursor is found and its prefix readable.
Loadable(c) == c \in Legacy \cup frames /\ Needs[c] \in parts \cup {NoPrefix}

Load(p) ==
  /\ token[p] # NoCursor => Loadable(token[p])
  /\ goal[p] # NoCursor
  /\ Goto(p, "load", "stage")
  /\ UNCHANGED <<requestVars, lock, storeVars, issued, faults>>

ObserveToken(p) ==
  /\ pc[p] = "load" /\ goal[p] = NoCursor
  /\ Leave(p)
  /\ UNCHANGED <<storeVars, issued, faults>>

RefuseStale(p) ==
  /\ pc[p] = "load" /\ goal[p] # NoCursor
  /\ token[p] # NoCursor /\ ~Loadable(token[p])
  /\ Leave(p)
  /\ UNCHANGED <<storeVars, issued, faults>>

\* Variant: an existing prefix file is written again.
StagedAnew(p) == Needs[goal[p]] = NoPrefix

Staged(p) == Needs[goal[p]] \in parts \cup {NoPrefix}

SkipStaging(p) ==
  /\ Goto(p, "stage", "scan")
  /\ Staged(p)
  /\ UNCHANGED <<requestVars, lock, storeVars, issued, faults>>

StagePartial(p) ==
  /\ Goto(p, "stage", "reserve_part")
  /\ ~Staged(p)
  /\ UNCHANGED <<requestVars, lock, storeVars, issued, faults>>

PartFits(p) == Fits(charged_bytes(PrefixLength[Needs[goal[p]]]), 1)

\* reserve, then NamedTempFile::new_in.
ReservePart(p) ==
  /\ Goto(p, "reserve_part", "write_part")
  /\ PartFits(p)
  /\ UNCHANGED <<requestVars, lock, storeVars, issued, faults>>

RefusePart(p) ==
  /\ pc[p] = "reserve_part" /\ ~PartFits(p)
  /\ Leave(p)
  /\ UNCHANGED <<storeVars, issued, faults>>

\* write_all and sync_all of the private temporary file.
WritePart(p) ==
  /\ Goto(p, "write_part", "rename_part")
  /\ UNCHANGED <<requestVars, lock, storeVars, issued, faults>>

RenamePart(p) ==
  /\ Goto(p, "rename_part", "sync_stage")
  /\ parts' = parts \cup {Needs[goal[p]]}
  /\ UNCHANGED <<requestVars, lock, packs, frames, torn, orphans, alien, solid,
                 anchored, issued, faults>>

\* A sync of the directory makes every entry in it durable.
SyncDirectory(p, from, to) ==
  /\ Goto(p, from, to)
  /\ anchored' = packs \cup parts
  /\ UNCHANGED <<requestVars, lock, packs, frames, torn, parts, orphans, alien,
                 solid, issued, faults>>

SyncStage(p) == SyncDirectory(p, "sync_stage", "scan")

\* persist: a legacy file answers at once.
FindLegacy(p) ==
  /\ Goto(p, "scan", "return")
  /\ goal[p] \in Legacy
  /\ UNCHANGED <<requestVars, lock, storeVars, issued, faults>>

\* Variant: a complete frame is taken for a published one.
FindFrameUnsynced(p) ==
  /\ Goto(p, "scan", "return")
  /\ goal[p] \in frames \ Legacy
  /\ UNCHANGED <<requestVars, lock, storeVars, issued, faults>>

\* The frame may have been left unsynced by a process that died.
FindFrame(p) ==
  /\ Goto(p, "scan", "sync_pack")
  /\ goal[p] \in frames \ Legacy
  /\ UNCHANGED <<requestVars, lock, storeVars, issued, faults>>

FindNothing(p) ==
  /\ Goto(p, "scan", "reserve_frame")
  /\ goal[p] \notin frames \cup Legacy
  /\ UNCHANGED <<requestVars, lock, storeVars, issued, faults>>

FrameFits(p) ==
  LET b == Bucket[goal[p]]
  IN  Fits(FrameGrowth(b), IF b \in packs THEN 0 ELSE 1)

\* reserve_growth, then open the pack, creating it if it is absent.
ReserveFrame(p) ==
  /\ Goto(p, "reserve_frame", "truncate")
  /\ FrameFits(p)
  /\ packs' = packs \cup {Bucket[goal[p]]}
  /\ UNCHANGED <<requestVars, lock, frames, torn, parts, orphans, alien, solid,
                 anchored, issued, faults>>

RefuseFrame(p) ==
  /\ pc[p] = "reserve_frame" /\ ~FrameFits(p)
  /\ Leave(p)
  /\ UNCHANGED <<storeVars, issued, faults>>

\* Variant: a pack with a torn tail is started again.
RestartPack(p) ==
  /\ Goto(p, "truncate", "append")
  /\ torn' = [torn EXCEPT ![Bucket[goal[p]]] = 0]
  /\ IF torn[Bucket[goal[p]]] = 0
       THEN UNCHANGED <<frames, solid>>
       ELSE /\ frames' = {c \in frames : Bucket[c] # Bucket[goal[p]]}
            /\ solid' = solid \cap frames'
  /\ UNCHANGED <<requestVars, lock, packs, parts, orphans, alien, anchored, issued,
                 faults>>

\* Only an incomplete final frame is cut: no token can name it.
TruncateTail(p) ==
  /\ Goto(p, "truncate", "append")
  /\ torn' = [torn EXCEPT ![Bucket[goal[p]]] = 0]
  /\ UNCHANGED <<requestVars, lock, packs, frames, parts, orphans, alien, solid,
                 anchored, issued, faults>>

\* Variant: everything but the final newline counts as unfinished.
AppendAnything(p) ==
  /\ pc[p] = "append"
  /\ \E n \in 1..FrameLength : torn' = [torn EXCEPT ![Bucket[goal[p]]] = n]
  /\ UNCHANGED <<pc, requestVars, lock, packs, frames, parts, orphans, alien, solid,
                 anchored, issued, faults>>

AppendSome(p) ==
  /\ pc[p] = "append" /\ torn[Bucket[goal[p]]] = 0
  /\ \E n \in 1..(FrameLength - 1) : torn' = [torn EXCEPT ![Bucket[goal[p]]] = n]
  /\ UNCHANGED <<pc, requestVars, lock, packs, frames, parts, orphans, alien, solid,
                 anchored, issued, faults>>

AppendAll(p) ==
  /\ Goto(p, "append", "sync_pack")
  /\ torn' = [torn EXCEPT ![Bucket[goal[p]]] = 0]
  /\ frames' = frames \cup {goal[p]}
  /\ UNCHANGED <<requestVars, lock, packs, parts, orphans, alien, solid, anchored,
                 issued, faults>>

SyncPack(p) ==
  /\ Goto(p, "sync_pack", "sync_dir")
  /\ solid' = solid \cup {c \in frames : Bucket[c] = Bucket[goal[p]]}
  /\ UNCHANGED <<requestVars, lock, packs, frames, torn, parts, orphans, alien,
                 anchored, issued, faults>>

SyncPackDirectory(p) == SyncDirectory(p, "sync_dir", "return")

Return(p) ==
  /\ pc[p] = "return"
  /\ issued' = issued \cup {goal[p]}
  /\ Leave(p)
  /\ UNCHANGED <<storeVars, faults>>

Step(p) ==
  \/ Acquire(p) \/ Load(p) \/ ObserveToken(p) \/ RefuseStale(p)
  \/ SkipStaging(p) \/ StagePartial(p) \/ ReservePart(p) \/ RefusePart(p)
  \/ WritePart(p) \/ RenamePart(p) \/ SyncStage(p)
  \/ FindLegacy(p) \/ FindFrame(p) \/ FindNothing(p)
  \/ ReserveFrame(p) \/ RefuseFrame(p) \/ TruncateTail(p)
  \/ AppendSome(p) \/ AppendAll(p) \/ SyncPack(p) \/ SyncPackDirectory(p)
  \/ Return(p)

-----------------------------------------------------------------------------
(* Faults.                                                                 *)

\* A killed process leaves its temporary file, filled to any length; on an
\* error of a system call the file is removed as the request returns.
AbandonTemporary(p) ==
  \/ UNCHANGED orphans
  \/ /\ p \in Writing
     /\ \E n \in 0..PrefixLength[Needs[goal[p]]] :
          orphans' = orphans \cup {[of |-> Needs[goal[p]], at |-> faults, length |-> n]}

Die(p) ==
  /\ faults < MaxFaults
  /\ pc[p] # "idle"
  /\ pc' = [pc EXCEPT ![p] = "idle"]
  /\ token' = [token EXCEPT ![p] = NoCursor]
  /\ goal' = [goal EXCEPT ![p] = NoCursor]
  /\ lock' = IF lock = p THEN NoOne ELSE lock
  /\ faults' = faults + 1
  /\ AbandonTemporary(p)
  /\ UNCHANGED <<packs, frames, torn, parts, alien, solid, anchored, issued>>

\* Unsynced entries and frames are lost or kept, each by itself; an undone
\* rename brings the temporary name back.
PowerLoss ==
  /\ faults < MaxFaults
  /\ packs' \in SUBSET packs /\ packs \cap anchored \subseteq packs'
  /\ frames' \in SUBSET {c \in frames : Bucket[c] \in packs'}
  /\ {c \in solid : Bucket[c] \in packs'} \subseteq frames'
  /\ torn' \in [Buckets -> 0..(FrameLength - 1)]
  /\ \A b \in Buckets :
       /\ b \notin packs' => torn'[b] = 0
       /\ {c \in frames : Bucket[c] = b} \subseteq frames' => torn'[b] <= torn[b]
  /\ parts' \in SUBSET parts /\ parts \cap anchored \subseteq parts'
  /\ \E back \in SUBSET (parts \ parts') :
       orphans' = orphans \cup
         {[of |-> d, at |-> faults, length |-> PrefixLength[d]] : d \in back}
  /\ solid' = frames'
  /\ anchored' = packs' \cup parts'
  /\ pc' = [p \in Processes |-> "idle"]
  /\ token' = [p \in Processes |-> NoCursor]
  /\ goal' = [p \in Processes |-> NoCursor]
  /\ lock' = NoOne
  /\ faults' = faults + 1
  /\ UNCHANGED <<alien, issued>>

Next == PowerLoss \/ \E p \in Processes : Request(p) \/ Step(p) \/ Die(p)

Spec == Init /\ [][Next]_vars

-----------------------------------------------------------------------------
(* Properties.                                                             *)

\* A cursor whose token can be loaded after any power loss.
Durable(c) ==
  /\ \/ c \in Legacy
     \/ c \in frames \cap solid /\ Bucket[c] \in packs \cap anchored
  /\ Needs[c] \in (parts \cap anchored) \cup {NoPrefix}

\* Every token ever returned can be presented again, for ever: its frame and
\* the prefix it depends on are durable ("no replay dependency is
\* collected").  Deduplication must finish what a dead process began.
IssuedIsDurable == \A c \in issued : Durable(c)

\* No step, recovery of a torn pack or loss of power makes a durable cursor
\* less so ("Complete frames, even unreferenced ones, never expire").
DurableForever == [][\A c \in Cursors : Durable(c) => Durable(c)']_vars

\* Whatever dies, and however requests interleave, the directory stays
\* within STAGING_LIMITS, interrupted writes included, or within what an
\* earlier release left if that was more.
LegacyBytes == PartBytes(LegacyParts) + LegacyCursorBytes
LegacyObjects == Cardinality(LegacyParts) + Cardinality(Legacy)
WithinLimits ==
  /\ RetainedBytes <= MaxBytes \/ RetainedBytes <= LegacyBytes
  /\ RetainedObjects <= MaxObjects \/ RetainedObjects <= LegacyObjects

\* A request that arrives at a cursor it was already given the token of
\* never asks for space: replay works in a full store.
ReplayNeedsNoSpace ==
  \A p \in Processes :
    pc[p] \in {"reserve_part", "write_part", "rename_part", "reserve_frame",
               "truncate", "append"} => goal[p] \notin issued

-----------------------------------------------------------------------------
(* The inductive invariant behind the theorems of StagingStoreProofs.      *)

Exclusive == \A p \in Processes : pc[p] \in Holding <=> lock = p

\* A running request knows what it is about to publish is not there yet,
\* and what it is about to rely on is.
Publication ==
  \A p \in Processes :
    /\ pc[p] \in Holding \ {"load"} => goal[p] \in Cursors
    /\ pc[p] \in {"reserve_part", "write_part", "rename_part"} =>
         Needs[goal[p]] \in Prefixes \ parts
    /\ pc[p] \in {"sync_stage", "scan", "reserve_frame", "truncate", "append",
                  "sync_pack", "sync_dir", "return"} =>
         Needs[goal[p]] \in parts \cup {NoPrefix}
    /\ pc[p] \in {"reserve_frame", "truncate", "append"} =>
         goal[p] \notin frames \cup Legacy
    /\ pc[p] \in {"truncate", "append"} => Bucket[goal[p]] \in packs
    /\ pc[p] \in {"sync_pack", "sync_dir"} => goal[p] \in frames
    /\ pc[p] = "sync_dir" => goal[p] \in solid
    /\ pc[p] = "return" => Durable(goal[p])

FramesHavePacks == \A c \in frames : Bucket[c] \in packs

LegacyIsDurable == \A c \in Legacy : Durable(c)

\* The temporary file of an earlier fault is not that of the next one.
OrphansAreDistinct == IsFiniteSet(orphans) /\ \A o \in orphans : o.at < faults

TornPacksExist == \A b \in Buckets \ packs : torn[b] = 0

\* The room a request reserved for its frame is still there when it writes it.
Reserved ==
  \A p \in Processes :
    pc[p] \in {"truncate", "append"} => RetainedBytes + FrameGrowth(Bucket[goal[p]]) <= MaxBytes

Space == OrphansAreDistinct /\ TornPacksExist /\ Reserved /\ WithinLimits

IInv == /\ TypeOK /\ Exclusive /\ Publication /\ FramesHavePacks
        /\ LegacyIsDurable /\ IssuedIsDurable
=============================================================================
