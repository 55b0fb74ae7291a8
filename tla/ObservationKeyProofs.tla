------------------------ MODULE ObservationKeyProofs ------------------------
(***************************************************************************)
(* Theorems of ObservationKey, for any processes, candidates and faults.   *)
(* IInv is inductive: the lock makes one process at a time prepare or      *)
(* confirm, a preparation only runs while no directory that may survive    *)
(* holds a granted key, and a confirmation returns only the key that every *)
(* directory that may survive holds.                                       *)
(***************************************************************************)
EXTENDS ObservationKey, TLAPS

\* Until the final key exists nobody was given a key: what a preparation
\* does cannot disturb an authority.
LEMMA NoKeyNoGrant ==
  ASSUME IInv, dir.key = NoKey
  PROVE  granted = {}
BY NoKeyAssumption DEF IInv, TypeOK, Survivors, OneAuthority

\* The directories a provider may start over satisfy the invariant.
LEMMA InitInvariant == Init => IInv
<1> SUFFICES ASSUME Init PROVE IInv
  OBVIOUS
<1>1. TypeOK
  BY DEF Init, TypeOK, Directory, Slot, Stages
<1>2. Exclusive /\ Preparation /\ Confirmation
  BY NoOneAssumption
     DEF Init, Exclusive, Preparation, Confirmation, Holding, Preparing, Confirming, Stages
<1>3. Survivors /\ OneAuthority /\ GrantedIsDurable /\ PublishedIsComplete
  BY NoKeyAssumption
     DEF Init, Survivors, OneAuthority, GrantedIsDurable, PublishedIsComplete,
         Directory, Slot
<1> QED
  BY <1>1, <1>2, <1>3 DEF IInv

\* Each system call of key() preserves the invariant.
LEMMA StepInvariant ==
  ASSUME IInv, NEW p \in Processes, Step(p)
  PROVE  IInv'
<1> USE NoKeyAssumption, NoOneAssumption
    DEF IInv, TypeOK, Exclusive, Survivors, Preparation, Confirmation, OneAuthority,
        GrantedIsDurable, PublishedIsComplete, Stages, Holding, Preparing,
        Confirming, disk, Goto, Leave, Directory, Slot
<1>1. CASE Acquire(p)
  BY <1>1 DEF Acquire
<1>2. CASE FindPublished(p) \/ RefuseBearer(p) \/ BeginPreparation(p)
  BY <1>2 DEF FindPublished, RefuseBearer, BeginPreparation
<1>3. CASE DiscardResidue(p)
  BY <1>3 DEF DiscardResidue, ChangeDirectory
<1>4. CASE RefuseResidue(p) \/ RefuseMalformed(p)
  BY <1>4 DEF RefuseResidue, RefuseMalformed
<1>5. CASE CreateCandidate(p)
  <2>1. granted = {}
    BY <1>5, NoKeyNoGrant DEF CreateCandidate
  <2>2. PICK c \in Candidates \ (inherited \cup drawn) :
          /\ drawn' = drawn \cup {c}
          /\ chosen' = [chosen EXCEPT ![p] = c]
          /\ dir' = [dir EXCEPT !.prep = c]
          /\ onDisk' = onDisk \cup {dir'}
    BY <1>5 DEF CreateCandidate, ChangeDirectory
  <2>3. \A d \in onDisk' : d.key = NoKey
    BY <1>5, <2>2 DEF CreateCandidate
  <2> QED
    BY <1>5, <2>1, <2>2, <2>3 DEF CreateCandidate
<1>6. CASE WriteSome(p) \/ WriteAll(p)
  <2>1. granted = {} /\ \A d \in onDisk : d.key = NoKey
    BY <1>6, NoKeyNoGrant DEF WriteSome, WriteAll
  <2> QED
    BY <1>6, <2>1 DEF WriteSome, WriteAll
<1>7. CASE SyncCandidate(p)
  <2>1. \A c \in Candidates : synced[c] => synced'[c]
    BY <1>7 DEF SyncCandidate
  <2>2. TypeOK' /\ Exclusive' /\ Survivors' /\ Confirmation'
    BY <1>7 DEF SyncCandidate
  <2>3. OneAuthority' /\ GrantedIsDurable' /\ PublishedIsComplete'
    BY <1>7, <2>1 DEF SyncCandidate
  <2>4. Preparation'
    BY <1>7 DEF SyncCandidate
  <2> QED
    BY <2>2, <2>3, <2>4
<1>12. CASE SyncKey(p)
  <2>1. \A c \in Candidates : synced[c] => synced'[c]
    BY <1>12 DEF SyncKey
  <2>2. TypeOK' /\ Exclusive' /\ Survivors' /\ Preparation'
    BY <1>12 DEF SyncKey
  <2>3. OneAuthority' /\ GrantedIsDurable' /\ PublishedIsComplete'
    BY <1>12, <2>1 DEF SyncKey
  <2>4. Confirmation'
    BY <1>12 DEF SyncKey
  <2> QED
    BY <2>2, <2>3, <2>4
<1>8. CASE Rename(p)
  <2>1. granted = {} /\ dir.prep \in drawn /\ written[dir.prep] = 2 /\ synced[dir.prep]
    BY <1>8, NoKeyNoGrant DEF Rename
  <2>2. dir' = [key |-> dir.prep, prep |-> NoKey] /\ onDisk' = onDisk \cup {dir'}
    BY <1>8 DEF Rename, ChangeDirectory
  <2>3. TypeOK' /\ Exclusive'
    BY <1>8, <2>2 DEF Rename
  <2>4. Survivors' /\ OneAuthority' /\ GrantedIsDurable' /\ PublishedIsComplete'
    BY <1>8, <2>1, <2>2 DEF Rename
  <2>5. Preparation' /\ Confirmation'
    BY <1>8, <2>1, <2>2 DEF Rename
  <2> QED
    BY <2>3, <2>4, <2>5
<1>9. CASE ReadKey(p)
  BY <1>9 DEF ReadKey, Malformed
<1>10. CASE SyncDirectory(p)
  BY <1>10 DEF SyncDirectory
<1>11. CASE Return(p)
  <2>1. onDisk = {dir} /\ chosen[p] = dir.key /\ written[dir.key] = 2 /\ synced[dir.key]
    BY <1>11 DEF Return
  <2> QED
    BY <1>11, <2>1 DEF Return
<1> QED
  BY <1>1, <1>2, <1>3, <1>4, <1>5, <1>6, <1>7, <1>8, <1>9, <1>10, <1>11, <1>12 DEF Step

\* So do the deaths of processes, losses of power and damage to the key.
LEMMA FaultInvariant ==
  ASSUME IInv, (\E p \in Processes : Die(p)) \/ PowerLoss \/ Damage
  PROVE  IInv'
<1> USE NoKeyAssumption, NoOneAssumption
    DEF IInv, TypeOK, Exclusive, Survivors, Preparation, Confirmation, OneAuthority,
        GrantedIsDurable, PublishedIsComplete, Stages, Holding, Preparing,
        Confirming, disk, Directory, Slot
<1>1. ASSUME NEW p \in Processes, Die(p) PROVE IInv'
  BY <1>1 DEF Die
<1>2. CASE PowerLoss
  <2>1. /\ dir' \in onDisk /\ onDisk' = {dir'}
        /\ \A c \in Candidates : synced[c] => written'[c] = written[c]
    BY <1>2 DEF PowerLoss
  <2>2. TypeOK' /\ Exclusive' /\ Preparation' /\ Confirmation'
    BY <1>2 DEF PowerLoss
  <2>3. Survivors' /\ OneAuthority' /\ GrantedIsDurable' /\ PublishedIsComplete'
    BY <1>2, <2>1 DEF PowerLoss
  <2> QED
    BY <2>2, <2>3
<1>3. CASE Damage
  BY <1>3 DEF Damage
<1> QED
  BY <1>1, <1>2, <1>3

LEMMA NextInvariant == IInv /\ [Next]_vars => IInv'
<1> SUFFICES ASSUME IInv, [Next]_vars PROVE IInv'
  OBVIOUS
<1>1. ASSUME NEW p \in Processes, Request(p) PROVE IInv'
  BY <1>1, NoKeyAssumption, NoOneAssumption
     DEF Request, Goto, IInv, TypeOK, Exclusive, Survivors, Preparation, Confirmation,
         OneAuthority, GrantedIsDurable, PublishedIsComplete, Stages, Holding,
         Preparing, Confirming, disk
<1>2. CASE UNCHANGED vars
  BY <1>2 DEF vars, IInv, TypeOK, Exclusive, Survivors, Preparation, Confirmation,
              OneAuthority, GrantedIsDurable, PublishedIsComplete
<1> QED
  BY <1>1, <1>2, StepInvariant, FaultInvariant DEF Next

THEOREM Invariance == Spec => []IInv
<1> QED
  BY InitInvariant, NextInvariant, PTL DEF Spec

\* All keys ever returned are one key, and it survives every power loss.
THEOREM OneAuthorityHolds == Spec => [](OneAuthority /\ GrantedIsDurable)
<1>1. IInv => OneAuthority /\ GrantedIsDurable
  BY DEF IInv
<1> QED
  BY <1>1, Invariance, PTL

\* No short key is ever published, whatever dies or fails.
THEOREM PublishedIsCompleteHolds == Spec => []PublishedIsComplete
<1>1. IInv => PublishedIsComplete
  BY DEF IInv
<1> QED
  BY <1>1, Invariance, PTL

\* The directory lock makes the requests take turns.
THEOREM ExclusiveHolds == Spec => [](TypeOK /\ Exclusive)
<1>1. IInv => TypeOK /\ Exclusive
  BY DEF IInv
<1> QED
  BY <1>1, Invariance, PTL

-----------------------------------------------------------------------------
\* The final key is only ever undone by a power loss, and only while no
\* caller has it.
THEOREM KeyIsNeverReplacedHolds == Spec => KeyIsNeverReplaced
<1>1. ASSUME IInv, [Next]_vars, dir.key # NoKey, dir'.key # dir.key
      PROVE  dir'.key = NoKey /\ dir' \in onDisk /\ granted = {}
  <2>1. ASSUME NEW p \in Processes, Request(p) \/ Step(p) \/ Die(p)
        PROVE  dir'.key = dir.key
    BY <1>1, <2>1
       DEF IInv, TypeOK, Directory, Preparation, Preparing, Request, Step, Die, Goto, disk,
           Acquire, FindPublished, RefuseBearer, BeginPreparation, DiscardResidue,
           RefuseResidue, CreateCandidate, WriteSome, WriteAll, SyncCandidate, Rename,
           ReadKey, RefuseMalformed, SyncKey, SyncDirectory, Return, ChangeDirectory
  <2>2. CASE PowerLoss
    BY <1>1, <2>2 DEF PowerLoss, IInv, Survivors, OneAuthority
  <2>3. CASE Damage \/ UNCHANGED vars
    BY <1>1, <2>3 DEF Damage, vars
  <2> QED
    BY <1>1, <2>1, <2>2, <2>3 DEF Next
<1>2. IInv /\ [Next]_vars =>
        [dir.key # NoKey /\ dir'.key # dir.key =>
           dir'.key = NoKey /\ dir' \in onDisk /\ granted = {}]_vars
  BY <1>1
<1> QED
  BY <1>2, Invariance, PTL DEF Spec, KeyIsNeverReplaced

-----------------------------------------------------------------------------
(* Refinement: the authority is the key that every directory a power loss  *)
(* may bring back holds.                                                   *)

\* The mapped authority is that key when there is one.
LEMMA AuthorityIs ==
  ASSUME dir \in onDisk
  PROVE  /\ Authority \in Candidates \cup {NoKey}
         /\ \A k \in Candidates : (\A d \in onDisk : d.key = k) => Authority = k
         /\ Authority # NoKey => \A d \in onDisk : d.key = Authority
BY NoKeyAssumption DEF Authority

\* Once every survivor holds k, no step lets one exist without it.
LEMMA AuthorityIsStable ==
  ASSUME IInv, [Next]_vars, NEW k \in Candidates, \A d \in onDisk : d.key = k
  PROVE  \A d \in onDisk' : d.key = k
<1>1. dir.key = k /\ dir.key # NoKey
  BY NoKeyAssumption DEF IInv, Survivors
<1>2. ASSUME NEW p \in Processes, Request(p) \/ Step(p) \/ Die(p)
      PROVE  \A d \in onDisk' : d.key = k
  BY <1>1, <1>2
     DEF IInv, Survivors, Preparation, Preparing, Request, Step, Die, Goto, disk, Acquire,
         FindPublished, RefuseBearer, BeginPreparation, DiscardResidue, RefuseResidue,
         CreateCandidate, WriteSome, WriteAll, SyncCandidate, Rename, ReadKey,
         RefuseMalformed, SyncKey, SyncDirectory, Return, ChangeDirectory
<1>3. CASE PowerLoss \/ Damage \/ UNCHANGED vars
  BY <1>3 DEF PowerLoss, Damage, vars
<1> QED
  BY <1>2, <1>3 DEF Next

\* A step changes the set of granted keys only by returning the authority.
LEMMA GrantsAuthority ==
  ASSUME IInv, [Next]_vars, granted' # granted
  PROVE  Authority # NoKey /\ granted' = granted \cup {Authority} /\ onDisk' = onDisk
<1>1. PICK p \in Processes : Return(p)
  BY DEF Next, vars, Request, Step, Die, PowerLoss, Damage, Acquire, FindPublished,
         RefuseBearer, BeginPreparation, DiscardResidue, RefuseResidue, CreateCandidate,
         WriteSome, WriteAll, SyncCandidate, Rename, ReadKey, RefuseMalformed, SyncKey,
         SyncDirectory
<1>2. dir.key \in Candidates /\ onDisk = {dir} /\ chosen[p] = dir.key
  BY <1>1 DEF Return, IInv, TypeOK, Directory, Slot, Confirmation, Confirming
<1>3. Authority = dir.key
  BY <1>2, AuthorityIs
<1> QED
  BY <1>1, <1>2, <1>3, NoKeyAssumption DEF Return, disk

\* key() implements one write-once signing authority.
THEOREM Refinement == Spec => ImplementsAuthority
<1>1. Init => Promise!Init
  BY AuthorityIs DEF Init, Promise!Init
<1>2. IInv /\ IInv' /\ [Next]_vars => [Promise!Next]_(Promise!authorityVars)
  <2> SUFFICES ASSUME IInv, IInv', [Next]_vars
               PROVE  [Promise!Next]_(Promise!authorityVars)
    OBVIOUS
  <2>1. Authority' \in Candidates \cup {NoKey}
    BY AuthorityIs DEF IInv, Survivors, Authority
  <2>2. Authority # NoKey => Authority' = Authority
    <3>1. ASSUME Authority # NoKey PROVE \A d \in onDisk' : d.key = Authority
      BY <3>1, AuthorityIs, AuthorityIsStable DEF IInv, Survivors
    <3> QED
      BY <3>1, AuthorityIs, NoKeyAssumption DEF IInv, Survivors, Authority
  <2>3. CASE granted' = granted
    BY <2>1, <2>2, <2>3 DEF Promise!Next, Promise!Establish, Promise!authorityVars
  <2>4. CASE granted' # granted
    BY <2>2, <2>4, GrantsAuthority DEF Promise!Next, Promise!Grant
  <2> QED
    BY <2>3, <2>4
<1> QED
  BY <1>1, <1>2, Invariance, PTL DEF Spec, ImplementsAuthority, Promise!Spec
=============================================================================
