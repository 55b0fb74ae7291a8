------------------------- MODULE StagingStoreProofs -------------------------
(***************************************************************************)
(* Theorems of StagingStore, for any processes, cursors, prefixes, limits  *)
(* and faults: what was issued stays loadable, and what is retained stays  *)
(* within the limits.                                                      *)
(*                                                                         *)
(* IInv follows one request through its stages (Publication); the lock     *)
(* makes it the only one that changes the directory meanwhile (Exclusive). *)
(* Space adds the accounts: the room that was found for a frame is still   *)
(* there when the frame is written, whatever was cut or torn in between    *)
(* (Reserved), and a file that a fault leaves behind is a new one.         *)
(***************************************************************************)
EXTENDS StagingStore, FiniteSetTheorems, WellFoundedInduction, TLAPS

\* What no step undoes: entries and frames, once durable.
Kept == /\ packs \subseteq packs' /\ frames \subseteq frames' /\ parts \subseteq parts'
        /\ solid \subseteq solid' /\ anchored \subseteq anchored'

LEMMA KeptIsDurable ==
  ASSUME NEW c \in Cursors, Durable(c), Kept
  PROVE  Durable(c)'
BY DEF Durable, Kept

LEMMA InitInvariant == Init => IInv
<1> SUFFICES ASSUME Init PROVE IInv
  OBVIOUS
<1> USE StoreAssumption
<1>1. TypeOK
  BY DEF Init, TypeOK, Stages, LegacyParts
<1>2. Exclusive /\ Publication /\ FramesHavePacks
  BY DEF Init, Exclusive, Publication, FramesHavePacks, Holding, Stages
<1>3. LegacyIsDurable /\ IssuedIsDurable
  BY DEF Init, LegacyIsDurable, IssuedIsDurable, Durable, LegacyParts
<1> QED
  BY <1>1, <1>2, <1>3 DEF IInv

\* One system call of a request.
LEMMA StepInvariant ==
  ASSUME IInv, NEW p \in Processes, Step(p)
  PROVE  IInv' /\ Kept
<1> USE StoreAssumption
    DEF IInv, TypeOK, Exclusive, Publication, FramesHavePacks, LegacyIsDurable,
        IssuedIsDurable, Durable, Kept, Stages, Holding, Goto, Leave, storeVars,
        requestVars
<1>1. CASE Acquire(p)
  BY <1>1 DEF Acquire
<1>2. CASE Load(p)
  BY <1>2 DEF Load
<1>3. CASE ObserveToken(p) \/ RefuseStale(p) \/ RefusePart(p) \/ RefuseFrame(p)
  BY <1>3 DEF ObserveToken, RefuseStale, RefusePart, RefuseFrame
<1>4. CASE SkipStaging(p) \/ StagePartial(p)
  BY <1>4 DEF SkipStaging, StagePartial, Staged
<1>5. CASE ReservePart(p) \/ WritePart(p)
  BY <1>5 DEF ReservePart, WritePart
<1>6. CASE RenamePart(p)
  BY <1>6 DEF RenamePart
<1>7. CASE SyncStage(p) \/ SyncPackDirectory(p)
  BY <1>7 DEF SyncStage, SyncPackDirectory, SyncDirectory
<1>8. CASE FindLegacy(p) \/ FindFrame(p) \/ FindNothing(p)
  BY <1>8 DEF FindLegacy, FindFrame, FindNothing
<1>9. CASE ReserveFrame(p)
  BY <1>9 DEF ReserveFrame
<1>10. CASE TruncateTail(p)
  BY <1>10 DEF TruncateTail
<1>11. CASE AppendSome(p)
  BY <1>11 DEF AppendSome
<1>12. CASE AppendAll(p)
  BY <1>12 DEF AppendAll
<1>13. CASE SyncPack(p)
  BY <1>13 DEF SyncPack
<1>14. CASE Return(p)
  BY <1>14 DEF Return
<1> QED
  BY <1>1, <1>2, <1>3, <1>4, <1>5, <1>6, <1>7, <1>8, <1>9, <1>10, <1>11, <1>12,
     <1>13, <1>14 DEF Step

\* The death of a process: only its temporary file can stay behind.
LEMMA DeathInvariant ==
  ASSUME IInv, NEW p \in Processes, Die(p)
  PROVE  IInv' /\ Kept
<1> USE StoreAssumption DEF IInv
<1>1. orphans' \in SUBSET [of : Prefixes, at : Nat, length : Nat]
  BY DEF Die, AbandonTemporary, Writing, TypeOK, Publication
<1>2. TypeOK'
  BY <1>1 DEF Die, TypeOK, Stages
<1>3. Exclusive'
  BY DEF Die, Exclusive, TypeOK, Holding, Stages
<1>4. Publication'
  BY DEF Die, Publication, TypeOK, Holding, Stages, Durable
<1>5. FramesHavePacks' /\ LegacyIsDurable' /\ IssuedIsDurable' /\ Kept
  BY DEF Die, FramesHavePacks, LegacyIsDurable, IssuedIsDurable, Durable, Kept
<1> QED
  BY <1>2, <1>3, <1>4, <1>5

\* A power loss keeps what is durable, which is all that was issued.
LEMMA PowerLossKeepsDurable ==
  ASSUME IInv, PowerLoss, NEW c \in Cursors, Durable(c)
  PROVE  Durable(c)'
<1>1. Needs[c] \in (parts' \cap anchored') \cup {NoPrefix}
  BY DEF PowerLoss, Durable
<1>2. CASE c \in Legacy
  BY <1>1, <1>2 DEF Durable
<1>3. CASE c \in frames \cap solid /\ Bucket[c] \in packs \cap anchored
  <2>1. Bucket[c] \in packs' /\ Bucket[c] \in anchored'
    BY <1>3 DEF PowerLoss
  <2>2. c \in frames' /\ c \in solid'
    BY <1>3, <2>1 DEF PowerLoss
  <2> QED
    BY <1>1, <2>1, <2>2 DEF Durable
<1> QED
  BY <1>2, <1>3 DEF Durable

LEMMA PowerLossInvariant ==
  ASSUME IInv, PowerLoss
  PROVE  IInv'
<1> USE StoreAssumption DEF IInv
<1>1. orphans' \in SUBSET [of : Prefixes, at : Nat, length : Nat]
  <2>1. PICK back \in SUBSET (parts \ parts') :
          orphans' = orphans \cup
            {[of |-> d, at |-> faults, length |-> PrefixLength[d]] : d \in back}
    BY DEF PowerLoss
  <2> QED
    BY <2>1 DEF TypeOK
<1>2. TypeOK'
  BY <1>1 DEF PowerLoss, TypeOK, Stages
<1>3. Exclusive' /\ Publication'
  BY DEF PowerLoss, Exclusive, Publication, Holding
<1>4. FramesHavePacks'
  BY DEF PowerLoss, FramesHavePacks
<1>5. LegacyIsDurable' /\ IssuedIsDurable'
  BY PowerLossKeepsDurable DEF PowerLoss, LegacyIsDurable, IssuedIsDurable, TypeOK
<1> QED
  BY <1>2, <1>3, <1>4, <1>5

\* Every step keeps the invariant and whatever was durable.
LEMMA NextInvariant ==
  ASSUME IInv, [Next]_vars
  PROVE  IInv' /\ \A c \in Cursors : Durable(c) => Durable(c)'
<1>1. ASSUME NEW p \in Processes, Request(p) PROVE IInv' /\ Kept
  BY <1>1, StoreAssumption
     DEF Request, Goto, IInv, TypeOK, Exclusive, Publication, FramesHavePacks,
         LegacyIsDurable, IssuedIsDurable, Durable, Kept, Stages, Holding, storeVars
<1>2. CASE UNCHANGED vars
  BY <1>2 DEF vars, IInv, TypeOK, Exclusive, Publication, FramesHavePacks,
              LegacyIsDurable, IssuedIsDurable, Durable
<1>3. CASE PowerLoss
  BY <1>3, PowerLossInvariant, PowerLossKeepsDurable
<1>4. ASSUME NEW p \in Processes, Request(p) \/ Step(p) \/ Die(p)
      PROVE  IInv' /\ \A c \in Cursors : Durable(c) => Durable(c)'
  BY <1>1, <1>4, StepInvariant, DeathInvariant, KeptIsDurable
<1> QED
  BY <1>2, <1>3, <1>4 DEF Next

THEOREM Invariance == Spec => []IInv
<1>1. IInv /\ [Next]_vars => IInv'
  BY NextInvariant
<1> QED
  BY <1>1, InitInvariant, PTL DEF Spec

\* Every token ever returned can be loaded again after any crash: its frame
\* and the prefix it depends on are durable.
THEOREM IssuedIsDurableHolds == Spec => []IssuedIsDurable
<1>1. IInv => IssuedIsDurable
  BY DEF IInv
<1> QED
  BY <1>1, Invariance, PTL

\* Nothing the store does, recovers or suffers makes a durable cursor less so.
THEOREM DurableForeverHolds == Spec => DurableForever
<1>1. IInv /\ [Next]_vars => [\A c \in Cursors : Durable(c) => Durable(c)']_vars
  BY NextInvariant
<1> QED
  BY <1>1, Invariance, PTL DEF Spec, DurableForever

\* Replaying a request whose token was issued never asks for space.
THEOREM ReplayNeedsNoSpaceHolds == Spec => []ReplayNeedsNoSpace
<1>1. IInv => ReplayNeedsNoSpace
  BY StoreAssumption
     DEF IInv, Publication, IssuedIsDurable, Durable, ReplayNeedsNoSpace
<1> QED
  BY <1>1, Invariance, PTL
-----------------------------------------------------------------------------
(* Sums over finite sets.  SumFunctionOnSet chooses one member after the   *)
(* other; that the order does not matter is shown by a smallest set for    *)
(* which it would.                                                         *)

LEMMA LeastNumber ==
  ASSUME NEW S, S \subseteq Nat, S # {}
  PROVE  \E n \in S : \A m \in S : n <= m
<1> DEFINE R == OpToRel(<, Nat)
<1>1. IsWellFoundedOn(R, Nat)
  BY NatLessThanWellFounded
<1>2. \A m, n \in Nat : <<m, n>> \in R <=> m < n
  BY DEF OpToRel
<1> HIDE DEF R
<1>3. PICK n \in S : \A m \in S : ~(<<m, n>> \in R)
  BY <1>1, WFMin
<1>4. \A m \in S : n \in Nat /\ m \in Nat /\ ~(m < n)
  BY <1>2, <1>3
<1> QED BY <1>4

LEMMA SmallestSet ==
  ASSUME NEW F, F # {}, \A S \in F : IsFiniteSet(S)
  PROVE  \E S \in F : \A T \in F : Cardinality(S) <= Cardinality(T)
<1> DEFINE Sizes == {Cardinality(S) : S \in F}
<1>1. Sizes \subseteq Nat /\ Sizes # {}
  BY FS_CardinalityType
<1>2. PICK n \in Sizes : \A m \in Sizes : n <= m
  <2> HIDE DEF Sizes
  <2> QED BY <1>1, LeastNumber
<1> QED BY <1>2

\* Without one of its members a finite set is smaller.
LEMMA Smaller ==
  ASSUME NEW S, IsFiniteSet(S), NEW x \in S
  PROVE  /\ IsFiniteSet(S \ {x}) /\ Cardinality(S) \in Nat /\ Cardinality(S \ {x}) \in Nat
         /\ Cardinality(S \ {x}) = Cardinality(S) - 1 /\ ~(Cardinality(S) <= Cardinality(S \ {x}))
<1>1. IsFiniteSet(S \ {x}) /\ Cardinality(S \ {x}) = Cardinality(S) - 1
  BY FS_RemoveElement
<1>2. Cardinality(S) \in Nat /\ Cardinality(S \ {x}) \in Nat
  BY <1>1, FS_CardinalityType
<1> QED BY <1>1, <1>2

Pick(S) == CHOOSE x \in S : TRUE

\* The sums of the subsets of a finite set, each from that of a smaller one.
Sums(f, S, sum) ==
  \A T \in SUBSET S : sum[T] = IF T = {} THEN 0 ELSE f[Pick(T)] + sum[T \ {Pick(T)}]

\* The recursive function that the sum is defined with exists.
LEMMA SumsExist ==
  ASSUME NEW f, NEW S, IsFiniteSet(S)
  PROVE  \E sum : Sums(f, S, sum) /\ SumFunctionOnSet(f, S) = sum[S]
<1> DEFINE Small(n) == {T \in SUBSET S : Cardinality(T) <= n}
           Runs(n, sum) == sum = [T \in Small(n) |->
                             IF T = {} THEN 0 ELSE f[Pick(T)] + sum[T \ {Pick(T)}]]
           Missing == {n \in Nat : ~ \E sum : Runs(n, sum)}
           Iterates(sum) == sum = [T \in SUBSET S |->
                              IF T = {} THEN 0 ELSE f[Pick(T)] + sum[T \ {Pick(T)}]]
           chosen == CHOOSE sum : Iterates(sum)
<1>1. \A T \in SUBSET S : IsFiniteSet(T) /\ Cardinality(T) \in Nat /\ Cardinality(T) <= Cardinality(S)
  BY FS_Subset, FS_CardinalityType
<1>2. \A T \in SUBSET S : T # {} =>
        /\ Pick(T) \in T /\ T \ {Pick(T)} \in SUBSET S
        /\ Cardinality(T \ {Pick(T)}) = Cardinality(T) - 1
  BY <1>1, Smaller DEF Pick
<1>3. Missing = {}
  <2> SUFFICES ASSUME Missing # {} PROVE FALSE
    OBVIOUS
  <2>1. PICK n \in Missing : \A m \in Missing : n <= m
    BY LeastNumber
  <2>2. CASE n = 0
    <3>1. \A T \in Small(0) : T = {}
      BY <1>1, FS_EmptySet
    <3>2. Runs(0, [T \in Small(0) |-> 0])
      BY <3>1
    <3> QED BY <2>1, <2>2, <3>2
  <2>3. CASE n # 0
    <3>1. n \in Nat /\ n - 1 \in Nat /\ ~(n <= n - 1)
      BY <2>1, <2>3
    <3>2. n - 1 \notin Missing
      BY <2>1, <3>1
    <3>3. PICK sum : Runs(n - 1, sum)
      BY <3>1, <3>2
    <3> DEFINE next == [T \in Small(n) |->
                         IF T = {} THEN 0 ELSE f[Pick(T)] + sum[T \ {Pick(T)}]]
    <3>4. \A T \in Small(n - 1) : T \in Small(n) /\ next[T] = sum[T]
      <4> SUFFICES ASSUME NEW T \in Small(n - 1) PROVE T \in Small(n) /\ next[T] = sum[T]
        OBVIOUS
      <4>1. T \in Small(n)
        BY <1>1, <3>1
      <4>2. sum[T] = IF T = {} THEN 0 ELSE f[Pick(T)] + sum[T \ {Pick(T)}]
        <5> HIDE DEF Small
        <5> QED BY <3>3
      <4>3. next[T] = IF T = {} THEN 0 ELSE f[Pick(T)] + sum[T \ {Pick(T)}]
        <5> HIDE DEF Small
        <5> QED BY <4>1
      <4> QED BY <4>1, <4>2, <4>3
    <3>5. \A T \in Small(n) : T # {} => T \ {Pick(T)} \in Small(n - 1)
      BY <1>1, <1>2, <3>1
    <3>6. \A T \in Small(n) : T # {} => next[T \ {Pick(T)}] = sum[T \ {Pick(T)}]
      <4> HIDE DEF next, Small
      <4> QED BY <3>4, <3>5
    <3>7. Runs(n, next)
      <4>1. next = [T \in Small(n) |->
                     IF T = {} THEN 0 ELSE f[Pick(T)] + next[T \ {Pick(T)}]]
        BY <3>6
      <4> HIDE DEF next, Small
      <4> QED BY <4>1
    <3> HIDE DEF Runs, next
    <3> QED BY <2>1, <3>7
  <2> QED BY <2>2, <2>3
<1>4. Cardinality(S) \in Nat /\ Small(Cardinality(S)) = SUBSET S
  BY <1>1
<1>5. \E sum : Iterates(sum)
  <2>1. PICK sum : Runs(Cardinality(S), sum)
    BY <1>3, <1>4
  <2>2. Iterates(sum)
    BY <1>4, <2>1
  <2> QED BY <2>2
<1>6. Iterates(chosen)
  <2> HIDE DEF Iterates
  <2> QED BY <1>5
<1>7. SumFunctionOnSet(f, S) = chosen[S]
  BY DEF SumFunctionOnSet, FoldFunctionOnSet, MapThenFoldSet, Pick
<1> HIDE DEF chosen
<1>8. Sums(f, S, chosen)
  <2> SUFFICES ASSUME NEW T \in SUBSET S
               PROVE  chosen[T] = IF T = {} THEN 0 ELSE f[Pick(T)] + chosen[T \ {Pick(T)}]
    BY DEF Sums
  <2> QED BY <1>6
<1> QED BY <1>7, <1>8

\* Sums of the same finite set agree, whichever larger set they are part of.
LEMMA SumsAgree ==
  ASSUME NEW f, NEW g, NEW S, IsFiniteSet(S), NEW one, NEW two,
         Sums(f, S, one), Sums(g, S, two), \A x \in S : f[x] = g[x]
  PROVE  one[S] = two[S]
<1> DEFINE Differ == {T \in SUBSET S : one[T] # two[T]}
<1> SUFFICES ASSUME Differ # {} PROVE FALSE
  OBVIOUS
<1>1. \A T \in SUBSET S : IsFiniteSet(T)
  BY FS_Subset
<1>2. PICK T \in Differ : \A U \in Differ : Cardinality(T) <= Cardinality(U)
  <2>1. \A T \in Differ : IsFiniteSet(T)
    BY <1>1
  <2> HIDE DEF Differ
  <2> QED BY <2>1, SmallestSet
<1>3. T # {}
  BY <1>2 DEF Sums
<1>4. Pick(T) \in T /\ Pick(T) \in S /\ T \ {Pick(T)} \in SUBSET S
  BY <1>2, <1>3 DEF Pick
<1>5. T \ {Pick(T)} \notin Differ
  <2>1. ~(Cardinality(T) <= Cardinality(T \ {Pick(T)}))
    BY <1>1, <1>2, <1>4, Smaller
  <2> QED BY <1>2, <2>1
<1>6. one[T] = f[Pick(T)] + one[T \ {Pick(T)}] /\ two[T] = g[Pick(T)] + two[T \ {Pick(T)}]
  BY <1>2, <1>3 DEF Sums
<1> QED BY <1>2, <1>4, <1>5, <1>6

LEMMA SameSum ==
  ASSUME NEW f, NEW g, NEW S, IsFiniteSet(S), \A x \in S : f[x] = g[x]
  PROVE  SumFunctionOnSet(f, S) = SumFunctionOnSet(g, S)
BY SumsExist, SumsAgree

LEMMA SumOfNothing == ASSUME NEW f PROVE SumFunctionOnSet(f, {}) = 0
BY FS_EmptySet, SumsExist DEF Sums

LEMMA SumFromPick ==
  ASSUME NEW f, NEW S, IsFiniteSet(S), S # {}
  PROVE  SumFunctionOnSet(f, S) = f[Pick(S)] + SumFunctionOnSet(f, S \ {Pick(S)})
<1> DEFINE rest == S \ {Pick(S)}
<1>1. PICK all : Sums(f, S, all) /\ SumFunctionOnSet(f, S) = all[S]
  BY SumsExist
<1>2. IsFiniteSet(rest)
  BY FS_Subset
<1>3. PICK some : Sums(f, rest, some) /\ SumFunctionOnSet(f, rest) = some[rest]
  BY <1>2, SumsExist
<1>4. Sums(f, rest, all)
  BY <1>1 DEF Sums
<1>5. all[rest] = some[rest]
  BY <1>2, <1>3, <1>4, SumsAgree
<1> QED BY <1>1, <1>3, <1>5 DEF Sums

LEMMA SumIsNatural ==
  ASSUME NEW f, NEW S, IsFiniteSet(S), \A x \in S : f[x] \in Nat
  PROVE  SumFunctionOnSet(f, S) \in Nat
<1> DEFINE Bad == {T \in SUBSET S : SumFunctionOnSet(f, T) \notin Nat}
<1> SUFFICES ASSUME Bad # {} PROVE FALSE
  OBVIOUS
<1>1. \A T \in SUBSET S : IsFiniteSet(T)
  BY FS_Subset
<1>2. PICK T \in Bad : \A U \in Bad : Cardinality(T) <= Cardinality(U)
  <2>1. \A T \in Bad : IsFiniteSet(T)
    BY <1>1
  <2> HIDE DEF Bad
  <2> QED BY <2>1, SmallestSet
<1>3. T # {}
  BY <1>2, SumOfNothing
<1>4. Pick(T) \in T /\ f[Pick(T)] \in Nat /\ T \ {Pick(T)} \in SUBSET S
  BY <1>2, <1>3 DEF Pick
<1>5. T \ {Pick(T)} \notin Bad
  <2>1. ~(Cardinality(T) <= Cardinality(T \ {Pick(T)}))
    BY <1>1, <1>2, <1>4, Smaller
  <2> QED BY <1>2, <2>1
<1>6. SumFunctionOnSet(f, T) = f[Pick(T)] + SumFunctionOnSet(f, T \ {Pick(T)})
  BY <1>1, <1>2, <1>3, SumFromPick
<1> QED BY <1>2, <1>4, <1>5, <1>6

\* Any member may be taken out first.
LEMMA SumFrom ==
  ASSUME NEW f, NEW S, IsFiniteSet(S), NEW x \in S, \A y \in S : f[y] \in Nat
  PROVE  SumFunctionOnSet(f, S) = f[x] + SumFunctionOnSet(f, S \ {x})
<1> DEFINE Sum(T) == SumFunctionOnSet(f, T)
           Bad == {T \in SUBSET S : \E y \in T : Sum(T) # f[y] + Sum(T \ {y})}
<1> SUFFICES ASSUME Bad # {} PROVE FALSE
  OBVIOUS
<1>1. \A T \in SUBSET S : IsFiniteSet(T) /\ Sum(T) \in Nat
  <2> TAKE T \in SUBSET S
  <2>1. IsFiniteSet(T)
    BY FS_Subset
  <2> QED BY <2>1, SumIsNatural
<1>2. PICK T \in Bad : \A U \in Bad : Cardinality(T) <= Cardinality(U)
  <2>1. \A T \in Bad : IsFiniteSet(T)
    BY <1>1
  <2> HIDE DEF Bad
  <2> QED BY <2>1, SmallestSet
<1>3. PICK y \in T : Sum(T) # f[y] + Sum(T \ {y})
  BY <1>2
<1> DEFINE z == Pick(T)
           both == T \ {y, z}
<1>4. z \in T /\ T \in SUBSET S /\ IsFiniteSet(T)
  BY <1>1, <1>2, <1>3 DEF Pick
<1>5. Sum(T) = f[z] + Sum(T \ {z})
  BY <1>3, <1>4, SumFromPick
<1>6. y # z
  BY <1>3, <1>5
<1>7. T \ {y} \notin Bad /\ T \ {z} \notin Bad
  BY <1>2, <1>3, <1>4, Smaller
<1>8. Sum(T \ {z}) = f[y] + Sum(both) /\ Sum(T \ {y}) = f[z] + Sum(both)
  <2>1. (T \ {z}) \ {y} = both /\ (T \ {y}) \ {z} = both /\ y \in T \ {z} /\ z \in T \ {y}
    BY <1>3, <1>4, <1>6
  <2>2. T \ {z} \in SUBSET S /\ T \ {y} \in SUBSET S
    BY <1>4
  <2> HIDE DEF both, Sum, z
  <2> QED BY <1>7, <2>1, <2>2
<1>9. f[y] \in Nat /\ f[z] \in Nat /\ Sum(both) \in Nat
  BY <1>1, <1>3, <1>4
<1> HIDE DEF Sum, both, z
<1> QED BY <1>3, <1>5, <1>8, <1>9

LEMMA SumOfOne ==
  ASSUME NEW f, NEW x, f[x] \in Nat
  PROVE  SumFunctionOnSet(f, {x}) = f[x]
<1>1. IsFiniteSet({x}) /\ {x} \ {x} = {}
  BY FS_Singleton
<1>2. SumFunctionOnSet(f, {x}) = f[x] + SumFunctionOnSet(f, {x} \ {x})
  BY <1>1, SumFrom
<1> QED BY <1>1, <1>2, SumOfNothing

\* The sum changes by what one summand does.
LEMMA SumChanges ==
  ASSUME NEW f, NEW g, NEW S, IsFiniteSet(S), NEW x \in S,
         \A y \in S : f[y] \in Nat /\ g[y] \in Nat, \A y \in S \ {x} : f[y] = g[y]
  PROVE  SumFunctionOnSet(g, S) = SumFunctionOnSet(f, S) - f[x] + g[x]
<1> DEFINE rest == SumFunctionOnSet(f, S \ {x})
           inf == SumFunctionOnSet(f, S)
           ing == SumFunctionOnSet(g, S)
<1>1. IsFiniteSet(S \ {x})
  BY FS_Subset
<1>2. rest \in Nat /\ SumFunctionOnSet(g, S \ {x}) = rest
  BY <1>1, SumIsNatural, SameSum
<1>3. inf = f[x] + rest /\ ing = g[x] + rest
  BY <1>2, SumFrom
<1>4. f[x] \in Nat /\ g[x] \in Nat
  OBVIOUS
<1> HIDE DEF rest, inf, ing
<1>5. ing = inf - f[x] + g[x]
  BY <1>2, <1>3, <1>4
<1> QED BY <1>5 DEF inf, ing

LEMMA SumOfUnion ==
  ASSUME NEW f, NEW S, NEW T, IsFiniteSet(S), IsFiniteSet(T), S \cap T = {},
         \A x \in S \cup T : f[x] \in Nat
  PROVE  SumFunctionOnSet(f, S \cup T) = SumFunctionOnSet(f, S) + SumFunctionOnSet(f, T)
<1> DEFINE Sum(U) == SumFunctionOnSet(f, U)
           Bad == {U \in SUBSET T : Sum(S \cup U) # Sum(S) + Sum(U)}
<1> SUFFICES ASSUME Bad # {} PROVE FALSE
  OBVIOUS
<1>1. \A U \in SUBSET T : IsFiniteSet(U) /\ IsFiniteSet(S \cup U) /\ Sum(U) \in Nat
  <2> TAKE U \in SUBSET T
  <2>1. IsFiniteSet(U)
    BY FS_Subset
  <2>2. IsFiniteSet(S \cup U)
    BY <2>1, FS_Union
  <2> QED BY <2>1, <2>2, SumIsNatural
<1>2. PICK U \in Bad : \A V \in Bad : Cardinality(U) <= Cardinality(V)
  <2>1. \A V \in Bad : IsFiniteSet(V)
    BY <1>1
  <2> HIDE DEF Bad
  <2> QED BY <2>1, SmallestSet
<1>3. Sum(S) \in Nat /\ Sum({}) = 0 /\ U # {}
  <2>1. Sum(S) \in Nat
    BY SumIsNatural
  <2>2. Sum({}) = 0
    BY SumOfNothing
  <2>3. S \cup {} = S
    OBVIOUS
  <2> HIDE DEF Sum
  <2> QED BY <1>2, <2>1, <2>2, <2>3
<1>4. PICK x \in U : TRUE
  BY <1>3
<1> DEFINE V == U \ {x}
<1>5. /\ U \in SUBSET T /\ V \in SUBSET T /\ IsFiniteSet(U) /\ IsFiniteSet(S \cup U)
      /\ f[x] \in Nat /\ (S \cup U) \ {x} = S \cup V /\ x \in S \cup U
  BY <1>1, <1>2, <1>4
<1>6. V \notin Bad
  BY <1>2, <1>5, <1>4, Smaller
<1>7. Sum(S \cup U) = f[x] + Sum(S \cup V)
  <2>1. \A y \in S \cup U : f[y] \in Nat
    BY <1>2
  <2>2. Sum(S \cup U) = f[x] + Sum((S \cup U) \ {x})
    BY <1>5, <2>1, SumFrom
  <2> QED BY <1>5, <2>2
<1>8. Sum(U) = f[x] + Sum(V)
  <2>1. \A y \in U : f[y] \in Nat
    BY <1>2
  <2> QED BY <1>4, <1>5, <2>1, SumFrom
<1>9. Sum(S \cup V) = Sum(S) + Sum(V) /\ Sum(V) \in Nat
  BY <1>1, <1>5, <1>6
<1> HIDE DEF Sum, V
<1> QED BY <1>2, <1>3, <1>5, <1>7, <1>8, <1>9

\* A part, or smaller summands, make no larger sum.
LEMMA SumOfPart ==
  ASSUME NEW f, NEW S, NEW T, IsFiniteSet(S), T \subseteq S, \A x \in S : f[x] \in Nat
  PROVE  SumFunctionOnSet(f, T) <= SumFunctionOnSet(f, S)
<1> DEFINE left == SumFunctionOnSet(f, T)
           right == SumFunctionOnSet(f, S \ T)
           both == SumFunctionOnSet(f, S)
<1>1. IsFiniteSet(T) /\ IsFiniteSet(S \ T)
  BY FS_Subset
<1>2. left \in Nat /\ right \in Nat
  BY <1>1, SumIsNatural
<1>3. T \cup (S \ T) = S
  OBVIOUS
<1>4. both = left + right
  BY <1>1, <1>3, SumOfUnion
<1> HIDE DEF left, right, both
<1>5. left <= both
  BY <1>2, <1>4
<1> QED BY <1>5 DEF left, both

LEMMA SumOfSmaller ==
  ASSUME NEW f, NEW g, NEW S, IsFiniteSet(S),
         \A x \in S : f[x] \in Nat /\ g[x] \in Nat /\ f[x] <= g[x]
  PROVE  SumFunctionOnSet(f, S) <= SumFunctionOnSet(g, S)
<1> DEFINE F(T) == SumFunctionOnSet(f, T)
           G(T) == SumFunctionOnSet(g, T)
           Bad == {T \in SUBSET S : ~(F(T) <= G(T))}
<1> SUFFICES ASSUME Bad # {} PROVE FALSE
  OBVIOUS
<1>1. \A T \in SUBSET S : IsFiniteSet(T) /\ F(T) \in Nat /\ G(T) \in Nat
  <2> TAKE T \in SUBSET S
  <2>1. IsFiniteSet(T)
    BY FS_Subset
  <2> QED BY <2>1, SumIsNatural
<1>2. PICK T \in Bad : \A U \in Bad : Cardinality(T) <= Cardinality(U)
  <2>1. \A T \in Bad : IsFiniteSet(T)
    BY <1>1
  <2> HIDE DEF Bad
  <2> QED BY <2>1, SmallestSet
<1>3. T # {}
  <2>1. F({}) = 0 /\ G({}) = 0
    BY SumOfNothing
  <2> HIDE DEF F, G
  <2> QED BY <1>2, <2>1
<1>4. PICK x \in T : TRUE
  BY <1>3
<1> DEFINE U == T \ {x}
<1>5. T \in SUBSET S /\ U \in SUBSET S /\ IsFiniteSet(T)
  BY <1>1, <1>2
<1>6. U \notin Bad
  BY <1>2, <1>4, <1>5, Smaller
<1>7. F(T) = f[x] + F(U) /\ G(T) = g[x] + G(U)
  <2>1. \A y \in T : f[y] \in Nat /\ g[y] \in Nat
    BY <1>2
  <2> QED BY <1>4, <1>5, <2>1, SumFrom
<1>8. F(U) <= G(U) /\ F(U) \in Nat /\ G(U) \in Nat
  BY <1>1, <1>5, <1>6
<1>9. f[x] \in Nat /\ g[x] \in Nat /\ f[x] <= g[x] /\ ~(F(T) <= G(T))
  BY <1>2, <1>4
<1> HIDE DEF F, G, U
<1> QED BY <1>7, <1>8, <1>9

\* Summing over names of the members, each with a name of its own.
LEMMA SumOfImage ==
  ASSUME NEW f, NEW name, NEW S, IsFiniteSet(S), \A x \in S : f[name[x]] \in Nat,
         \A x, y \in S : name[x] = name[y] => x = y
  PROVE  /\ IsFiniteSet({name[x] : x \in S})
         /\ Cardinality({name[x] : x \in S}) = Cardinality(S)
         /\ SumFunctionOnSet(f, {name[x] : x \in S})
              = SumFunctionOnSet([x \in S |-> f[name[x]]], S)
<1> DEFINE Named(T) == {name[x] : x \in T}
           summands == [x \in S |-> f[name[x]]]
           Fine(T) == /\ IsFiniteSet(Named(T)) /\ Cardinality(Named(T)) = Cardinality(T)
                      /\ SumFunctionOnSet(f, Named(T)) = SumFunctionOnSet(summands, T)
           Bad == {T \in SUBSET S : ~Fine(T)}
<1> SUFFICES ASSUME Bad # {} PROVE FALSE
  OBVIOUS
<1>1. \A T \in SUBSET S : IsFiniteSet(T)
  BY FS_Subset
<1>2. PICK T \in Bad : \A U \in Bad : Cardinality(T) <= Cardinality(U)
  <2>1. \A T \in Bad : IsFiniteSet(T)
    BY <1>1
  <2> HIDE DEF Bad
  <2> QED BY <2>1, SmallestSet
<1>3. T # {}
  <2>1. Named({}) = {}
    OBVIOUS
  <2>2. Fine({})
    BY <2>1, FS_EmptySet, SumOfNothing
  <2> HIDE DEF Fine
  <2> QED BY <1>2, <2>2
<1>4. PICK x \in T : TRUE
  BY <1>3
<1> DEFINE U == T \ {x}
<1>5. T \in SUBSET S /\ U \in SUBSET S /\ IsFiniteSet(T) /\ IsFiniteSet(U) /\ x \in S
  BY <1>1, <1>2, <1>4
<1>6. U \notin Bad /\ Cardinality(T) = Cardinality(U) + 1
  <2>1. Cardinality(U) = Cardinality(T) - 1 /\ Cardinality(T) \in Nat /\ ~(Cardinality(T) <= Cardinality(U))
    BY <1>4, <1>5, Smaller
  <2>2. U \notin Bad
    <3> HIDE DEF Bad, U
    <3> QED BY <1>2, <2>1
  <2> HIDE DEF Bad, U
  <2> QED BY <2>1, <2>2
<1>7. Fine(U)
  BY <1>5, <1>6
<1>8. Named(T) = Named(U) \cup {name[x]} /\ name[x] \notin Named(U)
  BY <1>4, <1>5
<1>9. IsFiniteSet(Named(T)) /\ Cardinality(Named(T)) = Cardinality(T)
  <2> DEFINE named == Named(U)
  <2>1. IsFiniteSet(named) /\ Cardinality(named) = Cardinality(U)
    BY <1>7
  <2>2. Named(T) = named \cup {name[x]} /\ name[x] \notin named
    BY <1>8
  <2> HIDE DEF named, Named
  <2>3. IsFiniteSet(named \cup {name[x]}) /\ Cardinality(named \cup {name[x]}) = Cardinality(named) + 1
    BY <2>1, <2>2, FS_AddElement
  <2> QED BY <1>6, <2>1, <2>2, <2>3
<1>10. SumFunctionOnSet(f, Named(T)) = f[name[x]] + SumFunctionOnSet(f, Named(U))
  <2>1. \A y \in Named(T) : f[y] \in Nat
    BY <1>5
  <2>2. Named(T) \ {name[x]} = Named(U) /\ name[x] \in Named(T)
    BY <1>8
  <2> DEFINE all == Named(T)
             one == name[x]
  <2>3. IsFiniteSet(all) /\ one \in all /\ all \ {one} = Named(U) /\ \A y \in all : f[y] \in Nat
    BY <1>9, <2>1, <2>2
  <2> HIDE DEF all, one
  <2>4. SumFunctionOnSet(f, all) = f[one] + SumFunctionOnSet(f, all \ {one})
    BY ONLY <2>3, SumFrom
  <2> QED BY <2>3, <2>4 DEF all, one
<1>11. SumFunctionOnSet(summands, T) = summands[x] + SumFunctionOnSet(summands, U)
  BY <1>4, <1>5, SumFrom
<1>12. summands[x] = f[name[x]]
  BY <1>5
<1>13. Fine(T)
  BY <1>7, <1>9, <1>10, <1>11, <1>12
<1> QED BY <1>2, <1>13

-----------------------------------------------------------------------------
(* Space.                                                                  *)

LEMMA ChargeIsMonotone ==
  /\ \A m \in Nat : charged_bytes(m) \in Nat
  /\ \A m, n \in Nat : m <= n => charged_bytes(m) <= charged_bytes(n)
<1>1. Quantum \in Nat /\ Quantum > 0
  BY StoreAssumption
<1>2. ASSUME NEW m \in Nat
      PROVE  /\ m \div Quantum \in Nat /\ Quantum * (m \div Quantum) <= m
             /\ m < Quantum * (m \div Quantum) + Quantum
  BY <1>1
<1>3. ASSUME NEW m \in Nat, NEW n \in Nat, m <= n
      PROVE  m \div Quantum <= n \div Quantum
  <2> DEFINE x == m \div Quantum
             y == n \div Quantum
  <2>1. x \in Nat /\ y \in Nat /\ Quantum * x <= m /\ n < Quantum * y + Quantum
    BY <1>2
  <2> HIDE DEF x, y
  <2>2. Quantum * x < Quantum * (y + 1)
    BY <1>1, <2>1, <1>3
  <2>3. x < y + 1
    BY <1>1, <2>1, <2>2
  <2>4. x <= y
    BY <2>1, <2>3
  <2> QED BY <2>4 DEF x, y
<1>4. ASSUME NEW x \in Nat, NEW y \in Nat, x <= y
      PROVE  x * Quantum + Quantum \in Nat /\ x * Quantum + Quantum <= y * Quantum + Quantum
  BY <1>1, <1>4
<1>5. \A m \in Nat : m + Quantum - 1 \in Nat /\ (m + Quantum - 1) \div Quantum \in Nat
  BY <1>1, <1>2
<1> QED BY <1>1, <1>3, <1>4, <1>5 DEF charged_bytes

\* The terms of RetainedBytes, as functions of the variables they depend on.
End(F, b) == Cardinality({c \in F : Bucket[c] = b}) * FrameLength
Length(F, t, b) == End(F, b) + t[b]
Growth(K, F, t, b) ==
  LET old == IF b \in K THEN charged_bytes(Length(F, t, b)) ELSE 0
      new == charged_bytes(End(F, b) + FrameLength)
  IN  IF new > old THEN new - old ELSE 0
Packed(K, F, t) == SumFunction([b \in K |-> charged_bytes(Length(F, t, b))])
Pending(W, g) == SumFunction([p \in W |-> charged_bytes(PrefixLength[Needs[g[p]]])])
Filled(O) == SumFunction([o \in O |-> charged_bytes(o.length)])
Tails == [Buckets -> 0..(FrameLength - 1)]
Temporaries == [of : Prefixes, at : Nat, length : Nat]

LEMMA LengthTyped ==
  ASSUME NEW F \in SUBSET Cursors, NEW t \in Tails, NEW b \in Buckets
  PROVE  /\ End(F, b) \in Nat /\ t[b] \in Nat /\ FrameLength \in Nat
         /\ Length(F, t, b) \in Nat /\ charged_bytes(Length(F, t, b)) \in Nat
         /\ Length(F, t, b) <= End(F, b) + FrameLength
<1> DEFINE n == Cardinality({c \in F : Bucket[c] = b})
<1>1. IsFiniteSet({c \in F : Bucket[c] = b})
  BY StoreAssumption, FS_Subset
<1>2. n \in Nat
  BY <1>1, FS_CardinalityType
<1>3. t[b] \in Nat /\ FrameLength \in Nat /\ t[b] <= FrameLength
  BY StoreAssumption DEF Tails
<1>4. End(F, b) \in Nat
  <2> HIDE DEF n
  <2>1. n * FrameLength \in Nat
    BY <1>2, <1>3
  <2> QED BY <2>1 DEF n, End
<1> QED BY <1>3, <1>4, ChargeIsMonotone DEF Length

\* A frame never takes less room than the torn one in its place.
LEMMA GrowthTyped ==
  ASSUME NEW K, NEW F \in SUBSET Cursors, NEW t \in Tails, NEW b \in Buckets
  PROVE  /\ Growth(K, F, t, b) \in Nat /\ charged_bytes(End(F, b) + FrameLength) \in Nat
         /\ Growth(K, F, t, b) = charged_bytes(End(F, b) + FrameLength)
                                  - (IF b \in K THEN charged_bytes(Length(F, t, b)) ELSE 0)
<1> DEFINE new == charged_bytes(End(F, b) + FrameLength)
           old == charged_bytes(Length(F, t, b))
<1>1. new \in Nat /\ old \in Nat /\ old <= new
  BY LengthTyped, ChargeIsMonotone
<1>2. Growth(K, F, t, b) = IF b \in K THEN (IF new > old THEN new - old ELSE 0)
                                      ELSE (IF new > 0 THEN new - 0 ELSE 0)
  BY DEF Growth
<1> HIDE DEF new, old
<1>3. Growth(K, F, t, b) \in Nat /\ Growth(K, F, t, b) = new - (IF b \in K THEN old ELSE 0)
  BY <1>1, <1>2
<1> QED BY <1>1, <1>3 DEF new, old

LEMMA PackedTyped ==
  ASSUME NEW K \in SUBSET Buckets, NEW F \in SUBSET Cursors, NEW t \in Tails
  PROVE  IsFiniteSet(K) /\ Packed(K, F, t) \in Nat
<1>1. IsFiniteSet(K)
  BY StoreAssumption, FS_Subset
<1> DEFINE f == [b \in K |-> charged_bytes(Length(F, t, b))]
<1>2. (\A b \in K : f[b] \in Nat) /\ DOMAIN f = K
  BY LengthTyped
<1>3. Packed(K, F, t) = SumFunctionOnSet(f, K)
  BY <1>2 DEF Packed, SumFunction
<1> HIDE DEF f
<1> QED BY <1>1, <1>2, <1>3, SumIsNatural

LEMMA PackedChanges ==
  ASSUME NEW K \in SUBSET Buckets, NEW F \in SUBSET Cursors, NEW G \in SUBSET Cursors,
         NEW t \in Tails, NEW u \in Tails, NEW b \in K,
         \A a \in K \ {b} : Length(G, u, a) = Length(F, t, a)
  PROVE  Packed(K, G, u) = Packed(K, F, t) - charged_bytes(Length(F, t, b))
                                           + charged_bytes(Length(G, u, b))
<1> DEFINE f == [a \in K |-> charged_bytes(Length(F, t, a))]
           g == [a \in K |-> charged_bytes(Length(G, u, a))]
<1>1. /\ \A a \in K : f[a] \in Nat /\ g[a] \in Nat
      /\ \A a \in K \ {b} : f[a] = g[a]
      /\ f[b] = charged_bytes(Length(F, t, b)) /\ g[b] = charged_bytes(Length(G, u, b))
      /\ DOMAIN f = K /\ DOMAIN g = K
  BY LengthTyped
<1>2. IsFiniteSet(K)
  BY PackedTyped
<1>3. Packed(K, G, u) = SumFunctionOnSet(g, K) /\ Packed(K, F, t) = SumFunctionOnSet(f, K)
  BY <1>1 DEF Packed, SumFunction
<1> HIDE DEF f, g
<1>4. SumFunctionOnSet(g, K) = SumFunctionOnSet(f, K) - f[b] + g[b]
  BY <1>1, <1>2, SumChanges
<1> QED BY <1>1, <1>3, <1>4

LEMMA PackedGrows ==
  ASSUME NEW K \in SUBSET Buckets, NEW F \in SUBSET Cursors, NEW t \in Tails,
         NEW b \in Buckets \ K
  PROVE  /\ Packed(K \cup {b}, F, t) = Packed(K, F, t) + charged_bytes(Length(F, t, b))
         /\ Cardinality(K \cup {b}) = Cardinality(K) + 1
<1> DEFINE f == [a \in K \cup {b} |-> charged_bytes(Length(F, t, a))]
           g == [a \in K |-> charged_bytes(Length(F, t, a))]
<1>1. /\ \A a \in K \cup {b} : f[a] \in Nat
      /\ \A a \in K : f[a] = g[a]
      /\ f[b] = charged_bytes(Length(F, t, b)) /\ DOMAIN f = K \cup {b} /\ DOMAIN g = K
  BY LengthTyped
<1>2. IsFiniteSet(K) /\ IsFiniteSet(K \cup {b})
  BY PackedTyped, FS_AddElement
<1>3. Packed(K \cup {b}, F, t) = SumFunctionOnSet(f, K \cup {b}) /\ Packed(K, F, t) = SumFunctionOnSet(g, K)
  BY <1>1 DEF Packed, SumFunction
<1>4. (K \cup {b}) \ {b} = K
  OBVIOUS
<1> HIDE DEF f, g
<1>5. SumFunctionOnSet(f, K \cup {b}) = f[b] + SumFunctionOnSet(f, K)
  BY <1>1, <1>2, <1>4, SumFrom
<1>6. SumFunctionOnSet(f, K) = SumFunctionOnSet(g, K)
  BY <1>1, <1>2, SameSum
<1>7. Packed(K, F, t) \in Nat /\ charged_bytes(Length(F, t, b)) \in Nat
  BY PackedTyped, LengthTyped
<1>8. Cardinality(K \cup {b}) = Cardinality(K) + 1
  BY <1>2, FS_AddElement
<1>9. Packed(K \cup {b}, F, t) = charged_bytes(Length(F, t, b)) + Packed(K, F, t)
  BY <1>1, <1>3, <1>5, <1>6
<1> QED BY <1>7, <1>8, <1>9

LEMMA PackedShrinks ==
  ASSUME NEW K \in SUBSET Buckets, NEW L \in SUBSET K, NEW F \in SUBSET Cursors,
         NEW G \in SUBSET Cursors, NEW t \in Tails, NEW u \in Tails,
         \A b \in L : Length(G, u, b) <= Length(F, t, b)
  PROVE  Packed(L, G, u) <= Packed(K, F, t)
<1> DEFINE f == [a \in K |-> charged_bytes(Length(F, t, a))]
           g == [a \in L |-> charged_bytes(Length(G, u, a))]
<1>1. /\ \A a \in K : f[a] \in Nat
      /\ \A a \in L : g[a] \in Nat /\ g[a] <= f[a]
      /\ DOMAIN f = K /\ DOMAIN g = L
  BY LengthTyped, ChargeIsMonotone
<1>2. IsFiniteSet(K) /\ IsFiniteSet(L)
  BY PackedTyped
<1>3. Packed(L, G, u) = SumFunctionOnSet(g, L) /\ Packed(K, F, t) = SumFunctionOnSet(f, K)
  BY <1>1 DEF Packed, SumFunction
<1> HIDE DEF f, g
<1>4. \A a \in L : f[a] \in Nat
  BY <1>1
<1>5. SumFunctionOnSet(g, L) <= SumFunctionOnSet(f, L)
  BY <1>1, <1>2, <1>4, SumOfSmaller
<1>6. SumFunctionOnSet(f, L) <= SumFunctionOnSet(f, K)
  BY <1>1, <1>2, SumOfPart
<1>7. /\ SumFunctionOnSet(g, L) \in Nat /\ SumFunctionOnSet(f, L) \in Nat
      /\ SumFunctionOnSet(f, K) \in Nat
  BY <1>1, <1>2, <1>4, SumIsNatural
<1> QED BY <1>3, <1>5, <1>6, <1>7

LEMMA PartsTyped ==
  ASSUME NEW P \in SUBSET Prefixes
  PROVE  /\ IsFiniteSet(P) /\ PartBytes(P) \in Nat
         /\ PartBytes(P) = SumFunctionOnSet([d \in Prefixes |-> charged_bytes(PrefixLength[d])], P)
         /\ \A d \in Prefixes : charged_bytes(PrefixLength[d]) \in Nat
<1> DEFINE f == [d \in Prefixes |-> charged_bytes(PrefixLength[d])]
           g == [d \in P |-> charged_bytes(PrefixLength[d])]
<1>1. IsFiniteSet(P)
  BY StoreAssumption, FS_Subset
<1>2. \A d \in Prefixes : charged_bytes(PrefixLength[d]) \in Nat
  BY StoreAssumption, ChargeIsMonotone
<1>3. (\A d \in P : f[d] = g[d] /\ f[d] \in Nat) /\ DOMAIN g = P
  BY <1>2
<1>4. PartBytes(P) = SumFunctionOnSet(g, P)
  BY <1>3 DEF PartBytes, SumFunction
<1>5. SumFunctionOnSet(f, P) = SumFunctionOnSet(g, P) /\ SumFunctionOnSet(f, P) \in Nat
  <2> HIDE DEF f, g
  <2> QED BY <1>1, <1>3, SameSum, SumIsNatural
<1> QED BY <1>1, <1>2, <1>4, <1>5

LEMMA PartsAdd ==
  ASSUME NEW P \in SUBSET Prefixes, NEW d \in Prefixes \ P
  PROVE  /\ PartBytes(P \cup {d}) = PartBytes(P) + charged_bytes(PrefixLength[d])
         /\ Cardinality(P \cup {d}) = Cardinality(P) + 1
<1> DEFINE f == [e \in Prefixes |-> charged_bytes(PrefixLength[e])]
<1>1. /\ IsFiniteSet(P) /\ IsFiniteSet(P \cup {d}) /\ PartBytes(P) = SumFunctionOnSet(f, P)
      /\ PartBytes(P \cup {d}) = SumFunctionOnSet(f, P \cup {d})
  BY PartsTyped
<1>2. \A e \in Prefixes : f[e] = charged_bytes(PrefixLength[e]) /\ f[e] \in Nat
  BY PartsTyped
<1>3. (P \cup {d}) \ {d} = P
  OBVIOUS
<1> HIDE DEF f
<1>4. SumFunctionOnSet(f, P \cup {d}) = f[d] + SumFunctionOnSet(f, P)
  BY <1>1, <1>2, <1>3, SumFrom
<1>5. SumFunctionOnSet(f, P) \in Nat /\ f[d] \in Nat
  BY <1>1, <1>2, SumIsNatural
<1>6. Cardinality(P \cup {d}) = Cardinality(P) + 1
  BY <1>1, FS_AddElement
<1> QED BY <1>1, <1>2, <1>4, <1>5, <1>6

\* Prefixes that stay and others that come back were there before.
LEMMA PartsSplit ==
  ASSUME NEW P \in SUBSET Prefixes, NEW Q \in SUBSET P, NEW R \in SUBSET (P \ Q)
  PROVE  /\ PartBytes(Q) + PartBytes(R) <= PartBytes(P)
         /\ Cardinality(Q) + Cardinality(R) <= Cardinality(P)
<1> DEFINE f == [e \in Prefixes |-> charged_bytes(PrefixLength[e])]
<1>1. /\ IsFiniteSet(P) /\ IsFiniteSet(Q) /\ IsFiniteSet(R) /\ IsFiniteSet(Q \cup R)
      /\ PartBytes(P) = SumFunctionOnSet(f, P) /\ PartBytes(Q) = SumFunctionOnSet(f, Q)
      /\ PartBytes(R) = SumFunctionOnSet(f, R)
  BY PartsTyped, FS_Union
<1>2. \A e \in P : f[e] \in Nat
  BY PartsTyped
<1>3. Q \cap R = {} /\ Q \cup R \subseteq P
  OBVIOUS
<1> HIDE DEF f
<1>4. SumFunctionOnSet(f, Q \cup R) = SumFunctionOnSet(f, Q) + SumFunctionOnSet(f, R)
  BY <1>1, <1>2, <1>3, SumOfUnion
<1>5. SumFunctionOnSet(f, Q \cup R) <= SumFunctionOnSet(f, P)
  BY <1>1, <1>2, <1>3, SumOfPart
<1>6. Cardinality(Q \cup R) = Cardinality(Q) + Cardinality(R)
  <2>1. Cardinality(Q \cap R) = 0
    BY <1>3, FS_EmptySet
  <2>2. Cardinality(Q \cup R) = Cardinality(Q) + Cardinality(R) - Cardinality(Q \cap R)
    BY <1>1, FS_Union
  <2>3. Cardinality(Q) \in Nat /\ Cardinality(R) \in Nat
    BY <1>1, FS_CardinalityType
  <2> QED BY <2>1, <2>2, <2>3
<1>7. Cardinality(Q \cup R) <= Cardinality(P)
  BY <1>1, <1>3, FS_Subset
<1> QED BY <1>1, <1>4, <1>5, <1>6, <1>7

LEMMA FilledTyped ==
  ASSUME NEW O \in SUBSET Temporaries, IsFiniteSet(O)
  PROVE  Filled(O) \in Nat /\ Cardinality(O) \in Nat
<1> DEFINE f == [o \in O |-> charged_bytes(o.length)]
<1>1. (\A o \in O : f[o] \in Nat) /\ DOMAIN f = O
  BY ChargeIsMonotone DEF Temporaries
<1>2. Filled(O) = SumFunctionOnSet(f, O)
  BY <1>1 DEF Filled, SumFunction
<1> HIDE DEF f
<1> QED BY <1>1, <1>2, SumIsNatural, FS_CardinalityType

\* Files that a fault leaves behind are new ones.
LEMMA FilledGrows ==
  ASSUME NEW O \in SUBSET Temporaries, NEW N \in SUBSET Temporaries, IsFiniteSet(O), IsFiniteSet(N),
         O \cap N = {}
  PROVE  /\ IsFiniteSet(O \cup N) /\ Filled(O \cup N) = Filled(O) + Filled(N)
         /\ Cardinality(O \cup N) = Cardinality(O) + Cardinality(N)
<1> DEFINE f == [o \in O \cup N |-> charged_bytes(o.length)]
           g == [o \in O |-> charged_bytes(o.length)]
           h == [o \in N |-> charged_bytes(o.length)]
<1>1. /\ \A o \in O \cup N : f[o] \in Nat
      /\ \A o \in O : f[o] = g[o]
      /\ \A o \in N : f[o] = h[o]
      /\ DOMAIN f = O \cup N /\ DOMAIN g = O /\ DOMAIN h = N
  BY ChargeIsMonotone DEF Temporaries
<1>2. /\ Filled(O \cup N) = SumFunctionOnSet(f, O \cup N) /\ Filled(O) = SumFunctionOnSet(g, O)
      /\ Filled(N) = SumFunctionOnSet(h, N)
  BY <1>1 DEF Filled, SumFunction
<1> HIDE DEF f, g, h
<1>3. IsFiniteSet(O \cup N)
  BY FS_Union
<1>4. SumFunctionOnSet(f, O \cup N) = SumFunctionOnSet(f, O) + SumFunctionOnSet(f, N)
  BY <1>1, SumOfUnion
<1>5. SumFunctionOnSet(f, O) = SumFunctionOnSet(g, O) /\ SumFunctionOnSet(f, N) = SumFunctionOnSet(h, N)
  BY <1>1, SameSum
<1>6. Cardinality(O \cup N) = Cardinality(O) + Cardinality(N)
  <2>1. Cardinality(O \cap N) = 0
    BY FS_EmptySet
  <2>2. Cardinality(O \cup N) = Cardinality(O) + Cardinality(N) - Cardinality(O \cap N)
    BY FS_Union
  <2>3. Cardinality(O) \in Nat /\ Cardinality(N) \in Nat
    BY FS_CardinalityType
  <2> QED BY <2>1, <2>2, <2>3
<1> QED BY <1>2, <1>3, <1>4, <1>5, <1>6

LEMMA FilledOne ==
  ASSUME NEW o \in Temporaries
  PROVE  /\ IsFiniteSet({o}) /\ Cardinality({o}) = 1
         /\ Filled({o}) = charged_bytes(o.length)
<1> DEFINE f == [x \in {o} |-> charged_bytes(x.length)]
<1>1. f[o] \in Nat /\ f[o] = charged_bytes(o.length) /\ DOMAIN f = {o}
  BY ChargeIsMonotone DEF Temporaries
<1>2. Filled({o}) = SumFunctionOnSet(f, {o})
  BY <1>1 DEF Filled, SumFunction
<1> HIDE DEF f
<1> QED BY <1>1, <1>2, SumOfOne, FS_Singleton

\* At most one process writes a prefix: it holds the lock.
LEMMA PendingNone == ASSUME NEW g PROVE Pending({}, g) = 0
BY SumOfNothing DEF Pending, SumFunction

LEMMA PendingOne ==
  ASSUME NEW g, NEW p, Needs[g[p]] \in Prefixes
  PROVE  Pending({p}, g) = charged_bytes(PrefixLength[Needs[g[p]]])
<1> DEFINE f == [x \in {p} |-> charged_bytes(PrefixLength[Needs[g[x]]])]
<1>1. f[p] \in Nat /\ f[p] = charged_bytes(PrefixLength[Needs[g[p]]]) /\ DOMAIN f = {p}
  BY PartsTyped
<1>2. Pending({p}, g) = SumFunctionOnSet(f, {p})
  BY <1>1 DEF Pending, SumFunction
<1> HIDE DEF f
<1> QED BY <1>1, <1>2, SumOfOne

\* What the directory retains, term by term.
LEMMA Terms ==
  /\ RetainedBytes = Packed(packs, frames, torn) + PartBytes(parts) + LegacyCursorBytes
                       + Pending(Writing, goal) + Filled(orphans)
  /\ RetainedBytes' = Packed(packs', frames', torn') + PartBytes(parts') + LegacyCursorBytes
                       + Pending(Writing', goal') + Filled(orphans')
  /\ \A b : FrameGrowth(b) = Growth(packs, frames, torn, b)
  /\ \A b : FrameGrowth(b)' = Growth(packs', frames', torn', b)
BY DEF RetainedBytes, PublishedBytes, PackBytes, WritingBytes, OrphanBytes, Packed, Pending, Filled,
       PhysicalLength, ValidEnd, Length, End, FrameGrowth, Growth, PartBytes, LegacyCursorBytes

LEMMA LegacyTyped ==
  LegacyCursorBytes \in Nat /\ Cardinality(Legacy) \in Nat /\ MaxBytes \in Nat /\ MaxObjects \in Nat
<1>1. IsFiniteSet(Legacy)
  BY StoreAssumption, FS_Subset
<1>2. Cardinality(Legacy) \in Nat
  BY <1>1, FS_CardinalityType
<1>3. charged_bytes(FrameLength) \in Nat
  BY StoreAssumption, ChargeIsMonotone
<1> DEFINE n == Cardinality(Legacy)
           m == charged_bytes(FrameLength)
<1>4. n * m \in Nat
  <2> HIDE DEF n, m
  <2> QED BY <1>2, <1>3 DEF n, m
<1> QED BY <1>2, <1>4, StoreAssumption DEF LegacyCursorBytes

\* Whoever writes a prefix holds the lock, so that nobody else does.
LEMMA OneWriter ==
  ASSUME Exclusive, NEW p \in Processes, lock = p
  PROVE  Writing = IF pc[p] \in {"write_part", "rename_part"} THEN {p} ELSE {}
BY DEF Exclusive, Writing, Holding, Stages

LEMMA Reading ==
  ASSUME IInv, OrphansAreDistinct
  PROVE  /\ packs \in SUBSET Buckets /\ frames \in SUBSET Cursors /\ torn \in Tails
         /\ parts \in SUBSET Prefixes /\ orphans \in SUBSET Temporaries
         /\ IsFiniteSet(packs) /\ IsFiniteSet(parts) /\ IsFiniteSet(orphans)
         /\ Packed(packs, frames, torn) \in Nat /\ PartBytes(parts) \in Nat
         /\ Filled(orphans) \in Nat
         /\ Cardinality(packs) \in Nat /\ Cardinality(parts) \in Nat /\ Cardinality(orphans) \in Nat
<1>1. /\ packs \in SUBSET Buckets /\ frames \in SUBSET Cursors /\ torn \in Tails
      /\ parts \in SUBSET Prefixes /\ orphans \in SUBSET Temporaries /\ IsFiniteSet(orphans)
  BY DEF IInv, TypeOK, OrphansAreDistinct, Tails, Temporaries
<1> QED BY <1>1, PackedTyped, PartsTyped, FilledTyped, FS_CardinalityType

\* A prefix being written is counted with the length it will have.
LEMMA WriterTyped ==
  ASSUME IInv
  PROVE  /\ Pending(Writing, goal) \in Nat /\ Cardinality(Writing) \in Nat
         /\ \A p \in Writing :
              /\ Writing = {p} /\ lock = p /\ Needs[goal[p]] \in Prefixes \ parts
              /\ Pending(Writing, goal) = charged_bytes(PrefixLength[Needs[goal[p]]])
              /\ Cardinality(Writing) = 1
         /\ Writing = {} => Pending(Writing, goal) = 0 /\ Cardinality(Writing) = 0
<1>1. Writing = {} => Pending(Writing, goal) = 0 /\ Cardinality(Writing) = 0
  BY PendingNone, FS_EmptySet
<1>2. ASSUME NEW p \in Writing
      PROVE  /\ Writing = {p} /\ lock = p /\ Needs[goal[p]] \in Prefixes \ parts
             /\ Pending(Writing, goal) = charged_bytes(PrefixLength[Needs[goal[p]]])
             /\ Pending(Writing, goal) \in Nat /\ Cardinality(Writing) = 1
  <2>1. p \in Processes /\ pc[p] \in {"write_part", "rename_part"}
    BY DEF Writing
  <2>2. lock = p
    BY <2>1 DEF IInv, Exclusive, Holding, Stages
  <2>3. Writing = {p}
    BY <2>1, <2>2, OneWriter DEF IInv
  <2>4. Needs[goal[p]] \in Prefixes \ parts
    BY <2>1 DEF IInv, Publication
  <2>5. Pending({p}, goal) = charged_bytes(PrefixLength[Needs[goal[p]]])
    BY <2>4, PendingOne
  <2>6. charged_bytes(PrefixLength[Needs[goal[p]]]) \in Nat
    BY <2>4, PartsTyped
  <2>7. Cardinality({p}) = 1
    BY FS_Singleton
  <2> QED BY <2>2, <2>3, <2>4, <2>5, <2>6, <2>7
<1> QED BY <1>1, <1>2

\* Steps that neither create nor fill a file.
LEMMA QuietSpace ==
  ASSUME IInv, Space, UNCHANGED <<packs, frames, torn, parts, orphans, faults>>, Writing' = Writing,
         \A p \in Writing : goal'[p] = goal[p],
         \A p \in Processes : pc'[p] \in {"truncate", "append"} => pc[p] = pc'[p] /\ goal'[p] = goal[p]
  PROVE  Space'
<1>1. Pending(Writing', goal') = Pending(Writing, goal)
  <2>1. [p \in Writing |-> charged_bytes(PrefixLength[Needs[goal'[p]]])]
          = [p \in Writing |-> charged_bytes(PrefixLength[Needs[goal[p]]])]
    OBVIOUS
  <2> QED BY <2>1 DEF Pending
<1>2. RetainedBytes' = RetainedBytes /\ \A b : FrameGrowth(b)' = FrameGrowth(b)
  BY <1>1, Terms
<1>3. RetainedObjects' = RetainedObjects
  BY DEF RetainedObjects, PublishedObjects
<1>4. WithinLimits'
  BY <1>2, <1>3 DEF Space, WithinLimits, LegacyBytes, LegacyObjects, PartBytes, LegacyCursorBytes
<1>5. Reserved'
  <2> SUFFICES ASSUME NEW p \in Processes, pc'[p] \in {"truncate", "append"}
               PROVE  RetainedBytes' + Growth(packs', frames', torn', Bucket[goal'[p]]) <= MaxBytes
    BY Terms DEF Reserved
  <2>1. RetainedBytes + Growth(packs, frames, torn, Bucket[goal[p]]) <= MaxBytes
    BY Terms DEF Space, Reserved
  <2> QED BY <1>2, <2>1
<1>6. OrphansAreDistinct' /\ TornPacksExist'
  BY DEF Space, OrphansAreDistinct, TornPacksExist
<1> QED BY <1>4, <1>5, <1>6 DEF Space

\* The limits after a step that found room, or needed none.
LEMMA LimitsKept ==
  ASSUME Space,
         RetainedBytes' <= RetainedBytes \/ RetainedBytes' <= MaxBytes,
         RetainedObjects' <= RetainedObjects \/ RetainedObjects' <= MaxObjects,
         RetainedBytes \in Nat, RetainedBytes' \in Int, RetainedObjects \in Nat, RetainedObjects' \in Int
  PROVE  WithinLimits'
<1>1. LegacyBytes \in Nat /\ LegacyObjects \in Nat /\ MaxBytes \in Nat /\ MaxObjects \in Nat
  <2>1. LegacyParts \in SUBSET Prefixes
    BY StoreAssumption DEF LegacyParts
  <2>2. IsFiniteSet(LegacyParts) /\ PartBytes(LegacyParts) \in Nat
    BY <2>1, PartsTyped
  <2> QED BY <2>2, LegacyTyped, FS_CardinalityType DEF LegacyBytes, LegacyObjects
<1>2. LegacyBytes' = LegacyBytes /\ LegacyObjects' = LegacyObjects
  BY DEF LegacyBytes, LegacyObjects, PartBytes, LegacyParts, LegacyCursorBytes
<1>3. RetainedBytes' <= MaxBytes \/ RetainedBytes' <= LegacyBytes
  BY <1>1 DEF Space, WithinLimits
<1>4. RetainedObjects' <= MaxObjects \/ RetainedObjects' <= LegacyObjects
  BY <1>1 DEF Space, WithinLimits
<1> QED BY <1>2, <1>3, <1>4 DEF WithinLimits

LEMMA RetainedTyped ==
  ASSUME IInv, Space
  PROVE  RetainedBytes \in Nat /\ RetainedObjects \in Nat
<1>1. RetainedBytes \in Nat
  BY Reading, WriterTyped, LegacyTyped, Terms DEF Space
<1> QED BY <1>1, Reading, WriterTyped, LegacyTyped DEF Space, RetainedObjects, PublishedObjects

\* Only the holder of the lock is at a stage that writes.
LEMMA Alone ==
  ASSUME IInv, IInv', NEW p \in Processes, lock = p, lock' \in {p, NoOne},
         pc' = [pc EXCEPT ![p] = pc'[p]]
  PROVE  /\ Writing = IF pc[p] \in {"write_part", "rename_part"} THEN {p} ELSE {}
         /\ Writing' = IF pc'[p] \in {"write_part", "rename_part"} THEN {p} ELSE {}
         /\ \A q \in Processes : pc'[q] \in {"truncate", "append"} => q = p
<1>1. Writing = IF pc[p] \in {"write_part", "rename_part"} THEN {p} ELSE {}
  BY OneWriter DEF IInv
<1>2. \A q \in Processes \ {p} : pc'[q] = pc[q] /\ pc[q] \notin Holding
  BY DEF IInv, Exclusive, TypeOK
<1>3. Writing' = {q \in Processes : pc'[q] \in {"write_part", "rename_part"}}
  BY DEF Writing
<1> QED BY <1>1, <1>2, <1>3 DEF Holding, Stages

\* Room for the whole prefix is found before its file is created.
LEMMA ReservePartSpace ==
  ASSUME IInv, IInv', Space, NEW p \in Processes, ReservePart(p)
  PROVE  Space'
<1> DEFINE charge == charged_bytes(PrefixLength[Needs[goal[p]]])
<1>1. /\ pc[p] = "reserve_part" /\ pc' = [pc EXCEPT ![p] = "write_part"] /\ lock = p
      /\ pc'[p] = "write_part"
      /\ UNCHANGED <<goal, lock, packs, frames, torn, parts, orphans, faults>>
  BY DEF ReservePart, Goto, requestVars, storeVars, IInv, TypeOK, Exclusive, Holding, Stages
<1>2. Writing = {} /\ Writing' = {p} /\ \A q \in Processes : pc'[q] \in {"truncate", "append"} => q = p
  BY <1>1, Alone
<1>3. Needs[goal[p]] \in Prefixes
  BY <1>1 DEF IInv, Publication
<1>4. Pending(Writing', goal') = charge /\ Pending(Writing, goal) = 0
  BY <1>1, <1>2, <1>3, PendingOne, PendingNone
<1>5. charge \in Nat
  BY <1>3, PartsTyped
<1>6. RetainedBytes + charge <= MaxBytes /\ RetainedObjects + 1 <= MaxObjects
  BY DEF ReservePart, PartFits, Fits
<1>7. RetainedBytes \in Nat /\ RetainedObjects \in Nat
  BY RetainedTyped
<1>8. RetainedBytes' = RetainedBytes + charge
  <2> HIDE DEF charge
  <2> QED BY <1>1, <1>4, <1>5, Reading, Terms, LegacyTyped DEF Space
<1>9. RetainedObjects' = RetainedObjects + 1
  <2>1. Cardinality(Writing) = 0 /\ Cardinality(Writing') = 1
    BY <1>2, FS_EmptySet, FS_Singleton
  <2> QED BY <1>1, <2>1, Reading, LegacyTyped DEF Space, RetainedObjects, PublishedObjects
<1> HIDE DEF charge
<1>10. WithinLimits'
  BY <1>5, <1>6, <1>7, <1>8, <1>9, LimitsKept
<1>11. OrphansAreDistinct' /\ TornPacksExist' /\ Reserved'
  BY <1>1, <1>2 DEF Space, OrphansAreDistinct, TornPacksExist, Reserved
<1> QED BY <1>10, <1>11 DEF Space

\* The prefix takes the place of its temporary file.
LEMMA RenamePartSpace ==
  ASSUME IInv, IInv', Space, NEW p \in Processes, RenamePart(p)
  PROVE  Space'
<1> DEFINE d == Needs[goal[p]]
           charge == charged_bytes(PrefixLength[d])
<1>1. /\ pc[p] = "rename_part" /\ pc' = [pc EXCEPT ![p] = "sync_stage"] /\ lock = p
      /\ pc'[p] = "sync_stage" /\ parts' = parts \cup {d}
      /\ UNCHANGED <<goal, lock, packs, frames, torn, orphans, faults>>
  BY DEF RenamePart, Goto, requestVars, storeVars, IInv, TypeOK, Exclusive, Holding, Stages
<1>2. Writing = {p} /\ Writing' = {} /\ \A q \in Processes : pc'[q] \in {"truncate", "append"} => q = p
  BY <1>1, Alone
<1>3. d \in Prefixes \ parts
  BY <1>1 DEF IInv, Publication
<1>4. Pending(Writing', goal') = 0 /\ Pending(Writing, goal) = charge /\ charge \in Nat
  BY <1>1, <1>2, <1>3, PendingOne, PendingNone, PartsTyped
<1>5. /\ PartBytes(parts') = PartBytes(parts) + charge
      /\ Cardinality(parts') = Cardinality(parts) + 1
  BY <1>1, <1>3, Reading, PartsAdd DEF Space
<1>6. RetainedBytes \in Nat /\ RetainedObjects \in Nat
  BY RetainedTyped
<1> HIDE DEF charge, d
<1>7. RetainedBytes' = RetainedBytes
  BY <1>1, <1>4, <1>5, Reading, Terms, LegacyTyped DEF Space
<1>8. RetainedObjects' = RetainedObjects
  <2>1. Cardinality(Writing) = 1 /\ Cardinality(Writing') = 0
    BY <1>2, FS_EmptySet, FS_Singleton
  <2> QED BY <1>1, <1>5, <2>1, Reading, LegacyTyped DEF Space, RetainedObjects, PublishedObjects
<1>9. WithinLimits'
  BY <1>6, <1>7, <1>8, LimitsKept
<1>10. OrphansAreDistinct' /\ TornPacksExist' /\ Reserved'
  BY <1>1, <1>2 DEF Space, OrphansAreDistinct, TornPacksExist, Reserved
<1> QED BY <1>9, <1>10 DEF Space

\* A step within one pack.
LEMMA PackStep ==
  ASSUME IInv, IInv', Space, NEW p \in Processes, lock = p, lock' = p,
         pc[p] \in {"reserve_frame", "truncate", "append"}, pc' = [pc EXCEPT ![p] = pc'[p]],
         pc'[p] \in {"truncate", "append", "sync_pack"},
         UNCHANGED <<goal, parts, orphans, faults>>
  PROVE  LET b == Bucket[goal[p]] IN
         /\ b \in Buckets /\ packs' \in SUBSET Buckets /\ frames' \in SUBSET Cursors /\ torn' \in Tails
         /\ RetainedBytes' = RetainedBytes - Packed(packs, frames, torn) + Packed(packs', frames', torn')
         /\ \A q \in Processes : pc'[q] \in {"truncate", "append"} => q = p
         /\ RetainedObjects' = RetainedObjects - Cardinality(packs) + Cardinality(packs')
<1>1. /\ Writing = {} /\ Writing' = {}
      /\ \A q \in Processes : pc'[q] \in {"truncate", "append"} => q = p
  BY Alone
<1>2. Pending(Writing', goal') = 0 /\ Pending(Writing, goal) = 0
  BY <1>1, PendingNone
<1>3. goal[p] \in Cursors
  BY DEF IInv, Publication, Holding, Stages
<1>4. packs' \in SUBSET Buckets /\ frames' \in SUBSET Cursors /\ torn' \in Tails /\ Bucket[goal[p]] \in Buckets
  BY <1>3, StoreAssumption DEF IInv, TypeOK, Tails
<1>5. Packed(packs', frames', torn') \in Nat /\ IsFiniteSet(packs')
  BY <1>4, PackedTyped
<1>6. RetainedBytes' = RetainedBytes - Packed(packs, frames, torn) + Packed(packs', frames', torn')
  BY <1>2, <1>5, Reading, Terms, LegacyTyped DEF Space
<1>7. Cardinality(Writing) = 0 /\ Cardinality(Writing') = 0 /\ Cardinality(packs') \in Nat
  BY <1>1, <1>5, FS_EmptySet, FS_CardinalityType
<1>8. RetainedObjects' = RetainedObjects - Cardinality(packs) + Cardinality(packs')
  BY <1>7, Reading, LegacyTyped DEF Space, RetainedObjects, PublishedObjects
<1> QED BY <1>1, <1>4, <1>6, <1>8

\* The pack is created within the room that was found for the frame.
LEMMA ReserveFrameSpace ==
  ASSUME IInv, IInv', Space, NEW p \in Processes, ReserveFrame(p)
  PROVE  Space'
<1> DEFINE b == Bucket[goal[p]]
           old == charged_bytes(Length(frames, torn, b))
           new == charged_bytes(End(frames, b) + FrameLength)
<1>1. /\ pc[p] = "reserve_frame" /\ pc' = [pc EXCEPT ![p] = "truncate"] /\ lock = p /\ lock' = p
      /\ pc'[p] = "truncate" /\ packs' = packs \cup {b}
      /\ UNCHANGED <<goal, frames, torn, parts, orphans, faults>>
  BY DEF ReserveFrame, Goto, requestVars, storeVars, IInv, TypeOK, Exclusive, Holding, Stages
<1>2. /\ b \in Buckets
      /\ RetainedBytes' = RetainedBytes - Packed(packs, frames, torn) + Packed(packs', frames, torn)
      /\ \A q \in Processes : pc'[q] \in {"truncate", "append"} => q = p
      /\ RetainedObjects' = RetainedObjects - Cardinality(packs) + Cardinality(packs')
  BY <1>1, PackStep
<1>3. /\ RetainedBytes + Growth(packs, frames, torn, b) <= MaxBytes
      /\ RetainedObjects + (IF b \in packs THEN 0 ELSE 1) <= MaxObjects
  BY Terms DEF ReserveFrame, FrameFits, Fits
<1>4. RetainedBytes \in Nat /\ RetainedObjects \in Nat /\ MaxBytes \in Nat
  BY RetainedTyped, LegacyTyped
<1>5. /\ old \in Nat /\ new \in Nat /\ old <= new
      /\ Growth(packs, frames, torn, b) = new - (IF b \in packs THEN old ELSE 0)
      /\ Growth(packs', frames, torn, b) = new - old
  <2>1. frames \in SUBSET Cursors /\ torn \in Tails /\ b \in Buckets /\ b \in packs'
    BY <1>1, <1>2, Reading DEF Space
  <2> HIDE DEF b
  <2>2. old \in Nat /\ new \in Nat /\ old <= new
    BY <2>1, LengthTyped, ChargeIsMonotone
  <2>3. /\ Growth(packs, frames, torn, b) = new - (IF b \in packs THEN old ELSE 0)
        /\ Growth(packs', frames, torn, b) = new - old
    BY <2>1, GrowthTyped
  <2> QED BY <2>2, <2>3
<1>6. /\ Packed(packs', frames, torn) = Packed(packs, frames, torn) + (IF b \in packs THEN 0 ELSE old)
      /\ Cardinality(packs') = Cardinality(packs) + (IF b \in packs THEN 0 ELSE 1)
  <2>1. CASE b \in packs
    <3>1. packs' = packs
      BY <1>1, <2>1
    <3> QED BY <2>1, <3>1, Reading DEF Space
  <2>2. CASE b \notin packs
    <3>1. b \in Buckets \ packs
      BY <1>2, <2>2
    <3> HIDE DEF b
    <3> QED BY <1>1, <2>2, <3>1, Reading, PackedGrows DEF Space
  <2> QED BY <2>1, <2>2
<1> HIDE DEF old, new
<1>7. /\ RetainedBytes' = RetainedBytes + (IF b \in packs THEN 0 ELSE old)
      /\ RetainedObjects' = RetainedObjects + (IF b \in packs THEN 0 ELSE 1)
  <2> HIDE DEF b
  <2> QED BY <1>2, <1>4, <1>5, <1>6, Reading DEF Space
<1>8. /\ RetainedBytes' + Growth(packs', frames, torn, b) <= MaxBytes
      /\ RetainedBytes' \in Nat /\ RetainedBytes' <= MaxBytes
      /\ RetainedObjects' \in Nat /\ RetainedObjects' <= MaxObjects
  <2> HIDE DEF b
  <2> QED BY <1>3, <1>4, <1>5, <1>7
<1>9. WithinLimits'
  BY <1>4, <1>8, LimitsKept
<1>10. Reserved'
  BY <1>1, <1>2, <1>8, Terms DEF Reserved
<1>11. OrphansAreDistinct' /\ TornPacksExist'
  BY <1>1 DEF Space, OrphansAreDistinct, TornPacksExist
<1> QED BY <1>9, <1>10, <1>11 DEF Space

\* A torn tail, cut or written, stays within the room of its frame.
LEMMA TailSpace ==
  ASSUME IInv, IInv', Space, NEW p \in Processes, TruncateTail(p) \/ AppendSome(p)
  PROVE  Space'
<1> DEFINE b == Bucket[goal[p]]
           old == charged_bytes(Length(frames, torn, b))
           now == charged_bytes(Length(frames, torn', b))
           new == charged_bytes(End(frames, b) + FrameLength)
<1>1. /\ pc[p] \in {"truncate", "append"} /\ pc' = [pc EXCEPT ![p] = "append"] /\ lock = p /\ lock' = p
      /\ pc'[p] = "append"
      /\ UNCHANGED <<goal, packs, frames, parts, orphans, faults>>
      /\ torn' = [torn EXCEPT ![b] = torn'[b]]
  <2>1. CASE TruncateTail(p)
    <3>1. b \in Buckets
      BY <2>1, StoreAssumption DEF TruncateTail, Goto, IInv, Publication, Holding, Stages
    <3> QED BY <2>1, <3>1 DEF TruncateTail, Goto, requestVars, storeVars, IInv, TypeOK, Exclusive, Holding, Stages
  <2>2. CASE AppendSome(p)
    <3>1. b \in Buckets
      BY <2>2, StoreAssumption DEF AppendSome, IInv, Publication, Holding, Stages
    <3> QED BY <2>2, <3>1 DEF AppendSome, requestVars, storeVars, IInv, TypeOK, Exclusive, Holding, Stages
  <2> QED BY <2>1, <2>2
<1>2. /\ b \in Buckets /\ torn' \in Tails
      /\ RetainedBytes' = RetainedBytes - Packed(packs, frames, torn) + Packed(packs, frames, torn')
      /\ \A q \in Processes : pc'[q] \in {"truncate", "append"} => q = p
      /\ RetainedObjects' = RetainedObjects - Cardinality(packs) + Cardinality(packs)
  BY <1>1, PackStep
<1>3. RetainedBytes + Growth(packs, frames, torn, b) <= MaxBytes
  BY <1>1, Terms DEF Space, Reserved
<1>4. RetainedBytes \in Nat /\ RetainedObjects \in Nat /\ MaxBytes \in Nat
  BY RetainedTyped, LegacyTyped
<1>5. b \in packs
  BY <1>1 DEF IInv, Publication
<1>6. /\ old \in Nat /\ now \in Nat /\ new \in Nat /\ now <= new
      /\ Growth(packs, frames, torn, b) = new - old
      /\ Growth(packs, frames, torn', b) = new - now
  <2>1. frames \in SUBSET Cursors /\ torn \in Tails /\ b \in Buckets /\ b \in packs /\ torn' \in Tails
    BY <1>2, <1>5, Reading DEF Space
  <2> HIDE DEF b
  <2>2. old \in Nat /\ now \in Nat /\ new \in Nat /\ now <= new
    BY <2>1, LengthTyped, ChargeIsMonotone
  <2>3. Growth(packs, frames, torn, b) = new - old
    BY <2>1, GrowthTyped
  <2>4. Growth(packs, frames, torn', b) = new - now
    BY <2>1, GrowthTyped
  <2> QED BY <2>2, <2>3, <2>4
<1>7. Packed(packs, frames, torn') = Packed(packs, frames, torn) - old + now
  <2>1. packs \in SUBSET Buckets /\ frames \in SUBSET Cursors /\ torn \in Tails /\ torn' \in Tails
    BY <1>2, Reading DEF Space
  <2>2. \A a \in packs \ {b} : Length(frames, torn', a) = Length(frames, torn, a)
    <3> HIDE DEF b
    <3>1. \A a \in Buckets \ {b} : torn'[a] = torn[a]
      BY <1>1, <2>1 DEF Tails
    <3> QED BY <2>1, <3>1 DEF Length
  <2> HIDE DEF b
  <2>3. Packed(packs, frames, torn') = Packed(packs, frames, torn) - charged_bytes(Length(frames, torn, b))
                                         + charged_bytes(Length(frames, torn', b))
    BY <1>5, <2>1, <2>2, PackedChanges
  <2> QED BY <2>3
<1>8. RetainedObjects' = RetainedObjects
  BY <1>2, <1>4, Reading DEF Space
<1> HIDE DEF old, now, new
<1>9. /\ RetainedBytes' = RetainedBytes - old + now
      /\ RetainedBytes' + Growth(packs, frames, torn', b) <= MaxBytes
      /\ RetainedBytes' <= MaxBytes
  <2>1. RetainedBytes' = RetainedBytes - old + now
    <3> HIDE DEF b
    <3> QED BY <1>2, <1>4, <1>6, <1>7, Reading DEF Space
  <2> HIDE DEF b
  <2> QED BY <1>3, <1>4, <1>6, <2>1
<1>10. WithinLimits'
  BY <1>4, <1>6, <1>8, <1>9, LimitsKept
<1>11. Reserved'
  BY <1>1, <1>2, <1>9, Terms DEF Reserved
<1>12. OrphansAreDistinct' /\ TornPacksExist'
  <2>1. \A a \in Buckets \ packs : torn'[a] = torn[a]
    <3> HIDE DEF b
    <3> QED BY <1>1, <1>5, Reading DEF Space, Tails
  <2> QED BY <1>1, <2>1 DEF Space, OrphansAreDistinct, TornPacksExist
<1> QED BY <1>10, <1>11, <1>12 DEF Space

\* One frame more makes the pack longer by its length.
LEMMA EndGrows ==
  ASSUME NEW F \in SUBSET Cursors, NEW c \in Cursors \ F
  PROVE  /\ End(F \cup {c}, Bucket[c]) = End(F, Bucket[c]) + FrameLength
         /\ \A b \in Buckets \ {Bucket[c]} : End(F \cup {c}, b) = End(F, b)
<1> DEFINE S(b) == {x \in F : Bucket[x] = b}
           T(b) == {x \in F \cup {c} : Bucket[x] = b}
           n == Cardinality(S(Bucket[c]))
<1>1. T(Bucket[c]) = S(Bucket[c]) \cup {c} /\ c \notin S(Bucket[c])
  OBVIOUS
<1>2. \A b \in Buckets \ {Bucket[c]} : T(b) = S(b)
  OBVIOUS
<1>3. IsFiniteSet(S(Bucket[c]))
  BY StoreAssumption, FS_Subset
<1>4. n \in Nat
  BY <1>3, FS_CardinalityType
<1>5. Cardinality(T(Bucket[c])) = n + 1
  <2> HIDE DEF S, T
  <2> QED BY <1>1, <1>3, FS_AddElement
<1>6. FrameLength \in Nat
  BY StoreAssumption
<1>7. (n + 1) * FrameLength = n * FrameLength + FrameLength
  <2> HIDE DEF n
  <2> QED BY <1>4, <1>6
<1>8. End(F \cup {c}, Bucket[c]) = (n + 1) * FrameLength /\ End(F, Bucket[c]) = n * FrameLength
  BY <1>5 DEF End
<1>9. \A b \in Buckets \ {Bucket[c]} : End(F \cup {c}, b) = End(F, b)
  BY <1>2 DEF End
<1> HIDE DEF n
<1> QED BY <1>7, <1>8, <1>9

\* The frame takes the room that was found for it.
LEMMA AppendAllSpace ==
  ASSUME IInv, IInv', Space, NEW p \in Processes, AppendAll(p)
  PROVE  Space'
<1> DEFINE b == Bucket[goal[p]]
           old == charged_bytes(Length(frames, torn, b))
           now == charged_bytes(Length(frames', torn', b))
           new == charged_bytes(End(frames, b) + FrameLength)
<1>1. /\ pc[p] = "append" /\ pc' = [pc EXCEPT ![p] = "sync_pack"] /\ lock = p /\ lock' = p
      /\ pc'[p] = "sync_pack" /\ frames' = frames \cup {goal[p]}
      /\ UNCHANGED <<goal, packs, parts, orphans, faults>>
      /\ torn' = [torn EXCEPT ![b] = 0]
  BY DEF AppendAll, Goto, requestVars, storeVars, IInv, TypeOK, Exclusive, Holding, Stages
<1>2. /\ b \in Buckets /\ torn' \in Tails /\ frames' \in SUBSET Cursors
      /\ RetainedBytes' = RetainedBytes - Packed(packs, frames, torn) + Packed(packs, frames', torn')
      /\ \A q \in Processes : pc'[q] \in {"truncate", "append"} => q = p
      /\ RetainedObjects' = RetainedObjects - Cardinality(packs) + Cardinality(packs)
  BY <1>1, PackStep
<1>3. RetainedBytes + Growth(packs, frames, torn, b) <= MaxBytes
  BY <1>1, Terms DEF Space, Reserved
<1>4. RetainedBytes \in Nat /\ RetainedObjects \in Nat /\ MaxBytes \in Nat
  BY RetainedTyped, LegacyTyped
<1>5. b \in packs /\ goal[p] \in Cursors \ frames
  BY <1>1 DEF IInv, Publication, Holding, Stages
<1>6. packs \in SUBSET Buckets /\ frames \in SUBSET Cursors /\ torn \in Tails
  BY Reading DEF Space
<1>7. /\ End(frames', b) = End(frames, b) + FrameLength
      /\ \A a \in Buckets \ {b} : End(frames', a) = End(frames, a)
  BY <1>1, <1>5, <1>6, EndGrows
<1>8. torn'[b] = 0 /\ \A a \in Buckets \ {b} : torn'[a] = torn[a]
  <2> HIDE DEF b
  <2> QED BY <1>1, <1>2, <1>6 DEF Tails
<1>9. /\ old \in Nat /\ new \in Nat /\ now = new
      /\ Growth(packs, frames, torn, b) = new - old
  <2>1. Length(frames', torn', b) = End(frames, b) + FrameLength
    <3>1. End(frames, b) \in Nat /\ FrameLength \in Nat
      BY <1>2, <1>6, LengthTyped
    <3>2. Length(frames', torn', b) = End(frames', b) + torn'[b]
      BY DEF Length
    <3> HIDE DEF b
    <3> QED BY <1>7, <1>8, <3>1, <3>2
  <2>2. now = new
    BY <2>1
  <2> HIDE DEF b, now
  <2> QED BY <1>2, <1>5, <1>6, <2>2, LengthTyped, GrowthTyped
<1>10. Packed(packs, frames', torn') = Packed(packs, frames, torn) - old + now
  <2>1. \A a \in packs \ {b} : Length(frames', torn', a) = Length(frames, torn, a)
    <3> HIDE DEF b
    <3> QED BY <1>6, <1>7, <1>8 DEF Length
  <2> HIDE DEF b
  <2>2. Packed(packs, frames', torn') = Packed(packs, frames, torn) - charged_bytes(Length(frames, torn, b))
                                         + charged_bytes(Length(frames', torn', b))
    BY <1>2, <1>5, <1>6, <2>1, PackedChanges
  <2> QED BY <2>2
<1> HIDE DEF old, now, new
<1>11. RetainedBytes' \in Int /\ RetainedBytes' <= MaxBytes /\ RetainedObjects' = RetainedObjects
  <2>1. RetainedBytes' = RetainedBytes - old + new
    <3> HIDE DEF b
    <3> QED BY <1>2, <1>4, <1>9, <1>10, Reading DEF Space
  <2> HIDE DEF b
  <2> QED BY <1>2, <1>3, <1>4, <1>9, <2>1, Reading DEF Space
<1>12. WithinLimits'
  BY <1>4, <1>11, LimitsKept
<1>13. Reserved'
  BY <1>1, <1>2 DEF Reserved
<1>14. OrphansAreDistinct' /\ TornPacksExist'
  BY <1>1, <1>5, <1>8 DEF Space, OrphansAreDistinct, TornPacksExist
<1> QED BY <1>12, <1>13, <1>14 DEF Space

\* A killed process leaves no more than the prefix it was counted with.
LEMMA DeathSpace ==
  ASSUME IInv, IInv', Space, NEW p \in Processes, Die(p)
  PROVE  Space'
<1>1. /\ pc' = [pc EXCEPT ![p] = "idle"] /\ goal' = [goal EXCEPT ![p] = NoCursor] /\ faults' = faults + 1
      /\ UNCHANGED <<packs, frames, torn, parts>> /\ AbandonTemporary(p) /\ faults \in Nat
      /\ pc \in [Processes -> Stages] /\ goal \in [Processes -> Cursors \cup {NoCursor}]
  BY DEF Die, IInv, TypeOK
<1>2. Writing' = Writing \ {p} /\ Reserved' = \A q \in Processes :
        pc'[q] \in {"truncate", "append"} => RetainedBytes' + Growth(packs, frames, torn, Bucket[goal'[q]]) <= MaxBytes
  <2>1. Writing' = {q \in Processes : pc'[q] \in {"write_part", "rename_part"}}
    BY DEF Writing
  <2>2. Writing' = Writing \ {p}
    BY <1>1, <2>1 DEF Writing
  <2> QED BY <1>1, <2>2, Terms DEF Reserved
<1>3. OrphansAreDistinct'
  <2>1. orphans' = orphans \/ \E o : orphans' = orphans \cup {o} /\ o.at = faults
    BY <1>1 DEF AbandonTemporary
  <2>2. CASE orphans' = orphans
    BY <1>1, <2>2 DEF Space, OrphansAreDistinct, IInv, TypeOK
  <2>3. ASSUME NEW o, orphans' = orphans \cup {o}, o.at = faults PROVE OrphansAreDistinct'
    <3>1. IsFiniteSet(orphans')
      BY <2>3, FS_AddElement DEF Space, OrphansAreDistinct
    <3> QED BY <1>1, <2>3, <3>1 DEF Space, OrphansAreDistinct, IInv, TypeOK
  <2> QED BY <2>1, <2>2, <2>3
<1>4. RetainedBytes \in Nat /\ RetainedObjects \in Nat
  BY RetainedTyped
<1>5. CASE p \notin Writing
  <2>1. orphans' = orphans /\ Writing' = Writing
    BY <1>1, <1>2, <1>5 DEF AbandonTemporary
  <2>2. \A q \in Writing : goal'[q] = goal[q]
    BY <1>1, <1>5 DEF Writing
  <2>3. [q \in Writing |-> charged_bytes(PrefixLength[Needs[goal'[q]]])]
          = [q \in Writing |-> charged_bytes(PrefixLength[Needs[goal[q]]])]
    BY <2>2
  <2>4. Pending(Writing', goal') = Pending(Writing, goal)
    BY <2>1, <2>3 DEF Pending
  <2>5. RetainedBytes' = RetainedBytes
    BY <1>1, <2>1, <2>4, Terms
  <2>6. RetainedObjects' = RetainedObjects
    BY <1>1, <2>1 DEF RetainedObjects, PublishedObjects
  <2>7. WithinLimits'
    BY <1>4, <2>5, <2>6, LimitsKept
  <2>8. Reserved'
    <3>1. ASSUME NEW q \in Processes, pc'[q] \in {"truncate", "append"}
          PROVE  RetainedBytes' + Growth(packs, frames, torn, Bucket[goal'[q]]) <= MaxBytes
      <4>1. q # p /\ pc[q] = pc'[q] /\ goal[q] = goal'[q]
        BY <1>1, <3>1
      <4> QED BY <3>1, <2>5, <4>1, Terms DEF Space, Reserved
    <3> QED BY <1>2, <3>1
  <2>9. TornPacksExist'
    BY <1>1 DEF Space, TornPacksExist
  <2> QED BY <1>3, <2>7, <2>8, <2>9 DEF Space
<1>6. CASE p \in Writing
  <2> DEFINE charge == charged_bytes(PrefixLength[Needs[goal[p]]])
  <2>1. /\ Writing = {p} /\ lock = p /\ Needs[goal[p]] \in Prefixes
        /\ Pending(Writing, goal) = charge /\ Cardinality(Writing) = 1
    BY <1>6, WriterTyped
  <2>2. Writing' = {} /\ Pending(Writing', goal') = 0 /\ Cardinality(Writing') = 0
    BY <1>2, <2>1, PendingNone, FS_EmptySet
  <2>3. charge \in Nat /\ PrefixLength[Needs[goal[p]]] \in Nat
    BY <2>1, PartsTyped, StoreAssumption
  <2>4. /\ Filled(orphans') \in Nat /\ Filled(orphans') <= Filled(orphans) + charge
        /\ Cardinality(orphans') \in Nat /\ Cardinality(orphans') <= Cardinality(orphans) + 1
    <3>1. CASE orphans' = orphans
      <4> HIDE DEF charge
      <4> QED BY <2>3, <3>1, Reading DEF Space
    <3>2. ASSUME NEW n \in 0..PrefixLength[Needs[goal[p]]],
                 orphans' = orphans \cup {[of |-> Needs[goal[p]], at |-> faults, length |-> n]}
          PROVE  /\ Filled(orphans') \in Nat /\ Filled(orphans') <= Filled(orphans) + charge
                 /\ Cardinality(orphans') \in Nat /\ Cardinality(orphans') <= Cardinality(orphans) + 1
      <4> DEFINE o == [of |-> Needs[goal[p]], at |-> faults, length |-> n]
      <4>1. o \in Temporaries /\ o.length = n /\ n \in Nat /\ o.at = faults
        BY <1>1, <2>1, <2>3 DEF Temporaries
      <4>2. charged_bytes(n) \in Nat /\ charged_bytes(n) <= charge
        BY <2>3, <4>1, ChargeIsMonotone
      <4>3. orphans \cap {o} = {} /\ orphans' = orphans \cup {o}
        <5>1. \A x \in orphans : x.at < faults /\ x.at \in Nat
          BY DEF Space, OrphansAreDistinct, IInv, TypeOK
        <5>2. o \notin orphans
          <6> HIDE DEF o
          <6> QED BY <1>1, <4>1, <5>1
        <5> QED BY <3>2, <5>2
      <4> HIDE DEF o, charge
      <4>4. IsFiniteSet({o}) /\ Cardinality({o}) = 1 /\ Filled({o}) = charged_bytes(n)
        BY <4>1, FilledOne
      <4>5. /\ Filled(orphans \cup {o}) = Filled(orphans) + Filled({o})
            /\ Cardinality(orphans \cup {o}) = Cardinality(orphans) + Cardinality({o})
        BY <4>1, <4>3, <4>4, Reading, FilledGrows DEF Space
      <4> QED BY <2>3, <4>2, <4>3, <4>4, <4>5, Reading DEF Space
    <3> QED BY <1>1, <3>1, <3>2 DEF AbandonTemporary
  <2> HIDE DEF charge
  <2>5. RetainedBytes' \in Int /\ RetainedBytes' <= RetainedBytes
    BY <1>1, <2>1, <2>2, <2>3, <2>4, Terms, Reading, LegacyTyped DEF Space
  <2>6. RetainedObjects' \in Int /\ RetainedObjects' <= RetainedObjects
    BY <1>1, <2>1, <2>2, <2>4, Reading, LegacyTyped DEF Space, RetainedObjects, PublishedObjects
  <2>7. WithinLimits'
    BY <1>4, <2>5, <2>6, LimitsKept
  <2>8. Reserved'
    <3>1. \A q \in Processes : pc'[q] \notin {"truncate", "append"}
      BY <1>1, <2>1 DEF IInv, Exclusive, Holding, Stages
    <3> QED BY <3>1 DEF Reserved
  <2>9. TornPacksExist'
    BY <1>1 DEF Space, TornPacksExist
  <2> QED BY <1>3, <2>7, <2>8, <2>9 DEF Space
<1> QED BY <1>5, <1>6

\* Renames that a loss of power undoes leave files as long as the prefixes were.
LEMMA UndoneRenames ==
  ASSUME NEW D \in SUBSET Prefixes, NEW n \in Nat
  PROVE  LET undone == {[of |-> d, at |-> n, length |-> PrefixLength[d]] : d \in D}
         IN /\ undone \in SUBSET Temporaries /\ IsFiniteSet(undone)
            /\ Filled(undone) = PartBytes(D) /\ Cardinality(undone) = Cardinality(D)
<1> DEFINE undone == {[of |-> d, at |-> n, length |-> PrefixLength[d]] : d \in D}
           name == [d \in D |-> [of |-> d, at |-> n, length |-> PrefixLength[d]]]
           f == [o \in undone |-> charged_bytes(o.length)]
           g == [d \in D |-> f[name[d]]]
           h == [d \in Prefixes |-> charged_bytes(PrefixLength[d])]
<1>1. \A d \in Prefixes : PrefixLength[d] \in Nat
  BY StoreAssumption
<1>2. undone \in SUBSET Temporaries
  BY <1>1 DEF Temporaries
<1>3. undone = {name[d] : d \in D} /\ \A d, e \in D : name[d] = name[e] => d = e
  OBVIOUS
<1>4. \A d \in D : name[d] \in undone /\ name[d].length = PrefixLength[d]
  OBVIOUS
<1>5. \A d \in D : f[name[d]] = charged_bytes(PrefixLength[d]) /\ f[name[d]] \in Nat
  <2> HIDE DEF undone, name
  <2> QED BY <1>4, PartsTyped
<1>6. \A d \in D : g[d] = h[d]
  <2> HIDE DEF f, name
  <2> QED BY <1>5
<1>7. DOMAIN f = undone
  OBVIOUS
<1>8. Filled(undone) = SumFunctionOnSet(f, undone)
  BY <1>7 DEF Filled, SumFunction
<1>9. IsFiniteSet(D) /\ PartBytes(D) = SumFunctionOnSet(h, D)
  BY PartsTyped
<1>10. SumFunctionOnSet(g, D) = SumFunctionOnSet(h, D)
  <2> HIDE DEF g, h
  <2> QED BY <1>6, <1>9, SameSum
<1> HIDE DEF f, h, undone, name
<1>11. /\ IsFiniteSet({name[d] : d \in D}) /\ Cardinality({name[d] : d \in D}) = Cardinality(D)
       /\ SumFunctionOnSet(f, {name[d] : d \in D}) = SumFunctionOnSet(g, D)
  BY <1>3, <1>5, <1>9, SumOfImage
<1> QED BY <1>2, <1>3, <1>8, <1>9, <1>10, <1>11 DEF undone

\* What a loss of power leaves of a pack is not longer than the pack was.
LEMMA PowerLossShortens ==
  ASSUME IInv, Space, PowerLoss, NEW b \in packs'
  PROVE  Length(frames', torn', b) <= Length(frames, torn, b)
<1> DEFINE S == {c \in frames : Bucket[c] = b}
           T == {c \in frames' : Bucket[c] = b}
           m == Cardinality(S)
           n == Cardinality(T)
<1>1. /\ frames' \subseteq frames /\ frames \in SUBSET Cursors /\ b \in Buckets
      /\ torn \in Tails /\ torn' \in Tails
      /\ S \subseteq frames' => torn'[b] <= torn[b]
  BY Reading DEF PowerLoss, Space, Tails
<1>2. T \subseteq S /\ IsFiniteSet(S) /\ (T = S => S \subseteq frames')
  BY <1>1, StoreAssumption, FS_Subset
<1>3. m \in Nat /\ n \in Nat /\ n <= m /\ (n = m => T = S)
  BY <1>2, FS_Subset, FS_CardinalityType
<1>4. torn[b] \in 0..(FrameLength - 1) /\ torn'[b] \in 0..(FrameLength - 1) /\ FrameLength \in Nat
  BY <1>1, StoreAssumption DEF Tails
<1>5. Length(frames, torn, b) = m * FrameLength + torn[b]
  BY DEF Length, End
<1>6. Length(frames', torn', b) = n * FrameLength + torn'[b]
  BY DEF Length, End
<1>7. CASE n = m
  <2>1. torn'[b] <= torn[b]
    BY <1>1, <1>2, <1>3, <1>7
  <2>2. m * FrameLength \in Nat
    <3> HIDE DEF m
    <3> QED BY <1>3, <1>4
  <2> DEFINE k == m * FrameLength
  <2>3. n * FrameLength = k
    BY <1>7
  <2> HIDE DEF m, n, k
  <2>4. k \in Nat
    BY <2>2 DEF k
  <2> QED BY <1>4, <1>5, <1>6, <2>1, <2>3, <2>4 DEF k
<1>8. CASE n < m
  <2> HIDE DEF m, n
  <2> DEFINE k == m - n - 1
  <2>1. k \in Nat /\ m = n + 1 + k
    BY <1>3, <1>8
  <2> HIDE DEF k
  <2>2. m * FrameLength = n * FrameLength + FrameLength + k * FrameLength
    BY <1>3, <1>4, <2>1
  <2>3. n * FrameLength \in Nat /\ k * FrameLength \in Nat
    BY <1>3, <1>4, <2>1
  <2> DEFINE x == n * FrameLength
             y == k * FrameLength
             z == m * FrameLength
  <2>4. z = x + FrameLength + y /\ x \in Nat /\ y \in Nat
    BY <2>2, <2>3
  <2>5. Length(frames, torn, b) = z + torn[b] /\ Length(frames', torn', b) = x + torn'[b]
    BY <1>5, <1>6
  <2> HIDE DEF x, y, z
  <2> QED BY <1>4, <2>4, <2>5
<1>9. n = m \/ n < m
  <2> HIDE DEF m, n
  <2> QED BY <1>3
<1> QED BY <1>7, <1>8, <1>9

LEMMA PowerLossSpace ==
  ASSUME IInv, IInv', Space, PowerLoss
  PROVE  Space'
<1>1. PICK back \in SUBSET (parts \ parts') :
        orphans' = orphans \cup {[of |-> d, at |-> faults, length |-> PrefixLength[d]] : d \in back}
  BY DEF PowerLoss
<1> DEFINE undone == {[of |-> d, at |-> faults, length |-> PrefixLength[d]] : d \in back}
<1>2. /\ packs' \in SUBSET packs /\ parts' \in SUBSET parts /\ frames' \in SUBSET Cursors /\ torn' \in Tails
      /\ back \in SUBSET Prefixes /\ faults \in Nat /\ faults' = faults + 1
      /\ \A b \in Buckets \ packs' : torn'[b] = 0
      /\ \A p \in Processes : pc'[p] = "idle"
  BY Reading DEF PowerLoss, Space, Tails, IInv, TypeOK
<1>3. /\ undone \in SUBSET Temporaries /\ IsFiniteSet(undone)
      /\ Filled(undone) = PartBytes(back) /\ Cardinality(undone) = Cardinality(back)
  BY <1>2, UndoneRenames
<1>4. \A o \in undone : o.at = faults
  OBVIOUS
<1>5. orphans' = orphans \cup undone
  BY <1>1
<1> HIDE DEF undone
<1>6. orphans \cap undone = {}
  <2>1. \A o \in orphans : o.at < faults /\ o.at \in Nat
    BY DEF Space, OrphansAreDistinct, IInv, TypeOK
  <2> QED BY <1>2, <1>4, <2>1
<1>7. /\ IsFiniteSet(orphans \cup undone) /\ Filled(orphans \cup undone) = Filled(orphans) + Filled(undone)
      /\ Cardinality(orphans \cup undone) = Cardinality(orphans) + Cardinality(undone)
  BY <1>3, <1>6, Reading, FilledGrows DEF Space
<1>8. /\ PartBytes(parts') + PartBytes(back) <= PartBytes(parts)
      /\ Cardinality(parts') + Cardinality(back) <= Cardinality(parts)
  <2>1. parts \in SUBSET Prefixes
    BY Reading DEF Space
  <2> QED BY <1>1, <1>2, <2>1, PartsSplit
<1>9. Packed(packs', frames', torn') <= Packed(packs, frames, torn)
  <2>1. \A b \in packs' : Length(frames', torn', b) <= Length(frames, torn, b)
    BY PowerLossShortens
  <2>2. packs \in SUBSET Buckets /\ frames \in SUBSET Cursors /\ torn \in Tails
    BY Reading DEF Space
  <2> QED BY <1>2, <2>1, <2>2, PackedShrinks
<1>10. Cardinality(packs') <= Cardinality(packs) /\ Cardinality(packs') \in Nat
  BY <1>2, Reading, FS_Subset, FS_CardinalityType DEF Space
<1>11. Writing' = {} /\ Pending(Writing', goal') = 0 /\ Cardinality(Writing') = 0
  <2>1. Writing' = {}
    BY <1>2 DEF Writing
  <2> QED BY <2>1, PendingNone, FS_EmptySet
<1>12. /\ PartBytes(parts') \in Nat /\ PartBytes(back) \in Nat /\ Packed(packs', frames', torn') \in Nat
       /\ Cardinality(parts') \in Nat /\ Cardinality(back) \in Nat
  <2>1. parts' \in SUBSET Prefixes /\ packs' \in SUBSET Buckets
    BY <1>2, Reading DEF Space
  <2> QED BY <1>2, <2>1, PartsTyped, PackedTyped, FS_CardinalityType
<1>13. RetainedBytes \in Nat /\ RetainedObjects \in Nat
  BY RetainedTyped
<1>14. RetainedBytes' \in Int /\ RetainedBytes' <= RetainedBytes
  <2>1. RetainedBytes' = Packed(packs', frames', torn') + PartBytes(parts') + LegacyCursorBytes + 0
                           + (Filled(orphans) + PartBytes(back))
    BY <1>3, <1>5, <1>7, <1>11, Terms
  <2>2. RetainedBytes = Packed(packs, frames, torn) + PartBytes(parts) + LegacyCursorBytes
                           + Pending(Writing, goal) + Filled(orphans)
    BY Terms
  <2>3. /\ Packed(packs, frames, torn) \in Nat /\ PartBytes(parts) \in Nat /\ LegacyCursorBytes \in Nat
        /\ Pending(Writing, goal) \in Nat /\ Filled(orphans) \in Nat
    BY Reading, WriterTyped, LegacyTyped DEF Space
  <2> QED BY <1>8, <1>9, <1>12, <2>1, <2>2, <2>3
<1>15. RetainedObjects' \in Int /\ RetainedObjects' <= RetainedObjects
  <2>1. RetainedObjects' = Cardinality(packs') + Cardinality(parts') + Cardinality(Legacy) + 0
                             + (Cardinality(orphans) + Cardinality(back))
    BY <1>3, <1>5, <1>7, <1>11 DEF RetainedObjects, PublishedObjects
  <2>2. RetainedObjects = Cardinality(packs) + Cardinality(parts) + Cardinality(Legacy)
                             + Cardinality(Writing) + Cardinality(orphans)
    BY DEF RetainedObjects, PublishedObjects
  <2>3. /\ Cardinality(packs) \in Nat /\ Cardinality(parts) \in Nat /\ Cardinality(Legacy) \in Nat
        /\ Cardinality(Writing) \in Nat /\ Cardinality(orphans) \in Nat
    BY Reading, WriterTyped, LegacyTyped DEF Space
  <2> QED BY <1>8, <1>10, <1>12, <2>1, <2>2, <2>3
<1>16. WithinLimits'
  BY <1>13, <1>14, <1>15, LimitsKept
<1>17. Reserved' /\ TornPacksExist'
  BY <1>2 DEF Reserved, TornPacksExist
<1>18. OrphansAreDistinct'
  <2>1. \A o \in orphans' : o.at < faults'
    <3>1. \A o \in orphans : o.at < faults /\ o.at \in Nat
      BY DEF Space, OrphansAreDistinct, IInv, TypeOK
    <3> QED BY <1>2, <1>4, <1>5, <3>1
  <2> QED BY <1>5, <1>7, <2>1 DEF OrphansAreDistinct
<1> QED BY <1>16, <1>17, <1>18 DEF Space

\* An earlier release left what it left; nothing else is there yet.
LEMMA InitSpace == Init => Space
<1> SUFFICES ASSUME Init PROVE Space
  OBVIOUS
<1>1. /\ packs = {} /\ parts = LegacyParts /\ orphans = {} /\ Writing = {}
  BY DEF Init, Writing
<1>2. Packed({}, frames, torn) = 0 /\ Filled({}) = 0 /\ Pending({}, goal) = 0
  BY SumOfNothing DEF Packed, Filled, Pending, SumFunction
<1>3. LegacyParts \in SUBSET Prefixes
  BY StoreAssumption DEF LegacyParts
<1>4. RetainedBytes = LegacyBytes
  <2>1. PartBytes(LegacyParts) \in Nat
    BY <1>3, PartsTyped
  <2> QED BY <1>1, <1>2, <2>1, Terms, LegacyTyped DEF LegacyBytes
<1>5. RetainedObjects = LegacyObjects
  <2>1. IsFiniteSet(LegacyParts)
    BY <1>3, PartsTyped
  <2> QED BY <1>1, <2>1, FS_EmptySet, FS_CardinalityType, LegacyTyped
          DEF RetainedObjects, PublishedObjects, LegacyObjects
<1>6. LegacyBytes \in Nat /\ LegacyObjects \in Nat
  <2>1. IsFiniteSet(LegacyParts) /\ PartBytes(LegacyParts) \in Nat
    BY <1>3, PartsTyped
  <2> QED BY <2>1, LegacyTyped, FS_CardinalityType DEF LegacyBytes, LegacyObjects
<1>7. WithinLimits
  BY <1>4, <1>5, <1>6 DEF WithinLimits
<1>8. OrphansAreDistinct /\ TornPacksExist /\ Reserved
  BY <1>1, FS_EmptySet DEF Init, OrphansAreDistinct, TornPacksExist, Reserved
<1> QED BY <1>7, <1>8 DEF Space

LEMMA StepSpace ==
  ASSUME IInv, IInv', Space, NEW p \in Processes, Request(p) \/ Step(p)
  PROVE  Space'
<1>1. CASE ReservePart(p)
  BY <1>1, ReservePartSpace
<1>2. CASE RenamePart(p)
  BY <1>2, RenamePartSpace
<1>3. CASE ReserveFrame(p)
  BY <1>3, ReserveFrameSpace
<1>4. CASE TruncateTail(p) \/ AppendSome(p)
  BY <1>4, TailSpace
<1>5. CASE AppendAll(p)
  BY <1>5, AppendAllSpace
<1>6. ASSUME UNCHANGED <<packs, frames, torn, parts, orphans, faults>>,
             \A q \in Processes \ {p} : pc'[q] = pc[q] /\ goal'[q] = goal[q],
             pc'[p] \notin {"truncate", "append"},
             (p \in Writing <=> pc'[p] \in {"write_part", "rename_part"}),
             p \in Writing => goal'[p] = goal[p]
      PROVE  Space'
  <2>1. Writing' = {q \in Processes : pc'[q] \in {"write_part", "rename_part"}}
    BY DEF Writing
  <2>2. Writing' = Writing
    BY <1>6, <2>1 DEF Writing
  <2>3. \A q \in Writing : goal'[q] = goal[q]
    BY <1>6 DEF Writing
  <2>4. \A q \in Processes : pc'[q] \in {"truncate", "append"} => pc[q] = pc'[q] /\ goal'[q] = goal[q]
    BY <1>6
  <2> QED BY <1>6, <2>2, <2>3, <2>4, QuietSpace
<1> USE DEF IInv, TypeOK, Goto, Leave, Writing, requestVars, storeVars
<1>7. CASE Request(p) \/ Acquire(p) \/ Load(p)
  <2>1. CASE Request(p)
    BY <2>1, <1>6 DEF Request
  <2>2. CASE Acquire(p)
    BY <2>2, <1>6 DEF Acquire
  <2>3. CASE Load(p)
    BY <2>3, <1>6 DEF Load
  <2> QED BY <1>7, <2>1, <2>2, <2>3
<1>8. CASE ObserveToken(p) \/ RefuseStale(p) \/ RefusePart(p) \/ RefuseFrame(p) \/ Return(p)
  BY <1>8, <1>6 DEF ObserveToken, RefuseStale, RefusePart, RefuseFrame, Return
<1>9. CASE SkipStaging(p) \/ StagePartial(p)
  BY <1>9, <1>6 DEF SkipStaging, StagePartial
<1>10. CASE WritePart(p)
  BY <1>10, <1>6 DEF WritePart
<1>11. CASE SyncStage(p) \/ SyncPackDirectory(p)
  BY <1>11, <1>6 DEF SyncStage, SyncPackDirectory, SyncDirectory
<1>12. CASE FindLegacy(p) \/ FindFrame(p) \/ FindNothing(p)
  BY <1>12, <1>6 DEF FindLegacy, FindFrame, FindNothing
<1>13. CASE SyncPack(p)
  BY <1>13, <1>6 DEF SyncPack
<1> QED BY <1>1, <1>2, <1>3, <1>4, <1>5, <1>7, <1>8, <1>9, <1>10, <1>11, <1>12, <1>13 DEF Step

LEMMA NextSpace ==
  ASSUME IInv, Space, [Next]_vars
  PROVE  Space'
<1>1. IInv'
  BY NextInvariant
<1>2. CASE UNCHANGED vars
  <2>1. Writing' = Writing
    BY <1>2 DEF Writing, vars
  <2> QED BY <1>2, <2>1, QuietSpace DEF vars
<1>3. CASE PowerLoss
  BY <1>1, <1>3, PowerLossSpace
<1>4. ASSUME NEW p \in Processes, Request(p) \/ Step(p) \/ Die(p)
      PROVE  Space'
  BY <1>1, <1>4, StepSpace, DeathSpace
<1> QED BY <1>2, <1>3, <1>4 DEF Next

\* However requests interleave, whatever dies and whatever a loss of power
\* undoes, what is retained stays within the limits.
THEOREM WithinLimitsHolds == Spec => []WithinLimits
<1>1. IInv /\ Space /\ [Next]_vars => Space'
  BY NextSpace
<1>2. Space => WithinLimits
  BY DEF Space
<1> QED BY <1>1, <1>2, InitSpace, Invariance, PTL DEF Spec
=============================================================================
