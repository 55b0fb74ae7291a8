------------------------------ MODULE SessionProofs ------------------------------
(***************************************************************************)
(* What holds of the two things a provider knows of sessions whose Codex   *)
(* is not its own process: the rollouts on disk (Population), for any      *)
(* number of them, of sessions and of changes, and the recorded templates  *)
(* of resident sessions (Resident), for any number of processes, templates *)
(* and faults.  The two modules share no variable.                         *)
(***************************************************************************)
EXTENDS Population, Resident, FiniteSetTheorems, SequenceTheorems, WellFoundedInduction, TLAPS

(***************************************************************************)
(* Least paths and listings                                                *)
(***************************************************************************)

LEMMA LeastNumber ==
  ASSUME NEW S, S \subseteq Nat, S # {}
  PROVE  \E n \in S : \A m \in S : n <= m
<1>1. PICK n \in S : \A m \in S : <<m, n>> \notin OpToRel(<, Nat)
  BY NatLessThanWellFounded, WFMin, Zenon
<1>2. \A m \in S : ~(m < n)
  BY <1>1 DEF OpToRel
<1> QED BY <1>2

\* Of paths not looked at yet, one is the least.
LEMMA LeastPath ==
  ASSUME scan.paths \subseteq Paths, scan.paths # {}
  PROVE  Path \in scan.paths
<1>1. ASSUME NEW d \in Directories, \E p \in scan.paths : p[1] = d
      PROVE  \E p \in scan.paths : p[1] = d /\ \A q \in scan.paths : q[1] = d => p[2] <= q[2]
  <2> DEFINE N == {f \in Rollouts : <<d, f>> \in scan.paths}
  <2>1. N # {} /\ N \subseteq Nat
    <3>1. PICK p \in scan.paths : p[1] = d
      BY <1>1
    <3>2. p = <<d, p[2]>> /\ p[2] \in Rollouts
      BY <3>1 DEF Paths
    <3>3. <<d, p[2]>> \in scan.paths
      BY <3>2
    <3>4. p[2] \in N
      BY <3>2, <3>3
    <3> QED BY <3>4, PopulationAssumption
  <2>2. PICK n \in N : \A m \in N : n <= m
    BY <2>1, LeastNumber, Zenon
  <2>3. \A q \in scan.paths : q[1] = d => q = <<d, q[2]>> /\ q[2] \in N
    BY DEF Paths
  <2> QED BY <2>2, <2>3
<1>2. \E p \in scan.paths : \A q \in scan.paths \ {p} : Precedes(p, q)
  <2>1. CASE \E p \in scan.paths : p[1] = "archived_sessions"
    <3>1. PICK p \in scan.paths :
             p[1] = "archived_sessions" /\ \A q \in scan.paths : q[1] = "archived_sessions" => p[2] <= q[2]
      BY <2>1, <1>1 DEF Directories
    <3>2. ASSUME NEW q \in scan.paths \ {p} PROVE Precedes(p, q)
      <4>1. p = <<"archived_sessions", p[2]>> /\ q = <<q[1], q[2]>> /\ p[2] \in Nat /\ q[2] \in Nat
        BY <3>1, <3>2, PopulationAssumption DEF Paths
      <4> QED BY <3>1, <3>2, <4>1 DEF Precedes
    <3> QED BY <3>2
  <2>2. CASE \A p \in scan.paths : p[1] = "sessions"
    <3>1. PICK p \in scan.paths :
             p[1] = "sessions" /\ \A q \in scan.paths : q[1] = "sessions" => p[2] <= q[2]
      BY <2>2, <1>1 DEF Directories
    <3>2. ASSUME NEW q \in scan.paths \ {p} PROVE Precedes(p, q)
      <4>1. p[1] = "sessions" /\ q[1] = "sessions"
        BY <2>2, <3>1, <3>2
      <4>2. p = <<p[1], p[2]>> /\ q = <<q[1], q[2]>> /\ p[2] \in Nat /\ q[2] \in Nat
        BY <3>1, <3>2, PopulationAssumption DEF Paths
      <4> QED BY <3>1, <3>2, <4>1, <4>2 DEF Precedes
    <3> QED BY <3>2
  <2> QED BY <2>1, <2>2 DEF Paths, Directories
<1> QED BY <1>2 DEF Path

\* The listing of entries of different sessions has each of them once.
LEMMA ListingIsOfAll ==
  ASSUME NEW E, E \subseteq Entries, IsFiniteSet(E),
         \A d, e \in E : d.id = e.id => d = e
  PROVE  /\ Listing(E) \in Seq(Entries)
         /\ \A e \in E : \E i \in DOMAIN Listing(E) : Listing(E)[i] = e
         /\ \A i \in DOMAIN Listing(E) : Listing(E)[i] \in E
         /\ \A i, j \in DOMAIN Listing(E) : Listing(E)[i] = Listing(E)[j] => i = j
<1> DEFINE Before(e) == {d \in E : NewestFirst(d, e)}
           n == Cardinality(E)
           rank == [e \in E |-> Cardinality(Before(e)) + 1]
<1>1. n \in Nat /\ \A e \in E : e.updated \in Nat /\ e.id \in Nat
  BY FS_CardinalityType, PopulationAssumption DEF Entries
<1>2. ASSUME NEW e \in E
      PROVE  IsFiniteSet(Before(e)) /\ Cardinality(Before(e)) \in Nat /\ Cardinality(Before(e)) < n
  <2>1. e \notin Before(e) /\ Before(e) \in SUBSET E
    BY <1>1 DEF NewestFirst
  <2>2. IsFiniteSet(Before(e)) /\ Cardinality(Before(e)) <= n /\ Cardinality(Before(e)) # n
    BY <2>1, FS_Subset
  <2>3. Cardinality(Before(e)) \in Nat
    BY <2>2, FS_CardinalityType
  <2> HIDE DEF Before, n
  <2> QED BY <1>1, <2>2, <2>3
<1>3. ASSUME NEW d \in E, NEW e \in E, d # e PROVE rank[d] # rank[e]
  <2>1. \A a, b \in E : NewestFirst(a, b) => Cardinality(Before(a)) # Cardinality(Before(b))
    <3> SUFFICES ASSUME NEW a \in E, NEW b \in E, NewestFirst(a, b)
                 PROVE  Cardinality(Before(a)) # Cardinality(Before(b))
      OBVIOUS
    <3>1. \A c \in E : NewestFirst(c, a) => NewestFirst(c, b)
      BY <1>1 DEF NewestFirst
    <3>2. a \in Before(b) /\ a \notin Before(a) /\ Before(a) \in SUBSET Before(b)
      BY <1>1, <3>1 DEF NewestFirst
    <3> QED BY <3>2, <1>2, FS_Subset
  <2>2. NewestFirst(d, e) \/ NewestFirst(e, d)
    BY <1>1, <1>3 DEF NewestFirst
  <2>3. Cardinality(Before(d)) # Cardinality(Before(e))
    BY <2>1, <2>2
  <2> HIDE DEF Before
  <2> QED BY <2>3, <1>2
<1>4. rank \in Injection(E, 1..n)
  <2>1. ASSUME NEW e \in E PROVE rank[e] \in 1..n
    <3> HIDE DEF Before, n
    <3> QED BY <1>1, <1>2
  <2>2. rank \in [E -> 1..n]
    <3>1. rank = [e \in E |-> rank[e]]
      OBVIOUS
    <3> HIDE DEF rank
    <3> QED BY <2>1, <3>1
  <2> HIDE DEF rank, n
  <2> QED BY <1>3, <2>2 DEF Injection, IsInjective
<1>5. rank \in Surjection(E, 1..n)
  <2>1. IsFiniteSet(1..n) /\ Cardinality(1..n) = n
    BY <1>1, FS_Interval
  <2> HIDE DEF rank
  <2> QED BY <1>4, <2>1, FS_Injection
<1>6. \A i \in 1..n : \E e \in E : rank[e] = i
  <2> HIDE DEF rank, n
  <2> QED BY <1>5 DEF Surjection
<1>7. DOMAIN Listing(E) = 1..n
  BY DEF Listing
<1>8. ASSUME NEW i \in 1..n PROVE Listing(E)[i] \in E /\ rank[Listing(E)[i]] = i
  <2>1. Listing(E)[i] = CHOOSE e \in E : Cardinality(Before(e)) = i - 1
    BY <1>8 DEF Listing
  <2>2. \E e \in E : Cardinality(Before(e)) = i - 1
    <3>1. PICK e \in E : rank[e] = i
      BY <1>6
    <3>2. rank[e] = Cardinality(Before(e)) + 1
      OBVIOUS
    <3> HIDE DEF rank, Before
    <3> QED BY <3>1, <3>2, <1>2
  <2>3. Listing(E)[i] \in E /\ Cardinality(Before(Listing(E)[i])) = i - 1
    <3> HIDE DEF Before
    <3> QED BY <2>1, <2>2, Zenon
  <2>4. rank[Listing(E)[i]] = Cardinality(Before(Listing(E)[i])) + 1
    BY <2>3
  <2> HIDE DEF rank, Before, n
  <2> QED BY <2>3, <2>4, <1>1
<1>9. Listing(E) \in Seq(Entries)
  <2>1. Listing(E) = [i \in 1..n |-> Listing(E)[i]]
    <3>1. \A F : F = [i \in 1..n |-> CHOOSE e \in E : Cardinality(Before(e)) = i - 1] =>
                 F = [i \in 1..n |-> F[i]]
      <4> HIDE DEF n, Before
      <4> QED OBVIOUS
    <3> QED BY <3>1 DEF Listing
  <2>2. \A i \in 1..n : Listing(E)[i] \in Entries
    BY <1>8
  <2> HIDE DEF n
  <2> QED BY <1>1, <2>1, <2>2
<1>10. \A e \in E : \E i \in DOMAIN Listing(E) : Listing(E)[i] = e
  <2> SUFFICES ASSUME NEW e \in E PROVE \E i \in DOMAIN Listing(E) : Listing(E)[i] = e
    OBVIOUS
  <2>1. rank[e] \in 1..n
    <3> HIDE DEF rank, n
    <3> QED BY <1>4 DEF Injection
  <2>2. Listing(E)[rank[e]] \in E /\ rank[Listing(E)[rank[e]]] = rank[e]
    BY <2>1, <1>8
  <2> HIDE DEF rank, n
  <2> QED BY <2>1, <2>2, <1>3, <1>7
<1> HIDE DEF rank, n
<1> QED BY <1>7, <1>8, <1>9, <1>10

(***************************************************************************)
(* The invariant                                                           *)
(***************************************************************************)

LEMMA InitInvariant == Init => IInv
<1> SUFFICES ASSUME Init PROVE IInv
  OBVIOUS
<1>1. <<>> \in Seq(Entries) /\ None \in Cursors \cup {None} /\ NoScan \in Scans
  BY DEF NoScan, Scans, Directories, FirstDirectory
<1>2. TypeOK
  BY <1>1, PopulationAssumption DEF Init, TypeOK, Empty
<1>3. IInv
  BY <1>2 DEF Init, IInv, Midway, Standing, ScanFinds, EnumerationFinds, Followed,
              LookupFinds, EnumerationIsAccurate, LookupIsDecisive, Empty
<1> QED BY <1>3

\* Whatever becomes of the population: rollouts that stay, stay where they are,
\* and times of writes only grow.
LEMMA ChangeInvariant ==
  ASSUME IInv, TypeOK', UNCHANGED <<call, at, scan, answer, host>>,
         still' \subseteq still, whole \subseteq whole',
         \A f \in still' : place'[f] = place[f] /\ version'[f] >= version[f]
  PROVE  IInv'
<1>1. Midway' /\ Standing'
  BY DEF IInv, Midway, Standing, Path, Precedes
<1>2. ASSUME NEW f \in still'
      PROVE  /\ Home(f)' = Home(f) /\ (Enumerated(f)' <=> Enumerated(f)) /\ (Found(f)' <=> Found(f))
             /\ version[f] \in Nat /\ version'[f] \in Nat
  <2>1. Home(f)' = Home(f)
    BY DEF Home
  <2>2. (Enumerated(f)' <=> Enumerated(f)) /\ (Found(f)' <=> Found(f))
    BY <2>1 DEF Enumerated, Found
  <2>3. version[f] \in Nat /\ version'[f] \in Nat
    BY DEF IInv, TypeOK
  <2> QED BY <2>1, <2>2, <2>3
<1>3. ScanFinds'
  BY <1>2 DEF IInv, ScanFinds
<1>4. Path' = Path /\ (SameFilter' <=> SameFilter) /\ (Enumerated(Path[2])' <=> Enumerated(Path[2]))
  BY DEF Path, Precedes, SameFilter, Enumerated
<1>5. EnumerationFinds'
  <2> SUFFICES ASSUME at # "list" /\ at # "idle" /\ call.op = "enumerate"
               PROVE  EnumerationFinds'
    BY DEF EnumerationFinds
  <2> QED BY <1>2, <1>4 DEF IInv, EnumerationFinds
<1>6. Followed'
  <2>1. \A f \in still' : /\ host.cursor # None => version[f] >= host.cursor.of.since
                          /\ at # "idle" /\ call.op = "enumerate" /\ call.cursor = None =>
                               version[f] >= call.since
    BY DEF IInv, Followed
  <2>2. host.cursor # None => host.cursor.of.since \in Nat
    BY PopulationAssumption DEF IInv, TypeOK, Cursors, Listings
  <2>3. at # "idle" /\ call.op = "enumerate" => call.since \in Nat
    BY PopulationAssumption DEF IInv, TypeOK, Requests
  <2> QED BY <1>2, <2>1, <2>2, <2>3 DEF IInv, Followed
<1>7. /\ Claims' \subseteq Claims /\ Namesakes' = Namesakes
      /\ (Misnamed => Misnamed') /\ (FirstPage' <=> FirstPage)
  BY DEF Claims, Namesakes, Misnamed, FirstPage
<1>8. LookupFinds'
  <2>1. OnlyNamesakes => OnlyNamesakes'
    BY <1>7 DEF OnlyNamesakes
  <2>2. \A f \in Claims' : f \in still'
    BY DEF Claims
  <2> QED BY <1>2, <1>7, <2>1, <2>2 DEF IInv, LookupFinds
<1>9. LookupIsDecisive'
  BY <1>7 DEF IInv, LookupIsDecisive
<1>10. EnumerationIsAccurate'
  BY DEF IInv, EnumerationIsAccurate
<1> QED BY <1>1, <1>3, <1>5, <1>6, <1>8, <1>9, <1>10 DEF IInv

LEMMA CodexInvariant == ASSUME IInv, Codex PROVE IInv'
<1>1. PICK f \in Rollouts : Create(f) \/ Extend(f) \/ Move(f)
  BY DEF Codex
<1>2. changes \in Nat /\ changes' \in 0..MaxChanges /\ changes' = changes + 1
  BY <1>1, PopulationAssumption DEF IInv, TypeOK, Create, Extend, Move, Change
<1>3. \A g \in Rollouts : version[g] \in 0..changes
  BY DEF IInv, TypeOK
<1>4. UNCHANGED <<call, at, scan, answer, host>> /\ still' \subseteq still /\ whole \subseteq whole'
  BY <1>1 DEF Create, Extend, Move, Change
<1>5. version' \in [Rollouts -> 0..changes']
  <2>1. version \in [Rollouts -> 0..changes'] /\ changes' \in 0..changes'
    BY <1>2 DEF IInv, TypeOK
  <2>2. version' = version \/ version' = [version EXCEPT ![f] = changes']
    BY <1>1 DEF Create, Extend, Move
  <2> QED BY <2>1, <2>2
<1>6. place' \in [Rollouts -> Directories \cup {"absent"}] /\ whole' \subseteq Rollouts
  BY <1>1 DEF IInv, TypeOK, Create, Extend, Move, Directories
<1>7. TypeOK'
  BY <1>2, <1>4, <1>5, <1>6 DEF IInv, TypeOK
<1>8. ASSUME NEW g \in still' PROVE place'[g] = place[g] /\ version'[g] >= version[g]
  <2>1. g \in still /\ g \in Rollouts /\ place[g] \in Directories
    BY <1>4 DEF IInv, TypeOK, Standing
  <2>2. version[g] \in Nat /\ changes' >= version[g]
    BY <1>2, <1>3, <2>1
  <2>3. CASE Create(f)
    BY <2>1, <2>2, <2>3 DEF Create, Directories, IInv, TypeOK
  <2>4. CASE Extend(f)
    BY <2>1, <2>2, <2>4 DEF Extend, IInv, TypeOK
  <2>5. CASE Move(f)
    BY <2>1, <2>2, <2>5 DEF Move, IInv, TypeOK
  <2> QED BY <1>1, <2>3, <2>4, <2>5
<1> QED BY <1>4, <1>7, <1>8, ChangeInvariant

\* The scan begins, for a host that starts anew or goes on with its cursor.
LEMMA BeginInvariant ==
  ASSUME IInv, NEW request \in Requests, Begin(request), Followed', Standing',
         host' \in [collected : Seq(Entries), cursor : Cursors \cup {None}],
         still' \subseteq Rollouts
  PROVE  IInv'
<1>1. NoScan \in Scans
  BY DEF NoScan, Scans, Directories, FirstDirectory
<1>2. TypeOK'
  BY <1>1 DEF IInv, TypeOK, Begin, filesVars
<1>3. ScanFinds'
  BY <1>2 DEF ScanFinds, Begin, NoScan, TypeOK
<1> QED BY <1>2, <1>3 DEF Begin, IInv, Midway, EnumerationFinds, LookupFinds,
                          EnumerationIsAccurate, LookupIsDecisive, NoScan

LEMMA AskFirstPageInvariant == ASSUME IInv, AskFirstPage PROVE IInv'
<1>1. PICK counts \in BOOLEAN, since \in Sinces, limit \in Limits :
         /\ Begin(Enumerate(counts, since, limit, None))
         /\ host' = Empty /\ still' = Readables(since)
  BY DEF AskFirstPage
<1>2. Enumerate(counts, since, limit, None) \in Requests
  BY DEF Enumerate, Requests
<1>3. host' \in [collected : Seq(Entries), cursor : Cursors \cup {None}]
  BY <1>1 DEF Empty
<1>4. Followed'
  BY <1>1 DEF Followed, Empty, Begin, Enumerate, Readables, filesVars
<1>5. Standing' /\ still' \subseteq Rollouts
  BY <1>1 DEF IInv, TypeOK, Standing, Readables, Begin, filesVars
<1> QED BY <1>1, <1>2, <1>3, <1>4, <1>5, BeginInvariant

LEMMA AskNextPageInvariant == ASSUME IInv, AskNextPage PROVE IInv'
<1>1. PICK counts \in BOOLEAN, since \in Sinces, limit \in Limits :
         /\ host.cursor # None
         /\ Begin(Enumerate(counts, since, limit, host.cursor))
         /\ UNCHANGED <<host, still>>
  BY DEF AskNextPage
<1>2. Enumerate(counts, since, limit, host.cursor) \in Requests
  BY DEF IInv, TypeOK, Enumerate, Requests
<1>3. Followed'
  BY <1>1 DEF IInv, Followed, Begin, Enumerate, filesVars
<1>4. Standing' /\ still' \subseteq Rollouts
  BY <1>1 DEF IInv, TypeOK, Standing, Begin, filesVars
<1>5. host' \in [collected : Seq(Entries), cursor : Cursors \cup {None}]
  BY <1>1 DEF IInv, TypeOK
<1> QED BY <1>1, <1>2, <1>3, <1>4, <1>5, BeginInvariant

LEMMA AskSessionInvariant == ASSUME IInv, AskSession PROVE IInv'
<1>1. PICK request \in [op : {"locate_transcript", "read_turns", "capture", "page"},
                        id : Sessions, source : {None}]
                       \cup {BoundLookup(f) : f \in Readables(0)} :
         Begin(request) /\ host' = Empty /\ still' = Readables(0)
  BY DEF AskSession
<1>2. request \in Requests /\ request.op # "enumerate"
  BY PopulationAssumption DEF BoundLookup, Requests, Readables, IInv, TypeOK
<1>3. host' \in [collected : Seq(Entries), cursor : Cursors \cup {None}]
  BY <1>1 DEF Empty
<1>4. Followed'
  BY <1>1, <1>2 DEF Followed, Empty, Begin
<1>5. Standing' /\ still' \subseteq Rollouts
  BY <1>1 DEF IInv, TypeOK, Standing, Readables, Begin, filesVars
<1> QED BY <1>1, <1>2, <1>3, <1>4, <1>5, BeginInvariant

\* A request ends.
LEMMA AnswerInvariant ==
  ASSUME IInv, at # "idle", NEW a, Answer(a), Followed',
         host' \in [collected : Seq(Entries), cursor : Cursors \cup {None}],
         EnumerationIsAccurate', LookupIsDecisive'
  PROVE  IInv'
<1>1. NoScan \in Scans
  BY DEF NoScan, Scans, Directories, FirstDirectory
<1>2. TypeOK'
  BY <1>1 DEF IInv, TypeOK, Answer, filesVars
<1> QED BY <1>2 DEF Answer, filesVars, IInv, Midway, Standing, ScanFinds, EnumerationFinds, LookupFinds

LEMMA FailInvariant ==
  ASSUME IInv, at # "idle", NEW kind, kind \notin {"page", "found", "not_found"}, Fail(kind)
  PROVE  IInv'
<1>1. Followed' /\ host' \in [collected : Seq(Entries), cursor : Cursors \cup {None}]
  BY DEF IInv, TypeOK, Followed, Fail, Answer, filesVars
<1>2. EnumerationIsAccurate' /\ LookupIsDecisive'
  BY DEF EnumerationIsAccurate, LookupIsDecisive, Fail, Answer
<1> QED BY <1>1, <1>2, AnswerInvariant DEF Fail

\* A step of a request that leaves the population, the request and its host alone.
LEMMA ProceedInvariant ==
  ASSUME IInv, at # "idle", NEW where, NEW s \in Scans, Proceed(where, s),
         where \in {"list", "open", "read", "stat", "count"},
         Midway', ScanFinds', EnumerationFinds', LookupFinds'
  PROVE  IInv'
<1>1. TypeOK'
  BY DEF IInv, TypeOK, Proceed, filesVars
<1>2. Followed' /\ Standing'
  BY DEF IInv, Followed, Standing, Proceed, filesVars
<1>3. EnumerationIsAccurate' /\ LookupIsDecisive'
  BY DEF IInv, TypeOK, EnumerationIsAccurate, LookupIsDecisive, Proceed
<1> QED BY <1>1, <1>2, <1>3 DEF IInv

LEMMA VisitEntryInvariant == ASSUME IInv, NEW f \in Rollouts, VisitEntry(f) PROVE IInv'
<1> DEFINE s == [scan EXCEPT !.unlisted = @ \ {f},
                  !.paths = IF place[f] = scan.dir THEN @ \cup {<<scan.dir, f>>} ELSE @]
<1>1. scan \in Scans /\ at = "list" /\ Proceed("list", s)
  BY DEF VisitEntry, Proceed, IInv, TypeOK
<1>2. s \in Scans
  <2> DEFINE found == IF place[f] = scan.dir THEN scan.paths \cup {<<scan.dir, f>>} ELSE scan.paths
  <2>1. <<scan.dir, f>> \in Paths /\ scan.paths \subseteq Paths
    BY <1>1 DEF Scans, Paths
  <2>2. found \in SUBSET Paths /\ scan.unlisted \ {f} \in SUBSET Rollouts
    BY <1>1, <2>1 DEF Scans
  <2>3. s = [scan EXCEPT !.unlisted = scan.unlisted \ {f}, !.paths = found]
    BY DEF Scans
  <2> HIDE DEF s, found
  <2> QED BY <1>1, <2>2, <2>3 DEF Scans
<1>3. Midway' /\ EnumerationFinds' /\ LookupFinds'
  BY <1>1 DEF Proceed, Midway, EnumerationFinds, LookupFinds, Scans, IInv
<1>4. ScanFinds'
  <2>1. /\ scan'.dir = scan.dir /\ scan'.unlisted = scan.unlisted \ {f}
        /\ scan.paths \subseteq scan'.paths
        /\ place[f] = scan.dir => <<scan.dir, f>> \in scan'.paths
    BY <1>1 DEF Proceed, Scans
  <2> QED BY <1>1, <2>1 DEF Proceed, filesVars, IInv, ScanFinds, Home
<1> QED BY <1>1, <1>2, <1>3, <1>4, ProceedInvariant

LEMMA DirectoryListedInvariant == ASSUME IInv, DirectoryListed PROVE IInv'
<1>1. scan \in Scans /\ at = "list" /\ scan.unlisted = {} /\ Midway /\ ScanFinds /\ Standing /\ TypeOK
      /\ call \in Requests
  BY DEF DirectoryListed, IInv, TypeOK
<1>2. CASE scan.dir = FirstDirectory
  <2> DEFINE s == [scan EXCEPT !.dir = "sessions", !.unlisted = Rollouts]
  <2>1. s \in Scans /\ Proceed("list", s)
    BY <1>1, <1>2 DEF Scans, Directories, Proceed, DirectoryListed
  <2>2. Midway' /\ EnumerationFinds' /\ LookupFinds'
    BY <1>1, <2>1 DEF Proceed, Midway, EnumerationFinds, LookupFinds, Scans
  <2>3. scan'.dir = "sessions" /\ scan'.unlisted = Rollouts /\ scan'.paths = scan.paths
    BY <1>1, <2>1 DEF Proceed, Scans
  <2>4. ScanFinds'
    BY <1>1, <1>2, <2>1, <2>3 DEF Proceed, filesVars, ScanFinds, Home, FirstDirectory, TypeOK
  <2> QED BY <1>1, <2>1, <2>2, <2>4, ProceedInvariant
<1>3. CASE scan.dir # FirstDirectory
  <2> DEFINE s == [scan EXCEPT !.paths = Candidates]
  <2>1. Candidates \subseteq scan.paths
    BY DEF Candidates
  <2>2. s \in Scans /\ Proceed("open", s)
    BY <1>1, <1>3, <2>1 DEF Scans, Proceed, DirectoryListed
  <2>3. /\ scan'.paths = Candidates /\ scan'.found = None /\ scan'.ids = {} /\ scan'.entries = {}
        /\ at' = "open" /\ UNCHANGED <<place, call, still, whole>>
    BY <1>1, <2>2 DEF Proceed, Scans, Midway, filesVars
  <2>4. Midway' /\ ScanFinds'
    BY <2>3 DEF Midway, ScanFinds
  <2>5. \A f \in still : Home(f) \in scan.paths
    BY <1>1, <1>3 DEF ScanFinds, Standing, Directories, FirstDirectory, Scans
  <2>6. EnumerationFinds'
    <3>1. call.op = "enumerate" => Candidates = scan.paths
      BY DEF Candidates
    <3> QED BY <2>3, <2>5, <3>1, FS_EmptySet DEF EnumerationFinds, Home, SameFilter
  <2>7. LookupFinds'
    <3> SUFFICES ASSUME call.op # "enumerate" PROVE LookupFinds'
      BY <2>3 DEF LookupFinds
    <3>1. \A f \in still : Home(f)' = Home(f) /\ Home(f)[2] = f
      BY <2>3 DEF Home
    <3>2. Claims' = Claims /\ Namesakes' = Namesakes /\ (FirstPage' <=> FirstPage)
      BY <2>3 DEF Claims, Namesakes, FirstPage
    <3>3. \A f \in Claims : f \in still /\ f \in Rollouts
      BY <1>1 DEF Claims, TypeOK
    <3>4. CASE Candidates = scan.paths
      <4>1. \A f \in Claims : Found(f)'
        BY <2>3, <2>5, <3>1, <3>3, <3>4 DEF Found
      <4> QED BY <3>2, <4>1 DEF LookupFinds
    <3>5. CASE Candidates # scan.paths
      <4>1. FirstPage /\ Candidates # {} /\ Candidates = {p \in scan.paths : Named[p[2]] = call.id}
        BY <3>5 DEF Candidates, FirstPage
      <4>2. \A p \in Candidates : p[2] \in Namesakes
        BY <1>1, <4>1 DEF Namesakes, Scans, Paths
      <4>3. OnlyNamesakes'
        BY <2>3, <3>2, <4>1, <4>2 DEF OnlyNamesakes
      <4>4. \A f \in Claims \cap Namesakes : Home(f) \in Candidates
        BY <2>5, <3>1, <3>3, <4>1 DEF Namesakes
      <4> QED BY <2>3, <3>1, <3>2, <3>3, <4>1, <4>3, <4>4 DEF LookupFinds, Found
    <3> QED BY <3>4, <3>5
  <2> QED BY <1>1, <2>2, <2>4, <2>6, <2>7, ProceedInvariant
<1> QED BY <1>2, <1>3

\* A lookup passes over a path that is no claim which stayed.
LEMMA PassOverInvariant ==
  ASSUME IInv, at = "open", call.op # "enumerate", scan.paths # {}, Proceed("open", Drop(Path)),
         \A f \in Claims : Home(f) # Path,
         FirstPage /\ Path[2] \in Namesakes => Misnamed
  PROVE  IInv'
<1>1. scan \in Scans /\ Path \in scan.paths
  BY LeastPath DEF IInv, TypeOK, Scans
<1>2. Drop(Path) \in Scans
  BY <1>1 DEF Drop, Scans
<1>3. /\ scan'.paths = scan.paths \ {Path} /\ scan'.found = scan.found
      /\ at' = "open" /\ UNCHANGED <<filesVars, call, still>>
  BY <1>1 DEF Proceed, Drop, Scans
<1>4. Midway' /\ ScanFinds' /\ EnumerationFinds'
  BY <1>3 DEF Midway, ScanFinds, EnumerationFinds
<1>5. /\ Claims' = Claims /\ Namesakes' = Namesakes
      /\ (FirstPage' <=> FirstPage) /\ (Misnamed' <=> Misnamed)
  BY <1>3 DEF Claims, Namesakes, FirstPage, Misnamed, filesVars
<1>6. \A f \in Claims : Found(f) => Found(f)'
  BY <1>3 DEF Found, Home, filesVars
<1>7. FirstPage /\ OnlyNamesakes => OnlyNamesakes'
  BY <1>1, <1>3, <1>5 DEF OnlyNamesakes
<1>8. LookupFinds'
  BY <1>5, <1>6, <1>7 DEF IInv, LookupFinds
<1> QED BY <1>2, <1>3, <1>4, <1>8, ProceedInvariant

LEMMA LocateUnreadableInvariant == ASSUME IInv, LocateUnreadable PROVE IInv'
<1>1. at = "open" /\ call.op # "enumerate" /\ call.op # "page" /\ scan.paths # {}
  BY DEF LocateUnreadable
<1>2. CASE Fail("unreadable")
  BY <1>1, <1>2, FailInvariant
<1>3. CASE Proceed("open", Drop(Path))
  <2>1. ASSUME NEW f \in Claims PROVE Home(f) # Path
    BY DEF LocateUnreadable, HeaderReadable, Gone, Claims, Home, IInv, Standing
  <2> QED BY <1>1, <1>3, <2>1, PassOverInvariant DEF FirstPage
<1> QED BY <1>2, <1>3 DEF LocateUnreadable

LEMMA NotClaimedInvariant == ASSUME IInv, NotClaimed PROVE IInv'
<1>1. at = "open" /\ call.op # "enumerate" /\ scan.paths # {} /\ Proceed("open", Drop(Path))
  BY DEF NotClaimed
<1>2. ASSUME NEW f \in Claims PROVE Home(f) # Path
  BY DEF NotClaimed, IsSource, Claims, Home
<1>3. FirstPage /\ Path[2] \in Namesakes => Misnamed
  BY DEF NotClaimed, IsSource, HeaderReadable, FirstPage, Namesakes, Misnamed
<1> QED BY <1>1, <1>2, <1>3, PassOverInvariant

LEMMA ClaimedInvariant == ASSUME IInv, Claimed PROVE IInv'
<1>1. /\ at = "open" /\ call.op # "enumerate" /\ scan.paths # {} /\ IsSource(Path)
      /\ HeaderReadable(Path) /\ Identity[Path[2]] = call.id
  BY DEF Claimed
<1>2. scan \in Scans /\ Path \in scan.paths /\ Path \in Paths
  BY <1>1, LeastPath DEF IInv, TypeOK, Scans
<1>3. CASE scan.found # None
  BY <1>1, <1>3, FailInvariant DEF Claimed, ClaimFound
<1>4. CASE scan.found = None
  <2> DEFINE rest == IF call.source = None THEN scan.paths \ {Path} ELSE {}
             s == [scan EXCEPT !.paths = rest, !.found = Path]
  <2>1. [Drop(Path) EXCEPT !.found = Path, !.paths = IF call.source = None THEN @ ELSE {}] = s
    BY <1>2 DEF Drop, Scans
  <2>2. s \in Scans
    BY <1>2 DEF Scans
  <2>3. Proceed("open", s)
    BY <1>4, <2>1 DEF Claimed, ClaimFound
  <2>4. /\ scan'.paths = rest /\ scan'.found = Path
        /\ at' = "open" /\ UNCHANGED <<filesVars, call, still>>
    BY <1>2, <2>3 DEF Proceed, Scans
  <2>5. Midway' /\ ScanFinds' /\ EnumerationFinds'
    BY <1>1, <2>4 DEF Midway, ScanFinds, EnumerationFinds
  <2>6. Claims' = Claims /\ Namesakes' = Namesakes /\ (FirstPage' <=> FirstPage)
    BY <2>4 DEF Claims, Namesakes, FirstPage
  <2>7. Path # None
    BY <1>2, PopulationAssumption DEF Paths
  <2>8. ASSUME NEW f \in Claims, Found(f) PROVE Found(f)'
    <3>1. Home(f) \in scan.paths /\ f = Home(f)[2]
      BY <1>4, <2>8 DEF Found, Home
    <3>2. CASE call.source = None
      BY <2>4, <2>7, <3>1, <3>2 DEF Found, Home, filesVars
    <3>3. CASE call.source # None
      <4>1. f = call.source /\ Path[2] = call.source
        BY <1>1, <3>3 DEF Claims, IsSource
      <4> QED BY <2>4, <2>7, <4>1 DEF Found
    <3> QED BY <3>2, <3>3
  <2>9. FirstPage /\ OnlyNamesakes => OnlyNamesakes'
    BY <1>2, <2>4, <2>6, <2>7 DEF OnlyNamesakes
  <2>10. LookupFinds'
    BY <1>1, <2>6, <2>8, <2>9 DEF IInv, LookupFinds
  <2> QED BY <1>1, <2>2, <2>3, <2>5, <2>10, ProceedInvariant
<1> QED BY <1>3, <1>4

\* What a lookup answers when nothing is left to look at.
LEMMA DecisionInvariant ==
  ASSUME IInv, at \in {"open", "read"}, call.op # "enumerate", scan.paths = {}, NEW a, Answer(a),
         UNCHANGED host,
         \/ scan.found = None /\ a.is = "not_found"
         \/ scan.found # None /\ a = [is |-> "found", rollout |-> scan.found[2]]
  PROVE  IInv'
<1>1. Followed' /\ host' \in [collected : Seq(Entries), cursor : Cursors \cup {None}]
  BY DEF IInv, TypeOK, Followed, Answer, filesVars
<1>2. EnumerationIsAccurate'
  BY DEF EnumerationIsAccurate, Answer
<1>3. /\ Claims' = Claims /\ Namesakes' = Namesakes
      /\ (FirstPage' <=> FirstPage) /\ (Misnamed' <=> Misnamed)
  BY DEF Claims, Namesakes, FirstPage, Misnamed, filesVars, Answer
<1>4. \A f : Found(f) => scan.found # None /\ f = scan.found[2]
  BY DEF Found
<1>5. LookupFinds
  BY DEF IInv
<1>6. LookupIsDecisive'
  <2>1. CASE scan.found = None /\ a.is = "not_found"
    <3>1. answer'.is = "not_found" /\ Claims \cap Namesakes = {}
      BY <1>4, <1>5, <2>1 DEF LookupFinds, Answer
    <3>2. Claims = {} \/ (FirstPage /\ Misnamed)
      BY <1>4, <1>5, <2>1 DEF LookupFinds, OnlyNamesakes
    <3> QED BY <1>3, <3>1, <3>2 DEF LookupIsDecisive
  <2>2. CASE scan.found # None /\ a = [is |-> "found", rollout |-> scan.found[2]]
    <3>1. answer'.is = "found" /\ answer'.rollout = scan.found[2]
      BY <2>2 DEF Answer
    <3>2. Claims \cap Namesakes \subseteq {scan.found[2]}
      BY <1>4, <1>5 DEF LookupFinds
    <3>3. Claims \subseteq {scan.found[2]} \/ (FirstPage /\ scan.found[2] \in Namesakes)
      BY <1>4, <1>5, <2>2 DEF LookupFinds, OnlyNamesakes
    <3> QED BY <1>3, <3>1, <3>2, <3>3 DEF LookupIsDecisive
  <2> QED BY <2>1, <2>2
<1> QED BY <1>1, <1>2, <1>6, AnswerInvariant

LEMMA LocatedInvariant == ASSUME IInv, Located PROVE IInv'
<1>1. at = "open" /\ call.op # "enumerate" /\ scan.paths = {}
  BY DEF Located
<1>2. CASE scan.found = None
  BY <1>1, <1>2, DecisionInvariant DEF Located, Fail
<1>3. CASE scan.found # None /\ call.op \in {"locate_transcript", "page"}
  BY <1>1, <1>3, DecisionInvariant DEF Located
<1>4. CASE scan.found # None /\ call.op \notin {"locate_transcript", "page"}
  <2>1. Proceed("read", scan) /\ scan \in Scans
    BY <1>4 DEF Located, IInv, TypeOK
  <2>2. Midway'
    BY <1>1, <1>4, <2>1 DEF IInv, TypeOK, Requests, Midway, Proceed
  <2>3. ScanFinds' /\ EnumerationFinds'
    BY <1>1, <2>1 DEF ScanFinds, EnumerationFinds, Proceed
  <2>4. /\ Claims' = Claims /\ Namesakes' = Namesakes /\ ~FirstPage
    BY <1>4, <2>1 DEF Claims, Namesakes, FirstPage, Proceed
  <2>5. \A f \in Claims : Found(f) => Found(f)'
    BY <2>1 DEF Found, Home, Proceed, filesVars
  <2>6. LookupFinds'
    BY <1>1, <2>4, <2>5 DEF IInv, LookupFinds
  <2> QED BY <1>1, <2>1, <2>2, <2>3, <2>6, ProceedInvariant
<1> QED BY <1>2, <1>3, <1>4

LEMMA ReadInvariant == ASSUME IInv, ReadRollout \/ ReportRefused PROVE IInv'
<1>1. at = "read" /\ call.op # "enumerate" /\ scan.paths = {} /\ scan.found # None
  BY DEF ReadRollout, ReportRefused, IInv, Midway
<1>2. CASE Fail("unreadable") \/ Fail("invalid")
  BY <1>1, <1>2, FailInvariant
<1>3. CASE Answer([is |-> "found", rollout |-> scan.found[2]]) /\ UNCHANGED host
  BY <1>1, <1>3, DecisionInvariant
<1> QED BY <1>2, <1>3 DEF ReadRollout, ReportRefused

\* What an enumeration knows where it looks at a path.
LEMMA EnumerationKnows ==
  ASSUME IInv, at \in {"open", "stat", "count"}, call.op = "enumerate"
  PROVE  /\ scan \in Scans /\ call \in Requests /\ IsFiniteSet(scan.entries)
         /\ \A e \in scan.entries : e.id \in scan.ids
         /\ \A d, e \in scan.entries : d.id = e.id => d = e
         /\ at # "open" => Identity[Path[2]] \in scan.ids /\ ~Enumerated(Path[2])
         /\ SameFilter => \A f \in still : Home(f) \in scan.paths \/ Enumerated(f)
         /\ SameFilter => \A f \in still : version[f] >= call.since
         /\ scan.paths # {} => Path \in scan.paths /\ Path \in Paths
<1>1. scan \in Scans /\ call \in Requests /\ EnumerationFinds /\ Followed
  BY DEF IInv, TypeOK
<1>2. scan.paths # {} => Path \in scan.paths /\ Path \in Paths
  BY <1>1, LeastPath DEF Scans
<1>3. SameFilter => \A f \in still : version[f] >= call.since
  BY <1>1 DEF SameFilter, Followed
<1> QED BY <1>1, <1>2, <1>3 DEF EnumerationFinds

LEMMA EnumerateOpenInvariant == ASSUME IInv, EnumerateOpen PROVE IInv'
<1>1. at = "open" /\ call.op = "enumerate" /\ scan.paths # {}
  BY DEF EnumerateOpen
<1>2. CASE ~HeaderReadable(Path)
  <2> DEFINE s == [scan EXCEPT !.paths = scan.paths \ {Path}, !.skipped = TRUE]
  <2>1. [Drop(Path) EXCEPT !.skipped = TRUE] = s /\ s \in Scans
    BY <1>1, EnumerationKnows DEF Drop, Scans
  <2>2. Proceed("open", s)
    BY <1>2, <2>1 DEF EnumerateOpen
  <2>3. /\ scan'.paths = scan.paths \ {Path} /\ scan'.ids = scan.ids /\ scan'.entries = scan.entries
        /\ at' = "open" /\ UNCHANGED <<filesVars, call, still>>
    BY <1>1, <2>2, EnumerationKnows DEF Proceed, Scans
  <2>4. \A f \in still : Home(f) # Path
    BY <1>2 DEF HeaderReadable, Gone, Home, IInv, Standing
  <2>5. \A f \in still : Home(f) \in scan.paths \/ Enumerated(f) =>
          Home(f)' \in scan'.paths \/ Enumerated(f)'
    BY <2>3, <2>4 DEF Home, Enumerated, filesVars
  <2>6. EnumerationFinds'
    BY <1>1, <2>3, <2>5, EnumerationKnows DEF EnumerationFinds, SameFilter
  <2>7. Midway' /\ ScanFinds' /\ LookupFinds'
    BY <1>1, <2>3 DEF Midway, ScanFinds, LookupFinds
  <2> QED BY <1>1, <2>1, <2>2, <2>6, <2>7, ProceedInvariant
<1>3. CASE Fail("ambiguous")
  BY <1>1, <1>3, FailInvariant
<1>4. CASE Identity[Path[2]] \notin scan.ids
           /\ Proceed("stat", [scan EXCEPT !.ids = @ \cup {Identity[Path[2]]}])
  <2> DEFINE s == [scan EXCEPT !.ids = @ \cup {Identity[Path[2]]}]
  <2>1. Identity[Path[2]] \in Sessions
    BY <1>1, EnumerationKnows, PopulationAssumption DEF Paths
  <2>2. s \in Scans
    BY <1>1, <2>1, EnumerationKnows DEF Scans
  <2>3. /\ scan'.paths = scan.paths /\ scan'.ids = scan.ids \cup {Identity[Path[2]]}
        /\ scan'.entries = scan.entries
        /\ at' = "stat" /\ UNCHANGED <<filesVars, call, still>>
    BY <1>1, <1>4, EnumerationKnows DEF Proceed, Scans
  <2>4. Path' = Path /\ ~Enumerated(Path[2])'
    BY <1>1, <1>4, <2>3, EnumerationKnows DEF Path, Precedes, Enumerated
  <2>5. \A f \in still : (Home(f)' = Home(f)) /\ (Enumerated(f) => Enumerated(f)')
    BY <2>3 DEF Home, Enumerated, filesVars
  <2>6. EnumerationFinds'
    BY <1>1, <2>3, <2>4, <2>5, EnumerationKnows DEF EnumerationFinds, SameFilter
  <2>7. Midway' /\ ScanFinds' /\ LookupFinds'
    BY <1>1, <2>3 DEF Midway, ScanFinds, LookupFinds
  <2> QED BY <1>1, <1>4, <2>2, <2>6, <2>7, ProceedInvariant
<1> QED BY <1>2, <1>3, <1>4 DEF EnumerateOpen

\* An entry is complete, and joins the listing unless it is too old.
LEMMA KeepInvariant ==
  ASSUME IInv, at \in {"stat", "count"}, NEW entry \in Entries, Keep(entry),
         entry.path = Path, entry.id = Identity[Path[2]],
         SameFilter /\ Path[2] \in still => entry.updated >= call.since
  PROVE  IInv'
<1>1. call.op = "enumerate" /\ scan.paths # {}
  BY DEF IInv, Midway
<1> DEFINE kept == IF entry.updated < call.since THEN scan.entries ELSE scan.entries \cup {entry}
           s == [scan EXCEPT !.paths = scan.paths \ {Path}, !.entry = None, !.entries = kept]
<1>2. s \in Scans /\ kept \subseteq Entries
  BY <1>1, EnumerationKnows DEF Scans
<1>3. [Drop(Path) EXCEPT !.entry = None,
        !.entries = IF entry.updated < call.since THEN @ ELSE @ \cup {entry}] = s
  BY <1>1, EnumerationKnows DEF Drop, Scans
<1>4. Proceed("open", s)
  BY <1>3 DEF Keep
<1>5. /\ scan'.paths = scan.paths \ {Path} /\ scan'.ids = scan.ids /\ scan'.entries = kept
      /\ at' = "open" /\ UNCHANGED <<filesVars, call, still>>
  BY <1>1, <1>4, EnumerationKnows DEF Proceed, Scans
<1>6. IsFiniteSet(kept)
  BY <1>1, EnumerationKnows, FS_AddElement
<1>7. \A d, e \in kept : d.id = e.id => d = e
  BY <1>1, EnumerationKnows DEF Enumerated
<1>8. ASSUME SameFilter, NEW f \in still PROVE Home(f)' \in scan'.paths \/ Enumerated(f)'
  <2>1. CASE Enumerated(f)
    BY <1>5, <2>1 DEF Enumerated
  <2>2. CASE Home(f) \in scan.paths /\ Home(f) # Path
    BY <1>5, <2>2 DEF Home, filesVars
  <2>3. CASE Home(f) = Path
    <3>1. Path[2] = f /\ entry.updated >= call.since
      BY <1>8, <2>3 DEF Home
    <3>2. entry.updated \in Nat /\ call.since \in Nat
      BY <1>1, EnumerationKnows, PopulationAssumption DEF Entries, Requests
    <3>3. entry \in kept
      BY <3>1, <3>2
    <3> QED BY <1>5, <3>1, <3>3 DEF Enumerated
  <2> QED BY <1>1, <1>8, <2>1, <2>2, <2>3, EnumerationKnows
<1>9. \A e \in kept : e.id \in scan.ids
  BY <1>1, EnumerationKnows DEF IInv, EnumerationFinds
<1>10. EnumerationFinds'
  BY <1>5, <1>6, <1>7, <1>8, <1>9 DEF EnumerationFinds, SameFilter
<1>11. Midway' /\ ScanFinds' /\ LookupFinds'
  BY <1>1, <1>5 DEF Midway, ScanFinds, LookupFinds
<1> QED BY <1>2, <1>4, <1>10, <1>11, ProceedInvariant

LEMMA EnumerateStatInvariant == ASSUME IInv, EnumerateStat PROVE IInv'
<1>1. at = "stat" /\ call.op = "enumerate" /\ scan.paths # {}
  BY DEF EnumerateStat, IInv, Midway
<1> DEFINE entry == [id |-> Identity[Path[2]], path |-> Path,
                     updated |-> version[Path[2]], turns |-> None]
<1>2. Identity[Path[2]] \in Sessions /\ version[Path[2]] \in Nat
  <2>1. Path[2] \in Rollouts
    BY <1>1, EnumerationKnows DEF Paths
  <2>2. Identity[Path[2]] \in Sessions
    BY <2>1, PopulationAssumption
  <2>3. version[Path[2]] \in Nat
    BY <2>1 DEF IInv, TypeOK
  <2> QED BY <2>2, <2>3
<1>3. entry \in Entries
  BY <1>1, <1>2, EnumerationKnows DEF Entries
<1>4. SameFilter /\ Path[2] \in still => entry.updated >= call.since
  BY <1>1, EnumerationKnows
<1>5. CASE Fail("unreadable")
  BY <1>1, <1>5, FailInvariant
<1>6. CASE Proceed("count", [scan EXCEPT !.entry = entry])
  <2> DEFINE s == [scan EXCEPT !.entry = entry]
  <2>1. s \in Scans
    <3> HIDE DEF entry
    <3> QED BY <1>1, <1>3, EnumerationKnows DEF Scans
  <2>2. /\ scan'.paths = scan.paths /\ scan'.ids = scan.ids /\ scan'.entries = scan.entries
        /\ scan'.entry = entry /\ at' = "count" /\ UNCHANGED <<filesVars, call, still>>
    <3> HIDE DEF entry
    <3> QED BY <1>1, <1>6, EnumerationKnows DEF Proceed, Scans
  <2>3. Path' = Path
    BY <2>2 DEF Path, Precedes
  <2>4. \A f \in still : Home(f)' = Home(f)
    BY <2>2 DEF Home, filesVars
  <2>5. \A f : Enumerated(f)' <=> Enumerated(f)
    BY <2>2 DEF Enumerated
  <2>6. EnumerationFinds'
    <3> HIDE DEF entry
    <3> QED BY <1>1, <1>4, <2>2, <2>3, <2>4, <2>5, EnumerationKnows DEF EnumerationFinds, SameFilter
  <2>7. Midway'
    BY <1>1, <1>3, <2>2, <2>3 DEF Midway
  <2>8. ScanFinds' /\ LookupFinds'
    BY <1>1, <2>2 DEF ScanFinds, LookupFinds
  <2> QED BY <1>1, <1>6, <2>1, <2>6, <2>7, <2>8, ProceedInvariant
<1>7. CASE Keep(entry)
  <2>1. entry.path = Path /\ entry.id = Identity[Path[2]]
    OBVIOUS
  <2> HIDE DEF entry
  <2> QED BY <1>1, <1>3, <1>4, <1>7, <2>1, KeepInvariant
<1> QED BY <1>5, <1>6, <1>7 DEF EnumerateStat

LEMMA EnumerateCountInvariant == ASSUME IInv, EnumerateCount PROVE IInv'
<1>1. at = "count" /\ call.op = "enumerate" /\ scan.paths # {}
      /\ scan.entry \in Entries /\ scan.entry.path = Path /\ scan.entry.id = Identity[Path[2]]
  BY DEF EnumerateCount, IInv, Midway
<1> DEFINE entry == [scan.entry EXCEPT !.turns = version[Path[2]]]
<1>2. version[Path[2]] \in Nat
  BY <1>1, EnumerationKnows DEF Paths, IInv, TypeOK
<1>3. /\ entry \in Entries /\ entry.path = Path /\ entry.id = Identity[Path[2]]
      /\ entry.updated = scan.entry.updated
  BY <1>1, <1>2 DEF Entries
<1>4. SameFilter /\ Path[2] \in still => entry.updated >= call.since
  BY <1>1, <1>3 DEF IInv, EnumerationFinds
<1>5. CASE Fail("unreadable")
  BY <1>1, <1>5, FailInvariant
<1>6. CASE Keep(entry)
  <2> HIDE DEF entry
  <2> QED BY <1>1, <1>3, <1>4, <1>6, KeepInvariant
<1> QED BY <1>5, <1>6 DEF EnumerateCount

\* A page of a listing goes on where the one before it ended.
LEMMA SubSeqConcat ==
  ASSUME NEW S, NEW l \in Seq(S), NEW m \in Nat, NEW n \in Nat, m <= n, n <= Len(l)
  PROVE  SubSeq(l, 1, m) \o SubSeq(l, m + 1, n) = SubSeq(l, 1, n)
<1> DEFINE a == SubSeq(l, 1, m)
           b == SubSeq(l, m + 1, n)
           c == SubSeq(l, 1, n)
<1>1. /\ a \in Seq(S) /\ Len(a) = m /\ \A i \in 1..m : a[i] = l[i]
      /\ b \in Seq(S) /\ Len(b) = n - m /\ \A i \in 1..(n - m) : b[i] = l[m + i]
      /\ c \in Seq(S) /\ Len(c) = n /\ \A i \in 1..n : c[i] = l[i]
  BY SubSeqProperties
<1>2. a \o b \in Seq(S) /\ Len(a \o b) = n
  BY <1>1
<1>3. ASSUME NEW i \in 1..n PROVE (a \o b)[i] = c[i]
  <2>1. CASE i <= m
    BY <1>1, <2>1
  <2>2. CASE i > m
    <3>1. (a \o b)[i] = b[i - m] /\ i - m \in 1..(n - m)
      BY <1>1, <2>2
    <3> QED BY <1>1, <3>1
  <2> QED BY <2>1, <2>2
<1> HIDE DEF a, b, c
<1> QED BY <1>1, <1>2, <1>3, SeqEqual

LEMMA EnumerateAnswerInvariant == ASSUME IInv, EnumerateAnswer PROVE IInv'
<1>1. at = "open" /\ call.op = "enumerate" /\ scan.paths = {}
  BY DEF EnumerateAnswer
<1> DEFINE entries == Listing(scan.entries)
           offset == IF call.cursor = None THEN 0 ELSE call.cursor.offset
           end == Least(offset + call.limit, Len(entries))
           complete == end = Len(entries)
           next == IF complete THEN None
                   ELSE [of |-> Fingerprint(entries), offset |-> end]
           collected == host.collected \o SubSeq(entries, offset + 1, end)
<1>2. CASE ~CursorHolds(entries)
  BY <1>1, <1>2, FailInvariant DEF EnumerateAnswer
<1>3. CASE CursorHolds(entries)
  <2>1. /\ Answer([is |-> "page", complete |-> complete])
        /\ host' = [collected |-> collected, cursor |-> next]
    BY <1>3 DEF EnumerateAnswer
  <2>2. /\ entries \in Seq(Entries)
        /\ \A e \in scan.entries : \E i \in DOMAIN entries : entries[i] = e
        /\ \A i \in DOMAIN entries : entries[i] \in scan.entries
        /\ \A i, j \in DOMAIN entries : entries[i] = entries[j] => i = j
    <3>1. scan.entries \subseteq Entries
      BY <1>1, EnumerationKnows DEF Scans
    <3> QED BY <1>1, <3>1, EnumerationKnows, ListingIsOfAll
  <2>3. Fingerprint(entries) \in Listings
    BY <1>1, <2>2, EnumerationKnows DEF Fingerprint, Listings, Requests, Scans
  <2>4. /\ offset \in Nat /\ offset <= Len(entries)
        /\ host.collected = SubSeq(entries, 1, offset)
    <3>1. CASE call.cursor = None
      <4>1. host.collected = <<>>
        BY <1>1, <3>1 DEF IInv, Followed
      <4> QED BY <2>2, <3>1, <4>1, SubSeqProperties, EmptySeq
    <3>2. CASE call.cursor # None
      <4>1. /\ call.cursor.of.entries = entries /\ call.cursor = host.cursor
            /\ host.cursor.offset <= Len(host.cursor.of.entries)
            /\ host.collected = SubSeq(host.cursor.of.entries, 1, host.cursor.offset)
        BY <1>1, <1>3, <3>2 DEF IInv, Followed, CursorHolds, Fingerprint
      <4>2. call.cursor.offset \in Nat
        BY <1>1, <3>2, EnumerationKnows DEF Requests, Cursors
      <4> QED BY <3>2, <4>1, <4>2
    <3> QED BY <3>1, <3>2
  <2>5. SameFilter
    BY <1>3 DEF CursorHolds, Fingerprint, SameFilter
  <2>6. end \in Nat /\ offset <= end /\ end <= Len(entries)
    <3>1. call.limit \in Nat
      BY <1>1, EnumerationKnows, PopulationAssumption DEF Requests
    <3> HIDE DEF offset, entries
    <3>2. Len(entries) \in Nat
      BY <2>2
    <3> QED BY <2>4, <3>1, <3>2 DEF Least
  <2>7. collected = SubSeq(entries, 1, end)
    <3> HIDE DEF offset, entries, end
    <3> QED BY <2>2, <2>4, <2>6, SubSeqConcat
  <2>8. collected \in Seq(Entries)
    <3> HIDE DEF offset, entries, end
    <3>1. \A i \in 1..end : entries[i] \in Entries
      BY <2>2, <2>6
    <3>2. SubSeq(entries, 1, end) \in Seq(Entries)
      BY <2>6, <3>1, SubSeqProperties
    <3> HIDE DEF collected
    <3> QED BY <2>7, <3>2
  <2>9. next \in Cursors \cup {None}
    <3> HIDE DEF entries, end
    <3> QED BY <2>3, <2>6 DEF Cursors
  <2>10. Followed'
    <3>1. host'.cursor # None => /\ host'.cursor.of = Fingerprint(entries) /\ host'.cursor.offset = end
      BY <2>1
    <3>2. Fingerprint(entries).entries = entries /\ Fingerprint(entries).since = call.since
      BY DEF Fingerprint
    <3>3. host'.collected = SubSeq(entries, 1, end) /\ at' = "idle"
      BY <2>1, <2>7 DEF Answer
    <3>4. \A f \in still' : version'[f] >= call.since
      BY <1>1, <2>1, <2>5, EnumerationKnows DEF Answer, filesVars
    <3> HIDE DEF entries, end
    <3> QED BY <2>6, <3>1, <3>2, <3>3, <3>4 DEF Followed
  <2>11. LookupIsDecisive'
    BY <1>1, <2>1 DEF Answer, LookupIsDecisive
  <2>12. EnumerationIsAccurate'
    <3> SUFFICES ASSUME complete PROVE EnumerationIsAccurate'
      BY <2>1 DEF EnumerationIsAccurate, Answer
    <3>1. host'.collected = entries
      <4> HIDE DEF entries
      <4>1. SubSeq(entries, 1, Len(entries)) = entries
        BY <2>2, SubSeqFull
      <4> QED BY <2>1, <2>7, <4>1
    <3>2. \A f \in still' : \E i \in DOMAIN entries : entries[i].id = Identity[f]
      <4>1. \A f \in still' : Enumerated(f)
        BY <1>1, <2>1, <2>5, EnumerationKnows DEF Answer
      <4> HIDE DEF entries
      <4> QED BY <2>2, <4>1 DEF Enumerated
    <3>3. \A i, j \in DOMAIN entries : entries[i].id = entries[j].id => i = j
      <4>1. \A d, e \in scan.entries : d.id = e.id => d = e
        BY <1>1, EnumerationKnows
      <4> HIDE DEF entries
      <4> QED BY <2>2, <4>1
    <3> HIDE DEF entries
    <3> QED BY <3>1, <3>2, <3>3 DEF EnumerationIsAccurate
  <2>13. host' \in [collected : Seq(Entries), cursor : Cursors \cup {None}]
    <3> HIDE DEF collected, next
    <3> QED BY <2>1, <2>8, <2>9
  <2> HIDE DEF complete
  <2> QED BY <1>1, <2>1, <2>10, <2>11, <2>12, <2>13, AnswerInvariant
<1> QED BY <1>2, <1>3

LEMMA ProviderInvariant == ASSUME IInv, Provider PROVE IInv'
<1>1. CASE PageUnreadable
  BY <1>1, FailInvariant DEF PageUnreadable
<1> QED BY <1>1, VisitEntryInvariant, DirectoryListedInvariant, LocateUnreadableInvariant,
           NotClaimedInvariant, ClaimedInvariant, LocatedInvariant, ReadInvariant,
           EnumerateOpenInvariant, EnumerateStatInvariant, EnumerateCountInvariant,
           EnumerateAnswerInvariant DEF Provider

\* The invariant holds at the start, every step keeps it, and it holds for good.
THEOREM PopulationInvariance == Spec => []IInv
<1>1. IInv /\ [Next]_vars => IInv'
  <2>1. ASSUME IInv, UNCHANGED vars PROVE IInv'
    <3>1. TypeOK'
      BY <2>1 DEF vars, filesVars, IInv, TypeOK
    <3> QED BY <2>1, <3>1, ChangeInvariant DEF vars, filesVars, IInv, TypeOK
  <2> QED BY <2>1, AskFirstPageInvariant, AskNextPageInvariant, AskSessionInvariant,
             ProviderInvariant, CodexInvariant DEF Next
<1> QED BY <1>1, InitInvariant, PTL DEF Spec

\* The state keeps its types.
THEOREM PopulationTypeOKHolds == Spec => []TypeOK
BY PopulationInvariance, PTL DEF IInv

\* An enumeration that is followed to its last page lists what stayed exactly once,
\* and no session twice, whatever the population does meanwhile and however large
\* it is.
THEOREM EnumerationIsAccurateHolds == Spec => []EnumerationIsAccurate
BY PopulationInvariance, PTL DEF IInv

\* "Not found", and a sole claim, are right about the rollouts that stayed; in the
\* first page of a snapshot, about those that namesakes do not hide.
THEOREM LookupIsDecisiveHolds == Spec => []LookupIsDecisive
BY PopulationInvariance, PTL DEF IInv

(***************************************************************************)
(* Recorded templates                                                      *)
(***************************************************************************)

LEMMA ResidentInitInvariant == ResidentInit => ResidentIInv
BY TemplateAssumption DEF ResidentInit, ResidentIInv, ResidentTypeOK, Stages, Contents, Synced,
                          Anchored, PublishedIsWhole

\* Steps of one process that leave the records alone.
LEMMA PlainInvariant ==
  ASSUME ResidentIInv, NEW p \in Processes, UNCHANGED storeVars, faults' \in 0..MaxFaults,
         \/ FindRecord(p) \/ FindNone(p) \/ WriteTemporary(p) \/ SyncTemporary(p)
         \/ LoadConfig(p) \/ \E t \in Templates : Prepare(p, t) \/ Serve(p, t)
  PROVE  ResidentIInv'
<1> USE DEF Goto, storeVars, historyVars
<1>1. ResidentTypeOK'
  <2> USE DEF ResidentIInv, ResidentTypeOK, Stages
  <2>1. ASSUME NEW t \in Templates, Prepare(p, t) \/ Serve(p, t) PROVE ResidentTypeOK'
    BY <2>1, TemplateAssumption DEF Prepare, Serve
  <2>2. CASE FindRecord(p) \/ FindNone(p) \/ WriteTemporary(p) \/ SyncTemporary(p)
    BY <2>2 DEF FindRecord, FindNone, WriteTemporary, SyncTemporary
  <2>3. CASE LoadConfig(p)
    BY <2>3 DEF LoadConfig
  <2> QED BY <2>1, <2>2, <2>3
<1>2. Synced'
  BY DEF FindRecord, FindNone, WriteTemporary, SyncTemporary, LoadConfig, Prepare, Serve,
         ResidentIInv, ResidentTypeOK, Synced
<1>3. Anchored'
  BY DEF FindRecord, FindNone, WriteTemporary, SyncTemporary, LoadConfig, Prepare, Serve,
         ResidentIInv, ResidentTypeOK, Anchored
<1>4. PublishedIsWhole'
  BY DEF ResidentIInv, PublishedIsWhole
<1> QED BY <1>1, <1>2, <1>3, <1>4 DEF ResidentIInv

\* A process that exits, in whichever way; what it says is recorded is durable.
LEMMA LeaveInvariant ==
  ASSUME ResidentIInv, NEW p \in Processes, Leave(p), UNCHANGED storeVars,
         answered' \in SUBSET Templates, recorded' \subseteq answered' \cap anchored,
         faults' \in 0..MaxFaults
  PROVE  ResidentIInv'
<1> USE DEF Leave, storeVars
<1>1. ResidentTypeOK'
  BY TemplateAssumption DEF ResidentIInv, ResidentTypeOK, Stages
<1>2. Synced' /\ Anchored' /\ PublishedIsWhole'
  BY DEF ResidentIInv, ResidentTypeOK, Synced, Anchored, PublishedIsWhole
<1> QED BY <1>1, <1>2 DEF ResidentIInv

LEMMA ProcessInvariant ==
  ASSUME ResidentIInv, NEW p \in Processes, Step(p)
  PROVE  ResidentIInv'
<1>1. faults \in 0..MaxFaults /\ (pc[p] # "idle" => about[p] \in Templates)
  BY DEF ResidentIInv, ResidentTypeOK
<1>2. CASE FindRecord(p) \/ FindNone(p) \/ WriteTemporary(p) \/ SyncTemporary(p) \/ LoadConfig(p)
  BY <1>1, <1>2, PlainInvariant
  DEF FindRecord, FindNone, WriteTemporary, SyncTemporary, LoadConfig, storeVars
<1>3. CASE Rename(p)
  <2> USE DEF Rename, Goto, historyVars
  <2>1. ResidentTypeOK'
    BY <1>1, <1>3 DEF ResidentIInv, ResidentTypeOK, Stages, Contents
  <2>2. Synced'
    BY <1>1, <1>3 DEF ResidentIInv, ResidentTypeOK, Synced
  <2>3. Anchored' /\ PublishedIsWhole'
    BY <1>1, <1>3 DEF ResidentIInv, ResidentTypeOK, Anchored, PublishedIsWhole
  <2> QED BY <2>1, <2>2, <2>3 DEF ResidentIInv
<1>4. CASE SyncDirectory(p)
  <2> USE DEF SyncDirectory, Goto, historyVars
  <2>1. ResidentTypeOK'
    BY <1>4 DEF ResidentIInv, ResidentTypeOK, Stages
  <2>2. Synced' /\ Anchored' /\ PublishedIsWhole'
    BY <1>4 DEF ResidentIInv, ResidentTypeOK, Synced, Anchored, PublishedIsWhole
  <2> QED BY <2>1, <2>2 DEF ResidentIInv
<1>5. CASE AnswerPath(p)
  <2>1. answered' \in SUBSET Templates /\ recorded' \subseteq answered' \cap anchored
    BY <1>1, <1>5 DEF AnswerPath, ResidentIInv, ResidentTypeOK, Anchored
  <2> QED BY <1>1, <1>5, <2>1, LeaveInvariant DEF AnswerPath
<1>6. CASE ConfigurationRefused(p) \/ EndpointEnds(p)
  <2>1. answered \in SUBSET Templates /\ recorded \subseteq answered \cap anchored
    BY DEF ResidentIInv, ResidentTypeOK, Anchored
  <2> QED BY <1>1, <1>6, <2>1, LeaveInvariant DEF ConfigurationRefused, EndpointEnds, historyVars
<1> QED BY <1>2, <1>3, <1>4, <1>5, <1>6 DEF Step

LEMMA FaultInvariant ==
  ASSUME ResidentIInv,
         PowerLoss \/ (\E t \in Templates : ChangeRecord(t)) \/ \E p \in Processes : Die(p)
  PROVE  ResidentIInv'
<1>1. ASSUME Fault
      PROVE  /\ faults' \in 0..MaxFaults /\ answered' = answered /\ recorded' = recorded
             /\ answered \in SUBSET Templates /\ recorded \subseteq answered \cap anchored
  BY <1>1, TemplateAssumption DEF Fault, historyVars, ResidentIInv, ResidentTypeOK, Anchored
<1>2. CASE PowerLoss
  <2> USE <1>2 DEF PowerLoss
  <2>1. ResidentTypeOK'
    BY <1>1 DEF ResidentIInv, ResidentTypeOK, Stages
  <2>2. Synced' /\ Anchored'
    BY <1>1 DEF ResidentIInv, Synced, Anchored
  <2>3. PublishedIsWhole'
    BY DEF ResidentIInv, ResidentTypeOK, Synced, PublishedIsWhole
  <2> QED BY <2>1, <2>2, <2>3 DEF ResidentIInv
<1>3. ASSUME NEW t \in Templates, ChangeRecord(t) PROVE ResidentIInv'
  <2> USE <1>3 DEF ChangeRecord
  <2>1. ResidentTypeOK'
    BY <1>1 DEF ResidentIInv, ResidentTypeOK, Contents
  <2>2. Synced' /\ Anchored' /\ PublishedIsWhole'
    BY <1>1 DEF ResidentIInv, ResidentTypeOK, Synced, Anchored, PublishedIsWhole
  <2> QED BY <2>1, <2>2 DEF ResidentIInv
<1>4. ASSUME NEW p \in Processes, Die(p) PROVE ResidentIInv'
  BY <1>1, <1>4, LeaveInvariant DEF Die
<1> QED BY <1>2, <1>3, <1>4

\* The invariant holds at the start, every step keeps it, and it holds for good.
THEOREM ResidentInvariance == ResidentSpec => []ResidentIInv
<1>1. ResidentIInv /\ [ResidentNext]_residentVars => ResidentIInv'
  <2> SUFFICES ASSUME ResidentIInv, [ResidentNext]_residentVars PROVE ResidentIInv'
    OBVIOUS
  <2>1. ASSUME NEW p \in Processes, NEW t \in Templates, Prepare(p, t) \/ Serve(p, t) PROVE ResidentIInv'
    <3>1. faults' \in 0..MaxFaults /\ UNCHANGED storeVars
      BY <2>1 DEF Prepare, Serve, ResidentIInv, ResidentTypeOK
    <3> QED BY <2>1, <3>1, PlainInvariant
  <2>2. CASE UNCHANGED residentVars
    BY <2>2 DEF residentVars, storeVars, historyVars, ResidentIInv, ResidentTypeOK, Synced, Anchored,
                PublishedIsWhole
  <2> QED BY <2>1, <2>2, ProcessInvariant, FaultInvariant DEF ResidentNext
<1> QED BY <1>1, ResidentInitInvariant, PTL DEF ResidentSpec

\* The state keeps its types.
THEOREM ResidentTypeOKHolds == ResidentSpec => []ResidentTypeOK
BY ResidentInvariance, PTL DEF ResidentIInv

\* A template whose path was answered by the process that wrote its record is there
\* and not cut short, whenever power was lost since and whoever prepared it again.
THEOREM WrittenIsDurableHolds == ResidentSpec => []WrittenIsDurable
<1>1. ResidentIInv => WrittenIsDurable
  BY DEF ResidentIInv, ResidentTypeOK, Anchored, PublishedIsWhole, WrittenIsDurable
<1> QED BY <1>1, ResidentInvariance, PTL

\* However many preparations of one template overlap, die or lose power, no short
\* record has its final name.
THEOREM PublishedIsWholeHolds == ResidentSpec => []PublishedIsWhole
BY ResidentInvariance, PTL DEF ResidentIInv
================================================================================
