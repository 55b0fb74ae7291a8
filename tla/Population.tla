------------------------------- MODULE Population -------------------------------
(***************************************************************************)
(* The rollout population of one account and the operations that look at   *)
(* it (src/src/session.rs): session.enumerate with its cursors,            *)
(* session.locate_transcript, session.read_turns, session.capture and the  *)
(* source lookup of the paged reads.                                       *)
(*                                                                         *)
(* A provider takes no lock and no snapshot.  It lists archived_sessions   *)
(* and then sessions, one entry at a time, and afterwards looks at every   *)
(* listed path again, once to three times, while Codex creates, extends,   *)
(* archives, unarchives and deletes rollouts.  Providers only read, so one *)
(* call at a time stands for all of them.                                  *)
(*                                                                         *)
(* Rollouts and sessions are numbers, compared as their names would be.    *)
(* The content of a rollout is its version, the time of its last write;    *)
(* its turns, and whether its last record is whole, follow from it.  The   *)
(* directories are flat.                                                   *)
(***************************************************************************)
EXTENDS Naturals, Sequences, FiniteSets

CONSTANTS
  Rollouts,   \* rollout files, numbers in the order of their names
  Sessions,   \* session IDs, numbers in their order
  Identity,   \* the session the first record of a rollout claims
  Named,      \* the session whose ID ends the rollout's file name
  Limits,     \* page sizes a host asks for
  Sinces,     \* lower bounds a host puts on the time of the last write
  MaxChanges, \* bound: changes of the population
  None        \* nothing found, no cursor, no turn count

Directories == {"archived_sessions", "sessions"}

ASSUME PopulationAssumption ==
  /\ Rollouts \subseteq Nat /\ Sessions \subseteq Nat /\ Sinces \subseteq Nat
  /\ Identity \in [Rollouts -> Sessions] /\ Named \in [Rollouts -> Sessions]
  /\ Limits \subseteq Nat \ {0} /\ MaxChanges \in Nat
  /\ None \notin Rollouts \cup (Directories \X Rollouts)

VARIABLES
  place,   \* the directory that holds each rollout, or "absent"
  whole,   \* rollouts whose first record is written
  version, \* the time of each rollout's last write
  changes, \* the clock: changes so far
  call,    \* the request under way, or the last one
  at,      \* where the provider is in it
  scan,    \* what it has seen
  answer,  \* what it answered
  host,    \* the enumeration the host is collecting
  still    \* history: readable rollouts nobody moved since it was asked for

filesVars == <<place, whole, version, changes>>
vars == <<filesVars, call, at, scan, answer, host, still>>

(***************************************************************************)
(* The population                                                          *)
(***************************************************************************)

Change == changes < MaxChanges /\ changes' = changes + 1
        /\ UNCHANGED <<call, at, scan, answer, host>>

\* Codex opens a rollout; its first record is not written yet.
Create(f) ==
  /\ place[f] = "absent" /\ f \notin whole
  /\ Change
  /\ place' = [place EXCEPT ![f] = "sessions"]
  /\ version' = [version EXCEPT ![f] = changes']
  /\ UNCHANGED <<whole, still>>

\* The first record, or another one, reaches the file.
Extend(f) ==
  /\ place[f] # "absent"
  /\ Change
  /\ whole' = whole \cup {f}
  /\ version' = [version EXCEPT ![f] = changes']
  /\ UNCHANGED <<place, still>>

\* Archiving, unarchiving or deletion; none of them is a write.
Move(f) ==
  /\ place[f] # "absent"
  /\ Change
  /\ \E to \in (Directories \cup {"absent"}) \ {place[f]} :
       place' = [place EXCEPT ![f] = to]
  /\ still' = still \ {f}
  /\ UNCHANGED <<whole, version>>

(***************************************************************************)
(* Requests                                                                *)
(***************************************************************************)

Enumerate(counts, since, limit, cursor) ==
  [op |-> "enumerate", counts |-> counts, since |-> since,
   limit |-> limit, cursor |-> cursor]
Lookup(op, id) == [op |-> op, id |-> id, source |-> None]
\* A page of a checkpoint that already owns a file.
BoundLookup(f) == [op |-> "page", id |-> Identity[f], source |-> f]

Empty == [collected |-> <<>>, cursor |-> None]
FirstDirectory == "archived_sessions"
NoScan ==
  [dir |-> FirstDirectory, unlisted |-> Rollouts, paths |-> {},
   ids |-> {}, entries |-> {}, skipped |-> FALSE, entry |-> None, found |-> None]

Begin(request) ==
  /\ at = "idle"
  /\ call' = request /\ at' = "list" /\ scan' = NoScan /\ answer' = None
  /\ UNCHANGED filesVars

Readables(since) ==
  {f \in whole : place[f] # "absent" /\ version[f] >= since}

AskFirstPage ==
  \E counts \in BOOLEAN, since \in Sinces, limit \in Limits :
    /\ Begin(Enumerate(counts, since, limit, None))
    /\ host' = Empty /\ still' = Readables(since)

\* A later page, perhaps with another size or by mistake with other filters.
AskNextPage ==
  \E counts \in BOOLEAN, since \in Sinces, limit \in Limits :
    /\ host.cursor # None
    /\ Begin(Enumerate(counts, since, limit, host.cursor))
    /\ UNCHANGED <<host, still>>

AskSession ==
  \E request \in [op : {"locate_transcript", "read_turns", "capture", "page"},
                  id : Sessions, source : {None}]
                 \cup {BoundLookup(f) : f \in Readables(0)} :
    /\ Begin(request)
    /\ host' = Empty /\ still' = Readables(0)

(***************************************************************************)
(* The scan                                                                *)
(***************************************************************************)

\* One directory entry, in the order the file system likes.
VisitEntry(f) ==
  /\ at = "list" /\ f \in scan.unlisted
  /\ scan' = [scan EXCEPT !.unlisted = @ \ {f},
                !.paths = IF place[f] = scan.dir THEN @ \cup {<<scan.dir, f>>} ELSE @]
  /\ UNCHANGED <<filesVars, call, at, answer, host, still>>

\* Native names select the candidates of a page, unless none is native or
\* the checkpoint knows its file.
Candidates ==
  LET named == {p \in scan.paths : Named[p[2]] = call.id}
  IN  IF call.op # "page" \/ call.source # None \/ named = {}
        THEN scan.paths ELSE named

\* The stack of directories: sessions comes after archived_sessions.
DirectoryListed ==
  /\ at = "list" /\ scan.unlisted = {}
  /\ IF scan.dir = FirstDirectory
       THEN /\ scan' = [scan EXCEPT !.dir = "sessions", !.unlisted = Rollouts]
            /\ at' = at
       ELSE /\ scan' = [scan EXCEPT !.paths = Candidates]
            /\ at' = "open"
  /\ UNCHANGED <<filesVars, call, answer, host, still>>

Precedes(p, q) ==
  \/ p[1] # q[1] /\ p[1] = "archived_sessions"
  \/ p[1] = q[1] /\ p[2] < q[2]

\* The least path not looked at yet.
Path == CHOOSE p \in scan.paths : \A q \in scan.paths \ {p} : Precedes(p, q)

Gone(p) == place[p[2]] # p[1]
HeaderReadable(p) == ~Gone(p) /\ p[2] \in whole

Drop(p) == [scan EXCEPT !.paths = @ \ {p}]

Answer(a) ==
  /\ at' = "idle" /\ answer' = a /\ scan' = NoScan
  /\ UNCHANGED <<filesVars, call, still>>

\* Errors leave the host where it was: it may send the request again.
Fail(kind) == Answer([is |-> kind]) /\ UNCHANGED host

Proceed(where, s) ==
  /\ at' = where /\ scan' = s
  /\ UNCHANGED <<filesVars, call, answer, host, still>>

(***************************************************************************)
(* locate, and the source lookup of a page                                 *)
(***************************************************************************)

\* locate passes over an unreadable path, unless its name ends with the ID.
LocateUnreadable ==
  /\ at = "open" /\ call.op \notin {"enumerate", "page"} /\ scan.paths # {}
  /\ ~HeaderReadable(Path)
  /\ IF Named[Path[2]] = call.id THEN Fail("unreadable")
                                 ELSE Proceed("open", Drop(Path))

\* A page refuses an unreadable candidate, but reads no header of a file that
\* is not its checkpoint's.
PageUnreadable ==
  /\ at = "open" /\ call.op = "page" /\ scan.paths # {}
  /\ \/ Gone(Path)
     \/ call.source \in {None, Path[2]} /\ ~HeaderReadable(Path)
  /\ Fail("unreadable")

IsSource(p) == call.source \in {None, p[2]}

\* Another session's rollout, or not the checkpoint's.
NotClaimed ==
  /\ at = "open" /\ call.op # "enumerate" /\ scan.paths # {}
  /\ IF IsSource(Path) THEN HeaderReadable(Path) /\ Identity[Path[2]] # call.id
                       ELSE ~Gone(Path)
  /\ Proceed("open", Drop(Path))

\* Variant: the first claim is taken for the only one.
ClaimFoundFirst(p) ==
  Proceed("open", [scan EXCEPT !.found = p, !.paths = {}])

ClaimFound(p) ==
  IF scan.found # None THEN Fail("ambiguous")
  ELSE Proceed("open", [Drop(p) EXCEPT !.found = p,
                          !.paths = IF call.source = None THEN @ ELSE {}])

Claimed ==
  /\ at = "open" /\ call.op # "enumerate" /\ scan.paths # {}
  /\ IsSource(Path) /\ HeaderReadable(Path) /\ Identity[Path[2]] = call.id
  /\ ClaimFound(Path)

\* read_turns and capture read the file by its path once more; a page keeps
\* it open.
Located ==
  /\ at = "open" /\ call.op # "enumerate" /\ scan.paths = {}
  /\ IF scan.found = None THEN Fail("not_found")
     ELSE IF call.op \in {"locate_transcript", "page"}
       THEN Answer([is |-> "found", rollout |-> scan.found[2]]) /\ UNCHANGED host
       ELSE Proceed("read", scan)

ReadRollout ==
  /\ at = "read"
  /\ IF Gone(scan.found) THEN Fail("unreadable")
     ELSE Answer([is |-> "found", rollout |-> scan.found[2]]) /\ UNCHANGED host

\* A live report that disagrees with the rollout it names.
ReportRefused ==
  /\ at = "read" /\ call.op = "capture" /\ ~Gone(scan.found)
  /\ Fail("invalid")

(***************************************************************************)
(* enumerate                                                               *)
(***************************************************************************)

EnumerateOpen ==
  /\ at = "open" /\ call.op = "enumerate" /\ scan.paths # {}
  /\ LET id == Identity[Path[2]] IN
     IF ~HeaderReadable(Path)
       THEN Proceed("open", [Drop(Path) EXCEPT !.skipped = TRUE])
     ELSE IF id \in scan.ids THEN Fail("ambiguous")
     ELSE Proceed("stat", [scan EXCEPT !.ids = @ \cup {id}])

\* The entry joins the listing unless it is too old.
Keep(entry) ==
  Proceed("open", [Drop(entry.path) EXCEPT !.entry = None,
    !.entries = IF entry.updated < call.since THEN @ ELSE @ \cup {entry}])

EnumerateStat ==
  /\ at = "stat"
  /\ LET entry == [id |-> Identity[Path[2]], path |-> Path,
                   updated |-> version[Path[2]], turns |-> None]
     IN  IF Gone(Path) THEN Fail("unreadable")
         ELSE IF call.counts THEN Proceed("count", [scan EXCEPT !.entry = entry])
         ELSE Keep(entry)

EnumerateCount ==
  /\ at = "count"
  /\ IF Gone(Path) THEN Fail("unreadable")
     ELSE Keep([scan.entry EXCEPT !.turns = version[Path[2]]])

NewestFirst(a, b) ==
  \/ a.updated > b.updated
  \/ a.updated = b.updated /\ a.id < b.id

\* The entries in order: each has its place behind all that precede it.
Listing(entries) ==
  [i \in 1..Cardinality(entries) |->
     CHOOSE e \in entries : Cardinality({d \in entries : NewestFirst(d, e)}) = i - 1]

Fingerprint(entries) ==
  [entries |-> entries, skipped |-> scan.skipped,
   counts |-> call.counts, since |-> call.since]

\* Variant: the cursor is an offset into whatever is there now.
CursorHoldsAnyway(entries) ==
  call.cursor = None \/ call.cursor.offset <= Len(entries)

\* A cursor is good for the listing it was made from, and no other.
CursorHolds(entries) ==
  call.cursor = None \/ call.cursor.of = Fingerprint(entries)

Least(a, b) == IF a < b THEN a ELSE b

EnumerateAnswer ==
  /\ at = "open" /\ call.op = "enumerate" /\ scan.paths = {}
  /\ LET entries == Listing(scan.entries)
         offset == IF call.cursor = None THEN 0 ELSE call.cursor.offset
         end == Least(offset + call.limit, Len(entries))
         complete == end = Len(entries)
         next == IF complete THEN None
                 ELSE [of |-> Fingerprint(entries), offset |-> end]
     IN  IF ~CursorHolds(entries) THEN Fail("stale")
         ELSE /\ Answer([is |-> "page", complete |-> complete])
              /\ host' = [collected |-> host.collected \o SubSeq(entries, offset + 1, end),
                          cursor |-> next]

(***************************************************************************)
(* The specification                                                       *)
(***************************************************************************)

Init ==
  /\ place \in [Rollouts -> Directories \cup {"absent"}]
  /\ whole = {f \in Rollouts : place[f] # "absent"}
  /\ version = [f \in Rollouts |-> 0] /\ changes = 0
  /\ call = None /\ at = "idle" /\ scan = NoScan /\ answer = None
  /\ host = Empty /\ still = {}

Codex == \E f \in Rollouts : Create(f) \/ Extend(f) \/ Move(f)

Provider ==
  \/ \E f \in Rollouts : VisitEntry(f)
  \/ DirectoryListed
  \/ LocateUnreadable \/ PageUnreadable \/ NotClaimed \/ Claimed \/ Located
  \/ ReadRollout \/ ReportRefused
  \/ EnumerateOpen \/ EnumerateStat \/ EnumerateCount \/ EnumerateAnswer

Next == AskFirstPage \/ AskNextPage \/ AskSession \/ Provider \/ Codex

Spec == Init /\ [][Next]_vars

(***************************************************************************)
(* Properties                                                              *)
(***************************************************************************)

\* An enumeration that a host follows to its last page lists every rollout
\* that was readable when it began, and was not moved since, exactly once,
\* and no session twice, whatever was written, moved, created or asked for
\* in between.
EnumerationIsAccurate ==
  answer # None /\ answer.is = "page" /\ answer.complete =>
    LET places == DOMAIN host.collected
        session(i) == host.collected[i].id
    IN  /\ \A f \in still : \E i \in places : session(i) = Identity[f]
        /\ \A i, j \in places : session(i) = session(j) => i = j

\* Rollouts that claim the session asked for (with a checkpoint: its rollout)
\* and stayed readable and in place since.
Claims == {f \in still : Identity[f] = call.id /\ call.source \in {None, f}}

\* Rollouts that are named after the session asked for.
Namesakes == {f \in Rollouts : Named[f] = call.id}
Misnamed == \E f \in Namesakes \cap whole : Identity[f] # call.id

FirstPage == call.op = "page" /\ call.source = None

\* A session is answered not found only if no rollout that stayed claims it, and
\* a rollout is answered only if no other one that stayed claims the session.
\* For the first page of a snapshot, namesakes hide the claims of others: not
\* found is then final only if each namesake claims the session, and the answer
\* is the sole claim among namesakes, or among all if it is none.
LookupIsDecisive ==
  answer # None /\ call.op # "enumerate" =>
    /\ answer.is = "not_found" =>
         IF FirstPage /\ Misnamed THEN Claims \cap Namesakes = {} ELSE Claims = {}
    /\ answer.is = "found" =>
         IF FirstPage /\ answer.rollout \in Namesakes
           THEN Claims \cap Namesakes \subseteq {answer.rollout}
           ELSE Claims \subseteq {answer.rollout}

(***************************************************************************)
(* The inductive invariant                                                 *)
(***************************************************************************)

Paths == Directories \X Rollouts
Entries == [id : Sessions, path : Paths, updated : Nat, turns : Nat \cup {None}]
Listings == [entries : Seq(Entries), skipped : BOOLEAN, counts : BOOLEAN, since : Sinces]
Cursors == [of : Listings, offset : Nat]
Requests ==
  [op : {"enumerate"}, counts : BOOLEAN, since : Sinces, limit : Limits,
   cursor : Cursors \cup {None}]
  \cup [op : {"locate_transcript", "read_turns", "capture", "page"},
        id : Sessions, source : Rollouts \cup {None}]
Scans ==
  [dir : Directories, unlisted : SUBSET Rollouts, paths : SUBSET Paths,
   ids : SUBSET Sessions, entries : SUBSET Entries, skipped : BOOLEAN,
   entry : Entries \cup {None}, found : Paths \cup {None}]

TypeOK ==
  /\ place \in [Rollouts -> Directories \cup {"absent"}]
  /\ whole \subseteq Rollouts
  /\ changes \in 0..MaxChanges /\ version \in [Rollouts -> 0..changes]
  /\ at \in {"idle", "list", "open", "read", "stat", "count"}
  /\ at # "idle" \/ answer # None => call \in Requests
  /\ at # "idle" => answer = None
  /\ scan \in Scans
  /\ host \in [collected : Seq(Entries), cursor : Cursors \cup {None}]
  /\ still \subseteq Rollouts

\* What a step of a request finds.
Midway ==
  /\ at = "list" => scan.found = None /\ scan.ids = {} /\ scan.entries = {}
  /\ at \in {"stat", "count"} => call.op = "enumerate" /\ scan.paths # {}
  /\ at = "count" => scan.entry \in Entries /\ scan.entry.path = Path
                    /\ scan.entry.id = Identity[Path[2]]
  /\ at = "read" => /\ call.op \in {"read_turns", "capture"}
                   /\ scan.paths = {} /\ scan.found # None

Standing == \A f \in still : f \in whole /\ place[f] \in Directories

\* Where a rollout that stayed is, while it stays.
Home(f) == <<place[f], f>>

\* The scan has found all that stayed where it has looked.
ScanFinds ==
  at = "list" => \A f \in still :
    (place[f] = scan.dir => f \in scan.unlisted \/ Home(f) \in scan.paths)
    /\ (place[f] = FirstDirectory /\ scan.dir # FirstDirectory => Home(f) \in scan.paths)

\* The filter is the one the enumeration began with.
SameFilter == call.cursor = None \/ call.since = call.cursor.of.since

Enumerated(f) == \E e \in scan.entries : e.id = Identity[f]

\* The entries are of different sessions, the next one is of another, and what
\* stayed is among them or will be looked at.
EnumerationFinds ==
  at # "list" /\ at # "idle" /\ call.op = "enumerate" =>
    /\ IsFiniteSet(scan.entries)
    /\ \A e \in scan.entries : e.id \in scan.ids
    /\ \A d, e \in scan.entries : d.id = e.id => d = e
    /\ at # "open" => Identity[Path[2]] \in scan.ids /\ ~Enumerated(Path[2])
    /\ SameFilter => /\ \A f \in still : Home(f) \in scan.paths \/ Enumerated(f)
                     /\ at = "count" /\ Path[2] \in still => scan.entry.updated >= call.since

\* The host has collected what precedes its cursor in the cursor's listing, and
\* all that stayed passes the filter it began with.
Followed ==
  /\ host.cursor # None =>
       /\ host.cursor.offset <= Len(host.cursor.of.entries)
       /\ host.collected = SubSeq(host.cursor.of.entries, 1, host.cursor.offset)
       /\ \A f \in still : version[f] >= host.cursor.of.since
  /\ at # "idle" /\ call.op = "enumerate" =>
       /\ call.cursor = host.cursor
       /\ call.cursor = None =>
            host.collected = <<>> /\ \A f \in still : version[f] >= call.since

Found(f) == Home(f) \in scan.paths \/ (scan.found # None /\ scan.found[2] = f)

\* Only namesakes are looked at, and there is one.
OnlyNamesakes ==
  /\ \A p \in scan.paths : p[2] \in Namesakes
  /\ scan.found # None => scan.found[2] \in Namesakes
  /\ scan.paths # {} \/ scan.found # None \/ Misnamed

\* The claims that stayed are found, or will be looked at.
LookupFinds ==
  at \in {"open", "read"} /\ call.op # "enumerate" =>
    /\ \A f \in Claims \cap Namesakes : Found(f)
    /\ (\A f \in Claims : Found(f)) \/ (FirstPage /\ OnlyNamesakes)

IInv ==
  /\ TypeOK /\ Midway /\ Standing /\ ScanFinds /\ EnumerationFinds /\ Followed /\ LookupFinds
  /\ EnumerationIsAccurate /\ LookupIsDecisive
=============================================================================
