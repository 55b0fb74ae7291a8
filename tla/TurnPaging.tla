------------------------------ MODULE TurnPaging ------------------------------
(***************************************************************************)
(* Incremental reads of one session's rollout                              *)
(* (src/src/session_turn_pages.rs: read_turns_with_limits and what it      *)
(* calls; src/src/session_turn_pages/observation.rs: reconstruct).         *)
(*                                                                         *)
(* The rollout is a file of records, one per line, that Codex appends to   *)
(* while a host reads it in pages under byte, turn and response budgets.   *)
(* A page ends at a cursor, which the host presents to get the next one.   *)
(* A page may end inside a record: the cursor then also names where that   *)
(* record began.  A snapshot covers the file as long as it was when the    *)
(* snapshot began; its last page carries a resume cursor, from which a     *)
(* later snapshot starts.  Each request is a process of its own, and it    *)
(* looks at the file three times: when it opens it, when it reads it, and  *)
(* when it checks, before it answers, that it is still the same file.      *)
(* Whoever has the file may meanwhile touch it, replace it, or cut it and  *)
(* write on, perhaps to beyond its former length.                          *)
(*                                                                         *)
(* Bytes are cells: an ordinary byte, or the newline that completes a      *)
(* record, tagged with what the record is.  Offset 0 is the end of the     *)
(* identity record every rollout begins with, and a source budget counts   *)
(* what is left of it after that record.  The durable store behind         *)
(* canonical cursors is the subject of StagingStore, the key that signs    *)
(* observation cursors that of ObservationKey: here a token is its cursor. *)
(***************************************************************************)
EXTENDS Naturals, Sequences, SequencesExt, FiniteSets, FiniteSetsExt

CONSTANTS
  Projections, \* subset of {"canonical", "observation"}
  Budgets,     \* records [source, turns, response] a request may carry
  NoCursor,    \* no token
  MaxRecord,   \* MAX_RECORD_BYTES, the framing ceiling
  MaxLength,   \* bound: cells in a rollout and its replacement together
  MaxWrites,   \* bound: writes to both, touches and truncations included
  MaxRewrites  \* bound: replacements, truncations and touches together

ASSUME PagingAssumption ==
  /\ Projections \subseteq {"canonical", "observation"}
  /\ Budgets \subseteq [source : Nat, turns : Nat \ {0}, response : Nat]
  /\ MaxRecord \in Nat \ {0} /\ MaxLength \in Nat /\ MaxWrites \in Nat

VARIABLES
  projection, \* what the host asks for, fixed for a session
  files,      \* [Inodes -> cells]
  mtime,      \* [Inodes -> modification stamp]
  live,       \* the inode the session's path names
  cut,        \* history: the stamp of each inode's last truncation, 0 if none
  call,       \* the request being served
  held,       \* the host: the cursor it presents next, or NoCursor
  inbox,      \* the host: where each turn it received begins, in order
  anchor,     \* the host: the offset its reading began at
  earlier,    \* the host: turns it received in earlier snapshots
  memo,       \* the host: a continuation whose answer it lost, and the answer
  rewrites

rollout == <<files, mtime, live, cut>>
host == <<held, inbox, anchor, earlier, memo>>
vars == <<projection, rollout, call, host, rewrites>>

Inodes == {1, 2}
Byte == "byte"
Newlines == {"turn", "other", "malformed"}
Cells == Newlines \cup {Byte}

Stamps == [inode : Inodes, len : 0..MaxLength, mtime : Nat]
Cursors == [kind : {"page", "resume"}, projection : Projections, stamp : Stamps,
            budgets : Budgets, offset : 0..MaxLength, start : 0..MaxLength, sequence : Nat]

ASSUME NoCursorIsNone == NoCursor \notin Cursors

Requests == [mode : {"beginning", "tail", "continuation"},
             token : Cursors \cup {NoCursor}, budgets : Budgets, bound : BOOLEAN]

\* The request is the host's own: its token, as it was issued.
WellUsed(r) ==
  /\ r.bound
  /\ r.mode = "continuation" => r.token.kind = "page" /\ r.token.budgets = r.budgets
  /\ r.mode = "beginning" /\ r.token # NoCursor => r.token.kind = "resume"

-----------------------------------------------------------------------------
(* Generations *)

StampOf(i) == [inode |-> i, len |-> Len(files[i]), mtime |-> mtime[i]]

\* Variant: compares modification times although the file has grown.
SameGenerationByTime(old, now) ==
  old.inode = now.inode /\ old.len <= now.len /\ old.mtime = now.mtime

\* Variant: a file as long as it was is taken to be what it was.
SameGenerationByLength(old, now) == old.inode = now.inode /\ old.len <= now.len

\* require_generation: the file may have grown, and nothing else.
SameGeneration(old, now) ==
  /\ old.inode = now.inode
  /\ old.len <= now.len
  /\ old.len = now.len => old.mtime = now.mtime

\* Variant: the budgets of a continuation may differ from the snapshot's.
HonouredUnderAnyBudgets(r) ==
  r.token # NoCursor =>
    /\ r.bound
    /\ r.token.offset <= Len(files[live])
    /\ SameGeneration(r.token.stamp, StampOf(live))
    /\ r.token.kind = IF r.mode = "continuation" THEN "page" ELSE "resume"

\* load, the binding, the stamp and the start mode's guards; locate_page_source
\* finds no file of the token's inode unless the path still names it.
Honoured(r) ==
  r.token # NoCursor =>
    /\ r.bound
    /\ r.token.offset <= Len(files[live])
    /\ SameGeneration(r.token.stamp, StampOf(live))
    /\ IF r.mode = "continuation"
       THEN r.token.kind = "page" /\ r.token.budgets = r.budgets
       ELSE r.token.kind = "resume"

\* Variant: goes on counting turns from the snapshot before.
PositionKeepingCount(r) ==
  IF r.token = NoCursor
  THEN [kind |-> "page", projection |-> projection, stamp |-> StampOf(live),
        budgets |-> r.budgets, offset |-> 0, start |-> 0, sequence |-> 0]
  ELSE IF r.mode = "continuation" THEN [r.token EXCEPT !.budgets = r.budgets]
  ELSE [r.token EXCEPT !.kind = "page", !.stamp = StampOf(live), !.budgets = r.budgets]

\* The position a snapshot starts from, or the one a continuation goes on from.
\* The work is done under the request's budgets.
Position(r) ==
  IF r.mode = "continuation" THEN [r.token EXCEPT !.budgets = r.budgets]
  ELSE LET at == IF r.token = NoCursor THEN 0 ELSE r.token.offset
           since == IF r.token = NoCursor THEN 0 ELSE r.token.start
       IN [kind |-> "page", projection |-> projection, stamp |-> StampOf(live),
           budgets |-> r.budgets, offset |-> at, start |-> since, sequence |-> 0]

-----------------------------------------------------------------------------
(* What a page holds *)

IsPartial(c) == c.start < c.offset

\* Variant: reads on past the snapshot, to wherever the file ends now.
SourceWindowOfFile(c) == Min({Len(files[c.stamp.inode]) - c.offset, c.budgets.source})

\* The prefix of the unfinished record and the bytes read after it.  Canonical
\* reads take the prefix from the store, observation reads from the file.
SourceWindow(c) == Min({c.stamp.len - c.offset, c.budgets.source})
NativeLimit(c) == Min({SourceWindow(c), MaxRecord - (c.offset - c.start)})
Prefix(c) == [i \in 1..(c.offset - c.start) |-> Byte]
Bytes(c, content) ==
  Prefix(c) \o SubSeq(content, c.offset + 1, Min({c.offset + NativeLimit(c), Len(content)}))

\* An observation notices that the file no longer holds what it should: the
\* prefix of the record it stopped in, and all that the page is to cover.
NoLongerHolds(c, content) ==
  /\ c.projection = "observation"
  /\ \/ Len(content) < c.offset + NativeLimit(c)
     \/ \E i \in (c.start + 1)..c.offset : content[i] # Byte

\* fits: an inline body takes more room than an omitted one, and an observation
\* token more if it carries the record it stopped in.
Weight(turn) == IF turn.inline THEN 2 ELSE 1
Weights(turns) == FoldLeft(LAMBDA sum, turn : sum + Weight(turn), 0, turns)
Size(turns, cursor) ==
  Weights(turns) + (IF cursor.projection = "observation" /\ IsPartial(cursor) THEN 1 ELSE 0)
FitsIn(turns, cursor) == Size(turns, cursor) <= cursor.budgets.response

At(c, offset, start) == [c EXCEPT !.offset = offset, !.start = start]
Framed(c, offset) == At(c, offset, offset)

\* One turn more: inline, else with its body omitted, else the page is full.
Project(c, page, end) ==
  LET begins == c.start + page.consumed
      with(inline) == Append(page.turns, [at |-> begins, inline |-> inline])
      room(inline) == FitsIn(with(inline), Framed(c, c.start + end))
  IN IF Len(page.turns) < c.budgets.turns /\ (room(TRUE) \/ room(FALSE))
     THEN [page EXCEPT !.turns = with(room(TRUE)), !.consumed = end]
     ELSE [page EXCEPT !.status = IF page.turns = <<>> THEN "no_room" ELSE "full"]

\* The loop over complete records, byte by byte: the newline at `end` ends one.
Take(c, bytes, page, end) ==
  IF page.status # "going" \/ bytes[end] = Byte THEN page
  ELSE CASE bytes[end] = "malformed" -> [page EXCEPT !.status = "malformed"]
         [] bytes[end] = "other" -> [page EXCEPT !.consumed = end]
         [] bytes[end] = "turn" -> Project(c, page, end)
NothingTaken == [turns |-> <<>>, consumed |-> 0, status |-> "going"]
Scan(c, bytes) ==
  LET page[end \in 0..Len(bytes)] ==
        IF end = 0 THEN NothingTaken ELSE Take(c, bytes, page[end - 1], end)
  IN page[Len(bytes)]

\* Where the loop stopped: after the last complete record it took, or where it
\* began if it took none.
Checkpoint(c, page) ==
  IF page.consumed = 0 THEN c ELSE Framed(c, c.start + page.consumed)

\* Only an unframed suffix is staged; a complete record that did not go into
\* this page is left whole for the next.
Unframed(page, bytes) ==
  /\ page.consumed < Len(bytes)
  /\ \A i \in (page.consumed + 1)..Len(bytes) : bytes[i] = Byte

\* Variant: forgets that the cursor stopped inside a record.
ReachedWithoutRecord(c, page, bytes) ==
  IF Unframed(page, bytes) THEN Framed(c, c.start + Len(bytes)) ELSE Checkpoint(c, page)

Reached(c, page, bytes) ==
  IF Unframed(page, bytes)
  THEN At(c, c.start + Len(bytes), c.start + page.consumed)
  ELSE Checkpoint(c, page)

\* Variant: calls a snapshot complete when its last bytes were read, not when they were used.
CompleteWhenRead(c, next) == c.stamp.len - c.offset <= c.budgets.source

Complete(c, next) == next.offset = c.stamp.len
\* Variant: answers a page that ends where it began.
StuckNever(c, next) == next.offset < c.offset

Stuck(c, next) == next.offset = c.offset /\ ~Complete(c, next)

\* Bodies are dropped from the last turn backwards, as few as suffices.
OmitLast(turns, n) ==
  [i \in DOMAIN turns |-> IF i > Len(turns) - n THEN [turns[i] EXCEPT !.inline = FALSE]
                                                ELSE turns[i]]
Fitted(turns, cursor) ==
  LET enough == {n \in 0..Len(turns) : FitsIn(OmitLast(turns, n), cursor)}
  IN OmitLast(turns, IF enough = {} THEN Len(turns) ELSE Min(enough))

-----------------------------------------------------------------------------
(* The handler *)

Idle == [pc |-> "idle"]
Refusal(r, why) == [pc |-> "answered", request |-> r, answer |-> [status |-> why]]
Refuse(why) == call' = Refusal(call.request, why)
HandlerLeaves == UNCHANGED <<projection, rollout, host, rewrites>>

RefuseToken ==
  /\ call.pc = "asked" /\ ~Honoured(call.request)
  /\ Refuse("stale")
  /\ HandlerLeaves

Open ==
  /\ call.pc = "asked" /\ Honoured(call.request)
  /\ call' = [pc |-> "opened", request |-> call.request, from |-> Position(call.request),
              current |-> StampOf(live)]
  /\ HandlerLeaves

\* The last record boundary in the final bytes of the file.
TailWindow(r, len) == {i \in 0..len : i + r.budgets.source > len}
Boundaries(r, len, content) ==
  {i \in TailWindow(r, len) : i = 0 \/ content[i] \in Newlines}

ReadTail ==
  /\ call.pc = "opened" /\ call.request.mode = "tail"
  /\ LET now == files[call.current.inode]
         found == Boundaries(call.request, call.current.len, now)
     IN IF Len(now) < call.current.len THEN Refuse("stale")
        ELSE IF found = {} THEN Refuse("no_boundary")
        ELSE call' = [pc |-> "read", request |-> call.request, from |-> call.from,
                      current |-> call.current, turns |-> <<>>,
                      next |-> Framed(call.from, Max(found)),
                      complete |-> TRUE, checkpoint |-> NoCursor]
  /\ HandlerLeaves

ReadForward ==
  /\ call.pc = "opened" /\ call.request.mode # "tail"
  /\ LET c == call.from
         now == files[call.current.inode]
         bytes == Bytes(c, now)
         page == Scan(c, bytes)
         next == Reached(c, page, bytes)
         unframed == Unframed(page, bytes)
     IN IF NoLongerHolds(c, now) THEN Refuse("stale")
        ELSE IF page.status \in {"malformed", "no_room"} THEN Refuse(page.status)
        ELSE IF unframed /\ Len(bytes) - page.consumed >= MaxRecord THEN Refuse("record_limit")
        ELSE IF Stuck(c, next) THEN Refuse("no_progress")
        ELSE call' = [pc |-> "read", request |-> call.request, from |-> c,
                      current |-> call.current, turns |-> page.turns, next |-> next,
                      complete |-> Complete(c, next),
                      checkpoint |-> IF unframed /\ page.consumed > 0
                                     THEN Checkpoint(c, page) ELSE NoCursor]
  /\ HandlerLeaves

\* page_result
Page(turns, next, complete) ==
  [status |-> "page", turns |-> turns, complete |-> complete,
   cursor |-> [next EXCEPT !.kind = IF complete THEN "resume" ELSE "page",
                           !.sequence = next.sequence + Len(turns)]]

\* If the last cursor leaves no room for the metadata of the turns, the page
\* ends at the record boundary before it.
Answer(read) ==
  LET turns == Fitted(read.turns, read.next)
  IN IF FitsIn(turns, read.next) THEN Page(turns, read.next, read.complete)
     ELSE IF read.checkpoint # NoCursor /\ FitsIn(turns, read.checkpoint)
     THEN Page(turns, read.checkpoint, FALSE)
     ELSE [status |-> "no_room"]

Unchanged == SameGeneration(call.current, StampOf(call.current.inode))

Finish ==
  /\ call.pc = "read"
  /\ IF Unchanged
     THEN call' = [pc |-> "answered", request |-> call.request, answer |-> Answer(call)]
     ELSE Refuse("stale")
  /\ HandlerLeaves

Handle == RefuseToken \/ Open \/ ReadTail \/ ReadForward \/ Finish

-----------------------------------------------------------------------------
(* The host *)

Send(r) ==
  /\ call.pc = "idle"
  /\ call' = [pc |-> "asked", request |-> r]
  /\ UNCHANGED <<projection, rollout, host, rewrites>>

Request(mode, cursor, budgets) ==
  [mode |-> mode, token |-> cursor, budgets |-> budgets, bound |-> TRUE]

Begin(budgets) == held = NoCursor /\ Send(Request("beginning", NoCursor, budgets))
BeginAtTail(budgets) ==
  /\ held = NoCursor /\ projection = "observation"
  /\ Send(Request("tail", NoCursor, budgets))
Continue ==
  /\ held # NoCursor /\ held.kind = "page"
  /\ Send(Request("continuation", held, held.budgets))
Resume(budgets) ==
  /\ held # NoCursor /\ held.kind = "resume"
  /\ Send(Request("beginning", held, budgets))

\* One mistake: the wrong kind of token, other budgets in the middle of a
\* snapshot, or another account's token.
Misuse ==
  /\ held # NoCursor
  /\ LET right == IF held.kind = "page" THEN "continuation" ELSE "beginning"
         wrong == IF held.kind = "page" THEN "beginning" ELSE "continuation"
     IN \/ Send(Request(wrong, held, held.budgets))
        \/ \E b \in Budgets \ {held.budgets} : held.kind = "page" /\ Send(Request(right, held, b))
        \/ Send([Request(right, held, held.budgets) EXCEPT !.bound = FALSE])

Received(answer) == [i \in DOMAIN answer.turns |-> answer.turns[i].at]

Accept ==
  /\ call.pc = "answered" /\ call.answer.status = "page"
  /\ held' = call.answer.cursor
  /\ inbox' = inbox \o Received(call.answer)
  /\ anchor' = IF call.request.mode = "tail" THEN call.answer.cursor.offset ELSE anchor
  /\ earlier' = IF call.request.mode = "continuation" THEN earlier ELSE Len(inbox)
  /\ memo' = NoCursor
  /\ call' = Idle
  /\ UNCHANGED <<projection, rollout, rewrites>>

\* A host whose own cursor went stale starts over; any other refusal leaves it
\* where it was.
StartsOver == WellUsed(call.request) /\ call.answer.status = "stale"
Refused ==
  /\ call.pc = "answered" /\ call.answer.status # "page"
  /\ call' = Idle
  /\ IF StartsOver
     THEN held' = NoCursor /\ inbox' = <<>> /\ anchor' = 0 /\ earlier' = 0 /\ memo' = NoCursor
     ELSE UNCHANGED host
  /\ UNCHANGED <<projection, rollout, rewrites>>

\* The answer never reaches the host, which asks again.  A process that dies
\* before it answers comes to the same, since a request leaves nothing behind.
\* Bound: what was lost once is not lost again before the host got on.
Lose ==
  /\ call.pc = "answered" /\ memo = NoCursor
  /\ memo' = IF call.request.mode = "continuation"
             THEN [token |-> call.request.token, answer |-> call.answer] ELSE NoCursor
  /\ call' = Idle
  /\ UNCHANGED <<projection, rollout, held, inbox, anchor, earlier, rewrites>>

-----------------------------------------------------------------------------
(* The writer of the rollout, and whoever else has its directory *)

Grow(cell) ==
  /\ Len(files[1]) + Len(files[2]) < MaxLength /\ mtime[1] + mtime[2] < MaxWrites
  /\ files' = [files EXCEPT ![live] = Append(@, cell)]
  /\ mtime' = [mtime EXCEPT ![live] = @ + 1]
  /\ UNCHANGED <<projection, live, cut, call, host, rewrites>>

Rewrite == rewrites < MaxRewrites /\ rewrites' = rewrites + 1
           /\ UNCHANGED <<projection, call, host>>

Replace ==
  /\ Rewrite /\ live = 1 /\ live' = 2
  /\ UNCHANGED <<files, mtime, cut>>

\* In place; what is written afterwards need not be what was there.
Truncate ==
  /\ Rewrite
  /\ \E n \in 0..(Len(files[live]) - 1) : files' = [files EXCEPT ![live] = SubSeq(@, 1, n)]
  /\ mtime' = [mtime EXCEPT ![live] = @ + 1]
  /\ cut' = [cut EXCEPT ![live] = mtime[live] + 1]
  /\ UNCHANGED live

Touch ==
  /\ Rewrite
  /\ mtime' = [mtime EXCEPT ![live] = @ + 1]
  /\ UNCHANGED <<files, live, cut>>

-----------------------------------------------------------------------------
Init ==
  /\ projection \in Projections
  /\ files = [i \in Inodes |-> <<>>] /\ mtime = [i \in Inodes |-> 0]
  /\ live = 1 /\ cut = [i \in Inodes |-> 0]
  /\ call = Idle
  /\ held = NoCursor /\ inbox = <<>> /\ anchor = 0 /\ earlier = 0 /\ memo = NoCursor
  /\ rewrites = 0

Host ==
  \/ \E b \in Budgets : Begin(b) \/ BeginAtTail(b) \/ Resume(b)
  \/ Continue \/ Misuse \/ Accept \/ Refused \/ Lose
Environment == (\E cell \in Cells : Grow(cell)) \/ Replace \/ Truncate \/ Touch

Next == Handle \/ Host \/ Environment

Spec == Init /\ [][Next]_vars

\* A request that was sent is served and its answer taken up; a host that may
\* go on with its snapshot time and again does so.
FairSpec ==
  /\ Spec
  /\ []<>(call.pc \notin {"asked", "opened", "read"}) /\ WF_vars(Accept \/ Refused) /\ SF_vars(Continue)

-----------------------------------------------------------------------------
(* Properties *)

\* A record that ends at `end` begins at `start`.
RecordAt(content, start, end) ==
  /\ start < end /\ (start = 0 \/ content[start] \in Newlines)
  /\ \A i \in (start + 1)..(end - 1) : content[i] = Byte

\* Where the turns begin whose records end after `from` and by `to`.
TurnStarts(content, from, to) ==
  {start \in 0..to :
     \E end \in (from + 1)..to : content[end] = "turn" /\ RecordAt(content, start, end)}

\* They are in the sequence, each of them once, in order, and nothing else is.
Lists(starts, content, from, to) ==
  /\ ToSet(starts) = TurnStarts(content, from, to)
  /\ \A i, j \in DOMAIN starts : i < j => starts[i] < starts[j]

\* The file was never cut.
Intact(cursor) == cut[cursor.stamp.inode] = 0
Content(cursor) == files[cursor.stamp.inode]
Answered(status) == call.pc = "answered" /\ call.answer.status = status

\* However the pages were cut, whatever was appended in between, and however
\* often an answer was lost, the host has received every turn between the point
\* it began at and the record boundary of its cursor, once and in order
\* (the cursor's offset and partial_record over many requests).
ExactlyOnce ==
  held # NoCursor /\ Intact(held) =>
    Lists(inbox, Content(held), anchor, held.start)

\* When a snapshot is reported complete, no complete record of the file as the
\* snapshot found it lies beyond the cursor (snapshot_complete, tail included).
CompletionIsTotal ==
  held # NoCursor /\ held.kind = "resume" /\ Intact(held) =>
    \A i \in (held.start + 1)..held.stamp.len : Content(held)[i] = Byte

\* A cursor lies in the file its snapshot covers, at or after the start of its
\* record, and its sequence counts the turns the host received in this snapshot,
\* across continuations (snapshot_sequence, page_start_sequence).
SequenceAgrees ==
  held # NoCursor =>
    /\ held \in Cursors /\ held.start <= held.offset /\ held.offset <= held.stamp.len
    /\ held.sequence + earlier = Len(inbox)

\* A continuation that is asked again after its answer was lost gets the same
\* page again, although the file has grown in between (README: replay).
ReplayIdentical ==
  /\ Answered("page") /\ memo # NoCursor /\ memo.answer.status = "page"
  /\ call.request.token = memo.token /\ Intact(memo.token)
  => call.answer = memo.answer

\* A host that presents its own cursor as it was issued is never told it is
\* stale while the writer only appends (require_generation, twice per request).
OnlyRewritesGoStale ==
  Answered("stale") /\ WellUsed(call.request) => rewrites > 0

\* The looks a page relies on: when its request was opened, and when the snapshot
\* of the token it was given began.
Looks == {call.current} \cup (IF call.request.token = NoCursor THEN {}
                              ELSE {call.request.token.stamp})

\* A page is answered over a file that was cut since one of its looks, by then or
\* by an earlier request's, only if the file has grown past what that look found:
\* "same-inode rewrites combined with file growth are not newly content-attested",
\* every other truncation is refused, whatever was written over it.
NoTornPage ==
  [][call.pc = "read" /\ call'.pc = "answered" /\ call'.answer.status = "page" =>
       \A look \in Looks :
         cut[look.inode] > look.mtime => look.len < Len(files[look.inode])]_vars

\* A snapshot under way is completed, or the host has to start over, or is told
\* why it cannot go on: pages never go in circles.
RefusedForGood ==
  /\ call.pc = "answered" /\ call.answer.status \notin {"page", "stale"}
  /\ WellUsed(call.request)
SnapshotCompletes ==
  (held # NoCursor /\ held.kind = "page")
    ~> (held = NoCursor \/ held.kind = "resume" \/ RefusedForGood)

-----------------------------------------------------------------------------
(* The inductive invariant behind the theorems of TurnPagingProofs. *)

Turns == Seq([at : Nat, inline : BOOLEAN])
Refusals == {"stale", "no_boundary", "malformed", "no_room", "record_limit", "no_progress"}
Pages == [status : {"page"}, turns : Turns, complete : BOOLEAN, cursor : Cursors]
Answers == Pages \cup [status : Refusals]

AskedCalls == [pc : {"asked"}, request : Requests]
OpenedCalls == [pc : {"opened"}, request : Requests, from : Cursors, current : Stamps]
ReadCalls == [pc : {"read"}, request : Requests, from : Cursors, current : Stamps,
              turns : Turns, next : Cursors, complete : BOOLEAN,
              checkpoint : Cursors \cup {NoCursor}]
AnsweredCalls == [pc : {"answered"}, request : Requests, answer : Answers]

TypeOK ==
  /\ projection \in Projections
  /\ files \in [Inodes -> Seq(Cells)] /\ Len(files[1]) + Len(files[2]) <= MaxLength
  /\ mtime \in [Inodes -> Nat] /\ live \in Inodes /\ cut \in [Inodes -> Nat]
  /\ call \in [pc : {"idle"}] \cup AskedCalls \cup OpenedCalls \cup ReadCalls \cup AnsweredCalls
  /\ held \in Cursors \cup {NoCursor} /\ inbox \in Seq(Nat)
  /\ anchor \in Nat /\ earlier \in Nat /\ rewrites \in Nat
  /\ memo \in [token : Cursors, answer : Answers] \cup {NoCursor}

\* A file that was not cut is as long as it ever was, and as long as nobody
\* rewrote anything every stamp is of the live file's one generation.
StampHolds(stamp) ==
  /\ cut[stamp.inode] = 0 => stamp.len <= Len(files[stamp.inode])
  /\ rewrites = 0 => stamp.inode = live /\ SameGeneration(stamp, StampOf(live))

Ordered(cursor) == cursor.start <= cursor.offset /\ cursor.offset <= cursor.stamp.len
\* A cursor names the start of the record it stopped in.
InRecord(content, cursor) ==
  /\ cursor.start = 0 \/ content[cursor.start] \in Newlines
  /\ \A i \in (cursor.start + 1)..cursor.offset : content[i] = Byte
Exhausted(content, cursor) ==
  \A i \in (cursor.start + 1)..cursor.stamp.len : content[i] = Byte

CursorHolds(cursor) ==
  /\ Ordered(cursor) /\ StampHolds(cursor.stamp)
  /\ Intact(cursor) => InRecord(Content(cursor), cursor)

\* What a forward read finds from `c` on.
ReadOf(c, content) ==
  LET bytes == Bytes(c, content)
      page == Scan(c, bytes)
      next == Reached(c, page, bytes)
  IN [turns |-> page.turns, next |-> next, complete |-> Complete(c, next),
      checkpoint |-> IF Unframed(page, bytes) /\ page.consumed > 0
                     THEN Checkpoint(c, page) ELSE NoCursor]
\* A page that answers the host's cursor says what the file says now.
Replays(answer) ==
  Intact(held) => answer = Answer(ReadOf(held, Content(held)))

HostHolds ==
  /\ held = NoCursor => inbox = <<>> /\ anchor = 0 /\ earlier = 0 /\ memo = NoCursor
  /\ held # NoCursor =>
       /\ CursorHolds(held) /\ anchor <= held.start
       /\ held.sequence + earlier = Len(inbox)
       /\ Intact(held) => Lists(inbox, Content(held), anchor, held.start)
       /\ Intact(held) /\ held.kind = "resume" => Exhausted(Content(held), held)
MemoHolds ==
  memo # NoCursor =>
    /\ held # NoCursor /\ memo.token = held
    /\ memo.answer.status = "page" => held.kind = "page" /\ Replays(memo.answer)

\* A snapshot goes on from the host's cursor, or begins at it or at the start.
GoesOn(cursor) ==
  held # NoCursor => held.stamp.inode = cursor.stamp.inode /\ held.stamp.len <= cursor.stamp.len
Origin == IF held = NoCursor THEN 0 ELSE held.start
RightKind(mode) ==
  IF mode = "continuation" THEN held.kind = "page" ELSE held # NoCursor => held.kind = "resume"

RequestHolds ==
  LET r == call.request
  IN /\ r.token = held
     /\ r.mode = "tail" => held = NoCursor
     /\ r.mode = "continuation" => held # NoCursor
LookHolds ==
  LET c == call.from
  IN /\ RightKind(call.request.mode) /\ GoesOn(c)
     /\ CursorHolds(c) /\ StampHolds(call.current)
     /\ c.start = Origin /\ (held = NoCursor => c.offset = 0)
     /\ IF call.request.mode = "continuation" THEN c = held
                                              ELSE c.sequence = 0 /\ c.stamp = call.current
     /\ call.current.inode = c.stamp.inode /\ c.stamp.len <= call.current.len
     /\ held # NoCursor => SameGeneration(held.stamp, call.current)
StopHolds(cursor) ==
  /\ cursor.stamp = call.from.stamp /\ cursor.sequence = call.from.sequence
  /\ cursor.start = call.next.start /\ CursorHolds(cursor)
ReadHolds ==
  LET c == call.from
      tail == call.request.mode = "tail"
  IN /\ StopHolds(call.next) /\ c.start <= call.next.start
     /\ call.checkpoint # NoCursor => StopHolds(call.checkpoint)
     /\ Intact(c) /\ call.complete => Exhausted(Content(c), call.next)
     /\ tail => call.turns = <<>> /\ call.next.start = call.next.offset
                /\ call.checkpoint = NoCursor
     /\ Intact(c) /\ ~tail => Lists(Received(call), Content(c), c.start, call.next.start)
     /\ Intact(c) /\ call.request.mode = "continuation" =>
          LET found == ReadOf(c, Content(c))
          IN /\ call.turns = found.turns /\ call.next = found.next
             /\ call.complete = found.complete /\ call.checkpoint = found.checkpoint
PageHolds ==
  LET mode == call.request.mode
      c == call.answer.cursor
  IN /\ RightKind(mode) /\ GoesOn(c)
     /\ CursorHolds(c) /\ Origin <= c.start
     /\ Intact(c) /\ c.kind = "resume" => Exhausted(Content(c), c)
     /\ c.sequence = Len(call.answer.turns) + (IF mode = "continuation" THEN held.sequence ELSE 0)
     /\ mode = "tail" => call.answer.turns = <<>> /\ c.start = c.offset
     /\ Intact(c) /\ mode # "tail" => Lists(Received(call.answer), Content(c), Origin, c.start)
     /\ mode = "continuation" => Replays(call.answer)

\* Every write moves the modification time on, a truncation too.
CutsHold == \A i \in Inodes : cut[i] <= mtime[i] /\ (rewrites = 0 => cut[i] = 0)

IInv ==
  /\ TypeOK /\ CutsHold /\ HostHolds /\ MemoHolds
  /\ call.pc # "idle" => RequestHolds
  /\ call.pc \in {"opened", "read"} => LookHolds
  /\ call.pc = "read" => ReadHolds
  /\ Answered("page") => PageHolds
  /\ OnlyRewritesGoStale /\ ReplayIdentical
=============================================================================
