--------------------------------- MODULE Launch ---------------------------------
(***************************************************************************)
(* One headless Codex turn per launch request (src/src/launch.rs: the      *)
(* CodexLaunch adapter; src/src/terminal.rs: the classification of its     *)
(* end).                                                                   *)
(*                                                                         *)
(* Several provider processes may be given the same request, or requests   *)
(* that resume the same thread.  A turn keeps its state under the state    *)
(* root it is given: the host's data root for a launch, the root of the    *)
(* endpoint for a turn of a resident session.  The adapter checks that the *)
(* account owns the thread, takes the thread's lock in its state root,     *)
(* makes the request's session file, and translates what                   *)
(* `codex exec --json` reports: the identity of the thread is published in *)
(* the session file, where the Bash bridge of a new thread waits for it,   *)
(* and announced to the host.                                              *)
(*                                                                         *)
(* The lifecycle around it is the SDK's and is modelled from how src/ uses *)
(* it and from what src/tests/codex_launch.rs observes: a lock and a       *)
(* durable record per request, which is `running`, naming the native       *)
(* process group, before native effects begin, and `complete` with the     *)
(* terminal result after them.  A provider process may be killed between   *)
(* any two steps; the group it started may then live on.                   *)
(***************************************************************************)
EXTENDS Naturals, FiniteSets

CONSTANTS
  Requests,   \* launch requests, each recorded under its state root
  Providers,  \* provider processes
  Roots,      \* state roots
  Threads,    \* Codex threads
  NoThread,   \* a request for a new thread, or an identity not known yet
  NoOne,      \* a free lock
  Types,      \* bound: what Codex may report of a turn
  Failures,   \* native failures told apart: quota, rate limit, unavailable
  Ends,       \* bound: how its process may end
  MaxDeaths   \* bound: providers killed

ASSUME LaunchAssumption ==
  /\ NoThread \notin Threads /\ NoOne \notin Providers \cup Requests
  /\ Threads \cap {"absent", "empty"} = {}
  /\ Types \subseteq {"agent_message", "turn.completed", "turn.failed", "error"}
  /\ Failures \cap {"none", "other", "clean_exit", "nonzero_exit", "signal_exit",
                   "spawn_error", "cancelled"} = {}
  /\ Ends \subseteq {"zero", "nonzero", "signal"}
  /\ MaxDeaths \in Nat

VARIABLES
  pc,          \* where each provider is
  req,         \* the request it serves
  given,       \* the session the request resumes, or NoThread
  known,       \* thread_id of its adapter
  flags,       \* completed, assistant_response, failed, native_failure
  verdict,     \* the terminal result it is about to record
  root,        \* the state root each request is kept under
  lock,        \* request locks
  sessionLock, \* session-*.lock files of each root
  file,        \* session files: "absent", "empty" or a thread
  phase,       \* durable records: "none", "running" or "complete"
  inputs,      \* the inputs they were made for
  receipt,     \* the terminal result in them
  group,       \* native process groups: "none", "gated", "running" or "gone"
  transcripts, \* threads the account owns
  runs,        \* history: how often Codex was started for a request
  did,         \* history: what Codex reported for it
  ended,       \* history: how it ended
  used,        \* history: sessions its Bash bridge took for its own
  told,        \* history: sessions announced to the host
  claimed,     \* history: requests whose assistant response was announced
  spoiled,     \* requests a provider was killed in or could not make a file for
  deaths       \* providers killed so far

adapterVars == <<req, given, known, flags, verdict>>
recordVars == <<phase, inputs, receipt>>
nativeVars == <<group, transcripts, runs, did, ended>>
historyVars == <<used, told, claimed>>
otherVars == <<root, spoiled, deaths>>
vars == <<pc, adapterVars, lock, sessionLock, file, recordVars, nativeVars,
          historyVars, otherVars>>

Sessions == Threads \cup {NoThread}
\* What Codex reports that the adapter acts on; a failure is "other" when its
\* message is not one that NativeFailure::from_event knows.
Events ==
  [type : Types \cap {"agent_message", "turn.completed"}, failure : {"none"}]
    \cup [type : Types \cap {"turn.failed", "error"}, failure : Failures \cup {"other"}]
Flags == [completed : BOOLEAN, assistant : BOOLEAN, failed : BOOLEAN,
          failure : Failures \cup {"none"}]
NoFlags == [completed |-> FALSE, assistant |-> FALSE, failed |-> FALSE, failure |-> "none"]
NoDeeds == [types |-> {}, failure |-> "none"]
Statuses == {"exited", "signal", "spawn_error", "cancelled"}
Verdicts == [status : Statuses, success : BOOLEAN, thread : Sessions,
             signal : Failures \cup {"clean_exit", "nonzero_exit", "signal_exit",
                                     "spawn_error", "cancelled"}]
NoVerdict == [status |-> "none"]

Preparing == {"locate", "session_lock", "create", "publish", "admit"}
Native == {"gated", "turn", "announce"}
Stages == {"idle", "lock", "custody", "commit"} \cup Preparing \cup Native

Init ==
  /\ pc = [p \in Providers |-> "idle"]
  /\ req = [p \in Providers |-> NoOne]
  /\ given = [p \in Providers |-> NoThread]
  /\ known = [p \in Providers |-> NoThread]
  /\ flags = [p \in Providers |-> NoFlags]
  /\ verdict = [p \in Providers |-> NoVerdict]
  /\ lock = [r \in Requests |-> NoOne]
  /\ root \in [Requests -> Roots]
  /\ sessionLock = [k \in Roots \X Threads |-> NoOne]
  /\ file = [r \in Requests |-> "absent"]
  /\ phase = [r \in Requests |-> "none"]
  /\ inputs = [r \in Requests |-> NoThread]
  /\ receipt = [r \in Requests |-> NoVerdict]
  /\ group = [r \in Requests |-> "none"]
  /\ transcripts \in SUBSET Threads
  /\ runs = [r \in Requests |-> 0]
  /\ did = [r \in Requests |-> NoDeeds]
  /\ ended = [r \in Requests |-> "no"]
  /\ used = [r \in Requests |-> {}] /\ told = [r \in Requests |-> {}]
  /\ claimed = {} /\ spoiled = {} /\ deaths = 0

-----------------------------------------------------------------------------
(* Small steps                                                             *)

Goto(p, from, to) == pc[p] = from /\ pc' = [pc EXCEPT ![p] = to]

\* The process answers and exits: the kernel drops its locks.
Exit(p) ==
  /\ pc' = [pc EXCEPT ![p] = "idle"]
  /\ req' = [req EXCEPT ![p] = NoOne]
  /\ given' = [given EXCEPT ![p] = NoThread]
  /\ known' = [known EXCEPT ![p] = NoThread]
  /\ flags' = [flags EXCEPT ![p] = NoFlags]
  /\ verdict' = [verdict EXCEPT ![p] = NoVerdict]
  /\ lock' = [r \in Requests |-> IF lock[r] = p THEN NoOne ELSE lock[r]]
  /\ sessionLock' = [k \in Roots \X Threads |->
                      IF sessionLock[k] = p THEN NoOne ELSE sessionLock[k]]

\* Variant: nothing is discarded.
DiscardNothing(p) == UNCHANGED file

\* discard: the session file goes if this attempt made it.
Discard(p) ==
  IF pc[p] \in {"publish", "admit"} THEN file' = [file EXCEPT ![req[p]] = "absent"]
                                    ELSE UNCHANGED file

\* A refusal before native admission: the request may be sent again.
Refuse(p) ==
  /\ Discard(p)
  /\ Exit(p)
  /\ UNCHANGED <<recordVars, nativeVars, historyVars, otherVars>>

\* A failure once native work may have begun: the group is ended, and the
\* record stays `running`.
Abort(p) ==
  /\ group' = [group EXCEPT ![req[p]] = "gone"]
  /\ Exit(p)
  /\ UNCHANGED <<file, recordVars, transcripts, runs, did, ended, historyVars, otherVars>>

-----------------------------------------------------------------------------
(* Custody of the request (the SDK's)                                      *)

Submit(p, r, s) ==
  /\ Goto(p, "idle", "lock")
  /\ req' = [req EXCEPT ![p] = r]
  /\ given' = [given EXCEPT ![p] = s]
  /\ known' = [known EXCEPT ![p] = s]
  /\ UNCHANGED <<flags, verdict, lock, sessionLock, file, recordVars, nativeVars,
                 historyVars, otherVars>>

\* Variant: the lock is not asked for.
LockRequestByForce(p) ==
  /\ Goto(p, "lock", "custody")
  /\ lock' = [lock EXCEPT ![req[p]] = p]
  /\ UNCHANGED <<adapterVars, sessionLock, file, recordVars, nativeVars, historyVars, otherVars>>

LockRequest(p) ==
  /\ Goto(p, "lock", "custody")
  /\ lock[req[p]] = NoOne
  /\ lock' = [lock EXCEPT ![req[p]] = p]
  /\ UNCHANGED <<adapterVars, sessionLock, file, recordVars, nativeVars, historyVars, otherVars>>

LaunchBusy(p) == pc[p] = "lock" /\ lock[req[p]] # NoOne /\ Refuse(p)

\* A complete record answers by itself: an exact replay, or request_changed.
AnswerFromRecord(p) ==
  /\ pc[p] = "custody"
  /\ phase[req[p]] = "complete" \/ (phase[req[p]] = "running" /\ inputs[req[p]] # given[p])
  /\ Refuse(p)

\* launch_reconciliation_required: the recorded group is ended and not run again.
Reconcile(p) ==
  /\ pc[p] = "custody"
  /\ phase[req[p]] = "running" /\ inputs[req[p]] = given[p]
  /\ Abort(p)

Begin(p) ==
  /\ Goto(p, "custody", "locate")
  /\ phase[req[p]] = "none"
  /\ UNCHANGED <<adapterVars, lock, sessionLock, file, recordVars, nativeVars,
                 historyVars, otherVars>>

-----------------------------------------------------------------------------
(* prepare                                                                 *)

\* Only a session of the selected account may be resumed.
Locate(p) ==
  /\ given[p] \in transcripts \cup {NoThread}
  /\ Goto(p, "locate", IF given[p] = NoThread THEN "create" ELSE "session_lock")
  /\ UNCHANGED <<adapterVars, lock, sessionLock, file, recordVars, nativeVars,
                 historyVars, otherVars>>

SessionNotFound(p) ==
  /\ pc[p] = "locate" /\ given[p] \notin transcripts \cup {NoThread}
  /\ Refuse(p)

\* The lock file is made in the turn's own state root: turns that resume one
\* thread under different roots do not meet here.
SessionKey(p) == <<root[req[p]], given[p]>>

\* Variant: the lock file is closed when prepare returns.
LockSessionBriefly(p) ==
  /\ Goto(p, "session_lock", "create")
  /\ sessionLock[SessionKey(p)] = NoOne
  /\ UNCHANGED <<adapterVars, lock, sessionLock, file, recordVars, nativeVars,
                 historyVars, otherVars>>

LockSession(p) ==
  /\ Goto(p, "session_lock", "create")
  /\ sessionLock[SessionKey(p)] = NoOne
  /\ sessionLock' = [sessionLock EXCEPT ![SessionKey(p)] = p]
  /\ UNCHANGED <<adapterVars, lock, file, recordVars, nativeVars, historyVars, otherVars>>

SessionBusy(p) ==
  /\ pc[p] = "session_lock" /\ sessionLock[SessionKey(p)] # NoOne
  /\ Refuse(p)

\* create_new and sync of the private session file.
CreateSessionFile(p) ==
  /\ Goto(p, "create", "publish")
  /\ file[req[p]] = "absent"
  /\ file' = [file EXCEPT ![req[p]] = "empty"]
  /\ UNCHANGED <<adapterVars, lock, sessionLock, recordVars, nativeVars, historyVars, otherVars>>

\* An attempt that was killed left the file: every later one fails.
SessionFileExists(p) ==
  /\ pc[p] = "create" /\ file[req[p]] # "absent"
  /\ Refuse(p)

\* The file is made and cannot be synced: the adapter does not know it is there.
SessionFileUnsynced(p) ==
  /\ pc[p] = "create" /\ file[req[p]] = "absent"
  /\ deaths < MaxDeaths /\ deaths' = deaths + 1
  /\ file' = [file EXCEPT ![req[p]] = "empty"]
  /\ spoiled' = spoiled \cup {req[p]}
  /\ Exit(p)
  /\ UNCHANGED <<recordVars, nativeVars, historyVars, root>>

\* publish_session replaces the file whole.
PublishKnown(p) ==
  /\ Goto(p, "publish", "admit")
  /\ file' = IF given[p] = NoThread THEN file ELSE [file EXCEPT ![req[p]] = given[p]]
  /\ UNCHANGED <<adapterVars, lock, sessionLock, recordVars, nativeVars, historyVars, otherVars>>

\* publish_session or the gate cannot be made, or the launch is cancelled or its
\* deadline over before native admission.
PrepareFails(p) == pc[p] \in {"publish", "admit"} /\ Refuse(p)

-----------------------------------------------------------------------------
(* The native turn                                                         *)

\* The group is recorded before its gate opens.
Spawn(p) ==
  /\ Goto(p, "admit", "gated")
  /\ group' = [group EXCEPT ![req[p]] = "gated"]
  /\ phase' = [phase EXCEPT ![req[p]] = "running"]
  /\ inputs' = [inputs EXCEPT ![req[p]] = given[p]]
  /\ UNCHANGED <<adapterVars, lock, sessionLock, file, receipt, transcripts, runs, did, ended,
                 historyVars, otherVars>>

OpenGate(p) ==
  /\ Goto(p, "gated", "turn")
  /\ group' = [group EXCEPT ![req[p]] = "running"]
  /\ runs' = [runs EXCEPT ![req[p]] = @ + 1]
  /\ UNCHANGED <<adapterVars, lock, sessionLock, file, recordVars, transcripts, did,
                 ended, historyVars, otherVars>>

\* start_failed: the gate or Codex could not be started, which is a result.
StartFailed(p) ==
  /\ Goto(p, "gated", "commit")
  /\ group' = [group EXCEPT ![req[p]] = "gone"]
  /\ verdict' = [verdict EXCEPT ![p] =
       [status |-> "spawn_error", success |-> FALSE, thread |-> known[p],
        signal |-> "spawn_error"]]
  /\ UNCHANGED <<req, given, known, flags, lock, sessionLock, file, recordVars, transcripts,
                 runs, did, ended, historyVars, otherVars>>

\* Codex names its thread: a new one unless it was named before.
Names(p, id) ==
  /\ pc[p] = "turn" /\ group[req[p]] = "running"
  /\ known[p] = NoThread => id \notin transcripts
  /\ transcripts' = transcripts \cup {id}

\* Variant: the file is replaced before the identity is compared.
ThreadStartedUnchecked(p, id) ==
  /\ Names(p, id)
  /\ pc' = [pc EXCEPT ![p] = "announce"]
  /\ file' = [file EXCEPT ![req[p]] = id]
  /\ known' = [known EXCEPT ![p] = id]
  /\ UNCHANGED <<req, given, flags, verdict, lock, sessionLock, recordVars, group, runs, did, ended,
                 historyVars, otherVars>>

\* thread.started, as far as the session file.
ThreadStarted(p, id) ==
  /\ Names(p, id)
  /\ known[p] \in {NoThread, id}
  /\ pc' = [pc EXCEPT ![p] = "announce"]
  /\ file' = [file EXCEPT ![req[p]] = id]
  /\ known' = [known EXCEPT ![p] = id]
  /\ UNCHANGED <<req, given, flags, verdict, lock, sessionLock, recordVars, group, runs, did, ended,
                 historyVars, otherVars>>

\* The provider-session marker.
Announce(p) ==
  /\ Goto(p, "announce", "turn")
  /\ told' = [told EXCEPT ![req[p]] = @ \cup {known[p]}]
  /\ UNCHANGED <<adapterVars, lock, sessionLock, file, recordVars, nativeVars, used, claimed,
                 otherVars>>

\* thread_identity_changed
IdentityChanged(p, id) ==
  /\ Names(p, id)
  /\ known[p] \notin {NoThread, id}
  /\ group' = [group EXCEPT ![req[p]] = "gone"]
  /\ Exit(p)
  /\ UNCHANGED <<file, recordVars, runs, did, ended, historyVars, otherVars>>

\* Variant: an error the adapter cannot classify leaves the last one standing.
TranslateKeeping(report, event) ==
  [completed |-> report.completed \/ event.type = "turn.completed",
   assistant |-> report.assistant \/ event.type = "agent_message",
   failed    |-> report.failed \/ event.type = "turn.failed",
   failure   |-> IF event.failure \in Failures THEN event.failure ELSE report.failure]

\* output: what the adapter keeps of an event.  native_failure is that of the
\* last error, and none when the adapter cannot classify it.
Translate(report, event) ==
  [completed |-> report.completed \/ event.type = "turn.completed",
   assistant |-> report.assistant \/ event.type = "agent_message",
   failed    |-> report.failed \/ event.type = "turn.failed",
   failure   |-> IF event.failure = "other" THEN "none"
                 ELSE IF event.failure = "none" THEN report.failure ELSE event.failure]

Reports(p, event) ==
  /\ pc[p] = "turn" /\ group[req[p]] = "running"
  /\ flags' = [flags EXCEPT ![p] = Translate(@, event)]
  /\ did' = [did EXCEPT ![req[p]] =
       [types |-> @.types \cup {event.type},
        failure |-> IF event.failure = "none" THEN @.failure ELSE event.failure]]
  /\ UNCHANGED <<pc, req, given, known, verdict, lock, sessionLock, file, recordVars, group,
                 transcripts, runs, ended, historyVars, otherVars>>

\* Variant: the attempt is discarded, as it would be before native admission.
TurnDiscarded(p) ==
  /\ pc[p] \in Native \cup {"commit"}
  /\ file' = [file EXCEPT ![req[p]] = "absent"]
  /\ phase' = [phase EXCEPT ![req[p]] = "none"]
  /\ group' = [group EXCEPT ![req[p]] = "gone"]
  /\ Exit(p)
  /\ UNCHANGED <<inputs, receipt, transcripts, runs, did, ended, historyVars, otherVars>>

\* A line that is not JSON, a malformed identity, a stream or delivery that
\* fails: the turn cannot be accounted for.
TurnUnaccountable(p) == pc[p] \in Native \cup {"commit"} /\ Abort(p)

\* Variant: what the process says of itself is believed.
CodeOfProcess(exit, report) == exit

\* finish: a process that ends well must also have completed its turn.
Code(exit, report) ==
  IF exit = "zero" /\ (~report.completed \/ report.failed) THEN "nonzero" ELSE exit

\* terminal::classify_with_failure
Signal(status, code, failure) ==
  CASE status = "exited" /\ code = "zero" -> "clean_exit"
    [] status = "exited" /\ code # "zero" -> IF failure = "none" THEN "nonzero_exit" ELSE failure
    [] status = "signal" -> "signal_exit"
    [] status = "cancelled" -> "cancelled"

\* The group is over and its pipes are drained; it may have been stopped by a
\* cancellation or the host's deadline, whatever it exits with.
NativeEnds(p, exit, stopped) ==
  LET code == Code(exit, flags[p])
      status == IF stopped THEN "cancelled" ELSE IF exit = "signal" THEN "signal" ELSE "exited"
      success == status = "exited" /\ code = "zero"
  IN  /\ Goto(p, "turn", "commit")
      /\ group' = [group EXCEPT ![req[p]] = "gone"]
      /\ ended' = [ended EXCEPT ![req[p]] = IF stopped THEN "stopped" ELSE exit]
      /\ verdict' = [verdict EXCEPT ![p] =
           [status |-> status, success |-> success, thread |-> known[p],
            signal |-> Signal(status, code, flags[p].failure)]]
      /\ claimed' = IF success /\ flags[p].completed /\ ~flags[p].failed /\ flags[p].assistant
                      THEN claimed \cup {req[p]} ELSE claimed
      /\ UNCHANGED <<req, given, known, flags, lock, sessionLock, file, recordVars, transcripts,
                     runs, did, used, told, otherVars>>

\* The durable receipt.
Complete(p) ==
  /\ pc[p] = "commit"
  /\ phase' = [phase EXCEPT ![req[p]] = "complete"]
  /\ receipt' = [receipt EXCEPT ![req[p]] = verdict[p]]
  /\ Exit(p)
  /\ UNCHANGED <<file, inputs, nativeVars, historyVars, otherVars>>

-----------------------------------------------------------------------------
(* Codex on its own, and faults                                            *)

\* The Bash bridge of the turn takes the session it works for from its
\* environment, or from the session file as soon as something is in it.
BridgeBinds(r) ==
  LET session == IF inputs[r] = NoThread THEN file[r] ELSE inputs[r]
  IN  /\ group[r] = "running" /\ session \in Threads
      /\ used' = [used EXCEPT ![r] = @ \cup {session}]
      /\ UNCHANGED <<pc, adapterVars, lock, sessionLock, file, recordVars, nativeVars, told,
                     claimed, otherVars>>

\* A killed provider's locks are dropped; a gate that was not opened never
\* opens, and a group that runs runs on.
Die(p) ==
  /\ deaths < MaxDeaths /\ deaths' = deaths + 1
  /\ pc[p] \notin {"idle", "lock"}
  /\ spoiled' = spoiled \cup {req[p]}
  /\ group' = IF group[req[p]] = "gated" THEN [group EXCEPT ![req[p]] = "gone"] ELSE group
  /\ Exit(p)
  /\ UNCHANGED <<file, recordVars, transcripts, runs, did, ended, historyVars, root>>

OrphanEnds(r) ==
  /\ group[r] = "running" /\ lock[r] = NoOne
  /\ group' = [group EXCEPT ![r] = "gone"]
  /\ UNCHANGED <<pc, adapterVars, lock, sessionLock, file, recordVars, transcripts, runs, did,
                 ended, historyVars, otherVars>>

Serve(p) ==
  \/ LockRequest(p) \/ LaunchBusy(p) \/ AnswerFromRecord(p) \/ Reconcile(p) \/ Begin(p)
  \/ Locate(p) \/ SessionNotFound(p) \/ LockSession(p) \/ SessionBusy(p)
  \/ CreateSessionFile(p) \/ SessionFileExists(p) \/ SessionFileUnsynced(p)
  \/ PublishKnown(p) \/ PrepareFails(p) \/ Spawn(p) \/ OpenGate(p) \/ StartFailed(p)
  \/ \E id \in Threads : ThreadStarted(p, id) \/ IdentityChanged(p, id)
  \/ Announce(p) \/ \E event \in Events : Reports(p, event)
  \/ TurnUnaccountable(p)
  \/ \E exit \in Ends, stopped \in BOOLEAN : NativeEnds(p, exit, stopped)
  \/ Complete(p)

Next ==
  \/ \E p \in Providers :
       Serve(p) \/ Die(p) \/ \E r \in Requests, s \in Sessions : Submit(p, r, s)
  \/ \E r \in Requests : BridgeBinds(r) \/ OrphanEnds(r)

Spec == Init /\ [][Next]_vars

-----------------------------------------------------------------------------
(* Properties                                                              *)

TypeOK ==
  /\ pc \in [Providers -> Stages]
  /\ req \in [Providers -> Requests \cup {NoOne}]
  /\ given \in [Providers -> Sessions] /\ known \in [Providers -> Sessions]
  /\ flags \in [Providers -> Flags]
  /\ verdict \in [Providers -> Verdicts \cup {NoVerdict}]
  /\ lock \in [Requests -> Providers \cup {NoOne}]
  /\ root \in [Requests -> Roots]
  /\ sessionLock \in [Roots \X Threads -> Providers \cup {NoOne}]
  /\ file \in [Requests -> Threads \cup {"absent", "empty"}]
  /\ phase \in [Requests -> {"none", "running", "complete"}]
  /\ inputs \in [Requests -> Sessions]
  /\ receipt \in [Requests -> Verdicts \cup {NoVerdict}]
  /\ group \in [Requests -> {"none", "gated", "running", "gone"}]
  /\ transcripts \subseteq Threads
  /\ runs \in [Requests -> Nat]
  /\ did \in [Requests -> [types : SUBSET Types, failure : Failures \cup {"none", "other"}]]
  /\ ended \in [Requests -> {"no", "zero", "nonzero", "signal", "stopped"}]
  /\ used \in [Requests -> SUBSET Threads] /\ told \in [Requests -> SUBSET Threads]
  /\ claimed \subseteq Requests /\ spoiled \subseteq Requests
  /\ deaths \in 0..MaxDeaths
  \* A lock is held by the one provider that serves its request past the wait.
  /\ \A r \in Requests, p \in Providers :
       lock[r] = p <=> req[p] = r /\ pc[p] \notin {"idle", "lock"}

\* A request's Codex is started at most once, whoever is killed when and
\* however often it is sent ("preventing an ambiguous invocation from being
\* silently submitted twice"); what is refused before that may be sent again.
RunsOnce == \A r \in Requests : runs[r] <= 1 /\ (phase[r] = "none" => runs[r] = 0)

InTurn(p) == pc[p] \in Native \cup {"commit"}
Overlap(p, q) ==
  p # q /\ InTurn(p) /\ InTurn(q) /\ given[p] = given[q] /\ given[p] # NoThread

\* No two providers run turns that resume one thread under one state root, for
\* the whole of the turn.
ResumesSerialized ==
  \A p, q \in Providers : Overlap(p, q) => root[req[p]] # root[req[q]]

\* "Concurrent resumes of one session are serialized", whatever their roots.
SessionsSerialized == \A p, q \in Providers : ~Overlap(p, q)

Recorded(r) == IF phase[r] = "complete" THEN {receipt[r].thread} \ {NoThread} ELSE {}

\* The bridge, the host and the receipt all hear of the same thread, although
\* each hears at another time and some may never (publish_session, thread.started).
OneIdentity ==
  \A r \in Requests : Cardinality(used[r] \cup told[r] \cup Recorded(r)) <= 1

\* Success, and an assistant response, are claimed only of a turn that Codex
\* completed, did not fail, and left with exit code 0 unstopped.
SuccessIsEarned ==
  \A r \in Requests :
    /\ r \in claimed \/ (phase[r] = "complete" /\ receipt[r].success)
         => "turn.completed" \in did[r].types /\ "turn.failed" \notin did[r].types
            /\ ended[r] = "zero"
    /\ r \in claimed => "agent_message" \in did[r].types

\* A turn is charged with a quota or rate limit only when that was its last
\* error and it then ended badly by itself ("A recovered request that exits
\* successfully must not poison an account").
SignalIsTheLastError ==
  \A r \in Requests :
    phase[r] = "complete" /\ receipt[r].signal \in Failures =>
      receipt[r].signal = did[r].failure /\ ended[r] \in {"zero", "nonzero"} /\ ~receipt[r].success

\* A refused attempt leaves no session file behind, so that the request can be
\* sent again, unless its provider was killed or its file could not be synced.
RefusalIsClean ==
  \A r \in Requests \ spoiled :
    phase[r] = "none" /\ lock[r] = NoOne => file[r] = "absent"

-----------------------------------------------------------------------------
(* The inductive invariant behind the theorems of LaunchProofs.            *)

Ran == Native \cup {"commit"}

\* From the moment a resume has its thread's lock in its root to its end.
SessionHeld ==
  \A p \in Providers :
    pc[p] \in {"create", "publish", "admit"} \cup Ran /\ given[p] # NoThread
      => sessionLock[SessionKey(p)] = p

\* The record tells whether native effects may have begun.
Admitted(p) ==
  /\ pc[p] # "idle" => req[p] \in Requests
  /\ pc[p] \in Preparing => phase[req[p]] = "none"
  /\ pc[p] \in Ran => phase[req[p]] = "running" /\ inputs[req[p]] = given[p]
  /\ pc[p] = "gated" => runs[req[p]] = 0
Untouched(r) == runs[r] = 0 /\ used[r] = {} /\ told[r] = {} /\ group[r] = "none"
Admission ==
  /\ \A p \in Providers : Admitted(p)
  /\ \A r \in Requests : phase[r] = "none" => Untouched(r)

\* A file that is there before native admission belongs to the attempt under way.
FileOwned ==
  \A r \in Requests \ spoiled :
    phase[r] = "none" /\ file[r] # "absent" =>
      lock[r] # NoOne /\ pc[lock[r]] \in {"publish", "admit"}

\* What the adapter knows of the thread and what the session file says.
KnowsFile(p) ==
  /\ pc[p] \in {"lock", "custody"} \cup Preparing => known[p] = given[p]
  /\ pc[p] = "publish" => file[req[p]] = "empty"
  /\ pc[p] \in {"admit"} \cup Ran =>
       file[req[p]] = IF known[p] = NoThread THEN "empty" ELSE known[p]
  /\ pc[p] = "announce" => known[p] # NoThread
  /\ pc[p] \in Ran /\ given[p] # NoThread => known[p] = given[p]
  /\ pc[p] = "commit" => verdict[p] # NoVerdict /\ verdict[p].thread = known[p]
FileAgrees == \A p \in Providers : KnowsFile(p)

\* Whoever heard of the request's thread heard of the one in its session file.
HeardOfFile(r) ==
  /\ used[r] \cup told[r] \cup Recorded(r) \subseteq {file[r]}
  /\ inputs[r] # NoThread => file[r] = inputs[r]
Heard == \A r \in Requests : phase[r] # "none" => HeardOfFile(r)

IInv == /\ TypeOK /\ SessionHeld /\ Admission /\ FileOwned /\ FileAgrees /\ Heard
        /\ \A r \in Requests : runs[r] <= 1

\* What may be claimed of a request's turn, and charged to it.
Earned(r) ==
  "turn.completed" \in did[r].types /\ "turn.failed" \notin did[r].types /\ ended[r] = "zero"
Warranted(r, result) ==
  /\ result.success => Earned(r)
  /\ result.signal \in Failures =>
       result.signal = did[r].failure /\ ended[r] \in {"zero", "nonzero"} /\ ~result.success

\* While a turn is under way the adapter keeps exactly what Codex reported of
\* it, and nobody has claimed anything yet; its verdict is warranted by that.
Follows(report, deeds) ==
  /\ report.completed <=> "turn.completed" \in deeds.types
  /\ report.assistant <=> "agent_message" \in deeds.types
  /\ report.failed <=> "turn.failed" \in deeds.types
  /\ report.failure = IF deeds.failure \in Failures THEN deeds.failure ELSE "none"
Keeps(p) ==
  /\ pc[p] \notin Ran => flags[p] = NoFlags
  /\ pc[p] \in Native => Follows(flags[p], did[req[p]]) /\ req[p] \notin claimed
  /\ pc[p] = "commit" => Warranted(req[p], verdict[p])
Accounted(r) ==
  /\ phase[r] = "none" => did[r] = NoDeeds /\ r \notin claimed
  /\ phase[r] = "complete" => Warranted(r, receipt[r])
  /\ r \in claimed => Earned(r) /\ "agent_message" \in did[r].types

Account == (\A p \in Providers : Keeps(p)) /\ (\A r \in Requests : Accounted(r))
=============================================================================
