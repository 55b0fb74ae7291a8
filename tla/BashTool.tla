------------------------------- MODULE BashTool -------------------------------
(***************************************************************************)
(* The Bash tool that Codex calls over MCP                                 *)
(* (src/integrations/codex/agent-bash-mcp.ts: sessionId, callBash, serve;  *)
(* src/integrations/opencode/tools/bash.ts: execute and what it awaits).   *)
(*                                                                         *)
(* One bridge process serves concurrent calls on one thread of JavaScript: *)
(* an action is what runs between two awaits.  A call finds the session    *)
(* that owns it, waits until the runner has acknowledged that session, has *)
(* the agent-bash supervisor start the command, and then answers at once   *)
(* (async), or polls until the command is over and answers with its output *)
(* (sync).  A call can be aborted at any await, by a cancellation or       *)
(* because the bridge is closing; every subprocess that is not given the   *)
(* abort signal then runs on to its end.                                   *)
(*                                                                         *)
(* The supervisor and the runner are other programs, modelled from how     *)
(* they are used: a workload is named by the call that dispatched it.      *)
(***************************************************************************)
EXTENDS Naturals, FiniteSets

CONSTANTS
  Calls,      \* request ids; also the handles of the workloads they start
  Threads,    \* Codex threads a call's metadata may name
  NoThread,
  Resumed     \* AGENT_RUNNER_CODEX_SESSION_ID, or NoThread

ASSUME ToolAssumption == NoThread \notin Threads /\ Resumed \in Threads \cup {NoThread}

VARIABLES
  headless,   \* the caller has no terminal
  bridge,     \* "serving", "closing" or "exited"
  bound,      \* boundMetadataSession
  binding,    \* liveSessionBinding: "none", "pending", "bound" or "gone"
  pc,         \* where each call is
  args,       \* what it asks for
  aborted,    \* its abort signal
  dispatched, \* calls that were told the handle of their running workload
  acquired,   \* it holds a verified snapshot of terminal output
  answer,     \* what it was answered
  work,       \* workloads: "none", "running" or "terminal"
  mode,       \* their delivery mode
  leased,     \* they are cancelled when the bridge is gone
  owner,      \* the session they were dispatched for
  cancel,     \* "no", "tried" or "requested"
  settled     \* workloads with a local receipt or a request to progress

bridgeVars == <<headless, bridge, bound, binding>>
callVars == <<pc, args, aborted, dispatched, acquired, answer>>
workVars == <<work, mode, leased, owner, cancel, settled>>
vars == <<bridgeVars, callVars, workVars>>

Deliveries == {"sync", "async"}
Arguments ==
  [kind : {"run"}, dispatch : BOOLEAN, delivery : Deliveries, thread : Threads]
    \cup [kind : {"observe", "cancel"}, handle : Calls, thread : Threads]
    \cup [kind : {"sleep"}, thread : Threads]
NoArguments == [kind |-> "none"]

Init ==
  /\ headless \in BOOLEAN
  /\ bridge = "serving" /\ bound = NoThread /\ binding = "none"
  /\ pc = [c \in Calls |-> "idle"]
  /\ args = [c \in Calls |-> NoArguments]
  /\ aborted = [c \in Calls |-> FALSE]
  /\ dispatched = {}
  /\ acquired = [c \in Calls |-> FALSE]
  /\ answer = [c \in Calls |-> "none"]
  /\ work = [c \in Calls |-> "none"]
  /\ mode = [c \in Calls |-> "sync"]
  /\ leased = [c \in Calls |-> FALSE]
  /\ owner = [c \in Calls |-> NoThread]
  /\ cancel = [c \in Calls |-> "no"]
  /\ settled = {}

-----------------------------------------------------------------------------
(* Small steps *)

Running(c) == pc[c] \notin {"idle", "done"}
At(c, here) == bridge # "exited" /\ pc[c] = here
Goto(c, there) == pc' = [pc EXCEPT ![c] = there]
Answer(c, what) ==
  /\ pc' = [pc EXCEPT ![c] = "done"]
  /\ answer' = [answer EXCEPT ![c] = what]

\* The workload a call is about: its own, or the one it names.
Handle(c) == IF args[c].kind \in {"observe", "cancel"} THEN args[c].handle ELSE c
\* Only the call that dispatched a workload owes its cancellation.
Waits(c) == args[c].kind = "run"

\* selectedDelivery and leaseToCaller
Delivery(a) == IF a.dispatch /\ headless THEN "async" ELSE a.delivery

\* Variant: only a caller with a terminal leases its workloads.
LeaseOfTerminal(a) == ~headless

Lease(a) == Delivery(a) = "sync" \/ ~headless

-----------------------------------------------------------------------------
(* The bridge: requests, cancellation, closing *)

\* Lines are read until the process exits: a call that comes while the bridge is
\* closing is not aborted by that, and may be cut off by the exit.
Call(c, a) ==
  /\ bridge # "exited" /\ pc[c] = "idle"
  /\ args' = [args EXCEPT ![c] = a]
  /\ Goto(c, "owner")
  /\ UNCHANGED <<bridgeVars, aborted, dispatched, acquired, answer, workVars>>

Cancelled(c) ==
  /\ bridge # "exited" /\ Running(c) /\ ~aborted[c]
  /\ aborted' = [aborted EXCEPT ![c] = TRUE]
  /\ UNCHANGED <<bridgeVars, pc, args, dispatched, acquired, answer, workVars>>

Close ==
  /\ bridge = "serving" /\ bridge' = "closing"
  /\ aborted' = [c \in Calls |-> aborted[c] \/ Running(c)]
  /\ UNCHANGED <<headless, bound, binding, pc, args, dispatched, acquired, answer, workVars>>

\* All calls are over, or the grace period is.
Exit ==
  /\ bridge = "closing" /\ bridge' = "exited"
  /\ UNCHANGED <<headless, bound, binding, callVars, workVars>>

-----------------------------------------------------------------------------
(* Before the command runs *)

\* Variant: the thread of an earlier call is not remembered.
IdentifiedAnew(c) == headless \/ Resumed \in {NoThread, args[c].thread}

\* sessionId: from the thread metadata of the call in a terminal, else from the
\* session file of the launch, which names one thread.
Identified(c) ==
  headless \/ /\ Resumed \in {NoThread, args[c].thread}
              /\ bound \in {NoThread, args[c].thread}

FindOwner(c) ==
  /\ At(c, "owner") /\ Identified(c)
  /\ bound' = IF headless THEN bound ELSE args[c].thread
  /\ Goto(c, "register")
  /\ UNCHANGED <<headless, bridge, binding, args, aborted, dispatched, acquired, answer, workVars>>

OwnerUnknown(c) ==
  /\ At(c, "owner") /\ (headless \/ ~Identified(c))
  /\ Answer(c, "failed")
  /\ UNCHANGED <<bridgeVars, args, aborted, dispatched, acquired, workVars>>

RegistrationFails(c) ==
  /\ At(c, "register") /\ ~headless
  /\ Answer(c, "failed")
  /\ UNCHANGED <<bridgeVars, args, aborted, dispatched, acquired, workVars>>

\* execute, to its first await.
Observe(c) ==
  /\ At(c, "register") /\ args[c].kind = "observe"
  /\ Goto(c, "status")
  /\ UNCHANGED <<bridgeVars, args, aborted, dispatched, acquired, answer, workVars>>

AbortedBeforeDispatch(c) ==
  /\ At(c, "register") /\ args[c].kind \in {"run", "sleep"} /\ aborted[c]
  /\ Answer(c, "refused")
  /\ UNCHANGED <<bridgeVars, args, aborted, dispatched, acquired, workVars>>

Sleep(c) ==
  /\ At(c, "register") /\ args[c].kind = "sleep" /\ ~aborted[c]
  /\ Goto(c, "sleep")
  /\ UNCHANGED <<bridgeVars, args, aborted, dispatched, acquired, answer, workVars>>

WakeUp(c) ==
  /\ At(c, "sleep")
  /\ Answer(c, "output")
  /\ UNCHANGED <<bridgeVars, args, aborted, dispatched, acquired, workVars>>

\* Variant: a call does not wait for a binding that another call has begun.
BindAlone(c) ==
  /\ At(c, "register")
  /\ args[c].kind = "cancel" \/ (args[c].kind = "run" /\ ~aborted[c])
  /\ binding' = IF binding = "none" THEN "pending" ELSE binding
  /\ Goto(c, IF binding = "none" THEN "bind" ELSE "bound")
  /\ UNCHANGED <<headless, bridge, bound, args, aborted, dispatched, acquired, answer, workVars>>

\* ensureLiveSessionBinding: one report at a time, shared by the calls that need it.
Bind(c) ==
  /\ At(c, "register")
  /\ args[c].kind = "cancel" \/ (args[c].kind = "run" /\ ~aborted[c])
  /\ binding' = IF binding = "none" THEN "pending" ELSE binding
  /\ Goto(c, "bind")
  /\ UNCHANGED <<headless, bridge, bound, args, aborted, dispatched, acquired, answer, workVars>>

\* The runner acknowledges, or its socket is gone and will not be tried again.
BindingSettles ==
  /\ bridge # "exited" /\ binding = "pending"
  /\ binding' \in {"bound", "gone"}
  /\ UNCHANGED <<headless, bridge, bound, callVars, workVars>>

\* A rejected, lost or late answer fails every call that waits for it; the next
\* one reports again.
BindingFails ==
  /\ bridge # "exited" /\ binding = "pending" /\ binding' = "none"
  /\ pc' = [c \in Calls |-> IF pc[c] = "bind" THEN "done" ELSE pc[c]]
  /\ answer' = [c \in Calls |-> IF pc[c] = "bind" THEN "failed" ELSE answer[c]]
  /\ UNCHANGED <<headless, bridge, bound, args, aborted, dispatched, acquired, workVars>>

Bound(c) ==
  /\ At(c, "bind") /\ binding \in {"bound", "gone"}
  /\ Goto(c, "bound")
  /\ UNCHANGED <<bridgeVars, args, aborted, dispatched, acquired, answer, workVars>>

-----------------------------------------------------------------------------
(* Dispatch *)

\* The supervisor starts the workload; the tool has not read its answer yet.
Spawn(c) ==
  /\ At(c, "bound") /\ Waits(c)
  /\ work' = [work EXCEPT ![c] = "running"]
  /\ mode' = [mode EXCEPT ![c] = Delivery(args[c])]
  /\ leased' = [leased EXCEPT ![c] = Lease(args[c])]
  /\ owner' = [owner EXCEPT ![c] = IF headless THEN NoThread ELSE args[c].thread]
  /\ Goto(c, "spawned")
  /\ UNCHANGED <<bridgeVars, args, aborted, dispatched, acquired, answer, cancel, settled>>

\* dispatchCommand fails, or times out when the workload may have started.
DispatchFails(c) ==
  /\ bridge # "exited" /\ pc[c] \in {"bound", "spawned"} /\ Waits(c)
  /\ Answer(c, "failed")
  /\ UNCHANGED <<bridgeVars, args, aborted, dispatched, acquired, workVars>>

\* The supervisor does not know whether completion was registered: it keeps the
\* handle and does not start the workload.
DispatchUnresolved(c) ==
  /\ At(c, "bound") /\ Waits(c)
  /\ work' = [work EXCEPT ![c] = "terminal"]
  /\ Answer(c, "unresolved")
  /\ UNCHANGED <<bridgeVars, args, aborted, dispatched, acquired, mode, leased, owner, cancel,
                 settled>>

\* The tool reads the handle of its workload: from here on it can cancel it.
Dispatched(c) ==
  /\ At(c, "spawned")
  /\ IF ~aborted[c] /\ Delivery(args[c]) = "async" THEN Answer(c, "async")
     ELSE Goto(c, IF aborted[c] THEN "cancel" ELSE "status") /\ UNCHANGED answer
  /\ dispatched' = dispatched \cup {c}
  /\ UNCHANGED <<bridgeVars, args, aborted, acquired, workVars>>

-----------------------------------------------------------------------------
(* Waiting for the result, or looking once *)

\* Variant: what a poll throws is thrown on, the abort as well.
InterruptedRethrown(c) ==
  /\ bridge # "exited" /\ pc[c] \in {"status", "tail", "mode", "snapshot"} /\ aborted[c]
  /\ Answer(c, "failed")
  /\ UNCHANGED <<bridgeVars, args, aborted, dispatched, acquired, workVars>>

\* An abort stops any subprocess it was given to; a waiting call then cancels.
Interrupted(c) ==
  /\ bridge # "exited" /\ pc[c] \in {"status", "tail", "mode", "snapshot"} /\ aborted[c]
  /\ IF Waits(c) THEN Goto(c, "cancel") /\ UNCHANGED answer ELSE Answer(c, "failed")
  /\ UNCHANGED <<bridgeVars, args, aborted, dispatched, acquired, workVars>>

SubprocessFails(c) ==
  /\ bridge # "exited" /\ pc[c] \in {"status", "tail", "mode", "snapshot"} /\ ~aborted[c]
  /\ Answer(c, "failed")
  /\ UNCHANGED <<bridgeVars, args, aborted, dispatched, acquired, workVars>>

\* Variant: the status that is polled also asks the workload to progress.
StatusProgressing(c) ==
  /\ At(c, "status") /\ ~aborted[c] /\ work[Handle(c)] # "none"
  /\ settled' = settled \cup {Handle(c)}
  /\ IF work[Handle(c)] = "terminal" THEN Goto(c, "snapshot") /\ UNCHANGED answer
     ELSE Goto(c, IF Waits(c) THEN "mode" ELSE "tail") /\ UNCHANGED answer
  /\ UNCHANGED <<bridgeVars, args, aborted, dispatched, acquired, work, mode, leased,
                 owner, cancel>>

\* observeVisibleHandle, which only observes.
Status(c) ==
  /\ At(c, "status") /\ ~aborted[c] /\ work[Handle(c)] # "none"
  /\ IF work[Handle(c)] = "terminal" THEN Goto(c, "snapshot") /\ UNCHANGED answer
     ELSE Goto(c, IF Waits(c) THEN "mode" ELSE "tail") /\ UNCHANGED answer
  /\ UNCHANGED <<bridgeVars, args, aborted, dispatched, acquired, workVars>>

\* The second look of an observer, with the tail of the output.
ReadTail(c) ==
  /\ At(c, "tail") /\ ~aborted[c]
  /\ IF work[Handle(c)] = "terminal" THEN Goto(c, "retain") /\ UNCHANGED answer
     ELSE Answer(c, "running")
  /\ UNCHANGED <<bridgeVars, args, aborted, dispatched, acquired, workVars>>

\* It raced with the end of the workload: what was read stands without a snapshot.
KeepTail(c) ==
  /\ At(c, "retain")
  /\ Answer(c, "text")
  /\ UNCHANGED <<bridgeVars, args, aborted, dispatched, acquired, workVars>>

\* A call whose workload was detached from outside stops waiting for it.
ReadMode(c) ==
  /\ At(c, "mode") /\ ~aborted[c]
  /\ IF mode[c] = "async" THEN Answer(c, "async") ELSE Goto(c, "status") /\ UNCHANGED answer
  /\ UNCHANGED <<bridgeVars, args, aborted, dispatched, acquired, workVars>>

Acquire(c) ==
  /\ At(c, "snapshot") \/ At(c, "retain")
  /\ ~aborted[c]
  /\ acquired' = [acquired EXCEPT ![c] = TRUE]
  /\ Goto(c, "receipt")
  /\ UNCHANGED <<bridgeVars, args, aborted, dispatched, answer, workVars>>

\* Variant: a receipt that cannot be confirmed fails the call.
SettleOrFail(c) ==
  /\ At(c, "receipt")
  /\ settled' \in {settled, settled \cup {Handle(c)}}
  /\ IF aborted[c] /\ Waits(c) THEN Goto(c, "cancel") /\ UNCHANGED answer
     ELSE Answer(c, IF Handle(c) \in settled' THEN "output" ELSE "failed")
  /\ UNCHANGED <<bridgeVars, args, aborted, dispatched, acquired, work, mode, leased,
                 owner, cancel>>

\* accept-output, then the status that asks to progress: each may take effect or
\* fail, and neither changes the result that was acquired.
Settle(c) ==
  /\ At(c, "receipt")
  /\ settled' \in {settled, settled \cup {Handle(c)}}
  /\ IF aborted[c] /\ Waits(c) THEN Goto(c, "cancel") /\ UNCHANGED answer
     ELSE Answer(c, "output")
  /\ UNCHANGED <<bridgeVars, args, aborted, dispatched, acquired, work, mode, leased,
                 owner, cancel>>

\* cancelResult, which no abort stops; an acquired output outlives its failure.
Cancel(c) ==
  /\ At(c, "cancel") \/ (At(c, "bound") /\ args[c].kind = "cancel")
  /\ \E ok \in BOOLEAN :
       /\ cancel' = [cancel EXCEPT ![Handle(c)] =
                       IF ok /\ work[Handle(c)] # "none" THEN "requested"
                       ELSE IF @ = "no" THEN "tried" ELSE @]
       /\ Answer(c, IF acquired[c] THEN "output" ELSE IF ok THEN "cancelled" ELSE "failed")
  /\ UNCHANGED <<bridgeVars, args, aborted, dispatched, acquired, work, mode, leased,
                 owner, settled>>

-----------------------------------------------------------------------------
(* The supervisor *)

Terminate(h) ==
  /\ work[h] = "running"
  /\ work' = [work EXCEPT ![h] = "terminal"]
  /\ UNCHANGED <<bridgeVars, callVars, mode, leased, owner, cancel, settled>>

Finish(h) == Terminate(h)
CancelTakesEffect(h) == cancel[h] = "requested" /\ Terminate(h)
LeaseEnds(h) == bridge = "exited" /\ leased[h] /\ Terminate(h)

Detach(h) ==
  /\ work[h] = "running" /\ mode[h] = "sync"
  /\ mode' = [mode EXCEPT ![h] = "async"]
  /\ UNCHANGED <<bridgeVars, callVars, work, leased, owner, cancel, settled>>

-----------------------------------------------------------------------------
Execute(c) ==
  \/ FindOwner(c) \/ OwnerUnknown(c) \/ RegistrationFails(c)
  \/ Observe(c) \/ AbortedBeforeDispatch(c) \/ Sleep(c) \/ WakeUp(c) \/ Bind(c) \/ Bound(c)
  \/ Spawn(c) \/ DispatchFails(c) \/ DispatchUnresolved(c) \/ Dispatched(c)
  \/ Interrupted(c) \/ SubprocessFails(c) \/ Status(c) \/ ReadTail(c) \/ KeepTail(c)
  \/ ReadMode(c) \/ Acquire(c) \/ Settle(c) \/ Cancel(c)

Host(c) == Cancelled(c) \/ \E a \in Arguments : Call(c, a)
Supervisor(h) == Finish(h) \/ CancelTakesEffect(h) \/ LeaseEnds(h) \/ Detach(h)

Next ==
  \/ Close \/ Exit \/ BindingSettles \/ BindingFails
  \/ \E c \in Calls : Host(c) \/ Execute(c) \/ Supervisor(c)

Spec == Init /\ [][Next]_vars

\* The supervisor ends what is leased to a bridge that is gone.  Nothing else is
\* assumed: neither a workload nor a call that awaits something need ever end.
FairSpec == Spec /\ \A c \in Calls : WF_vars(LeaseEnds(c))

-----------------------------------------------------------------------------
(* Properties *)

TypeOK ==
  /\ headless \in BOOLEAN /\ bridge \in {"serving", "closing", "exited"}
  /\ bound \in Threads \cup {NoThread} /\ binding \in {"none", "pending", "bound", "gone"}
  /\ pc \in [Calls -> {"idle", "owner", "register", "sleep", "bind", "bound", "spawned",
                       "status", "tail", "retain", "mode", "snapshot", "receipt", "cancel", "done"}]
  /\ args \in [Calls -> Arguments \cup {NoArguments}]
  /\ aborted \in [Calls -> BOOLEAN] /\ acquired \in [Calls -> BOOLEAN]
  /\ dispatched \subseteq Calls
  /\ answer \in [Calls -> {"none", "refused", "unresolved", "async", "running", "text", "output",
                           "cancelled", "failed"}]
  /\ work \in [Calls -> {"none", "running", "terminal"}] /\ mode \in [Calls -> Deliveries]
  /\ leased \in [Calls -> BOOLEAN] /\ owner \in [Calls -> Threads \cup {NoThread}]
  /\ cancel \in [Calls -> {"no", "tried", "requested"}] /\ settled \subseteq Calls
  /\ \A c \in Calls : pc[c] = "done" <=> answer[c] # "none"

\* A command whose call was aborted before it was answered has been asked to
\* cancel, whatever the call was awaiting then and however it was answered, a
\* failure included (execute, waitForSyncResult).  A call that never read the
\* handle of a running workload has nothing to cancel.
AbortedWorkIsCancelled ==
  \A c \in dispatched : pc[c] = "done" /\ aborted[c] => cancel[c] # "no"

\* Output that was acquired is what the call answers, although its receipt, the
\* request to progress or a cancellation failed (retainedTerminalOutput).
OutputSurvives == \A c \in Calls : pc[c] = "done" /\ acquired[c] => answer[c] = "output"

\* Polling only observes: the supervisor is told that output was received, or
\* asked to progress, only when some call holds that output.
ObservedBeforeSettled ==
  \A h \in settled : \E c \in Calls : acquired[c] /\ Handle(c) = h

\* Nothing is dispatched before the runner has acknowledged the session, or its
\* socket is known to be gone, although calls share one report and each report
\* may fail (ensureLiveSessionBinding).
DispatchIsBound == \A c \in Calls : work[c] # "none" => binding \in {"bound", "gone"}

\* All workloads of a bridge belong to one session (boundMetadataSession).
OneOwner ==
  \A c, d \in {h \in Calls : owner[h] # NoThread} : owner[c] = owner[d]

\* A workload somebody waited for does not outlive the bridge, whatever its call
\* awaited when the bridge exited, a dispatch whose answer came too late included:
\* the dispatch leased it to the bridge (leaseToCaller).
SyncWorkEnds ==
  \A c \in Calls :
    (bridge = "exited" /\ work[c] = "running" /\ mode[c] = "sync") ~> work[c] = "terminal"
-----------------------------------------------------------------------------
(* The inductive invariant *)

\* What a call knows where it is: its thread is the bridge's, the runner knows
\* of it before a dispatch, it holds output from the receipt on, not before, and a
\* call that was told a handle waits for that workload.
Places ==
  \A c \in Calls :
    /\ pc[c] # "idle" => args[c] \in Arguments
    /\ pc[c] \notin {"idle", "owner", "done"} /\ ~headless => bound = args[c].thread
    /\ pc[c] = "sleep" => args[c].kind = "sleep"
    /\ pc[c] \in {"spawned", "mode"} => Waits(c)
    /\ pc[c] \in {"bound", "spawned"} => binding \in {"bound", "gone"}
    /\ pc[c] = "receipt" => acquired[c]
    /\ acquired[c] => pc[c] \in {"receipt", "cancel", "done"}
    /\ c \in dispatched =>
         Waits(c) /\ pc[c] \in {"status", "mode", "snapshot", "receipt", "cancel", "done"}

\* The workloads of a bridge are of the thread it is bound to.
Owned == \A c \in Calls : owner[c] \in {NoThread, bound}

IInv ==
  /\ TypeOK /\ Places /\ Owned
  /\ AbortedWorkIsCancelled /\ OutputSurvives /\ ObservedBeforeSettled /\ DispatchIsBound
=============================================================================
