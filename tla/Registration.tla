------------------------------ MODULE Registration ------------------------------
(***************************************************************************)
(* The registration of a managed TUI's session with the agent runner       *)
(* (src/integrations/codex/session-registration.ts: registerSession,       *)
(* exchange, hook; src/integrations/codex/agent-bash-mcp.ts: callBash,     *)
(* sessionId; src/src/registration.rs: declaration).                       *)
(*                                                                         *)
(* Before every Bash dispatch the bridge reports its thread to the runner, *)
(* again and again until an exact acknowledgement or the deadline.  Hooks  *)
(* report too, when a thread starts or a prompt is submitted, unless       *)
(* native policy excludes them or native kills them.  The user may go on   *)
(* with another thread at any time.                                        *)
(*                                                                         *)
(* The runner is not in this repository: it may record a report and not    *)
(* answer, answer with an error, or acknowledge another session that it    *)
(* recorded; it acknowledges nothing that it did not record.               *)
(***************************************************************************)
CONSTANTS
  Threads,  \* native threads the TUI may work on
  NoThread,
  Calls     \* Bash calls

VARIABLES
  resumed,  \* the thread it was launched to resume, or NoThread
  opened,   \* the thread the TUI works on
  bound,    \* the thread the bridge took its first call to be of
  reporter, \* [Reporters -> [at, id, late, heard]] hook and calls under way
  recorded  \* the runner: sessions recorded for this invocation

registrationVars == <<resumed, opened, bound, reporter, recorded>>

Hook == "hook"
Reporters == Calls \cup {Hook}
Quiet == [at |-> "idle", id |-> NoThread, late |-> FALSE, heard |-> NoThread]
Reporting == {"report", "await"}

RegistrationInit ==
  /\ opened = NoThread /\ resumed = NoThread /\ bound = NoThread
  /\ reporter = [p \in Reporters |-> Quiet]
  /\ recorded = {}

Goto(p, place) == reporter' = [reporter EXCEPT ![p].at = place]
Rest == UNCHANGED <<resumed, opened, bound, recorded>>

-----------------------------------------------------------------------------
(* Codex and its user *)

\* The TUI opens a thread of its own, or the one it was launched to resume.
Open(t) ==
  /\ opened = NoThread /\ opened' = t
  /\ resumed' \in {NoThread, t}
  /\ UNCHANGED <<bound, reporter, recorded>>

\* Its user goes on with another one.
SwitchThread(t) ==
  /\ opened \notin {NoThread, t} /\ opened' = t
  /\ UNCHANGED <<resumed, bound, reporter, recorded>>

Begins(p, place) ==
  reporter' = [reporter EXCEPT ![p] = [Quiet EXCEPT !.at = place, !.id = opened]]

\* A TUI that was to resume one thread keeps to it.
MayReport == resumed \in {NoThread, opened}

\* SessionStart or UserPromptSubmit, if native policy lets the hook run.
HookRuns ==
  /\ opened # NoThread /\ reporter[Hook].at = "idle"
  /\ Begins(Hook, IF MayReport THEN "report" ELSE "failed")
  /\ Rest

\* Native kills a hook at its timeout, and goes on without it.
HookKilled ==
  /\ reporter[Hook].at \in Reporting
  /\ reporter' = [reporter EXCEPT ![Hook] = Quiet]
  /\ Rest

\* A hook that ends well is silent; one that fails stops the prompt it is for,
\* and the user may submit another.
HookEnds ==
  /\ reporter[Hook].at \in {"registered", "failed"}
  /\ reporter' = [reporter EXCEPT ![Hook] = Quiet]
  /\ Rest

\* tools/call: the metadata names the thread, and the bridge keeps to the first.
Call(c) ==
  /\ opened # NoThread /\ reporter[c].at = "idle" /\ MayReport /\ bound \in {NoThread, opened}
  /\ bound' = opened
  /\ Begins(c, "report")
  /\ UNCHANGED <<resumed, opened, recorded>>

\* bash.execute for the session that was registered.
Dispatch(c) ==
  /\ reporter[c].at = "registered" /\ Goto(c, "dispatched")
  /\ Rest

CallEnds(c) ==
  /\ reporter[c].at \in {"dispatched", "failed"}
  /\ reporter' = [reporter EXCEPT ![c] = Quiet]
  /\ Rest

-----------------------------------------------------------------------------
(* registerSession and exchange *)

\* One exchange per connection: what an earlier one might still say is lost.
Connect(p) ==
  /\ reporter[p].at = "report" /\ ~reporter[p].late
  /\ reporter' = [reporter EXCEPT ![p].at = "await", ![p].heard = NoThread]
  /\ Rest

\* Variant: any positive acknowledgement will do.
ExactIfPositive(p) == reporter[p].heard # NoThread

\* The acknowledgement names the reported session and this invocation.
Exact(p) == reporter[p].heard = reporter[p].id

Acknowledged(p) ==
  /\ reporter[p].at = "await" /\ Exact(p)
  /\ Goto(p, "registered")
  /\ Rest

\* The socket is refused, closed or garbled, or another session is acknowledged:
\* the same report is made again while there is time.
ExchangeFails(p) ==
  /\ reporter[p].at = "await" /\ ~Exact(p)
  /\ Goto(p, "report")
  /\ Rest

\* Variant: the deadline is looked at between two exchanges only.
TimerOfLoop(p) ==
  /\ reporter[p].at = "report" /\ reporter[p].late
  /\ Goto(p, "failed")
  /\ Rest

\* The loop ends at the deadline, and so does the exchange under way.
Timer(p) ==
  /\ reporter[p].at \in Reporting /\ reporter[p].late
  /\ Goto(p, "failed")
  /\ Rest

Elapse(p) ==
  /\ reporter[p].at \in Reporting /\ ~reporter[p].late
  /\ reporter' = [reporter EXCEPT ![p].late = TRUE]
  /\ Rest

-----------------------------------------------------------------------------
(* The runner *)

Record(p) ==
  /\ reporter[p].at = "await"
  /\ recorded' = recorded \cup {reporter[p].id}
  /\ UNCHANGED <<resumed, opened, bound, reporter>>

Acknowledge(p, t) ==
  /\ reporter[p].at = "await" /\ reporter[p].heard = NoThread /\ t \in recorded
  /\ reporter' = [reporter EXCEPT ![p].heard = t]
  /\ Rest

RegistrationStep(p) == Connect(p) \/ Acknowledged(p) \/ Timer(p)

RegistrationNext ==
  \/ \E t \in Threads : Open(t) \/ SwitchThread(t)
  \/ HookRuns \/ HookKilled \/ HookEnds
  \/ \E c \in Calls : Call(c) \/ Dispatch(c) \/ CallEnds(c)
  \/ \E p \in Reporters :
       \/ RegistrationStep(p) \/ ExchangeFails(p) \/ Elapse(p) \/ Record(p)
       \/ \E t \in Threads : Acknowledge(p, t)

-----------------------------------------------------------------------------
RegistrationTypeOK ==
  /\ {resumed, opened, bound} \subseteq Threads \cup {NoThread} /\ recorded \subseteq Threads
  /\ reporter \in [Reporters ->
       [at : {"idle", "registered", "failed", "dispatched"} \cup Reporting,
        id : Threads \cup {NoThread}, late : BOOLEAN, heard : Threads \cup {NoThread}]]

\* What a reporter has heard was recorded, and it goes on only with its own thread.
Heard ==
  \A p \in Reporters :
    /\ reporter[p].at # "idle" => reporter[p].id # NoThread
    /\ reporter[p].at = "await" => reporter[p].heard \in recorded \cup {NoThread}
    /\ reporter[p].at \in {"registered", "dispatched"} => reporter[p].id \in recorded

\* Nothing is dispatched for a thread that the runner did not record for this
\* invocation, whatever it answered to whom, and whichever thread was opened
\* meanwhile: the runner could not account for the work, nor cancel it.
DispatchIsRegistered == \A c \in Calls : reporter[c].at = "dispatched" => reporter[c].id \in recorded

\* A runner that never answers holds up a call, or the start of a prompt, until
\* the deadline and no longer.
RegistrationEnds ==
  \A p \in Reporters : reporter[p].at \in Reporting ~> reporter[p].at \notin Reporting

RegistrationFairness ==
  \A p \in Reporters : WF_registrationVars(RegistrationStep(p)) /\ WF_registrationVars(Elapse(p))
=============================================================================
