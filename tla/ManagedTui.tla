------------------------------- MODULE ManagedTui -------------------------------
(***************************************************************************)
(* A managed TUI from its launch to its first Bash calls                   *)
(* (src/src/interactive.rs: prepare, run; src/src/registration.rs: stage,  *)
(* declaration; src/src/policy.rs: RuntimeConfig::load): Installation and  *)
(* Registration, and between them the payload that the launch stages.      *)
(*                                                                         *)
(* A TUI runs for days, and its bridge and hooks are started from scripts  *)
(* all the while.  An installer may replace the installation under it, or  *)
(* leave a mixture.  So the launcher publishes the integration that its    *)
(* own binary embeds in a directory of its own, and everything that is     *)
(* started later is pointed there.                                         *)
(***************************************************************************)
EXTENDS Installation, Registration

CONSTANT Unread \* an asset that nothing has read yet

VARIABLES
  custom, \* whether the configuration names integrations outside the default place
  tui,    \* [at, release, private, path]: the launch; what its directory holds
  loaded  \* [Assets -> what was read when it was started or read, or Unread]

tuiVars == <<custom, tui, loaded>>
vars == <<installVars, registrationVars, tuiVars>>

\* The MCP bridge, the Bash tool it bundles, the script of the hooks and the
\* model catalog.
Assets == {"bridge", "bash", "registration", "catalog"}
NoTui == [at |-> "none", release |-> Absent, private |-> Absent, path |-> "installed"]

Init ==
  /\ InstallInit /\ RegistrationInit
  /\ custom \in BOOLEAN /\ tui = NoTui /\ loaded = [x \in Assets |-> Unread]

Step(from, to) == tui.at = from /\ tui' = [tui EXCEPT !.at = to]

-----------------------------------------------------------------------------
(* interactive::prepare, in one process *)

\* The runner starts whichever binary the link leads to.
LaunchTui ==
  /\ tui.at = "none" /\ disk["link"] = Linked /\ disk["binary"] \in Releases
  /\ tui' = [NoTui EXCEPT !.at = "load", !.release = disk["binary"]]
  /\ UNCHANGED <<custom, loaded>>

\* Without a configuration file the default paths hold; half a file is refused.
LoadConfig ==
  /\ disk["config"] # Partial
  /\ Step("load", IF custom /\ disk["config"] # Absent THEN "check" ELSE "stage")
  /\ UNCHANGED <<custom, loaded>>

\* A custom installation is accepted if it holds what this binary embeds.
CheckCustom ==
  /\ Step("check", "stage") /\ disk["integrations"] = tui.release
  /\ UNCHANGED <<custom, loaded>>

\* Variant: publishes the payload and leaves the configuration as it was.
PublishUnbound ==
  /\ tui.at = "stage"
  /\ tui' = [tui EXCEPT !.at = "declare", !.private = tui.release]
  /\ UNCHANGED <<custom, loaded>>

\* The embedded assets are written, read back, synced and renamed into place
\* inside a directory nobody else knows; bash_mcp_path then leads there.
Publish ==
  /\ tui.at = "stage"
  /\ tui' = [tui EXCEPT !.at = "declare", !.private = tui.release, !.path = "private"]
  /\ UNCHANGED <<custom, loaded>>

\* Where the configuration leads at this moment.
Found == IF tui.path = "private" THEN tui.private ELSE disk["integrations"]

\* RuntimeConfig::validate reads the catalog there; the hooks' declaration and
\* the native arguments name the scripts there; then the launcher execs Codex.
DeclareAndExec ==
  /\ Found \in Releases /\ Step("declare", "running")
  /\ UNCHANGED <<custom, loaded>>

\* Any of these steps may fail, which leaves a directory nobody reads.
Rejected ==
  /\ tui.at \in {"load", "check", "stage", "declare"}
  /\ tui' = NoTui
  /\ UNCHANGED <<custom, loaded>>

\* Codex starts the bridge or a hook, or reads the catalog, each in its own time.
Load(x) ==
  /\ tui.at = "running" /\ loaded[x] = Unread
  /\ loaded' = [loaded EXCEPT ![x] = Found]
  /\ UNCHANGED <<custom, tui>>

Everything == \A x \in Assets : loaded[x] # Unread
TuiNext ==
  \/ LaunchTui \/ LoadConfig \/ CheckCustom \/ Publish \/ DeclareAndExec \/ Rejected
  \/ \E x \in Assets : Load(x)

-----------------------------------------------------------------------------
\* Bounds: installers do nothing more once everything is read, and calls are
\* made only then, and where nothing was installed meanwhile; by then a TUI has
\* nothing to do with the installation any more.
Next ==
  \/ ~Everything /\ InstallNext /\ UNCHANGED <<registrationVars, tuiVars>>
  \/ TuiNext /\ UNCHANGED <<installVars, registrationVars>>
  \/ Everything /\ installs = 0 /\ RegistrationNext /\ UNCHANGED <<installVars, tuiVars>>

Spec == Init /\ [][Next]_vars

\* Bridge and hook processes run, and time passes.
FairSpec == Spec /\ RegistrationFairness

\* Whatever is installed, half installed or restored meanwhile, all that a TUI
\* is ever started with is of the release of its own binary: a bridge of one
\* release with the Bash tool of another would not understand its answers.
OneRelease == \A x \in Assets : loaded[x] \in {tui.release, Unread}

-----------------------------------------------------------------------------
TypeOK ==
  /\ InstallTypeOK /\ RegistrationTypeOK
  /\ custom \in BOOLEAN
  /\ tui \in [at : {"none", "load", "check", "stage", "declare", "running"},
              release : Releases \cup {Absent}, private : Releases \cup {Absent},
              path : {"installed", "private"}]
  /\ loaded \in [Assets -> Contents \cup {Unread}]

\* Nothing is loaded before exec, and by then everything leads to the private copy.
Staged ==
  /\ tui.at # "running" => \A x \in Assets : loaded[x] = Unread
  /\ tui.at \in {"declare", "running"} => tui.path = "private" /\ tui.private = tui.release

IInv ==
  /\ TypeOK /\ Progress /\ Heard /\ Staged
  /\ ReportIsTrue /\ Recoverable /\ OneRelease
=============================================================================
