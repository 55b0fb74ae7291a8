------------------------------ MODULE Environment ------------------------------
(***************************************************************************)
(* The environment that every Codex process is started with                *)
(* (src/src/policy.rs: plan, evaluate; src/src/launch.rs: prepare,         *)
(* managed_native_args; src/src/interactive.rs: prepare;                   *)
(* src/integrations/codex/agent-bash-mcp.ts: sessionId).                   *)
(*                                                                         *)
(* Turns nest: a command that Codex runs through its Bash bridge may start *)
(* the agent runner, which starts a provider, which starts another Codex,  *)
(* headless or as a TUI.  All of them inherit their environment, and each  *)
(* must replace what in it speaks of account, instructions, session and    *)
(* transport, in a chain of five maps that override each other: process,   *)
(* host, policy, launch and command.                                       *)
(*                                                                         *)
(* An environment maps the keys that matter to what their values mean: an  *)
(* account stands for its home, a launch for its private files, its own    *)
(* instructions or its own offer, a thread for its id.                     *)
(***************************************************************************)
EXTENDS Naturals, FiniteSets

CONSTANTS
  MaxLaunches, \* bound: launches, headless or interactive
  Accounts,    \* selectable accounts
  Threads,     \* native sessions
  Owner,       \* [Threads -> Accounts]: whose store holds a thread
  Unset,       \* the key is absent
  Blank,       \* the empty string
  Raw,         \* a value that is not Unicode
  Stale,       \* somebody else's value
  Managed      \* the value of the keys that mark a managed TUI

Launches == 1..MaxLaunches

ASSUME EnvironmentAssumption ==
  /\ MaxLaunches \in Nat /\ Owner \in [Threads -> Accounts]
  /\ Unset \notin Launches \cup Accounts \cup {Blank, Managed} /\ Blank \notin Launches

VARIABLES
  outside, \* the environment the first runner was started in
  started, \* [Launches -> the launch, as a record, or Unset]
  thread,  \* [Launches -> the thread its Codex works on, or Unset]
  file     \* [Launches -> what its session file holds]

launchVars == <<outside, started, thread, file>>

\* CODEX_HOME, CODEX_SQLITE_HOME, ..DEVELOPER_INSTRUCTIONS, ..SESSION_FILE,
\* ..SESSION_ID; the three keys of a managed TUI (INTERACTIVE, SESSION_BINDING,
\* REGISTRATION_CWD) are set and removed together; the exploration offer.
Keys == {"home", "sqlite", "instructions", "file", "session", "tui", "offer"}
All(value) == [k \in Keys |-> value]

EnvironmentInit ==
  /\ outside \in {All(Unset), All(Stale), All(Raw)}
  /\ started = [l \in Launches |-> Unset]
  /\ thread = [l \in Launches |-> Unset]
  /\ file = [l \in Launches |-> Unset]

-----------------------------------------------------------------------------
(* Maps that override each other *)

\* BTreeMap::extend, and Command::envs over what the process inherits.
Over(base, top) == [k \in Keys |-> IF top[k] # Unset THEN top[k] ELSE base[k]]
Without(env, keys) == [k \in Keys |-> IF k \in keys THEN Unset ELSE env[k]]
With(env, keys, value) == [k \in Keys |-> IF k \in keys THEN value ELSE env[k]]

\* vars_os filtered by into_string; a value that is not Unicode is not in the
\* map, but reaches the child unless the command removes its key.
Unicode(env) == [k \in Keys |-> IF env[k] = Raw THEN Unset ELSE env[k]]

\* An empty carrier of instructions is a reset, and is not handed on.
Consumed(env) == IF env["instructions"] = Blank THEN Without(env, {"instructions"}) ELSE env

\* What the Bash bridge of a launch, and all it starts, sees: env_vars names
\* every key of the native process but an offer that was not admitted.
BridgeEnv(l) ==
  IF started[l].offered THEN started[l].env ELSE Without(started[l].env, {"offer"})

\* The environment of a provider that is started by a command of launch `l`, or
\* from outside.
Inherited(parent) == IF parent \in Launches THEN BridgeEnv(parent) ELSE outside

\* Variant: rebinds one of the account's two stores.
EvaluatedHomeOnly(candidate, account, instructions) ==
  With(With(candidate, {"home"}, account), {"instructions"}, instructions)

\* policy.evaluate; the runner merges its result over the launch's environment.
Evaluated(candidate, account, instructions) ==
  With(With(candidate, {"home", "sqlite"}, account), {"instructions"}, instructions)

-----------------------------------------------------------------------------
(* A headless launch *)

\* A launch that carries an offer which its own host did not select is refused.
OfferRefused(r, candidate) == ~r.offered /\ candidate["offer"] # Unset

\* What the runner asks for: the policy's answer, and its own offer if it made one.
Requested(l, r, candidate) ==
  LET asked == IF r.offered THEN With(candidate, {"offer"}, l) ELSE candidate
  IN Evaluated(asked, r.account, IF r.instructed THEN l ELSE Blank)

\* What the host's context of a request may hold: nothing, or leftovers of an
\* earlier launch; it selects an offer by another key.
HostEnvs == {All(Unset), Without(All(Stale), {"offer"})}

\* The provider's own process and the host's context are stale for this turn;
\* the admitted launch environment is not, except for an offer nobody made.
Admitted(r, process, host, plan) ==
  LET env == Over(Without(Over(Unicode(process), host), {"instructions", "offer"}), plan)
  IN Consumed(IF r.offered THEN env ELSE Without(env, {"offer"}))

\* Keys the command removes from what it inherits natively.
HeadlessRemoved(r) ==
  {"tui", "instructions", "offer"} \cup (IF r.resume = Unset THEN {"session"} ELSE {})

\* Variant: the session of the parent is left in place for a new thread.
BoundInherited(l, r, env) ==
  LET own == With(Without(env, {"tui"}), {"file"}, l)
  IN IF r.resume = Unset THEN own ELSE With(own, {"session"}, r.resume)

\* The transport of this launch: its own session file, and the thread if known.
Bound(l, r, env) ==
  With(With(Without(env, {"tui"}), {"file"}, l), {"session"}, r.resume)

HeadlessEnv(l, r, process, host, candidate) ==
  Over(Without(process, HeadlessRemoved(r)),
       Bound(l, r, Admitted(r, process, host, Requested(l, r, candidate))))

-----------------------------------------------------------------------------
(* An interactive launch *)

\* Inherited parent identity is never evidence for the new TUI.
TuiRemoved == {"instructions", "file", "session"}

\* The request is made up by the provider: its environment is empty, and the
\* account's instructions come from providers.toml.  Stores stay with the
\* account, the configuration home is the launch's own.
TuiEnv(l, r, process) ==
  LET plan == Evaluated(All(Unset), r.account, IF r.instructed THEN l ELSE Blank)
      env == Consumed(Over(Without(Unicode(process), {"instructions"}), plan))
      own == With(With(Without(env, {"file"}), {"session"}, r.resume), {"tui"}, Managed)
  IN Over(Without(process, TuiRemoved), With(own, {"home"}, l))

-----------------------------------------------------------------------------
(* Launches *)

\* The account must own a thread that is resumed.
Requests ==
  [account : Accounts, resume : Threads \cup {Unset}, instructed : BOOLEAN, offered : BOOLEAN]
Admissible(r) == r.resume # Unset => Owner[r.resume] = r.account

Start(l, kind, r, env) ==
  /\ l \in Launches
  /\ started' = [started EXCEPT ![l] =
       [kind |-> kind, account |-> r.account, resume |-> r.resume,
        instructed |-> r.instructed, offered |-> r.offered, env |-> env]]
  /\ file' = [file EXCEPT ![l] = r.resume]
  /\ thread' = [thread EXCEPT ![l] = r.resume]
  /\ UNCHANGED outside

\* The runner builds the launch from nothing or from its own environment.
Headless(l, parent) ==
  \E r \in Requests, host \in HostEnvs, candidate \in {All(Unset), Unicode(Inherited(parent))} :
    /\ Admissible(r) /\ ~OfferRefused(r, candidate)
    /\ Start(l, "headless", r, HeadlessEnv(l, r, Inherited(parent), host, candidate))

Interactive(l, parent) ==
  \E r \in Requests :
    /\ Admissible(r) /\ ~r.offered
    /\ Start(l, "tui", r, TuiEnv(l, r, Inherited(parent)))

Working == {thread[l] : l \in Launches}

\* Codex opens a thread of its own; a headless launch learns of it and publishes
\* it in its session file.
ThreadStarted(l, t) ==
  /\ started[l] # Unset /\ thread[l] = Unset
  /\ t \notin Working /\ Owner[t] = started[l].account
  /\ thread' = [thread EXCEPT ![l] = t]
  /\ UNCHANGED <<outside, started, file>>

PublishSession(l) ==
  /\ started[l] # Unset /\ started[l].kind = "headless"
  /\ thread[l] # Unset /\ file[l] = Unset
  /\ file' = [file EXCEPT ![l] = thread[l]]
  /\ UNCHANGED <<outside, started, thread>>

\* The user of a TUI goes on with another thread of the account.
SwitchThread(l, t) ==
  /\ started[l] # Unset /\ started[l].kind = "tui"
  /\ thread[l] # Unset /\ t \notin Working /\ Owner[t] = started[l].account
  /\ thread' = [thread EXCEPT ![l] = t]
  /\ UNCHANGED <<outside, started, file>>

Started == {l \in Launches : started[l] # Unset}
Nth == Cardinality(Started) + 1
EnvironmentNext ==
  \/ \E parent \in Started \cup {Unset} : Headless(Nth, parent) \/ Interactive(Nth, parent)
  \/ \E l \in Launches : PublishSession(l)
  \/ \E l \in Launches, t \in Threads : ThreadStarted(l, t) \/ SwitchThread(l, t)

-----------------------------------------------------------------------------
(* Who the Bash bridge of a launch takes its calls to be made by *)

\* A managed TUI is asked by the metadata of the call; otherwise the explicit
\* session counts, and without one the session file, once it has content.  (That
\* a bridge keeps to the first thread it was called for is BashTool's Bind.)
Identity(l) ==
  LET env == BridgeEnv(l)
  IN IF env["tui"] # Unset
     THEN IF env["session"] \in {Unset, thread[l]} THEN thread[l] ELSE Unset
     ELSE IF env["session"] # Unset THEN env["session"]
     ELSE IF env["file"] \in Launches THEN file[env["file"]] ELSE env["file"]

\* However launches are nested and whatever they inherit, Codex uses the stores
\* of the account it was launched for, gets that launch's instructions and no
\* others, and its bridge sees an offer only if this launch was made one
\* (CODEX_HOME, CODEX_SQLITE_HOME, DEVELOPER_INSTRUCTIONS, the exploration offer).
OwnAccount ==
  \A l \in Started :
    LET r == started[l] IN
    /\ r.env["home"] = IF r.kind = "tui" THEN l ELSE r.account
    /\ r.env["sqlite"] = r.account
    /\ r.env["instructions"] = IF r.instructed THEN l ELSE Unset
    /\ BridgeEnv(l)["offer"] = IF r.offered THEN l ELSE Unset

\* A bridge dispatches for the thread of its own launch or for none, never for
\* a parent's or a stranger's; and only a TUI's registers and leases as a TUI's.
BindsItsOwnSession ==
  \A l \in Started :
    /\ Identity(l) \in {thread[l], Unset}
    /\ (BridgeEnv(l)["tui"] # Unset) <=> started[l].kind = "tui"
-----------------------------------------------------------------------------
Values == Launches \cup Accounts \cup Threads \cup {Unset, Blank, Raw, Stale, Managed}
Environments == [Keys -> Values]

EnvironmentTypeOK ==
  /\ outside \in Environments
  /\ started \in [Launches -> {Unset} \cup
       [kind : {"headless", "tui"}, account : Accounts, resume : Threads \cup {Unset},
        instructed : BOOLEAN, offered : BOOLEAN, env : Environments]]
  /\ thread \in [Launches -> Threads \cup {Unset}] /\ file \in [Launches -> Threads \cup {Unset}]

\* What a bridge can learn of its thread, and where: a headless launch's is the
\* one that it resumed or published in the file of this very launch.
Transport ==
  \A l \in Started :
    LET r == started[l] IN
    /\ r.env["tui"] = IF r.kind = "tui" THEN Managed ELSE Unset
    /\ r.kind = "headless" =>
         /\ r.env["file"] = l /\ r.env["session"] = r.resume
         /\ r.resume \in {thread[l], Unset} /\ file[l] \in {thread[l], Unset}
=============================================================================
