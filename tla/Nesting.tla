-------------------------------- MODULE Nesting --------------------------------
(***************************************************************************)
(* A host that launches Codex and probes accounts from within managed      *)
(* turns: Environment and QuotaProbe, which meet in the environment the    *)
(* probe's helper is started with.                                         *)
(***************************************************************************)
EXTENDS Environment, QuotaProbe

VARIABLES
  probed,   \* the account a probe is about, or Unset
  helperEnv \* the environment its helper was started with

vars == <<launchVars, probeVars, probed, helperEnv>>

Init == EnvironmentInit /\ ProbeInit /\ probed = Unset /\ helperEnv = outside

\* The inherited environment, overlaid with the account's home.
HelperEnv(process, account) == With(process, {"home"}, account)

\* quota.probe, in a provider that any launch may have caused.  Bound: before the
\* last launch.
Probe(parent, account) ==
  /\ Nth \in Launches /\ Spawn
  /\ probed' = account
  /\ helperEnv' = HelperEnv(Inherited(parent), account)
  /\ UNCHANGED launchVars

ProbeStep ==
  /\ NotStarted \/ Poll \/ HelperStep \/ Elapse
  /\ UNCHANGED <<launchVars, probed, helperEnv>>

Finish == Answered /\ probed' = Unset /\ helperEnv' = outside /\ UNCHANGED launchVars

\* Bound: one operation at a time; a probe and a launch share only what they
\* inherit.
Launch == probe = "idle" /\ EnvironmentNext /\ UNCHANGED <<probeVars, probed, helperEnv>>

Next ==
  \/ \E parent \in Started \cup {Unset}, account \in Accounts : Probe(parent, account)
  \/ ProbeStep \/ Finish \/ Launch

Spec == Init /\ [][Next]_vars

\* The provider goes on with its poll, and time passes.
FairSpec == Spec /\ ProbeFairness

\* Every child of a provider works on the account of its request: OwnAccount,
\* and the helper of a probe is shown the probed account's home.
OwnAccountEverywhere == OwnAccount /\ (probed # Unset => helperEnv["home"] = probed)
-----------------------------------------------------------------------------
TypeOK ==
  /\ EnvironmentTypeOK /\ ProbeTypeOK
  /\ probed \in Accounts \cup {Unset} /\ helperEnv \in Environments

IInv ==
  /\ TypeOK /\ Transport /\ Seen
  /\ OwnAccountEverywhere /\ NothingLeftRunning
=============================================================================
