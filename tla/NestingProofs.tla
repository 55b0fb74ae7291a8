----------------------------- MODULE NestingProofs -----------------------------
(***************************************************************************)
(* What holds of nested launches and probes for any number of launches,    *)
(* accounts and threads, and any amount of output.  What a launch inherits *)
(* is left open in the lemmas about its environment: the code's order of   *)
(* maps and removals settles every key whatever the parent had in it.      *)
(***************************************************************************)
EXTENDS Nesting, TLAPS

-----------------------------------------------------------------------------
(* Environments *)

\* The four ways to build an environment from others.
LEMMA MapsAreEnvironments ==
  ASSUME NEW e \in Environments, NEW f \in Environments, NEW keys, NEW value \in Values
  PROVE  /\ Over(e, f) \in Environments /\ Without(e, keys) \in Environments
         /\ With(e, keys, value) \in Environments /\ Unicode(e) \in Environments
         /\ Consumed(e) \in Environments /\ All(value) \in Environments
BY DEF Over, Without, With, Unicode, Consumed, All, Environments, Values

LEMMA SpecialValues ==
  /\ {Unset, Blank, Raw, Stale, Managed} \subseteq Values
  /\ Launches \subseteq Values /\ Accounts \subseteq Values /\ Threads \subseteq Values
BY DEF Values

\* What a headless launch is started with, whatever it inherits.
LEMMA HeadlessFacts ==
  ASSUME NEW l \in Launches, NEW r \in Requests, NEW process \in Environments,
         NEW host \in HostEnvs, NEW candidate \in Environments
  PROVE  LET env == HeadlessEnv(l, r, process, host, candidate)
         IN /\ env \in Environments
            /\ env["home"] = r.account /\ env["sqlite"] = r.account
            /\ env["instructions"] = (IF r.instructed THEN l ELSE Unset)
            /\ env["offer"] = (IF r.offered THEN l ELSE Unset)
            /\ env["tui"] = Unset /\ env["file"] = l /\ env["session"] = r.resume
<1> DEFINE plan == Requested(l, r, candidate)
           admitted == Admitted(r, process, host, plan)
           env == HeadlessEnv(l, r, process, host, candidate)
<1>1. /\ r.account \in Accounts /\ r.resume \in Threads \cup {Unset}
      /\ r.instructed \in BOOLEAN /\ r.offered \in BOOLEAN
  BY DEF Requests
<1>2. /\ plan \in Environments /\ plan["home"] = r.account /\ plan["sqlite"] = r.account
      /\ plan["instructions"] = (IF r.instructed THEN l ELSE Blank)
      /\ r.offered => plan["offer"] = l
  BY <1>1 DEF Requested, Evaluated, With, Keys, Environments, Values
<1>3. host \in Environments
  BY SpecialValues, MapsAreEnvironments DEF HostEnvs, All, Without, Environments
<1>4. /\ admitted \in Environments
      /\ admitted["home"] = r.account /\ admitted["sqlite"] = r.account
      /\ admitted["instructions"] = (IF r.instructed THEN l ELSE Unset)
      /\ admitted["offer"] = (IF r.offered THEN l ELSE Unset)
  <2> DEFINE base == Over(Without(Over(Unicode(process), host), {"instructions", "offer"}), plan)
             own == IF r.offered THEN base ELSE Without(base, {"offer"})
  <2>1. base \in Environments
    BY <1>2, <1>3, MapsAreEnvironments, SpecialValues
  <2>2. /\ base["home"] = r.account /\ base["sqlite"] = r.account
        /\ base["instructions"] = (IF r.instructed THEN l ELSE Blank)
        /\ r.offered => base["offer"] = l
    BY <1>1, <1>2, EnvironmentAssumption DEF Over, Keys
  <2> HIDE DEF base
  <2>3. /\ own \in Environments
        /\ own["home"] = r.account /\ own["sqlite"] = r.account
        /\ own["instructions"] = (IF r.instructed THEN l ELSE Blank)
        /\ own["offer"] = (IF r.offered THEN l ELSE Unset)
    BY <1>1, <2>1, <2>2 DEF Without, Keys, Environments, Values
  <2>4. admitted = Consumed(own)
    BY DEF Admitted, base
  <2> HIDE DEF own
  <2> QED BY <1>1, <2>3, <2>4, EnvironmentAssumption DEF Consumed, Without, Keys, Environments, Values
<1> HIDE DEF plan, admitted
<1> DEFINE bound == Bound(l, r, admitted)
<1>5. /\ bound \in Environments
      /\ bound["home"] = r.account /\ bound["sqlite"] = r.account
      /\ bound["instructions"] = (IF r.instructed THEN l ELSE Unset)
      /\ bound["offer"] = (IF r.offered THEN l ELSE Unset)
      /\ bound["tui"] = Unset /\ bound["file"] = l /\ bound["session"] = r.resume
  BY <1>1, <1>4 DEF Bound, With, Without, Keys, Environments, Values
<1>6. env = Over(Without(process, HeadlessRemoved(r)), bound)
  BY DEF HeadlessEnv, bound, admitted, plan
<1>7. env \in Environments
  BY <1>5, <1>6 DEF Over, Without, Environments, Values
<1> HIDE DEF bound
<1> QED BY <1>1, <1>5, <1>6, <1>7, EnvironmentAssumption DEF Over, Without, HeadlessRemoved, Keys

\* What a TUI is started with, whatever it inherits.
LEMMA TuiFacts ==
  ASSUME NEW l \in Launches, NEW r \in Requests, NEW process \in Environments
  PROVE  LET env == TuiEnv(l, r, process)
         IN /\ env \in Environments
            /\ env["home"] = l /\ env["sqlite"] = r.account
            /\ env["instructions"] = (IF r.instructed THEN l ELSE Unset)
            /\ env["tui"] = Managed
<1> DEFINE plan == Evaluated(All(Unset), r.account, IF r.instructed THEN l ELSE Blank)
           base == Over(Without(Unicode(process), {"instructions"}), plan)
           env == TuiEnv(l, r, process)
<1>1. /\ r.account \in Accounts /\ r.resume \in Threads \cup {Unset} /\ r.instructed \in BOOLEAN
  BY DEF Requests
<1>2. /\ plan \in Environments /\ plan["sqlite"] = r.account
      /\ plan["instructions"] = (IF r.instructed THEN l ELSE Blank)
  BY <1>1 DEF Evaluated, All, With, Keys, Environments, Values
<1> HIDE DEF plan
<1>3. base \in Environments
  BY <1>2, MapsAreEnvironments, SpecialValues
<1>4. /\ base["sqlite"] = r.account /\ base["instructions"] = (IF r.instructed THEN l ELSE Blank)
  BY <1>1, <1>2, EnvironmentAssumption DEF Over, Keys
<1> HIDE DEF base
<1>5. /\ Consumed(base) \in Environments /\ Consumed(base)["sqlite"] = r.account
      /\ Consumed(base)["instructions"] = (IF r.instructed THEN l ELSE Unset)
  BY <1>1, <1>3, <1>4, EnvironmentAssumption DEF Consumed, Without, Keys, Environments, Values
<1> DEFINE own == With(With(With(Without(Consumed(base), {"file"}), {"session"}, r.resume),
                            {"tui"}, Managed), {"home"}, l)
<1>6. /\ own \in Environments /\ own["home"] = l /\ own["sqlite"] = r.account /\ own["tui"] = Managed
      /\ own["instructions"] = (IF r.instructed THEN l ELSE Unset)
  BY <1>1, <1>5 DEF With, Without, Keys, Environments, Values
<1>7. env = Over(Without(process, TuiRemoved), own)
  BY DEF TuiEnv, own, base, plan
<1> HIDE DEF own
<1> QED BY <1>1, <1>6, <1>7, EnvironmentAssumption
        DEF Over, Without, TuiRemoved, Keys, Environments, Values

-----------------------------------------------------------------------------
(* Launches *)

EnvironmentInv == EnvironmentTypeOK /\ Transport /\ OwnAccount

LEMMA InheritedIsEnvironment ==
  ASSUME EnvironmentTypeOK, NEW parent \in Started \cup {Unset}
  PROVE  Inherited(parent) \in Environments
<1>1. outside \in Environments
  BY DEF EnvironmentTypeOK
<1>2. ASSUME parent \in Launches PROVE BridgeEnv(parent) \in Environments
  <2>1. parent \in Started
    BY <1>2, EnvironmentAssumption
  <2>2. started[parent].env \in Environments
    BY <2>1 DEF Started, EnvironmentTypeOK
  <2> QED BY <2>2, MapsAreEnvironments, SpecialValues DEF BridgeEnv
<1> QED BY <1>1, <1>2 DEF Inherited

LEMMA StartInvariant ==
  ASSUME EnvironmentInv, NEW l, NEW kind \in {"headless", "tui"}, NEW r \in Requests,
         NEW env \in Environments, Start(l, kind, r, env), kind = "tui" => ~r.offered,
         env["home"] = IF kind = "tui" THEN l ELSE r.account, env["sqlite"] = r.account,
         env["instructions"] = IF r.instructed THEN l ELSE Unset,
         kind = "headless" =>
           /\ env["offer"] = (IF r.offered THEN l ELSE Unset)
           /\ env["file"] = l /\ env["session"] = r.resume,
         env["tui"] = IF kind = "tui" THEN Managed ELSE Unset
  PROVE  EnvironmentInv'
<1>1. /\ r.account \in Accounts /\ r.resume \in Threads \cup {Unset}
      /\ r.instructed \in BOOLEAN /\ r.offered \in BOOLEAN
  BY DEF Requests
<1> USE DEF Start
<1>2. EnvironmentTypeOK'
  BY <1>1 DEF EnvironmentInv, EnvironmentTypeOK
<1>3. Transport'
  BY <1>1 DEF EnvironmentInv, EnvironmentTypeOK, Transport, Started
<1>4. OwnAccount'
  BY <1>1 DEF EnvironmentInv, EnvironmentTypeOK, OwnAccount, Started, BridgeEnv, Without, Keys
<1> QED BY <1>2, <1>3, <1>4 DEF EnvironmentInv

LEMMA EnvironmentStepInvariant ==
  ASSUME EnvironmentInv, EnvironmentNext
  PROVE  EnvironmentInv'
<1>1. ASSUME NEW l, NEW parent \in Started \cup {Unset}, Headless(l, parent)
      PROVE  EnvironmentInv'
  <2>1. Inherited(parent) \in Environments
    BY InheritedIsEnvironment DEF EnvironmentInv
  <2>2. PICK r \in Requests, host \in HostEnvs, candidate \in {All(Unset), Unicode(Inherited(parent))} :
          Start(l, "headless", r, HeadlessEnv(l, r, Inherited(parent), host, candidate))
    BY <1>1 DEF Headless
  <2>3. candidate \in Environments /\ l \in Launches
    BY <2>1, <2>2, MapsAreEnvironments, SpecialValues DEF Start
  <2>4. LET env == HeadlessEnv(l, r, Inherited(parent), host, candidate)
        IN /\ env \in Environments
           /\ env["home"] = r.account /\ env["sqlite"] = r.account
           /\ env["instructions"] = (IF r.instructed THEN l ELSE Unset)
           /\ env["offer"] = (IF r.offered THEN l ELSE Unset)
           /\ env["tui"] = Unset /\ env["file"] = l /\ env["session"] = r.resume
    BY <2>1, <2>3, HeadlessFacts
  <2> QED BY <2>2, <2>4, StartInvariant
<1>2. ASSUME NEW l, NEW parent \in Started \cup {Unset}, Interactive(l, parent)
      PROVE  EnvironmentInv'
  <2>1. Inherited(parent) \in Environments
    BY InheritedIsEnvironment DEF EnvironmentInv
  <2>2. PICK r \in Requests : ~r.offered /\ Start(l, "tui", r, TuiEnv(l, r, Inherited(parent)))
    BY <1>2 DEF Interactive
  <2>3. l \in Launches
    BY <2>2 DEF Start
  <2>4. LET env == TuiEnv(l, r, Inherited(parent))
        IN /\ env \in Environments
           /\ env["home"] = l /\ env["sqlite"] = r.account
           /\ env["instructions"] = (IF r.instructed THEN l ELSE Unset)
           /\ env["tui"] = Managed
    BY <2>1, <2>3, TuiFacts
  <2> QED BY <2>2, <2>4, StartInvariant
<1>3. ASSUME NEW l \in Launches, NEW t \in Threads,
             PublishSession(l) \/ ThreadStarted(l, t) \/ SwitchThread(l, t)
      PROVE  EnvironmentInv'
  <2> USE <1>3 DEF PublishSession, ThreadStarted, SwitchThread
  <2>1. EnvironmentTypeOK'
    BY DEF EnvironmentInv, EnvironmentTypeOK
  <2>2. Transport'
    BY DEF EnvironmentInv, EnvironmentTypeOK, Transport, Started
  <2>3. OwnAccount'
    BY DEF EnvironmentInv, OwnAccount, Started, BridgeEnv
  <2> QED BY <2>1, <2>2, <2>3 DEF EnvironmentInv
<1>4. ASSUME NEW l \in Launches, PublishSession(l) PROVE EnvironmentInv'
  <2> USE <1>4 DEF PublishSession
  <2>1. EnvironmentTypeOK'
    BY DEF EnvironmentInv, EnvironmentTypeOK
  <2>2. Transport'
    BY DEF EnvironmentInv, EnvironmentTypeOK, Transport, Started
  <2>3. OwnAccount'
    BY DEF EnvironmentInv, OwnAccount, Started, BridgeEnv
  <2> QED BY <2>1, <2>2, <2>3 DEF EnvironmentInv
<1> QED BY <1>1, <1>2, <1>3, <1>4 DEF EnvironmentNext

-----------------------------------------------------------------------------
(* Probes *)

ProbeInv == ProbeTypeOK /\ Seen /\ NothingLeftRunning

LEMMA NoOutputType == NoOutput \in [length : 0..(MaxOutput + 1), usable : BOOLEAN]
<1>1. 0 \in 0..(MaxOutput + 1)
  BY OutputAssumption
<1> QED BY <1>1 DEF NoOutput

LEMMA ProbeStepInvariant ==
  ASSUME ProbeInv, Spawn \/ NotStarted \/ Poll \/ HelperStep \/ Elapse \/ Answered
  PROVE  ProbeInv'
<1> USE DEF ProbeInv, ProbeTypeOK, Seen, NothingLeftRunning, Polling, Outcomes, ProbeLeaves, HelperLeaves
<1>1. CASE NotStarted
  BY <1>1 DEF NotStarted
<1>2. CASE Answered
  <2>1. output' \in [length : 0..(MaxOutput + 1), usable : BOOLEAN]
    BY <1>2, NoOutputType DEF Answered
  <2> QED BY <1>2, <2>1 DEF Answered
<1>3. CASE Measure \/ Clock
  BY <1>3 DEF Measure, Clock, GiveUp, Drop
<1>4. CASE StillRunning
  BY <1>4 DEF StillRunning
<1>5. CASE SeenExited
  BY <1>5 DEF SeenExited
<1>6. CASE Sleep \/ Read
  BY <1>6 DEF Sleep, Read
<1>7. CASE Write
  BY <1>7, OutputAssumption DEF Write
<1>8. CASE Fork
  BY <1>8 DEF Fork
<1>9. CASE HelperExits
  BY <1>9 DEF HelperExits
<1>10. CASE ChildExits
  BY <1>10 DEF ChildExits
<1>11. CASE Spawn
  BY <1>11 DEF Spawn
<1>12. CASE Elapse
  BY <1>12 DEF Elapse
<1> QED BY <1>1, <1>2, <1>3, <1>4, <1>5, <1>6, <1>7, <1>8, <1>9, <1>10, <1>11, <1>12
        DEF Poll, HelperStep

-----------------------------------------------------------------------------
(* Both *)

HelperInv ==
  /\ probed \in Accounts \cup {Unset} /\ helperEnv \in Environments
  /\ probed # Unset => helperEnv["home"] = probed

LEMMA InitInvariant == Init => EnvironmentInv /\ ProbeInv /\ HelperInv
<1> SUFFICES ASSUME Init PROVE EnvironmentInv /\ ProbeInv /\ HelperInv
  OBVIOUS
<1>1. outside \in Environments
  BY MapsAreEnvironments, SpecialValues DEF Init, EnvironmentInit, All, Environments
<1>2. EnvironmentInv
  BY <1>1 DEF Init, EnvironmentInit, EnvironmentInv, EnvironmentTypeOK, Transport, OwnAccount, Started
<1>3. ProbeInv
  BY NoOutputType
  DEF Init, ProbeInit, ProbeInv, ProbeTypeOK, Seen, NothingLeftRunning, Polling, Outcomes
<1>4. HelperInv
  BY <1>1 DEF Init, HelperInv
<1> QED BY <1>2, <1>3, <1>4

LEMMA StepInvariant ==
  ASSUME EnvironmentInv, ProbeInv, HelperInv, [Next]_vars
  PROVE  EnvironmentInv' /\ ProbeInv' /\ HelperInv'
<1>1. EnvironmentInv /\ UNCHANGED launchVars => EnvironmentInv'
  BY DEF launchVars, EnvironmentInv, EnvironmentTypeOK, Transport, OwnAccount, Started, BridgeEnv
<1>2. ProbeInv /\ UNCHANGED probeVars => ProbeInv'
  BY DEF probeVars, ProbeInv, ProbeTypeOK, Seen, NothingLeftRunning
<1>3. HelperInv /\ UNCHANGED <<probed, helperEnv>> => HelperInv'
  BY DEF HelperInv
<1>4. ASSUME NEW parent \in Started \cup {Unset}, NEW account \in Accounts, Probe(parent, account)
      PROVE  EnvironmentInv' /\ ProbeInv' /\ HelperInv'
  <2>1. Inherited(parent) \in Environments
    BY InheritedIsEnvironment DEF EnvironmentInv
  <2>2. HelperInv'
    BY <1>4, <2>1 DEF Probe, HelperEnv, HelperInv, With, Keys, Environments, Values
  <2> QED BY <1>1, <1>4, <2>2, ProbeStepInvariant DEF Probe
<1>5. CASE ProbeStep
  BY <1>1, <1>3, <1>5, ProbeStepInvariant DEF ProbeStep
<1>6. CASE Finish
  <2>1. HelperInv'
    BY <1>6 DEF Finish, HelperInv, EnvironmentInv, EnvironmentTypeOK, launchVars
  <2> QED BY <1>1, <1>6, <2>1, ProbeStepInvariant DEF Finish
<1>7. CASE Launch
  BY <1>2, <1>3, <1>7, EnvironmentStepInvariant DEF Launch
<1>8. CASE UNCHANGED vars
  BY <1>1, <1>2, <1>3, <1>8 DEF vars
<1> QED BY <1>4, <1>5, <1>6, <1>7, <1>8 DEF Next

\* The invariant holds at the start, every step keeps it, and it holds for good.
THEOREM Inductive == Spec => []IInv
<1>1. EnvironmentInv /\ ProbeInv /\ HelperInv => IInv
  BY DEF IInv, TypeOK, EnvironmentInv, ProbeInv, HelperInv, OwnAccountEverywhere
<1> QED BY <1>1, InitInvariant, StepInvariant, PTL DEF Spec

\* The state keeps its types.
THEOREM TypeOKHolds == Spec => []TypeOK
BY Inductive, PTL DEF IInv

\* However deep launches are nested, each works on its own account, instructions
\* and offer, and the helper of a probe on the probed account.
THEOREM OwnAccountEverywhereHolds == Spec => []OwnAccountEverywhere
BY Inductive, PTL DEF IInv

\* However deep launches are nested, a bridge takes its calls to be made by the
\* thread of its own launch or by none.
THEOREM BindsItsOwnSessionHolds == Spec => []BindsItsOwnSession
<1>1. IInv => BindsItsOwnSession
  <2> SUFFICES ASSUME IInv, NEW l \in Started
               PROVE  /\ Identity(l) \in {thread[l], Unset}
                      /\ (BridgeEnv(l)["tui"] # Unset) <=> started[l].kind = "tui"
    BY DEF BindsItsOwnSession
  <2>1. /\ l \in Launches /\ started[l].kind \in {"headless", "tui"}
        /\ started[l].env \in Environments
    BY DEF IInv, TypeOK, EnvironmentTypeOK, Started
  <2>2. /\ BridgeEnv(l)["tui"] = started[l].env["tui"]
        /\ BridgeEnv(l)["session"] = started[l].env["session"]
        /\ BridgeEnv(l)["file"] = started[l].env["file"]
    BY <2>1 DEF BridgeEnv, Without, Keys
  <2>3. (BridgeEnv(l)["tui"] # Unset) <=> started[l].kind = "tui"
    BY <2>1, <2>2, EnvironmentAssumption DEF IInv, Transport
  <2>4. Identity(l) \in {thread[l], Unset}
    BY <2>1, <2>2, <2>3 DEF IInv, Transport, Identity
  <2> QED BY <2>3, <2>4
<1> QED BY <1>1, Inductive, PTL

\* A probe that gave up leaves nothing of its helper's group running.
THEOREM NothingLeftRunningHolds == Spec => []NothingLeftRunning
BY Inductive, PTL DEF IInv
=============================================================================
