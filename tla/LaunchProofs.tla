----------------------------- MODULE LaunchProofs -----------------------------
(***************************************************************************)
(* What holds of launches for any number of requests, providers, threads   *)
(* and killed providers.  Every step preserves the invariant IInv of       *)
(* Launch, which ties the session file, the durable record and what the    *)
(* adapter knows together; steps that leave the same way share a lemma.    *)
(***************************************************************************)
EXTENDS Launch, FiniteSetTheorems, TLAPS

LEMMA InitInvariant == Init => IInv
<1> SUFFICES ASSUME Init PROVE IInv
  OBVIOUS
<1> USE LaunchAssumption DEF Init
<1>1. TypeOK
  BY DEF TypeOK, Stages, Preparing, Native, Sessions, Flags, NoFlags, NoDeeds
<1>2. SessionHeld /\ Admission /\ FileOwned
  BY DEF SessionHeld, SessionKey, Admission, Admitted, Untouched, FileOwned, Preparing, Ran, Native
<1>3. FileAgrees /\ Heard
  BY DEF FileAgrees, KnowsFile, Heard, Preparing, Ran, Native
<1>4. \A r \in Requests : runs[r] <= 1
  OBVIOUS
<1> QED BY <1>1, <1>2, <1>3, <1>4 DEF IInv

\* A request past its lock is served by one provider.
LEMMA OneServer ==
  ASSUME IInv, NEW p \in Providers, NEW q \in Providers,
         pc[p] \notin {"idle", "lock"}, pc[q] \notin {"idle", "lock"}, req[p] = req[q]
  PROVE  p = q
BY DEF IInv, TypeOK, Admission, Admitted

-----------------------------------------------------------------------------
(* Ways out                                                                *)

\* Exiting keeps the types of what belongs to the process, and its locks go.
LEMMA ExitTypes ==
  ASSUME TypeOK, NEW p \in Providers, Exit(p)
  PROVE  /\ pc' \in [Providers -> Stages]
         /\ req' \in [Providers -> Requests \cup {NoOne}]
         /\ given' \in [Providers -> Sessions] /\ known' \in [Providers -> Sessions]
         /\ flags' \in [Providers -> Flags]
         /\ verdict' \in [Providers -> Verdicts \cup {NoVerdict}]
         /\ lock' \in [Requests -> Providers \cup {NoOne}]
         /\ sessionLock' \in [Roots \X Threads -> Providers \cup {NoOne}]
         /\ \A r \in Requests, q \in Providers :
              lock'[r] = q <=> req'[q] = r /\ pc'[q] \notin {"idle", "lock"}
<1> USE LaunchAssumption DEF TypeOK, Exit
<1>1. pc' \in [Providers -> Stages] /\ req' \in [Providers -> Requests \cup {NoOne}]
  BY DEF Stages
<1>2. given' \in [Providers -> Sessions] /\ known' \in [Providers -> Sessions]
  BY DEF Sessions
<1>3. NoFlags \in Flags
  BY DEF NoFlags, Flags
<1>4. flags' \in [Providers -> Flags] /\ verdict' \in [Providers -> Verdicts \cup {NoVerdict}]
  BY <1>3
<1>5. lock' \in [Requests -> Providers \cup {NoOne}]
      /\ sessionLock' \in [Roots \X Threads -> Providers \cup {NoOne}]
  OBVIOUS
<1>6. ASSUME NEW r \in Requests, NEW q \in Providers
      PROVE  lock'[r] = q <=> req'[q] = r /\ pc'[q] \notin {"idle", "lock"}
  OBVIOUS
<1> QED BY <1>1, <1>2, <1>4, <1>5, <1>6

\* What a process held it alone held: the others are as they were.
LEMMA ExitLeavesOthers ==
  ASSUME TypeOK, NEW p \in Providers, Exit(p)
  PROVE  /\ pc'[p] = "idle"
         /\ \A q \in Providers \ {p} :
              /\ pc'[q] = pc[q] /\ req'[q] = req[q] /\ given'[q] = given[q]
              /\ known'[q] = known[q] /\ verdict'[q] = verdict[q]
         /\ \A r \in Requests : lock[r] # p => lock'[r] = lock[r]
         /\ \A k \in Roots \X Threads : sessionLock[k] # p => sessionLock'[k] = sessionLock[k]
BY DEF TypeOK, Exit

\* The conjuncts about those who serve survive any exit that changes no file
\* and no record of a request that somebody else serves.
LEMMA ExitKeepsServers ==
  ASSUME IInv, NEW p \in Providers, Exit(p), pc[p] # "idle",
         file' \in [Requests -> Threads \cup {"absent", "empty"}],
         \A r \in Requests \ {req[p]} :
           /\ file'[r] = file[r] /\ phase'[r] = phase[r] /\ inputs'[r] = inputs[r]
           /\ runs'[r] = runs[r],
         pc[p] = "lock" => file' = file /\ phase' = phase /\ inputs' = inputs /\ runs' = runs,
         root' = root
  PROVE  SessionHeld' /\ FileAgrees' /\ \A q \in Providers : Admitted(q)'
<1>0. TypeOK /\ Admission /\ SessionHeld /\ FileAgrees
  BY DEF IInv
<1>1. pc'[p] = "idle"
  BY <1>0, ExitLeavesOthers
<1>2. ASSUME NEW q \in Providers \ {p}
      PROVE  /\ pc'[q] = pc[q] /\ req'[q] = req[q] /\ given'[q] = given[q]
             /\ known'[q] = known[q] /\ verdict'[q] = verdict[q]
  BY <1>0, ExitLeavesOthers
<1>3. SessionHeld'
  <2> SUFFICES ASSUME NEW q \in Providers, given'[q] # NoThread,
                      pc'[q] \in {"create", "publish", "admit"} \cup Ran
               PROVE  sessionLock'[SessionKey(q)'] = q
    BY DEF SessionHeld
  <2>1. q # p
    BY <1>1 DEF Ran, Native
  <2>2. SessionKey(q)' = SessionKey(q) /\ sessionLock[SessionKey(q)] = q
    BY <1>0, <1>2, <2>1 DEF SessionHeld, SessionKey
  <2>3. SessionKey(q) \in Roots \X Threads
    BY <1>0, <1>2, <2>1 DEF SessionKey, TypeOK, Sessions, Admission, Admitted, Ran, Native
  <2> QED BY <1>0, <2>1, <2>2, <2>3, ExitLeavesOthers
<1>4. ASSUME NEW q \in Providers \ {p}, pc[q] \notin {"idle", "lock"}
      PROVE  /\ req[q] \in Requests
             /\ file'[req[q]] = file[req[q]] /\ phase'[req[q]] = phase[req[q]]
             /\ inputs'[req[q]] = inputs[req[q]] /\ runs'[req[q]] = runs[req[q]]
  <2>1. req[q] \in Requests
    BY <1>0, <1>4 DEF Admission, Admitted
  <2>2. CASE pc[p] = "lock"
    BY <2>1, <2>2
  <2>3. CASE pc[p] # "lock"
    BY <2>1, <2>3, <1>4, OneServer
  <2> QED BY <2>2, <2>3
<1>5. FileAgrees'
  <2> SUFFICES ASSUME NEW q \in Providers PROVE KnowsFile(q)'
    BY DEF FileAgrees
  <2>1. CASE q = p
    BY <1>1, <2>1 DEF KnowsFile, Preparing, Ran, Native
  <2>2. CASE q # p
    BY <1>0, <1>2, <1>4, <2>2 DEF FileAgrees, KnowsFile, Preparing, Ran, Native
  <2> QED BY <2>1, <2>2
<1>6. ASSUME NEW q \in Providers PROVE Admitted(q)'
  BY <1>0, <1>1, <1>2, <1>4 DEF Admission, Admitted, Preparing, Ran, Native
<1> QED BY <1>3, <1>5, <1>6

\* A refusal: what was prepared is discarded.
LEMMA RefuseInvariant ==
  ASSUME IInv, NEW p \in Providers, Refuse(p), pc[p] \in {"lock", "custody"} \cup Preparing
  PROVE  IInv'
<1> USE LaunchAssumption DEF Refuse, Discard, recordVars, nativeVars, historyVars, otherVars
<1>0. /\ TypeOK /\ Admission /\ Heard /\ FileOwned /\ req[p] \in Requests
      /\ pc[p] # "lock" => lock[req[p]] = p
      /\ pc[p] # "idle" /\ pc[p] \notin Ran
  BY DEF IInv, TypeOK, Admission, Admitted, Preparing, Ran, Native
<1>1. /\ file' \in [Requests -> Threads \cup {"absent", "empty"}]
      /\ \A r \in Requests : file'[r] = file[r] \/ (file'[r] = "absent" /\ phase[r] = "none")
      /\ \A r \in Requests \ {req[p]} : file'[r] = file[r]
      /\ pc[p] = "lock" => file' = file
  BY <1>0 DEF TypeOK, Admission, Admitted, Preparing
<1>2. TypeOK'
  BY <1>0, <1>1, ExitTypes DEF TypeOK
<1>3. SessionHeld' /\ FileAgrees' /\ \A q \in Providers : Admitted(q)'
  BY <1>0, <1>1, ExitKeepsServers
<1>4. Admission'
  BY <1>0, <1>3 DEF Admission, Untouched
<1>5. FileOwned'
  <2> SUFFICES ASSUME NEW r \in Requests \ spoiled, phase[r] = "none", file'[r] # "absent"
               PROVE  lock'[r] # NoOne /\ pc'[lock'[r]] \in {"publish", "admit"}
    BY DEF FileOwned
  <2>1. lock[r] # NoOne /\ pc[lock[r]] \in {"publish", "admit"} /\ lock[r] \in Providers
    BY <1>0, <1>1 DEF FileOwned, TypeOK
  <2>2. lock[r] # p
    BY <1>0, <1>1, <2>1 DEF TypeOK
  <2> QED BY <1>0, <2>1, <2>2, ExitLeavesOthers
<1>6. Heard'
  BY <1>0, <1>1 DEF Heard, HeardOfFile, Recorded
<1>7. \A r \in Requests : runs'[r] <= 1
  BY DEF IInv
<1> QED BY <1>2, <1>3, <1>4, <1>5, <1>6, <1>7 DEF IInv

\* A failure after native admission: the record stays as it is.
LEMMA AbortInvariant ==
  ASSUME IInv, NEW p \in Providers, Abort(p), pc[p] \in {"custody"} \cup Ran,
         phase[req[p]] = "running"
  PROVE  IInv'
<1> USE LaunchAssumption DEF Abort, recordVars, historyVars, otherVars
<1>0. /\ TypeOK /\ Admission /\ Heard /\ FileOwned /\ req[p] \in Requests
      /\ lock[req[p]] = p /\ pc[p] \notin {"idle", "lock", "publish", "admit"}
  BY DEF IInv, TypeOK, Admission, Admitted, Ran, Native
<1>1. file' = file /\ phase' = phase /\ inputs' = inputs /\ runs' = runs
  OBVIOUS
<1>2. TypeOK'
  <2>1. group' \in [Requests -> {"none", "gated", "running", "gone"}]
    BY <1>0 DEF TypeOK
  <2> QED BY <1>0, <2>1, ExitTypes DEF TypeOK
<1>3. SessionHeld' /\ FileAgrees' /\ \A q \in Providers : Admitted(q)'
  BY <1>0, <1>1, ExitKeepsServers DEF TypeOK
<1>4. Admission'
  BY <1>0, <1>3 DEF Admission, Untouched, TypeOK
<1>5. FileOwned'
  <2> SUFFICES ASSUME NEW r \in Requests \ spoiled, phase[r] = "none", file[r] # "absent"
               PROVE  lock'[r] # NoOne /\ pc'[lock'[r]] \in {"publish", "admit"}
    BY DEF FileOwned
  <2>1. lock[r] # NoOne /\ pc[lock[r]] \in {"publish", "admit"} /\ lock[r] \in Providers
    BY <1>0 DEF FileOwned, TypeOK
  <2> QED BY <1>0, <2>1, ExitLeavesOthers
<1>6. Heard'
  BY <1>0 DEF Heard, HeardOfFile, Recorded
<1>7. \A r \in Requests : runs'[r] <= 1
  BY DEF IInv
<1> QED BY <1>2, <1>3, <1>4, <1>5, <1>6, <1>7 DEF IInv

-----------------------------------------------------------------------------
(* Steps before native admission                                           *)

LEMMA SubmitInvariant ==
  ASSUME IInv, NEW p \in Providers, NEW s \in Requests, NEW t \in Sessions, Submit(p, s, t)
  PROVE  IInv'
<1> USE LaunchAssumption DEF Submit, Goto, recordVars, nativeVars, historyVars, otherVars
<1>1. TypeOK'
  BY DEF IInv, TypeOK, Stages
<1>2. SessionHeld' /\ FileOwned'
  BY DEF IInv, TypeOK, SessionHeld, SessionKey, FileOwned, Ran, Native
<1>3. Admission'
  BY DEF IInv, TypeOK, Admission, Admitted, Untouched, Ran, Native, Preparing
<1>4. FileAgrees'
  BY DEF IInv, TypeOK, FileAgrees, KnowsFile, Ran, Native, Preparing
<1>5. Heard' /\ \A r \in Requests : runs'[r] <= 1
  BY DEF IInv, Heard, HeardOfFile, Recorded
<1> QED BY <1>1, <1>2, <1>3, <1>4, <1>5 DEF IInv

\* Locks are taken and nothing else changes.
LEMMA LockingInvariant ==
  ASSUME IInv, NEW p \in Providers,
         LockRequest(p) \/ Begin(p) \/ Locate(p) \/ LockSession(p)
  PROVE  IInv'
<1> USE LaunchAssumption
<1>0. TypeOK /\ req[p] \in Requests /\ given[p] \in Sessions
  BY DEF IInv, TypeOK, Admission, Admitted, LockRequest, Begin, Locate, LockSession, Goto
<1>1. /\ UNCHANGED <<req, given, known, flags, verdict, file, phase, inputs, receipt, group,
                     transcripts, runs, did, ended, used, told, claimed, root, spoiled, deaths>>
      /\ pc[p] \in {"lock", "custody", "locate", "session_lock"}
      /\ \E k \in {"custody", "locate", "session_lock", "create"} : pc' = [pc EXCEPT ![p] = k]
  BY DEF LockRequest, Begin, Locate, LockSession, Goto, adapterVars, recordVars, nativeVars,
         historyVars, otherVars
<1>2. \/ sessionLock' = sessionLock /\ (pc'[p] = "create" => given[p] = NoThread)
      \/ /\ sessionLock[SessionKey(p)] = NoOne
         /\ sessionLock' = [sessionLock EXCEPT ![SessionKey(p)] = p]
  BY <1>0 DEF TypeOK, LockRequest, Begin, Locate, LockSession, Goto
<1>3. \/ pc[p] # "lock" /\ lock' = lock
      \/ /\ pc[p] = "lock" /\ pc'[p] = "custody" /\ lock[req[p]] = NoOne
         /\ lock' = [lock EXCEPT ![req[p]] = p]
  BY <1>0 DEF TypeOK, LockRequest, Begin, Locate, LockSession, Goto
<1>4. phase[req[p]] = "none" \/ pc'[p] = "custody"
  BY <1>0 DEF IInv, TypeOK, Admission, Admitted, Preparing, LockRequest, Begin, Locate, LockSession,
              Goto
<1>5. TypeOK'
  <2>1. pc' \in [Providers -> Stages]
    BY <1>0, <1>1 DEF TypeOK, Stages, Preparing
  <2>2. lock' \in [Requests -> Providers \cup {NoOne}]
    BY <1>0, <1>3 DEF TypeOK
  <2>3. sessionLock' \in [Roots \X Threads -> Providers \cup {NoOne}]
    BY <1>0, <1>2 DEF TypeOK
  <2>4. ASSUME NEW r \in Requests, NEW q \in Providers
        PROVE  lock'[r] = q <=> req'[q] = r /\ pc'[q] \notin {"idle", "lock"}
    BY <1>0, <1>1, <1>3 DEF TypeOK
  <2> QED BY <1>0, <1>1, <2>1, <2>2, <2>3, <2>4 DEF TypeOK
<1>6. SessionHeld'
  <2> SUFFICES ASSUME NEW q \in Providers, given[q] # NoThread,
                      pc'[q] \in {"create", "publish", "admit"} \cup Ran
               PROVE  sessionLock'[SessionKey(q)] = q
    BY <1>1 DEF SessionHeld, SessionKey
  <2>1. SessionKey(q) \in Roots \X Threads
    <3>1. req[q] \in Requests /\ given[q] \in Threads
      BY <1>0, <1>1 DEF IInv, TypeOK, Admission, Admitted, Sessions, Ran, Native
    <3> QED BY <1>0, <3>1 DEF TypeOK, SessionKey
  <2>2. CASE q = p
    <3>1. pc'[p] = "create"
      BY <1>0, <1>1, <2>2 DEF TypeOK, Ran, Native
    <3> QED BY <1>0, <1>2, <2>1, <2>2, <3>1 DEF TypeOK
  <2>3. CASE q # p
    <3>1. sessionLock[SessionKey(q)] = q
      BY <1>0, <1>1, <2>3 DEF IInv, TypeOK, SessionHeld
    <3> QED BY <1>0, <1>2, <2>1, <3>1 DEF TypeOK
  <2> QED BY <2>2, <2>3
<1>7. Admission'
  <2>1. ASSUME NEW q \in Providers PROVE Admitted(q)'
    <3>1. Admitted(q)
      BY DEF IInv, Admission
    <3>2. CASE q = p
      BY <1>0, <1>1, <1>4, <3>2 DEF TypeOK, Admitted, Ran, Native, Preparing
    <3>3. CASE q # p
      BY <1>0, <1>1, <3>1, <3>3 DEF TypeOK, Admitted
    <3> QED BY <3>2, <3>3
  <2> QED BY <1>1, <2>1 DEF IInv, Admission, Untouched
<1>8. FileOwned'
  BY <1>0, <1>1, <1>3 DEF IInv, TypeOK, FileOwned
<1>9. FileAgrees'
  BY <1>0, <1>1 DEF IInv, TypeOK, FileAgrees, KnowsFile, Ran, Native, Preparing
<1>10. Heard' /\ \A r \in Requests : runs'[r] <= 1
  BY <1>1 DEF IInv, Heard, HeardOfFile, Recorded
<1> QED BY <1>5, <1>6, <1>7, <1>8, <1>9, <1>10 DEF IInv

\* The session file is made, and then names the thread that is resumed.
LEMMA SessionFileInvariant ==
  ASSUME IInv, NEW p \in Providers, CreateSessionFile(p) \/ PublishKnown(p)
  PROVE  IInv'
<1> USE LaunchAssumption DEF Goto, adapterVars, recordVars, nativeVars, historyVars, otherVars
<1>0. /\ TypeOK /\ req[p] \in Requests /\ given[p] \in Sessions /\ phase[req[p]] = "none"
      /\ lock[req[p]] = p
      /\ \A q \in Providers \ {p} : pc[q] \notin {"idle", "lock"} => req[q] # req[p]
  BY OneServer DEF IInv, TypeOK, Admission, Admitted, Preparing, CreateSessionFile, PublishKnown
<1>1. TypeOK'
  <2>1. CASE CreateSessionFile(p)
    BY <1>0, <2>1 DEF TypeOK, Stages, Preparing, CreateSessionFile
  <2>2. CASE PublishKnown(p)
    BY <1>0, <2>2 DEF TypeOK, Stages, Preparing, Sessions, PublishKnown
  <2> QED BY <2>1, <2>2
<1>2. SessionHeld'
  BY <1>0 DEF IInv, TypeOK, SessionHeld, SessionKey, Ran, Native, CreateSessionFile, PublishKnown
<1>3. /\ UNCHANGED <<req, given, known, verdict, lock, recordVars, runs, group, used, told, spoiled>>
      /\ pc'[p] \in {"publish", "admit"}
      /\ \A q \in Providers \ {p} : pc'[q] = pc[q]
      /\ \A r \in Requests \ {req[p]} : file'[r] = file[r]
  BY <1>0 DEF TypeOK, CreateSessionFile, PublishKnown
<1>4. Admission'
  BY <1>0, <1>3 DEF IInv, Admission, Admitted, Untouched, Ran, Native, Preparing
<1>5. FileOwned'
  <2>1. FileOwned /\ otherVars' = otherVars
    BY DEF IInv, CreateSessionFile, PublishKnown
  <2>2. ASSUME NEW r \in Requests \ spoiled, phase[r] = "none", file'[r] # "absent"
        PROVE  lock[r] # NoOne /\ pc'[lock[r]] \in {"publish", "admit"}
    BY <1>0, <1>3, <2>1, <2>2 DEF TypeOK, FileOwned
  <2> QED BY <1>3, <2>1, <2>2 DEF FileOwned
<1>6. FileAgrees'
  <2> SUFFICES ASSUME NEW q \in Providers PROVE KnowsFile(q)'
    BY DEF FileAgrees
  <2>1. CASE q = p
    BY <1>0, <2>1 DEF IInv, TypeOK, FileAgrees, KnowsFile, Ran, Native, Preparing,
                      CreateSessionFile, PublishKnown
  <2>2. CASE q # p
    <3>1. pc[q] \notin {"idle", "lock", "custody"} => file'[req[q]] = file[req[q]]
      BY <1>0, <1>3, <2>2 DEF IInv, Admission, Admitted
    <3> QED BY <1>3, <2>2, <3>1 DEF IInv, FileAgrees, KnowsFile, Ran, Native, Preparing
  <2> QED BY <2>1, <2>2
<1>7. Heard'
  BY <1>0, <1>3 DEF IInv, Heard, HeardOfFile, Recorded
<1>8. \A r \in Requests : runs'[r] <= 1
  BY <1>3 DEF IInv
<1> QED BY <1>1, <1>2, <1>4, <1>5, <1>6, <1>7, <1>8 DEF IInv

\* A file that could not be synced stays, and the request is spoiled.
LEMMA UnsyncedInvariant ==
  ASSUME IInv, NEW p \in Providers, SessionFileUnsynced(p)
  PROVE  IInv'
<1> USE LaunchAssumption DEF SessionFileUnsynced, recordVars, nativeVars, historyVars
<1>0. /\ TypeOK /\ Admission /\ Heard /\ FileOwned /\ req[p] \in Requests
      /\ phase[req[p]] = "none" /\ lock[req[p]] = p
  BY DEF IInv, TypeOK, Admission, Admitted, Preparing
<1>1. /\ file' \in [Requests -> Threads \cup {"absent", "empty"}]
      /\ \A r \in Requests \ {req[p]} : file'[r] = file[r]
  BY <1>0 DEF TypeOK
<1>2. TypeOK'
  <2>1. deaths' \in 0..MaxDeaths /\ spoiled' \subseteq Requests /\ root' = root
    BY <1>0 DEF TypeOK
  <2> QED BY <1>0, <1>1, <2>1, ExitTypes DEF TypeOK
<1>3. SessionHeld' /\ FileAgrees' /\ \A q \in Providers : Admitted(q)'
  BY <1>0, <1>1, ExitKeepsServers
<1>4. Admission'
  BY <1>0, <1>3 DEF Admission, Untouched
<1>5. FileOwned'
  <2> SUFFICES ASSUME NEW r \in Requests \ spoiled', phase[r] = "none", file'[r] # "absent"
               PROVE  lock'[r] # NoOne /\ pc'[lock'[r]] \in {"publish", "admit"}
    BY DEF FileOwned
  <2>1. r # req[p] /\ r \notin spoiled
    OBVIOUS
  <2>2. lock[r] # NoOne /\ pc[lock[r]] \in {"publish", "admit"} /\ lock[r] \in Providers
    BY <1>0, <1>1, <2>1 DEF FileOwned, TypeOK
  <2> QED BY <1>0, <2>2, ExitLeavesOthers
<1>6. Heard'
  <2> SUFFICES ASSUME NEW r \in Requests, phase[r] # "none" PROVE HeardOfFile(r)'
    BY DEF Heard
  <2>1. file'[r] = file[r]
    BY <1>0 DEF TypeOK
  <2> QED BY <1>0, <2>1 DEF Heard, HeardOfFile, Recorded
<1>7. \A r \in Requests : runs'[r] <= 1
  BY DEF IInv
<1> QED BY <1>2, <1>3, <1>4, <1>5, <1>6, <1>7 DEF IInv

-----------------------------------------------------------------------------
(* The native turn                                                         *)

LEMMA SpawnInvariant ==
  ASSUME IInv, NEW p \in Providers, Spawn(p)
  PROVE  IInv'
<1> USE LaunchAssumption DEF Spawn, Goto, adapterVars, historyVars, otherVars
<1>0. /\ TypeOK /\ req[p] \in Requests /\ given[p] \in Sessions /\ phase[req[p]] = "none"
      /\ \A q \in Providers \ {p} : pc[q] \notin {"idle", "lock"} => req[q] # req[p]
  BY OneServer DEF IInv, TypeOK, Admission, Admitted, Preparing
<1>1. TypeOK'
  BY <1>0 DEF TypeOK, Stages, Native
<1>2. SessionHeld'
  BY <1>0 DEF IInv, TypeOK, SessionHeld, SessionKey, Ran, Native
<1>3. Admission'
  BY <1>0 DEF IInv, TypeOK, Admission, Admitted, Untouched, Ran, Native, Preparing
<1>4. FileOwned'
  BY <1>0 DEF IInv, TypeOK, FileOwned
<1>5. FileAgrees'
  BY <1>0 DEF IInv, TypeOK, FileAgrees, KnowsFile, Ran, Native, Preparing
<1>6. Heard'
  <2> SUFFICES ASSUME NEW r \in Requests, phase'[r] # "none" PROVE HeardOfFile(r)'
    BY DEF Heard
  <2>1. CASE r = req[p]
    <3>1. used[r] = {} /\ told[r] = {} /\ phase'[r] = "running" /\ inputs'[r] = given[p]
      BY <1>0, <2>1 DEF IInv, TypeOK, Admission, Untouched
    <3>2. given[p] # NoThread => file[r] = given[p]
      BY <1>0, <2>1 DEF IInv, FileAgrees, KnowsFile, Preparing
    <3> QED BY <3>1, <3>2 DEF HeardOfFile, Recorded
  <2>2. CASE r # req[p]
    <3>1. phase'[r] = phase[r] /\ inputs'[r] = inputs[r] /\ file'[r] = file[r]
      BY <1>0, <2>2 DEF TypeOK
    <3> QED BY <3>1 DEF IInv, Heard, HeardOfFile, Recorded
  <2> QED BY <2>1, <2>2
<1>7. \A r \in Requests : runs'[r] <= 1
  BY DEF IInv
<1> QED BY <1>1, <1>2, <1>3, <1>4, <1>5, <1>6, <1>7 DEF IInv

LEMMA OpenGateInvariant ==
  ASSUME IInv, NEW p \in Providers, OpenGate(p)
  PROVE  IInv'
<1> USE LaunchAssumption DEF OpenGate, Goto, adapterVars, recordVars, historyVars, otherVars
<1>0. /\ TypeOK /\ req[p] \in Requests /\ phase[req[p]] = "running" /\ runs[req[p]] = 0
      /\ \A q \in Providers \ {p} : pc[q] \notin {"idle", "lock"} => req[q] # req[p]
  BY OneServer DEF IInv, TypeOK, Admission, Admitted, Ran, Native
<1>1. TypeOK'
  BY <1>0 DEF TypeOK, Stages, Native
<1>2. SessionHeld' /\ FileOwned'
  BY <1>0 DEF IInv, TypeOK, SessionHeld, SessionKey, FileOwned, Ran, Native
<1>3. Admission'
  BY <1>0 DEF IInv, TypeOK, Admission, Admitted, Untouched, Ran, Native, Preparing
<1>4. FileAgrees'
  BY <1>0 DEF IInv, TypeOK, FileAgrees, KnowsFile, Ran, Native, Preparing
<1>5. Heard'
  BY <1>0 DEF IInv, Heard, HeardOfFile, Recorded
<1>6. \A r \in Requests : runs'[r] <= 1
  BY <1>0 DEF IInv, TypeOK
<1> QED BY <1>1, <1>2, <1>3, <1>4, <1>5, <1>6 DEF IInv

\* A turn that could not be started, and one that ended, have a result that
\* names the thread as far as it is known.
LEMMA EndInvariant ==
  ASSUME IInv, NEW p \in Providers,
         StartFailed(p) \/ \E exit \in Ends, stopped \in BOOLEAN : NativeEnds(p, exit, stopped)
  PROVE  IInv'
<1> USE LaunchAssumption
<1>0. /\ TypeOK /\ req[p] \in Requests /\ known[p] \in Sessions /\ phase[req[p]] = "running"
      /\ pc[p] \in Native /\ pc[p] # "announce"
  BY DEF IInv, TypeOK, Admission, Admitted, Ran, Native, StartFailed, NativeEnds, Goto
<1>1. \E v \in Verdicts : verdict' = [verdict EXCEPT ![p] = v] /\ v.thread = known[p]
  <2>1. CASE StartFailed(p)
    <3> DEFINE v == [status |-> "spawn_error", success |-> FALSE, thread |-> known[p],
                     signal |-> "spawn_error"]
    <3>1. v \in Verdicts
      BY <1>0 DEF Verdicts, Statuses
    <3>2. verdict' = [verdict EXCEPT ![p] = v]
      BY <2>1 DEF StartFailed
    <3> QED BY <3>1, <3>2
  <2>2. CASE \E exit \in Ends, stopped \in BOOLEAN : NativeEnds(p, exit, stopped)
    <3> PICK exit \in Ends, stopped \in BOOLEAN : NativeEnds(p, exit, stopped)
      BY <2>2
    <3> DEFINE code == Code(exit, flags[p])
               status == IF stopped THEN "cancelled" ELSE IF exit = "signal" THEN "signal" ELSE "exited"
               success == status = "exited" /\ code = "zero"
               v == [status |-> status, success |-> success, thread |-> known[p],
                     signal |-> Signal(status, code, flags[p].failure)]
    <3>1. flags[p].failure \in Failures \cup {"none"}
      BY <1>0 DEF TypeOK, Flags
    <3>2. Signal(status, code, flags[p].failure)
            \in Failures \cup {"clean_exit", "nonzero_exit", "signal_exit", "spawn_error", "cancelled"}
      BY <3>1 DEF Signal
    <3>3. v \in Verdicts
      BY <1>0, <3>2 DEF Verdicts, Statuses
    <3>4. verdict' = [verdict EXCEPT ![p] = v]
      BY DEF NativeEnds
    <3> QED BY <3>3, <3>4
  <2> QED BY <2>1, <2>2
<1>2. /\ UNCHANGED <<req, given, known, flags, lock, sessionLock, file, recordVars, transcripts,
                     runs, did, used, told, otherVars>>
      /\ pc' = [pc EXCEPT ![p] = "commit"] /\ group' = [group EXCEPT ![req[p]] = "gone"]
  BY DEF StartFailed, NativeEnds, Goto, historyVars
<1>3. /\ ended' \in [Requests -> {"no", "zero", "nonzero", "signal", "stopped"}]
      /\ claimed' \subseteq Requests
  <2>1. CASE StartFailed(p)
    BY <1>0, <2>1 DEF TypeOK, StartFailed, historyVars
  <2>2. ASSUME NEW exit \in Ends, NEW stopped \in BOOLEAN, NativeEnds(p, exit, stopped)
        PROVE  /\ \E end \in {"zero", "nonzero", "signal", "stopped"} :
                    ended' = [ended EXCEPT ![req[p]] = end]
               /\ claimed' \in {claimed, claimed \cup {req[p]}}
    BY <2>2 DEF NativeEnds
  <2>3. CASE \E exit \in Ends, stopped \in BOOLEAN : NativeEnds(p, exit, stopped)
    <3> PICK end \in {"zero", "nonzero", "signal", "stopped"} :
               ended' = [ended EXCEPT ![req[p]] = end]
      BY <2>2, <2>3
    <3>1. claimed' \in {claimed, claimed \cup {req[p]}}
      BY <2>2, <2>3
    <3> QED BY <1>0, <3>1 DEF TypeOK
  <2> QED BY <2>1, <2>3
<1> USE DEF recordVars, otherVars
<1>4. TypeOK'
  <2>1. verdict' \in [Providers -> Verdicts \cup {NoVerdict}]
    BY <1>0, <1>1 DEF TypeOK
  <2>2. /\ pc' \in [Providers -> Stages]
        /\ group' \in [Requests -> {"none", "gated", "running", "gone"}]
    BY <1>0, <1>2 DEF TypeOK, Stages
  <2>3. ASSUME NEW r \in Requests, NEW q \in Providers
        PROVE  lock'[r] = q <=> req'[q] = r /\ pc'[q] \notin {"idle", "lock"}
    BY <1>0, <1>2 DEF TypeOK, Native
  <2> QED BY <1>0, <1>2, <1>3, <2>1, <2>2, <2>3 DEF TypeOK
<1>5. SessionHeld' /\ FileOwned'
  BY <1>0, <1>2 DEF IInv, TypeOK, SessionHeld, SessionKey, FileOwned, Ran, Native
<1>6. Admission'
  BY <1>0, <1>2 DEF IInv, TypeOK, Admission, Admitted, Untouched, Ran, Native, Preparing
<1>7. FileAgrees'
  <2> PICK v \in Verdicts : verdict' = [verdict EXCEPT ![p] = v] /\ v.thread = known[p]
    BY <1>1
  <2>1. v # NoVerdict
    BY DEF Verdicts, NoVerdict, Statuses
  <2> QED BY <1>0, <1>2, <2>1 DEF IInv, TypeOK, FileAgrees, KnowsFile, Ran, Native, Preparing
<1>8. Heard' /\ \A r \in Requests : runs'[r] <= 1
  BY <1>2 DEF IInv, Heard, HeardOfFile, Recorded
<1> QED BY <1>4, <1>5, <1>6, <1>7, <1>8 DEF IInv

\* The identity is in the file before anybody else can hear of another.
LEMMA ThreadStartedInvariant ==
  ASSUME IInv, NEW p \in Providers, NEW id \in Threads, ThreadStarted(p, id)
  PROVE  IInv'
<1> USE LaunchAssumption DEF ThreadStarted, Names, recordVars, historyVars, otherVars
<1>0. /\ TypeOK /\ req[p] \in Requests /\ phase[req[p]] = "running" /\ inputs[req[p]] = given[p]
      /\ \A q \in Providers \ {p} : pc[q] \notin {"idle", "lock"} => req[q] # req[p]
  BY OneServer DEF IInv, TypeOK, Admission, Admitted, Ran, Native
<1>1. /\ file[req[p]] = IF known[p] = NoThread THEN "empty" ELSE known[p]
      /\ given[p] # NoThread => known[p] = given[p]
  BY <1>0 DEF IInv, FileAgrees, KnowsFile, Ran, Native
<1>2. TypeOK'
  BY <1>0 DEF TypeOK, Stages, Native, Sessions
<1>3. SessionHeld' /\ FileOwned'
  BY <1>0 DEF IInv, TypeOK, SessionHeld, SessionKey, FileOwned, Ran, Native
<1>4. Admission'
  BY <1>0 DEF IInv, TypeOK, Admission, Admitted, Untouched, Ran, Native, Preparing
<1>5. FileAgrees'
  <2> SUFFICES ASSUME NEW q \in Providers PROVE KnowsFile(q)'
    BY DEF FileAgrees
  <2>1. CASE q = p
    BY <1>0, <1>1, <2>1 DEF TypeOK, KnowsFile, Ran, Native, Preparing
  <2>2. CASE q # p
    <3>1. pc[q] \notin {"idle", "lock", "custody"} => req[q] # req[p] /\ req[q] \in Requests
      BY <1>0, <2>2 DEF IInv, Admission, Admitted
    <3> QED BY <1>0, <2>2, <3>1 DEF IInv, TypeOK, FileAgrees, KnowsFile, Ran, Native, Preparing
  <2> QED BY <2>1, <2>2
<1>6. Heard'
  <2> SUFFICES ASSUME NEW r \in Requests, phase[r] # "none" PROVE HeardOfFile(r)'
    BY DEF Heard
  <2>1. CASE r = req[p]
    <3>1. used[r] \cup told[r] \subseteq {file[r]} \cap Threads
      BY <1>0, <2>1 DEF IInv, TypeOK, Heard, HeardOfFile
    <3>2. used[r] \cup told[r] \subseteq {id}
      BY <1>1, <2>1, <3>1
    <3>3. inputs[r] # NoThread => id = inputs[r]
      BY <1>0, <1>1, <2>1
    <3> QED BY <1>0, <2>1, <3>2, <3>3 DEF TypeOK, HeardOfFile, Recorded
  <2>2. CASE r # req[p]
    <3>1. phase'[r] = phase[r] /\ inputs'[r] = inputs[r] /\ file'[r] = file[r]
      BY <1>0, <2>2 DEF TypeOK
    <3> QED BY <3>1 DEF IInv, Heard, HeardOfFile, Recorded
  <2> QED BY <2>1, <2>2
<1>7. \A r \in Requests : runs'[r] <= 1
  BY DEF IInv
<1> QED BY <1>2, <1>3, <1>4, <1>5, <1>6, <1>7 DEF IInv

LEMMA AnnounceInvariant ==
  ASSUME IInv, NEW p \in Providers, Announce(p)
  PROVE  IInv'
<1> USE LaunchAssumption DEF Announce, Goto, adapterVars, recordVars, nativeVars, otherVars
<1>0. /\ TypeOK /\ req[p] \in Requests /\ phase[req[p]] = "running"
      /\ known[p] \in Threads /\ file[req[p]] = known[p]
  BY DEF IInv, TypeOK, Admission, Admitted, FileAgrees, KnowsFile, Ran, Native, Sessions
<1>1. TypeOK'
  <2>1. told' \in [Requests -> SUBSET Threads]
    BY <1>0 DEF TypeOK
  <2> QED BY <1>0, <2>1 DEF TypeOK, Stages, Native
<1>2. SessionHeld' /\ FileOwned'
  BY <1>0 DEF IInv, TypeOK, SessionHeld, SessionKey, FileOwned, Ran, Native
<1>3. Admission'
  BY <1>0 DEF IInv, TypeOK, Admission, Admitted, Untouched, Ran, Native, Preparing
<1>4. FileAgrees'
  BY <1>0 DEF IInv, TypeOK, FileAgrees, KnowsFile, Ran, Native, Preparing
<1>5. Heard'
  <2> SUFFICES ASSUME NEW r \in Requests, phase[r] # "none" PROVE HeardOfFile(r)'
    BY DEF Heard
  <2>1. told'[r] \subseteq told[r] \cup {file[r]}
    BY <1>0 DEF TypeOK
  <2> QED BY <2>1 DEF IInv, Heard, HeardOfFile, Recorded
<1>6. \A r \in Requests : runs'[r] <= 1
  BY DEF IInv
<1> QED BY <1>1, <1>2, <1>3, <1>4, <1>5, <1>6 DEF IInv

LEMMA ReportsInvariant ==
  ASSUME IInv, NEW p \in Providers, NEW event \in Events, Reports(p, event)
  PROVE  IInv'
<1> USE LaunchAssumption DEF Reports, recordVars, historyVars, otherVars
<1>0. TypeOK /\ req[p] \in Requests
  BY DEF IInv, TypeOK, Admission, Admitted
<1>1. event.type \in Types /\ event.failure \in Failures \cup {"none", "other"}
  BY DEF Events
<1>2. flags' \in [Providers -> Flags]
  <2>1. Translate(flags[p], event) \in Flags
    <3>1. flags[p].failure \in Failures \cup {"none"} /\ flags[p] \in Flags
      BY <1>0 DEF TypeOK, Flags
    <3> QED BY <1>1, <3>1 DEF Translate, Flags
  <2> QED BY <1>0, <2>1 DEF TypeOK
<1>3. did' \in [Requests -> [types : SUBSET Types, failure : Failures \cup {"none", "other"}]]
  BY <1>0, <1>1 DEF TypeOK
<1>4. TypeOK'
  BY <1>0, <1>2, <1>3 DEF TypeOK
<1>5. SessionHeld' /\ FileOwned' /\ Admission'
  BY DEF IInv, SessionHeld, SessionKey, FileOwned, Admission, Admitted, Untouched
<1>6. FileAgrees' /\ Heard' /\ \A r \in Requests : runs'[r] <= 1
  BY DEF IInv, FileAgrees, KnowsFile, Heard, HeardOfFile, Recorded
<1> QED BY <1>4, <1>5, <1>6 DEF IInv

-----------------------------------------------------------------------------
(* Ends of the turn, deaths, and what Codex does on its own                *)

\* Exits that leave the session file alone; what they do to the record and the
\* group of the request leaves every untouched request untouched.
LEMMA LeaveInvariant ==
  ASSUME IInv, NEW p \in Providers, Exit(p), pc[p] \notin {"idle", "lock"}, TypeOK',
         file' = file, inputs' = inputs, runs' = runs, used' = used, told' = told,
         req[p] \in spoiled' \/ phase'[req[p]] # "none", spoiled \subseteq spoiled', root' = root,
         \A r \in Requests :
           /\ group'[r] = group[r] \/ group[r] # "none"
           /\ phase'[r] = "none" <=> phase[r] = "none",
         \A r \in Requests \ {req[p]} : phase'[r] = phase[r] /\ receipt'[r] = receipt[r],
         \A r \in Requests : r = req[p] /\ phase[r] # "none" => HeardOfFile(r)'
  PROVE  IInv'
<1> USE LaunchAssumption
<1>0. TypeOK /\ Admission /\ FileOwned /\ Heard /\ req[p] \in Requests
  BY DEF IInv, Admission, Admitted
<1>1. SessionHeld' /\ FileAgrees' /\ \A q \in Providers : Admitted(q)'
  BY <1>0, ExitKeepsServers DEF TypeOK
<1>2. Admission'
  BY <1>0, <1>1 DEF Admission, Untouched
<1>3. FileOwned'
  <2> SUFFICES ASSUME NEW r \in Requests \ spoiled', phase'[r] = "none", file[r] # "absent"
               PROVE  lock'[r] # NoOne /\ pc'[lock'[r]] \in {"publish", "admit"}
    BY DEF FileOwned
  <2>1. lock[r] # NoOne /\ pc[lock[r]] \in {"publish", "admit"} /\ lock[r] \in Providers
    BY <1>0 DEF FileOwned, TypeOK
  <2>2. lock[r] # p
    BY <1>0, <2>1 DEF TypeOK
  <2> QED BY <1>0, <2>1, <2>2, ExitLeavesOthers
<1>4. Heard'
  <2> SUFFICES ASSUME NEW r \in Requests, phase[r] # "none" PROVE HeardOfFile(r)'
    BY DEF Heard
  <2>1. CASE r # req[p]
    BY <1>0, <2>1 DEF Heard, HeardOfFile, Recorded
  <2> QED BY <2>1
<1>5. \A r \in Requests : runs'[r] <= 1
  BY DEF IInv
<1> QED BY <1>1, <1>2, <1>3, <1>4, <1>5 DEF IInv

LEMMA IdentityChangedInvariant ==
  ASSUME IInv, NEW p \in Providers, NEW id \in Threads, IdentityChanged(p, id)
  PROVE  IInv'
<1> USE LaunchAssumption DEF IdentityChanged, Names, recordVars, historyVars, otherVars
<1>0. TypeOK /\ Heard /\ req[p] \in Requests /\ phase[req[p]] = "running"
  BY DEF IInv, Admission, Admitted, Ran, Native
<1>1. TypeOK'
  <2>1. /\ group' \in [Requests -> {"none", "gated", "running", "gone"}]
        /\ transcripts' \subseteq Threads
    BY <1>0 DEF TypeOK
  <2> QED BY <1>0, <2>1, ExitTypes DEF TypeOK
<1>2. \A r \in Requests : group'[r] = group[r] \/ group[r] # "none"
  BY <1>0 DEF TypeOK
<1>3. \A r \in Requests : r = req[p] => HeardOfFile(r)'
  BY <1>0 DEF Heard, HeardOfFile, Recorded
<1> QED BY <1>0, <1>1, <1>2, <1>3, LeaveInvariant

LEMMA CompleteInvariant ==
  ASSUME IInv, NEW p \in Providers, Complete(p)
  PROVE  IInv'
<1> USE LaunchAssumption DEF Complete, nativeVars, historyVars, otherVars
<1>0. TypeOK /\ Heard /\ req[p] \in Requests /\ phase[req[p]] = "running"
  BY DEF IInv, Admission, Admitted, Ran, Native
<1>1. /\ verdict[p] \in Verdicts /\ verdict[p].thread = known[p]
      /\ file[req[p]] = IF known[p] = NoThread THEN "empty" ELSE known[p]
  BY <1>0 DEF IInv, TypeOK, FileAgrees, KnowsFile, Ran
<1>2. TypeOK'
  <2>1. /\ phase' \in [Requests -> {"none", "running", "complete"}]
        /\ receipt' \in [Requests -> Verdicts \cup {NoVerdict}]
    BY <1>0, <1>1 DEF TypeOK
  <2> QED BY <1>0, <2>1, ExitTypes DEF TypeOK
<1>3. /\ phase'[req[p]] = "complete" /\ receipt'[req[p]] = verdict[p]
      /\ \A r \in Requests \ {req[p]} : phase'[r] = phase[r] /\ receipt'[r] = receipt[r]
  BY <1>0 DEF TypeOK
<1>4. \A r \in Requests : r = req[p] => HeardOfFile(r)'
  BY <1>0, <1>1, <1>3 DEF Heard, HeardOfFile, Recorded
<1> QED BY <1>0, <1>2, <1>3, <1>4, LeaveInvariant

LEMMA DieInvariant ==
  ASSUME IInv, NEW p \in Providers, Die(p)
  PROVE  IInv'
<1> USE LaunchAssumption DEF Die, recordVars, historyVars
<1>0. TypeOK /\ Heard /\ req[p] \in Requests
  BY DEF IInv, Admission, Admitted
<1>1. /\ group' \in [Requests -> {"none", "gated", "running", "gone"}]
      /\ \A r \in Requests : group'[r] = group[r] \/ group[r] # "none"
  BY <1>0 DEF TypeOK
<1>2. TypeOK'
  BY <1>0, <1>1, ExitTypes DEF TypeOK
<1>3. \A r \in Requests : r = req[p] /\ phase[r] # "none" => HeardOfFile(r)'
  BY <1>0 DEF Heard, HeardOfFile, Recorded
<1> QED BY <1>0, <1>1, <1>2, <1>3, LeaveInvariant

\* The bridge reads what was published, whenever it looks.
LEMMA BridgeBindsInvariant ==
  ASSUME IInv, NEW s \in Requests, BridgeBinds(s)
  PROVE  IInv'
<1> USE LaunchAssumption DEF BridgeBinds, adapterVars, recordVars, nativeVars, otherVars
<1> DEFINE session == IF inputs[s] = NoThread THEN file[s] ELSE inputs[s]
<1>0. TypeOK /\ Heard /\ phase[s] # "none" /\ session \in Threads
  BY DEF IInv, Admission, Untouched
<1>1. session = file[s]
  BY <1>0 DEF Heard, HeardOfFile
<1>2. TypeOK'
  <2>1. used' \in [Requests -> SUBSET Threads]
    BY <1>0 DEF TypeOK
  <2> QED BY <1>0, <2>1 DEF TypeOK
<1>3. SessionHeld' /\ FileOwned' /\ FileAgrees'
  BY DEF IInv, SessionHeld, SessionKey, FileOwned, FileAgrees, KnowsFile
<1>4. Admission'
  BY <1>0 DEF IInv, TypeOK, Admission, Admitted, Untouched
<1>5. Heard'
  <2> SUFFICES ASSUME NEW r \in Requests, phase[r] # "none" PROVE HeardOfFile(r)'
    BY DEF Heard
  <2>1. used'[r] \subseteq used[r] \cup {file[r]}
    BY <1>0, <1>1 DEF TypeOK
  <2> QED BY <1>0, <2>1 DEF Heard, HeardOfFile, Recorded
<1>6. \A r \in Requests : runs'[r] <= 1
  BY DEF IInv
<1> QED BY <1>2, <1>3, <1>4, <1>5, <1>6 DEF IInv

LEMMA OrphanEndsInvariant ==
  ASSUME IInv, NEW s \in Requests, OrphanEnds(s)
  PROVE  IInv'
<1> USE LaunchAssumption DEF OrphanEnds, adapterVars, recordVars, historyVars, otherVars
<1>1. TypeOK'
  BY DEF IInv, TypeOK
<1>2. SessionHeld' /\ FileOwned' /\ FileAgrees'
  BY DEF IInv, SessionHeld, SessionKey, FileOwned, FileAgrees, KnowsFile
<1>3. Admission'
  BY DEF IInv, TypeOK, Admission, Admitted, Untouched
<1>4. Heard' /\ \A r \in Requests : runs'[r] <= 1
  BY DEF IInv, Heard, HeardOfFile, Recorded
<1> QED BY <1>1, <1>2, <1>3, <1>4 DEF IInv

-----------------------------------------------------------------------------
LEMMA ServeInvariant ==
  ASSUME IInv, NEW p \in Providers, Serve(p)
  PROVE  IInv'
<1>1. CASE LockRequest(p) \/ Begin(p) \/ Locate(p) \/ LockSession(p)
  BY <1>1, LockingInvariant
<1>2. CASE LaunchBusy(p) \/ AnswerFromRecord(p) \/ SessionNotFound(p) \/ SessionBusy(p)
           \/ SessionFileExists(p) \/ PrepareFails(p)
  <2>1. Refuse(p) /\ pc[p] \in {"lock", "custody"} \cup Preparing
    BY <1>2 DEF LaunchBusy, AnswerFromRecord, SessionNotFound, SessionBusy, SessionFileExists,
                PrepareFails, Preparing
  <2> QED BY <2>1, RefuseInvariant
<1>3. CASE Reconcile(p) \/ TurnUnaccountable(p)
  <2>1. Abort(p) /\ pc[p] \in {"custody"} \cup Ran /\ phase[req[p]] = "running"
    BY <1>3 DEF IInv, Admission, Admitted, Reconcile, TurnUnaccountable, Ran
  <2> QED BY <2>1, AbortInvariant
<1>4. CASE CreateSessionFile(p) \/ PublishKnown(p)
  BY <1>4, SessionFileInvariant
<1>5. CASE SessionFileUnsynced(p)
  BY <1>5, UnsyncedInvariant
<1>6. CASE Spawn(p) \/ OpenGate(p) \/ Announce(p)
  BY <1>6, SpawnInvariant, OpenGateInvariant, AnnounceInvariant
<1>7. CASE StartFailed(p) \/ \E exit \in Ends, stopped \in BOOLEAN : NativeEnds(p, exit, stopped)
  BY <1>7, EndInvariant
<1>8. CASE \E id \in Threads : ThreadStarted(p, id) \/ IdentityChanged(p, id)
  BY <1>8, ThreadStartedInvariant, IdentityChangedInvariant
<1>9. CASE \E event \in Events : Reports(p, event)
  BY <1>9, ReportsInvariant
<1>10. CASE Complete(p)
  BY <1>10, CompleteInvariant
<1> QED BY <1>1, <1>2, <1>3, <1>4, <1>5, <1>6, <1>7, <1>8, <1>9, <1>10 DEF Serve

LEMMA NextInvariant == IInv /\ [Next]_vars => IInv'
<1> SUFFICES ASSUME IInv, [Next]_vars PROVE IInv'
  OBVIOUS
<1>1. CASE \E p \in Providers :
             Serve(p) \/ Die(p) \/ \E r \in Requests, s \in Sessions : Submit(p, r, s)
  BY <1>1, ServeInvariant, DieInvariant, SubmitInvariant
<1>2. CASE \E r \in Requests : BridgeBinds(r) \/ OrphanEnds(r)
  BY <1>2, BridgeBindsInvariant, OrphanEndsInvariant
<1>3. CASE UNCHANGED vars
  <2> USE <1>3 DEF vars, adapterVars, recordVars, nativeVars, historyVars, otherVars
  <2>1. TypeOK' /\ SessionHeld' /\ FileOwned'
    BY DEF IInv, TypeOK, SessionHeld, SessionKey, FileOwned
  <2>2. Admission' /\ FileAgrees'
    BY DEF IInv, Admission, Admitted, Untouched, FileAgrees, KnowsFile
  <2>3. Heard' /\ \A r \in Requests : runs'[r] <= 1
    BY DEF IInv, Heard, HeardOfFile, Recorded
  <2> QED BY <2>1, <2>2, <2>3 DEF IInv
<1> QED BY <1>1, <1>2, <1>3 DEF Next

\* The invariant that ties session file, record and adapter together holds of
\* every launch (launch.rs under the SDK's custody).
THEOREM Invariance == Spec => []IInv
<1>1. Init => IInv
  BY InitInvariant
<1>2. IInv /\ [Next]_vars => IInv'
  BY NextInvariant
<1> QED BY <1>1, <1>2, PTL DEF Spec

\* Every variable keeps its type, and a request past its lock has one server.
THEOREM TypeOKHolds == Spec => []TypeOK
<1>1. IInv => TypeOK
  BY DEF IInv
<1> QED BY <1>1, Invariance, PTL

\* However often a request is sent, to however many providers, and whoever is
\* killed when, its Codex is started at most once.
THEOREM RunsOnceHolds == Spec => []RunsOnce
<1>1. IInv => RunsOnce
  BY DEF IInv, RunsOnce, Admission, Untouched
<1> QED BY <1>1, Invariance, PTL

\* Turns that resume one thread under one state root never overlap, whichever
\* requests they are of; under different roots their locks are different files.
THEOREM ResumesSerializedHolds == Spec => []ResumesSerialized
<1>1. IInv => ResumesSerialized
  BY DEF IInv, ResumesSerialized, Overlap, InTurn, SessionHeld, SessionKey, Ran
<1> QED BY <1>1, Invariance, PTL

\* A refused request can be sent again: no session file is left in its way.
THEOREM RefusalIsCleanHolds == Spec => []RefusalIsClean
<1>1. IInv => RefusalIsClean
  BY DEF IInv, RefusalIsClean, FileOwned
<1> QED BY <1>1, Invariance, PTL

\* Bridge, host and receipt hear of one thread.
THEOREM OneIdentityHolds == Spec => []OneIdentity
<1>1. IInv => OneIdentity
  <2> SUFFICES ASSUME IInv, NEW r \in Requests
               PROVE  Cardinality(used[r] \cup told[r] \cup Recorded(r)) <= 1
    BY DEF OneIdentity
  <2> DEFINE heard == used[r] \cup told[r] \cup Recorded(r)
  <2>1. heard \subseteq {file[r]}
    BY DEF IInv, Admission, Untouched, Heard, HeardOfFile, Recorded
  <2>2. heard = {} \/ heard = {file[r]}
    BY <2>1
  <2>3. Cardinality({}) = 0 /\ Cardinality({file[r]}) = 1
    BY FS_EmptySet, FS_Singleton
  <2> QED BY <2>2, <2>3
<1> QED BY <1>1, Invariance, PTL
-----------------------------------------------------------------------------
(* What is claimed of a turn                                               *)

\* Steps that leave reports, verdicts and phases alone: a process moves on
\* before native admission, or within its turn.
LEMMA QuietAccount ==
  ASSUME IInv, Account, UNCHANGED <<flags, verdict, phase, receipt, did, ended, claimed>>,
         \A q \in Providers :
           \/ pc'[q] = pc[q] /\ (req'[q] = req[q] \/ pc[q] = "idle")
           \/ pc[q] \notin Ran /\ pc'[q] \notin Ran
           \/ pc[q] \in Native /\ pc'[q] \in Native /\ req'[q] = req[q]
  PROVE  Account'
<1>1. ASSUME NEW q \in Providers PROVE Keeps(q)'
  <2>1. CASE pc'[q] = pc[q] /\ req'[q] = req[q]
    BY <2>1 DEF Account, Keeps, Follows, Warranted, Earned
  <2>2. CASE pc'[q] \notin Ran /\ pc[q] \notin Ran
    BY <2>2 DEF Account, Keeps, Ran
  <2>3. CASE pc[q] \in Native /\ pc'[q] \in Native /\ req'[q] = req[q]
    BY <2>3 DEF Account, Keeps, Follows, Ran, Native
  <2> QED BY <2>1, <2>2, <2>3 DEF Ran, Native
<1>2. ASSUME NEW r \in Requests PROVE Accounted(r)'
  BY DEF Account, Accounted, Warranted, Earned
<1> QED BY <1>1, <1>2 DEF Account

\* A process leaves; a receipt, if it leaves one, is its verdict.
LEMMA ExitAccount ==
  ASSUME IInv, Account, NEW p \in Providers, Exit(p), UNCHANGED <<did, ended, claimed>>,
         \A r \in Requests :
           \/ phase'[r] = phase[r] /\ receipt'[r] = receipt[r]
           \/ /\ pc[p] = "commit" /\ r = req[p] /\ receipt'[r] = verdict[p]
              /\ phase'[r] = "complete" /\ phase[r] = "running"
  PROVE  Account'
<1>0. /\ pc'[p] = "idle" /\ flags'[p] = NoFlags
      /\ \A q \in Providers \ {p} :
           pc'[q] = pc[q] /\ req'[q] = req[q] /\ flags'[q] = flags[q] /\ verdict'[q] = verdict[q]
  BY DEF Exit, IInv, TypeOK
<1>1. ASSUME NEW q \in Providers PROVE Keeps(q)'
  <2>1. CASE q = p
    BY <1>0, <2>1 DEF Keeps, Ran, Native
  <2>2. CASE q # p
    <3>1. Keeps(q)
      BY DEF Account
    <3> QED BY <1>0, <2>2, <3>1 DEF Keeps, Follows, Warranted, Earned
  <2> QED BY <2>1, <2>2
<1>2. ASSUME NEW r \in Requests PROVE Accounted(r)'
  <2>1. CASE phase'[r] = phase[r] /\ receipt'[r] = receipt[r]
    BY <2>1 DEF Account, Accounted, Warranted, Earned
  <2>2. CASE /\ pc[p] = "commit" /\ r = req[p] /\ receipt'[r] = verdict[p]
             /\ phase'[r] = "complete"
    BY <2>2 DEF Account, Accounted, Keeps, Warranted, Earned
  <2> QED BY <2>1, <2>2
<1> QED BY <1>1, <1>2 DEF Account

\* A turn begins with nothing reported.
LEMMA SpawnAccount ==
  ASSUME IInv, Account, NEW p \in Providers, Spawn(p)
  PROVE  Account'
<1> USE LaunchAssumption DEF Spawn, Goto, adapterVars, historyVars, otherVars
<1>0. /\ TypeOK /\ req[p] \in Requests /\ phase[req[p]] = "none" /\ pc'[p] = "gated"
      /\ \A q \in Providers \ {p} : pc'[q] = pc[q]
      /\ \A r \in Requests \ {req[p]} : phase'[r] = phase[r]
      /\ phase'[req[p]] = "running"
  BY DEF IInv, TypeOK, Admission, Admitted, Preparing
<1>1. flags[p] = NoFlags /\ did[req[p]] = NoDeeds /\ req[p] \notin claimed
  BY <1>0 DEF Account, Keeps, Accounted, Ran, Native
<1>2. Keeps(p)'
  BY <1>0, <1>1 DEF Keeps, Follows, NoFlags, NoDeeds, Ran, Native
<1>3. ASSUME NEW q \in Providers \ {p} PROVE Keeps(q)'
  <2>1. Keeps(q)
    BY DEF Account
  <2> QED BY <1>0, <2>1 DEF Keeps, Follows, Warranted, Earned
<1>4. ASSUME NEW r \in Requests PROVE Accounted(r)'
  BY <1>0, <1>1 DEF Account, Accounted, Warranted, Earned
<1> QED BY <1>2, <1>3, <1>4 DEF Account

\* The adapter and the history follow an event alike.
LEMMA TranslateFollows ==
  ASSUME NEW report \in Flags, NEW event \in Events, NEW types, NEW failure,
         Follows(report, [types |-> types, failure |-> failure])
  PROVE  Follows(Translate(report, event),
                 [types |-> types \cup {event.type},
                  failure |-> IF event.failure = "none" THEN failure ELSE event.failure])
<1>1. /\ event.failure \in Failures \cup {"none", "other"}
      /\ event.failure # "none" => event.type \in {"turn.failed", "error"}
  BY DEF Events
<1>2. /\ report.completed \in BOOLEAN /\ report.assistant \in BOOLEAN /\ report.failed \in BOOLEAN
  BY DEF Flags
<1> QED BY <1>1, <1>2, LaunchAssumption DEF Follows, Translate

LEMMA ReportsAccount ==
  ASSUME IInv, Account, NEW p \in Providers, NEW event \in Events, Reports(p, event)
  PROVE  Account'
<1> USE DEF recordVars, historyVars, otherVars
<1>0. /\ TypeOK /\ req[p] \in Requests /\ phase[req[p]] = "running" /\ pc[p] = "turn"
      /\ \A q \in Providers \ {p} : pc[q] \notin {"idle", "lock"} => req[q] # req[p]
      /\ UNCHANGED <<pc, req, verdict, phase, receipt, ended, claimed>>
  BY OneServer DEF IInv, Admission, Admitted, Ran, Native, Reports
<1>1. Follows(flags[p], did[req[p]]) /\ req[p] \notin claimed
  BY <1>0 DEF Account, Keeps, Native
<1>2. /\ flags'[p] = Translate(flags[p], event)
      /\ did'[req[p]] = [types |-> did[req[p]].types \cup {event.type},
                         failure |-> IF event.failure = "none" THEN did[req[p]].failure
                                                               ELSE event.failure]
      /\ \A q \in Providers \ {p} : flags'[q] = flags[q]
      /\ \A r \in Requests \ {req[p]} : did'[r] = did[r]
  BY <1>0 DEF TypeOK, Reports
<1>3. Follows(flags[p], [types |-> did[req[p]].types, failure |-> did[req[p]].failure])
  BY <1>1 DEF Follows
<1>4. flags[p] \in Flags
  BY <1>0 DEF TypeOK
<1>5. Follows(flags'[p], did'[req[p]])
  BY <1>2, <1>3, <1>4, TranslateFollows
<1>6. Keeps(p)'
  BY <1>0, <1>1, <1>5 DEF Keeps, Follows, Ran, Native
<1>7. ASSUME NEW q \in Providers \ {p} PROVE Keeps(q)'
  <2>1. Keeps(q) /\ (pc[q] \in Ran => req[q] \in Requests)
    BY DEF Account, IInv, Admission, Admitted, Ran, Native
  <2>2. pc[q] \in Ran => did'[req[q]] = did[req[q]]
    BY <1>0, <1>2, <2>1 DEF Ran, Native
  <2> QED BY <1>0, <1>2, <2>1, <2>2 DEF Keeps, Follows, Warranted, Earned, Ran
<1>8. ASSUME NEW r \in Requests PROVE Accounted(r)'
  <2>1. CASE r = req[p]
    BY <1>0, <1>1, <2>1 DEF Accounted
  <2>2. CASE r # req[p]
    BY <1>0, <1>2, <2>2 DEF Account, Accounted, Warranted, Earned
  <2> QED BY <2>1, <2>2
<1> QED BY <1>6, <1>7, <1>8 DEF Account

\* The end of a turn: everything is as it was but for the request's own end,
\* the verdict, and what is claimed of the request.
LEMMA EndAccount ==
  ASSUME IInv, Account, NEW p \in Providers, NEW result, pc[p] \in Native,
         UNCHANGED <<req, flags, phase, receipt, did>>,
         pc' = [pc EXCEPT ![p] = "commit"], verdict' = [verdict EXCEPT ![p] = result],
         \A r \in Requests \ {req[p]} : ended'[r] = ended[r] /\ (r \in claimed' <=> r \in claimed),
         result.success => Earned(req[p])',
         result.signal \in Failures =>
           result.signal = did[req[p]].failure /\ ended'[req[p]] \in {"zero", "nonzero"}
           /\ ~result.success,
         req[p] \in claimed' => Earned(req[p])' /\ "agent_message" \in did[req[p]].types
  PROVE  Account'
<1>0. /\ TypeOK /\ req[p] \in Requests /\ phase[req[p]] = "running"
      /\ \A q \in Providers \ {p} : pc[q] \notin {"idle", "lock"} => req[q] # req[p]
  BY OneServer DEF IInv, Admission, Admitted, Ran, Native
<1>1. pc'[p] = "commit" /\ verdict'[p] = result
  BY <1>0 DEF TypeOK
<1>2. Keeps(p)'
  BY <1>1 DEF Keeps, Warranted, Earned, Ran, Native
<1>3. ASSUME NEW q \in Providers \ {p} PROVE Keeps(q)'
  <2>1. Keeps(q) /\ (pc[q] \in Ran => req[q] \in Requests \ {req[p]})
    BY <1>0 DEF Account, IInv, Admission, Admitted, Ran, Native
  <2>2. pc'[q] = pc[q] /\ verdict'[q] = verdict[q]
    BY <1>0 DEF TypeOK
  <2> QED BY <2>1, <2>2 DEF Keeps, Follows, Warranted, Earned, Ran
<1>4. ASSUME NEW r \in Requests PROVE Accounted(r)'
  <2>1. CASE r = req[p]
    BY <1>0, <2>1 DEF Accounted
  <2>2. CASE r # req[p]
    BY <2>2 DEF Account, Accounted, Warranted, Earned
  <2> QED BY <2>1, <2>2
<1> QED BY <1>2, <1>3, <1>4 DEF Account

LEMMA StartFailedAccount ==
  ASSUME IInv, Account, NEW p \in Providers, StartFailed(p)
  PROVE  Account'
<1> USE LaunchAssumption DEF StartFailed, Goto, recordVars, historyVars, otherVars
<1> DEFINE result == [status |-> "spawn_error", success |-> FALSE, thread |-> known[p],
                      signal |-> "spawn_error"]
<1>1. result.success = FALSE /\ result.signal \notin Failures
  OBVIOUS
<1>2. pc[p] \in Native /\ req[p] \notin claimed
  BY DEF Native, Account, Keeps
<1> HIDE DEF result
<1> QED BY <1>1, <1>2, EndAccount

\* A turn that ended: success needs its completion, a charge its last error.
LEMMA NativeEndsAccount ==
  ASSUME IInv, Account, NEW p \in Providers, NEW exit \in Ends, NEW stopped \in BOOLEAN,
         NativeEnds(p, exit, stopped)
  PROVE  Account'
<1> USE LaunchAssumption DEF recordVars, otherVars
<1> DEFINE code == Code(exit, flags[p])
           status == IF stopped THEN "cancelled" ELSE IF exit = "signal" THEN "signal" ELSE "exited"
           success == status = "exited" /\ code = "zero"
           result == [status |-> status, success |-> success, thread |-> known[p],
                      signal |-> Signal(status, code, flags[p].failure)]
<1>0. TypeOK /\ req[p] \in Requests /\ pc[p] = "turn"
  BY DEF IInv, Admission, Admitted, NativeEnds, Goto
<1>1. Follows(flags[p], did[req[p]]) /\ req[p] \notin claimed /\ flags[p] \in Flags
  BY <1>0 DEF Account, Keeps, Native, TypeOK
<1>2. /\ ended' = [ended EXCEPT ![req[p]] = IF stopped THEN "stopped" ELSE exit]
      /\ verdict' = [verdict EXCEPT ![p] = result]
      /\ pc' = [pc EXCEPT ![p] = "commit"]
      /\ UNCHANGED <<req, flags, phase, receipt, did>>
      /\ claimed' = IF success /\ flags[p].completed /\ ~flags[p].failed /\ flags[p].assistant
                      THEN claimed \cup {req[p]} ELSE claimed
  BY DEF NativeEnds, Goto
<1>3. ended'[req[p]] = IF stopped THEN "stopped" ELSE exit
  BY <1>0, <1>2 DEF TypeOK
<1>4. success => Earned(req[p])'
  BY <1>1, <1>2, <1>3 DEF Code, Earned, Follows
<1>5. ASSUME result.signal \in Failures
      PROVE  result.signal = did[req[p]].failure /\ exit \in {"zero", "nonzero"} /\ ~stopped
             /\ ~success
  <2>1. status = "exited" /\ code # "zero" /\ result.signal = flags[p].failure
    BY <1>5 DEF Signal
  <2>2. ~stopped /\ exit # "signal" /\ ~success
    BY <2>1
  <2>3. exit \in {"zero", "nonzero"}
    BY <2>2
  <2>4. result.signal = did[req[p]].failure
    BY <1>1, <1>5, <2>1 DEF Follows
  <2> QED BY <2>2, <2>3, <2>4
<1>6. /\ result.success => Earned(req[p])'
      /\ result.signal \in Failures =>
           result.signal = did[req[p]].failure /\ ended'[req[p]] \in {"zero", "nonzero"}
           /\ ~result.success
  BY <1>3, <1>4, <1>5
<1>7. req[p] \in claimed' => Earned(req[p])' /\ "agent_message" \in did[req[p]].types
  BY <1>1, <1>2, <1>4 DEF Follows
<1>8. \A r \in Requests \ {req[p]} : ended'[r] = ended[r] /\ (r \in claimed' <=> r \in claimed)
  BY <1>0, <1>2 DEF TypeOK
<1>9. pc[p] \in Native
  BY <1>0 DEF Native
<1> HIDE DEF result
<1> QED BY <1>2, <1>6, <1>7, <1>8, <1>9, EndAccount

LEMMA ServeAccount ==
  ASSUME IInv, Account, NEW p \in Providers, Serve(p)
  PROVE  Account'
<1> USE DEF Goto, adapterVars, recordVars, nativeVars, historyVars, otherVars
<1>0. TypeOK
  BY DEF IInv
<1>1. CASE \/ LockRequest(p) \/ Begin(p) \/ Locate(p) \/ LockSession(p) \/ CreateSessionFile(p)
           \/ PublishKnown(p)
  <2>1. /\ UNCHANGED <<req, flags, verdict, phase, receipt, did, ended, claimed>>
        /\ pc[p] \notin Ran /\ pc'[p] \notin Ran
        /\ \A q \in Providers \ {p} : pc'[q] = pc[q]
    BY <1>0, <1>1 DEF TypeOK, LockRequest, Begin, Locate, LockSession, CreateSessionFile,
                      PublishKnown, Ran, Native
  <2> QED BY <2>1, QuietAccount
<1>2. CASE OpenGate(p) \/ Announce(p) \/ \E id \in Threads : ThreadStarted(p, id)
  <2>1. /\ UNCHANGED <<req, flags, verdict, phase, receipt, did, ended, claimed>>
        /\ pc[p] \in Native /\ pc'[p] \in Native
        /\ \A q \in Providers \ {p} : pc'[q] = pc[q]
    BY <1>0, <1>2 DEF TypeOK, OpenGate, Announce, ThreadStarted, Names, Native
  <2> QED BY <2>1, QuietAccount
<1>3. CASE \/ LaunchBusy(p) \/ AnswerFromRecord(p) \/ SessionNotFound(p) \/ SessionBusy(p)
           \/ SessionFileExists(p) \/ PrepareFails(p) \/ Reconcile(p) \/ TurnUnaccountable(p)
           \/ SessionFileUnsynced(p) \/ \E id \in Threads : IdentityChanged(p, id)
  <2>1. Exit(p) /\ UNCHANGED <<phase, receipt, did, ended, claimed>>
    BY <1>3 DEF LaunchBusy, AnswerFromRecord, SessionNotFound, SessionBusy, SessionFileExists,
                PrepareFails, Reconcile, TurnUnaccountable, SessionFileUnsynced, IdentityChanged,
                Refuse, Abort
  <2> QED BY <2>1, ExitAccount
<1>4. CASE Complete(p)
  <2>1. /\ Exit(p) /\ UNCHANGED <<did, ended, claimed>>
        /\ req[p] \in Requests /\ phase[req[p]] = "running" /\ pc[p] = "commit"
        /\ phase' = [phase EXCEPT ![req[p]] = "complete"]
        /\ receipt' = [receipt EXCEPT ![req[p]] = verdict[p]]
    BY <1>4 DEF IInv, Admission, Admitted, Complete, Ran
  <2>2. ASSUME NEW r \in Requests
        PROVE  \/ phase'[r] = phase[r] /\ receipt'[r] = receipt[r]
               \/ /\ pc[p] = "commit" /\ r = req[p] /\ receipt'[r] = verdict[p]
                  /\ phase'[r] = "complete" /\ phase[r] = "running"
    BY <1>0, <2>1 DEF TypeOK
  <2> QED BY <2>1, <2>2, ExitAccount
<1>5. CASE Spawn(p) \/ StartFailed(p)
  BY <1>5, SpawnAccount, StartFailedAccount
<1>6. CASE \E event \in Events : Reports(p, event)
  BY <1>6, ReportsAccount
<1>7. CASE \E exit \in Ends, stopped \in BOOLEAN : NativeEnds(p, exit, stopped)
  BY <1>7, NativeEndsAccount
<1> QED BY <1>1, <1>2, <1>3, <1>4, <1>5, <1>6, <1>7 DEF Serve

LEMMA NextAccount == IInv /\ Account /\ [Next]_vars => Account'
<1> SUFFICES ASSUME IInv, Account, [Next]_vars PROVE Account'
  OBVIOUS
<1> USE DEF Goto, adapterVars, recordVars, nativeVars, historyVars, otherVars
<1>0. TypeOK
  BY DEF IInv
<1>1. CASE \E p \in Providers : Serve(p)
  BY <1>1, ServeAccount
<1>2. CASE \E p \in Providers : Die(p)
  <2>1. PICK p \in Providers : Die(p)
    BY <1>2
  <2>2. Exit(p) /\ UNCHANGED <<phase, receipt, did, ended, claimed>>
    BY <2>1 DEF Die
  <2> QED BY <2>2, ExitAccount
<1>3. CASE \E p \in Providers, r \in Requests, s \in Sessions : Submit(p, r, s)
  <2>1. PICK p \in Providers, r \in Requests, s \in Sessions : Submit(p, r, s)
    BY <1>3
  <2>2. /\ UNCHANGED <<flags, verdict, phase, receipt, did, ended, claimed>>
        /\ pc[p] \notin Ran /\ pc'[p] \notin Ran
        /\ \A q \in Providers \ {p} : pc'[q] = pc[q] /\ req'[q] = req[q]
    BY <1>0, <2>1 DEF TypeOK, Submit, Ran, Native
  <2> QED BY <2>2, QuietAccount
<1>4. CASE (\E r \in Requests : BridgeBinds(r) \/ OrphanEnds(r)) \/ UNCHANGED vars
  <2>1. UNCHANGED <<pc, req, flags, verdict, phase, receipt, did, ended, claimed>>
    BY <1>4 DEF BridgeBinds, OrphanEnds, vars
  <2> QED BY <2>1, QuietAccount
<1> QED BY <1>1, <1>2, <1>3, <1>4 DEF Next

\* Nothing is claimed of a request's turn, and nothing recorded of it, that
\* what Codex reported and how it ended do not warrant.
THEOREM Accountability == Spec => []Account
<1>1. Init => Account
  BY DEF Init, Account, Keeps, Accounted, Ran, Native
<1>2. IInv /\ Account /\ [Next]_vars => Account'
  BY NextAccount
<1> QED BY <1>1, <1>2, Invariance, PTL DEF Spec

\* Success and an assistant response are claimed only of turns that Codex
\* completed and did not fail, and that ended unstopped with exit code 0.
THEOREM SuccessIsEarnedHolds == Spec => []SuccessIsEarned
<1>1. Account => SuccessIsEarned
  BY DEF Account, Accounted, Warranted, Earned, SuccessIsEarned
<1> QED BY <1>1, Accountability, PTL

\* A turn is charged with a limit only when that was its last error and it
\* ended badly by itself.
THEOREM SignalIsTheLastErrorHolds == Spec => []SignalIsTheLastError
<1>1. Account => SignalIsTheLastError
  BY DEF Account, Accounted, Warranted, SignalIsTheLastError
<1> QED BY <1>1, Accountability, PTL
=============================================================================
