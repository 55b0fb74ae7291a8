----------------------------- MODULE BashToolProofs -----------------------------
(***************************************************************************)
(* What holds of the Bash tool for any number of calls and threads.  The   *)
(* steps are taken in the groups that disturb the same parts of IInv: the  *)
(* bridge and its binding, calls on their way, dispatches, ends of calls,  *)
(* and the supervisor.                                                     *)
(***************************************************************************)
EXTENDS BashTool, TLAPS

LEMMA ArgumentFacts ==
  ASSUME NEW a \in Arguments
  PROVE  /\ a.kind \in {"run", "observe", "cancel", "sleep"}
         /\ a.thread \in Threads /\ a.thread # NoThread
         /\ a.kind \in {"observe", "cancel"} => a.handle \in Calls
         /\ a.kind = "run" => Delivery(a) \in Deliveries /\ Lease(a) \in BOOLEAN
BY ToolAssumption DEF Arguments, Deliveries, Delivery, Lease

LEMMA HandleFacts ==
  ASSUME IInv, NEW c \in Calls, pc[c] # "idle"
  PROVE  args[c] \in Arguments /\ Handle(c) \in Calls
<1>1. args[c] \in Arguments
  BY DEF IInv, Places
<1> QED BY <1>1, ArgumentFacts DEF Handle

LEMMA InitInvariant == Init => IInv
BY ToolAssumption
DEF Init, IInv, TypeOK, Places, Owned, AbortedWorkIsCancelled, OutputSurvives, ObservedBeforeSettled,
    DispatchIsBound, Arguments, NoArguments, Deliveries, Waits

-----------------------------------------------------------------------------
(* The bridge *)

LEMMA BridgeInvariant ==
  ASSUME IInv, Close \/ Exit \/ BindingSettles
  PROVE  IInv'
<1> USE DEF Close, Exit, BindingSettles, callVars, workVars
<1>1. TypeOK'
  BY DEF IInv, TypeOK, Running
<1>2. Places'
  BY DEF IInv, TypeOK, Places, Waits
<1>3. Owned' /\ OutputSurvives' /\ DispatchIsBound'
  BY DEF IInv, TypeOK, Owned, OutputSurvives, DispatchIsBound
<1>4. ObservedBeforeSettled'
  BY DEF IInv, TypeOK, ObservedBeforeSettled, Handle
<1>5. AbortedWorkIsCancelled'
  BY DEF IInv, TypeOK, AbortedWorkIsCancelled, Running
<1> QED BY <1>1, <1>2, <1>3, <1>4, <1>5 DEF IInv

LEMMA BindingFailsInvariant ==
  ASSUME IInv, BindingFails
  PROVE  IInv'
<1> USE DEF BindingFails, workVars
<1>1. TypeOK'
  BY DEF IInv, TypeOK
<1>2. Places'
  BY DEF IInv, TypeOK, Places, Waits
<1>3. Owned' /\ OutputSurvives' /\ DispatchIsBound'
  BY DEF IInv, TypeOK, Places, Owned, OutputSurvives, DispatchIsBound
<1>4. ObservedBeforeSettled'
  BY DEF IInv, TypeOK, ObservedBeforeSettled, Handle
<1>5. AbortedWorkIsCancelled'
  BY DEF IInv, TypeOK, Places, AbortedWorkIsCancelled
<1> QED BY <1>1, <1>2, <1>3, <1>4, <1>5 DEF IInv

LEMMA HostInvariant ==
  ASSUME IInv, NEW c \in Calls, Host(c)
  PROVE  IInv'
<1>1. CASE Cancelled(c)
  <2> USE <1>1 DEF Cancelled, bridgeVars, workVars
  <2>1. TypeOK' /\ Places' /\ Owned' /\ OutputSurvives' /\ DispatchIsBound'
    BY DEF IInv, TypeOK, Places, Waits, Owned, OutputSurvives, DispatchIsBound
  <2>2. ObservedBeforeSettled'
    BY DEF IInv, TypeOK, ObservedBeforeSettled, Handle
  <2>3. AbortedWorkIsCancelled'
    BY DEF IInv, TypeOK, AbortedWorkIsCancelled, Running
  <2> QED BY <2>1, <2>2, <2>3 DEF IInv
<1>2. ASSUME NEW a \in Arguments, Call(c, a) PROVE IInv'
  <2> USE <1>2 DEF Call, Goto, bridgeVars, workVars
  <2>1. TypeOK'
    BY DEF IInv, TypeOK
  <2>2. Places'
    BY DEF IInv, TypeOK, Places, Waits
  <2>3. Owned' /\ OutputSurvives' /\ DispatchIsBound'
    BY DEF IInv, TypeOK, Owned, OutputSurvives, DispatchIsBound
  <2>4. ObservedBeforeSettled'
    BY DEF IInv, TypeOK, Places, ObservedBeforeSettled, Handle
  <2>5. AbortedWorkIsCancelled'
    BY DEF IInv, TypeOK, AbortedWorkIsCancelled
  <2> QED BY <2>1, <2>2, <2>3, <2>4, <2>5 DEF IInv
<1> QED BY <1>1, <1>2 DEF Host
-----------------------------------------------------------------------------
(* Steps of a call that change nothing but where it is *)

Elsewhere == <<bridgeVars, args, aborted, acquired, workVars>>
Awaiting == {"register", "sleep", "bind", "bound", "spawned", "status", "tail", "retain", "mode",
             "snapshot", "receipt", "cancel"}

\* A call goes on to another await.
LEMMA GotoInvariant ==
  ASSUME IInv, NEW c \in Calls, NEW there \in Awaiting \ {"receipt"}, Goto(c, there),
         pc[c] \in Awaiting,
         UNCHANGED <<Elsewhere, dispatched, answer>>,
         there = "sleep" => args[c].kind = "sleep",
         there \in {"spawned", "mode"} => Waits(c),
         there \in {"bound", "spawned"} => binding \in {"bound", "gone"},
         acquired[c] => there = "cancel",
         c \in dispatched => there \in {"status", "mode", "snapshot", "cancel"}
  PROVE  IInv'
<1> USE DEF Goto, Elsewhere, bridgeVars, workVars, Awaiting
<1>1. TypeOK'
  BY DEF IInv, TypeOK
<1>2. Places'
  BY DEF IInv, TypeOK, Places, Waits
<1>3. Owned' /\ OutputSurvives' /\ DispatchIsBound'
  BY DEF IInv, TypeOK, Owned, OutputSurvives, DispatchIsBound
<1>4. ObservedBeforeSettled'
  BY DEF IInv, TypeOK, ObservedBeforeSettled, Handle
<1>5. AbortedWorkIsCancelled'
  BY DEF IInv, TypeOK, AbortedWorkIsCancelled
<1> QED BY <1>1, <1>2, <1>3, <1>4, <1>5 DEF IInv

\* A call is answered.
LEMMA AnswerInvariant ==
  ASSUME IInv, NEW c \in Calls, pc[c] \in Awaiting \cup {"owner"},
         NEW what \in {"refused", "unresolved", "async", "running", "text", "output", "cancelled", "failed"},
         Answer(c, what),
         UNCHANGED <<Elsewhere, dispatched>>,
         acquired[c] => what = "output",
         aborted[c] => c \notin dispatched
  PROVE  IInv'
<1> USE DEF Answer, Elsewhere, bridgeVars, workVars, Awaiting
<1>1. TypeOK'
  BY DEF IInv, TypeOK
<1>2. Places'
  BY DEF IInv, TypeOK, Places, Waits
<1>3. Owned' /\ OutputSurvives' /\ DispatchIsBound'
  BY DEF IInv, TypeOK, Owned, OutputSurvives, DispatchIsBound
<1>4. ObservedBeforeSettled'
  BY DEF IInv, TypeOK, ObservedBeforeSettled, Handle
<1>5. AbortedWorkIsCancelled'
  BY DEF IInv, TypeOK, AbortedWorkIsCancelled
<1> QED BY <1>1, <1>2, <1>3, <1>4, <1>5 DEF IInv

LEMMA PlainInvariant ==
  ASSUME IInv, NEW c \in Calls,
         \/ OwnerUnknown(c) \/ RegistrationFails(c) \/ Observe(c) \/ AbortedBeforeDispatch(c)
         \/ Sleep(c) \/ WakeUp(c) \/ Bound(c) \/ DispatchFails(c)
         \/ Interrupted(c) \/ SubprocessFails(c) \/ Status(c) \/ ReadTail(c) \/ KeepTail(c)
         \/ ReadMode(c)
  PROVE  IInv'
<1>1. /\ acquired[c] => pc[c] \in {"receipt", "cancel", "done"}
      /\ c \in dispatched =>
           Waits(c) /\ pc[c] \in {"status", "mode", "snapshot", "receipt", "cancel", "done"}
  BY DEF IInv, Places
<1>2. UNCHANGED <<Elsewhere, dispatched>>
  BY DEF OwnerUnknown, RegistrationFails, Observe, AbortedBeforeDispatch, Sleep, WakeUp, Bound,
         DispatchFails, Interrupted, SubprocessFails, Status, ReadTail, KeepTail,
         ReadMode, Elsewhere
<1> USE DEF At, Awaiting, Waits
<1>3. CASE OwnerUnknown(c) \/ RegistrationFails(c) \/ DispatchFails(c) \/ SubprocessFails(c)
  <2>1. /\ Answer(c, "failed") /\ pc[c] \in Awaiting \cup {"owner"} /\ ~acquired[c]
        /\ aborted[c] => c \notin dispatched
    BY <1>1, <1>3 DEF OwnerUnknown, RegistrationFails, DispatchFails, SubprocessFails
  <2> QED BY <1>2, <2>1, AnswerInvariant
<1>4. CASE AbortedBeforeDispatch(c)
  <2>1. Answer(c, "refused") /\ pc[c] \in Awaiting /\ ~acquired[c] /\ c \notin dispatched
    BY <1>1, <1>4 DEF AbortedBeforeDispatch
  <2> QED BY <1>2, <2>1, AnswerInvariant
<1>5. CASE WakeUp(c)
  <2>1. Answer(c, "output") /\ pc[c] \in Awaiting /\ c \notin dispatched
    BY <1>1, <1>5 DEF WakeUp
  <2> QED BY <1>2, <2>1, AnswerInvariant
<1>6. CASE KeepTail(c)
  <2>1. Answer(c, "text") /\ pc[c] \in Awaiting /\ ~acquired[c] /\ c \notin dispatched
    BY <1>1, <1>6 DEF KeepTail
  <2> QED BY <1>2, <2>1, AnswerInvariant
<1>7. CASE Observe(c) \/ Sleep(c) \/ Bound(c)
  BY <1>1, <1>2, <1>7, GotoInvariant DEF Observe, Sleep, Bound
<1>8. CASE ReadMode(c)
  <2>1. pc[c] \in Awaiting /\ ~acquired[c] /\ Waits(c)
    BY <1>1, <1>8 DEF ReadMode, IInv, Places
  <2>2. CASE Answer(c, "async") /\ ~aborted[c]
    BY <1>2, <2>1, <2>2, AnswerInvariant
  <2>3. CASE Goto(c, "status") /\ UNCHANGED answer
    BY <1>2, <2>1, <2>3, GotoInvariant
  <2> QED BY <1>8, <2>2, <2>3 DEF ReadMode
<1>9. CASE Interrupted(c)
  <2>1. pc[c] \in Awaiting /\ ~acquired[c]
    BY <1>1, <1>9 DEF Interrupted
  <2>2. CASE Goto(c, "cancel") /\ UNCHANGED answer
    BY <1>2, <2>1, <2>2, GotoInvariant
  <2>3. CASE Answer(c, "failed") /\ ~Waits(c)
    <3>1. c \notin dispatched
      BY <1>1, <2>3
    <3> QED BY <1>2, <2>1, <2>3, <3>1, AnswerInvariant
  <2> QED BY <1>9, <2>2, <2>3 DEF Interrupted
<1>10. CASE Status(c)
  <2>1. pc[c] \in Awaiting /\ ~acquired[c] /\ UNCHANGED answer
    BY <1>1, <1>10 DEF Status
  <2>2. CASE Goto(c, "snapshot") \/ (Waits(c) /\ Goto(c, "mode"))
    BY <1>2, <2>1, <2>2, GotoInvariant
  <2>3. CASE ~Waits(c) /\ Goto(c, "tail")
    <3>1. c \notin dispatched
      BY <1>1, <2>3
    <3> QED BY <1>2, <2>1, <2>3, <3>1, GotoInvariant
  <2> QED BY <1>10, <2>2, <2>3 DEF Status
<1>11. CASE ReadTail(c)
  <2>1. pc[c] \in Awaiting /\ ~acquired[c] /\ ~aborted[c] /\ c \notin dispatched
    BY <1>1, <1>11 DEF ReadTail
  <2>2. (Goto(c, "retain") /\ UNCHANGED answer) \/ Answer(c, "running")
    BY <1>11 DEF ReadTail
  <2> QED BY <1>2, <2>1, <2>2, GotoInvariant, AnswerInvariant
<1> QED BY <1>3, <1>4, <1>5, <1>6, <1>7, <1>8, <1>9, <1>10, <1>11

-----------------------------------------------------------------------------
(* Steps of a call that others can see *)

LEMMA FindOwnerInvariant ==
  ASSUME IInv, NEW c \in Calls, FindOwner(c)
  PROVE  IInv'
<1> USE DEF FindOwner, At, Goto, workVars
<1>1. args[c].thread \in Threads /\ (~headless => bound \in {NoThread, args[c].thread})
  BY HandleFacts, ArgumentFacts DEF Identified
<1>2. TypeOK'
  BY <1>1 DEF IInv, TypeOK
<1>3. ~headless /\ bound # NoThread => bound' = bound
  BY <1>1
<1>4. Places'
  <2>1. ASSUME NEW d \in Calls, pc[d] \notin {"idle", "owner", "done"}, ~headless
        PROVE  bound \in Threads
    <3>1. pc[d] # "idle" /\ bound = args[d].thread
      BY <2>1 DEF IInv, Places
    <3> QED BY <2>1, <3>1, HandleFacts, ArgumentFacts
  <2> QED BY <1>1, <1>3, <2>1, ToolAssumption DEF IInv, TypeOK, Places, Waits
<1>5. Owned'
  BY <1>3 DEF IInv, TypeOK, Owned
<1>6. OutputSurvives' /\ DispatchIsBound' /\ AbortedWorkIsCancelled'
  BY DEF IInv, TypeOK, OutputSurvives, DispatchIsBound, AbortedWorkIsCancelled
<1>7. ObservedBeforeSettled'
  BY DEF IInv, ObservedBeforeSettled, Handle
<1> QED BY <1>2, <1>4, <1>5, <1>6, <1>7 DEF IInv

LEMMA BindInvariant ==
  ASSUME IInv, NEW c \in Calls, Bind(c)
  PROVE  IInv'
<1> USE DEF Bind, At, Goto, workVars
<1>1. TypeOK'
  BY DEF IInv, TypeOK
<1>2. Places'
  BY DEF IInv, TypeOK, Places, Waits
<1>3. Owned' /\ OutputSurvives' /\ DispatchIsBound' /\ AbortedWorkIsCancelled'
  BY DEF IInv, TypeOK, Owned, OutputSurvives, DispatchIsBound, AbortedWorkIsCancelled
<1>4. ObservedBeforeSettled'
  BY DEF IInv, ObservedBeforeSettled, Handle
<1> QED BY <1>1, <1>2, <1>3, <1>4 DEF IInv

\* The workload that is started is the call's own, and of the thread it found.
LEMMA SpawnInvariant ==
  ASSUME IInv, NEW c \in Calls, Spawn(c) \/ DispatchUnresolved(c)
  PROVE  IInv'
<1> USE DEF Spawn, DispatchUnresolved, At, Goto, Answer, bridgeVars
<1>1. /\ args[c].thread \in Threads /\ Delivery(args[c]) \in Deliveries
      /\ Lease(args[c]) \in BOOLEAN
  BY HandleFacts, ArgumentFacts DEF Waits
<1>2. binding \in {"bound", "gone"} /\ ~acquired[c] /\ (~headless => bound = args[c].thread)
  BY DEF IInv, Places
<1>3. TypeOK'
  BY <1>1 DEF IInv, TypeOK
<1>4. Places'
  BY <1>2 DEF IInv, TypeOK, Places, Waits
<1>5. Owned'
  BY <1>2 DEF IInv, TypeOK, Owned
<1>6. OutputSurvives' /\ DispatchIsBound' /\ AbortedWorkIsCancelled'
  BY <1>2 DEF IInv, TypeOK, Places, OutputSurvives, DispatchIsBound, AbortedWorkIsCancelled
<1>7. ObservedBeforeSettled'
  BY DEF IInv, ObservedBeforeSettled, Handle
<1> QED BY <1>3, <1>4, <1>5, <1>6, <1>7 DEF IInv

\* From here on the call owes its workload a cancellation if it is aborted.
LEMMA DispatchedInvariant ==
  ASSUME IInv, NEW c \in Calls, Dispatched(c)
  PROVE  IInv'
<1> USE DEF Dispatched, At, Goto, Answer, bridgeVars, workVars
<1>1. Waits(c) /\ ~acquired[c] /\ (pc'[c] = "done" => ~aborted[c])
      /\ pc'[c] \in {"done", "cancel", "status"}
  BY DEF IInv, TypeOK, Places
<1>2. TypeOK'
  BY DEF IInv, TypeOK
<1>3. Places'
  BY <1>1 DEF IInv, TypeOK, Places, Waits
<1>4. Owned' /\ OutputSurvives' /\ DispatchIsBound'
  BY <1>1 DEF IInv, TypeOK, Owned, OutputSurvives, DispatchIsBound
<1>5. AbortedWorkIsCancelled'
  BY <1>1 DEF IInv, TypeOK, AbortedWorkIsCancelled
<1>6. ObservedBeforeSettled'
  BY DEF IInv, ObservedBeforeSettled, Handle
<1> QED BY <1>2, <1>3, <1>4, <1>5, <1>6 DEF IInv

LEMMA AcquireInvariant ==
  ASSUME IInv, NEW c \in Calls, Acquire(c)
  PROVE  IInv'
<1> USE DEF Acquire, At, Goto, bridgeVars, workVars
<1>1. TypeOK'
  BY DEF IInv, TypeOK
<1>2. Places'
  BY DEF IInv, TypeOK, Places, Waits
<1>3. Owned' /\ OutputSurvives' /\ DispatchIsBound' /\ AbortedWorkIsCancelled'
  BY DEF IInv, TypeOK, Owned, OutputSurvives, DispatchIsBound, AbortedWorkIsCancelled
<1>4. ObservedBeforeSettled'
  BY DEF IInv, TypeOK, ObservedBeforeSettled, Handle
<1> QED BY <1>1, <1>2, <1>3, <1>4 DEF IInv

LEMMA SettleInvariant ==
  ASSUME IInv, NEW c \in Calls, Settle(c)
  PROVE  IInv'
<1> USE DEF Settle, At, Goto, Answer, bridgeVars
<1>1. Handle(c) \in Calls /\ acquired[c]
  BY HandleFacts DEF IInv, Places
<1>2. TypeOK'
  BY <1>1 DEF IInv, TypeOK
<1>3. Places'
  BY <1>1 DEF IInv, TypeOK, Places, Waits
<1>4. Owned' /\ OutputSurvives' /\ DispatchIsBound'
  BY DEF IInv, TypeOK, Owned, OutputSurvives, DispatchIsBound
<1>5. AbortedWorkIsCancelled'
  BY DEF IInv, TypeOK, Places, AbortedWorkIsCancelled, Waits
<1>6. ObservedBeforeSettled'
  BY <1>1 DEF IInv, TypeOK, ObservedBeforeSettled, Handle
<1> QED BY <1>2, <1>3, <1>4, <1>5, <1>6 DEF IInv

LEMMA CancelInvariant ==
  ASSUME IInv, NEW c \in Calls, Cancel(c)
  PROVE  IInv'
<1>1. PICK ok \in BOOLEAN :
        /\ cancel' = [cancel EXCEPT ![Handle(c)] =
                        IF ok /\ work[Handle(c)] # "none" THEN "requested"
                        ELSE IF @ = "no" THEN "tried" ELSE @]
        /\ Answer(c, IF acquired[c] THEN "output" ELSE IF ok THEN "cancelled" ELSE "failed")
  BY DEF Cancel
<1>2. Handle(c) \in Calls /\ pc[c] \in {"cancel", "bound"}
  BY HandleFacts DEF Cancel, At
<1>3. UNCHANGED <<headless, bridge, bound, binding, args, aborted, dispatched, acquired, work, mode,
                  leased, owner, settled>>
  BY DEF Cancel, bridgeVars
<1> USE DEF Answer
<1>4. cancel' \in [Calls -> {"no", "tried", "requested"}] /\ cancel'[Handle(c)] # "no"
      /\ \A d \in Calls : cancel[d] # "no" => cancel'[d] # "no"
  BY <1>1, <1>2 DEF IInv, TypeOK
<1>5. TypeOK'
  BY <1>1, <1>2, <1>3, <1>4 DEF IInv, TypeOK
<1>6. Places'
  BY <1>1, <1>2, <1>3 DEF IInv, TypeOK, Places, Waits
<1>7. Owned' /\ DispatchIsBound'
  BY <1>3 DEF IInv, Owned, DispatchIsBound
<1>8. OutputSurvives'
  BY <1>1, <1>2, <1>3 DEF IInv, TypeOK, OutputSurvives
<1>9. ObservedBeforeSettled'
  BY <1>3 DEF IInv, ObservedBeforeSettled, Handle
<1>10. c \in dispatched => cancel'[c] # "no"
  BY <1>4 DEF Handle, Waits, IInv, Places
<1>11. AbortedWorkIsCancelled'
  BY <1>1, <1>2, <1>3, <1>4, <1>10 DEF IInv, TypeOK, AbortedWorkIsCancelled
<1> QED BY <1>5, <1>6, <1>7, <1>8, <1>9, <1>11 DEF IInv

-----------------------------------------------------------------------------
(* The supervisor *)

LEMMA SupervisorInvariant ==
  ASSUME IInv, NEW h \in Calls, Supervisor(h)
  PROVE  IInv'
<1>1. /\ UNCHANGED <<headless, bridge, bound, binding, callVars, leased, owner, cancel, settled>>
      /\ work[h] = "running" /\ work' \in {work, [work EXCEPT ![h] = "terminal"]}
      /\ mode' \in {mode, [mode EXCEPT ![h] = "async"]}
  BY DEF bridgeVars, Supervisor, Finish, CancelTakesEffect, LeaseEnds, Terminate, Detach
<1>2. TypeOK'
  BY <1>1 DEF callVars, IInv, TypeOK, Deliveries
<1>3. Places'
  BY <1>1 DEF callVars, IInv, Places, Waits
<1>4. Owned' /\ OutputSurvives' /\ AbortedWorkIsCancelled'
  BY <1>1 DEF callVars, IInv, Owned, OutputSurvives, AbortedWorkIsCancelled
<1>5. DispatchIsBound'
  BY <1>1 DEF callVars, IInv, TypeOK, DispatchIsBound
<1>6. ObservedBeforeSettled'
  BY <1>1 DEF callVars, IInv, ObservedBeforeSettled, Handle
<1> QED BY <1>2, <1>3, <1>4, <1>5, <1>6 DEF IInv

-----------------------------------------------------------------------------
\* The invariant holds at the start, every step keeps it, and it holds for good.
THEOREM Inductive == Spec => []IInv
<1>1. IInv /\ [Next]_vars => IInv'
  <2> SUFFICES ASSUME IInv, [Next]_vars PROVE IInv'
    OBVIOUS
  <2>1. ASSUME NEW c \in Calls, Execute(c) PROVE IInv'
    BY <2>1, PlainInvariant, FindOwnerInvariant, BindInvariant, SpawnInvariant,
       DispatchedInvariant, AcquireInvariant, SettleInvariant, CancelInvariant DEF Execute
  <2>2. CASE UNCHANGED vars
    BY <2>2 DEF vars, bridgeVars, callVars, workVars, IInv, TypeOK, Places, Waits, Owned, AbortedWorkIsCancelled,
                OutputSurvives, ObservedBeforeSettled, Handle, DispatchIsBound
  <2> QED BY <2>1, <2>2, BridgeInvariant, BindingFailsInvariant, HostInvariant, SupervisorInvariant
          DEF Next
<1> QED BY <1>1, InitInvariant, PTL DEF Spec

\* The state keeps its types, and a call has an answer exactly when it is over.
THEOREM TypeOKHolds == Spec => []TypeOK
BY Inductive, PTL DEF IInv

\* Whatever a call awaits when it is aborted, and however it is then answered, the
\* command it was told the handle of has been asked to cancel.
THEOREM AbortedWorkIsCancelledHolds == Spec => []AbortedWorkIsCancelled
BY Inductive, PTL DEF IInv

\* Output that was acquired is answered, whatever fails after it.
THEOREM OutputSurvivesHolds == Spec => []OutputSurvives
BY Inductive, PTL DEF IInv

\* The supervisor is told that output was received only when a call holds it.
THEOREM ObservedBeforeSettledHolds == Spec => []ObservedBeforeSettled
BY Inductive, PTL DEF IInv

\* No call dispatches before the runner has answered the shared report of its
\* session, however many calls share it and however often it fails.
THEOREM DispatchIsBoundHolds == Spec => []DispatchIsBound
BY Inductive, PTL DEF IInv

\* All workloads of a bridge are of one session, whichever sessions calls name.
THEOREM OneOwnerHolds == Spec => []OneOwner
<1>1. IInv => OneOwner
  BY DEF IInv, Owned, OneOwner
<1> QED BY <1>1, Inductive, PTL
=============================================================================
