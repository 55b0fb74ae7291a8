------------------------------- MODULE QuotaProbe -------------------------------
(***************************************************************************)
(* The live quota probe (src/src/quota.rs: handle, probe, ProbeChild,      *)
(* read_output, project).                                                  *)
(*                                                                         *)
(* quota.probe runs a helper in a process group of its own, with its       *)
(* standard output in a temporary file, and polls it: too much output, an  *)
(* exit and the deadline are looked at in this order, one system call      *)
(* after the other, while the helper and what it starts go on.             *)
(*                                                                         *)
(* Output is counted in quanta; what it says is usable or not.  Time is    *)
(* one bit, whether the deadline has passed.                               *)
(***************************************************************************)
EXTENDS Naturals

CONSTANT MaxOutput \* MAX_OUTPUT_BYTES, in quanta

ASSUME OutputAssumption == MaxOutput \in Nat

VARIABLES
  probe,   \* where the poll is
  late,    \* whether the deadline has passed
  helper,  \* the helper: "none", "running", "succeeded", "failed" or "killed"
  completed, \* whether the poll saw the helper exit
  child,   \* whether something the helper started is alive in its group
  output   \* [length, usable]: the temporary file

probeVars == <<probe, late, helper, completed, child, output>>

Polling == {"measure", "wait", "clock", "sleep", "read"}
Outcomes == {"available", "failed", "overflow", "expired", "unusable"}
NoOutput == [length |-> 0, usable |-> FALSE]

ProbeInit ==
  /\ probe = "idle" /\ late = FALSE /\ helper = "none"
  /\ completed = FALSE /\ child = FALSE /\ output = NoOutput

HelperLeaves == UNCHANGED <<probe, late, completed>>
ProbeLeaves == UNCHANGED <<late, helper, completed, child, output>>

-----------------------------------------------------------------------------
(* The provider *)

\* Helper or authentication is missing, the request's deadline has passed
\* already, or the helper cannot be started.
NotStarted ==
  /\ probe = "idle" /\ probe' \in {"failed", "expired"}
  /\ ProbeLeaves

Spawn ==
  /\ probe = "idle" /\ probe' = "measure"
  /\ helper' = "running"
  /\ UNCHANGED <<late, completed, child, output>>

\* Variant: kills and reaps the helper alone.
DropHelper ==
  /\ helper' = IF helper = "running" /\ ~completed THEN "killed" ELSE helper
  /\ UNCHANGED child

\* ProbeChild is dropped: unless the helper was seen to exit, its whole group is
\* killed, whoever of it is left, and the helper is reaped.
Drop ==
  /\ helper' = IF helper = "running" /\ ~completed THEN "killed" ELSE helper
  /\ child' = (child /\ completed)

GiveUp(outcome) == probe' = outcome /\ Drop /\ UNCHANGED <<late, completed, output>>

Measure ==
  /\ probe = "measure"
  /\ IF output.length > MaxOutput THEN GiveUp("overflow")
     ELSE probe' = "wait" /\ ProbeLeaves

StillRunning ==
  /\ probe = "wait" /\ helper = "running"
  /\ probe' = "clock" /\ ProbeLeaves

SeenExited ==
  /\ probe = "wait" /\ helper # "running"
  /\ probe' = IF helper = "succeeded" THEN "read" ELSE "failed"
  /\ completed' = TRUE
  /\ UNCHANGED <<late, helper, child, output>>

\* Variant: waits for the helper as long as it takes.
ClockIgnored ==
  /\ probe = "clock" /\ probe' = "sleep" /\ ProbeLeaves

Clock ==
  /\ probe = "clock"
  /\ IF late THEN GiveUp("expired") ELSE probe' = "sleep" /\ ProbeLeaves

Sleep == probe = "sleep" /\ probe' = "measure" /\ ProbeLeaves

\* read_output measures once more; project accepts bounded windows only.
Read ==
  /\ probe = "read"
  /\ probe' = IF output.length > MaxOutput THEN "overflow"
              ELSE IF output.usable THEN "available" ELSE "unusable"
  /\ ProbeLeaves

Poll == Measure \/ StillRunning \/ SeenExited \/ Clock \/ Sleep \/ Read

-----------------------------------------------------------------------------
(* The helper, its descendants and time *)

\* Anybody who holds the file may append to it.
Write ==
  /\ helper = "running" \/ child
  /\ output.length <= MaxOutput
  /\ \E usable \in BOOLEAN :
       output' = [length |-> output.length + 1, usable |-> usable]
  /\ HelperLeaves /\ UNCHANGED <<helper, child>>

Fork ==
  /\ helper = "running" /\ ~child /\ child' = TRUE
  /\ HelperLeaves /\ UNCHANGED <<helper, output>>

HelperExits ==
  /\ helper = "running" /\ helper' \in {"succeeded", "failed"}
  /\ HelperLeaves /\ UNCHANGED <<child, output>>

ChildExits ==
  /\ child /\ child' = FALSE
  /\ HelperLeaves /\ UNCHANGED <<helper, output>>

Elapse ==
  /\ probe \in Polling /\ ~late /\ late' = TRUE
  /\ UNCHANGED <<probe, helper, completed, child, output>>

HelperStep == Write \/ Fork \/ HelperExits \/ ChildExits

\* The answer is taken up; what the helper left behind is of no further interest.
Answered ==
  /\ probe \in Outcomes
  /\ probe' = "idle" /\ late' = FALSE /\ helper' = "none"
  /\ completed' = FALSE /\ child' = FALSE /\ output' = NoOutput

-----------------------------------------------------------------------------
\* A probe that answers without having seen its helper exit leaves nothing of the
\* helper's group running, and none answers while its helper runs: hosts probe
\* again and again, and helpers that hang must not pile up (ProbeChild's drop).
NothingLeftRunning ==
  probe \in Outcomes => helper # "running" /\ (child => completed)

\* Whatever the helper does or does not do, a probe is answered: it may hang,
\* write without end, or leave its output open in a descendant.
ProbeEnds == probe \in Polling ~> probe \in Outcomes

ProbeFairness == WF_probeVars(Poll) /\ WF_probeVars(Elapse)
-----------------------------------------------------------------------------
ProbeTypeOK ==
  /\ probe \in {"idle"} \cup Polling \cup Outcomes /\ late \in BOOLEAN
  /\ helper \in {"none", "running", "succeeded", "failed", "killed"}
  /\ completed \in BOOLEAN /\ child \in BOOLEAN
  /\ output \in [length : 0..(MaxOutput + 1), usable : BOOLEAN]

\* A helper that was seen to exit has exited, and an output is read of no other.
Seen ==
  /\ probe = "idle" => helper = "none" /\ ~child /\ ~completed
  /\ completed => helper # "running"
  /\ probe = "read" => completed
=============================================================================
