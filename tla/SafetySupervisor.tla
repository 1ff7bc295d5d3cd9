-------------------------- MODULE SafetySupervisor --------------------------
(***************************************************************************)
(* safety/safety_supervisor.py: the pause/resume state machine that stands *)
(* between the policy and the robot.  The control loop hands it one        *)
(* hand_detected boolean per step; it answers with the event to record, or *)
(* with none, and only "none" lets the loop call the policy and act.       *)
(*                                                                         *)
(* The state machine is a pure operator (SupervisorStep, StepEvent) so     *)
(* that ControlLoop.tla composes the very same definition; the module      *)
(* SupervisorChecks.tla drives it with sequences of observations.          *)
(***************************************************************************)
EXTENDS Naturals

CONSTANT ResumeStableSteps     \* --safety-resume-stable-steps

ASSUME ResumeStableStepsAssumption == ResumeStableSteps \in Nat

\* Consecutive clear checks that end a pause.  A configured 0 behaves as 1:
\* the count is incremented before it is compared.
ClearChecksToResume == IF ResumeStableSteps = 0 THEN 1 ELSE ResumeStableSteps

SafetyStates == {"running", "paused_by_safety", "resuming"}
Events == {"none", "safety_pause", "safety_still_paused", "safety_resume"}

InitialSupervisor ==
  [safety_state |-> "running", pause_count |-> 0, resume_count |-> 0,
   paused_steps |-> 0, hand_intrusion_events |-> 0, stable_clear_steps |-> 0]

IsRunning(s) == s.safety_state = "running"

----------------------------------------------------------------------------
(* Mutants of the definitions below (see "mutants" in PROJECT.json).       *)

\* The stability count survives a new detection.
AfterHandKeepingCount(s) ==
  LET fresh == IF IsRunning(s) THEN 1 ELSE 0
  IN [s EXCEPT !.pause_count = @ + fresh,
               !.hand_intrusion_events = @ + fresh,
               !.safety_state = "paused_by_safety",
               !.paused_steps = @ + 1]

\* A hand that comes back while resuming opens a second pause.
AfterHandRecounting(s) ==
  LET fresh == IF s.safety_state # "paused_by_safety" THEN 1 ELSE 0
  IN [s EXCEPT !.stable_clear_steps = 0,
               !.pause_count = @ + fresh,
               !.hand_intrusion_events = @ + fresh,
               !.safety_state = "paused_by_safety",
               !.paused_steps = @ + 1]

\* The stability count is left over from the pause that just ended.
AfterClearWithoutReset(s) ==
  IF s.stable_clear_steps + 1 >= ResumeStableSteps
  THEN [s EXCEPT !.stable_clear_steps = @ + 1,
                 !.paused_steps = @ + 1,
                 !.safety_state = "running",
                 !.resume_count = @ + 1]
  ELSE [s EXCEPT !.stable_clear_steps = @ + 1,
                 !.paused_steps = @ + 1,
                 !.safety_state = "resuming"]
----------------------------------------------------------------------------

\* hand_detected: restart the stability count; only a transition out of
\* "running" is a new pause and a new intrusion.
AfterHand(s) ==
  LET fresh == IF IsRunning(s) THEN 1 ELSE 0
  IN [s EXCEPT !.stable_clear_steps = 0,
               !.pause_count = @ + fresh,
               !.hand_intrusion_events = @ + fresh,
               !.safety_state = "paused_by_safety",
               !.paused_steps = @ + 1]

\* A clear check while paused or resuming; the step itself is still paused,
\* also when it is the one that returns to "running".
AfterClear(s) ==
  IF s.stable_clear_steps + 1 >= ResumeStableSteps
  THEN [s EXCEPT !.stable_clear_steps = 0,
                 !.paused_steps = @ + 1,
                 !.safety_state = "running",
                 !.resume_count = @ + 1]
  ELSE [s EXCEPT !.stable_clear_steps = @ + 1,
                 !.paused_steps = @ + 1,
                 !.safety_state = "resuming"]

\* SafetySupervisor.step(): the state it leaves ...
SupervisorStep(s, hand_detected) ==
  CASE hand_detected                    -> AfterHand(s)
    [] ~hand_detected /\ ~IsRunning(s)  -> AfterClear(s)
    [] OTHER                            -> s

\* ... and the event it returns ("none" stands for Python's None).
StepEvent(s, hand_detected) ==
  CASE hand_detected /\ IsRunning(s)    -> "safety_pause"
    [] hand_detected /\ ~IsRunning(s)   -> "safety_still_paused"
    [] ~hand_detected /\ ~IsRunning(s)  ->
         IF IsRunning(AfterClear(s)) THEN "safety_resume" ELSE "safety_still_paused"
    [] OTHER                            -> "none"

SupervisorRecords ==
  [safety_state : SafetyStates, pause_count : Nat, resume_count : Nat,
   paused_steps : Nat, hand_intrusion_events : Nat,
   stable_clear_steps : 0..(ClearChecksToResume - 1)]
=============================================================================
