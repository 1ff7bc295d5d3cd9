----------------------------- MODULE ControlLoop -----------------------------
(***************************************************************************)
(* run_dummy_openvla_policy() of benchmark/run_full_recycling_cell_demo.py *)
(* and the end of main(): the control loop that composes the policy        *)
(* (DummyPolicy), the safety supervisor (SafetySupervisor) and the backend *)
(* (PandaGripper), under --safety-mode pause-resume, while a hand enters   *)
(* and leaves the workspace on its own.                                    *)
(*                                                                         *)
(* An iteration is two steps, because the hand moves between them: Observe *)
(* (safety check, wrist refinement, supervisor) and Act (predict, hard     *)
(* gate, apply_command).  Geometry is PickPlace's subject; here the arm is *)
(* on one leg of its route, and an applied action completes the leg or     *)
(* stalls.                                                                 *)
(***************************************************************************)
EXTENDS SafetySupervisor, DummyPolicy, PandaGripper

CONSTANTS
  MaxPolicySteps,              \* --max-policy-steps
  WristRefine,                 \* --wrist-camera-mode refine
  HardHazards,                 \* what --safety-monitor may say of task_frame
  Faults,                      \* exceptions that may end the loop
  MaxStalls                    \* bound: applied actions that make no headway

ASSUME ControlLoopAssumption ==
  /\ MaxPolicySteps \in Nat \ {0} /\ MaxStalls \in Nat
  /\ WristRefine \in BOOLEAN
  /\ HardHazards \subseteq BOOLEAN /\ HardHazards # {}
  /\ Faults \subseteq {"timeout", "policy_error"}

\* away: farther than refine_distance_threshold from the grasp target;
\* close: nearer than that, not yet within position_tolerance.
Locations == {"away", "close", "grasp", "lift", "above_bin", "drop"}

VARIABLES
  pc,                          \* observe, act, returned, raised or closed
  step_index,
  hand,                        \* a hand is in the workspace now
  acts_under_hand,             \* actions applied since that hand came
  hazard,                      \* the hard gate's verdict on task_frame
  supervisor, event,           \* SafetySupervisor and its last answer
  policy, near_target,         \* the policy; last_info's distance is small
  target,                      \* target_object_position: coarse or refined
  refinement_attempted,
  location, stalls, gripper,   \* the arm and the backend
  applied,                     \* apply_command() calls
  recorded,                    \* records of the episode, the reset's included
  final_status,                \* final_state["task_status"]
  episode                      \* recording, saved or lost

loop == <<pc, step_index>>
world == <<hand, acts_under_hand>>
arm == <<location, stalls, gripper, applied>>
target_vars == <<target, refinement_attempted>>
report == <<final_status, episode>>
vars == <<loop, world, hazard, supervisor, event, policy, near_target, target_vars,
          arm, recorded, report>>

Init ==
  /\ pc = "observe" /\ step_index = 0
  /\ hand \in BOOLEAN /\ acts_under_hand = 0
  /\ hazard \in HardHazards
  /\ supervisor = InitialSupervisor /\ event = "unchecked"
  /\ policy = ResetPolicy /\ near_target = FALSE
  /\ target = "coarse" /\ refinement_attempted = FALSE
  /\ location = "away" /\ stalls = 0 /\ gripper = ResetGripper /\ applied = 0
  /\ recorded = 1              \* main() records the reset
  /\ final_status = "none" /\ episode = "recording"
----------------------------------------------------------------------------
(* The hand: it comes and goes at any time until the program is over.      *)

HandEnters ==
  /\ ~hand /\ pc # "closed"
  /\ hand' = TRUE
  /\ UNCHANGED <<loop, acts_under_hand, hazard, supervisor, event, policy, near_target,
                 target_vars, arm, recorded, report>>

HandLeaves ==
  /\ hand /\ pc # "closed"
  /\ hand' = FALSE /\ acts_under_hand' = 0
  /\ UNCHANGED <<loop, hazard, supervisor, event, policy, near_target, target_vars, arm,
                 recorded, report>>
----------------------------------------------------------------------------
(* Mutants of the definitions below (see "mutants" in PROJECT.json).       *)

\* Refinement does not ask whether the loop is paused or resuming.
RefinesAlsoPaused(hand_detected) ==
  /\ WristRefine /\ ~refinement_attempted /\ ~hand_detected
  /\ policy.phase = "move_to_object" /\ ~gripper.held_object /\ near_target

\* Refinement is attempted again and again.
RefinesAgain(hand_detected) ==
  /\ WristRefine /\ ~hand_detected /\ IsRunning(supervisor)
  /\ policy.phase = "move_to_object" /\ ~gripper.held_object /\ near_target

\* A paused iteration leaves no record.
PausedStepUnrecorded ==
  /\ pc' = "observe" /\ step_index' = step_index + 1
  /\ UNCHANGED recorded

\* The event is recorded, but the loop does not skip the action.
PausedStepThatActs == pc' = "act" /\ UNCHANGED <<step_index, recorded>>

\* The hard gate's verdict is logged, not obeyed.
GateLogsOnly == TRUE
----------------------------------------------------------------------------

\* The condition of the wrist refinement.
Refines(hand_detected) ==
  /\ WristRefine /\ ~refinement_attempted /\ ~hand_detected
  /\ policy.phase = "move_to_object" /\ ~gripper.held_object
  /\ IsRunning(supervisor)
  /\ near_target

\* refine_target_with_wrist_camera(): the estimate is rejected, or the target
\* moves; a moved target may be farther from the gripper than before.
Refine(hand_detected) ==
  IF Refines(hand_detected)
  THEN /\ refinement_attempted' = TRUE
       /\ \/ UNCHANGED <<target, location>>
          \/ target' = "refined" /\ location' \in {"away", "close", "grasp"}
  ELSE UNCHANGED <<target_vars, location>>

\* The loop's `continue`: record the event, take no action.
PausedStep ==
  /\ pc' = "observe" /\ step_index' = step_index + 1
  /\ recorded' = recorded + 1

\* Mutant: the loop waits for the hand to leave before it goes on.
ObserveWhenClear ==
  /\ pc = "observe" /\ step_index < MaxPolicySteps /\ ~hand
  /\ Refine(hand)
  /\ supervisor' = SupervisorStep(supervisor, hand)
  /\ event' = StepEvent(supervisor, hand)
  /\ IF event' # "none" THEN PausedStep
     ELSE pc' = "act" /\ UNCHANGED <<step_index, recorded>>
  /\ UNCHANGED <<world, hazard, policy, near_target, stalls, gripper, applied, report>>

\* First half of an iteration, up to the supervisor's answer.
Observe ==
  /\ pc = "observe" /\ step_index < MaxPolicySteps
  /\ Refine(hand)
  /\ supervisor' = SupervisorStep(supervisor, hand)
  /\ event' = StepEvent(supervisor, hand)
  /\ IF event' # "none" THEN PausedStep
     ELSE pc' = "act" /\ UNCHANGED <<step_index, recorded>>
  /\ UNCHANGED <<world, hazard, policy, near_target, stalls, gripper, applied, report>>

\* range(args.max_policy_steps) is exhausted.
RunOutOfSteps ==
  /\ pc = "observe" /\ step_index = MaxPolicySteps
  /\ pc' = "returned" /\ final_status' = gripper.task_status
  /\ UNCHANGED <<step_index, world, hazard, supervisor, event, policy, near_target,
                 target_vars, arm, recorded, episode>>

\* --control-loop-timeout-s, tested at the top of an iteration only.
TimeOut ==
  /\ "timeout" \in Faults /\ pc = "observe" /\ step_index < MaxPolicySteps
  /\ pc' = "raised"
  /\ UNCHANGED <<step_index, world, hazard, supervisor, event, policy, near_target,
                 target_vars, arm, recorded, report>>

\* predict_action() of a remote policy backend raises.
PolicyRaises ==
  /\ "policy_error" \in Faults /\ pc = "act"
  /\ pc' = "raised"
  /\ UNCHANGED <<step_index, world, hazard, supervisor, event, policy, near_target,
                 target_vars, arm, recorded, report>>

Observation ==
  [at_grasp |-> location = "grasp", at_lift |-> location = "lift",
   aligned |-> location \in {"above_bin", "drop"},
   near_bin |-> location \in {"above_bin", "drop"},
   at_stage |-> location = "drop", at_drop_height |-> location = "drop",
   held |-> gripper.held_object, status |-> gripper.task_status]

\* Where the leg the arm is on leads to.
NextLocation(aim) ==
  CASE aim = "grasp" /\ location = "away"      -> "close"
    [] aim = "grasp" /\ location = "close"     -> "grasp"
    [] aim = "lift"                            -> "lift"
    [] aim = "carry"                           -> "above_bin"
    [] aim = "drop"                            -> "drop"
    [] OTHER                                   -> location

Move(aim) ==
  \/ location' = NextLocation(aim) /\ UNCHANGED stalls
  \/ /\ NextLocation(aim) # location /\ stalls < MaxStalls
     /\ location' = location /\ stalls' = stalls + 1

GateAllows == ~hazard

Returns(done, status) == status = "success" \/ done

\* Second half of an iteration: predict, apply, record, perhaps return.
Act ==
  /\ pc = "act" /\ GateAllows
  /\ \E answer \in {Predict(policy, Observation)} :
       /\ policy' = answer.policy
       /\ near_target' = (location = "close")
       /\ Move(answer.aim)
       /\ gripper' = ApplyGripper(gripper, answer.gripper,
                                  location' = "grasp", location' = "drop")
       /\ IF Returns(answer.done, gripper'.task_status)
          THEN pc' = "returned" /\ final_status' = gripper'.task_status
          ELSE pc' = "observe" /\ UNCHANGED final_status
  /\ applied' = applied + 1
  /\ acts_under_hand' = IF hand THEN acts_under_hand + 1 ELSE 0
  /\ step_index' = step_index + 1 /\ recorded' = recorded + 1
  /\ UNCHANGED <<hand, hazard, supervisor, event, target_vars, episode>>

\* The hard gate stops the episode after the prediction, before the action.
Block ==
  /\ pc = "act" /\ hazard
  /\ policy' = Predict(policy, Observation).policy
  /\ near_target' = (location = "close")
  /\ pc' = "returned" /\ final_status' = "blocked_by_safety"
  /\ step_index' = step_index + 1 /\ recorded' = recorded + 1
  /\ UNCHANGED <<world, hazard, supervisor, event, target_vars, arm, episode>>

\* main() after the loop: finish_episode() writes episode.json; an exception
\* skips it on its way to the finally clause.
Finish ==
  /\ pc \in {"returned", "raised"}
  /\ pc' = "closed"
  /\ episode' = IF pc = "returned" THEN "saved" ELSE "lost"
  /\ UNCHANGED <<step_index, world, hazard, supervisor, event, policy, near_target,
                 target_vars, arm, recorded, final_status>>

Progress == Observe \/ RunOutOfSteps \/ Act \/ Block \/ Finish

Program == Progress \/ TimeOut \/ PolicyRaises

Next == Program \/ HandEnters \/ HandLeaves

Spec == Init /\ [][Next]_vars

\* The program runs on its own; nothing makes the hand come or go, and no
\* fault has to happen.
FairSpec == Spec /\ WF_vars(Progress)
----------------------------------------------------------------------------

TypeOK ==
  /\ pc \in {"observe", "act", "returned", "raised", "closed"}
  /\ step_index \in 0..MaxPolicySteps
  /\ hand \in BOOLEAN /\ acts_under_hand \in Nat /\ hazard \in BOOLEAN
  /\ supervisor \in SupervisorRecords /\ event \in Events \cup {"unchecked"}
  /\ policy \in PolicyRecords /\ near_target \in BOOLEAN
  /\ target \in {"coarse", "refined"} /\ refinement_attempted \in BOOLEAN
  /\ location \in Locations /\ stalls \in 0..MaxStalls
  /\ gripper \in GripperRecords /\ applied \in Nat /\ recorded \in Nat
  /\ final_status \in TaskStatuses \cup {"none", "blocked_by_safety"}
  /\ episode \in {"recording", "saved", "lost"}

\* However a hand comes, at most one action is applied before the robot holds
\* still for as long as it stays: the one whose safety check came before it.
StopsWithinOneAction == acts_under_hand <= 1

\* From the hand that pauses it to the step after the resume, the loop keeps
\* the policy's phase, the grasp target and the robot as they were: the
\* episode goes on where it stopped.
PauseKeepsEverything ==
  [][~IsRunning(supervisor) => UNCHANGED <<policy, target_vars, arm>>]_vars

\* The target is refined at most once, and never under the gripper: not
\* after the fingers have closed on the object.
RefinedOnceBeforeGrasp ==
  [][target' # target \/ refinement_attempted' # refinement_attempted =>
       /\ ~refinement_attempted
       /\ gripper = ResetGripper /\ policy.phase = "move_to_object"]_vars

\* Every iteration of the budget is an applied, a paused or a blocked step,
\* and leaves exactly one record after the one of the reset.
BudgetAccounted ==
  /\ step_index = applied + supervisor.paused_steps
                    + (IF final_status = "blocked_by_safety" THEN 1 ELSE 0)
  /\ recorded = step_index + 1

\* A hazard in the frame the hard gate looks at: not one action is applied,
\* whatever the pauses before, and a saved episode does not say otherwise.
HazardBlocksEpisode ==
  hazard => /\ applied = 0 /\ gripper = ResetGripper
            /\ final_status \in {"none", "running", "blocked_by_safety"}

\* Pauses and refinement do not break what policy and backend agree on.
PhaseAgreesWithGrasp ==
  /\ policy.phase \in {"lift_object", "move_above_bin"} => gripper.held_object
  /\ policy.phase \in {"move_to_object", "stabilize", "open_gripper", "done"} =>
       ~gripper.held_object

\* The loop ends, also when the hand never leaves.
Terminates == <>(pc = "closed")

\* What the supervisor promises of its checks the loop keeps with the robot:
\* apply_command() is called only after a check that saw no hand and owed
\* nothing, and once for each such check, whatever gate, refinement, policy
\* and exceptions do in between.
Promise == INSTANCE PausedRobot WITH
  ClearChecksOwed <- ClearChecksToResume,
  owed <- IF IsRunning(supervisor) THEN 0
          ELSE ClearChecksToResume - supervisor.stable_clear_steps,
  handSeen <- supervisor.safety_state = "paused_by_safety",
  letThrough <- pc = "act",
  actions <- applied

ImplementsPausedRobot == Promise!Spec

\* Without a pause, hazard or fault the budget suffices for the delivery,
\* refinement and stalls included.
DeliversUnpaused ==
  episode = "saved" /\ ~hazard /\ supervisor.pause_count = 0 => final_status = "success"

\* docs/architecture.md on Safety Pause/Resume: however many pauses, and
\* resumes, the final status is a success; a pause by itself never makes an
\* episode fail.  In an instance where every unpaused episode succeeds
\* (DeliversUnpaused), one whose pauses were all resumed should succeed too.
PauseNeverFailsEpisode ==
  episode = "saved" /\ ~hazard /\ supervisor.pause_count > 0 /\ IsRunning(supervisor) =>
    final_status = "success"
=============================================================================
