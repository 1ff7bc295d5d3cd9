-------------------------- MODULE ControlLoopProofs --------------------------
(***************************************************************************)
(* Proofs about the control loop, for every step budget, stability count,  *)
(* policy constants, fault set and every behaviour of the hand.            *)
(***************************************************************************)
EXTENDS ControlLoop, OperatorLemmas, Integers

\* What one action can have been applied under: a hand that came after the
\* safety check of the iteration that is being finished.
HandInv ==
  /\ hand \in BOOLEAN
  /\ acts_under_hand \in {0, 1}
  /\ ~hand => acts_under_hand = 0
  /\ pc = "act" => acts_under_hand = 0 /\ IsRunning(supervisor)
  /\ supervisor \in SupervisorRecords

LEMMA HandInit == Init => HandInv
<1>1. InitialSupervisor \in SupervisorRecords
  BY ClearChecksPositive DEF InitialSupervisor, SupervisorRecords, SafetyStates
<1>2. QED
  BY <1>1 DEF Init, HandInv

\* Observe: with a hand in the workspace the loop never goes on to act.
LEMMA ObserveCases ==
  ASSUME HandInv, Observe
  PROVE  \/ /\ hand
            /\ supervisor' = AfterHand(supervisor)
            /\ event' \in {"safety_pause", "safety_still_paused"}
            /\ PausedStep
         \/ /\ ~hand /\ ~IsRunning(supervisor)
            /\ supervisor' = AfterClear(supervisor)
            /\ event' \in {"safety_resume", "safety_still_paused"}
            /\ PausedStep
         \/ /\ ~hand /\ IsRunning(supervisor)
            /\ supervisor' = supervisor
            /\ event' = "none"
            /\ pc' = "act" /\ UNCHANGED <<step_index, recorded>>
<1>1. /\ supervisor' = SupervisorStep(supervisor, hand)
      /\ event' = StepEvent(supervisor, hand)
      /\ IF event' # "none" THEN PausedStep
         ELSE pc' = "act" /\ UNCHANGED <<step_index, recorded>>
  BY DEF Observe
<1>2. hand \in BOOLEAN
  BY DEF HandInv
<1>3. QED
  BY <1>1, <1>2, StepCases

LEMMA HandStep == HandInv /\ [Next]_vars => HandInv'
<1> SUFFICES ASSUME HandInv, [Next]_vars PROVE HandInv'
  OBVIOUS
<1>1. CASE Observe
  <2>1. UNCHANGED <<hand, acts_under_hand>>
    BY <1>1 DEF Observe, world
  <2>2. CASE hand
    <3>1. supervisor' = AfterHand(supervisor) /\ pc' = "observe"
      BY <1>1, <2>2, ObserveCases DEF PausedStep
    <3>2. supervisor' \in SupervisorRecords
      BY <3>1, AfterHandFields DEF HandInv
    <3>3. QED
      BY <2>1, <3>1, <3>2 DEF HandInv
  <2>3. CASE ~hand /\ ~IsRunning(supervisor)
    <3>1. supervisor' = AfterClear(supervisor) /\ pc' = "observe"
      BY <1>1, <2>3, ObserveCases DEF PausedStep
    <3>2. supervisor' \in SupervisorRecords
      BY <2>3, <3>1, AfterClearFields DEF HandInv
    <3>3. QED
      BY <2>1, <3>1, <3>2 DEF HandInv
  <2>4. CASE ~hand /\ IsRunning(supervisor)
    <3>1. supervisor' = supervisor
      BY <1>1, <2>4, ObserveCases
    <3>2. QED
      BY <2>1, <2>4, <3>1 DEF HandInv, IsRunning
  <2>5. QED
    BY <2>2, <2>3, <2>4
<1>2. CASE Act
  <2>1. /\ pc = "act" /\ pc' # "act"
        /\ acts_under_hand' = IF hand THEN acts_under_hand + 1 ELSE 0
        /\ UNCHANGED <<hand, supervisor>>
    BY <1>2 DEF Act
  <2>2. QED
    BY <2>1 DEF HandInv
<1>3. CASE RunOutOfSteps \/ TimeOut \/ PolicyRaises \/ Block \/ Finish
  <2>1. UNCHANGED <<hand, acts_under_hand, supervisor>> /\ pc' # "act"
    BY <1>3 DEF RunOutOfSteps, TimeOut, PolicyRaises, Block, Finish, world
  <2>2. QED
    BY <2>1 DEF HandInv
<1>4. CASE HandEnters
  BY <1>4 DEF HandEnters, HandInv, loop, IsRunning
<1>5. CASE HandLeaves
  BY <1>5 DEF HandLeaves, HandInv, loop, IsRunning
<1>6. CASE UNCHANGED vars
  BY <1>6 DEF vars, loop, world, HandInv, IsRunning
<1>7. QED
  BY <1>1, <1>2, <1>3, <1>4, <1>5, <1>6 DEF Next, Program, Progress

\* run_dummy_openvla_policy() checks for the hand before it acts: however the
\* hand comes and goes, one action at most is applied while it stays.
THEOREM StopsAfterOneAction == Spec => []StopsWithinOneAction
<1>1. HandInv => StopsWithinOneAction
  BY DEF HandInv, StopsWithinOneAction
<1>2. QED
  BY <1>1, HandInit, HandStep, PTL DEF Spec

\* While the supervisor is not running, no step of the program or of the hand
\* touches the policy, the grasp target or the robot.
THEOREM PauseKeepsPolicyAndTarget == Spec => PauseKeepsEverything
<1>1. HandInv /\ [Next]_vars =>
        [~IsRunning(supervisor) => UNCHANGED <<policy, target_vars, arm>>]_vars
  <2> SUFFICES ASSUME HandInv, Next, ~IsRunning(supervisor)
               PROVE  UNCHANGED <<policy, target_vars, arm>>
    OBVIOUS
  <2>1. pc # "act"
    BY DEF HandInv
  <2>2. CASE Observe
    <3>1. ~Refines(hand)
      BY DEF Refines
    <3>2. UNCHANGED <<target_vars, location>>
      BY <2>2, <3>1 DEF Observe, Refine
    <3>3. QED
      BY <2>2, <3>2 DEF Observe, arm
  <2>3. CASE RunOutOfSteps \/ TimeOut \/ Finish
    BY <2>3 DEF RunOutOfSteps, TimeOut, Finish
  <2>4. CASE HandEnters \/ HandLeaves
    BY <2>4 DEF HandEnters, HandLeaves
  <2>5. QED
    BY <2>1, <2>2, <2>3, <2>4 DEF Next, Program, Progress, Act, Block, PolicyRaises
<1>2. QED
  BY <1>1, HandInit, HandStep, PTL DEF Spec, PauseKeepsEverything

----------------------------------------------------------------------------
(* The supervisor's promise, kept with the robot.                          *)

\* However policy, gate, faults and refinement come in between, every applied
\* action uses up the permission of one safety check of its own, made with no
\* hand in the workspace and no clear check owed: the loop implements
\* PausedRobot.
THEOREM LoopImplementsPausedRobot == Spec => ImplementsPausedRobot
<1>1. Init => Promise!Init
  BY DEF Init, Promise!Init, Promise!Checks!Init, InitialSupervisor, IsRunning
<1>2. HandInv /\ [Next]_vars => [Promise!Next]_(Promise!vars)
  <2> SUFFICES ASSUME HandInv, [Next]_vars
               PROVE  [Promise!Next]_(Promise!vars)
    OBVIOUS
  <2>s. supervisor \in SupervisorRecords /\ hand \in BOOLEAN
    BY DEF HandInv
  <2>1. ASSUME Observe PROVE Promise!Next
    <3>a. applied' = applied
      BY <2>1 DEF Observe
    <3>1. CASE hand
      <4>1. /\ supervisor' = AfterHand(supervisor)
            /\ pc' = "observe"
        BY <2>1, <3>1, ObserveCases DEF PausedStep
      <4>2. /\ ~IsRunning(supervisor') /\ supervisor'.stable_clear_steps = 0
            /\ supervisor'.safety_state = "paused_by_safety"
        BY <2>s, <4>1, AfterHandFields
      <4>3. ~IsRunning(supervisor)' /\ ClearChecksToResume - 0 = ClearChecksToResume
        BY <4>2, ClearChecksPositive DEF IsRunning
      <4>4. Promise!Checks!Detect
        BY <4>1, <4>2, <4>3 DEF Promise!Checks!Detect
      <4>5. QED
        BY <3>a, <4>4 DEF Promise!Checks!Next, Promise!Check, Promise!Next
    <3>2. CASE ~hand /\ ~IsRunning(supervisor)
      <4>1. /\ supervisor' = AfterClear(supervisor)
            /\ pc' = "observe"
        BY <2>1, <3>2, ObserveCases DEF PausedStep
      <4>2. supervisor.stable_clear_steps \in 0..(ClearChecksToResume - 1)
        BY <2>s DEF SupervisorRecords
      <4>3. Promise!Checks!Pay
        BY <2>s, <3>2, <4>1, <4>2, AfterClearFields, ClearChecksPositive, SMT
           DEF Promise!Checks!Pay
      <4>4. QED
        BY <3>a, <4>3 DEF Promise!Checks!Next, Promise!Check, Promise!Next
    <3>3. CASE ~hand /\ IsRunning(supervisor)
      <4>1. Promise!Checks!Act
        BY <2>1, <3>3, ObserveCases, SMT DEF Promise!Checks!Act, IsRunning
      <4>2. QED
        BY <3>a, <4>1 DEF Promise!Checks!Next, Promise!Check, Promise!Next
    <3>4. QED
      BY <2>s, <3>1, <3>2, <3>3
  <2>2. CASE Act
    <3>1. /\ pc = "act" /\ pc' # "act" /\ applied' = applied + 1
          /\ supervisor' = supervisor
      BY <2>2 DEF Act
    <3>2. Promise!Apply
      BY <3>1 DEF Promise!Apply, IsRunning
    <3>3. QED
      BY <3>2 DEF Promise!Next
  <2>3. CASE Block \/ PolicyRaises
    <3>1. /\ pc = "act" /\ pc' # "act" /\ applied' = applied
          /\ supervisor' = supervisor
      BY <2>3 DEF Block, PolicyRaises, arm
    <3>2. Promise!Lapse
      BY <3>1 DEF Promise!Lapse, IsRunning
    <3>3. QED
      BY <3>2 DEF Promise!Next
  <2>4. CASE RunOutOfSteps \/ TimeOut \/ Finish
    <3>1. /\ pc # "act" /\ pc' # "act" /\ applied' = applied
          /\ supervisor' = supervisor
      BY <2>4 DEF RunOutOfSteps, TimeOut, Finish, arm
    <3>2. QED
      BY <3>1 DEF Promise!vars, IsRunning
  <2>5. CASE HandEnters \/ HandLeaves \/ UNCHANGED vars
    <3>1. pc' = pc /\ applied' = applied /\ supervisor' = supervisor
      BY <2>5 DEF HandEnters, HandLeaves, loop, arm, vars
    <3>2. QED
      BY <3>1 DEF Promise!vars, IsRunning
  <2>6. QED
    BY <2>1, <2>2, <2>3, <2>4, <2>5 DEF Next, Program, Progress
<1>3. QED
  BY <1>1, <1>2, HandInit, HandStep, PTL DEF Spec, ImplementsPausedRobot, Promise!Spec

----------------------------------------------------------------------------
(* Policy, gripper and hard gate.                                          *)

\* A hazard stops the first action, so that the one prediction that is not
\* applied meets a gripper that never moved.
EpisodeInv ==
  /\ Agree(policy, gripper)
  /\ hazard \in BOOLEAN
  /\ HazardBlocksEpisode

LEMMA EpisodeInit == Init => EpisodeInv
BY AgreeInitially, ControlLoopAssumption DEF Init, EpisodeInv, HazardBlocksEpisode

LEMMA EpisodeStep == EpisodeInv /\ [Next]_vars => EpisodeInv'
<1> SUFFICES ASSUME EpisodeInv, [Next]_vars PROVE EpisodeInv'
  OBVIOUS
<1>o. Sound(Predict(policy, Observation), gripper)
  BY PredictSound DEF EpisodeInv, Observation, Reports
<1>1. CASE Act
  <2>1. ~hazard /\ hazard' = hazard
    BY <1>1 DEF Act, GateAllows
  <2>2. PICK near, over_bin :
          /\ policy' = Predict(policy, Observation).policy
          /\ gripper' = ApplyGripper(gripper, Predict(policy, Observation).gripper,
                                     near, over_bin)
    BY <1>1 DEF Act
  <2>3. Agree(policy', gripper')
    BY <1>o, <2>2, ApplySound DEF EpisodeInv, Agree, PhaseAgrees
  <2>4. QED
    BY <2>1, <2>3 DEF EpisodeInv, HazardBlocksEpisode
<1>2. CASE Block
  <2>1. /\ hazard /\ hazard' = hazard /\ applied' = applied /\ gripper' = gripper
        /\ policy' = Predict(policy, Observation).policy
        /\ final_status' = "blocked_by_safety"
    BY <1>2 DEF Block, arm
  <2>2. gripper = ResetGripper /\ applied = 0
    BY <2>1 DEF EpisodeInv, HazardBlocksEpisode
  <2>3. Agree(policy', gripper)
    BY <1>o, <2>1, <2>2 DEF Sound, SoundAnswer, Agree, PhaseAgrees, EpisodeInv, ResetGripper,
       Rid, Waiting, Untouched
  <2>4. QED
    BY <2>1, <2>2, <2>3 DEF EpisodeInv, HazardBlocksEpisode
<1>3. CASE RunOutOfSteps
  <2>1. /\ UNCHANGED <<hazard, policy, gripper, applied>>
        /\ final_status' = gripper.task_status
    BY <1>3 DEF RunOutOfSteps, arm
  <2>2. QED
    BY <2>1 DEF EpisodeInv, HazardBlocksEpisode, ResetGripper
<1>4. CASE ~Act /\ ~Block /\ ~RunOutOfSteps
  <2>1. UNCHANGED <<hazard, policy, gripper, applied, final_status>>
    BY <1>4 DEF Next, Program, Progress, Observe, TimeOut, PolicyRaises, Finish, HandEnters,
                HandLeaves, vars, arm, report
  <2>2. QED
    BY <2>1 DEF EpisodeInv, HazardBlocksEpisode
<1>5. QED
  BY <1>1, <1>2, <1>3, <1>4

\* Pauses, refinement, stalls and faults do not break what policy and backend
\* agree on.
THEOREM PhaseFollowsGrasp == Spec => []PhaseAgreesWithGrasp
<1>1. EpisodeInv => PhaseAgreesWithGrasp
  BY DEF EpisodeInv, Agree, PhaseAgrees, PhaseAgreesWithGrasp, Untouched, Rid
<1>2. QED
  BY <1>1, EpisodeInit, EpisodeStep, PTL DEF Spec

\* A hazard in the frame of the hard gate: no action is ever applied.
THEOREM HazardBlocks == Spec => []HazardBlocksEpisode
<1>1. EpisodeInv => HazardBlocksEpisode
  BY DEF EpisodeInv
<1>2. QED
  BY <1>1, EpisodeInit, EpisodeStep, PTL DEF Spec

\* The wrist camera moves the target once, and not after the fingers have.
THEOREM RefinesOnceBeforeGrasp == Spec => RefinedOnceBeforeGrasp
<1>1. EpisodeInv /\ [Next]_vars =>
        [target' # target \/ refinement_attempted' # refinement_attempted =>
           /\ ~refinement_attempted
           /\ gripper = ResetGripper /\ policy.phase = "move_to_object"]_vars
  <2> SUFFICES ASSUME EpisodeInv, Next,
                      target' # target \/ refinement_attempted' # refinement_attempted
               PROVE  /\ ~refinement_attempted
                      /\ gripper = ResetGripper /\ policy.phase = "move_to_object"
    OBVIOUS
  <2>1. Refine(hand)
    BY DEF Next, Program, Progress, Observe, RunOutOfSteps, TimeOut, PolicyRaises, Act,
           Block, Finish, HandEnters, HandLeaves, target_vars
  <2>2. Refines(hand)
    BY <2>1 DEF Refine, target_vars
  <2>3. ~refinement_attempted /\ policy.phase = "move_to_object"
    BY <2>2 DEF Refines
  <2>4. gripper \in GripperRecords /\ Untouched(gripper)
    BY <2>3 DEF EpisodeInv, Agree, PhaseAgrees, HoldsFirmly
  <2>5. gripper = ResetGripper
    BY <2>4 DEF GripperRecords, Untouched, ResetGripper
  <2>6. QED
    BY <2>3, <2>5
<1>2. QED
  BY <1>1, EpisodeInit, EpisodeStep, PTL DEF Spec, RefinedOnceBeforeGrasp

----------------------------------------------------------------------------
(* The step budget.                                                        *)

\* A status is written when the loop returns, never before, and only a blocked
\* iteration writes one the backend does not have.
BudgetInv ==
  /\ HandInv /\ EpisodeInv
  /\ step_index \in Nat /\ applied \in Nat /\ recorded \in Nat
  /\ pc \in {"observe", "act"} => final_status = "none"
  /\ BudgetAccounted

LEMMA BudgetInit == Init => BudgetInv
BY HandInit, EpisodeInit DEF Init, BudgetInv, BudgetAccounted, InitialSupervisor

\* A paused iteration: one more step, one more paused step, one more record.
LEMMA PausedStepAccounts ==
  ASSUME BudgetInv, Observe, PausedStep,
         supervisor'.paused_steps = supervisor.paused_steps + 1
  PROVE  BudgetAccounted'
<1>1. supervisor.paused_steps \in Nat
  BY DEF BudgetInv, HandInv, SupervisorRecords
<1>2. UNCHANGED <<applied, final_status>>
  BY DEF Observe, report
<1>3. QED
  BY <1>1, <1>2 DEF BudgetInv, BudgetAccounted, PausedStep

LEMMA BudgetStep == BudgetInv /\ [Next]_vars => BudgetInv'
<1> SUFFICES ASSUME BudgetInv, [Next]_vars PROVE BudgetInv'
  OBVIOUS
<1>h. HandInv /\ HandInv' /\ EpisodeInv'
  BY HandStep, EpisodeStep DEF BudgetInv
<1>p. supervisor.paused_steps \in Nat
  BY <1>h DEF HandInv, SupervisorRecords
<1>s. gripper.task_status \in TaskStatuses /\ gripper'.task_status \in TaskStatuses
  BY <1>h DEF BudgetInv, EpisodeInv, Agree, PhaseAgrees, HoldsFirmly, GripperRecords
<1>1. CASE Observe
  <2>1. /\ pc = "observe"
        /\ UNCHANGED <<applied, gripper, final_status>>
    BY <1>1 DEF Observe, report
  <2>2. CASE hand
    <3>1. PausedStep /\ supervisor' = AfterHand(supervisor)
      BY <1>1, <1>h, <2>2, ObserveCases
    <3>2. supervisor'.paused_steps = supervisor.paused_steps + 1
      BY <3>1, <1>h, AfterHandFields DEF HandInv
    <3>3. QED
      BY <1>1, <1>h, <2>1, <3>1, <3>2, PausedStepAccounts DEF BudgetInv, PausedStep
  <2>3. CASE ~hand /\ ~IsRunning(supervisor)
    <3>1. PausedStep /\ supervisor' = AfterClear(supervisor)
      BY <1>1, <1>h, <2>3, ObserveCases
    <3>2. supervisor'.paused_steps = supervisor.paused_steps + 1
      BY <3>1, <1>h, <2>3, AfterClearFields DEF HandInv
    <3>3. QED
      BY <1>1, <1>h, <2>1, <3>1, <3>2, PausedStepAccounts DEF BudgetInv, PausedStep
  <2>4. CASE ~hand /\ IsRunning(supervisor)
    <3>1. UNCHANGED <<supervisor, step_index, recorded>>
      BY <1>1, <1>h, <2>4, ObserveCases
    <3>2. QED
      BY <1>h, <2>1, <3>1 DEF BudgetInv, BudgetAccounted
  <2>5. QED
    BY <1>h, <2>2, <2>3, <2>4 DEF HandInv
<1>2. CASE Act
  <2>1. /\ pc = "act"
        /\ applied' = applied + 1 /\ step_index' = step_index + 1 /\ recorded' = recorded + 1
        /\ UNCHANGED supervisor
    BY <1>2 DEF Act
  <2>2. \/ pc' = "returned" /\ final_status' = gripper'.task_status
        \/ pc' = "observe" /\ UNCHANGED final_status
    BY <1>2 DEF Act
  <2>4. final_status = "none" /\ final_status' # "blocked_by_safety"
    BY <1>s, <2>1, <2>2 DEF BudgetInv, TaskStatuses
  <2>5. pc' \in {"observe", "act"} => final_status' = "none"
    BY <2>2, <2>4
  <2>6. BudgetAccounted'
    BY <1>p, <2>1, <2>4 DEF BudgetInv, BudgetAccounted
  <2>7. QED
    BY <1>h, <2>1, <2>5, <2>6 DEF BudgetInv
<1>3. CASE Block
  <2>1. /\ pc = "act" /\ pc' = "returned" /\ final_status' = "blocked_by_safety"
        /\ step_index' = step_index + 1 /\ recorded' = recorded + 1
        /\ UNCHANGED <<supervisor, applied, gripper>>
    BY <1>3 DEF Block, arm
  <2>2. QED
    BY <1>h, <1>p, <2>1 DEF BudgetInv, BudgetAccounted
<1>4. CASE RunOutOfSteps
  <2>1. /\ pc = "observe" /\ pc' = "returned" /\ final_status' = gripper.task_status
        /\ UNCHANGED <<step_index, recorded, supervisor, applied, gripper>>
    BY <1>4 DEF RunOutOfSteps, arm
  <2>2. QED
    BY <1>h, <1>s, <2>1 DEF BudgetInv, BudgetAccounted, TaskStatuses
<1>5. CASE TimeOut \/ PolicyRaises \/ Finish
  <2>1. /\ pc' \notin {"observe", "act"}
        /\ UNCHANGED <<step_index, recorded, supervisor, applied, gripper, final_status>>
    BY <1>5 DEF TimeOut, PolicyRaises, Finish, arm, report
  <2>2. QED
    BY <1>h, <2>1 DEF BudgetInv, BudgetAccounted
<1>6. CASE HandEnters \/ HandLeaves \/ UNCHANGED vars
  <2>1. UNCHANGED <<pc, step_index, recorded, supervisor, applied, gripper, final_status>>
    BY <1>6 DEF HandEnters, HandLeaves, vars, loop, arm, report
  <2>2. QED
    BY <1>h, <2>1 DEF BudgetInv, BudgetAccounted
<1>7. QED
  BY <1>1, <1>2, <1>3, <1>4, <1>5, <1>6 DEF Next, Program, Progress

\* range(args.max_policy_steps) counts applied, paused and blocked iterations
\* alike, and each of them leaves one record in the episode.
THEOREM BudgetIsAccounted == Spec => []BudgetAccounted
<1>1. BudgetInv => BudgetAccounted
  BY DEF BudgetInv
<1>2. QED
  BY <1>1, BudgetInit, BudgetStep, PTL DEF Spec

----------------------------------------------------------------------------
(* Types.                                                                  *)

\* An action is only due while the budget lasts, so that no iteration counts
\* past --max-policy-steps.
TypeInv ==
  /\ BudgetInv /\ TypeOK
  /\ pc = "act" => step_index < MaxPolicySteps

LEMMA NextLocationType ==
  ASSUME location \in Locations, NEW aim
  PROVE  NextLocation(aim) \in Locations
BY DEF NextLocation, Locations

LEMMA RefineTypes ==
  ASSUME NEW hand_detected, Refine(hand_detected), TypeOK
  PROVE  /\ target' \in {"coarse", "refined"} /\ refinement_attempted' \in BOOLEAN
         /\ location' \in Locations
BY DEF Refine, TypeOK, Locations, target_vars

LEMMA TypeInit == Init => TypeInv
<1>1. HardHazards \subseteq BOOLEAN /\ MaxPolicySteps \in Nat /\ MaxStalls \in Nat
  BY ControlLoopAssumption
<1>2. ResetPolicy \in PolicyRecords /\ ResetGripper \in GripperRecords
  BY DEF ResetPolicy, PolicyRecords, Phases, ResetGripper, GripperRecords, TaskStatuses
<1> SUFFICES ASSUME Init PROVE TypeInv
  OBVIOUS
<1>3. BudgetInv /\ supervisor \in SupervisorRecords
  BY HandInit, BudgetInit DEF HandInv
<1>4. /\ policy \in PolicyRecords /\ gripper \in GripperRecords /\ hazard \in BOOLEAN
      /\ hand \in BOOLEAN /\ step_index \in 0..MaxPolicySteps /\ stalls \in 0..MaxStalls
      /\ pc = "observe"
  BY <1>1, <1>2 DEF Init
<1>5. /\ near_target \in BOOLEAN /\ refinement_attempted \in BOOLEAN
      /\ target \in {"coarse", "refined"} /\ location \in Locations
      /\ event \in Events \cup {"unchecked"} /\ acts_under_hand \in Nat
      /\ applied \in Nat /\ recorded \in Nat /\ episode \in {"recording", "saved", "lost"}
      /\ final_status \in TaskStatuses \cup {"none", "blocked_by_safety"}
  BY DEF Init, Locations
<1>6. QED
  BY <1>3, <1>4, <1>5 DEF TypeInv, TypeOK

LEMMA TypeStep == TypeInv /\ [Next]_vars => TypeInv'
<1> SUFFICES ASSUME TypeInv, [Next]_vars PROVE TypeInv'
  OBVIOUS
<1>b. BudgetInv /\ BudgetInv' /\ TypeOK
  BY BudgetStep DEF TypeInv
<1>t. /\ supervisor' \in SupervisorRecords /\ hand' \in BOOLEAN /\ acts_under_hand' \in Nat
      /\ policy' \in PolicyRecords /\ gripper' \in GripperRecords
      /\ applied' \in Nat /\ recorded' \in Nat
  BY <1>b DEF BudgetInv, HandInv, EpisodeInv, Agree, PhaseAgrees, HoldsFirmly
<1>n. MaxPolicySteps \in Nat
  BY ControlLoopAssumption
<1>1. CASE Observe
  <2>1. /\ pc = "observe" /\ step_index < MaxPolicySteps
        /\ UNCHANGED <<hazard, near_target, stalls, final_status, episode>>
    BY <1>1 DEF Observe, report
  <2>2. \/ event' # "none" /\ PausedStep
        \/ event' = "none" /\ pc' = "act" /\ UNCHANGED step_index
    BY <1>1 DEF Observe
  <2>3. event' \in Events
    BY <1>1, <1>b, ObserveCases DEF BudgetInv, Events
  <2>4. /\ target' \in {"coarse", "refined"} /\ refinement_attempted' \in BOOLEAN
        /\ location' \in Locations
    BY <1>1, <1>b, RefineTypes DEF Observe
  <2>5. /\ pc' \in {"observe", "act"} /\ step_index' \in 0..MaxPolicySteps
        /\ pc' = "act" => step_index' < MaxPolicySteps
    BY <1>b, <1>n, <2>1, <2>2 DEF PausedStep, TypeOK
  <2>6. QED
    BY <1>b, <1>t, <2>1, <2>3, <2>4, <2>5 DEF TypeInv, TypeOK
<1>2. CASE Act
  <2>1. /\ pc = "act" /\ step_index' = step_index + 1
        /\ UNCHANGED <<hazard, event, target, refinement_attempted, episode>>
        /\ near_target' \in BOOLEAN
    BY <1>2 DEF Act, target_vars
  <2>2. \/ pc' = "returned" /\ final_status' = gripper'.task_status
        \/ pc' = "observe" /\ UNCHANGED final_status
    BY <1>2 DEF Act
  <2>3. gripper'.task_status \in TaskStatuses
    BY <1>t DEF GripperRecords
  <2>4. location' \in Locations /\ stalls' \in 0..MaxStalls
    <3>1. PICK aim : Move(aim)
      BY <1>2 DEF Act
    <3>2. NextLocation(aim) \in Locations /\ location \in Locations
      BY <1>b, NextLocationType DEF TypeOK
    <3>3. stalls \in 0..MaxStalls /\ MaxStalls \in Nat
      BY <1>b, ControlLoopAssumption DEF TypeOK
    <3>4. QED
      BY <3>1, <3>2, <3>3 DEF Move
  <2>5. step_index' \in 0..MaxPolicySteps
    BY <1>b, <1>n, <2>1 DEF TypeInv, TypeOK
  <2>6. QED
    BY <1>b, <1>t, <2>1, <2>2, <2>3, <2>4, <2>5 DEF TypeInv, TypeOK
<1>3. CASE Block
  <2>1. /\ pc = "act" /\ pc' = "returned" /\ step_index' = step_index + 1
        /\ final_status' = "blocked_by_safety" /\ near_target' \in BOOLEAN
        /\ UNCHANGED <<hazard, event, target, refinement_attempted, location, stalls, episode>>
    BY <1>3 DEF Block, target_vars, arm
  <2>2. step_index' \in 0..MaxPolicySteps
    BY <1>b, <1>n, <2>1 DEF TypeInv, TypeOK
  <2>3. QED
    BY <1>b, <1>t, <2>1, <2>2 DEF TypeInv, TypeOK
<1>4. CASE RunOutOfSteps \/ TimeOut \/ PolicyRaises \/ Finish
  <2>1. /\ pc' \in {"returned", "raised", "closed"}
        /\ UNCHANGED <<step_index, hazard, event, near_target, target, refinement_attempted,
                       location, stalls>>
    BY <1>4 DEF RunOutOfSteps, TimeOut, PolicyRaises, Finish, target_vars, arm
  <2>2. gripper.task_status \in TaskStatuses
    BY <1>b DEF TypeOK, GripperRecords
  <2>3. /\ final_status' \in TaskStatuses \cup {"none", "blocked_by_safety"}
        /\ episode' \in {"recording", "saved", "lost"}
    BY <1>4, <1>b, <2>2 DEF RunOutOfSteps, TimeOut, PolicyRaises, Finish, report, TypeOK
  <2>4. QED
    BY <1>b, <1>t, <2>1, <2>3 DEF TypeInv, TypeOK
<1>5. CASE HandEnters \/ HandLeaves \/ UNCHANGED vars
  <2>1. UNCHANGED <<pc, step_index, hazard, event, near_target, target, refinement_attempted,
                    location, stalls, final_status, episode>>
    BY <1>5 DEF HandEnters, HandLeaves, vars, loop, target_vars, arm, report
  <2>2. QED
    BY <1>b, <1>t, <2>1 DEF TypeInv, TypeOK
<1>6. QED
  BY <1>1, <1>2, <1>3, <1>4, <1>5 DEF Next, Program, Progress

\* TypeOK, in particular that no episode takes more than its budget of steps.
THEOREM LoopTypes == Spec => []TypeOK
<1>1. TypeInv => TypeOK
  BY DEF TypeInv
<1>2. QED
  BY <1>1, TypeInit, TypeStep, PTL DEF Spec

----------------------------------------------------------------------------
(* What the budget buys.  Every applied action takes the arm a leg further *)
(* or is a stall, so that the actions still owed to the delivery can be    *)
(* counted; a paused iteration owes as many after it as before.            *)

\* Actions at the grasp until the fingers are closed.
Stabilizing == IF StabilizationSteps = 0 THEN 1 ELSE StabilizationSteps

\* Two legs to the grasp target, up to two more when refinement moves it, and
\* four from there into the bin; every stall is one more.
ActsNeeded == 6 + Stabilizing + (IF WristRefine THEN 2 ELSE 0) + MaxStalls

\* The time box of move_above_bin has room for its two legs and the release.
TimeBoxCovers == MaxMoveAboveBinSteps >= 3 + MaxStalls

Reserve == IF WristRefine /\ ~refinement_attempted THEN 2 ELSE 0

\* n actions more, and the stalls that are left, fit.
Room(n) == applied + n + (MaxStalls - stalls) <= ActsNeeded
Box(n) == policy.move_above_bin_steps + n + (MaxStalls - stalls) <= MaxMoveAboveBinSteps

Approaching ==
  /\ policy.phase = "move_to_object" /\ Untouched(gripper)
  /\ \/ location = "away" /\ Room(6 + Stabilizing + Reserve)
     \/ location = "close" /\ Room(5 + Stabilizing + Reserve)
     \/ location = "grasp" /\ Room(4 + Stabilizing + Reserve)

Steadying ==
  /\ policy.phase = "stabilize" /\ Untouched(gripper) /\ location = "grasp"
  /\ policy.stabilization_counter \in 1..(StabilizationSteps - 1)
  /\ Room(4 + StabilizationSteps - policy.stabilization_counter)

Lifting ==
  /\ gripper.held_object
  /\ \/ policy.phase \in {"close_gripper", "lift_object"} /\ location = "grasp" /\ Room(4)
     \/ policy.phase = "lift_object" /\ location = "lift" /\ Room(3)

Carrying ==
  /\ gripper.held_object /\ policy.phase = "move_above_bin"
  /\ \/ location = "lift" /\ Room(3) /\ Box(3)
     \/ location = "above_bin" /\ Room(2) /\ Box(2)
     \/ location = "drop" /\ Room(1) /\ Box(1)

OnTheWay == Approaching \/ Steadying \/ Lifting \/ Carrying

Delivered == final_status = "success" \/ MaxPolicySteps < supervisor.paused_steps + ActsNeeded

RouteInv ==
  /\ pc \in {"observe", "act"} => OnTheWay
  /\ pc = "returned" /\ ~hazard => Delivered
  /\ episode = "saved" => pc = "closed" /\ (~hazard => Delivered)

\* A loop that never paused has no paused steps.
PauseInv ==
  supervisor.pause_count = 0 => IsRunning(supervisor) /\ supervisor.paused_steps = 0

\* The answers on the way, with the counters they leave.

AnswerIs(a, phase, aim, command) ==
  a.policy.phase = phase /\ a.aim = aim /\ a.gripper = command /\ a.done = (phase = "done")

LEMMA AnswersClose ==
  ASSUME NEW p \in PolicyRecords, NEW o, ~o.held, o.status = "running"
  PROVE  AnswerIs(InCloseGripper(p, o), "close_gripper", "stay", "close")
<1> DEFINE q == [p EXCEPT !.phase = "close_gripper"]
<1>1. q.phase = "close_gripper"
  BY PolicyFields DEF Phases
<1>2. InCloseGripper(p, o) = Answer(q, "stay", "close", "none")
  BY DEF InCloseGripper
<1> HIDE DEF q
<1>3. QED
  BY <1>1, <1>2 DEF Answer, AnswerIs

LEMMA AnswersSteady ==
  ASSUME NEW p \in PolicyRecords, NEW o, ~o.held, o.status = "running"
  PROVE  LET a == InStabilize(p, o)
         IN IF p.stabilization_counter + 1 >= StabilizationSteps
            THEN AnswerIs(a, "close_gripper", "stay", "close")
            ELSE /\ AnswerIs(a, "stabilize", "grasp_fine", "open")
                 /\ a.policy.stabilization_counter = p.stabilization_counter + 1
<1> DEFINE n == p.stabilization_counter + 1
           q1 == [p EXCEPT !.phase = "stabilize"]
           q == [p EXCEPT !.phase = "stabilize", !.stabilization_counter = n]
<1>1. n \in Nat
  BY PolicyFields
<1>2. q1 \in PolicyRecords /\ q1.phase = "stabilize"
  BY PolicyFields DEF Phases
<1>3. q = [q1 EXCEPT !.stabilization_counter = n]
  BY DEF PolicyRecords
<1>4. q.stabilization_counter = n
  BY DEF PolicyRecords
<1>5. /\ n >= StabilizationSteps => InStabilize(p, o) = InCloseGripper(q, o)
      /\ ~(n >= StabilizationSteps) => InStabilize(p, o) = Answer(q, "grasp_fine", "open", "none")
  BY <1>4 DEF InStabilize
<1> HIDE DEF n, q1
<1>6. q \in PolicyRecords /\ q.phase = "stabilize"
  BY <1>1, <1>2, <1>3, PolicyFields
<1> HIDE DEF q
<1>7. n >= StabilizationSteps => AnswerIs(InStabilize(p, o), "close_gripper", "stay", "close")
  BY <1>5, <1>6, AnswersClose
<1>8. ~(n >= StabilizationSteps) =>
        /\ AnswerIs(InStabilize(p, o), "stabilize", "grasp_fine", "open")
        /\ InStabilize(p, o).policy.stabilization_counter = n
  BY <1>4, <1>5, <1>6 DEF Answer, AnswerIs
<1>9. QED
  BY <1>7, <1>8 DEF n

LEMMA AnswersApproach ==
  ASSUME NEW p \in PolicyRecords, p.phase = "move_to_object", NEW o, ~o.held,
         o.status = "running"
  PROVE  LET a == Predict(p, o)
         IN /\ ~o.at_grasp => AnswerIs(a, "move_to_object", "grasp", "open")
            /\ o.at_grasp =>
                 IF Stabilizing = 1
                 THEN AnswerIs(a, "close_gripper", "stay", "close")
                 ELSE /\ AnswerIs(a, "stabilize", "grasp_fine", "open")
                      /\ a.policy.stabilization_counter = 1
<1> DEFINE q == [p EXCEPT !.stabilization_counter = 0]
           a == Predict(p, o)
<1>1. q \in PolicyRecords /\ q.stabilization_counter = 0
  BY DEF PolicyRecords
<1>2. a = InMoveToObject(p, o)
  BY DEF Predict
<1>3. StabilizationSteps \in Nat
  BY PolicyConstantsAssumption
<1>4. ~o.at_grasp => AnswerIs(a, "move_to_object", "grasp", "open")
  BY <1>2 DEF InMoveToObject, Answer, AnswerIs
<1>5. CASE o.at_grasp /\ StabilizationSteps = 0
  <2>1. a = InCloseGripper(p, o)
    BY <1>2, <1>3, <1>5 DEF InMoveToObject
  <2>2. AnswerIs(a, "close_gripper", "stay", "close")
    BY <2>1, AnswersClose
  <2>3. QED
    BY <1>5, <2>2 DEF Stabilizing
<1>6. CASE o.at_grasp /\ StabilizationSteps # 0
  <2>1. a = InStabilize(q, o)
    BY <1>2, <1>3, <1>6 DEF InMoveToObject
  <2>2. Stabilizing = StabilizationSteps /\ (0 + 1 >= StabilizationSteps <=> Stabilizing = 1)
    BY <1>3, <1>6 DEF Stabilizing
  <2> HIDE DEF a, q
  <2>3. IF Stabilizing = 1
        THEN AnswerIs(a, "close_gripper", "stay", "close")
        ELSE /\ AnswerIs(a, "stabilize", "grasp_fine", "open")
             /\ a.policy.stabilization_counter = 0 + 1
    BY <1>1, <2>1, <2>2, AnswersSteady
  <2>4. QED
    BY <1>6, <2>3 DEF a
<1>7. QED
  BY <1>4, <1>5, <1>6

LEMMA AnswersTravel ==
  ASSUME NEW p \in PolicyRecords, NEW o, o.held, o.status # "success"
  PROVE  LET a == InMoveAboveBin(p, o)
         IN /\ ~o.at_stage /\ ~o.at_drop_height
                 /\ p.move_above_bin_steps + 1 < MaxMoveAboveBinSteps =>
                 /\ AnswerIs(a, "move_above_bin", IF o.aligned THEN "drop" ELSE "carry", "close")
                 /\ a.policy.move_above_bin_steps = p.move_above_bin_steps + 1
            /\ o.at_stage => AnswerIs(a, "open_gripper", "stay", "open")
<1> DEFINE steps == p.move_above_bin_steps + 1
           q1 == [p EXCEPT !.phase = "move_above_bin"]
           q == [p EXCEPT !.phase = "move_above_bin", !.move_above_bin_steps = steps]
           r == [q EXCEPT !.phase = "open_gripper"]
           a == InMoveAboveBin(p, o)
<1>1. steps \in Nat /\ MaxMoveAboveBinSteps \in Nat
  BY PolicyFields, PolicyConstantsAssumption
<1>2. q1 \in PolicyRecords /\ q1.phase = "move_above_bin"
  BY PolicyFields DEF Phases
<1>3. q = [q1 EXCEPT !.move_above_bin_steps = steps]
  BY DEF PolicyRecords
<1>4. OpensAboveBin(p, o, steps) => a = InOpenGripper(q, o, OpenReason(o))
  BY DEF InMoveAboveBin
<1>5. ~OpensAboveBin(p, o, steps) =>
        a = Answer(q, IF o.aligned THEN "drop" ELSE "carry", "close", "none")
  BY DEF InMoveAboveBin
<1>6. InOpenGripper(q, o, OpenReason(o)) = Answer(r, "stay", "open", OpenReason(o))
  BY DEF InOpenGripper
<1> HIDE DEF a, q1, steps
<1>7. q \in PolicyRecords /\ q.phase = "move_above_bin" /\ q.move_above_bin_steps = steps
  BY <1>1, <1>2, <1>3, PolicyFields
<1> HIDE DEF q
<1>8. r.phase = "open_gripper"
  BY <1>7, PolicyFields DEF Phases
<1> HIDE DEF r
<1>9. ASSUME ~o.at_stage, ~o.at_drop_height, steps < MaxMoveAboveBinSteps
      PROVE  /\ AnswerIs(a, "move_above_bin", IF o.aligned THEN "drop" ELSE "carry", "close")
             /\ a.policy.move_above_bin_steps = steps
  <2>1. ~OpensAboveBin(p, o, steps)
    BY <1>1, <1>9 DEF OpensAboveBin
  <2>2. QED
    BY <1>5, <1>7, <2>1 DEF Answer, AnswerIs
<1>10. ASSUME o.at_stage PROVE AnswerIs(a, "open_gripper", "stay", "open")
  BY <1>4, <1>6, <1>8, <1>10 DEF OpensAboveBin, Answer, AnswerIs
<1>11. QED
  BY <1>9, <1>10 DEF a, steps

LEMMA AnswersLift ==
  ASSUME NEW p \in PolicyRecords, p.phase \in {"close_gripper", "lift_object"},
         NEW o, o.held, o.status # "success", ~o.at_stage, ~o.at_drop_height,
         1 < MaxMoveAboveBinSteps
  PROVE  LET a == Predict(p, o)
         IN /\ ~o.at_lift => AnswerIs(a, "lift_object", "lift", "close")
            /\ o.at_lift =>
                 /\ AnswerIs(a, "move_above_bin", IF o.aligned THEN "drop" ELSE "carry", "close")
                 /\ a.policy.move_above_bin_steps = 1
<1>1. ASSUME NEW q \in PolicyRecords
      PROVE  LET a == InLiftObject(q, o)
             IN /\ ~o.at_lift => AnswerIs(a, "lift_object", "lift", "close")
                /\ o.at_lift =>
                     /\ AnswerIs(a, "move_above_bin", IF o.aligned THEN "drop" ELSE "carry", "close")
                     /\ a.policy.move_above_bin_steps = 1
  <2> DEFINE q1 == [q EXCEPT !.phase = "lift_object"]
             q2 == [q1 EXCEPT !.move_above_bin_steps = 0]
  <2>1. q1 \in PolicyRecords /\ q1.phase = "lift_object"
    BY PolicyFields DEF Phases
  <2>2. q2 \in PolicyRecords /\ q2.move_above_bin_steps = 0
    BY <2>1, PolicyFields
  <2>3. /\ ~o.at_lift => InLiftObject(q, o) = Answer(q1, "lift", "close", "none")
        /\ o.at_lift => InLiftObject(q, o) = InMoveAboveBin(q2, o)
    BY DEF InLiftObject
  <2> HIDE DEF q1, q2
  <2>4. ~o.at_lift => AnswerIs(InLiftObject(q, o), "lift_object", "lift", "close")
    BY <2>1, <2>3 DEF Answer, AnswerIs
  <2>5. q2.move_above_bin_steps + 1 = 1
    BY <2>2
  <2>6. /\ AnswerIs(InMoveAboveBin(q2, o), "move_above_bin",
                    IF o.aligned THEN "drop" ELSE "carry", "close")
        /\ InMoveAboveBin(q2, o).policy.move_above_bin_steps = 1
    BY <2>2, <2>5, AnswersTravel
  <2>7. QED
    BY <2>3, <2>4, <2>6
<1> DEFINE c == [p EXCEPT !.phase = "close_gripper"]
<1>2. c \in PolicyRecords
  BY PolicyFields DEF Phases
<1>3. Predict(p, o) = InLiftObject(c, o) \/ Predict(p, o) = InLiftObject(p, o)
  BY DEF Predict, InCloseGripper
<1> HIDE DEF c
<1>4. QED
  BY <1>1, <1>2, <1>3

\* A leg is made or costs a stall.
LEMMA LegOrStall ==
  ASSUME NEW n \in Int, Room(n), applied \in Nat, applied' = applied + 1,
         stalls \in 0..MaxStalls, NEW aim, Move(aim)
  PROVE  \/ location' = NextLocation(aim) /\ stalls' = stalls /\ Room(n - 1)'
         \/ /\ location' = location /\ NextLocation(aim) # location
            /\ stalls' = stalls + 1 /\ stalls' <= MaxStalls /\ Room(n)'
<1>1. /\ MaxStalls \in Nat /\ StabilizationSteps \in Nat
      /\ ActsNeeded \in Nat
  BY ControlLoopAssumption, PolicyConstantsAssumption DEF ActsNeeded, Stabilizing
<1> HIDE DEF ActsNeeded
<1>2. CASE location' = NextLocation(aim) /\ UNCHANGED stalls
  BY <1>1, <1>2 DEF Room
<1>3. CASE /\ NextLocation(aim) # location /\ stalls < MaxStalls
           /\ location' = location /\ stalls' = stalls + 1
  BY <1>1, <1>3 DEF Room
<1>4. QED
  BY <1>2, <1>3 DEF Move

\* One applied action, part by part.
LEMMA ActParts ==
  ASSUME TypeInv, Act, NEW a, a = Predict(policy, Observation)
  PROVE  /\ ~hazard /\ policy' = a.policy /\ Move(a.aim)
         /\ gripper' = ApplyGripper(gripper, a.gripper, location' = "grasp", location' = "drop")
         /\ IF Returns(a.done, gripper'.task_status)
            THEN pc' = "returned" /\ final_status' = gripper'.task_status
            ELSE pc' = "observe"
         /\ applied' = applied + 1 /\ Reserve' = Reserve
         /\ policy' \in PolicyRecords
         /\ applied \in Nat /\ stalls \in 0..MaxStalls
         /\ policy \in PolicyRecords /\ HoldsFirmly(gripper)
         /\ Observation.held = gripper.held_object
         /\ Observation.status = gripper.task_status
         /\ (Observation.at_grasp <=> location = "grasp")
         /\ (Observation.at_lift <=> location = "lift")
         /\ (Observation.aligned <=> location \in {"above_bin", "drop"})
         /\ (Observation.at_stage <=> location = "drop")
         /\ (Observation.at_drop_height <=> location = "drop")
<1>1. /\ ~hazard /\ policy' = a.policy /\ Move(a.aim)
      /\ gripper' = ApplyGripper(gripper, a.gripper, location' = "grasp", location' = "drop")
      /\ IF Returns(a.done, gripper'.task_status)
         THEN pc' = "returned" /\ final_status' = gripper'.task_status
         ELSE pc' = "observe"
      /\ applied' = applied + 1 /\ Reserve' = Reserve
  BY DEF Act, GateAllows, Reserve, target_vars
<1>2. /\ applied \in Nat /\ stalls \in 0..MaxStalls
      /\ policy \in PolicyRecords /\ HoldsFirmly(gripper)
  BY DEF TypeInv, TypeOK, BudgetInv, EpisodeInv, Agree, PhaseAgrees
<1>3. policy' \in PolicyRecords
  BY <1>1, <1>2, PredictContinues
<1>4. QED
  BY <1>1, <1>2, <1>3 DEF Observation

\* What a command does to a gripper that is already where it tells it to be.
LEMMA CommandsRepeat ==
  ASSUME HoldsFirmly(gripper), NEW near, NEW over_bin
  PROVE  /\ Untouched(gripper) => ApplyGripper(gripper, "open", near, over_bin) = gripper
         /\ gripper.held_object => ApplyGripper(gripper, "close", near, over_bin) = gripper
BY DEF HoldsFirmly, Untouched, ApplyGripper, Actuates

LEMMA ClosesOnObject ==
  ASSUME HoldsFirmly(gripper), Untouched(gripper), NEW near, near, NEW over_bin
  PROVE  LET h == ApplyGripper(gripper, "close", near, over_bin)
         IN h.held_object /\ h.task_status = "grasped"
BY CloseGrasps DEF HoldsFirmly, Untouched

\* From the approach to the closed fingers.
LEMMA ActBeforeGrasp ==
  ASSUME TypeInv, Act, Approaching \/ Steadying
  PROVE  OnTheWay' /\ pc' = "observe"
<1> DEFINE a == Predict(policy, Observation)
           o == Observation
           closes == AnswerIs(a, "close_gripper", "stay", "close")
<1>1. /\ policy' = a.policy /\ Move(a.aim)
      /\ gripper' = ApplyGripper(gripper, a.gripper, location' = "grasp", location' = "drop")
      /\ IF Returns(a.done, gripper'.task_status)
         THEN pc' = "returned" /\ final_status' = gripper'.task_status
         ELSE pc' = "observe"
      /\ applied' = applied + 1 /\ Reserve' = Reserve /\ policy' \in PolicyRecords
      /\ applied \in Nat /\ stalls \in 0..MaxStalls
      /\ policy \in PolicyRecords /\ HoldsFirmly(gripper)
      /\ (o.at_grasp <=> location = "grasp")
  BY ActParts
<1>2. /\ Untouched(gripper) /\ gripper.task_status = "running"
      /\ ~o.held /\ o.status = "running"
  BY DEF Observation, Approaching, Steadying, Untouched
<1>3. /\ StabilizationSteps \in Nat /\ Stabilizing \in Nat /\ Reserve \in {0, 2}
      /\ Stabilizing >= 1 /\ (Stabilizing # 1 => StabilizationSteps = Stabilizing)
  BY PolicyConstantsAssumption DEF Stabilizing, Reserve
<1> HIDE DEF a, o, closes
<1>4. ASSUME AnswerIs(a, "move_to_object", "grasp", "open")
             \/ AnswerIs(a, "stabilize", "grasp_fine", "open")
      PROVE  gripper' = gripper /\ pc' = "observe"
  <2>1. gripper' = gripper
    BY <1>1, <1>2, <1>4, CommandsRepeat DEF AnswerIs
  <2>2. QED
    BY <1>1, <1>2, <1>4, <2>1 DEF AnswerIs, Returns
\* The fingers close.
<1>5. ASSUME closes, location = "grasp", Room(5) PROVE OnTheWay' /\ pc' = "observe"
  <2>1. location' = "grasp" /\ Room(5 - 1)'
    BY <1>1, <1>5, LegOrStall DEF closes, AnswerIs, NextLocation
  <2>2. gripper'.held_object /\ gripper'.task_status = "grasped"
    <3> DEFINE near == location' = "grasp"
               over_bin == location' = "drop"
    <3>1. near /\ gripper' = ApplyGripper(gripper, "close", near, over_bin)
      BY <1>1, <1>5, <2>1 DEF closes, AnswerIs
    <3> HIDE DEF near, over_bin
    <3>2. QED
      BY <1>1, <1>2, <3>1, ClosesOnObject
  <2>3. pc' = "observe" /\ policy'.phase = "close_gripper"
    BY <1>1, <1>5, <2>2 DEF closes, AnswerIs, Returns
  <2>4. QED
    BY <2>1, <2>2, <2>3 DEF OnTheWay, Lifting
<1>6. CASE Approaching /\ location # "grasp"
  <2>1. AnswerIs(a, "move_to_object", "grasp", "open")
    BY <1>1, <1>2, <1>6, AnswersApproach DEF Approaching, a, o
  <2>2. gripper' = gripper /\ pc' = "observe" /\ policy'.phase = "move_to_object"
    BY <1>1, <1>4, <2>1 DEF AnswerIs
  <2> DEFINE n == 5 + Stabilizing + Reserve
  <2>3. n \in Int /\ n + 1 \in Int /\ (n + 1) - 1 = n
        /\ n + 1 = 6 + Stabilizing + Reserve /\ n - 1 = 4 + Stabilizing + Reserve
    BY <1>3
  <2>4. Stabilizing' = Stabilizing
    BY DEF Stabilizing
  <2>5. n' = n
    BY <1>1, <2>4
  <2> HIDE DEF n
  <2>6. CASE location = "away" /\ Room(n + 1)
    <3>1. NextLocation(a.aim) = "close"
      BY <2>1, <2>6 DEF AnswerIs, NextLocation
    <3>2. \/ location' = "close" /\ Room(n)'
          \/ location' = "away" /\ Room(n + 1)'
      BY <1>1, <2>3, <2>5, <2>6, <3>1, LegOrStall
    <3>3. QED
      BY <1>1, <1>2, <2>2, <2>3, <2>4, <2>5, <3>2 DEF OnTheWay, Approaching, n, Room
  <2>7. CASE location = "close" /\ Room(n)
    <3>1. NextLocation(a.aim) = "grasp"
      BY <2>1, <2>7 DEF AnswerIs, NextLocation
    <3>2. \/ location' = "grasp" /\ Room(n - 1)'
          \/ location' = "close" /\ Room(n)'
      BY <1>1, <2>3, <2>5, <2>7, <3>1, LegOrStall
    <3>3. QED
      BY <1>1, <1>2, <2>2, <2>3, <2>4, <2>5, <3>2 DEF OnTheWay, Approaching, n, Room
  <2>8. QED
    BY <1>6, <2>3, <2>6, <2>7 DEF Approaching, n
<1>7. CASE Approaching /\ location = "grasp"
  <2> DEFINE n == 4 + Stabilizing + Reserve
  <2>1. Room(n) /\ n \in Int /\ n >= 4 + Stabilizing
    BY <1>3, <1>7 DEF Approaching
  <2>2. IF Stabilizing = 1 THEN closes
        ELSE /\ AnswerIs(a, "stabilize", "grasp_fine", "open")
             /\ a.policy.stabilization_counter = 1
    BY <1>1, <1>2, <1>7, AnswersApproach DEF Approaching, a, o, closes
  <2> HIDE DEF n
  <2>3. \A m \in Int : m <= n => Room(m)
    BY <1>1, <2>1, ControlLoopAssumption, PolicyConstantsAssumption
       DEF Room, ActsNeeded, Stabilizing
  <2>4. CASE Stabilizing = 1
    BY <1>5, <1>7, <2>1, <2>2, <2>3, <2>4
  <2>5. CASE Stabilizing # 1
    <3>1. gripper' = gripper /\ pc' = "observe" /\ policy'.phase = "stabilize"
          /\ policy'.stabilization_counter = 1
      BY <1>1, <1>4, <2>2, <2>5 DEF AnswerIs
    <3>2. Room(4 + StabilizationSteps)
      BY <1>3, <2>1, <2>3, <2>5
    <3>3. location' = "grasp" /\ Room(4 + StabilizationSteps - 1)'
      BY <1>1, <1>3, <1>7, <2>2, <2>5, <3>2, LegOrStall DEF AnswerIs, NextLocation
    <3>4. 1 \in 1..(StabilizationSteps - 1)
      BY <1>3, <2>5
    <3>5. QED
      BY <1>2, <3>1, <3>3, <3>4 DEF OnTheWay, Steadying, Untouched, Room
  <2>6. QED
    BY <2>4, <2>5
<1>8. CASE Steadying
  <2> DEFINE c == policy.stabilization_counter
             n == 4 + StabilizationSteps - c
  <2>1. Room(n) /\ c \in 1..(StabilizationSteps - 1) /\ location = "grasp"
    BY <1>8 DEF Steadying
  <2>2. n \in Int /\ n >= 5 /\ c \in Nat
    BY <1>3, <2>1
  <2>3. IF c + 1 >= StabilizationSteps THEN closes
        ELSE /\ AnswerIs(a, "stabilize", "grasp_fine", "open")
             /\ a.policy.stabilization_counter = c + 1
    <3>1. Predict(policy, o) = InStabilize(policy, o)
      BY <1>8 DEF Steadying, Predict
    <3>2. QED
      BY <1>1, <1>2, <3>1, AnswersSteady DEF a, o, closes
  <2>4. CASE c + 1 >= StabilizationSteps
    <3>1. n = 5
      BY <1>3, <2>1, <2>4
    <3>2. QED
      BY <1>5, <2>1, <2>3, <2>4, <3>1
  <2>5. CASE ~(c + 1 >= StabilizationSteps)
    <3>1. gripper' = gripper /\ pc' = "observe" /\ policy'.phase = "stabilize"
          /\ policy'.stabilization_counter = c + 1
      BY <1>1, <1>4, <2>3, <2>5 DEF AnswerIs
    <3>2. PICK k \in Int : k = n
      BY <2>2
    <3>3. Room(k)
      BY <2>1, <3>2
    <3>4. location' = "grasp" /\ Room(k - 1)'
      BY <1>1, <2>1, <2>3, <2>5, <3>3, LegOrStall DEF AnswerIs, NextLocation
    <3>5. k - 1 = 4 + StabilizationSteps - (c + 1) /\ c + 1 \in 1..(StabilizationSteps - 1)
      BY <1>3, <2>1, <2>2, <2>5, <3>2
    <3>6. QED
      BY <1>2, <3>1, <3>4, <3>5 DEF OnTheWay, Steadying, Untouched, Room
  <2>6. QED
    BY <2>4, <2>5
<1>9. QED
  BY <1>6, <1>7, <1>8

\* From the closed fingers to the release.
LEMMA ActAfterGrasp ==
  ASSUME TimeBoxCovers, TypeInv, Act, Lifting \/ Carrying
  PROVE  \/ OnTheWay' /\ pc' = "observe"
         \/ pc' = "returned" /\ final_status' = "success"
<1> DEFINE a == Predict(policy, Observation)
           o == Observation
           near == location' = "grasp"
           over_bin == location' = "drop"
<1>1. /\ policy' = a.policy /\ Move(a.aim)
      /\ gripper' = ApplyGripper(gripper, a.gripper, near, over_bin)
      /\ IF Returns(a.done, gripper'.task_status)
         THEN pc' = "returned" /\ final_status' = gripper'.task_status
         ELSE pc' = "observe"
      /\ applied' = applied + 1
      /\ applied \in Nat /\ stalls \in 0..MaxStalls
      /\ policy \in PolicyRecords /\ HoldsFirmly(gripper)
      /\ (o.at_lift <=> location = "lift")
      /\ (o.aligned <=> location \in {"above_bin", "drop"})
      /\ (o.at_stage <=> location = "drop")
      /\ (o.at_drop_height <=> location = "drop")
  BY ActParts
<1>2. /\ gripper.held_object /\ gripper.task_status = "grasped"
      /\ o.held /\ o.status = "grasped"
  BY <1>1 DEF Observation, Lifting, Carrying, HoldsFirmly
<1>3. /\ MaxStalls \in Nat /\ MaxMoveAboveBinSteps \in Nat /\ MaxMoveAboveBinSteps >= 3 + MaxStalls
      /\ stalls \in Nat /\ stalls <= MaxStalls /\ policy.move_above_bin_steps \in Nat
  BY <1>1, ControlLoopAssumption, PolicyConstantsAssumption, PolicyFields DEF TimeBoxCovers
<1> HIDE DEF a, o, near
<1>4. ASSUME a.gripper = "close", a.done = FALSE
      PROVE  gripper' = gripper /\ pc' = "observe"
  <2>1. gripper' = gripper
    BY <1>1, <1>2, <1>4, CommandsRepeat
  <2>2. QED
    BY <1>1, <1>2, <1>4, <2>1 DEF Returns
\* A step of the count of move_above_bin.
<1>5. ASSUME NEW n \in Int, Box(n),
             policy'.move_above_bin_steps = policy.move_above_bin_steps + 1
      PROVE  /\ stalls' = stalls => Box(n - 1)'
             /\ stalls' = stalls + 1 => Box(n)'
  BY <1>3, <1>5 DEF Box
<1>6. CASE Lifting /\ location = "grasp"
  <2>1. AnswerIs(a, "lift_object", "lift", "close")
    BY <1>1, <1>2, <1>3, <1>6, AnswersLift DEF Lifting, a, o
  <2>2. Room(4) /\ NextLocation(a.aim) = "lift" /\ 4 - 1 = 3
    BY <1>6, <2>1 DEF Lifting, AnswerIs, NextLocation
  <2>3. \/ location' = "lift" /\ Room(3)'
        \/ location' = "grasp" /\ Room(4)'
    BY <1>1, <1>6, <2>2, LegOrStall
  <2>4. QED
    BY <1>1, <1>2, <1>4, <2>1, <2>3 DEF OnTheWay, Lifting, AnswerIs
<1>7. ASSUME AnswerIs(a, "move_above_bin", "carry", "close"), location = "lift", Room(3),
             Box(3)' \/ stalls' = stalls, stalls' = stalls => Box(2)'
      PROVE  OnTheWay' /\ pc' = "observe"
  <2>1. NextLocation(a.aim) = "above_bin" /\ 3 - 1 = 2
    BY <1>7 DEF AnswerIs, NextLocation
  <2>2. \/ location' = "above_bin" /\ stalls' = stalls /\ Room(2)'
        \/ location' = "lift" /\ stalls' = stalls + 1 /\ Room(3)'
    BY <1>1, <1>7, <2>1, LegOrStall
  <2>3. stalls + 1 # stalls
    BY <1>3
  <2>4. QED
    BY <1>1, <1>2, <1>4, <1>7, <2>2, <2>3 DEF OnTheWay, Carrying, AnswerIs
<1>8. CASE Lifting /\ location = "lift"
  <2>1. AnswerIs(a, "move_above_bin", "carry", "close") /\ a.policy.move_above_bin_steps = 1
    BY <1>1, <1>2, <1>3, <1>8, AnswersLift DEF Lifting, a, o
  <2>2. /\ stalls' = stalls => Box(2)'
        /\ stalls' = stalls + 1 => Box(3)'
    BY <1>1, <1>3, <2>1 DEF Box
  <2>3. stalls' = stalls \/ stalls' = stalls + 1
    BY <1>1 DEF Move
  <2>4. QED
    BY <1>7, <1>8, <2>1, <2>2, <2>3 DEF Lifting
<1>9. CASE Carrying /\ location # "drop"
  <2>1. /\ policy.move_above_bin_steps + 1 < MaxMoveAboveBinSteps
        /\ policy.phase = "move_above_bin"
    BY <1>3, <1>9 DEF Carrying, Box
  <2>2. a = InMoveAboveBin(policy, o)
    BY <2>1 DEF a, o, Predict
  <2>3. /\ AnswerIs(a, "move_above_bin", IF o.aligned THEN "drop" ELSE "carry", "close")
        /\ a.policy.move_above_bin_steps = policy.move_above_bin_steps + 1
    BY <1>1, <1>2, <1>9, <2>1, <2>2, AnswersTravel
  <2>4. stalls' = stalls \/ stalls' = stalls + 1
    BY <1>1 DEF Move
  <2>5. CASE location = "lift"
    <3>1. AnswerIs(a, "move_above_bin", "carry", "close") /\ Room(3) /\ Box(3) /\ 3 - 1 = 2
      BY <1>1, <1>9, <2>3, <2>5 DEF Carrying
    <3>2. /\ stalls' = stalls => Box(2)'
          /\ stalls' = stalls + 1 => Box(3)'
      BY <1>1, <1>5, <2>3, <3>1
    <3>3. QED
      BY <1>7, <2>4, <2>5, <3>1, <3>2
  <2>6. CASE location = "above_bin"
    <3>1. /\ AnswerIs(a, "move_above_bin", "drop", "close") /\ Room(2) /\ Box(2) /\ 2 - 1 = 1
          /\ NextLocation("drop") = "drop"
      BY <1>1, <1>9, <2>3, <2>6 DEF Carrying, NextLocation
    <3>2. /\ stalls' = stalls => Box(1)'
          /\ stalls' = stalls + 1 => Box(2)'
      BY <1>1, <1>5, <2>3, <3>1
    <3>3. \/ location' = "drop" /\ stalls' = stalls /\ Room(1)'
          \/ location' = "above_bin" /\ stalls' = stalls + 1 /\ Room(2)'
      BY <1>1, <2>6, <3>1, LegOrStall DEF AnswerIs
    <3>4. QED
      BY <1>1, <1>2, <1>4, <3>1, <3>2, <3>3 DEF OnTheWay, Carrying, AnswerIs
  <2>7. QED
    BY <1>9, <2>5, <2>6 DEF Carrying
<1>10. CASE Carrying /\ location = "drop"
  <2>1. a = InMoveAboveBin(policy, o)
    BY <1>10 DEF Carrying, a, o, Predict
  <2>2. AnswerIs(a, "open_gripper", "stay", "open")
    BY <1>1, <1>2, <1>10, <2>1, AnswersTravel
  <2>3. over_bin
    BY <1>1, <1>10, <2>2 DEF AnswerIs, Move, NextLocation
  <2> HIDE DEF over_bin
  <2>4. gripper'.task_status = "success"
    BY <1>1, <1>2, <2>2, <2>3, ReleaseReports DEF AnswerIs
  <2>5. QED
    BY <1>1, <2>4 DEF Returns
<1>11. QED
  BY <1>6, <1>8, <1>9, <1>10 DEF Lifting, Carrying

LEMMA PauseInit == Init => PauseInv
BY DEF Init, PauseInv, InitialSupervisor, IsRunning

LEMMA PauseStep == HandInv /\ PauseInv /\ [Next]_vars => PauseInv'
<1> SUFFICES ASSUME HandInv, PauseInv, [Next]_vars PROVE PauseInv'
  OBVIOUS
<1>1. CASE Observe
  <2>1. supervisor \in SupervisorRecords
    BY DEF HandInv
  <2>2. CASE supervisor' = AfterHand(supervisor)
    <3>1. /\ supervisor'.pause_count
               = supervisor.pause_count + (IF IsRunning(supervisor) THEN 1 ELSE 0)
          /\ supervisor.pause_count \in Nat
      BY <2>1, <2>2, AfterHandFields DEF SupervisorRecords
    <3>2. supervisor'.pause_count # 0
      BY <3>1 DEF PauseInv
    <3>3. QED
      BY <3>2 DEF PauseInv
  <2>3. CASE ~IsRunning(supervisor) /\ supervisor' = AfterClear(supervisor)
    <3>1. supervisor'.pause_count = supervisor.pause_count
      BY <2>1, <2>3, AfterClearFields
    <3>2. QED
      BY <2>3, <3>1 DEF PauseInv
  <2>4. CASE supervisor' = supervisor
    BY <2>4 DEF PauseInv, IsRunning
  <2>5. QED
    BY <1>1, <2>2, <2>3, <2>4, ObserveCases
<1>2. CASE ~Observe
  <2>1. UNCHANGED supervisor
    BY <1>2 DEF Next, Program, Progress, RunOutOfSteps, TimeOut, PolicyRaises, Act, Block, Finish,
                HandEnters, HandLeaves, vars
  <2>2. QED
    BY <2>1 DEF PauseInv, IsRunning
<1>3. QED
  BY <1>1, <1>2

LEMMA RouteInit == Init => RouteInv
<1> SUFFICES ASSUME Init PROVE RouteInv
  OBVIOUS
<1>1. /\ applied = 0 /\ stalls = 0 /\ ~refinement_attempted /\ location = "away"
      /\ pc = "observe" /\ episode = "recording"
      /\ policy.phase = "move_to_object" /\ Untouched(gripper)
  BY DEF Init, ResetPolicy, ResetGripper, Untouched
<1>2. Room(6 + Stabilizing + Reserve)
  BY <1>1, ControlLoopAssumption, PolicyConstantsAssumption
     DEF Room, ActsNeeded, Reserve, Stabilizing
<1>3. QED
  BY <1>1, <1>2 DEF RouteInv, OnTheWay, Approaching

\* Refinement spends the reserve on the way back it may cost.
LEMMA RefineKeepsRoute ==
  ASSUME TypeInv, OnTheWay, NEW hand_detected, Refine(hand_detected),
         UNCHANGED <<applied, stalls, policy, gripper>>
  PROVE  OnTheWay'
<1>1. CASE UNCHANGED <<location, refinement_attempted>>
  BY <1>1 DEF OnTheWay, Approaching, Steadying, Lifting, Carrying, Room, Box, Reserve,
              Stabilizing, ActsNeeded, Untouched
<1>2. CASE Refines(hand_detected) /\ refinement_attempted'
  <2>1. Approaching /\ Reserve = 2 /\ Reserve' = 0
    BY <1>2 DEF Refines, Reserve, OnTheWay, Approaching, Steadying, Lifting, Carrying
  <2>2. applied \in Nat /\ stalls \in Nat /\ MaxStalls \in Nat /\ Stabilizing \in Nat
        /\ ActsNeeded \in Nat
    BY ControlLoopAssumption, PolicyConstantsAssumption
       DEF TypeInv, TypeOK, Stabilizing, ActsNeeded
  <2>3. applied + (6 + Stabilizing) + (MaxStalls - stalls) <= ActsNeeded
    BY <2>1, <2>2, SMT DEF Approaching, Room
  <2>4. location' \in {"away", "close", "grasp"}
    BY <1>2, <2>1 DEF Refine, Approaching
  <2>5. \A n \in {4, 5, 6} : applied + (n + Stabilizing + 0) + (MaxStalls - stalls) <= ActsNeeded
    BY <2>2, <2>3
  <2>6. QED
    BY <2>1, <2>4, <2>5 DEF OnTheWay, Approaching, Room, Untouched, Stabilizing, ActsNeeded
<1>3. QED
  BY <1>1, <1>2 DEF Refine, target_vars

\* Somebody who is on the way has not used up what is needed.
LEMMA OnTheWayOwes ==
  ASSUME TypeInv, OnTheWay
  PROVE  applied < ActsNeeded
<1>1. applied \in Nat /\ stalls \in 0..MaxStalls /\ MaxStalls \in Nat /\ ActsNeeded \in Nat
      /\ StabilizationSteps \in Nat /\ Stabilizing \in Nat /\ Reserve \in Nat
  BY ControlLoopAssumption, PolicyConstantsAssumption
     DEF TypeInv, TypeOK, Stabilizing, ActsNeeded, Reserve
<1>2. ASSUME NEW n \in Int, n >= 1, Room(n) PROVE applied < ActsNeeded
  BY <1>1, <1>2 DEF Room
<1>3. PICK n \in Int : n >= 1 /\ Room(n)
  <2>1. /\ 6 + Stabilizing + Reserve \in Int /\ 6 + Stabilizing + Reserve >= 1
        /\ 5 + Stabilizing + Reserve \in Int /\ 5 + Stabilizing + Reserve >= 1
        /\ 4 + Stabilizing + Reserve \in Int /\ 4 + Stabilizing + Reserve >= 1
    BY <1>1
  <2>2. ASSUME policy.stabilization_counter \in 1..(StabilizationSteps - 1)
        PROVE  /\ 4 + StabilizationSteps - policy.stabilization_counter \in Int
               /\ 4 + StabilizationSteps - policy.stabilization_counter >= 1
    BY <1>1, <2>2
  <2>3. CASE Approaching
    BY <2>1, <2>3 DEF Approaching
  <2>4. CASE Steadying
    BY <2>2, <2>4 DEF Steadying
  <2>5. CASE Lifting \/ Carrying
    BY <2>5 DEF Lifting, Carrying
  <2>6. QED
    BY <2>3, <2>4, <2>5 DEF OnTheWay
<1>4. QED
  BY <1>2, <1>3

LEMMA RouteStep ==
  ASSUME TimeBoxCovers
  PROVE  TypeInv /\ RouteInv /\ [Next]_vars => RouteInv'
<1> SUFFICES ASSUME TypeInv, RouteInv, [Next]_vars PROVE RouteInv'
  OBVIOUS
<1>1. CASE Observe
  <2>1. /\ pc = "observe" /\ pc' \in {"observe", "act"} /\ Refine(hand)
        /\ UNCHANGED <<applied, stalls, policy, gripper, episode>>
    BY <1>1 DEF Observe, PausedStep, report
  <2>2. OnTheWay'
    BY <2>1, RefineKeepsRoute DEF RouteInv
  <2>3. QED
    BY <2>1, <2>2 DEF RouteInv
<1>2. CASE Act
  <2>1. pc = "act" /\ UNCHANGED episode
    BY <1>2 DEF Act
  <2>2. \/ OnTheWay' /\ pc' = "observe"
        \/ pc' = "returned" /\ final_status' = "success"
    BY <1>2, <2>1, ActBeforeGrasp, ActAfterGrasp DEF RouteInv, OnTheWay
  <2>3. QED
    BY <2>1, <2>2 DEF RouteInv, Delivered
<1>3. CASE RunOutOfSteps
  <2>1. /\ pc = "observe" /\ step_index = MaxPolicySteps /\ pc' = "returned"
        /\ UNCHANGED <<supervisor, episode>>
    BY <1>3 DEF RunOutOfSteps
  <2>2. applied < ActsNeeded /\ step_index = applied + supervisor.paused_steps + 0
    BY <2>1, OnTheWayOwes DEF RouteInv, TypeInv, BudgetInv, BudgetAccounted
  <2>3. applied \in Nat /\ supervisor.paused_steps \in Nat /\ ActsNeeded \in Nat
    BY ControlLoopAssumption, PolicyConstantsAssumption
       DEF TypeInv, TypeOK, SupervisorRecords, Stabilizing, ActsNeeded
  <2>4. MaxPolicySteps < supervisor'.paused_steps + ActsNeeded
    BY <2>1, <2>2, <2>3
  <2>5. Delivered'
    BY <2>4 DEF Delivered, ActsNeeded, Stabilizing
  <2>6. QED
    BY <2>1, <2>5 DEF RouteInv
<1>4. CASE Block
  <2>1. pc = "act" /\ hazard /\ hazard' = hazard /\ pc' = "returned" /\ UNCHANGED episode
    BY <1>4 DEF Block
  <2>2. QED
    BY <2>1 DEF RouteInv
<1>5. CASE TimeOut \/ PolicyRaises
  <2>1. pc \in {"observe", "act"} /\ pc' = "raised" /\ UNCHANGED episode
    BY <1>5 DEF TimeOut, PolicyRaises, report
  <2>2. QED
    BY <2>1 DEF RouteInv
<1>6. CASE Finish
  <2>1. /\ pc' = "closed" /\ (episode' = "saved" => pc = "returned")
        /\ UNCHANGED <<hazard, supervisor, final_status>>
    BY <1>6 DEF Finish
  <2>2. QED
    BY <2>1 DEF RouteInv, Delivered, ActsNeeded, Stabilizing
<1>7. CASE HandEnters \/ HandLeaves \/ UNCHANGED vars
  <2>1. UNCHANGED <<pc, hazard, supervisor, policy, location, stalls, gripper, applied,
                    refinement_attempted, final_status, episode>>
    BY <1>7 DEF HandEnters, HandLeaves, vars, loop, target_vars, arm, report
  <2>2. OnTheWay <=> OnTheWay'
    BY <2>1 DEF OnTheWay, Approaching, Steadying, Lifting, Carrying, Room, Box, Reserve,
                Stabilizing, ActsNeeded, Untouched
  <2>3. QED
    BY <2>1, <2>2 DEF RouteInv, Delivered, ActsNeeded, Stabilizing
<1>8. QED
  BY <1>1, <1>2, <1>3, <1>4, <1>5, <1>6, <1>7 DEF Next, Program, Progress

\* Iterations that are not lost to pauses suffice for a delivery.
DeliversWithinBudget ==
  episode = "saved" /\ ~hazard /\ supervisor.paused_steps + ActsNeeded <= MaxPolicySteps =>
    final_status = "success"

\* A pause costs a delivery nothing but the iterations it lasted: if the
\* budget of run_dummy_openvla_policy() still has as many as the delivery
\* needs, the episode succeeds, however often and whenever it was paused.
THEOREM PausesCostOnlySteps ==
  ASSUME TimeBoxCovers
  PROVE  Spec => []DeliversWithinBudget
<1>1. TypeInv /\ RouteInv => DeliversWithinBudget
  <2> SUFFICES ASSUME TypeInv, RouteInv PROVE DeliversWithinBudget
    OBVIOUS
  <2>1. supervisor.paused_steps \in Nat /\ ActsNeeded \in Nat /\ MaxPolicySteps \in Nat
    BY ControlLoopAssumption, PolicyConstantsAssumption
       DEF TypeInv, TypeOK, SupervisorRecords, Stabilizing, ActsNeeded
  <2>2. QED
    BY <2>1 DEF RouteInv, Delivered, DeliversWithinBudget
<1>2. QED
  BY <1>1, TypeInit, TypeStep, RouteInit, RouteStep, PTL DEF Spec

\* Without a pause the configured budget is all there is to ask: refinement
\* and the stalls it was made for are paid for.
THEOREM DeliversWithoutPause ==
  ASSUME TimeBoxCovers, ActsNeeded <= MaxPolicySteps
  PROVE  Spec => []DeliversUnpaused
<1>1. TypeInv /\ RouteInv /\ PauseInv => DeliversUnpaused
  <2> SUFFICES ASSUME TypeInv, RouteInv, episode = "saved", ~hazard,
                      supervisor.paused_steps = 0
               PROVE  final_status = "success"
    BY DEF PauseInv, DeliversUnpaused
  <2>1. ActsNeeded \in Nat /\ MaxPolicySteps \in Nat
    BY ControlLoopAssumption, PolicyConstantsAssumption DEF Stabilizing, ActsNeeded
  <2>2. QED
    BY <2>1 DEF RouteInv, Delivered
<1>2. TypeInv => HandInv
  BY DEF TypeInv, BudgetInv
<1>3. QED
  BY <1>1, <1>2, TypeInit, TypeStep, RouteInit, RouteStep, PauseInit, PauseStep, PTL DEF Spec
=============================================================================
