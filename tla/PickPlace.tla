------------------------------ MODULE PickPlace ------------------------------
(***************************************************************************)
(* DummyOpenVLAPolicy driving PyBulletPandaBackend: the closed loop of     *)
(* run_dummy_openvla_policy() without safety and budget (ControlLoop.tla   *)
(* has those), with the geometry that decides every phase transition.      *)
(*                                                                         *)
(* Space is a vertical plane of integer points <<horizontal, height>>; a   *)
(* unit is 5 mm, so that every length of the code is a whole number of     *)
(* units.  Physics is the nondeterministic part: a commanded translation   *)
(* is achieved per axis up to one of several quarters of it, and every     *)
(* command, also the one to stay, leaves a residual error.  How far the    *)
(* two go is part of the trial, with the reset pose and the error of       *)
(* perception.                                                             *)
(***************************************************************************)
EXTENDS DummyPolicy, PandaGripper, Integers

CONSTANTS
  ObjectStart, Bin,            \* points: object, bin
  MaxStepSize,                 \* max_step_size              0.03  = 6
  StabilizationStepSize,       \* stabilization_step_size    0.01  = 2
  PositionTolerance,           \* position_tolerance         0.03  = 6
  GraspOffset,                 \* grasp_z_offset             0.015 = 3
  CarryHeight,                 \* carry_height               0.18  = 36
  PlaceClearance,              \* PLACE_APPROACH_CLEARANCE   0.05  = 10
  BinOpenDistance,             \* bin_open_distance_threshold 0.09 = 18
  GraspThreshold,              \* GRASP_THRESHOLD            0.05  = 10
  PlaceThreshold,              \* PLACE_THRESHOLD            0.08  = 16
  Trials,                      \* records:
                               \*   home       reset pose
                               \*   misplaced  perception: horizontal error of the
                               \*              target, at most the
                               \*              max_refinement_delta 0.08 = 16
                               \*   quarters   physics: quarters of a command that
                               \*              may be achieved on an axis
                               \*   residual   physics: most one command is off on
                               \*              each axis, besides that
  Workspace                    \* bound: points the arm can be at

Points == Int \X Int

ASSUME GeometryAssumption ==
  /\ {ObjectStart, Bin} \subseteq Points
  /\ {MaxStepSize, StabilizationStepSize, PositionTolerance, GraspOffset, CarryHeight,
      PlaceClearance, BinOpenDistance, GraspThreshold, PlaceThreshold} \subseteq Nat
  /\ Trials \subseteq [home : Points, misplaced : Int, quarters : SUBSET (0..4), residual : Nat \X Nat]
  /\ Workspace \subseteq Points

VARIABLES trial,               \* the member of Trials this is
          ee,                  \* end_effector_position
          object,              \* object_position
          target,              \* target_object_position, as perceived
          gripper,             \* the rest of the backend's state
          policy,              \* the policy's state
          reason,              \* phase_transition_reason of the last action
          finished             \* the control loop has returned

NoResidual == <<0, 0>>         \* a trial.residual

vars == <<trial, ee, object, target, gripper, policy, reason, finished>>

Plus(p, q) == <<p[1] + q[1], p[2] + q[2]>>
Minus(p, q) == <<p[1] - q[1], p[2] - q[2]>>
Abs(n) == IF n < 0 THEN -n ELSE n
Clamp(n, m) == IF n > m THEN m ELSE IF n < -m THEN -m ELSE n
Square(p, q) == (p[1] - q[1]) * (p[1] - q[1]) + (p[2] - q[2]) * (p[2] - q[2])
Within(p, q, d) == Square(p, q) <= d * d
CloserThan(p, q, d) == Square(p, q) < d * d

GraspTarget == <<target[1], target[2] + GraspOffset>>
LiftTarget == <<target[1], CarryHeight>>
CarryTarget == <<Bin[1], CarryHeight>>

\* Mutant: the clearance is added twice.
DropTargetTooHigh == <<Bin[1], Bin[2] + 2 * PlaceClearance>>

DropTarget == <<Bin[1], Bin[2] + PlaceClearance>>

Aligned == Abs(ee[1] - Bin[1]) <= PositionTolerance
StageTarget == IF Aligned THEN DropTarget ELSE CarryTarget

\* What the conditions of the policy evaluate to on get_state() and target.
Observation ==
  [at_grasp       |-> Within(ee, GraspTarget, PositionTolerance),
   at_lift        |-> Within(ee, LiftTarget, PositionTolerance),
   aligned        |-> Aligned,
   near_bin       |-> Abs(ee[1] - Bin[1]) <= BinOpenDistance,
   at_stage       |-> Within(ee, StageTarget, PositionTolerance),
   at_drop_height |-> Abs(ee[2] - DropTarget[2]) <= PositionTolerance,
   held           |-> gripper.held_object,
   status         |-> gripper.task_status]

AimPoint(aim) ==
  CASE aim = "grasp"      -> GraspTarget
    [] aim = "grasp_fine" -> GraspTarget
    [] aim = "lift"       -> LiftTarget
    [] aim = "carry"      -> CarryTarget
    [] aim = "drop"       -> DropTarget
    [] aim = "stay"       -> ee

\* _delta_to_target(): every axis clamped on its own.
Delta(aim) ==
  LET raw == Minus(AimPoint(aim), ee)
      size == IF aim = "grasp_fine" THEN StabilizationStepSize ELSE MaxStepSize
  IN <<Clamp(raw[1], size), Clamp(raw[2], size)>>

\* move_end_effector_to(): where the arm may be after its physics steps.
Achieved(delta) ==
  LET axis(i) == {ee[i] + (delta[i] * q) \div 4 + r :
                    q \in trial.quarters, r \in -trial.residual[i]..trial.residual[i]}
  IN axis(1) \X axis(2)
----------------------------------------------------------------------------

Init ==
  /\ trial \in Trials
  /\ ee = trial.home
  /\ object = ObjectStart
  /\ target = <<ObjectStart[1] + trial.misplaced, ObjectStart[2]>>
  /\ gripper = ResetGripper
  /\ policy = ResetPolicy
  /\ reason = "none"
  /\ finished = FALSE

\* One iteration: observe, predict, move the arm (a held object moves along),
\* then the gripper; a release over the bin puts the object into it.
Step ==
  /\ ~finished
  /\ \E observed \in {Observation} :
     \E answer \in {Predict(policy, observed)} :
       /\ ee' \in Achieved(Delta(answer.aim)) \cap Workspace
       /\ \E carried \in {IF gripper.held_object THEN Plus(object, Minus(ee', ee)) ELSE object} :
            /\ gripper' = ApplyGripper(gripper, answer.gripper,
                                       CloserThan(ee', carried, GraspThreshold),
                                       Within(carried, Bin, PlaceThreshold))
            /\ object' = IF gripper.held_object /\ gripper'.task_status = "success"
                         THEN Bin ELSE carried
       /\ policy' = answer.policy
       /\ reason' = answer.reason
       /\ finished' = (answer.done \/ gripper'.task_status = "success")
  /\ UNCHANGED <<trial, target>>

Next == Step

Spec == Init /\ [][Next]_vars

\* The loop calls the policy again as long as it has not returned.
FairSpec == Spec /\ WF_vars(Step)
----------------------------------------------------------------------------

TypeOK ==
  /\ trial \in Trials
  /\ ee \in Points /\ object \in Points /\ target \in Points
  /\ gripper \in GripperRecords
  /\ policy \in PolicyRecords
  /\ reason \in {"none", "near_bin_force_open", "max_move_above_bin_steps_exceeded"}
  /\ finished \in BOOLEAN

\* The policy's phase and the backend's grasp never disagree: it carries only
\* what is held, and is finished only with an empty gripper.  A held object
\* keeps the fingers shut, or the later open command would be skipped as
\* redundant and never release it.
PhaseAgreesWithGrasp ==
  /\ policy.phase \in {"lift_object", "move_above_bin"} => gripper.held_object
  /\ policy.phase \in {"move_to_object", "stabilize", "open_gripper", "done"} =>
       ~gripper.held_object
  /\ gripper.held_object => ~gripper.fingers_open /\ gripper.task_status = "grasped"

\* move_above_bin is time-boxed: its counter never passes the limit.
MoveAboveBinTimeBoxed == policy.move_above_bin_steps <= MaxMoveAboveBinSteps

\* The object is lifted above the place of the grasp and carried at height.
\* Residual errors may push the arm out of alignment with the bin while it is
\* already lowering, and the stage target flips back to the carry height; but
\* all they can do in the time box of move_above_bin is shift both limits by
\* what they add up to since it was entered.  Farther from the bin than that,
\* the arm has never been lowered.
CarriesAtHeight ==
  LET stray(i) == trial.residual[i] * policy.move_above_bin_steps
  IN gripper.held_object =>
       IF policy.phase = "move_above_bin"
       THEN \/ Abs(ee[1] - Bin[1]) <= PositionTolerance + stray(1)
            \/ ee[2] >= CarryHeight - PositionTolerance - stray(2)
       ELSE trial.residual = NoResidual => Abs(ee[1] - target[1]) <= PositionTolerance

\* The target is perceived within a centimetre, the arm without residuals.
WellPerceived == Abs(target[1] - ObjectStart[1]) <= 2 /\ trial.residual = NoResidual

\* position_tolerance + grasp_z_offset stay below GRASP_THRESHOLD by more than
\* a centimetre: the first close command of a well perceived object grasps.
CloseGraspsAtOnce ==
  [][WellPerceived /\ policy'.phase = "close_gripper" /\ gripper' # gripper =>
       gripper'.held_object]_vars

\* PLACE_THRESHOLD leaves room for the arm's error at the grasp and at the
\* release together: an exactly perceived object released at the drop target
\* lands in the bin.
ReleaseLandsInBin ==
  [][target = ObjectStart /\ trial.residual = NoResidual
       /\ gripper.held_object /\ ~gripper'.held_object /\ reason' = "none" =>
         gripper'.task_status = "success"]_vars

\* The loop and the physics implement the journey of one object.
PlaceOf(g) ==
  CASE g.held_object               -> "gripper"
    [] g.task_status = "success"   -> "bin"
    [] g.task_status = "released"  -> "dropped"
    [] OTHER                       -> "table"

Journey == INSTANCE ObjectJourney WITH place <- PlaceOf(gripper)

ImplementsJourney == Journey!Spec

\* An arm that achieves at least half of every command, residual errors
\* aside, delivers an exactly perceived object: neither the tolerances nor
\* the time box can keep it from that.
Delivers ==
  target = ObjectStart /\ trial.quarters \subseteq 2..4 =>
    <>(finished /\ gripper.task_status = "success")
=============================================================================
