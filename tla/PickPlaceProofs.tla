--------------------------- MODULE PickPlaceProofs ---------------------------
(***************************************************************************)
(* PickPlace for every geometry and every physics: points, thresholds,     *)
(* step sizes, settling, residuals and errors of perception are arbitrary. *)
(* What the phases say about the gripper (Agree of OperatorLemmas) is the    *)
(* inductive invariant.                                                    *)
(***************************************************************************)
EXTENDS PickPlace, OperatorLemmas

AgreeInv == Agree(policy, gripper)

LEMMA AgreeInit == Init => AgreeInv
BY AgreeInitially DEF Init, AgreeInv

\* One iteration, geometry left open: the policy answers soundly to what
\* get_state() reports, and the backend applies that answer.
LEMMA StepSound ==
  ASSUME AgreeInv, Step
  PROVE  AgreeInv' /\ Carries(gripper, gripper')
<1> DEFINE answer == Predict(policy, Observation)
<1>1. PICK near, over_bin :
        /\ gripper' = ApplyGripper(gripper, answer.gripper, near, over_bin)
        /\ policy' = answer.policy
  BY DEF Step
<1>2. Reports(Observation, gripper)
  BY DEF Observation, Reports
<1>3. Sound(answer, gripper)
  BY <1>2, PredictSound DEF AgreeInv
<1>4. HoldsFirmly(gripper)
  BY DEF AgreeInv, Agree, PhaseAgrees
<1>5. QED
  BY <1>1, <1>3, <1>4, ApplySound DEF AgreeInv

LEMMA AgreeStep == AgreeInv /\ [Next]_vars => AgreeInv'
<1>1. CASE Step
  BY <1>1, StepSound
<1>2. CASE UNCHANGED vars
  BY <1>2 DEF vars, AgreeInv
<1>3. QED
  BY <1>1, <1>2 DEF Next

\* Whatever the arm achieves of its commands and wherever the object, the bin
\* and the perceived target are, the policy carries only what is held and is
\* finished only with an empty gripper.
THEOREM PhaseAndGraspAgree == Spec => []PhaseAgreesWithGrasp
<1>1. AgreeInv => PhaseAgreesWithGrasp
  BY DEF AgreeInv, Agree, PhaseAgrees, PhaseAgreesWithGrasp, HoldsFirmly, Untouched, Rid
<1>2. QED
  BY <1>1, AgreeInit, AgreeStep, PTL DEF Spec

\* No physics keeps the policy in move_above_bin beyond its time box.
THEOREM TimeBoxHolds == Spec => []MoveAboveBinTimeBoxed
<1>1. AgreeInv => MoveAboveBinTimeBoxed
  BY DEF AgreeInv, Agree, PhaseAgrees, CountWithin, MoveAboveBinTimeBoxed
<1>2. QED
  BY <1>1, AgreeInit, AgreeStep, PTL DEF Spec

\* PlaceOf tells the three kinds of gripper of OperatorLemmas apart.
LEMMA PlaceOfCases ==
  ASSUME NEW g
  PROVE  /\ g.held_object /\ g.task_status = "grasped" => PlaceOf(g) = "gripper"
         /\ Waiting(g) => PlaceOf(g) = "table"
         /\ Rid(g) => PlaceOf(g) \in {"bin", "dropped"}
<1>1. ASSUME g.held_object, g.task_status = "grasped" PROVE PlaceOf(g) = "gripper"
  BY <1>1 DEF PlaceOf
<1>2. ASSUME Waiting(g) PROVE PlaceOf(g) = "table"
  BY <1>2 DEF PlaceOf, Waiting
<1>3. ASSUME Rid(g) PROVE PlaceOf(g) \in {"bin", "dropped"}
  <2>1. CASE g.task_status = "success"
    BY <1>3, <2>1 DEF PlaceOf, Rid
  <2>2. CASE g.task_status = "released"
    BY <1>3, <2>2 DEF PlaceOf, Rid
  <2>3. QED
    BY <1>3, <2>1, <2>2 DEF Rid
<1>4. QED
  BY <1>1, <1>2, <1>3

\* The object is picked up at most once and leaves the gripper once and for
\* all, also when the grasp fails at first or the release misses the bin.
THEOREM ImplementsObjectJourney == Spec => ImplementsJourney
<1>1. Init => Journey!Init
  BY PlaceOfCases DEF Init, ResetGripper, Waiting, Journey!Init
<1>2. AgreeInv /\ [Next]_vars => [Journey!Next]_(PlaceOf(gripper))
  <2> SUFFICES ASSUME AgreeInv, [Next]_vars
               PROVE  Journey!Next \/ PlaceOf(gripper') = PlaceOf(gripper)
    OBVIOUS
  <2>1. CASE UNCHANGED vars
    BY <2>1 DEF vars
  <2>2. CASE Step
    <3>1. Carries(gripper, gripper') /\ HoldsFirmly(gripper) /\ HoldsFirmly(gripper')
      BY <2>2, StepSound DEF AgreeInv, Agree, PhaseAgrees
    <3>2. CASE /\ gripper'.held_object = gripper.held_object
               /\ gripper'.task_status = gripper.task_status
      BY <3>2 DEF PlaceOf
    <3>3. CASE Waiting(gripper) /\ gripper'.held_object
      BY <3>1, <3>3, PlaceOfCases DEF HoldsFirmly, Journey!Next, Journey!PickUp
    <3>4. CASE gripper.held_object /\ Rid(gripper')
      BY <3>1, <3>4, PlaceOfCases
         DEF HoldsFirmly, Journey!Next, Journey!Deliver, Journey!Drop
    <3>5. QED
      BY <3>1, <3>2, <3>3, <3>4 DEF Carries
  <2>3. QED
    BY <2>1, <2>2 DEF Next
<1>3. QED
  BY <1>1, <1>2, AgreeInit, AgreeStep, PTL DEF Spec, ImplementsJourney, Journey!Spec

----------------------------------------------------------------------------
(* Types.                                                                  *)

Reasons == {"none", "near_bin_force_open", "max_move_above_bin_steps_exceeded"}

\* phase_transition_reason of every answer, along the chain of phases.
LEMMA AnswersGiveReasons ==
  ASSUME NEW p \in PolicyRecords, NEW o
  PROVE  Predict(p, o).reason \in Reasons
<1>1. \A q, r : InOpenGripper(q, o, r).reason = r
  BY DEF InOpenGripper, InDone, Answer
<1>2. \A q : InMoveAboveBin(q, o).reason \in Reasons
  <2>1. OpenReason(o) \in Reasons
    BY DEF OpenReason, Reasons
  <2>2. QED
    BY <1>1, <2>1 DEF InMoveAboveBin, Answer, Reasons
<1>3. \A q : InLiftObject(q, o).reason \in Reasons
  BY <1>2 DEF InLiftObject, Answer, Reasons
<1>4. \A q : InCloseGripper(q, o).reason \in Reasons
  BY <1>3 DEF InCloseGripper, Answer, Reasons
<1>5. \A q : InStabilize(q, o).reason \in Reasons
  BY <1>4 DEF InStabilize, Answer, Reasons
<1>6. InMoveToObject(p, o).reason \in Reasons
  BY <1>4, <1>5 DEF InMoveToObject, Answer, Reasons
<1>7. InOpenGripper(p, o, "none").reason \in Reasons /\ InDone(p, "none").reason \in Reasons
  BY <1>1 DEF InDone, Answer, Reasons
<1>8. p.phase \in Phases
  BY DEF PolicyRecords
<1>9. QED
  BY <1>2, <1>3, <1>4, <1>5, <1>6, <1>7, <1>8 DEF Predict, Phases

LEMMA PointsAdd ==
  ASSUME NEW p \in Points, NEW q \in Points
  PROVE  Plus(p, q) \in Points /\ Minus(p, q) \in Points
BY DEF Points, Plus, Minus

TypeInv == TypeOK /\ AgreeInv

LEMMA TrialFields ==
  ASSUME trial \in Trials
  PROVE  /\ trial.home \in Points /\ trial.misplaced \in Int
         /\ trial.quarters \subseteq 0..4
         /\ trial.residual \in Nat \X Nat
         /\ trial.residual[1] \in Nat /\ trial.residual[2] \in Nat
<1>1. trial \in [home : Points, misplaced : Int, quarters : SUBSET (0..4), residual : Nat \X Nat]
  BY GeometryAssumption
<1>2. QED
  BY <1>1

LEMMA TypeInit == Init => TypeInv
<1> SUFFICES ASSUME Init PROVE TypeInv
  OBVIOUS
<1>1. trial \in Trials /\ ee \in Points /\ object \in Points /\ target \in Points
  <2>1. trial \in Trials /\ ee = trial.home /\ object = ObjectStart
        /\ target = <<ObjectStart[1] + trial.misplaced, ObjectStart[2]>>
    BY DEF Init
  <2>2. QED
    BY <2>1, GeometryAssumption, TrialFields DEF Points
<1>2. ResetPolicy \in PolicyRecords /\ ResetGripper \in GripperRecords
  BY DEF ResetPolicy, PolicyRecords, Phases, ResetGripper, GripperRecords, TaskStatuses
<1>3. QED
  BY <1>1, <1>2, AgreeInit DEF Init, TypeInv, TypeOK

LEMMA TypeStep == TypeInv /\ [Next]_vars => TypeInv'
<1>1. ASSUME TypeInv, Step PROVE TypeInv'
  <2> DEFINE answer == Predict(policy, Observation)
             carried(there) == IF gripper.held_object THEN Plus(object, Minus(there, ee))
                               ELSE object
  <2>1. PICK there \in Achieved(Delta(answer.aim)) \cap Workspace :
          /\ ee' = there
          /\ object' = Bin \/ object' = carried(there)
          /\ reason' = answer.reason
          /\ finished' \in BOOLEAN
          /\ UNCHANGED <<trial, target>>
    BY <1>1 DEF Step
  <2>2. there \in Points /\ Bin \in Points
    BY GeometryAssumption
  <2>3. carried(there) \in Points
    BY <1>1, <2>2, PointsAdd DEF TypeInv, TypeOK
  <2>4. answer.reason \in Reasons
    BY <1>1, AnswersGiveReasons DEF TypeInv, TypeOK
  <2>5. AgreeInv'
    BY <1>1, StepSound DEF TypeInv
  <2>6. policy' \in PolicyRecords /\ gripper' \in GripperRecords
    BY <2>5 DEF AgreeInv, Agree, PhaseAgrees, HoldsFirmly
  <2> HIDE DEF answer, carried
  <2>7. QED
    BY <1>1, <2>1, <2>2, <2>3, <2>4, <2>5, <2>6 DEF TypeInv, TypeOK, Reasons
<1>2. ASSUME TypeInv, UNCHANGED vars PROVE TypeInv'
  BY <1>2, AgreeStep DEF TypeInv, TypeOK, AgreeInv, vars
<1>3. QED
  BY <1>1, <1>2 DEF Next

\* TypeOK for every geometry: the arm stays on points, and an action always
\* gives one of the three reasons for the release.
THEOREM PickPlaceTypes == Spec => []TypeOK
<1>1. TypeInv => TypeOK
  BY DEF TypeInv
<1>2. QED
  BY <1>1, TypeInit, TypeStep, PTL DEF Spec
----------------------------------------------------------------------------
(* The path of the arm.  Residual errors aside, a command takes it, on     *)
(* every axis, somewhere between where it is and where the policy aims, so *)
(* that it never gets farther from the aim, and what a condition of the    *)
(* policy has once measured stays true while the aim is the same.          *)

Between(x, a, b) == (a <= x /\ x <= b) \/ (b <= x /\ x <= a)

\* So many quarters of n.
Quarters(n, q) == (n * q) \div 4

LEMMA QuartersBetween ==
  ASSUME NEW n \in Int, NEW q \in 0..4
  PROVE  Quarters(n, q) \in Int /\ Between(Quarters(n, q), 0, n)
<1> USE DEF Quarters
<1>1. CASE q = 0
  BY <1>1 DEF Between
<1>2. CASE q = 1
  BY <1>2 DEF Between
<1>3. CASE q = 2
  BY <1>3 DEF Between
<1>4. CASE q = 3
  BY <1>4 DEF Between
<1>5. CASE q = 4
  BY <1>5 DEF Between
<1>6. QED
  BY <1>1, <1>2, <1>3, <1>4, <1>5

LEMMA ClampBetween ==
  ASSUME NEW n \in Int, NEW m \in Nat
  PROVE  Clamp(n, m) \in Int /\ Between(Clamp(n, m), 0, n)
BY DEF Clamp, Between

\* One axis of one command.
LEMMA AxisBetween ==
  ASSUME NEW x \in Int, NEW aim \in Int, NEW m \in Nat, NEW q \in 0..4
  PROVE  LET there == x + Quarters(Clamp(aim - x, m), q)
         IN there \in Int /\ Between(there, x, aim)
<1> DEFINE n == Clamp(aim - x, m)
           d == Quarters(n, q)
<1>1. aim - x \in Int
  OBVIOUS
<1>2. n \in Int /\ Between(n, 0, aim - x)
  BY <1>1, ClampBetween
<1> HIDE DEF n
<1>3. d \in Int /\ Between(d, 0, n)
  BY <1>2, QuartersBetween
<1> HIDE DEF d
<1>4. x + d \in Int /\ Between(x + d, x, aim)
  BY <1>2, <1>3 DEF Between
<1>5. QED
  BY <1>4 DEF n, d

\* Nearer to the aim, on an axis and as a square of the distance.
LEMMA NotFarther ==
  ASSUME NEW x \in Int, NEW y \in Int, NEW aim \in Int, Between(y, x, aim)
  PROVE  /\ Abs(y - aim) <= Abs(x - aim)
         /\ (y - aim) * (y - aim) <= (x - aim) * (x - aim)
<1> DEFINE a == Abs(y - aim)
           b == Abs(x - aim)
<1>1. a \in Nat /\ b \in Nat /\ a <= b
  BY DEF Between, Abs
<1>2. (y - aim) * (y - aim) = a * a /\ (x - aim) * (x - aim) = b * b
  BY DEF Abs
<1> HIDE DEF a, b
<1>3. a * a <= b * b
  BY <1>1
<1>4. QED
  BY <1>1, <1>2, <1>3 DEF a, b

\* A point within a distance is within it on every axis.
LEMMA WithinAxes ==
  ASSUME NEW p \in Points, NEW q \in Points, NEW d \in Nat, Within(p, q, d)
  PROVE  Abs(p[1] - q[1]) <= d /\ Abs(p[2] - q[2]) <= d
<1>1. ASSUME NEW a \in Int, NEW b \in Int, a * a + b * b <= d * d
      PROVE  Abs(a) <= d
  <2> DEFINE n == Abs(a)
  <2>1. n \in Nat /\ n * n = a * a
    BY DEF Abs
  <2>2. b * b >= 0
    OBVIOUS
  <2> HIDE DEF n
  <2>3. n * n <= d * d
    BY <1>1, <2>1, <2>2
  <2>4. n <= d
    BY <2>1, <2>3
  <2>5. QED
    BY <2>4 DEF n
<1> DEFINE a == p[1] - q[1]
           b == p[2] - q[2]
<1>2. a \in Int /\ b \in Int /\ a * a + b * b <= d * d
  BY DEF Within, Square, Points
<1> HIDE DEF a, b
<1>3. b * b + a * a <= d * d
  BY <1>2
<1>4. QED
  BY <1>1, <1>2, <1>3 DEF a, b

\* move_end_effector_to(): towards the aim, and then off by the residual.
LEMMA ArmMoves ==
  ASSUME trial \in Trials, ee \in Points, NEW aim, AimPoint(aim) \in Points,
         NEW there \in Achieved(Delta(aim))
  PROVE  /\ there \in Points
         /\ \A i \in {1, 2} :
              \E m \in Int, r \in -trial.residual[i]..trial.residual[i] :
                there[i] = m + r /\ Between(m, ee[i], AimPoint(aim)[i])
<1> DEFINE size == IF aim = "grasp_fine" THEN StabilizationStepSize ELSE MaxStepSize
           d(i) == Clamp(AimPoint(aim)[i] - ee[i], size)
           axis(i) == {ee[i] + (Delta(aim)[i] * q) \div 4 + r :
                         q \in trial.quarters, r \in -trial.residual[i]..trial.residual[i]}
<1>1. size \in Nat
  BY GeometryAssumption
<1>2. /\ ee[1] \in Int /\ ee[2] \in Int
      /\ AimPoint(aim)[1] \in Int /\ AimPoint(aim)[2] \in Int
  BY DEF Points
<1>3. Delta(aim)[1] = d(1) /\ Delta(aim)[2] = d(2)
  BY DEF Delta, Minus
<1>4. there \in axis(1) \X axis(2)
  BY DEF Achieved
<1> HIDE DEF size
<1>5. ASSUME NEW i \in {1, 2}
      PROVE  /\ there[i] \in Int
             /\ \E m \in Int, r \in -trial.residual[i]..trial.residual[i] :
                  there[i] = m + r /\ Between(m, ee[i], AimPoint(aim)[i])
  <2>1. there[i] \in axis(i)
    BY <1>4, <1>5
  <2>2. PICK q \in trial.quarters, r \in -trial.residual[i]..trial.residual[i] :
          there[i] = ee[i] + (Delta(aim)[i] * q) \div 4 + r
    BY <2>1
  <2>3. Delta(aim)[i] = d(i) /\ ee[i] \in Int /\ AimPoint(aim)[i] \in Int
        /\ trial.residual[i] \in Nat
    BY <1>2, <1>3, TrialFields
  <2> DEFINE m == ee[i] + Quarters(d(i), q)
  <2>4. q \in 0..4
    BY TrialFields
  <2>5. m \in Int /\ Between(m, ee[i], AimPoint(aim)[i])
    BY <1>1, <2>3, <2>4, AxisBetween
  <2>6. there[i] = m + r
    BY <2>2, <2>3 DEF Quarters
  <2> HIDE DEF m
  <2>7. QED
    BY <2>3, <2>5, <2>6
<1>6. there \in Points
  BY <1>4, <1>5 DEF Points
<1>7. QED
  BY <1>5, <1>6

\* A trial whose arm leaves no residual error.
Exact == trial.residual = NoResidual

LEMMA ArmApproaches ==
  ASSUME Exact, trial \in Trials, ee \in Points, NEW aim, AimPoint(aim) \in Points,
         NEW there \in Achieved(Delta(aim))
  PROVE  /\ there \in Points
         /\ Between(there[1], ee[1], AimPoint(aim)[1])
         /\ Between(there[2], ee[2], AimPoint(aim)[2])
<1>1. there \in Points
  BY ArmMoves
<1>2. ASSUME NEW i \in {1, 2} PROVE Between(there[i], ee[i], AimPoint(aim)[i])
  <2>1. PICK m \in Int, r \in -trial.residual[i]..trial.residual[i] :
          there[i] = m + r /\ Between(m, ee[i], AimPoint(aim)[i])
    BY ArmMoves
  <2>2. trial.residual[i] = 0
    BY DEF Exact, NoResidual
  <2>3. there[i] = m
    BY <2>1, <2>2
  <2>4. QED
    BY <2>1, <2>3
<1>3. QED
  BY <1>1, <1>2

\* Where the arm is after a call in each phase.  Only the phases before the
\* lift need both axes: the lift starts over the target, and the way to the
\* bin is made at height until the arm is aligned with it.
OverTarget == Abs(ee[1] - target[1]) <= PositionTolerance
AtHeight == ee[2] >= CarryHeight - PositionTolerance

OnPath ==
  /\ policy.phase \in {"stabilize", "close_gripper"} =>
       Within(ee, GraspTarget, PositionTolerance)
  /\ policy.phase = "lift_object" => OverTarget
  /\ policy.phase = "move_above_bin" => Aligned \/ AtHeight

PathInv == Exact => OnPath

\* Where it is when an answer is about to be applied.
Heads(a) ==
  \/ InPhase(a, "move_to_object", "grasp")
  \/ InPhase(a, "stabilize", "grasp_fine") /\ Within(ee, GraspTarget, PositionTolerance)
  \/ InPhase(a, "close_gripper", "stay") /\ Within(ee, GraspTarget, PositionTolerance)
  \/ InPhase(a, "lift_object", "lift") /\ OverTarget
  \/ InPhase(a, "move_above_bin", "carry") /\ AtHeight
  \/ InPhase(a, "move_above_bin", "drop") /\ Aligned
  \/ Releases(a)

LEMMA AimPoints ==
  ASSUME ee \in Points, target \in Points
  PROVE  /\ GraspTarget \in Points /\ LiftTarget \in Points
         /\ CarryTarget \in Points /\ DropTarget \in Points
         /\ PositionTolerance \in Nat /\ CarryHeight \in Nat
         /\ AimPoint("grasp") = GraspTarget /\ AimPoint("grasp_fine") = GraspTarget
         /\ AimPoint("lift") = LiftTarget /\ AimPoint("carry") = CarryTarget
         /\ AimPoint("drop") = DropTarget /\ AimPoint("stay") = ee
<1>1. /\ AimPoint("grasp") = GraspTarget /\ AimPoint("grasp_fine") = GraspTarget
      /\ AimPoint("lift") = LiftTarget /\ AimPoint("carry") = CarryTarget
      /\ AimPoint("drop") = DropTarget /\ AimPoint("stay") = ee
  BY DEF AimPoint
<1>2. /\ GraspTarget \in Points /\ LiftTarget \in Points
      /\ CarryTarget \in Points /\ DropTarget \in Points
      /\ PositionTolerance \in Nat /\ CarryHeight \in Nat
  BY GeometryAssumption DEF GraspTarget, LiftTarget, CarryTarget, DropTarget, Points
<1>3. QED
  BY <1>1, <1>2

\* What the answers of the policy say about where the arm is.
LEMMA AnswersOnThePath ==
  ASSUME TypeOK, OnPath, NEW a, a = Predict(policy, Observation)
  PROVE  Heads(a)
<1> DEFINE p == policy.phase
           o == Observation
           near == Within(ee, GraspTarget, PositionTolerance)
<1>1. policy \in PolicyRecords /\ ee \in Points /\ target \in Points
  BY DEF TypeOK
<1>2. Continues(p, a, o) /\ p \in Phases
  BY <1>1, PredictContinues, PolicyFields
<1>3. /\ o.at_grasp <=> near
      /\ o.at_lift <=> Within(ee, LiftTarget, PositionTolerance)
      /\ o.aligned <=> Aligned
  BY DEF Observation
<1>4. near => OverTarget
  <2>1. near => Abs(ee[1] - GraspTarget[1]) <= PositionTolerance
    BY <1>1, AimPoints, WithinAxes
  <2>2. QED
    BY <2>1 DEF GraspTarget, OverTarget
<1>5. o.at_lift => AtHeight
  <2>1. o.at_lift => Abs(ee[2] - LiftTarget[2]) <= PositionTolerance
    BY <1>1, <1>3, AimPoints, WithinAxes
  <2>2. LiftTarget[2] = CarryHeight /\ CarryHeight \in Int /\ PositionTolerance \in Int
        /\ ee[2] \in Int
    BY <1>1, AimPoints DEF LiftTarget, Points
  <2>3. QED
    BY <2>1, <2>2 DEF AtHeight, Abs
<1> HIDE DEF near, o
<1>6. Travels(a, o) /\ (Aligned \/ AtHeight) => Heads(a)
  BY <1>3 DEF Travels, Heads
<1>7. Lifts(a, o) /\ OverTarget => Heads(a)
  BY <1>5, <1>6 DEF Lifts, Heads
<1>8. Steadies(a, o) /\ near => Heads(a)
  BY <1>4, <1>7 DEF Steadies, Grasps, Heads, near
<1>9. CASE p = "move_to_object"
  BY <1>2, <1>3, <1>8, <1>9 DEF Continues, Approaches, Heads
<1>10. CASE p \in {"stabilize", "close_gripper"}
  BY <1>2, <1>8, <1>10 DEF Continues, Steadies, OnPath, near
<1>11. CASE p = "lift_object"
  BY <1>2, <1>7, <1>11 DEF Continues, OnPath
<1>12. CASE p = "move_above_bin"
  BY <1>2, <1>6, <1>12 DEF Continues, OnPath
<1>13. CASE p \in {"open_gripper", "done"}
  BY <1>2, <1>13 DEF Continues, Heads
<1>14. QED
  BY <1>2, <1>9, <1>10, <1>11, <1>12, <1>13 DEF Phases

LEMMA PathInit == Init => PathInv
BY DEF Init, ResetPolicy, PathInv, OnPath

LEMMA ArmStays ==
  ASSUME Exact, trial \in Trials, ee \in Points, NEW there \in Achieved(Delta("stay"))
  PROVE  there = ee
<1>1. AimPoint("stay") = ee
  BY DEF AimPoint
<1>2. there \in Points /\ Between(there[1], ee[1], ee[1]) /\ Between(there[2], ee[2], ee[2])
  BY <1>1, ArmApproaches
<1>3. there[1] = ee[1] /\ there[2] = ee[2]
  BY <1>2 DEF Between, Points
<1>4. QED
  BY <1>2, <1>3 DEF Points

\* An answer, applied by an arm without residual error.
LEMMA PathStep ==
  ASSUME Exact, TypeInv, OnPath, Step
  PROVE  OnPath'
<1> DEFINE a == Predict(policy, Observation)
<1>1. /\ policy' = a.policy /\ ee' \in Achieved(Delta(a.aim)) /\ UNCHANGED target
  BY DEF Step
<1>2. /\ trial \in Trials /\ ee \in Points /\ target \in Points /\ Heads(a)
      /\ PositionTolerance \in Nat /\ CarryHeight \in Nat
      /\ GraspTarget \in Points /\ GraspTarget' = GraspTarget
  BY <1>1, AnswersOnThePath, AimPoints DEF TypeInv, TypeOK, GraspTarget
<1> HIDE DEF a
<1>3. ASSUME NEW aim \in Points, AimPoint(a.aim) = aim
      PROVE  /\ ee' \in Points
             /\ ee[1] \in Int /\ ee[2] \in Int /\ ee'[1] \in Int /\ ee'[2] \in Int
             /\ aim[1] \in Int /\ aim[2] \in Int
             /\ Between(ee'[1], ee[1], aim[1]) /\ Between(ee'[2], ee[2], aim[2])
             /\ Abs(ee'[1] - aim[1]) <= Abs(ee[1] - aim[1])
             /\ Square(ee', aim) <= Square(ee, aim)
  <2>1. ee' \in Points /\ Between(ee'[1], ee[1], aim[1]) /\ Between(ee'[2], ee[2], aim[2])
    BY <1>1, <1>2, <1>3, ArmApproaches
  <2>2. /\ ee[1] \in Int /\ ee[2] \in Int /\ ee'[1] \in Int /\ ee'[2] \in Int
        /\ aim[1] \in Int /\ aim[2] \in Int
    BY <1>2, <2>1 DEF Points
  <2>3. /\ Abs(ee'[1] - aim[1]) <= Abs(ee[1] - aim[1])
        /\ (ee'[1] - aim[1]) * (ee'[1] - aim[1]) <= (ee[1] - aim[1]) * (ee[1] - aim[1])
        /\ (ee'[2] - aim[2]) * (ee'[2] - aim[2]) <= (ee[2] - aim[2]) * (ee[2] - aim[2])
    BY <2>1, <2>2, NotFarther
  <2>4. Square(ee', aim) <= Square(ee, aim)
    <3> DEFINE x1 == (ee'[1] - aim[1]) * (ee'[1] - aim[1])
               x2 == (ee'[2] - aim[2]) * (ee'[2] - aim[2])
               y1 == (ee[1] - aim[1]) * (ee[1] - aim[1])
               y2 == (ee[2] - aim[2]) * (ee[2] - aim[2])
    <3>1. /\ x1 \in Int /\ x2 \in Int /\ y1 \in Int /\ y2 \in Int /\ x1 <= y1 /\ x2 <= y2
          /\ Square(ee', aim) = x1 + x2 /\ Square(ee, aim) = y1 + y2
      BY <2>2, <2>3 DEF Square
    <3> HIDE DEF x1, x2, y1, y2
    <3>2. QED
      BY <3>1
  <2>5. QED
    BY <2>1, <2>2, <2>3, <2>4
<1>4. ASSUME NEW aim \in Points, AimPoint(a.aim) = aim, Within(ee, aim, PositionTolerance)
      PROVE  Within(ee', aim, PositionTolerance)
  <2> DEFINE dd == PositionTolerance * PositionTolerance
  <2>1. /\ Square(ee', aim) \in Int /\ Square(ee, aim) \in Int /\ dd \in Int
        /\ Square(ee', aim) <= Square(ee, aim) /\ Square(ee, aim) <= dd
    BY <1>2, <1>3, <1>4 DEF Square, Within
  <2> HIDE DEF dd
  <2>2. Square(ee', aim) <= dd
    BY <2>1
  <2>3. QED
    BY <2>2 DEF Within, dd
<1>5. CASE InPhase(a, "stabilize", "grasp_fine") /\ Within(ee, GraspTarget, PositionTolerance)
  <2>1. Within(ee', GraspTarget, PositionTolerance)
    BY <1>2, <1>4, <1>5, AimPoints DEF InPhase
  <2>2. QED
    BY <1>1, <1>2, <1>5, <2>1 DEF OnPath, InPhase
<1>6. CASE InPhase(a, "close_gripper", "stay") /\ Within(ee, GraspTarget, PositionTolerance)
  <2>1. ee' = ee
    BY <1>1, <1>2, <1>6, ArmStays DEF InPhase
  <2>2. QED
    BY <1>1, <1>2, <1>6, <2>1 DEF OnPath, InPhase
<1>7. CASE InPhase(a, "lift_object", "lift") /\ OverTarget
  <2>1. Abs(ee'[1] - LiftTarget[1]) <= Abs(ee[1] - LiftTarget[1])
    BY <1>2, <1>3, <1>7, AimPoints DEF InPhase
  <2>2. OverTarget'
    <3>1. LiftTarget[1] = target[1] /\ ee[1] \in Int /\ ee'[1] \in Int /\ target[1] \in Int
      BY <1>2, <1>3, <1>7, AimPoints DEF InPhase, LiftTarget, Points
    <3>2. QED
      BY <1>1, <1>2, <1>7, <2>1, <3>1 DEF OverTarget, Abs
  <2>3. QED
    BY <1>1, <1>7, <2>2 DEF OnPath, InPhase
<1>8. CASE InPhase(a, "move_above_bin", "carry") /\ AtHeight
  <2>1. /\ Between(ee'[2], ee[2], CarryTarget[2]) /\ CarryTarget[2] = CarryHeight
        /\ ee[2] \in Int /\ ee'[2] \in Int
    BY <1>2, <1>3, <1>8, AimPoints DEF InPhase, CarryTarget
  <2>2. AtHeight'
    BY <1>2, <1>8, <2>1 DEF AtHeight, Between
  <2>3. QED
    BY <1>1, <1>8, <2>2 DEF OnPath, InPhase
<1>9. CASE InPhase(a, "move_above_bin", "drop") /\ Aligned
  <2>1. /\ Abs(ee'[1] - DropTarget[1]) <= Abs(ee[1] - DropTarget[1])
        /\ DropTarget[1] = Bin[1] /\ ee[1] \in Int /\ ee'[1] \in Int /\ DropTarget[1] \in Int
    BY <1>2, <1>3, <1>9, AimPoints DEF InPhase, DropTarget, Points
  <2>2. Aligned'
    BY <1>2, <1>9, <2>1 DEF Aligned, Abs
  <2>3. QED
    BY <1>1, <1>9, <2>2 DEF OnPath, InPhase
<1>10. CASE InPhase(a, "move_to_object", "grasp") \/ Releases(a)
  BY <1>1, <1>10 DEF OnPath, InPhase, Releases
<1>11. QED
  BY <1>2, <1>5, <1>6, <1>7, <1>8, <1>9, <1>10 DEF Heads

LEMMA PathInductive == TypeInv /\ PathInv /\ [Next]_vars => PathInv'
<1>1. ASSUME TypeInv, PathInv, Step PROVE PathInv'
  <2>1. Exact' <=> Exact
    BY <1>1 DEF Step, Exact
  <2>2. QED
    BY <1>1, <2>1, PathStep DEF PathInv
<1>2. ASSUME PathInv, UNCHANGED vars PROVE PathInv'
  BY <1>2 DEF vars, PathInv, Exact, OnPath, Within, Square, GraspTarget, OverTarget, Aligned,
              AtHeight
<1>3. QED
  BY <1>1, <1>2 DEF Next
----------------------------------------------------------------------------
(* The path of an arm that errs.  Every command may push it off by the     *)
(* residual, out of alignment with the bin after it was lowered too; the   *)
(* calls made in move_above_bin count how often.                           *)

Stray(i) == trial.residual[i] * policy.move_above_bin_steps

StrayInv ==
  policy.phase = "move_above_bin" =>
    \/ Abs(ee[1] - Bin[1]) <= PositionTolerance + Stray(1)
    \/ ee[2] >= CarryHeight - PositionTolerance - Stray(2)

\* A call that stays in move_above_bin is one more; the first one counts 1.
LEMMA StepsCounted ==
  ASSUME NEW p \in PolicyRecords, NEW o, Predict(p, o).policy.phase = "move_above_bin"
  PROVE  LET n == Predict(p, o).policy.move_above_bin_steps
         IN /\ n \in Nat /\ n >= 1
            /\ p.phase = "move_above_bin" => n = p.move_above_bin_steps + 1
<1> DEFINE Counts(a) == a.policy.phase = "move_above_bin" =>
                          /\ a.policy.move_above_bin_steps \in Nat
                          /\ a.policy.move_above_bin_steps >= 1
<1>1. ASSUME NEW q \in PolicyRecords
      PROVE  InMoveAboveBin(q, o).policy.phase = "move_above_bin" =>
               InMoveAboveBin(q, o).policy.move_above_bin_steps = q.move_above_bin_steps + 1
  <2> DEFINE steps == q.move_above_bin_steps + 1
             r1 == [q EXCEPT !.phase = "move_above_bin"]
             r == [q EXCEPT !.phase = "move_above_bin", !.move_above_bin_steps = steps]
  <2>1. r \in PolicyRecords /\ r.move_above_bin_steps = steps
    <3>1. steps \in Nat
      BY PolicyFields
    <3>4. r1 \in PolicyRecords
      BY DEF PolicyRecords, Phases
    <3>2. r = [r1 EXCEPT !.move_above_bin_steps = steps]
      BY DEF PolicyRecords
    <3> HIDE DEF steps, r1
    <3>3. QED
      BY <3>1, <3>2, <3>4, PolicyFields
  <2>2. CASE OpensAboveBin(q, o, steps)
    <3>1. InMoveAboveBin(q, o) = InOpenGripper(r, o, OpenReason(o))
      BY <2>2 DEF InMoveAboveBin
    <3> HIDE DEF r
    <3>2. Releases(InOpenGripper(r, o, OpenReason(o)))
      BY <2>1, InOpenGripperReleases
    <3>3. QED
      BY <3>1, <3>2 DEF Releases, InPhase
  <2>3. CASE ~OpensAboveBin(q, o, steps)
    <3>1. InMoveAboveBin(q, o).policy = r
      BY <2>3 DEF InMoveAboveBin, Answer
    <3>2. QED
      BY <2>1, <3>1
  <2>4. QED
    BY <2>2, <2>3
<1>2. \A q \in PolicyRecords : Counts(InMoveAboveBin(q, o))
  BY <1>1, PolicyFields
<1>3. \A q \in PolicyRecords : Counts(InLiftObject(q, o))
  <2> TAKE q \in PolicyRecords
  <2> DEFINE r == [q EXCEPT !.phase = "lift_object"]
             z == [r EXCEPT !.move_above_bin_steps = 0]
  <2>1. r \in PolicyRecords /\ r.phase = "lift_object" /\ z \in PolicyRecords
    BY DEF PolicyRecords, Phases
  <2>2. \/ InLiftObject(q, o) = InMoveAboveBin(z, o)
        \/ InLiftObject(q, o).policy = r
    BY DEF InLiftObject, Answer
  <2> HIDE DEF r, z
  <2>3. QED
    BY <1>2, <2>1, <2>2
<1>4. \A q \in PolicyRecords : Counts(InCloseGripper(q, o))
  <2> TAKE q \in PolicyRecords
  <2> DEFINE r == [q EXCEPT !.phase = "close_gripper"]
  <2>1. r \in PolicyRecords /\ r.phase = "close_gripper"
    BY DEF PolicyRecords, Phases
  <2>2. \/ InCloseGripper(q, o) = InLiftObject(r, o)
        \/ InCloseGripper(q, o).policy = r
    BY DEF InCloseGripper, Answer
  <2> HIDE DEF r
  <2>3. QED
    BY <1>3, <2>1, <2>2
<1>5. \A q \in PolicyRecords : Counts(InStabilize(q, o))
  <2> TAKE q \in PolicyRecords
  <2> DEFINE n == q.stabilization_counter + 1
             r1 == [q EXCEPT !.phase = "stabilize"]
             r == [q EXCEPT !.phase = "stabilize", !.stabilization_counter = n]
  <2>1. r \in PolicyRecords /\ r.phase = "stabilize"
    <3>1. n \in Nat
      BY PolicyFields
    <3>4. r1 \in PolicyRecords /\ r1.phase = "stabilize"
      BY DEF PolicyRecords, Phases
    <3>2. r = [r1 EXCEPT !.stabilization_counter = n]
      BY DEF PolicyRecords
    <3> HIDE DEF n, r1
    <3>3. QED
      BY <3>1, <3>2, <3>4, PolicyFields
  <2>2. \/ InStabilize(q, o) = InCloseGripper(r, o)
        \/ InStabilize(q, o).policy = r
    BY DEF InStabilize, Answer
  <2> HIDE DEF r
  <2>3. QED
    BY <1>4, <2>1, <2>2
<1>6. p.phase = "move_to_object" => Counts(InMoveToObject(p, o))
  <2> DEFINE r == [p EXCEPT !.stabilization_counter = 0]
  <2>1. r \in PolicyRecords
    BY DEF PolicyRecords
  <2>2. \/ InMoveToObject(p, o) = InStabilize(r, o)
        \/ InMoveToObject(p, o) = InCloseGripper(p, o)
        \/ InMoveToObject(p, o).policy = p
    BY DEF InMoveToObject, Answer
  <2> HIDE DEF r
  <2>3. QED
    BY <1>4, <1>5, <2>1, <2>2
<1>7. /\ Releases(InOpenGripper(p, o, "none"))
      /\ InDone(p, "none").policy.phase = "done"
  BY InOpenGripperReleases DEF InDone, Answer, PolicyRecords
<1>8. p.phase \in Phases
  BY PolicyFields
<1>9. p.phase = "move_above_bin" => Predict(p, o) = InMoveAboveBin(p, o)
  BY DEF Predict
<1>10. Counts(Predict(p, o))
  <2> HIDE DEF Counts
  <2>1. Releases(InOpenGripper(p, o, "none")) => Counts(InOpenGripper(p, o, "none"))
    BY DEF Counts, Releases, InPhase
  <2>2. Counts(InDone(p, "none"))
    BY <1>7 DEF Counts
  <2>3. QED
    BY <1>2, <1>3, <1>4, <1>5, <1>6, <1>7, <1>8, <2>1, <2>2 DEF Predict, Phases
<1>11. QED
  BY <1>1, <1>9, <1>10

\* Products with a count, as far as they are needed.
LEMMA StrayGrows ==
  ASSUME NEW r \in Nat, NEW n \in Nat
  PROVE  r * n \in Nat /\ r * (n + 1) = r * n + r /\ (n >= 1 => r * n >= r)
<1>1. r * n \in Nat /\ r * (n + 1) = r * n + r
  OBVIOUS
<1>2. ASSUME n >= 1 PROVE r * n >= r
  <2>1. PICK k \in Nat : n = k + 1
    BY <1>2
  <2>2. r * k \in Nat /\ r * (k + 1) = r * k + r
    OBVIOUS
  <2>3. QED
    BY <2>1, <2>2
<1>3. QED
  BY <1>1, <1>2

LEMMA StrayStep ==
  ASSUME TypeInv, StrayInv, Step
  PROVE  StrayInv'
<1> SUFFICES ASSUME policy'.phase = "move_above_bin"
             PROVE  \/ Abs(ee'[1] - Bin[1]) <= PositionTolerance + Stray(1)'
                    \/ ee'[2] >= CarryHeight - PositionTolerance - Stray(2)'
  BY DEF StrayInv
<1> DEFINE a == Predict(policy, Observation)
           n == policy.move_above_bin_steps
           n1 == policy'.move_above_bin_steps
           x == ee[1] - Bin[1]
           R1 == trial.residual[1]
           R2 == trial.residual[2]
<1>1. /\ policy' = a.policy /\ ee' \in Achieved(Delta(a.aim)) /\ UNCHANGED <<trial, target>>
  BY DEF Step
<1>2. /\ trial \in Trials /\ policy \in PolicyRecords /\ ee \in Points /\ target \in Points
  BY DEF TypeInv, TypeOK
<1>3. /\ n \in Nat /\ n1 \in Nat /\ n1 >= 1 /\ (policy.phase = "move_above_bin" => n1 = n + 1)
  BY <1>1, <1>2, StepsCounted, PolicyFields
<1>4. /\ InPhase(a, "move_above_bin", IF Aligned THEN "drop" ELSE "carry")
      /\ policy.phase # "move_above_bin" => Observation.at_lift
  <2>1. Continues(policy.phase, a, Observation) /\ policy.phase \in Phases
    BY <1>2, PredictContinues, PolicyFields
  <2>2. Observation.aligned = Aligned
    BY DEF Observation
  <2>3. a.policy.phase = "move_above_bin"
    BY <1>1
  <2> HIDE DEF a
  <2>4. QED
    BY <2>1, <2>2, <2>3
       DEF Phases, Continues, Approaches, Steadies, Grasps, Lifts, Travels, Releases, InPhase
<1> HIDE DEF a
<1>5. /\ R1 \in Nat /\ R2 \in Nat /\ Bin[1] \in Int /\ ee[1] \in Int /\ ee[2] \in Int
      /\ x \in Int /\ PositionTolerance \in Nat /\ CarryHeight \in Nat
  BY <1>2, TrialFields, GeometryAssumption DEF Points
<1>6. /\ Stray(1) = R1 * n /\ Stray(2) = R2 * n
      /\ Stray(1)' = R1 * n1 /\ Stray(2)' = R2 * n1
  BY <1>1 DEF Stray
<1>7. /\ R1 * n \in Nat /\ R2 * n \in Nat /\ R1 * n1 \in Nat /\ R2 * n1 \in Nat
      /\ R1 * n1 >= R1 /\ R2 * n1 >= R2
      /\ policy.phase = "move_above_bin" => R1 * n1 = R1 * n + R1 /\ R2 * n1 = R2 * n + R2
  BY <1>3, <1>5, StrayGrows
<1>8. CASE Aligned
  <2>1. AimPoint(a.aim) = DropTarget /\ DropTarget \in Points
    BY <1>2, <1>4, <1>8, AimPoints DEF InPhase
  <2>2. PICK m \in Int, r \in -R1..R1 : ee'[1] = m + r /\ Between(m, ee[1], Bin[1])
    BY <1>1, <1>2, <2>1, ArmMoves DEF DropTarget
  <2>3. Abs(m - Bin[1]) <= Abs(ee[1] - Bin[1])
    BY <1>5, <2>2, NotFarther
  <2>4. Abs(ee'[1] - Bin[1]) <= PositionTolerance + R1
    BY <1>5, <1>8, <2>2, <2>3 DEF Aligned, Abs
  <2> HIDE DEF n, n1, R1, R2
  <2>5. QED
    BY <1>5, <1>6, <1>7, <2>2, <2>4 DEF Abs
<1>9. CASE ~Aligned
  <2>1. AimPoint(a.aim) = CarryTarget /\ CarryTarget \in Points
    BY <1>2, <1>4, <1>9, AimPoints DEF InPhase
  <2>2. PICK m \in Int, r \in -R1..R1 : ee'[1] = m + r /\ Between(m, ee[1], Bin[1])
    BY <1>1, <1>2, <2>1, ArmMoves DEF CarryTarget
  <2>3. PICK k \in Int, s \in -R2..R2 : ee'[2] = k + s /\ Between(k, ee[2], CarryHeight)
    BY <1>1, <1>2, <2>1, ArmMoves DEF CarryTarget
  <2>4. Abs(ee'[1] - Bin[1]) <= Abs(ee[1] - Bin[1]) + R1
    <3>1. Abs(m - Bin[1]) <= Abs(ee[1] - Bin[1])
      BY <1>5, <2>2, NotFarther
    <3>2. QED
      BY <1>5, <2>2, <3>1 DEF Abs
  <2>5. ee'[2] >= ee[2] - R2 \/ ee'[2] >= CarryHeight - R2
    BY <1>5, <2>3 DEF Between
  <2>6. ee'[1] \in Int /\ ee'[2] \in Int
    BY <1>5, <2>2, <2>3
  <2>7. Abs(ee'[1] - Bin[1]) \in Int /\ Abs(ee[1] - Bin[1]) \in Int
    BY <1>5, <2>6 DEF Abs
  <2> HIDE DEF n, n1, R1, R2
  <2>8. CASE policy.phase = "move_above_bin"
    <3>1. \/ Abs(ee[1] - Bin[1]) <= PositionTolerance + R1 * n
          \/ ee[2] >= CarryHeight - PositionTolerance - R2 * n
      BY <1>6, <2>8 DEF StrayInv
    <3>2. R1 * n1 = R1 * n + R1 /\ R2 * n1 = R2 * n + R2
      BY <1>7, <2>8
    <3>3. QED
      BY <1>5, <1>6, <1>7, <2>4, <2>5, <2>6, <2>7, <3>1, <3>2
  <2>9. CASE policy.phase # "move_above_bin"
    <3>1. Within(ee, LiftTarget, PositionTolerance) /\ LiftTarget \in Points
      BY <1>2, <1>4, <2>9, AimPoints DEF Observation
    <3>2. Abs(ee[2] - CarryHeight) <= PositionTolerance
      BY <1>2, <1>5, <3>1, WithinAxes DEF LiftTarget
    <3>3. ee[2] >= CarryHeight - PositionTolerance
      BY <1>5, <3>2 DEF Abs
    <3>4. QED
      BY <1>5, <1>6, <1>7, <2>5, <2>6, <3>3
  <2>10. QED
    BY <2>8, <2>9
<1>10. QED
  BY <1>8, <1>9

LEMMA StrayInductive == TypeInv /\ StrayInv /\ [Next]_vars => StrayInv'
<1>1. ASSUME StrayInv, UNCHANGED vars PROVE StrayInv'
  BY <1>1 DEF vars, StrayInv, Stray
<1>2. QED
  BY <1>1, StrayStep DEF Next

LEMMA StrayInit == Init => StrayInv
BY DEF Init, ResetPolicy, StrayInv

\* In every geometry and for every residual error: the object is lifted over
\* the place of the grasp, and on the way to the bin the arm is below the
\* carry height only where it is aligned with the bin, both limits loosened
\* by no more than the errors since the lift add up to.
THEOREM CarriedAtHeight == Spec => []CarriesAtHeight
<1>1. TypeInv /\ PathInv /\ StrayInv => CarriesAtHeight
  <2> SUFFICES ASSUME TypeInv, PathInv, StrayInv, gripper.held_object
               PROVE  IF policy.phase = "move_above_bin"
                      THEN \/ Abs(ee[1] - Bin[1]) <= PositionTolerance + Stray(1)
                           \/ ee[2] >= CarryHeight - PositionTolerance - Stray(2)
                      ELSE Exact => OverTarget
    BY DEF CarriesAtHeight, Stray, Exact, OverTarget
  <2>1. ee \in Points /\ target \in Points /\ PositionTolerance \in Nat
    BY GeometryAssumption DEF TypeInv, TypeOK
  <2>2. policy.phase \in {"close_gripper", "lift_object", "move_above_bin"}
    BY DEF TypeInv, TypeOK, PolicyRecords, Phases, AgreeInv, Agree, PhaseAgrees, Untouched, Rid
  <2>3. Within(ee, GraspTarget, PositionTolerance) => OverTarget
    BY <2>1, AimPoints, WithinAxes DEF GraspTarget, OverTarget
  <2>4. QED
    BY <2>2, <2>3 DEF PathInv, OnPath, StrayInv
<1>2. QED
  BY <1>1, PathInductive, StrayInductive, TypeInit, TypeStep, PathInit, StrayInit, PTL DEF Spec
----------------------------------------------------------------------------
(* Grasp and release.  What the lengths of the code have to leave room     *)
(* for, in whatever place object, bin and arm are.                         *)

\* Within position_tolerance of the grasp target of a well perceived object is
\* within GRASP_THRESHOLD of the object.
GraspInReach ==
  \A a, b \in Int, e \in -2..2 :
    a * a + b * b <= PositionTolerance * PositionTolerance =>
      (a + e) * (a + e) + (b + GraspOffset) * (b + GraspOffset)
        < GraspThreshold * GraspThreshold

\* An object held with error g below the gripper (never above it) and let go
\* with error u over the drop target is within PLACE_THRESHOLD of the bin.
RoomForErrors ==
  \A u1, u2, g1, g2 \in Int :
    (/\ u1 * u1 + u2 * u2 <= PositionTolerance * PositionTolerance
     /\ g1 * g1 + g2 * g2 <= PositionTolerance * PositionTolerance
     /\ g2 >= 0)
    => (u1 - g1) * (u1 - g1)
         + (u2 - g2 + PlaceClearance - GraspOffset) * (u2 - g2 + PlaceClearance - GraspOffset)
         <= PlaceThreshold * PlaceThreshold

\* The arm starts above where it will grasp.
StartsAbove == \A t \in Trials : t.home[2] >= ObjectStart[2] + GraspOffset

\* The lengths of dummy_openvla_policy.py and pybullet_panda_backend.py leave
\* that room: 3 cm, 1.5 cm, 5 cm, 5 cm and 8 cm in units of 5 mm.
THEOREM LengthsOfTheCodeFit ==
  ASSUME PositionTolerance = 6, GraspOffset = 3, GraspThreshold = 10,
         PlaceClearance = 10, PlaceThreshold = 16
  PROVE  GraspInReach /\ RoomForErrors
<1>1. ASSUME NEW a \in Int, NEW b \in Int, NEW e \in -2..2, a * a + b * b <= 36
      PROVE  (a + e) * (a + e) + (b + 3) * (b + 3) < 100
  <2>1. /\ (a + e) * (a + e) + (b + 3) * (b + 3)
             = a * a + b * b + 2 * (a * e) + 6 * b + e * e + 9
        /\ a * a \in Int /\ b * b \in Int /\ a * e \in Int /\ e * e \in Int
    OBVIOUS
  <2>2. e * e <= 4
    OBVIOUS
  <2>3. 0 <= (3 * a - 5 * e) * (3 * a - 5 * e) /\ 0 <= (3 * b - 15) * (3 * b - 15)
    OBVIOUS
  <2>4. /\ (3 * a - 5 * e) * (3 * a - 5 * e) = 9 * (a * a) - 30 * (a * e) + 25 * (e * e)
        /\ (3 * b - 15) * (3 * b - 15) = 9 * (b * b) - 90 * b + 225
    OBVIOUS
  <2>5. QED
    BY <1>1, <2>1, <2>2, <2>3, <2>4
<1>2. ASSUME NEW u1 \in Int, NEW u2 \in Int, NEW g1 \in Int, NEW g2 \in Int,
             u1 * u1 + u2 * u2 <= 36, g1 * g1 + g2 * g2 <= 36, g2 >= 0
      PROVE  (u1 - g1) * (u1 - g1) + (u2 - g2 + 7) * (u2 - g2 + 7) <= 256
  <2> DEFINE w == g2 - 7
  <2>1. /\ 0 <= (3 * u1 + 2 * g1) * (3 * u1 + 2 * g1)
        /\ 0 <= (3 * u2 + 2 * w) * (3 * u2 + 2 * w)
    OBVIOUS
  <2>2. /\ (3 * u1 + 2 * g1) * (3 * u1 + 2 * g1)
             = 9 * (u1 * u1) + 12 * (u1 * g1) + 4 * (g1 * g1)
        /\ (3 * u2 + 2 * w) * (3 * u2 + 2 * w)
             = 9 * (u2 * u2) + 12 * (u2 * w) + 4 * (w * w)
        /\ (u1 - g1) * (u1 - g1) = u1 * u1 - 2 * (u1 * g1) + g1 * g1
        /\ (u2 - g2 + 7) * (u2 - g2 + 7) = u2 * u2 - 2 * (u2 * w) + w * w
        /\ w * w = g2 * g2 - 14 * g2 + 49
    OBVIOUS
  <2>3. /\ u1 * u1 \in Int /\ u2 * u2 \in Int /\ g1 * g1 \in Int /\ g2 * g2 \in Int
        /\ u1 * g1 \in Int /\ u2 * w \in Int /\ w * w \in Int
    OBVIOUS
  <2> HIDE DEF w
  <2>4. QED
    BY <1>2, <2>1, <2>2, <2>3
<1>3. GraspInReach
  BY <1>1 DEF GraspInReach
<1>4. RoomForErrors
  <2> SUFFICES ASSUME NEW u1 \in Int, NEW u2 \in Int, NEW g1 \in Int, NEW g2 \in Int,
                      u1 * u1 + u2 * u2 <= PositionTolerance * PositionTolerance,
                      g1 * g1 + g2 * g2 <= PositionTolerance * PositionTolerance, g2 >= 0
               PROVE  (u1 - g1) * (u1 - g1)
                        + (u2 - g2 + PlaceClearance - GraspOffset)
                            * (u2 - g2 + PlaceClearance - GraspOffset)
                        <= PlaceThreshold * PlaceThreshold
    BY DEF RoomForErrors
  <2>1. /\ PositionTolerance * PositionTolerance = 36 /\ PlaceThreshold * PlaceThreshold = 256
        /\ u2 - g2 + PlaceClearance - GraspOffset = u2 - g2 + 7
    OBVIOUS
  <2>2. u1 * u1 + u2 * u2 <= 36 /\ g1 * g1 + g2 * g2 <= 36
    BY <2>1, Zenon
  <2>3. (u1 - g1) * (u1 - g1) + (u2 - g2 + 7) * (u2 - g2 + 7) <= 256
    BY <1>2, <2>2, Zenon
  <2>4. QED
    BY <2>1, <2>3, Zenon
<1>5. QED
  BY <1>3, <1>4

\* Where an object is before the gripper acts on it.
Carried == IF gripper.held_object THEN Plus(object, Minus(ee', ee)) ELSE object

\* One iteration, part by part.
LEMMA StepParts ==
  ASSUME TypeInv, Step, NEW a, a = Predict(policy, Observation)
  PROVE  /\ SoundAnswer(a, gripper) /\ Continues(policy.phase, a, Observation)
         /\ policy' = a.policy /\ reason' = a.reason /\ target' = target /\ trial' = trial
         /\ ee' \in Achieved(Delta(a.aim)) /\ ee' \in Points
         /\ gripper' = ApplyGripper(gripper, a.gripper,
                                    CloserThan(ee', Carried, GraspThreshold),
                                    Within(Carried, Bin, PlaceThreshold))
         /\ object' = IF gripper.held_object /\ gripper'.task_status = "success"
                      THEN Bin ELSE Carried
         /\ AgreeInv' /\ Carries(gripper, gripper')
<1>1. AgreeInv' /\ Carries(gripper, gripper')
  BY StepSound DEF TypeInv
<1>2. policy \in PolicyRecords /\ PhaseAgrees(policy.phase, gripper)
  BY DEF TypeInv, AgreeInv, Agree
<1>3. SoundAnswer(a, gripper) /\ Continues(policy.phase, a, Observation)
  <2>1. Reports(Observation, gripper)
    BY DEF Observation, Reports
  <2>2. QED
    BY <1>2, <2>1, PredictSoundAnswer, PredictContinues
<1>4. /\ policy' = a.policy /\ reason' = a.reason /\ target' = target /\ trial' = trial
      /\ ee' \in Achieved(Delta(a.aim)) /\ ee' \in Points
      /\ gripper' = ApplyGripper(gripper, a.gripper,
                                 CloserThan(ee', Carried, GraspThreshold),
                                 Within(Carried, Bin, PlaceThreshold))
      /\ object' = IF gripper.held_object /\ gripper'.task_status = "success"
                   THEN Bin ELSE Carried
  BY GeometryAssumption DEF Step, Carried
<1>5. QED
  BY <1>1, <1>3, <1>4

\* The object stays where it was until it is grasped, and only the horizontal
\* place of it is ever misperceived.
ObjectInv ==
  /\ target[2] = ObjectStart[2]
  /\ Waiting(gripper) => object = ObjectStart

LEMMA ObjectInit == Init => ObjectInv
BY DEF Init, ObjectInv

LEMMA ObjectStep == TypeInv /\ ObjectInv /\ [Next]_vars => ObjectInv'
<1>1. ASSUME TypeInv, ObjectInv, Step PROVE ObjectInv'
  <2>1. /\ Carries(gripper, gripper') /\ target' = target
        /\ object' = IF gripper.held_object /\ gripper'.task_status = "success"
                     THEN Bin ELSE Carried
    BY <1>1, StepParts
  <2>2. ASSUME Waiting(gripper') PROVE object' = ObjectStart
    <3>1. Waiting(gripper)
      BY <2>1, <2>2 DEF Carries, Waiting, Rid
    <3>2. QED
      BY <1>1, <2>1, <3>1 DEF ObjectInv, Carried, Waiting
  <2>3. QED
    BY <1>1, <2>1, <2>2 DEF ObjectInv
<1>2. ASSUME ObjectInv, UNCHANGED vars PROVE ObjectInv'
  BY <1>2 DEF vars, ObjectInv, Waiting
<1>3. QED
  BY <1>1, <1>2 DEF Next

\* A close command is given at the grasp target, to a waiting gripper.
LEMMA ClosesAtTarget ==
  ASSUME Exact, TypeInv, PathInv, Step, policy'.phase = "close_gripper",
         Waiting(gripper)
  PROVE  /\ ee' = ee /\ Within(ee, GraspTarget, PositionTolerance)
         /\ Predict(policy, Observation).gripper = "close"
<1> DEFINE a == Predict(policy, Observation)
<1>1. /\ SoundAnswer(a, gripper) /\ policy' = a.policy /\ Heads(a)
      /\ trial \in Trials /\ ee \in Points /\ ee' \in Achieved(Delta(a.aim))
  BY StepParts, AnswersOnThePath DEF TypeInv, TypeOK, PathInv
<1> HIDE DEF a
<1>2. InPhase(a, "close_gripper", "stay") /\ Within(ee, GraspTarget, PositionTolerance)
  BY <1>1 DEF Heads, Releases, InPhase
<1>3. ee' = ee
  BY <1>1, <1>2, ArmStays DEF InPhase
<1>4. a.gripper = "close"
  BY <1>1 DEF SoundAnswer
<1>5. QED
  BY <1>2, <1>3, <1>4 DEF a

LEMMA InReach ==
  ASSUME GraspInReach, TypeInv, ObjectInv, WellPerceived,
         Within(ee, GraspTarget, PositionTolerance)
  PROVE  CloserThan(ee, ObjectStart, GraspThreshold)
<1> DEFINE a == ee[1] - target[1]
           b == ee[2] - (target[2] + GraspOffset)
           e == target[1] - ObjectStart[1]
<1>1. /\ ee[1] \in Int /\ ee[2] \in Int /\ target[1] \in Int /\ target[2] \in Int
      /\ ObjectStart[1] \in Int /\ GraspOffset \in Int
  BY GeometryAssumption DEF TypeInv, TypeOK, Points
<1>2. a \in Int /\ b \in Int /\ e \in -2..2
  <2>1. a \in Int /\ b \in Int /\ e \in Int
    BY <1>1
  <2>2. Abs(e) <= 2
    BY DEF WellPerceived
  <2> HIDE DEF a, b, e
  <2>3. QED
    BY <2>1, <2>2 DEF Abs
<1>3. a * a + b * b <= PositionTolerance * PositionTolerance
  BY DEF Within, Square, GraspTarget
<1>4. a + e = ee[1] - ObjectStart[1] /\ b + GraspOffset = ee[2] - ObjectStart[2]
  BY <1>1 DEF ObjectInv
<1> HIDE DEF a, b, e
<1>5. (a + e) * (a + e) + (b + GraspOffset) * (b + GraspOffset)
        < GraspThreshold * GraspThreshold
  BY <1>2, <1>3 DEF GraspInReach
<1>6. QED
  BY <1>4, <1>5, Zenon DEF CloserThan, Square

\* The first close command grasps: wherever the arm has stopped within
\* tolerance of the target, a well perceived object is in reach.
THEOREM FirstCloseGrasps ==
  ASSUME GraspInReach
  PROVE  Spec => CloseGraspsAtOnce
<1> DEFINE Grasping == WellPerceived /\ policy'.phase = "close_gripper" /\ gripper' # gripper =>
                         gripper'.held_object
<1>1. TypeInv /\ PathInv /\ ObjectInv /\ [Next]_vars => [Grasping]_vars
  <2> SUFFICES ASSUME TypeInv, PathInv, ObjectInv, Step,
                      WellPerceived, policy'.phase = "close_gripper", gripper' # gripper
               PROVE  gripper'.held_object
    BY DEF Next
  <2> DEFINE a == Predict(policy, Observation)
             near == CloserThan(ee', Carried, GraspThreshold)
             over_bin == Within(Carried, Bin, PlaceThreshold)
  <2>1. /\ SoundAnswer(a, gripper) /\ policy' = a.policy
        /\ gripper' = ApplyGripper(gripper, a.gripper, near, over_bin)
    BY StepParts
  <2>2. Waiting(gripper) /\ gripper \in GripperRecords
    BY <2>1 DEF SoundAnswer, TypeInv, TypeOK
  <2>3. ee' = ee /\ Within(ee, GraspTarget, PositionTolerance) /\ a.gripper = "close"
    BY <2>2, ClosesAtTarget DEF WellPerceived, Exact
  <2>4. Carried = ObjectStart
    BY <2>2 DEF Carried, ObjectInv, Waiting
  <2>5. near
    BY <2>3, <2>4, InReach
  <2> HIDE DEF a, near, over_bin
  <2>6. CASE gripper.fingers_open
    BY <2>1, <2>2, <2>3, <2>5, <2>6, CloseGrasps DEF Waiting
  <2>7. CASE ~gripper.fingers_open
    BY <2>1, <2>3, <2>7 DEF ApplyGripper, Actuates
  <2>8. QED
    BY <2>6, <2>7
<1>2. QED
  BY <1>1, PathInductive, TypeInit, TypeStep, PathInit, ObjectInit, ObjectStep, PTL
     DEF Spec, CloseGraspsAtOnce

\* What is held hangs below the gripper, within tolerance of where the grasp
\* aimed; before the grasp the arm has only ever come down to it.
HangsBelow ==
  /\ Within(ee, <<object[1], object[2] + GraspOffset>>, PositionTolerance)
  /\ ee[2] >= object[2] + GraspOffset

HeldInv ==
  /\ Exact /\ policy.phase \in {"move_to_object", "stabilize", "close_gripper"} =>
       ee[2] >= ObjectStart[2] + GraspOffset
  /\ Exact /\ gripper.held_object /\ target = ObjectStart => HangsBelow

LEMMA HeldInit == StartsAbove /\ Init => HeldInv
BY DEF StartsAbove, Init, HeldInv, ResetGripper

\* Before the lift the arm aims at the grasp target or stays.
LEMMA ComesDown ==
  ASSUME Exact, TypeInv, ObjectInv, HeldInv, Step,
         policy'.phase \in {"move_to_object", "stabilize", "close_gripper"}
  PROVE  ee'[2] >= ObjectStart[2] + GraspOffset
<1> DEFINE a == Predict(policy, Observation)
           low == ObjectStart[2] + GraspOffset
<1>1. /\ Continues(policy.phase, a, Observation) /\ policy' = a.policy
      /\ ee' \in Achieved(Delta(a.aim)) /\ ee' \in Points
      /\ trial \in Trials /\ ee \in Points /\ target \in Points /\ policy.phase \in Phases
  BY StepParts, PolicyFields DEF TypeInv, TypeOK
<1>2. GraspTarget \in Points /\ GraspTarget[2] = low /\ low \in Int
  BY <1>1, AimPoints DEF GraspTarget, ObjectInv, Points
<1> HIDE DEF a, low
<1>3. /\ policy.phase \in {"move_to_object", "stabilize", "close_gripper"}
      /\ a.aim \in {"grasp", "grasp_fine", "stay"}
  BY <1>1 DEF Phases, Continues, Approaches, Steadies, Grasps, Lifts, Travels, Releases, InPhase
<1>4. ee[2] >= low
  BY <1>3 DEF HeldInv, low
<1>5. AimPoint(a.aim) \in Points /\ AimPoint(a.aim)[2] >= low
  <2>1. AimPoint(a.aim) = GraspTarget \/ AimPoint(a.aim) = ee
    BY <1>1, <1>3, AimPoints
  <2>2. GraspTarget[2] >= low
    BY <1>2
  <2>3. QED
    BY <1>1, <1>2, <1>4, <2>1, <2>2
<1>6. Between(ee'[2], ee[2], AimPoint(a.aim)[2])
  BY <1>1, <1>5, ArmApproaches
<1>7. ee[2] \in Int /\ ee'[2] \in Int /\ AimPoint(a.aim)[2] \in Int
  BY <1>1, <1>5 DEF Points
<1>8. ee'[2] >= low
  BY <1>2, <1>4, <1>5, <1>6, <1>7 DEF Between
<1>9. QED
  BY <1>8 DEF low

\* A held object moves with the arm.
LEMMA MovesAlong ==
  ASSUME TypeInv, HangsBelow, ee' \in Points, object' = Plus(object, Minus(ee', ee))
  PROVE  HangsBelow'
<1>1. /\ ee[1] \in Int /\ ee[2] \in Int /\ ee'[1] \in Int /\ ee'[2] \in Int
      /\ object[1] \in Int /\ object[2] \in Int /\ GraspOffset \in Int
  BY GeometryAssumption DEF TypeInv, TypeOK, Points
<1>2. /\ object'[1] = object[1] + (ee'[1] - ee[1])
      /\ object'[2] = object[2] + (ee'[2] - ee[2])
  BY DEF Plus, Minus
<1>3. /\ ee'[1] - object'[1] = ee[1] - object[1]
      /\ ee'[2] - (object'[2] + GraspOffset) = ee[2] - (object[2] + GraspOffset)
      /\ ee'[2] >= object'[2] + GraspOffset
  BY <1>1, <1>2 DEF HangsBelow
<1>4. QED
  BY <1>3 DEF HangsBelow, Within, Square

LEMMA HeldStep ==
  TypeInv /\ PathInv /\ ObjectInv /\ HeldInv /\ [Next]_vars => HeldInv'
<1>1. ASSUME TypeInv, PathInv, ObjectInv, HeldInv, Step PROVE HeldInv'
  <2>1. /\ Carries(gripper, gripper') /\ target' = target /\ trial' = trial /\ AgreeInv'
        /\ SoundAnswer(Predict(policy, Observation), gripper)
        /\ policy' = Predict(policy, Observation).policy /\ ee' \in Points
        /\ object' = IF gripper.held_object /\ gripper'.task_status = "success"
                     THEN Bin ELSE Carried
    BY <1>1, StepParts
  <2>0. Exact' <=> Exact
    BY <2>1 DEF Exact
  <2>2. ASSUME Exact, gripper'.held_object, target' = ObjectStart PROVE HangsBelow'
    <3>1. gripper'.task_status = "grasped"
      BY <2>1, <2>2 DEF AgreeInv, Agree, PhaseAgrees, HoldsFirmly
    <3>2. object' = Carried
      BY <2>1, <3>1
    <3>3. CASE gripper.held_object
      BY <1>1, <2>1, <2>2, <3>2, <3>3, MovesAlong DEF Carried, HeldInv
    <3>4. CASE Waiting(gripper)
      <4>1. policy'.phase = "close_gripper"
        BY <2>1, <2>2, <3>4
           DEF SoundAnswer, AgreeInv, Agree, PhaseAgrees, Untouched, Waiting, Rid
      <4>2. ee' = ee /\ Within(ee, GraspTarget, PositionTolerance)
        BY <1>1, <2>2, <3>4, <4>1, ClosesAtTarget
      <4>3. object' = ObjectStart
        BY <1>1, <3>2, <3>4 DEF Carried, ObjectInv, Waiting
      <4>4. ee'[2] >= ObjectStart[2] + GraspOffset
        BY <1>1, <2>2, <4>1, ComesDown
      <4>5. QED
        BY <2>1, <2>2, <4>2, <4>3, <4>4 DEF HangsBelow, GraspTarget, Within, Square
    <3>5. QED
      BY <2>1, <2>2, <3>3, <3>4 DEF Carries, Rid
  <2>3. QED
    BY <1>1, <2>0, <2>2, ComesDown DEF HeldInv
<1>2. ASSUME HeldInv, UNCHANGED vars PROVE HeldInv'
  BY <1>2 DEF vars, HeldInv, Exact, HangsBelow, Within, Square
<1>3. QED
  BY <1>1, <1>2 DEF Next

\* Without a reason of its own, the release waits for the drop target: within
\* tolerance of the carry target the arm would be aligned.
LEMMA ReleasesAtDrop ==
  ASSUME TypeInv, gripper.held_object, NEW a, Continues(policy.phase, a, Observation),
         a.policy.phase = "open_gripper", a.reason = "none"
  PROVE  Within(ee, DropTarget, PositionTolerance)
<1>1. policy.phase \in {"close_gripper", "lift_object", "move_above_bin"}
  BY DEF TypeInv, TypeOK, PolicyRecords, Phases, AgreeInv, Agree, PhaseAgrees, Untouched, Rid
<1>2. Travels(a, Observation)
  BY <1>1 DEF Continues, Grasps, Lifts, InPhase
<1>3. Observation.at_stage
  BY <1>2 DEF Travels, TimedOut, InPhase
<1>4. Within(ee, StageTarget, PositionTolerance)
  BY <1>3 DEF Observation
<1>5. CASE Aligned
  BY <1>4, <1>5 DEF StageTarget
<1>6. CASE ~Aligned
  <2>1. ee \in Points /\ CarryTarget \in Points /\ PositionTolerance \in Nat
    BY AimPoints DEF TypeInv, TypeOK
  <2>2. Within(ee, CarryTarget, PositionTolerance)
    BY <1>4, <1>6 DEF StageTarget
  <2>3. Abs(ee[1] - CarryTarget[1]) <= PositionTolerance
    BY <2>1, <2>2, WithinAxes
  <2>4. QED
    BY <1>6, <2>3 DEF Aligned, CarryTarget
<1>7. QED
  BY <1>5, <1>6

LEMMA LandsInBin ==
  ASSUME RoomForErrors, TypeInv, HangsBelow, Within(ee, DropTarget, PositionTolerance)
  PROVE  Within(object, Bin, PlaceThreshold)
<1> DEFINE u1 == ee[1] - Bin[1]
           u2 == ee[2] - (Bin[2] + PlaceClearance)
           g1 == ee[1] - object[1]
           g2 == ee[2] - (object[2] + GraspOffset)
<1>1. /\ ee[1] \in Int /\ ee[2] \in Int /\ Bin[1] \in Int /\ Bin[2] \in Int
      /\ object[1] \in Int /\ object[2] \in Int
      /\ GraspOffset \in Int /\ PlaceClearance \in Int
  BY GeometryAssumption DEF TypeInv, TypeOK, Points
<1>2. u1 \in Int /\ u2 \in Int /\ g1 \in Int /\ g2 \in Int /\ g2 >= 0
  BY <1>1 DEF HangsBelow
<1>3. /\ u1 * u1 + u2 * u2 <= PositionTolerance * PositionTolerance
      /\ g1 * g1 + g2 * g2 <= PositionTolerance * PositionTolerance
  BY DEF Within, Square, DropTarget, HangsBelow
<1>4. /\ u1 - g1 = object[1] - Bin[1]
      /\ u2 - g2 + PlaceClearance - GraspOffset = object[2] - Bin[2]
  BY <1>1
<1> HIDE DEF u1, u2, g1, g2
<1>5. (u1 - g1) * (u1 - g1)
        + (u2 - g2 + PlaceClearance - GraspOffset) * (u2 - g2 + PlaceClearance - GraspOffset)
        <= PlaceThreshold * PlaceThreshold
  BY <1>2, <1>3 DEF RoomForErrors
<1>6. QED
  BY <1>4, <1>5, Zenon DEF Within, Square

\* An exactly perceived object that is released at the drop target lands in
\* the bin: the errors of grasp and release together leave it in reach.
THEOREM ReleasesLand ==
  ASSUME RoomForErrors, StartsAbove
  PROVE  Spec => ReleaseLandsInBin
<1> DEFINE Landing == target = ObjectStart /\ Exact /\ gripper.held_object /\ ~gripper'.held_object
                         /\ reason' = "none" => gripper'.task_status = "success"
<1>1. TypeInv /\ HeldInv /\ [Next]_vars => [Landing]_vars
  <2> SUFFICES ASSUME TypeInv, HeldInv, Step, target = ObjectStart, Exact,
                      gripper.held_object, ~gripper'.held_object, reason' = "none"
               PROVE  gripper'.task_status = "success"
    BY DEF Next
  <2> DEFINE a == Predict(policy, Observation)
             near == CloserThan(ee', Carried, GraspThreshold)
             over_bin == Within(Carried, Bin, PlaceThreshold)
  <2>1. /\ SoundAnswer(a, gripper) /\ Continues(policy.phase, a, Observation)
        /\ reason' = a.reason /\ ee' \in Achieved(Delta(a.aim))
        /\ gripper' = ApplyGripper(gripper, a.gripper, near, over_bin)
    BY StepParts
  <2>2. HoldsFirmly(gripper) /\ trial \in Trials /\ ee \in Points /\ object \in Points
    BY DEF TypeInv, TypeOK, AgreeInv, Agree, PhaseAgrees
  <2> HIDE DEF a, near, over_bin
  <2>3. a.policy.phase = "open_gripper" /\ a.gripper = "open"
    BY <2>1, <2>2 DEF SoundAnswer, Untouched, Waiting, Rid, ApplyGripper, Actuates, HoldsFirmly
  <2>4. Within(ee, DropTarget, PositionTolerance)
    BY <2>1, <2>3, ReleasesAtDrop
  <2>5. a.aim = "stay"
    <3>1. policy.phase \in Phases
      BY PolicyFields DEF TypeInv, TypeOK
    <3>2. QED
      BY <2>1, <2>3, <3>1
         DEF Phases, Continues, Approaches, Steadies, Grasps, Lifts, Travels, Releases, InPhase
  <2>6. ee' = ee
    BY <2>1, <2>2, <2>5, ArmStays
  <2>7. Carried = object
    BY <2>2, <2>6 DEF Carried, Plus, Minus, Points
  <2>8. over_bin
    BY <2>4, <2>7, LandsInBin DEF HeldInv, over_bin
  <2>9. QED
    BY <2>1, <2>2, <2>3, <2>8, ReleaseReports
<1>2. QED
  BY <1>1, PathInductive, TypeInit, TypeStep, PathInit, ObjectInit, ObjectStep,
     HeldInit, HeldStep, PTL DEF Spec, ReleaseLandsInBin, Exact
=============================================================================
