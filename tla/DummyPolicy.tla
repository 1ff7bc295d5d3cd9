----------------------------- MODULE DummyPolicy -----------------------------
(***************************************************************************)
(* policy/dummy_openvla_policy.py: the phase machine that proposes one     *)
(* action per control-loop step.  predict_action() is the pure operator    *)
(* Predict(p, o): p is what the policy keeps between calls, o what the     *)
(* geometry and the robot state of this step amount to for its conditions. *)
(* Predict returns the new p, where the delta of the action aims, the      *)
(* gripper element of the action, the reported phase and the done flag.    *)
(*                                                                         *)
(* The code is an if-chain, not an elif-chain: a phase whose condition     *)
(* holds falls through into the next one in the same call.  Each phase is  *)
(* therefore an operator that ends in the operator of the phase after it.  *)
(*                                                                         *)
(* Observation fields:                                                     *)
(*   at_grasp, at_lift   within position_tolerance of the grasp target and *)
(*                       of the lift target                                *)
(*   aligned             xy within position_tolerance of the bin           *)
(*   near_bin            xy within bin_open_distance_threshold of the bin  *)
(*   at_stage            within tolerance of the current stage target      *)
(*   at_drop_height      z within tolerance of the drop height             *)
(*   held, status        robot_state["held_object"], ["task_status"]       *)
(***************************************************************************)
EXTENDS Naturals

CONSTANTS MaxMoveAboveBinSteps,    \* max_move_above_bin_steps
          StabilizationSteps       \* stabilization_steps (0: no such phase)

ASSUME PolicyConstantsAssumption ==
  /\ MaxMoveAboveBinSteps \in Nat \ {0}
  /\ StabilizationSteps \in Nat

Phases == {"move_to_object", "stabilize", "close_gripper", "lift_object",
           "move_above_bin", "open_gripper", "done"}

\* Where the translation of an action aims; "stay" is the zero delta.
Aims == {"stay", "grasp", "grasp_fine", "lift", "carry", "drop"}

\* __init__() and reset().
ResetPolicy ==
  [phase |-> "move_to_object", move_above_bin_steps |-> 0, stabilization_counter |-> 0]

PolicyRecords ==
  [phase : Phases, move_above_bin_steps : Nat, stabilization_counter : Nat]

\* The answer of one call: the action is that of the phase p now is in.
Answer(p, aim, gripper, reason) ==
  [policy |-> p, aim |-> aim, gripper |-> gripper, phase |-> p.phase,
   done |-> p.phase = "done", reason |-> reason]

InDone(p, reason) == Answer([p EXCEPT !.phase = "done"], "stay", "open", reason)

----------------------------------------------------------------------------
(* Mutants of the phase operators below (see "mutants" in PROJECT.json).   *)

\* The lift does not wait for the grasp to be confirmed.
InLiftObjectOpen(p, o) ==
  Answer([p EXCEPT !.phase = "lift_object"], "lift", "open", "none")

\* The time box is forgotten.
OpensAboveBinUntimed(p, o, steps) ==
  \/ o.at_stage
  \/ o.held /\ o.aligned /\ o.near_bin /\ o.at_drop_height

\* The gripper closes without waiting for the arm to be at the object.
InMoveToObjectEager(p, o) ==
  Answer([p EXCEPT !.phase = "close_gripper"], "stay", "close", "none")
----------------------------------------------------------------------------

\* Released (or never held): done in the same call.  reason only says in an
\* answer why the gripper opens; the code puts it into last_info and overwrites
\* that here, before any caller sees it.
InOpenGripper(p, o, reason) ==
  LET q == [p EXCEPT !.phase = "open_gripper"]
  IN IF o.status = "success" \/ ~o.held
     THEN InDone(q, reason)
     ELSE Answer(q, "stay", "open", reason)

\* reached_stage_target, near_bin_force_open or exceeded_max_steps.
OpensAboveBin(p, o, steps) ==
  \/ o.at_stage
  \/ o.held /\ o.aligned /\ o.near_bin /\ o.at_drop_height
  \/ o.held /\ steps >= MaxMoveAboveBinSteps

OpenReason(o) ==
  CASE o.at_stage                                              -> "none"
    [] ~o.at_stage /\ o.aligned /\ o.near_bin /\ o.at_drop_height -> "near_bin_force_open"
    [] OTHER                                                   -> "max_move_above_bin_steps_exceeded"

\* Travel at carry height until aligned with the bin, then straight down.
InMoveAboveBin(p, o) ==
  LET steps == p.move_above_bin_steps + 1
      q == [p EXCEPT !.phase = "move_above_bin", !.move_above_bin_steps = steps]
  IN IF OpensAboveBin(p, o, steps)
     THEN InOpenGripper(q, o, OpenReason(o))
     ELSE Answer(q, IF o.aligned THEN "drop" ELSE "carry", "close", "none")

\* Mutant: travels to the bin without lifting first.
InLiftObjectSkipped(p, o) ==
  InMoveAboveBin([p EXCEPT !.phase = "lift_object", !.move_above_bin_steps = 0], o)

InLiftObject(p, o) ==
  LET q == [p EXCEPT !.phase = "lift_object"]
  IN IF o.at_lift
     THEN InMoveAboveBin([q EXCEPT !.move_above_bin_steps = 0], o)
     ELSE Answer(q, "lift", "close", "none")

\* The close command is re-issued until the backend reports the grasp.
InCloseGripper(p, o) ==
  LET q == [p EXCEPT !.phase = "close_gripper"]
  IN IF o.held \/ o.status = "grasped"
     THEN InLiftObject(q, o)
     ELSE Answer(q, "stay", "close", "none")

InStabilize(p, o) ==
  LET q == [p EXCEPT !.phase = "stabilize",
                     !.stabilization_counter = p.stabilization_counter + 1]
  IN IF q.stabilization_counter >= StabilizationSteps
     THEN InCloseGripper(q, o)
     ELSE Answer(q, "grasp_fine", "open", "none")

InMoveToObject(p, o) ==
  IF ~o.at_grasp
  THEN Answer(p, "grasp", "open", "none")
  ELSE IF StabilizationSteps > 0
       THEN InStabilize([p EXCEPT !.stabilization_counter = 0], o)
       ELSE InCloseGripper(p, o)

\* predict_action(): enter the chain at the phase the last call ended in.
Predict(p, o) ==
  CASE p.phase = "move_to_object" -> InMoveToObject(p, o)
    [] p.phase = "stabilize"      -> InStabilize(p, o)
    [] p.phase = "close_gripper"  -> InCloseGripper(p, o)
    [] p.phase = "lift_object"    -> InLiftObject(p, o)
    [] p.phase = "move_above_bin" -> InMoveAboveBin(p, o)
    [] p.phase = "open_gripper"   -> InOpenGripper(p, o, "none")
    [] p.phase = "done"           -> InDone(p, "none")
=============================================================================
