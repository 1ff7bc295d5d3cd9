--------------------------- MODULE ActionPipeline ---------------------------
(***************************************************************************)
(* The way of a model's output to a robot command, as operators:           *)
(* policy_semantics/adapters/smolvla_libero_adapter.py (native action to   *)
(* CanonicalRobotCommand), safety_filter.py, canonical_command.py (to the  *)
(* wire), vla_adapters/smolvla_adapter.py (which of the ways is taken),    *)
(* and on the client policy/vla_action_postprocessor.py and                *)
(* action_adapter/adapter_v0.py.                                           *)
(*                                                                         *)
(* An output is [native, length, finite, move, gripper]: native says that  *)
(* it has been through the official postprocessor and is a                 *)
(* NativePolicyAction.  One translation component, move, stands for all    *)
(* six: rotation is scaled, clipped and rejected in the same way.          *)
(***************************************************************************)
EXTENDS PolicyManifest

MaxTranslationStep == 30       \* action_postprocess.max_translation_step, mm
GripperThreshold == 500        \* gripper_threshold; wire values above close

Clip(value, low, high) == Max({low, Min({high, value})})
ClipStep(move) == Clip(move, -MaxTranslationStep, MaxTranslationStep)

\* _reject(), and the error status that the server makes of it.
Rejected == [accepted |-> FALSE, semantic_action_valid |-> FALSE, move |-> 0, gripper |-> 0]
Accepted(move, gripper, valid) ==
  [accepted |-> TRUE, semantic_action_valid |-> valid, move |-> move, gripper |-> gripper]
----------------------------------------------------------------------------
(* decode() of the LIBERO adapter.                                         *)

\* Mutant: the formula for the range -1..1, whatever the checkpoint's range.
OpeningOfLibero(raw, m) == (1000 - Clip(raw, -1000, 1000)) \div 2

\* _decode_gripper(), for a manifest with GripperKnown: 0 closed, 1000 open.
Opening(raw, m) ==
  LET low == m.gripper_range[1]
      high == m.gripper_range[2]
      value == Clip(raw, low, high)
  IN IF m.min_means = "open" THEN (1000 * (high - value)) \div (high - low)
     ELSE (1000 * (value - low)) \div (high - low)

\* _decode_translation_rotation(), for a manifest with ScaleKnown.
Metres(raw, m) == (Clip(raw, m.clip[1], m.clip[2]) * m.scale[1]) \div 1000

\* What decode() takes; it returns None for anything else.
Decodable(output, m) ==
  output.native /\ output.length = 7 /\ output.finite /\ GripperKnown(m) /\ ScaleKnown(m)

\* to_legacy_action_list(): a wide opening is 0.0 on the wire, a narrow one 1.0.
WireGripper(opening) == IF opening <= 500 THEN 1000 ELSE 0

\* decode(), PandaCommandSafetyFilter.apply() and to_legacy_action_list().
Production(output, m) ==
  IF Decodable(output, m)
  THEN Accepted(ClipStep(Metres(output.move, m)), WireGripper(Opening(output.gripper, m)), TRUE)
  ELSE Rejected
----------------------------------------------------------------------------
(* The smoke test's way: the shape of the output and nothing else.         *)

\* _extract_raw_action() finds no vector in a NativePolicyAction;
\* fill_to_seven() appends 0.0; _validate_and_clip() as on the client.
ShapeOnly(output) ==
  IF ~output.native /\ output.length \in {6, 7} /\ output.finite
  THEN Accepted(ClipStep(output.move),
                IF output.length = 7 /\ output.gripper >= GripperThreshold THEN 1000 ELSE 0,
                FALSE)
  ELSE Rejected

\* normalize_model_output() of SmolVLAActionAdapter: the manifest is resolved
\* again, under the model_id of the result.
Normalize(output, compatibility, disk) ==
  IF compatibility.passed
  THEN Production(output, GetManifest(disk, compatibility.model_id))
  ELSE IF compatibility.shape_only_allowed THEN ShapeOnly(output)
  ELSE Rejected
----------------------------------------------------------------------------
(* The client.                                                             *)

\* validate_and_postprocess_vla_action() and ActionAdapter.convert().
RobotCommand(action) ==
  [move |-> ClipStep(action.move),
   gripper |-> IF action.gripper >= GripperThreshold THEN "close" ELSE "open"]
=============================================================================
