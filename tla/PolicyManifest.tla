--------------------------- MODULE PolicyManifest ---------------------------
(***************************************************************************)
(* policy_semantics/manifest.py and compatibility_gate.py as operators:    *)
(* what the program believes about the actions of a checkpoint, derived    *)
(* from the checkpoint's own files, and whether that is enough to let it   *)
(* move the robot.                                                         *)
(*                                                                         *)
(* disk[ck] is the directory of a local checkpoint:                        *)
(*   parent      policy.pretrained_path of its train_config.json: a model  *)
(*               of the registry or another local checkpoint, NoConfig     *)
(*               without that file, Elsewhere for anything that cannot be  *)
(*               read or followed                                          *)
(*   processors  policy_preprocessor.json and policy_postprocessor.json    *)
(*   stats       None, or action.min and action.max of its unnormalizer in *)
(*               a tuple of one                                            *)
(*   declared    the fields its policy_manifest.json declares, <<>> for no *)
(*               such file                                                 *)
(*                                                                         *)
(* Action values are in thousandths, so that a scale in metres per unit is *)
(* one in millimetres per thousand.  Fields of the manifest that the gate  *)
(* compares in the same way are one field here:                            *)
(*   semantics     action_dimension, action_space, relative_or_absolute,   *)
(*                 rotation_representation, reference_frame                *)
(*   gripper       gripper_included, gripper_index, gripper_convention     *)
(*   observations  required_camera_roles, state_fields                     *)
(*   processors    official_processor_available and _wired, normalization  *)
(*   scale         native_translation_scale_m, native_rotation_scale_rad   *)
(***************************************************************************)
EXTENDS Integers, Sequences, FiniteSetsExt

CONSTANTS LocalCheckpoints, MaxAncestryDepth

Unknown == "UNKNOWN"
None == <<>>
NoConfig == "no train_config.json"
Elsewhere == "elsewhere"

SmolVLABase == "lerobot/smolvla_base"
SmolVLALibero == "HuggingFaceVLA/smolvla_libero"
Registry == {SmolVLABase, SmolVLALibero}

Unbounded == <<-1000000, 1000000>>         \* (float("-inf"), float("inf"))
OwnScale == 1000                           \* PANDA_TARGET_EMBODIMENT: metres
OwnMaxStep == 30                           \* _OWN_PIPELINE_MAX_STEP_SIZE_M

UnknownManifest(model_id) ==
  [model_id |-> model_id, embodiment |-> Unknown, semantics |-> Unknown,
   gripper |-> Unknown, observations |-> Unknown, processors |-> FALSE,
   axis_verified |-> FALSE, gripper_range |-> None, min_means |-> Unknown,
   max_means |-> Unknown, scale |-> None, clip |-> Unbounded]

RegisteredManifest(model_id) ==
  IF model_id = SmolVLALibero
  THEN [model_id |-> SmolVLALibero, embodiment |-> "panda", semantics |-> "ee_delta",
        gripper |-> "index 6", observations |-> "main and wrist", processors |-> TRUE,
        axis_verified |-> TRUE, gripper_range |-> <<-1000, 1000>>, min_means |-> "open",
        max_means |-> "close", scale |-> <<50>>, clip |-> <<-1000, 1000>>]
  ELSE [UnknownManifest(SmolVLABase) EXCEPT
          !.embodiment = "so100", !.semantics = "joints", !.gripper = "index 5",
          !.observations = "three cameras"]

\* The fields that are declared take the place of those of m.
Override(m, declared) ==
  [field \in DOMAIN m |-> IF field \in DOMAIN declared THEN declared[field] ELSE m[field]]
----------------------------------------------------------------------------
(* The lineage of a local checkpoint.                                      *)

Parent(disk, id) == IF id \in LocalCheckpoints THEN disk[id].parent ELSE Elsewhere

\* Mutant: the parent counts only if it is registered itself, as before
\* checkpoints were resumed.
AncestorOnce(disk, id) == [n \in 0..MaxAncestryDepth |-> IF n = 0 THEN id ELSE Elsewhere]

\* The checkpoints visited on the way up.  On a cycle nobody's parent is
\* registered: to stop there, or only at the bound, gives the same answer.
Ancestor(disk, id) ==
  LET up[n \in 0..MaxAncestryDepth] == IF n = 0 THEN id ELSE Parent(disk, up[n - 1])
  IN up

\* _resolve_base_manifest_via_ancestry(): None if it raises.
BaseModel(disk, id) ==
  LET reached == {n \in 0..MaxAncestryDepth : Parent(disk, Ancestor(disk, id)[n]) \in Registry}
  IN IF reached = {} THEN None ELSE <<Parent(disk, Ancestor(disk, id)[Min(reached)])>>

\* _extract_gripper_native_range_from_postprocessor()
GripperRange(stats) ==
  IF stats # None /\ stats[1].gripper_min < stats[1].gripper_max
  THEN <<stats[1].gripper_min, stats[1].gripper_max>> ELSE None

\* _verify_translation_scale_matches_own_pipeline(): within half of the bound.
MatchesOwnPipeline(stats) ==
  stats # None /\ 2 * (stats[1].max_step - OwnMaxStep) \in -OwnMaxStep..OwnMaxStep

\* _resolve_finetuned_manifest(): shape and polarity come from the base
\* model, numbers only from the checkpoint's own statistics.
FinetunedManifest(disk, id, base) ==
  LET range == GripperRange(disk[id].stats)
      known == range # None
      own == MatchesOwnPipeline(disk[id].stats)
      inherited == RegisteredManifest(base)
  IN [inherited EXCEPT
        !.model_id = id,
        !.processors = disk[id].processors,
        !.gripper_range = range,
        !.min_means = IF known THEN inherited.min_means ELSE Unknown,
        !.max_means = IF known THEN inherited.max_means ELSE Unknown,
        !.scale = IF own THEN <<OwnScale>> ELSE None,
        !.clip = Unbounded]
----------------------------------------------------------------------------
(* get_manifest()                                                          *)

\* _is_explicit_manifest_self_sufficient()
SelfSufficient(m) ==
  m.embodiment # Unknown /\ m.semantics # Unknown /\ m.gripper # Unknown

\* _build_manifest_from_declared_fields()
DeclaredManifest(id, declared) ==
  [Override(UnknownManifest(id), declared) EXCEPT !.model_id = id]

\* The four tiers: registry, own manifest file, lineage, and UNKNOWN.
GetManifest(disk, id) ==
  IF id \in Registry THEN RegisteredManifest(id)
  ELSE IF id \notin LocalCheckpoints THEN UnknownManifest(id)
  ELSE LET declared == disk[id].declared
           explicit == DeclaredManifest(id, declared)
           base == BaseModel(disk, id)
       IN IF DOMAIN declared # {} /\ SelfSufficient(explicit) THEN explicit
          ELSE IF base # None THEN Override(FinetunedManifest(disk, id, base[1]), declared)
          ELSE UnknownManifest(id)
----------------------------------------------------------------------------
(* compatibility_gate.py                                                   *)

GripperKnown(m) ==
  /\ m.gripper_range # None /\ m.gripper_range[1] < m.gripper_range[2]
  /\ Unknown \notin {m.min_means, m.max_means} /\ m.min_means # m.max_means

ScaleKnown(m) == m.scale # None /\ m.clip[1] < m.clip[2]

Passes(m) ==
  /\ m.embodiment = "panda" /\ m.semantics = "ee_delta" /\ m.gripper = "index 6"
  /\ m.observations # Unknown
  /\ m.axis_verified
  /\ m.processors
  /\ GripperKnown(m) /\ ScaleKnown(m)

\* CompatibilityGate.check()
CompatibilityResult(m, smoke_test_mode) ==
  [model_id |-> m.model_id, passed |-> Passes(m), shape_only_allowed |-> smoke_test_mode]
=============================================================================
