------------------------- MODULE MCCheckpointServing -------------------------
(***************************************************************************)
(* Checkpoints, files and models of CheckpointServing for TLC.  "mine" is  *)
(* the checkpoint to be served, "first" and "second" are its ancestors.    *)
(***************************************************************************)
EXTENDS CheckpointServing

MCLocalCheckpoints == {"first", "second", "mine"}
MCServed == Registry \cup {"mine"}

\* smolvla_libero infers at every request; the others plan two actions ahead.
MCActionSteps == [id \in Registry \cup MCLocalCheckpoints |-> IF id = SmolVLALibero THEN 1 ELSE 2]

MCMoves == {-45, 20}

Stats(min, max, step) == <<[gripper_min |-> min, gripper_max |-> max, max_step |-> step]>>

\* Complete, never closing the gripper, cautious, and without min and max.
OwnStats == {Stats(0, 1000, 30), Stats(0, 0, 30), Stats(0, 1000, 12), None}
LiberoStats == {Stats(-1000, 1000, 938), None}

Numbers(data) ==
  IF data = "own"
  THEN [gripper_range |-> <<0, 1000>>, min_means |-> "open", max_means |-> "close",
        scale |-> <<1000>>]
  ELSE [gripper_range |-> <<-1000, 1000>>, min_means |-> "open", max_means |-> "close",
        scale |-> <<50>>, clip |-> <<-1000, 1000>>]

\* Stands alone: every field the gate asks for, with the numbers of the data.
Complete(data) ==
  Override([RegisteredManifest(SmolVLALibero) EXCEPT !.model_id = "other", !.clip = Unbounded],
           Numbers(data))

\* No file, one with the numbers only, and one that stands alone.
MCSidecars == [data \in {"own", "libero"} |-> {<<>>, Numbers(data), Complete(data)}]

\* One that tells what the checkpoint was made from.
MCNamingSidecars == [data \in {"own", "libero"} |-> {<<>>, [model_id |-> SmolVLALibero]}]

Directory(parent, data, processors, stats) ==
  [parent |-> parent, data |-> data, processors |-> processors, stats |-> stats,
   declared |-> <<>>]

Mine ==
  UNION {{Directory(parent, "own", processors, stats) : stats \in OwnStats}
           \cup {Directory(parent, "libero", processors, stats) : stats \in LiberoStats} :
         parent \in {"second", SmolVLALibero, Elsewhere}, processors \in BOOLEAN}

\* Of the ancestors only the lineage counts; it may also end in nothing, in
\* the other registered model or in a circle.
MCDisks ==
  {[ck \in MCLocalCheckpoints |->
      IF ck = "mine" THEN mine
      ELSE Directory(IF ck = "first" THEN first ELSE second, "own", FALSE, None)] :
     mine \in Mine, first \in {SmolVLALibero, SmolVLABase, NoConfig}, second \in {"first", "mine"}}

\* FilesAreTrue of CheckpointServingProofs.tla.
ASSUME MCFilesAreTrue ==
  /\ MCMoves \subseteq -50..50
  /\ \A d \in MCDisks : TrueDisk(d)
  /\ \A data \in {"own", "libero"} : \A declared \in MCSidecars[data] : TrueSidecar(data, declared)

\* FilesFit and LineagesFit of CheckpointServingProofs.tla.
ASSUME MCFilesFit ==
  /\ \A d \in MCDisks : \A ck \in MCLocalCheckpoints :
       d[ck].data = "own" => FittingSidecar(d[ck].declared)
  /\ \A declared \in MCSidecars["own"] : FittingSidecar(declared)
  /\ Cardinality(MCLocalCheckpoints) <= MaxAncestryDepth + 1
=============================================================================
