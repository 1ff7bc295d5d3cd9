-------------------------- MODULE CheckpointServing --------------------------
(***************************************************************************)
(* The generic VLA server with the smolvla family, from the files of a     *)
(* checkpoint to the command of the robot: loading and the compatibility   *)
(* gate (vla_server/model_loader.py), /predict and /reset                  *)
(* (generic_vla_server.py), the pipeline of ActionPipeline and the client. *)
(*                                                                         *)
(* What a model means is known here and not to the program: an intention,  *)
(* in millimetres, which it puts in the numbers of the data it was trained *)
(* on (disk[ck].data: this project's own recordings or LIBERO's).  A model *)
(* plans n_action_steps actions at a time and hands them out one by one,   *)
(* whatever the observation of the later requests.  Observations are left  *)
(* out, and with them the degraded_input flag of an answer.                *)
(***************************************************************************)
EXTENDS ActionPipeline

CONSTANTS
  Disks,                       \* the directories of the local checkpoints
  Served,                      \* the models a server may be started with
  ActionSteps,                 \* per model: n_action_steps of its configuration
  Sidecars,                    \* per kind of data: what policy_manifest.json may declare
  Moves,                       \* intended moves, in mm
  MaxEpisodes, MaxRequests     \* bounds: episodes of a server, requests of an episode

Models == Registry \cup LocalCheckpoints

IsDisk(d) ==
  /\ d = [ck \in LocalCheckpoints |->
            [parent |-> d[ck].parent, data |-> d[ck].data, processors |-> d[ck].processors,
             stats |-> d[ck].stats, declared |-> d[ck].declared]]
  /\ \A ck \in LocalCheckpoints : d[ck].processors \in BOOLEAN

ASSUME CheckpointServingAssumption ==
  /\ MaxAncestryDepth \in Nat /\ MaxEpisodes \in Nat /\ MaxRequests \in Nat
  /\ LocalCheckpoints \intersect Registry = {}
  /\ \A id \in Models : ActionSteps[id] \in Nat \ {0}
  /\ Served \subseteq Models
  /\ \A d \in Disks : IsDisk(d)

VARIABLES
  disk,
  server,                      \* Down, or the loaded model in a tuple of one
  queue,                       \* actions the model has planned
  episode, asked,              \* the client's episode, its requests in it
  exchange                     \* the last request and what became of it

vars == <<disk, server, queue, episode, asked, exchange>>

Down == <<>>
NoExchange == <<>>

Init ==
  /\ disk \in Disks
  /\ server = Down /\ queue = <<>>
  /\ episode = 1 /\ asked = 0 /\ exchange = NoExchange
----------------------------------------------------------------------------
(* Loading.                                                                *)

HasProcessors(id) == id = SmolVLALibero \/ (id \in LocalCheckpoints /\ disk[id].processors)

\* Start of a server process with VLA_MODEL_ID_OR_PATH and VLA_SMOKE_TEST_MODE,
\* and POST /load_model.  The official processors may fail to load although
\* their files are there.
StartServer(id, smoke_test_mode, processors) ==
  /\ server = Down
  /\ processors => HasProcessors(id)
  /\ server' = <<[id |-> id, processors |-> processors,
                  compatibility |->
                    CompatibilityResult(GetManifest(disk, id), smoke_test_mode)]>>
  /\ queue' = <<>>
  /\ UNCHANGED <<disk, episode, asked, exchange>>

StopServer ==
  /\ server # Down
  /\ server' = Down /\ queue' = <<>> /\ exchange' = NoExchange
  /\ UNCHANGED <<disk, episode, asked>>

\* Somebody writes or removes the manifest file of a checkpoint, at any time.
EditSidecar(ck) ==
  /\ \E declared \in Sidecars[disk[ck].data] : disk' = [disk EXCEPT ![ck].declared = declared]
  /\ UNCHANGED <<server, queue, episode, asked, exchange>>

\* The client begins an episode; POST /reset changes nothing for this family,
\* not even the queue of the model.
Reset ==
  /\ episode < MaxEpisodes
  /\ episode' = episode + 1 /\ asked' = 0 /\ exchange' = NoExchange
  /\ UNCHANGED <<disk, server, queue>>
----------------------------------------------------------------------------
(* POST /predict                                                           *)

Intentions ==
  [move : Moves, gripper : {"open", "close"}, finite : {TRUE}]
    \cup [move : {0}, gripper : {"open"}, finite : {FALSE}]

\* The numbers in which a model trained on such data puts an intention.
Native(data, i) ==
  IF data = "own"
  THEN [move |-> i.move, gripper |-> IF i.gripper = "close" THEN 1100 ELSE 200]
  ELSE [move |-> 20 * i.move, gripper |-> IF i.gripper = "close" THEN 700 ELSE -1100]

DataOf(id) == IF id \in LocalCheckpoints THEN disk[id].data ELSE "libero"

\* The output of _run_smolvla_libero_inference() with the processors, that of
\* _run_smolvla_inference() without; smolvla_base moves six joints.
Output(loaded, i) ==
  LET numbers == Native(DataOf(loaded.id), i)
  IN [native |-> loaded.processors, length |-> IF loaded.id = SmolVLABase THEN 6 ELSE 7,
      finite |-> i.finite, move |-> numbers.move, gripper |-> numbers.gripper]

\* select_action(): plan when the queue is empty, then hand out its head.
SelectAction(planned, intentions) ==
  IF planned = <<>>
  THEN [n \in DOMAIN intentions |-> [intention |-> intentions[n], episode |-> episode]]
  ELSE planned

Predict ==
  /\ server # Down /\ asked < MaxRequests
  /\ asked' = asked + 1
  /\ \E intentions \in [1..ActionSteps[server[1].id] -> Intentions] :
       LET loaded == server[1]
           actions == SelectAction(queue, intentions)
           output == Output(loaded, Head(actions).intention)
       IN /\ queue' = Tail(actions)
          /\ exchange' = <<[answer |-> Normalize(output, loaded.compatibility, disk),
                            action |-> Head(actions)]>>
  /\ UNCHANGED <<disk, server, episode>>
----------------------------------------------------------------------------

Next ==
  \/ \E id \in Served, smoke, processors \in BOOLEAN : StartServer(id, smoke, processors)
  \/ \E ck \in Served \cap LocalCheckpoints : EditSidecar(ck)
  \/ StopServer \/ Reset \/ Predict

Spec == Init /\ [][Next]_vars
----------------------------------------------------------------------------

\* The numbers of a kind of data, and bounds that cut off none of its moves.
RangeOf(data) == IF data = "own" THEN <<0, 1000>> ELSE <<-1000, 1000>>
ScaleOf(data) == IF data = "own" THEN <<1000>> ELSE <<50>>
Clips == {Unbounded, <<-1000, 1000>>}

\* The answer that claims to be a verified action, if there is one.
Certified == exchange # NoExchange /\ exchange[1].answer.semantic_action_valid

\* What a manifest file has to get right: whatever numbers it declares are
\* those of the data, and a model_id only where get_manifest() overrides it.
TrueSidecar(data, declared) ==
  LET is(field, values) == field \in DOMAIN declared => declared[field] \in values
  IN /\ is("gripper_range", {RangeOf(data)})
     /\ is("min_means", {"open"}) /\ is("max_means", {"close"})
     /\ is("scale", {ScaleOf(data)}) /\ is("clip", Clips)
     /\ "model_id" \in DOMAIN declared => SelfSufficient(DeclaredManifest(Unknown, declared))

\* A manifest file that leaves a checkpoint of this robot servable: what it
\* declares passes the gate, and if it stands alone it declares all that the
\* gate asks for.
FittingSidecar(declared) ==
  LET is(field, value) == field \in DOMAIN declared => declared[field] = value
  IN /\ is("embodiment", "panda") /\ is("semantics", "ee_delta") /\ is("gripper", "index 6")
     /\ is("axis_verified", TRUE) /\ is("processors", TRUE)
     /\ "observations" \in DOMAIN declared => declared.observations # Unknown
     /\ SelfSufficient(DeclaredManifest(Unknown, declared)) =>
          {"observations", "axis_verified", "processors", "gripper_range", "min_means",
           "max_means", "scale"} \subseteq DOMAIN declared

\* Statistics and manifest file of a directory agree with its data.
TrueDirectory(dir) ==
  /\ dir.data \in {"own", "libero"}
  /\ GripperRange(dir.stats) \in {None, RangeOf(dir.data)}
  /\ MatchesOwnPipeline(dir.stats) => dir.data = "own"
  /\ TrueSidecar(dir.data, dir.declared)

TrueDisk(d) == IsDisk(d) /\ \A ck \in LocalCheckpoints : TrueDirectory(d[ck])

\* compatibility_gate.py and smolvla_libero_adapter.py on their bugs of scale
\* and polarity: what is served as semantically valid makes the robot do what
\* the model means, in direction, size (up to the safety clip) and gripper,
\* for every lineage, statistics file and true manifest file, also one that
\* changes while the model is served.
CertifiedMeansIntended ==
  Certified =>
    LET action == exchange[1].action.intention
    IN /\ action.finite
       /\ RobotCommand(exchange[1].answer) =
            [move |-> ClipStep(action.move), gripper |-> action.gripper]

\* generic_vla_server.py:29-31 on POST /reset: it "resets whatever per-episode
\* state this family's loaded model keeps".  No action that may be executed was
\* then planned in an episode before it.
ResetForgetsPlans == Certified => exchange[1].action.episode = episode

\* The lineage, however long: a model descends from base if it belongs to
\* every set that has base and all that was resumed from a member.
DescendsFrom(d, id, base) ==
  \A family \in SUBSET Models :
    base \in family /\ (\A ck \in LocalCheckpoints : d[ck].parent \in family => ck \in family)
    => id \in family

\* manifest.py on resumed training: however often a checkpoint of this
\* project's own data was resumed, it is served as a descendant of the LIBERO
\* model as long as its own files are complete.
OwnFineTunesAreServed ==
  (/\ server # Down /\ exchange # NoExchange
   /\ server[1].id \in LocalCheckpoints /\ server[1].processors
   /\ disk[server[1].id].data = "own"
   /\ GripperRange(disk[server[1].id].stats) # None
   /\ MatchesOwnPipeline(disk[server[1].id].stats)
   /\ DescendsFrom(disk, server[1].id, SmolVLALibero))
  => (Certified \/ ~exchange[1].action.intention.finite)
=============================================================================
