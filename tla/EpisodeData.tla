----------------------------- MODULE EpisodeData -----------------------------
(***************************************************************************)
(* data_collection/trajectory_recorder.py and                              *)
(* data_collection/lerobot_dataset_exporter.py as operators: what an       *)
(* episode leaves on disk, and what a dataset made of it contains.  Of a   *)
(* robot state the exporter needs the position, which here is only where   *)
(* the arm is, and the width of the gripper, in millimetres.               *)
(***************************************************************************)
EXTENDS Integers, Sequences, FiniteSets

GripperActionThreshold == 5    \* GRIPPER_ACTION_THRESHOLD

\* start_episode(): the directory exists from here on, episode.json does not.
NewRecorder == [started |-> TRUE, steps |-> <<>>]
IdleRecorder == [started |-> FALSE, steps |-> <<>>]

\* record_step(): raises before start_episode(); numbers the steps from 0.
CanRecord(r) == r.started
RecordStep(r, phase, place, width) ==
  [r EXCEPT !.steps =
     Append(@, [step_index |-> Len(@), phase |-> phase, place |-> place, width |-> width])]

\* What finish_episode() writes into episode.json.
EpisodeRecord(r, status) ==
  [steps |-> r.steps, success |-> status = "success", status |-> status]
----------------------------------------------------------------------------
(* Mutants of the definitions below (see "mutants" in PROJECT.json).       *)

\* The noise of fingers that hold something counts as an action.
GripperActionNoisy(width, next) ==
  IF next < width THEN "close" ELSE IF next > width THEN "open" ELSE "hold"

\* A record is paired with the one before it.
SamplesBackwards(e) ==
  [i \in 1..(Len(e.steps) - 1) |->
     [observation |-> e.steps[i + 1], moved |-> e.steps[i].place # e.steps[i + 1].place,
      gripper_action |-> GripperActionNoisy(e.steps[i + 1].width, e.steps[i].width)]]
----------------------------------------------------------------------------

\* _gripper_action()
GripperAction(width, next) ==
  IF next - width < -GripperActionThreshold THEN "close"
  ELSE IF next - width > GripperActionThreshold THEN "open"
  ELSE "hold"

\* One sample for each pair of neighbouring records: the observation of the
\* first, with the change to the second as its action.
Samples(e) ==
  [i \in 1..(Len(e.steps) - 1) |->
     [observation |-> e.steps[i], moved |-> e.steps[i].place # e.steps[i + 1].place,
      gripper_action |-> GripperAction(e.steps[i].width, e.steps[i + 1].width)]]

\* The loop over the episode directories that have an episode.json.
Qualifies(e, include_failed) == include_failed \/ (e.success /\ e.status = "success")

\* The episodes a dataset is made of, by their index: the loop ends as soon as
\* max_episodes of them have been exported.
Exported(episodes, include_failed, max_episodes) ==
  {i \in DOMAIN episodes :
     /\ Qualifies(episodes[i], include_failed)
     /\ Cardinality({j \in 1..(i - 1) : Qualifies(episodes[j], include_failed)})
          < max_episodes}

\* What a replay does with the gripper: sample `close` closes it, sample `open`
\* opens it, and no other sample moves it.
GripperScript(samples, close, open) ==
  \A j \in DOMAIN samples :
    samples[j].gripper_action =
      CASE j = close -> "close" [] j = open -> "open" [] OTHER -> "hold"
=============================================================================
