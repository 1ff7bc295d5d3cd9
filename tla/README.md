# TLA+ models of the recycling cell

Models of the control software in this repository: a simulated arm picks a recyclable
object from a table and puts it into a bin, driven by a local policy or by a remote VLA
model, watched by a hand detector, and recorded as training data. The modules describe the
parts whose correctness depends on the order of events or on several places that must agree
about one fact. TLC checks them on small instances, and TLAPS proves the main results.

All source paths are relative to `src/`.

## 1. The system

| Component | Code | State it keeps | Operations | What makes it correct |
|---|---|---|---|---|
| Safety supervisor | `safety/safety_supervisor.py` | `safety_state`, four counters, `stable_clear_steps` | `step(hand_detected)`, `summary()` | no action before enough clear checks in a row; a summary that balances |
| Safety gate, hand monitors | `safety/safety_gate.py`, `mock_hand_intrusion_monitor.py`, `external_camera_hand_monitor.py` | configuration, markers found at the start, `last_debug`, the step number | `check(frame)`, `set_step()` | a hand where the monitor is meant to look stops the robot; nothing else does |
| Oracle policy | `policy/dummy_openvla_policy.py` | `phase`, `move_above_bin_steps`, `stabilization_counter` | `reset()`, `predict_action()` | the phase agrees with the grasp; travelling to the bin is limited in steps |
| Panda backend | `robot_sim/pybullet_panda_backend.py` | joints (in PyBullet), `_held_object`, `_task_status` | `reset()`, `apply_command()`, `open_gripper()`, `close_gripper()`, `get_state()` | one grasp, one release; the status says what happened |
| Control loop | `benchmark/run_full_recycling_cell_demo.py` | target, refinement flag, step index | an iteration of `run_dummy_openvla_policy()`; `main()` around it | stops for a hand, goes on where it stopped, ends, accounts for every step |
| Recorder, exporter | `data_collection/trajectory_recorder.py`, `lerobot_dataset_exporter.py` | records in memory until `finish_episode()` | `start_episode()`, `record_step()`, `finish_episode()`, `export` | an exported episode replays |
| Remote policy clients | `policy/real_vla_policy_client.py`, `fastapi_vla_policy_client.py` | own `phase`, a fallback policy, `fallback_used_count` | `predict_action()`, `reset()` | a failed request neither loses nor repeats progress |
| Policy servers | `openvla_server_dummy/`, `openvla_server_real/` | one policy for all requests | `/predict`, `/reset`, `/health` | the server follows the phase of the request |
| Generic VLA server, loader | `vla_server/` | `_state` under `_lock`, the model's action queue | `/load_model`, `/predict`, `/health`, `/reset` | one load at a time, answers about one model, no plans kept across a reset |
| Manifests, compatibility gate | `policy_semantics/manifest.py`, `compatibility_gate.py` | the files of a checkpoint | `get_manifest()`, `check()` | what passes is understood: scale, polarity, normalisation |
| Action pipeline | `vla_adapters/smolvla_adapter.py`, `policy_semantics/`, `policy/vla_action_postprocessor.py`, `action_adapter/` | none | decode, clip, to and from the wire | the robot does what the model means |
| SO-101 backend | `robot_sim/so101_pybullet_backend.py` | client, object, bin and constraint ids, the grasp flag, the scene | `reset()`, `set_gripper()`, motion commands, `validate_initial_scene_layout()`, `close()` | ids of the current client only; only sound scenes are accepted |
| Perception, Real2Sim | `perception/`, `real2sim/`, `robot_sim/pybullet_wrist_camera.py` | calibration | detect, map, refine | numerical accuracy |
| Others | `llm_agent/`, `vision/`, `robot_core/`, `isaacsim/`, `tools/`, the SO-101 expert, about a hundred scripts of `benchmark/` | | | |

How they interact. `main()` maps a detection to a target once, resets backend and policy,
and calls `run_dummy_openvla_policy()`. An iteration reads the backend's state, asks the
hand monitor, perhaps refines the target with the wrist camera, and passes `hand_detected`
to the supervisor. If that returns an event, it is recorded and the iteration ends.
Otherwise the policy proposes an action, the hard gate may block the episode, and
`apply_command()` moves the arm, then the gripper. Policy and backend share no state: the
policy learns what its last action did from the `robot_state` of the next iteration. A
remote policy is a client in this loop and another policy behind HTTP, with a third as
fallback. The generic server decides at load time whether it understands the actions of a
checkpoint, and reads the checkpoint's manifest again for every action it decodes.

What is hard. The hand moves on its own clock and is looked at once per iteration. Pausing
interleaves with a policy that changes phase within a call, with a refinement that is tried
once, and with a step budget. Up to four objects keep a phase of one episode. Distances are
compared with six thresholds at different points of arm and object. The server checks,
unlocks, loads for minutes and locks again. The numbers an action is decoded with come from
a registry, a file, the base model or the checkpoint's statistics. A backend object outlives
its physics clients, and `reset()` can raise half-way.

## 2. Modules

| Module | Models | Composes |
|---|---|---|
| `SafetySupervisor` | the supervisor as pure operators | |
| `PauseResume` | abstract: a hand makes the robot owe clear checks | |
| `PausedRobot` | abstract: a check that owes nothing permits one action of the robot | `PauseResume` |
| `SupervisorChecks` | every sequence of checks through `step()` | `SafetySupervisor`; implements `PauseResume` |
| `HandMonitor` | both monitors: polygon, verdict, debug record | |
| `HandSafety` | monitor, frames, gate and supervisor | `HandMonitor`, `SupervisorChecks` |
| `DummyPolicy` | `predict_action()` as the operator `Predict` | |
| `PandaGripper` | fingers, grasp and status of the backend | |
| `ObjectJourney` | abstract: the object is picked up at most once and leaves the gripper once | |
| `PickPlace`, `MCPickPlace` | policy and backend in the geometry of the code | `DummyPolicy`, `PandaGripper`; implements `ObjectJourney` |
| `ControlLoop` | loop, hand, refinement, hard gate, faults | `SafetySupervisor`, `DummyPolicy`, `PandaGripper`; implements `PausedRobot` |
| `RemotePolicy` | clients and policy servers as operators | `DummyPolicy` |
| `EpisodeData` | recorder and exporter as operators | |
| `RemoteEpisode`, `MCRemoteEpisode` | episodes over a network, recorded and exported | `RemotePolicy`, `PandaGripper`, `EpisodeData`; refers to `ObjectJourney` |
| `ModelLoader` | threads of the model server over `_state` and `_lock` | |
| `PolicyManifest` | `get_manifest()` and the gate as operators | |
| `ActionPipeline` | model output to robot command as operators | `PolicyManifest` |
| `CheckpointServing`, `MCCheckpointServing` | a served checkpoint whose files somebody edits | `ActionPipeline` |
| `So101Scene` | table, object, bin, layout failures as operators | |
| `So101Backend`, `MCSo101` | the life of a backend over several clients | `So101Scene` |
| `OperatorLemmas` | facts about the pure operators of supervisor, policy and gripper | `SupervisorChecks`, `DummyPolicy`, `PandaGripper` |
| `HandSafetyProofs`, `ControlLoopProofs`, `PickPlaceProofs`, `RemoteEpisodeProofs`, `ModelLoaderProofs`, `CheckpointServingProofs`, `So101Proofs` | theorems | |

Names follow the code. A definition whose comment says "Mutant" is deliberately wrong: the
definition of the code with a plausible bug. No specification uses one; `PROJECT.json` says
which property notices which of them.

**Supervisor and monitors.** The two branches of `step()` are `AfterHand` and `AfterClear`.
`SupervisorChecks` adds what an observer can count (checks, actions let through, clear
checks in a row). A frame is the set of hand landmarks in it, a polygon the set of image
points inside; MediaPipe's detection and OpenCV's point-in-polygon test are that and no
more. `HandSafety` has every configuration of a monitor: markers found or not, ROI or not,
a live camera or the frame from before the episode, a detector that can be made or not. The
detector is made at the first check, so that a missing library ends the episode and not, as
the docstring of `create_hand_safety_monitor()` says, the setup.

**Policy.** `_predict_phase_action()` is an if-chain that falls through: a phase that is
over hands the same call to the next. Each phase is an operator that ends in the one after
it. The conditions come in as a record `o`; each composing module computes it its own way.

**Geometry (`PickPlace`).** A vertical plane of integer points, 5 mm to a unit, which makes
every length of the code a whole number. Physics is the nondeterministic part: each axis of
a commanded translation is achieved by one of several quarters of it, plus a residual error
that every command leaves, also the one to stay. What the physics of an episode can do, its
reset pose and the error of perception and refinement are a member of `Trials`.

**Loop (`ControlLoop`).** Two steps per iteration, because the hand can come or go between
check and action. Geometry is reduced to the leg of the route the arm is on; an applied
action completes the leg or stalls. `near_target` is the distance of the *last* prediction,
which is what the refinement reads. `hazard` is constant: the hard gate is always shown the
frame from before the episode. The arm that completes a leg is where it was sent, so that a
grasp or a release never misses here; `PickPlace` has those that do. The supervisor promises
something of its checks (`PauseResume`); `PausedRobot` says it of the actions that reach
`apply_command()`, which is what the loop has to implement.

**Remote episodes (`RemoteEpisode`).** Legs as in `ControlLoop`, without the hand. Client,
server, second server and in-process fallback each keep a policy. Requests are lost, arrive
late (`HandleLate`, at any later time), or are answered in vain; a reset is lost; the
session of the server ends for good; a second server that is the fallback may fail in the
same call (`fallback_fails`), and then the exception leaves the loop. An exception skips
`finish_episode()` and leaves a directory without `episode.json`. A server handles one
request at a time. Finger widths are in millimetres, with the noise of fingers that hold
something.

**Server (`ModelLoader`).** One step per critical section. The exception is
`load_model_once()`, which calls `get_state()` inside its `with _lock:` block: the thread
keeps the lock and waits for it (`NestedGetState`), and no action takes it on.

**Checkpoints (`PolicyManifest`, `ActionPipeline`, `CheckpointServing`).** A directory has a
parent, a kind of data, processors, statistics and the fields its `policy_manifest.json`
declares. Manifest fields the gate compares alike are one field; action values are
thousandths, lengths millimetres. `Native` is the model's side, which the program never
sees: how a network trained on such data expresses an intention. One translation component
stands for all six, which are scaled, clipped and rejected alike. The action queue of
LeRobot's `select_action()` is in the model: a model plans `n_action_steps` actions, any
number of them, and `POST /reset` does not empty the queue. Observations are left out.

**SO-101 (`So101Backend`).** `reset()` is four steps, between which it raises. Ids carry the
number of the client they belong to, so that a stale one is visible. `engine` is what exists
in PyBullet. Settling moves an object by `Wobbles`, drops it by `SettleFall` at most, and
leaves it on the table, or on the ground beside it. Lengths are those of the code; the
object's half extent stands for its size and yaw.

## 3. Runs

| Run | Instance | States | Shows |
|---|---|---|---|
| `HandSafety` | 3 stable steps, 12 checks, mock steps 0, 1, 2, 4, 7, three image points | 59 696 | which frames and schedules stop the robot and for how long; counters; `PauseResume` |
| `ControlLoop` | 2 stable steps, 12 steps, refinement, hazard or not, both faults, 2 stalls, 2 stabilisation steps | 40 063 | pausing, refining, blocking; `PausedRobot`; the program ends; the budget suffices without a pause |
| `PickPlace` | four arms (`MCTrials`): one that may stand still, with the target exact or 1 to 8 cm off; one that achieves half of each command or more; the same with errors of 5 mm per command on both axes; one that stands still or is 5 mm off sideways | 374 234 | phases, time box, journey, carrying height; thresholds fit together; the second and third deliver |
| `ModelLoader` | 3 threads, 2 load callers, 2 loads | 58 889 | atomicity across critical sections; every request is answered unless the lock is lost |
| `RemoteEpisode` | 2 episodes of 7 steps, 2 faults, 2 stalls, six setups | 1 249 998 | finished episodes succeed, one journey each, exports replay with failed episodes and without |
| `CheckpointServing` | 36 kinds of checkpoint, 6 lineages, one or two planned actions, edits at any time, 2 episodes of 2 requests | 769 632 | certified actions are what the model means; own fine-tunes are served |
| `So101` | 2 clients, all configurations of `MCSo101`, settling by up to 2 mm | 363 635 | flags and ids, which resets fail, accepted scenes |

Runs that end in a violation, one finding each (`PROJECT.json` quotes the lines):

- `PauseFails`: paused iterations use the step budget. In an instance where every unpaused
  episode succeeds (`DeliversUnpaused`), one whose pause was resumed does not.
- `LoadRace`: two `/load_model` requests past the handler's own look lock up the server.
- `SessionEnds`: the server's session ends over the bin. The in-process fallback has a
  phase of its own, opens the gripper, and the episode ends without success.
- `DeclaredModelId`: a sidecar that declares the `model_id` of the base model passes the gate
  on the checkpoint's own numbers, and the adapter decodes with those of the base.
- `StaleQueue`: `POST /reset` is said to reset whatever per-episode state the model keeps, and
  resets nothing for SmolVLA. A certified checkpoint that plans two actions answers the first
  request of an episode with an action planned in the one before.

`RemoteEpisode` checks the property that `SessionEnds` violates, in all setups but that one:
without a fallback, with a second server (which takes the phase over from the request), and
with the in-process fallback where the server never acted before. The first three setups meet
every fault of the network, the reset that is lost included.

**Bounds.** `MaxChecks` leaves room for three full pauses, interrupted resumes included.
`MaxPolicySteps` of `ControlLoop` covers a delivery with refinement and two stalls, and is
small enough that one with pauses runs out; that of `RemoteEpisode` covers one stall
(`StallsAllowedFor`), and with two the budget runs out. Two episodes are what it takes for a
request or a reset of one to disturb the next, two faults for a fault while the first is
still felt. With a time box much shorter than `MaxMoveAboveBinSteps` here, late requests of
one episode could use up the server's count for the next; 8 leaves room, as the code's 40
does. `MaxAncestryDepth` (2, in the code 8) is reached and exceeded by the lineages, one of
them a circle. Three kinds of image point tell the polygons apart. Two clients are what a
stale id takes. `MaxLoads` has a failed load, its retry and two callers racing for either.
`MaxMoveAboveBinSteps` is 5 to 15: the leg of these worlds is shorter in
proportion, so that normal release and time box are both reached. In `PickPlace` the
residual errors push the arm out of alignment at drop height and the stage target flips back
to the carry height, as the comment at `dummy_openvla_policy.py:46-53` describes.
`MCActionSteps` is 1 for the LIBERO model
and 2 for the others: a second planned action is what it takes to outlive a request or a
reset. `CloseGraspsAtOnce` asks for
a target perceived within a centimetre, `ReleaseLandsInBin` for an exact one: that is as far
as the thresholds of the code reach.

Behaviours may end (`CHECK_DEADLOCK FALSE`) where the program or a bound does: an episode
that is over, checks, requests or clients that are used up, a server that is locked up.

**Fairness.** `ControlLoop!FairSpec` is weak fairness of `Progress`, the program's own steps
without the faults: it is one thread that nothing else blocks. Neither the hand nor a
timeout or policy error gets any, so that `Terminates` does not rest on them.
`PickPlace!FairSpec` is weak fairness of the loop's step; that physics makes headway is a
property of the instance. `ModelLoader!FairSpec` is weak fairness of each thread: loads and
inferences end, and a thread waiting for the free lock gets it. `threading.Lock` does not
promise the latter under permanent contention; weak fairness is enough because a critical
section that is never blocked inside is one step here. Requests get no fairness.

## 4. Proofs

For every value of the constants allowed by the named assumptions.

- **Supervisor, monitors** (`OperatorLemmas`, `HandSafetyProofs`). `SupervisorInvariant`,
  `ActsOnlyAfterStableClear` and `SupervisorImplementsPauseResume` rest on `Inductive`, which
  adds one fact to types and counters: once there has been a pause, *running* implies that
  the run of clear checks is long enough. Without it nothing links "running" to the past.
  `HandSafetyDrivesSupervisor` maps every behaviour with a monitor to one of the supervisor
  alone, which carries these results over (`HandSafetyKeepsPromise`, `HandCountersBalance`,
  `HandActsAfterStableClear`). `HandActsOnlyOnClearFrame` and `PausesOnlyForHand` hold for
  every image, polygon and set of landmarks; the latter by `WatchInv`, which ties the state
  of the supervisor to the last debug record. `ScheduledIntrusionCost` gives, for every
  schedule, the paused steps as a function of the step number (`ScheduleInv`, one case per
  stretch: before, during, while resuming, after).
- **Policy and gripper** (`OperatorLemmas`). `Agree` says what each phase implies about
  fingers, grasp and status; only "close_gripper" leaves it open. `PredictSound` (one lemma
  per phase, from the last of the chain to the first) and `ApplySound` show that a call of
  the policy and the gripper half of `apply_command()` keep it, geometry left open.
- **Pick and place** (`PickPlaceProofs`). `PhaseAndGraspAgree`, `TimeBoxHolds`,
  `ImplementsObjectJourney` and `PickPlaceTypes` for every geometry and physics. `Agree` is
  the inductive invariant: that an open command is never skipped as redundant needs "a held
  object keeps the fingers shut", and that nothing is picked up twice needs "only an
  untouched or waiting gripper is told to close on nothing".
  `CarriedAtHeight` too is for every physics. `StrayInv` says that in `move_above_bin` the
  arm is within tolerance of the bin or of the carry height, up to the residual errors of
  the steps counted since the phase was entered; a stage target that flips changes
  nothing, because whichever it is, one of the two distances does not grow by more than one
  error. Outside that phase the property, and the two theorems below, speak of arms without
  residual errors: such an arm stays between where it was and where it is sent, and `PathInv`
  says for each stage which part of the route lies behind it. With residuals it could drift
  off during a long stage that nothing counts.
  `FirstCloseGrasps` adds `ObjectInv` (an object nobody holds lies where
  it started until it is released) and the inequality `GraspInReach`: arrival within
  tolerance of a point `GraspOffset` above a target perceived within a centimetre is still
  closer than the grasp threshold. `ReleasesLand` adds `HeldInv` (the object hangs from the
  hand by what the grasp left between them), `RoomForErrors` (that distance and the one at
  the release, with the clearance in between, stay within the place threshold) and
  `StartsAbove`. `LengthsOfTheCodeFit` proves both inequalities for the lengths of the code,
  and TLC checks their consequences in the run, which has those lengths.
- **Control loop** (`ControlLoopProofs`). `StopsAfterOneAction`,
  `PauseKeepsPolicyAndTarget` and `LoopImplementsPausedRobot` by `HandInv`: between Observe
  and Act no action has been applied under the present hand. `PhaseFollowsGrasp`,
  `HazardBlocks` and `RefinesOnceBeforeGrasp` by `EpisodeInv`: `Agree`, and that a hazard
  leaves the gripper as reset() left it. `BudgetIsAccounted` by `BudgetInv`, and `LoopTypes`
  by `TypeInv`, which adds that an action is due only while the budget lasts.
  What the budget buys is a counting argument. A delivery takes `ActsNeeded` actions: the
  legs of the route, stabilization, two for a refinement and one per stall. `RouteInv` says,
  for each phase, how many of them the applied steps have paid for, so that those left fit
  into the rest of the budget. `PausesCostOnlySteps`: if the iterations that pauses leave are
  at least `ActsNeeded`, the episode succeeds, however often and whenever it was paused. The
  finding `PauseFails` is therefore a matter of the budget alone, no pause does other damage.
  `DeliversWithoutPause` is the case of no pause. Both assume `TimeBoxCovers`, a time box of
  `move_above_bin` that leaves room for the stalls; the run's 5 and 12 steps meet both
  assumptions with nothing to spare.
- **Remote episodes** (`RemoteEpisodeProofs`), for any number of setups, episodes, faults and
  late requests. Whoever answered last, `PhaseInv` says that the phase the client has taken
  over fits what the gripper holds and where the arm is (`PhaseAgrees`, `AtPhase`), and that an
  answer in hand is sound for the gripper as it is (`SoundAnswer`, `Heads`). A policy
  elsewhere may be behind, because requests and resets were lost: it is only asked through
  the client's phase, which it takes over. That is what `FallbacksInSync` demands of the
  setups, and what the one of `SessionEnds` lacks; TLC evaluates it on the setups of the run
  (`MCSetupsInSync`). Then `EpisodesAreJourneys` (an object that leaves the gripper short of
  the bin does so by a release that the time box forces), `FinishedEpisodesRelease` (by
  counting, as in the control loop: with no more stalls than `StallsAllowedFor` an episode
  that returns has released the object) and `ExportsReplay`: the samples the exporter makes
  of the records replay as at most one pick and then one release, for episodes that the filter
  only lets through with `include_failed`, and as both for successful ones (`ScriptInv`, the
  records so far as a script of the gripper). `UnforcedEpisodesAreJourneys` and
  `UnforcedEpisodesSucceed` state the properties of the run as long as no release was
  forced. That assumption is needed: the policy of a server counts the steps in
  `move_above_bin`, a lost reset or late requests leave the count of another episode in it,
  and a count that is used up forces a release at once. With the bounds of the run the count
  never gets that far, so TLC checks the properties without the assumption.
- **Server** (`ModelLoaderProofs`). `ServerInvariant`, `AnswersAreConsistent`,
  `LoadedModelStays` for any set of threads: a model is present exactly when the status says
  so, a thread in inference holds the current model, and a health request that saw "loaded"
  still sees it. `ServerTypes` is the type invariant from the same induction.
- **Checkpoints** (`CheckpointServingProofs`). `CertifiedActionsAreIntended`, for every
  lineage, any number of checkpoints, episodes and requests, and edits at any time. It
  assumes `FilesAreTrue`: intended moves of at most 50 mm, and directories whose statistics
  and declared numbers are those of the data (`TrueDisk`, `TrueSidecar`). The latter also
  says that a file may declare a `model_id` only where `get_manifest()` overrides it, which
  is the bug of `DeclaredModelId` stated as a condition. The argument: every tier of
  `get_manifest()` yields a true manifest (`ManifestIsTrue`), a true manifest decodes to the
  intention (`CommandIsIntended`), and the gate's verdict at load and the adapter's manifest
  at decoding may come from different files as long as both are true. TLC checks that the
  run's files satisfy the assumption (`MCFilesAreTrue`).
  `OwnFineTunesGetThrough` is about the other side, that the gate is not too strict: a
  checkpoint of the project's own data whose files are complete gets every finite action
  answered as verified. It assumes `FilesAreTrue`, `FilesFit` (a manifest file declares
  nothing the gate refuses, and all that the gate asks for if it stands alone; see section 5
  for one that does not) and `LineagesFit` (no lineage has more checkpoints than the walk may
  visit, nine in the code); `MCFilesFit` checks them on the run. Other lineages may be
  circles or dead ends. The lineage is a recursive function, and what it computes needs
  induction. The library's induction rules take an operator as parameter, which the provers
  cannot instantiate; `LeastNat` (a set of naturals has a least element, from the
  well-foundedness of `<`) serves instead, with sets in place of predicates: it gives
  `Induct`, the existence of functions defined by recursion (`PrimitiveRecursion`), and by it
  the equations of the walk (`AncestorIs`). Who descends from the LIBERO model has a chain of
  checkpoints to it (`DescendantsHaveChains`), a shortest one repeats none (`CutChain`), so
  it is no longer than the bound (`ShortChain`, by counting an injection), and the walk
  follows it to its end (`ChainIsFollowed`).
- **SO-101** (`So101Proofs`). `GraspFlagIsReal` for every configuration and any number of
  resets, rejections and closes: a `reset()` breaks only without the URDF, or after a
  `close()` with the object held (section 5). `AcceptsExactlySoundScenes` if settling moves
  objects by at most 2 mm and none is caught still falling within the centimetre of
  tolerance (`SettlesInTime`): one such object would be accepted up to 10 mm above the
  table.

Only model-checked: liveness (`Terminates`, `Delivers`, `AllAnswered`), which is outside the
prover, and the two properties of `RemoteEpisode` in the case of a forced release. Every
invariant and every action property of the passing runs is stated by a theorem, under the
assumptions named above.

## 5. Where code and text differ

Besides the findings, reading the code for the models showed these. None has a run of its
own.

- The near-bin hatch (`dummy_openvla_policy.py:261`) is narrower than the comments at 51-53
  and 247-251 say. It asks for `in_descent_stage`, which is `position_tolerance` in xy, so that
  `bin_open_distance_threshold` never matters and a "slightly-too-wide xy" is not let through.
  It decides only where both axes are within tolerance and their distance together is not.
- `phase_transition_reason` (`dummy_openvla_policy.py:279`) never reaches a caller: the gripper
  opens in the same call, and `open_gripper` overwrites `last_info` (293). `reason` in
  `DummyPolicy` is an observation of the model.
- A re-issued "close" never grasps: the backend drops a close of closed fingers
  (`pybullet_panda_backend.py:303`), while the policy re-issues it for that purpose
  (`dummy_openvla_policy.py:192`).
- A `RuntimeError` of a forward pass is answered as `model_not_loaded`
  (`generic_vla_server.py:210`; `model_loader.py:1105`).
- The `degraded_input` flag of an answer is that of its request, while the action may come
  from a plan made on an earlier observation (`model_loader.py:1015-1101`), although degraded
  inputs are said to be "always disclosed" (1021). Observations are not modelled.
- `close()` with the object held leaves the constraint id behind. The next `reset()` calls
  `removeConstraint()` with `None` for the client (`so101_pybullet_backend.py:476`), which
  raises a `TypeError` the `except` does not name, and so does every one after it. No document
  promises that a closed backend can be reset; `GraspIsReal` and `GraspFlagIsReal` say that
  this is the only leftover that does such a thing.
- `get_manifest()` is said never to raise; malformed declared fields make it.
- A manifest file that stands alone but leaves numbers out replaces the lineage's manifest
  as a whole, so that a good fine-tune is refused. The check is on the safe side.
- The constructor's comment (`so101_pybullet_backend.py:394-395`) says that
  `bin_center_override_xy` is ignored without `use_bin`; `reset()` (578) uses it regardless, and
  the target offset with it. `Placed` does what the code does.
- The bin is made after the last simulation step, so that the check for object-bin contacts
  (`so101_pybullet_backend.py:790`) never finds one. `get_scene_state()` (1063) reports the
  default table also when another one is built.
- Exporter: a gripper slower than 5 mm per record is labelled "hold", and a pause becomes
  samples without motion.

## 6. Not modelled

Perception, Real2Sim and the wrist camera are numerical; their result enters as the error of
the target. Camera devices, rendering, rotation and logging touch no property here. The
instruction parser is a stateless table, the scripted policy four blocking calls, the SO-101
expert a list of waypoints over the backend. The workspace and runaway aborts of
`--real-vla-observation-mode pybullet` end an episode early and are left out of
`ControlLoop`, and so is a camera that opened and fails later: a `get_frame()` that raises
in the middle of an episode ends the program as any exception of the loop does. The missing
joints or missing link that `reset()` of the SO-101 backend refuses end like a missing URDF
and are not told apart from it. Two handlers of a dummy server inside `predict()` at once (a
data race on one policy object) are a listed hazard: `HandleLate` has stray requests before
and after, not during. The load state of the Colab server is that of an earlier
`model_loader.py`. The OpenVLA and mock adapters only validate. The remaining scripts of
`benchmark/` are drivers, statistics and plots.

## 7. What could follow

1. Requests of a dummy server that interleave within `predict()`, and the mock-action family
   of the generic server, which shares one policy in the same way.
2. The Colab server's status and reason, which are read in two steps.
3. The aborts of the observation mode in `ControlLoop`.
4. A bound on the steps a server can have counted for earlier episodes, which would replace
   the assumption on forced releases by one on the time box and the number of faults.
