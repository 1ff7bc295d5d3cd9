---------------------------- MODULE RemoteEpisode ----------------------------
(***************************************************************************)
(* Episodes of run_full_recycling_cell_demo.py with a remote policy        *)
(* backend and --record: the control loop asks RemotePolicy for an action, *)
(* applies it to the backend (PandaGripper), and records the step          *)
(* (EpisodeData).  Every episode is a run of the program; the servers live *)
(* on from one to the next.  Requests and answers get lost or late, or     *)
(* arrive in a form that is not used, and the server may go away for good. *)
(*                                                                         *)
(* A server handles one request at a time here, but a request whose client *)
(* has given up on it may be handled at any later time.                    *)
(***************************************************************************)
EXTENDS RemotePolicy, PandaGripper, EpisodeData

CONSTANTS
  Setups,                      \* how the program and its servers are started
  MaxPolicySteps,              \* --max-policy-steps
  MaxEpisodes,                 \* bound: runs of the program
  MaxFaults,                   \* bound: faults in one behaviour
  MaxStalls,                   \* bound: applied actions that make no headway
  StallsAllowedFor             \* stalls MaxPolicySteps leaves room for

Faults == {"request_lost", "request_late", "answer_lost", "malformed", "reset_lost",
           "session_ends", "fallback_fails"}

AllSetups ==
  [backend : Backends, mode : ServerModes, fallback : Fallbacks, up : BOOLEAN,
   faults : SUBSET Faults]

ASSUME RemoteEpisodeAssumption ==
  /\ Setups \subseteq AllSetups
  /\ MaxPolicySteps \in Nat \ {0} /\ MaxEpisodes \in Nat
  /\ MaxFaults \in Nat /\ MaxStalls \in Nat /\ StallsAllowedFor \in Nat

Locations == {"away", "grasp", "lift", "above_bin", "drop"}
Places == {"table", "gripper", "bin", "dropped"}

VARIABLES
  setup,
  up,                          \* the server can be reached
  server, spare,               \* policies hosted at the server's and the fallback's URL
  late,                        \* requests their client has given up on
  client, local,               \* the client and an in-process fallback policy
  pc,                          \* start, predict, apply, returned or raised
  answer,                      \* PolicyOutput to be applied
  step_index, episodes,
  location, object, gripper, stalls,
  recorder, disk, orphans,     \* episode.json files, directories without one
  faults                       \* faults so far

remote == <<up, server, spare, late>>
program == <<client, local, answer, step_index>>
robot == <<location, object, gripper, stalls>>
data == <<recorder, disk, orphans>>
vars == <<setup, remote, program, pc, episodes, robot, data, faults>>

NoAnswer == Answer(ResetPolicy, "stay", "open", "none")

Init ==
  /\ setup \in Setups
  /\ up = setup.up
  /\ server = ResetPolicy /\ spare = ResetPolicy /\ late = {}
  /\ client = NewClient /\ local = ResetPolicy /\ answer = NoAnswer
  /\ pc = "start" /\ step_index = 0 /\ episodes = 0
  /\ location = "away" /\ object = "table" /\ gripper = ResetGripper /\ stalls = 0
  /\ recorder = IdleRecorder /\ disk = <<>> /\ orphans = 0
  /\ faults = 0

\* A fault of the setup that is still within the bound.
Fault(kind) == kind \in setup.faults /\ faults < MaxFaults /\ faults' = faults + 1
----------------------------------------------------------------------------
(* The world around the program.                                           *)

\* The server goes away, as a Colab session does.
SessionEnds ==
  /\ up /\ pc \in {"predict", "apply"} /\ Fault("session_ends")
  /\ up' = FALSE /\ late' = {}
  /\ UNCHANGED <<setup, server, spare, program, pc, episodes, robot, data>>

\* A request that nobody waits for any more reaches the server's policy.
HandleLate ==
  /\ up /\ Acts(setup.mode)
  /\ \E request \in late :
       /\ server' = Serve(server, request).policy
       /\ late' = late \ {request}
  /\ UNCHANGED <<setup, up, spare, program, pc, episodes, robot, data, faults>>
----------------------------------------------------------------------------
(* The start of an episode.                                                *)

\* Fingers that hold something are never quite still.
Width(fingers_open, held) ==
  IF fingers_open THEN 80 ELSE IF held THEN 40 + (step_index % 2) ELSE 0

\* main() up to the loop: health check, reset() of the backend, the first
\* record, reset() of the policy.  A POST /reset that fails is only reported.
StartEpisode ==
  /\ pc = "start" /\ episodes < MaxEpisodes
  /\ up \/ (setup.backend = "real-vla" /\ setup.fallback # "none")
  /\ episodes' = episodes + 1
  /\ client' = NewClient /\ local' = ResetPolicy /\ answer' = NoAnswer
  /\ \/ /\ server' = IF up THEN ServerReset(setup.mode, server) ELSE server
        /\ spare' = ResetPolicy
        /\ UNCHANGED faults
     \/ Fault("reset_lost") /\ UNCHANGED <<server, spare>>
  /\ location' = "away" /\ object' = "table" /\ gripper' = ResetGripper /\ stalls' = 0
  /\ recorder' = RecordStep(NewRecorder, "reset", "away", 80)
  /\ step_index' = 0
  /\ pc' = "predict"
  /\ UNCHANGED <<setup, up, late, disk, orphans>>
----------------------------------------------------------------------------
(* predict_action() of the client.                                         *)

Observation ==
  [at_grasp |-> location = "grasp", at_lift |-> location = "lift",
   aligned |-> location \in {"above_bin", "drop"},
   near_bin |-> location \in {"above_bin", "drop"},
   at_stage |-> location = "drop", at_drop_height |-> location = "drop",
   held |-> gripper.held_object, status |-> gripper.task_status]

TheRequest == Request(client, Observation)

Predicting == pc = "predict" /\ step_index < MaxPolicySteps

Use(a) == answer' = a /\ pc' = "apply"

\* FastAPIVLAPolicyClient raises; RealVLAPolicyClient asks its fallback, which
\* for fastapi-dummy is another client with another server, and may raise too.
Failed ==
  \/ /\ setup.backend = "fastapi-dummy" \/ setup.fallback = "none"
     /\ pc' = "raised"
     /\ UNCHANGED <<client, local, spare, answer>>
  \/ /\ setup.backend = "real-vla" /\ setup.fallback = "local-dummy"
     /\ \E a \in {Predict(local, Observation)} :
          local' = a.policy /\ client' = AcceptFallback(client, a) /\ Use(a)
     /\ UNCHANGED spare
  \/ /\ setup.backend = "real-vla" /\ setup.fallback = "fastapi-dummy"
     /\ \E a \in {Serve(spare, TheRequest)} :
          spare' = a.policy /\ client' = AcceptFallback(client, a) /\ Use(a)
     /\ UNCHANGED local
  \/ /\ setup.backend = "real-vla" /\ setup.fallback = "fastapi-dummy"
     /\ "fallback_fails" \in setup.faults
     /\ spare' \in {spare, Serve(spare, TheRequest).policy}
     /\ client' = [client EXCEPT !.fallback_used_count = @ + 1]
     /\ pc' = "raised"
     /\ UNCHANGED <<local, answer>>

Answered ==
  /\ Predicting /\ up /\ Acts(setup.mode)
  /\ \E a \in {Serve(server, TheRequest)} :
       server' = a.policy /\ client' = Accept(client, a) /\ Use(a)
  /\ UNCHANGED <<setup, up, spare, late, local, step_index, episodes, robot, data, faults>>

\* A mode without actions, or no server at all.
Refused ==
  /\ Predicting /\ ~(up /\ Acts(setup.mode))
  /\ Failed
  /\ UNCHANGED <<setup, up, server, late, step_index, episodes, robot, data, faults>>

\* Timeouts: the request never arrives, arrives later, or is answered too late.
RequestLost ==
  /\ Predicting /\ up /\ Fault("request_lost")
  /\ Failed
  /\ UNCHANGED <<setup, up, server, late, step_index, episodes, robot, data>>

RequestLate ==
  /\ Predicting /\ up /\ Fault("request_late")
  /\ late' = late \cup {TheRequest}
  /\ Failed
  /\ UNCHANGED <<setup, up, server, step_index, episodes, robot, data>>

\* The server has answered, but the answer is lost or of no use.
AnswerWasted ==
  /\ Predicting /\ up /\ Acts(setup.mode)
  /\ Fault("answer_lost") \/ Fault("malformed")
  /\ server' = Serve(server, TheRequest).policy
  /\ Failed
  /\ UNCHANGED <<setup, up, late, step_index, episodes, robot, data>>
----------------------------------------------------------------------------
(* The rest of an iteration, and the end of the program.                   *)

NextLocation(aim) ==
  CASE aim = "grasp" -> "grasp"
    [] aim = "lift"  -> "lift"
    [] aim = "carry" -> "above_bin"
    [] aim = "drop"  -> "drop"
    [] OTHER         -> location

Move(aim) ==
  \/ location' = NextLocation(aim) /\ UNCHANGED stalls
  \/ /\ NextLocation(aim) # location /\ stalls < MaxStalls
     /\ location' = location /\ stalls' = stalls + 1

\* Where the object is after the gripper went from held to still_held; put
\* down where it came from, it can be grasped again.
ObjectAfter(held, still_held, place) ==
  CASE still_held             -> "gripper"
    [] ~still_held /\ ~held   -> object
    [] OTHER                  -> IF place = "drop" THEN "bin"
                                 ELSE IF place = "grasp" THEN "table" ELSE "dropped"

Returns(done, status) == status = "success" \/ done

Apply ==
  /\ pc = "apply"
  /\ Move(answer.aim)
  /\ gripper' = ApplyGripper(gripper, answer.gripper,
                             location' = "grasp" /\ object = "table", location' = "drop")
  /\ object' = ObjectAfter(gripper.held_object, gripper'.held_object, location')
  /\ recorder' = RecordStep(recorder, answer.phase, location',
                            Width(gripper'.fingers_open, gripper'.held_object))
  /\ step_index' = step_index + 1
  /\ pc' = IF Returns(answer.done, gripper'.task_status) THEN "returned" ELSE "predict"
  /\ UNCHANGED <<setup, remote, client, local, answer, episodes, disk, orphans, faults>>

RunOutOfSteps ==
  /\ pc = "predict" /\ step_index = MaxPolicySteps
  /\ pc' = "returned"
  /\ UNCHANGED <<setup, remote, program, episodes, robot, data, faults>>

\* finish_episode() writes episode.json.
Finish ==
  /\ pc = "returned"
  /\ disk' = Append(disk, EpisodeRecord(recorder, gripper.task_status))
  /\ recorder' = IdleRecorder
  /\ pc' = "start"
  /\ UNCHANGED <<setup, remote, program, episodes, robot, orphans, faults>>

\* The exception leaves the directory of the episode behind without one.
Abandon ==
  /\ pc = "raised"
  /\ orphans' = orphans + 1
  /\ recorder' = IdleRecorder
  /\ pc' = "start"
  /\ UNCHANGED <<setup, remote, program, episodes, robot, disk, faults>>
----------------------------------------------------------------------------

Iterate == Answered \/ Refused \/ Apply \/ RunOutOfSteps \/ Finish \/ Abandon

Fails == RequestLost \/ RequestLate \/ AnswerWasted

Next == StartEpisode \/ Iterate \/ Fails \/ SessionEnds \/ HandleLate

Spec == Init /\ [][Next]_vars
----------------------------------------------------------------------------

RemoteTypeOK ==
  /\ setup \in Setups /\ up \in BOOLEAN
  /\ {server, spare, local} \subseteq PolicyRecords
  /\ \A r \in late : r.phase \in Phases
  /\ client.phase \in Phases /\ client.fallback_used_count \in 0..MaxPolicySteps
  /\ pc \in {"start", "predict", "apply", "returned", "raised"}
  /\ step_index \in 0..MaxPolicySteps /\ episodes \in 0..MaxEpisodes
  /\ location \in Locations /\ object \in Places /\ gripper \in GripperRecords
  /\ orphans \in Nat /\ faults \in 0..MaxFaults

\* An in-process fallback has a phase of its own, which no request tells it; it
\* follows the episode only where the server has never answered.
FallbacksInSync(setups) ==
  \A s \in setups :
    s.backend = "real-vla" /\ s.fallback = "local-dummy" => ~(s.up /\ Acts(s.mode))

\* docs/colab_vla_server_spike.md and docs/architecture.md on the fallback:
\* an episode also succeeds when the server cannot be reached, or when its
\* session ends.  However requests fail, an episode that ends without an
\* exception has delivered the object, unless the arm itself stalled for longer
\* than the step budget allows for.
FinishedEpisodesSucceed ==
  pc = "returned" /\ stalls <= StallsAllowedFor => gripper.task_status = "success"

\* Two policies and a client, each with a phase, and requests that come late:
\* the object is still picked up at most once in an episode, and leaves the
\* gripper once, and then over the bin.
Journey == INSTANCE ObjectJourney WITH place <- object

EachEpisodeIsAJourney ==
  [][episodes' = episodes /\ object' # object => Journey!PickUp \/ Journey!Deliver]_vars

\* Comment of lerobot_dataset_exporter.py on its threshold: a dataset replays.
\* With failed episodes or without, the samples of an exported episode close
\* the gripper at most once, at the pick, and open it at most once after that,
\* whatever the noise of the fingers and however many policies took part; those
\* of a successful one do both, the second over the bin.
ExportedEpisodesReplay ==
  \A include_failed \in BOOLEAN : \A i \in Exported(disk, include_failed, MaxEpisodes) :
    LET e == disk[i]
        samples == Samples(e)
        never == Len(e.steps)
    IN \E close, open \in 1..never :
         /\ GripperScript(samples, close, open)
         /\ close # never =>
              e.steps[close + 1].phase = "close_gripper" /\ e.steps[close + 1].place = "grasp"
         /\ open # never => close < open /\ e.steps[open + 1].phase = "open_gripper"
         /\ e.success => open # never /\ e.steps[open + 1].place = "drop"
=============================================================================
