------------------------- MODULE RemoteEpisodeProofs -------------------------
(***************************************************************************)
(* RemoteEpisode for every set of setups, any number of episodes, faults,  *)
(* late requests and stalls, and every step budget.  What the operators of *)
(* the policy and the gripper do is in OperatorLemmas.                     *)
(***************************************************************************)
EXTENDS RemoteEpisode, OperatorLemmas, SequenceTheorems

(***************************************************************************)
(* Who answers.  The five actions of predict_action() differ in what       *)
(* becomes of the request, and agree in this: the client raises, or it     *)
(* uses the answer of some policy to the present observation.              *)
(***************************************************************************)

Predicts == Answered \/ Refused \/ Fails

\* The setups with an in-process fallback.
Local == setup.backend = "real-vla" /\ setup.fallback = "local-dummy"

Uses(p) ==
  /\ pc' = "apply" /\ answer' = Predict(p, Observation)
  /\ client' = Accept(client, answer') \/ client' = AcceptFallback(client, answer')

\* A fallback that raises has been counted.
Raises ==
  /\ pc' = "raised" /\ UNCHANGED <<local, answer>>
  /\ client' \in {client, [client EXCEPT !.fallback_used_count = @ + 1]}

Outcome ==
  \/ Raises
  \/ Local /\ Uses(local) /\ local' = answer'.policy
  \/ /\ Local => up /\ Acts(setup.mode)
     /\ \E p \in PolicyRecords : p.phase = client.phase /\ Uses(p)
     /\ UNCHANGED local

ClientRecords == [phase : Phases, fallback_used_count : Nat]

Policies == {server, spare, local} \subseteq PolicyRecords

LatePhases == \A r \in late : r.phase \in Phases

\* A server that takes the phase over from the request of the client.
LEMMA ServesTheClient ==
  ASSUME NEW p \in PolicyRecords, client \in ClientRecords
  PROVE  \E q \in PolicyRecords :
           q.phase = client.phase /\ Serve(p, TheRequest) = Predict(q, Observation)
<1> DEFINE q == [p EXCEPT !.phase = client.phase]
<1>1. q \in PolicyRecords /\ q.phase = client.phase
  BY PolicyFields DEF ClientRecords
<1>2. Serve(p, TheRequest) = Predict(q, Observation)
  BY DEF Serve, TheRequest, Request
<1>3. QED
  BY <1>1, <1>2

\* Any request, the late ones included, leaves a server with a policy.
LEMMA ServesAnyRequest ==
  ASSUME NEW p \in PolicyRecords, NEW request, request.phase \in Phases
  PROVE  Serve(p, request).policy \in PolicyRecords
<1> DEFINE q == [p EXCEPT !.phase = request.phase]
<1>1. q \in PolicyRecords
  BY PolicyFields
<1>2. Serve(p, request) = Predict(q, request.observation)
  BY DEF Serve
<1>3. QED
  BY <1>1, <1>2, PredictContinues

LEMMA RequestPhase ==
  ASSUME client \in ClientRecords
  PROVE  TheRequest.phase \in Phases
BY DEF ClientRecords, TheRequest, Request

LEMMA FailedOutcome ==
  ASSUME Policies, client \in ClientRecords, Failed
  PROVE  Outcome /\ {spare', local'} \subseteq PolicyRecords
<1>0. spare \in PolicyRecords /\ local \in PolicyRecords
  BY DEF Policies
<1>1. CASE /\ setup.backend = "fastapi-dummy" \/ setup.fallback = "none"
           /\ pc' = "raised"
           /\ UNCHANGED <<client, local, spare, answer>>
  BY <1>0, <1>1 DEF Outcome, Raises
<1>2. CASE /\ setup.backend = "real-vla" /\ setup.fallback = "local-dummy"
           /\ \E a \in {Predict(local, Observation)} :
                local' = a.policy /\ client' = AcceptFallback(client, a) /\ Use(a)
           /\ UNCHANGED spare
  <2>1. Local /\ Uses(local) /\ local' = answer'.policy
    BY <1>2 DEF Use, Uses, Local
  <2>2. local' \in PolicyRecords
    BY <1>0, <2>1, PredictContinues DEF Uses
  <2>3. QED
    BY <1>0, <1>2, <2>1, <2>2 DEF Outcome
<1>3. CASE /\ setup.backend = "real-vla" /\ setup.fallback = "fastapi-dummy"
           /\ \E a \in {Serve(spare, TheRequest)} :
                spare' = a.policy /\ client' = AcceptFallback(client, a) /\ Use(a)
           /\ UNCHANGED local
  <2>1. PICK p \in PolicyRecords :
          p.phase = client.phase /\ Serve(spare, TheRequest) = Predict(p, Observation)
    BY <1>0, ServesTheClient
  <2>2. Uses(p) /\ spare' = Predict(p, Observation).policy
    BY <1>3, <2>1 DEF Use, Uses
  <2>3. spare' \in PolicyRecords
    BY <2>2, PredictContinues
  <2>4. ~Local
    BY <1>3 DEF Local
  <2>5. QED
    BY <1>0, <1>3, <2>1, <2>2, <2>3, <2>4 DEF Outcome
<1>4. CASE /\ setup.backend = "real-vla" /\ setup.fallback = "fastapi-dummy"
           /\ "fallback_fails" \in setup.faults
           /\ spare' \in {spare, Serve(spare, TheRequest).policy}
           /\ client' = [client EXCEPT !.fallback_used_count = @ + 1]
           /\ pc' = "raised"
           /\ UNCHANGED <<local, answer>>
  <2>1. Serve(spare, TheRequest).policy \in PolicyRecords
    BY <1>0, RequestPhase, ServesAnyRequest
  <2>2. QED
    BY <1>0, <1>4, <2>1 DEF Outcome, Raises
<1>5. QED
  BY <1>1, <1>2, <1>3, <1>4 DEF Failed

\* What the five actions have in common.
LEMMA PredictOutcome ==
  ASSUME Policies, LatePhases, client \in ClientRecords, faults \in 0..MaxFaults, Predicts
  PROVE  /\ Predicting /\ Outcome
         /\ Policies' /\ LatePhases' /\ faults' \in 0..MaxFaults
         /\ UNCHANGED <<setup, up, step_index, episodes, robot, data>>
<1>0. server \in PolicyRecords /\ spare \in PolicyRecords
  BY DEF Policies
<1>f. \A kind : Fault(kind) => faults' \in 0..MaxFaults
  BY RemoteEpisodeAssumption DEF Fault
<1>1. CASE Answered
  <2>1. PICK p \in PolicyRecords :
          p.phase = client.phase /\ Serve(server, TheRequest) = Predict(p, Observation)
    BY <1>0, ServesTheClient
  <2>2. /\ Uses(p) /\ server' = Predict(p, Observation).policy
        /\ UNCHANGED <<setup, up, spare, late, local, step_index, episodes, robot, data, faults>>
        /\ Predicting /\ up /\ Acts(setup.mode)
    BY <1>1, <2>1 DEF Answered, Use, Uses
  <2>3. server' \in PolicyRecords
    BY <2>2, PredictContinues
  <2>4. Outcome
    BY <2>1, <2>2 DEF Outcome
  <2>5. QED
    BY <2>2, <2>3, <2>4 DEF Policies, LatePhases
<1>2. CASE Refused
  <2>1. /\ Failed /\ Predicting
        /\ UNCHANGED <<setup, up, server, late, step_index, episodes, robot, data, faults>>
    BY <1>2 DEF Refused
  <2>2. QED
    BY <1>0, <2>1, FailedOutcome DEF Policies, LatePhases
<1>3. CASE RequestLost
  <2>1. /\ Failed /\ Predicting /\ faults' \in 0..MaxFaults
        /\ UNCHANGED <<setup, up, server, late, step_index, episodes, robot, data>>
    BY <1>3, <1>f DEF RequestLost
  <2>2. QED
    BY <1>0, <2>1, FailedOutcome DEF Policies, LatePhases
<1>4. CASE RequestLate
  <2>1. /\ Failed /\ Predicting /\ faults' \in 0..MaxFaults
        /\ late' = late \cup {TheRequest}
        /\ UNCHANGED <<setup, up, server, step_index, episodes, robot, data>>
    BY <1>4, <1>f DEF RequestLate
  <2>2. LatePhases'
    BY <2>1, RequestPhase DEF LatePhases
  <2>3. QED
    BY <1>0, <2>1, <2>2, FailedOutcome DEF Policies
<1>5. CASE AnswerWasted
  <2>1. /\ Failed /\ Predicting /\ faults' \in 0..MaxFaults
        /\ server' = Serve(server, TheRequest).policy
        /\ UNCHANGED <<setup, up, late, step_index, episodes, robot, data>>
    BY <1>5, <1>f DEF AnswerWasted
  <2>2. server' \in PolicyRecords
    BY <1>0, <2>1, RequestPhase, ServesAnyRequest
  <2>3. QED
    BY <1>0, <2>1, <2>2, FailedOutcome DEF Policies, LatePhases
<1>6. QED
  BY <1>1, <1>2, <1>3, <1>4, <1>5 DEF Predicts, Fails
----------------------------------------------------------------------------
(* Types.  The client's count of fallbacks is bounded by the step budget,  *)
(* because every fallback is an iteration; an action is only due while the *)
(* budget lasts.                                                           *)

ClientInv ==
  /\ client \in ClientRecords /\ answer.phase \in Phases
  /\ pc = "predict" => client.fallback_used_count <= step_index
  /\ pc = "apply" =>
       step_index < MaxPolicySteps /\ client.fallback_used_count <= step_index + 1

TypeInv == RemoteTypeOK /\ ClientInv

LEMMA TypeInit == Init => TypeInv
<1> SUFFICES ASSUME Init PROVE TypeInv
  OBVIOUS
<1>1. ResetPolicy \in PolicyRecords /\ ResetGripper \in GripperRecords
  BY DEF ResetPolicy, PolicyRecords, Phases, ResetGripper, GripperRecords, TaskStatuses
<1>2. client \in ClientRecords /\ client.fallback_used_count = 0
  BY DEF Init, NewClient, ClientRecords, Phases
<1>3. answer.phase \in Phases
  BY <1>1 DEF Init, NoAnswer, Answer, PolicyRecords
<1>4. ClientInv
  BY <1>2, <1>3 DEF Init, ClientInv
<1>5. setup \in Setups /\ up \in BOOLEAN
  BY RemoteEpisodeAssumption DEF Init, AllSetups
<1>6. RemoteTypeOK
  BY <1>1, <1>2, <1>5, RemoteEpisodeAssumption
     DEF Init, RemoteTypeOK, ClientRecords, Locations, Places
<1>7. QED
  BY <1>4, <1>6 DEF TypeInv

LEMMA TypePredicts ==
  ASSUME TypeInv, Predicts
  PROVE  TypeInv'
<1>1. /\ Policies /\ LatePhases /\ client \in ClientRecords /\ faults \in 0..MaxFaults
      /\ MaxPolicySteps \in Nat /\ step_index \in 0..MaxPolicySteps
  BY RemoteEpisodeAssumption
     DEF TypeInv, RemoteTypeOK, ClientInv, Policies, LatePhases
<1>2. /\ Predicting /\ Outcome
      /\ Policies' /\ LatePhases' /\ faults' \in 0..MaxFaults
      /\ UNCHANGED <<setup, up, step_index, episodes, robot, data>>
  BY <1>1, PredictOutcome
<1>3. client.fallback_used_count <= step_index /\ step_index < MaxPolicySteps
  BY <1>1, <1>2 DEF Predicting, TypeInv, ClientInv
<1>4. /\ client' \in ClientRecords /\ answer'.phase \in Phases
      /\ client'.fallback_used_count <= step_index + 1
      /\ pc' \in {"raised", "apply"}
  <2>1. CASE Raises
    BY <1>1, <1>3, <2>1 DEF Raises, TypeInv, ClientInv, ClientRecords
  <2>2. ASSUME NEW p \in PolicyRecords, Uses(p)
        PROVE  /\ client' \in ClientRecords /\ answer'.phase \in Phases
               /\ client'.fallback_used_count <= step_index + 1
               /\ pc' = "apply"
    <3>1. answer'.phase \in Phases
      <4>1. p.phase \in Phases /\ Continues(p.phase, answer', Observation)
        BY <2>2, PredictContinues DEF Uses, PolicyRecords
      <4>2. QED
        BY <4>1 DEF Phases, Continues, Approaches, Steadies, Grasps, Lifts, Travels,
                    Releases, InPhase
    <3>2. /\ client' \in ClientRecords
          /\ client'.fallback_used_count \in
               {client.fallback_used_count, client.fallback_used_count + 1}
      BY <1>1, <2>2, <3>1 DEF Uses, Accept, AcceptFallback, ClientRecords
    <3>3. QED
      BY <1>1, <1>3, <2>2, <3>1, <3>2 DEF Uses, ClientRecords
  <2>3. QED
    BY <1>1, <1>2, <2>1, <2>2 DEF Outcome, Policies
<1>5. ClientInv'
  BY <1>1, <1>2, <1>3, <1>4 DEF ClientInv
<1>6. client'.phase \in Phases /\ client'.fallback_used_count \in 0..MaxPolicySteps
  BY <1>1, <1>3, <1>4 DEF ClientRecords
<1>7. RemoteTypeOK'
  BY <1>2, <1>4, <1>6 DEF TypeInv, RemoteTypeOK, Policies, LatePhases, robot, data
<1>8. QED
  BY <1>5, <1>7 DEF TypeInv

LEMMA TypeApply ==
  ASSUME TypeInv, Apply
  PROVE  TypeInv'
<1>1. gripper' \in GripperRecords
  BY ApplyGripperType DEF Apply, TypeInv, RemoteTypeOK
<1>2. location' \in Locations
  BY DEF Apply, Move, NextLocation, Locations, TypeInv, RemoteTypeOK
<1>3. object' \in Places
  <2>1. object \in Places
    BY DEF TypeInv, RemoteTypeOK
  <2>2. object' = ObjectAfter(gripper.held_object, gripper'.held_object, location')
    BY DEF Apply
  <2>3. QED
    BY <2>1, <2>2 DEF ObjectAfter, Places
<1>4. step_index' = step_index + 1 /\ step_index' \in 0..MaxPolicySteps
  BY RemoteEpisodeAssumption DEF Apply, TypeInv, RemoteTypeOK, ClientInv
<1>5. /\ pc = "apply" /\ pc' \in {"returned", "predict"}
      /\ UNCHANGED <<setup, remote, client, local, answer, episodes, disk, orphans, faults>>
  BY DEF Apply
<1>6. ClientInv'
  BY <1>4, <1>5 DEF TypeInv, ClientInv
<1>7. RemoteTypeOK'
  BY <1>1, <1>2, <1>3, <1>4, <1>5 DEF TypeInv, RemoteTypeOK, remote
<1>8. QED
  BY <1>6, <1>7 DEF TypeInv

LEMMA TypeStart ==
  ASSUME TypeInv, StartEpisode
  PROVE  TypeInv'
<1>1. ResetPolicy \in PolicyRecords /\ ResetGripper \in GripperRecords
  BY DEF ResetPolicy, PolicyRecords, Phases, ResetGripper, GripperRecords, TaskStatuses
<1>2. client' \in ClientRecords /\ client'.fallback_used_count = 0
  BY DEF StartEpisode, NewClient, ClientRecords, Phases
<1>3. answer'.phase \in Phases
  BY <1>1 DEF StartEpisode, NoAnswer, Answer, PolicyRecords
<1>4. server' \in PolicyRecords /\ spare' \in PolicyRecords /\ faults' \in 0..MaxFaults
  <2>1. /\ server \in PolicyRecords /\ spare \in PolicyRecords /\ faults \in 0..MaxFaults
        /\ MaxFaults \in Nat
    BY RemoteEpisodeAssumption DEF TypeInv, RemoteTypeOK
  <2>2. CASE /\ server' = IF up THEN ServerReset(setup.mode, server) ELSE server
             /\ spare' = ResetPolicy
             /\ UNCHANGED faults
    BY <1>1, <2>1, <2>2 DEF ServerReset
  <2>3. CASE Fault("reset_lost") /\ UNCHANGED <<server, spare>>
    BY <2>1, <2>3 DEF Fault
  <2>4. QED
    BY <2>2, <2>3 DEF StartEpisode
<1>5. /\ pc' = "predict" /\ step_index' = 0 /\ episodes' \in 0..MaxEpisodes
      /\ local' = ResetPolicy /\ gripper' = ResetGripper
      /\ location' \in Locations /\ object' \in Places
      /\ UNCHANGED <<setup, up, late, disk, orphans>>
  BY RemoteEpisodeAssumption
     DEF StartEpisode, TypeInv, RemoteTypeOK, Locations, Places
<1>6. ClientInv'
  BY <1>2, <1>3, <1>5 DEF ClientInv
<1>7. RemoteTypeOK'
  BY <1>1, <1>2, <1>4, <1>5, RemoteEpisodeAssumption
     DEF TypeInv, RemoteTypeOK, ClientRecords
<1>8. QED
  BY <1>6, <1>7 DEF TypeInv

LEMMA TypeStep == TypeInv /\ [Next]_vars => TypeInv'
<1> SUFFICES ASSUME TypeInv, [Next]_vars PROVE TypeInv'
  OBVIOUS
<1>1. CASE StartEpisode
  BY <1>1, TypeStart
<1>2. CASE Predicts
  BY <1>2, TypePredicts
<1>3. CASE Apply
  BY <1>3, TypeApply
<1>4. CASE RunOutOfSteps
  BY <1>4 DEF RunOutOfSteps, TypeInv, RemoteTypeOK, ClientInv, remote, program, robot, data
<1>5. CASE Finish
  BY <1>5 DEF Finish, TypeInv, RemoteTypeOK, ClientInv, remote, program, robot
<1>6. CASE Abandon
  BY <1>6 DEF Abandon, TypeInv, RemoteTypeOK, ClientInv, remote, program, robot
<1>7. CASE SessionEnds
  <2>1. faults' \in 0..MaxFaults
    BY <1>7, RemoteEpisodeAssumption DEF SessionEnds, Fault, TypeInv, RemoteTypeOK
  <2>2. QED
    BY <1>7, <2>1
       DEF SessionEnds, TypeInv, RemoteTypeOK, ClientInv, program, robot, data
<1>8. CASE HandleLate
  <2>1. server' \in PolicyRecords /\ late' \subseteq late
    BY <1>8, ServesAnyRequest DEF HandleLate, TypeInv, RemoteTypeOK
  <2>2. QED
    BY <1>8, <2>1
       DEF HandleLate, TypeInv, RemoteTypeOK, ClientInv, program, robot, data
<1>9. CASE UNCHANGED vars
  BY <1>9 DEF vars, TypeInv, RemoteTypeOK, ClientInv, remote, program, robot, data
<1>10. QED
  BY <1>1, <1>2, <1>3, <1>4, <1>5, <1>6, <1>7, <1>8, <1>9 DEF Next, Iterate, Predicts

\* Types for every set of setups, in sync or not, and whatever happens to
\* requests, resets and the session; no episode falls back more often than it
\* has iterations.
THEOREM RemoteTypes == Spec => []RemoteTypeOK
<1>1. TypeInv => RemoteTypeOK
  BY DEF TypeInv
<1>2. QED
  BY <1>1, TypeInit, TypeStep, PTL DEF Spec
----------------------------------------------------------------------------
(* Phase, gripper and arm.  Whoever answered last, the phase the client    *)
(* carries along fits what the gripper holds and where the arm is; it is   *)
(* the only thing that passes from one policy to the next.                 *)

\* Where the arm is in each phase, between two iterations.
AtPhase(phase, place) ==
  /\ phase = "move_to_object" => place \in {"away", "grasp"}
  /\ phase \in {"stabilize", "close_gripper"} => place = "grasp"
  /\ phase = "lift_object" => place \in {"grasp", "lift"}
  /\ phase = "move_above_bin" => place \in {"lift", "above_bin", "drop"}

\* Where it is when an action is about to be applied.
Heads(a, place) ==
  \/ InPhase(a, "move_to_object", "grasp") /\ place = "away"
  \/ InPhase(a, "stabilize", "grasp_fine") /\ place = "grasp"
  \/ InPhase(a, "close_gripper", "stay") /\ place = "grasp"
  \/ InPhase(a, "lift_object", "lift") /\ place = "grasp"
  \/ InPhase(a, "move_above_bin", "carry") /\ place = "lift"
  \/ InPhase(a, "move_above_bin", "drop") /\ place = "above_bin"
  \/ /\ InPhase(a, "open_gripper", "stay")
     /\ place = "drop" \/ (place \in {"lift", "above_bin"} /\ TimedOut(a))
  \/ InPhase(a, "done", "stay")

\* The object is where the gripper says.
ObjectInv ==
  /\ HoldsFirmly(gripper)
  /\ object = "gripper" <=> gripper.held_object
  /\ gripper.task_status = "running" => object = "table"

\* Only the in-process fallback could lose the phase, and it answers either
\* every request or none.
SyncInv ==
  /\ up => setup.up
  /\ pc \in {"predict", "apply"} /\ Local => local.phase = client.phase

\* A close command is given once and grasps: it never has to be re-issued.
ReadyToPredict ==
  /\ PhaseAgrees(client.phase, gripper)
  /\ AtPhase(client.phase, location)
  /\ client.phase = "close_gripper" => gripper.held_object

ReadyToApply ==
  /\ SoundAnswer(answer, gripper) /\ Heads(answer, location)
  /\ client.phase = answer.phase
  /\ answer.phase = "close_gripper" => Untouched(gripper)

PhaseInv ==
  /\ TypeInv /\ ObjectInv /\ SyncInv
  /\ pc = "predict" => ReadyToPredict
  /\ pc = "apply" => ReadyToApply

LEMMA ReadyAtStart ==
  ASSUME NEW phase, phase = "move_to_object", NEW place, place = "away"
  PROVE  /\ PhaseAgrees(phase, ResetGripper) /\ AtPhase(phase, place)
         /\ HoldsFirmly(ResetGripper)
BY DEF PhaseAgrees, AtPhase, HoldsFirmly, ResetGripper, Untouched, GripperRecords,
       TaskStatuses

LEMMA PhaseInit == Init => PhaseInv
<1> SUFFICES ASSUME Init PROVE PhaseInv
  OBVIOUS
<1>1. TypeInv
  BY TypeInit
<1>2. ObjectInv
  BY ReadyAtStart DEF Init, ObjectInv, ResetGripper
<1>3. SyncInv
  BY DEF Init, SyncInv
<1>4. QED
  BY <1>1, <1>2, <1>3 DEF Init, PhaseInv

LEMMA PhaseStart ==
  ASSUME PhaseInv, StartEpisode
  PROVE  PhaseInv'
<1>1. TypeInv'
  BY TypeStart DEF PhaseInv
<1>2. /\ pc' = "predict" /\ client'.phase = "move_to_object" /\ local'.phase = "move_to_object"
      /\ location' = "away" /\ object' = "table" /\ gripper' = ResetGripper
      /\ UNCHANGED <<setup, up>>
  BY DEF StartEpisode, NewClient, ResetPolicy
<1>3. ObjectInv'
  BY <1>2, ReadyAtStart DEF ObjectInv, ResetGripper
<1>4. SyncInv'
  BY <1>2 DEF SyncInv, PhaseInv
<1>5. ReadyToPredict'
  BY <1>2, ReadyAtStart DEF ReadyToPredict
<1>6. QED
  BY <1>1, <1>2, <1>3, <1>4, <1>5 DEF PhaseInv

\* A policy that is in the client's phase, asked about the present state.
LEMMA AnswersInTurn ==
  ASSUME ReadyToPredict, location \in Locations,
         NEW p \in PolicyRecords, p.phase = client.phase,
         NEW a, a = Predict(p, Observation)
  PROVE  /\ SoundAnswer(a, gripper) /\ Heads(a, location)
         /\ a.phase = "close_gripper" => Untouched(gripper)
<1>1. PhaseAgrees(p.phase, gripper) /\ AtPhase(p.phase, location) /\ p.phase \in Phases
      /\ (p.phase = "close_gripper" => gripper.held_object)
  BY PolicyFields DEF ReadyToPredict
<1>2. Reports(Observation, gripper)
  BY DEF Reports, Observation
<1>3. SoundAnswer(a, gripper)
  BY <1>1, <1>2, PredictSoundAnswer
<1>4. Continues(p.phase, a, Observation)
  BY PredictContinues
<1>5. /\ Observation.at_grasp <=> location = "grasp"
      /\ Observation.at_lift <=> location = "lift"
      /\ Observation.aligned <=> location \in {"above_bin", "drop"}
      /\ Observation.at_stage <=> location = "drop"
      /\ Observation.at_drop_height <=> location = "drop"
      /\ Observation.held = gripper.held_object
  BY DEF Observation
<1>6. a.phase = "close_gripper" => Untouched(gripper)
  BY <1>1, <1>3 DEF SoundAnswer, PhaseAgrees, Phases, Waiting, Rid, Untouched,
                    Continues
<1>7. Heads(a, location)
  <2>1. CASE p.phase = "move_to_object"
    BY <1>1, <1>4, <1>5, <2>1
       DEF Continues, AtPhase, Approaches, Steadies, Grasps, Lifts, Travels, Heads
  <2>2. CASE p.phase \in {"stabilize", "close_gripper"}
    BY <1>1, <1>4, <1>5, <2>2
       DEF Continues, AtPhase, Steadies, Grasps, Lifts, Heads
  <2>3. CASE p.phase = "lift_object"
    BY <1>1, <1>4, <1>5, <2>3 DEF Continues, AtPhase, Lifts, Travels, Releases, Heads
  <2>4. CASE p.phase = "move_above_bin"
    BY <1>1, <1>4, <1>5, <2>4 DEF Continues, AtPhase, Travels, Releases, Heads
  <2>5. CASE p.phase \in {"open_gripper", "done"}
    <3>1. Releases(a) /\ ~gripper.held_object
      BY <1>1, <1>4, <2>5 DEF Continues, PhaseAgrees, Rid
    <3>2. ~InPhase(a, "open_gripper", "stay")
      BY <1>3, <3>1 DEF SoundAnswer, InPhase
    <3>3. QED
      BY <3>1, <3>2 DEF Releases, Heads
  <2>6. QED
    BY <1>1, <2>1, <2>2, <2>3, <2>4, <2>5 DEF Phases
<1>8. QED
  BY <1>3, <1>6, <1>7

LEMMA PhasePredicts ==
  ASSUME FallbacksInSync(Setups), PhaseInv, Predicts
  PROVE  PhaseInv'
<1>1. TypeInv'
  BY TypePredicts DEF PhaseInv
<1>2. /\ Policies /\ LatePhases /\ client \in ClientRecords /\ faults \in 0..MaxFaults
      /\ setup \in Setups /\ location \in Locations /\ local \in PolicyRecords
  BY DEF PhaseInv, TypeInv, RemoteTypeOK, ClientInv, Policies, LatePhases
<1>3. Predicting /\ Outcome /\ UNCHANGED <<setup, up, step_index, episodes, robot, data>>
  BY <1>2, PredictOutcome
<1>4. ReadyToPredict /\ pc = "predict" /\ ObjectInv /\ SyncInv
  BY <1>3 DEF Predicting, PhaseInv
<1>5. Local => ~(up /\ Acts(setup.mode))
  BY <1>2, <1>4 DEF FallbacksInSync, Local, SyncInv
<1>6. ObjectInv' /\ UNCHANGED <<location, gripper, setup, up>>
  BY <1>3, <1>4 DEF ObjectInv, robot
<1>7. CASE Raises
  BY <1>1, <1>4, <1>6, <1>7 DEF Raises, PhaseInv, SyncInv
<1>8. ASSUME NEW p \in PolicyRecords, p.phase = client.phase, Uses(p),
             Local => local' = answer'.policy
      PROVE  PhaseInv'
  <2>1. /\ pc' = "apply" /\ answer' = Predict(p, Observation)
        /\ client'.phase = answer'.phase
    BY <1>2, <1>8 DEF Uses, Accept, AcceptFallback, ClientRecords
  <2>2. /\ SoundAnswer(answer', gripper) /\ Heads(answer', location)
        /\ answer'.phase = "close_gripper" => Untouched(gripper)
    BY <1>2, <1>4, <1>8, <2>1, AnswersInTurn
  <2>3. ReadyToApply'
    BY <1>6, <2>1, <2>2 DEF ReadyToApply
  <2>4. SyncInv'
    BY <1>4, <1>6, <1>8, <2>1, <2>2 DEF SyncInv, Local, SoundAnswer
  <2>5. QED
    BY <1>1, <1>6, <2>1, <2>3, <2>4 DEF PhaseInv
<1>9. CASE Local /\ Uses(local) /\ local' = answer'.policy
  <2>1. local.phase = client.phase
    BY <1>4, <1>9 DEF SyncInv
  <2>2. QED
    BY <1>2, <1>8, <1>9, <2>1
<1>10. CASE /\ Local => up /\ Acts(setup.mode)
            /\ \E p \in PolicyRecords : p.phase = client.phase /\ Uses(p)
            /\ UNCHANGED local
  BY <1>5, <1>8, <1>10
<1>11. QED
  BY <1>3, <1>7, <1>9, <1>10 DEF Outcome

\* What applying an action does to the gripper and the object, given what the
\* answer may be.
LEMMA AppliedAnswer ==
  ASSUME PhaseInv, Apply
  PROVE  /\ PhaseAgrees(answer.policy.phase, gripper') /\ Carries(gripper, gripper')
         /\ location' \in {location, NextLocation(answer.aim)}
         /\ answer.phase = "close_gripper" => gripper'.held_object
         /\ answer.phase = "open_gripper" => location' = location
         /\ gripper.held_object /\ ~gripper'.held_object =>
              /\ answer.phase = "open_gripper" /\ gripper'.fingers_open
              /\ gripper'.task_status = IF location' = "drop" THEN "success" ELSE "released"
<1> DEFINE near == location' = "grasp" /\ object = "table"
           over_bin == location' = "drop"
<1>1. ReadyToApply /\ ObjectInv /\ HoldsFirmly(gripper) /\ gripper \in GripperRecords
  BY DEF Apply, PhaseInv, ObjectInv, HoldsFirmly
<1>2. /\ gripper' = ApplyGripper(gripper, answer.gripper, near, over_bin)
      /\ Move(answer.aim)
  BY DEF Apply
<1>3. SoundAnswer(answer, gripper) /\ answer.phase = answer.policy.phase
  BY <1>1 DEF ReadyToApply, SoundAnswer
<1>4. PhaseAgrees(answer.policy.phase, gripper') /\ Carries(gripper, gripper')
  BY <1>1, <1>2, <1>3, ApplySoundAnswer
<1>5. location' \in {location, NextLocation(answer.aim)}
  BY <1>2 DEF Move
<1>6. ASSUME answer.phase \in {"close_gripper", "open_gripper"} PROVE location' = location
  <2>1. answer.aim = "stay"
    BY <1>1, <1>6 DEF ReadyToApply, Heads, InPhase
  <2>2. QED
    BY <1>5, <2>1 DEF NextLocation
<1>7. ASSUME answer.phase = "close_gripper" PROVE gripper'.held_object
  <2>1. location' = "grasp"
    BY <1>1, <1>6, <1>7 DEF ReadyToApply, Heads, InPhase
  <2>2. Untouched(gripper) /\ object = "table"
    BY <1>1, <1>7 DEF ReadyToApply, ObjectInv, Untouched
  <2>3. answer.gripper = "close"
    BY <1>3, <1>7 DEF SoundAnswer
  <2>4. near
    BY <2>1, <2>2
  <2> HIDE DEF near, over_bin
  <2>5. QED
    BY <1>1, <1>2, <2>2, <2>3, <2>4, CloseGrasps DEF Untouched
<1>8. ASSUME gripper.held_object, ~gripper'.held_object
      PROVE  /\ answer.phase = "open_gripper" /\ gripper'.fingers_open
             /\ gripper'.task_status = IF location' = "drop" THEN "success" ELSE "released"
  <2>1. answer.phase = "open_gripper" /\ answer.gripper = "open"
    BY <1>3, <1>4, <1>8 DEF SoundAnswer, PhaseAgrees, Untouched, Waiting, Rid
  <2> HIDE DEF near, over_bin
  <2>2. /\ gripper'.fingers_open
        /\ gripper'.task_status = IF over_bin THEN "success" ELSE "released"
    BY <1>1, <1>2, <1>8, <2>1, ReleaseReports
  <2>3. QED
    BY <2>1, <2>2 DEF over_bin
<1>9. QED
  BY <1>4, <1>5, <1>6, <1>7, <1>8

LEMMA PhaseApply ==
  ASSUME PhaseInv, Apply
  PROVE  PhaseInv'
<1>1. TypeInv'
  BY TypeApply DEF PhaseInv
<1>2. ReadyToApply /\ ObjectInv /\ SyncInv
  BY DEF Apply, PhaseInv
<1>3. /\ PhaseAgrees(answer.policy.phase, gripper') /\ Carries(gripper, gripper')
      /\ location' \in {location, NextLocation(answer.aim)}
      /\ answer.phase = "close_gripper" => gripper'.held_object
  BY AppliedAnswer
<1>4. /\ pc = "apply" /\ pc' \in {"returned", "predict"}
      /\ UNCHANGED <<setup, up, client, local>>
      /\ object' = ObjectAfter(gripper.held_object, gripper'.held_object, location')
  BY DEF Apply, remote
<1>5. ObjectInv'
  <2>1. HoldsFirmly(gripper')
    BY <1>3 DEF PhaseAgrees
  <2>2. object' = "gripper" <=> gripper'.held_object
    BY <1>2, <1>4 DEF ObjectAfter, ObjectInv
  <2>3. gripper'.task_status = "running" => object' = "table"
    <3> SUFFICES ASSUME gripper'.task_status = "running" PROVE object' = "table"
      OBVIOUS
    <3>1. ~gripper'.held_object /\ ~gripper.held_object /\ gripper.task_status = "running"
      BY <1>2, <1>3, <2>1 DEF Carries, HoldsFirmly, ObjectInv, Rid
    <3>2. QED
      BY <1>2, <1>4, <3>1 DEF ObjectAfter, ObjectInv
  <2>4. QED
    BY <2>1, <2>2, <2>3 DEF ObjectInv
<1>6. SyncInv'
  BY <1>2, <1>4 DEF SyncInv, Local
<1>7. ReadyToPredict'
  <2>1. client'.phase = answer.policy.phase /\ answer.policy.phase = answer.phase
    BY <1>2, <1>4 DEF ReadyToApply, SoundAnswer
  <2>2. AtPhase(answer.phase, location')
    BY <1>2, <1>3 DEF ReadyToApply, Heads, InPhase, AtPhase, NextLocation
  <2>3. QED
    BY <1>3, <2>1, <2>2 DEF ReadyToPredict
<1>8. QED
  BY <1>1, <1>4, <1>5, <1>6, <1>7 DEF PhaseInv

LEMMA PhaseStep == FallbacksInSync(Setups) /\ PhaseInv /\ [Next]_vars => PhaseInv'
<1> SUFFICES ASSUME FallbacksInSync(Setups), PhaseInv, [Next]_vars PROVE PhaseInv'
  OBVIOUS
<1>1. TypeInv'
  BY TypeStep DEF PhaseInv
<1>2. CASE StartEpisode
  BY <1>2, PhaseStart
<1>3. CASE Predicts
  BY <1>3, PhasePredicts
<1>4. CASE Apply
  BY <1>4, PhaseApply
<1>5. ASSUME \/ UNCHANGED pc
             \/ pc' \notin {"predict", "apply"},
             UNCHANGED <<setup, client, local, answer, robot>>,
             up' => up
      PROVE  PhaseInv'
  BY <1>1, <1>5
     DEF PhaseInv, ObjectInv, SyncInv, Local, ReadyToPredict, ReadyToApply, robot
<1>6. CASE RunOutOfSteps \/ Finish \/ Abandon
  BY <1>5, <1>6 DEF RunOutOfSteps, Finish, Abandon, remote, program
<1>7. CASE SessionEnds \/ HandleLate
  BY <1>5, <1>7 DEF SessionEnds, HandleLate, program
<1>8. CASE UNCHANGED vars
  BY <1>5, <1>8 DEF vars, remote, program
<1>9. QED
  BY <1>2, <1>3, <1>4, <1>6, <1>7, <1>8 DEF Next, Iterate, Predicts
----------------------------------------------------------------------------
(* The journey of the object.                                              *)

\* A release that the time box of move_above_bin forced before the drop.
Forced == TimedOut(answer)

JourneyOfAnEpisode ==
  episodes' = episodes /\ object' # object =>
    Journey!PickUp \/ Journey!Deliver \/ (Journey!Drop /\ Forced)

LEMMA JourneyStep ==
  FallbacksInSync(Setups) /\ PhaseInv /\ [Next]_vars => JourneyOfAnEpisode
<1> SUFFICES ASSUME PhaseInv, [Next]_vars, episodes' = episodes, object' # object
             PROVE  Journey!PickUp \/ Journey!Deliver \/ (Journey!Drop /\ Forced)
  BY DEF JourneyOfAnEpisode
<1>1. episodes \in Nat
  BY RemoteEpisodeAssumption DEF PhaseInv, TypeInv, RemoteTypeOK
<1>2. Apply
  <2>1. ~StartEpisode
    BY <1>1 DEF StartEpisode
  <2>2. UNCHANGED object \/ Apply
    BY <2>1 DEF Next, Iterate, Fails, Answered, Refused, RequestLost, RequestLate,
                AnswerWasted, RunOutOfSteps, Finish, Abandon, SessionEnds, HandleLate,
                vars, robot
  <2>3. QED
    BY <2>2
<1>3. /\ PhaseAgrees(answer.policy.phase, gripper') /\ Carries(gripper, gripper')
      /\ answer.phase = "open_gripper" => location' = location
      /\ gripper.held_object /\ ~gripper'.held_object => answer.phase = "open_gripper"
  BY <1>2, AppliedAnswer
<1>4. /\ ObjectInv /\ ReadyToApply
      /\ object' = ObjectAfter(gripper.held_object, gripper'.held_object, location')
  BY <1>2 DEF Apply, PhaseInv
<1>5. CASE gripper'.held_object
  <2>1. object' = "gripper"
    BY <1>4, <1>5 DEF ObjectAfter
  <2>2. ~gripper.held_object
    BY <1>4, <2>1 DEF ObjectInv
  <2>3. gripper.task_status = "running"
    BY <1>3, <1>5, <2>2 DEF Carries, Waiting
  <2>4. QED
    BY <1>4, <2>1, <2>3 DEF ObjectInv, Journey!PickUp
<1>6. CASE ~gripper'.held_object
  <2>1. gripper.held_object
    BY <1>4, <1>6 DEF ObjectAfter
  <2>2. answer.phase = "open_gripper" /\ location' = location /\ object = "gripper"
    BY <1>3, <1>4, <1>6, <2>1 DEF ObjectInv
  <2>3. location = "drop" \/ (location \in {"lift", "above_bin"} /\ Forced)
    BY <1>4, <2>2 DEF ReadyToApply, Heads, InPhase, Forced
  <2>4. object' = IF location' = "drop" THEN "bin"
                  ELSE IF location' = "grasp" THEN "table" ELSE "dropped"
    BY <1>4, <1>6, <2>1 DEF ObjectAfter
  <2>5. QED
    BY <2>2, <2>3, <2>4 DEF Journey!Deliver, Journey!Drop
<1>7. QED
  BY <1>5, <1>6

\* Whatever becomes of requests, answers, resets and the session, and however
\* many policies take part: in an episode the object is picked up from the
\* table and leaves the gripper over the bin, or else because the time box
\* forced the release.
THEOREM EpisodesAreJourneys ==
  ASSUME FallbacksInSync(Setups)
  PROVE  Spec => [][JourneyOfAnEpisode]_vars
BY PhaseInit, PhaseStep, JourneyStep, PTL DEF Spec

\* As long as no release is forced, the journey never ends on the way.
THEOREM UnforcedEpisodesAreJourneys ==
  ASSUME FallbacksInSync(Setups)
  PROVE  Spec /\ []~Forced => EachEpisodeIsAJourney
<1> DEFINE A == episodes' = episodes /\ object' # object =>
                  Journey!PickUp \/ Journey!Deliver
<1>1. ~Forced /\ JourneyOfAnEpisode => A
  BY DEF JourneyOfAnEpisode
<1>2. Spec => [][JourneyOfAnEpisode]_vars
  BY EpisodesAreJourneys
<1> HIDE DEF A
<1>3. Spec /\ []~Forced => [][A]_vars
  BY <1>1, <1>2, PTL
<1>4. QED
  BY <1>3 DEF A, EachEpisodeIsAJourney
----------------------------------------------------------------------------
(* The step budget.  Six iterations deliver the object, and an iteration   *)
(* that brings it no closer is a stall of the arm: no failed request costs *)
(* one, because the fallback answers in the same iteration.                *)

BudgetCoversStalls == StabilizationSteps = 0 /\ MaxPolicySteps >= 6 + StallsAllowedFor

\* Iterations left until the object is in the bin, if nothing stalls.
Remaining(place, held) ==
  CASE place = "away"      -> 6
    [] place = "grasp"     -> IF held THEN 4 ELSE 5
    [] place = "lift"      -> 3
    [] place = "above_bin" -> 2
    [] place = "drop"      -> 1

LEMMA RemainingBounds ==
  ASSUME NEW place \in Locations, NEW held
  PROVE  Remaining(place, held) \in 1..6
BY DEF Remaining, Locations

\* Without stabilization_steps the phase "stabilize" is passed through.
LEMMA NeverSteadies ==
  ASSUME NEW p \in PolicyRecords, NEW o, StabilizationSteps = 0
  PROVE  Predict(p, o).phase # "stabilize"
<1>1. \A q \in PolicyRecords : InCloseGripper(q, o).phase # "stabilize"
  BY InCloseGripperGrasps DEF Grasps, Lifts, Travels, Releases, InPhase
<1>2. CASE p.phase = "stabilize"
  <2> DEFINE n == p.stabilization_counter + 1
             q1 == [p EXCEPT !.phase = "stabilize"]
             q == [p EXCEPT !.phase = "stabilize", !.stabilization_counter = n]
  <2>1. n \in Nat /\ q1 \in PolicyRecords
    BY DEF PolicyRecords, Phases
  <2>2. q = [q1 EXCEPT !.stabilization_counter = n]
    BY DEF PolicyRecords
  <2> HIDE DEF n, q1
  <2>3. q \in PolicyRecords /\ q.stabilization_counter = n
    BY <2>1, <2>2, PolicyFields DEF PolicyRecords
  <2>4. Predict(p, o) = InCloseGripper(q, o)
    BY <1>2, <2>1, <2>3 DEF Predict, InStabilize, n
  <2> HIDE DEF q
  <2>5. QED
    BY <1>1, <2>3, <2>4
<1>3. CASE p.phase = "move_to_object"
  <2>1. \/ Predict(p, o) = Answer(p, "grasp", "open", "none")
        \/ Predict(p, o) = InCloseGripper(p, o)
    BY <1>3 DEF Predict, InMoveToObject
  <2>2. QED
    BY <1>1, <1>3, <2>1 DEF Answer
<1>4. CASE p.phase \notin {"stabilize", "move_to_object"}
  <2>1. Continues(p.phase, Predict(p, o), o) /\ p.phase \in Phases
    BY PredictContinues, PolicyFields
  <2>2. QED
    BY <1>4, <2>1
       DEF Phases, Continues, Grasps, Lifts, Travels, Releases, InPhase
<1>5. QED
  BY <1>2, <1>3, <1>4

OnTheWay ==
  /\ gripper.task_status # "success"
  /\ gripper.task_status = "released"
     \/ step_index + Remaining(location, gripper.held_object) <= 6 + stalls

BudgetInv ==
  /\ stalls \in Nat
  /\ pc \in {"predict", "apply"} => OnTheWay
  /\ pc = "apply" => answer.phase # "stabilize"
  /\ pc = "returned" =>
       gripper.task_status \in {"success", "released"} \/ stalls > StallsAllowedFor

LEMMA BudgetInit == Init => BudgetInv
BY DEF Init, BudgetInv

LEMMA BudgetStart ==
  ASSUME StartEpisode
  PROVE  BudgetInv'
<1>1. /\ pc' = "predict" /\ location' = "away" /\ gripper' = ResetGripper
      /\ stalls' = 0 /\ step_index' = 0
  BY DEF StartEpisode
<1>2. OnTheWay'
  BY <1>1 DEF OnTheWay, ResetGripper, Remaining
<1>3. QED
  BY <1>1, <1>2 DEF BudgetInv

LEMMA BudgetPredicts ==
  ASSUME BudgetCoversStalls, PhaseInv, BudgetInv, Predicts
  PROVE  BudgetInv'
<1>1. /\ Policies /\ LatePhases /\ client \in ClientRecords /\ faults \in 0..MaxFaults
      /\ local \in PolicyRecords
  BY DEF PhaseInv, TypeInv, RemoteTypeOK, ClientInv, Policies, LatePhases
<1>2. Predicting /\ Outcome /\ UNCHANGED <<setup, up, step_index, episodes, robot, data>>
  BY <1>1, PredictOutcome
<1>3. OnTheWay' /\ stalls' \in Nat
  BY <1>2 DEF Predicting, BudgetInv, OnTheWay, robot
<1>4. pc' \in {"raised", "apply"} /\ (pc' = "apply" => answer'.phase # "stabilize")
  BY <1>1, <1>2, NeverSteadies DEF Outcome, Raises, Uses, BudgetCoversStalls
<1>5. QED
  BY <1>3, <1>4 DEF BudgetInv

LEMMA BudgetApply ==
  ASSUME PhaseInv, BudgetInv, Apply
  PROVE  BudgetInv'
<1>1. /\ ReadyToApply /\ OnTheWay /\ stalls \in Nat /\ step_index \in Nat
      /\ answer.phase # "stabilize" /\ pc = "apply"
  BY RemoteEpisodeAssumption
     DEF Apply, PhaseInv, BudgetInv, TypeInv, RemoteTypeOK
<1>2. /\ PhaseAgrees(answer.phase, gripper') /\ Carries(gripper, gripper')
      /\ answer.phase = "close_gripper" => gripper'.held_object
  BY <1>1, AppliedAnswer DEF ReadyToApply, SoundAnswer
<1>3. \/ location' = NextLocation(answer.aim) /\ stalls' = stalls
      \/ /\ NextLocation(answer.aim) # location
         /\ location' = location /\ stalls' = stalls + 1
  BY DEF Apply, Move
<1>4. /\ step_index' = step_index + 1 /\ pc' \in {"returned", "predict"}
      /\ pc' = "returned" <=> gripper'.task_status = "success" \/ answer.done
  BY DEF Apply, Returns
<1>5. stalls' \in Nat
  BY <1>1, <1>3
<1>6. answer.phase \in {"open_gripper", "done"} => Rid(gripper')
  BY <1>2 DEF PhaseAgrees
<1>7. ASSUME pc' = "returned" PROVE gripper'.task_status \in {"success", "released"}
  BY <1>1, <1>4, <1>6, <1>7 DEF ReadyToApply, SoundAnswer, Rid
<1>8. ASSUME pc' = "predict" PROVE OnTheWay'
  <2>1. gripper'.task_status # "success"
    BY <1>4, <1>8
  <2>2. CASE answer.phase \in {"open_gripper", "done"}
    BY <1>6, <2>1, <2>2 DEF OnTheWay, Rid
  <2>3. CASE answer.phase \notin {"open_gripper", "done"}
    <3>1. gripper.task_status # "released"
      BY <1>1, <2>3
         DEF ReadyToApply, SoundAnswer, Heads, InPhase, Untouched, Waiting, HoldsFirmly,
             PhaseInv, ObjectInv
    <3>2. step_index + Remaining(location, gripper.held_object) <= 6 + stalls
      BY <1>1, <3>1 DEF OnTheWay
    <3>3. \/ answer.phase = "move_to_object" /\ location = "away" /\ answer.aim = "grasp"
             /\ ~gripper.held_object /\ ~gripper'.held_object
          \/ answer.phase = "close_gripper" /\ location = "grasp" /\ answer.aim = "stay"
             /\ ~gripper.held_object /\ gripper'.held_object
          \/ answer.phase = "lift_object" /\ location = "grasp" /\ answer.aim = "lift"
             /\ gripper.held_object /\ gripper'.held_object
          \/ answer.phase = "move_above_bin" /\ location = "lift" /\ answer.aim = "carry"
          \/ answer.phase = "move_above_bin" /\ location = "above_bin" /\ answer.aim = "drop"
      BY <1>1, <1>2, <2>3
         DEF ReadyToApply, SoundAnswer, Heads, InPhase, PhaseAgrees, Untouched, Waiting
    <3>4. Remaining(location', gripper'.held_object) + 1 + stalls
            <= Remaining(location, gripper.held_object) + stalls'
      BY <1>1, <1>3, <3>3 DEF NextLocation, Remaining
    <3>5. /\ Remaining(location, gripper.held_object) \in Nat
          /\ Remaining(location', gripper'.held_object) \in Nat
      BY <1>3, <3>3 DEF NextLocation, Remaining
    <3>6. step_index' + Remaining(location', gripper'.held_object) <= 6 + stalls'
      BY <1>1, <1>4, <1>5, <3>2, <3>4, <3>5
    <3>7. QED
      BY <2>1, <3>6 DEF OnTheWay
  <2>4. QED
    BY <2>2, <2>3
<1>9. QED
  BY <1>4, <1>5, <1>7, <1>8 DEF BudgetInv

LEMMA BudgetStep ==
  BudgetCoversStalls /\ PhaseInv /\ BudgetInv /\ [Next]_vars => BudgetInv'
<1> SUFFICES ASSUME BudgetCoversStalls, PhaseInv, BudgetInv, [Next]_vars PROVE BudgetInv'
  OBVIOUS
<1>1. CASE StartEpisode
  BY <1>1, BudgetStart
<1>2. CASE Predicts
  BY <1>2, BudgetPredicts
<1>3. CASE Apply
  BY <1>3, BudgetApply
<1>4. CASE RunOutOfSteps
  <2>1. /\ pc = "predict" /\ step_index = MaxPolicySteps /\ pc' = "returned"
        /\ UNCHANGED robot
    BY <1>4 DEF RunOutOfSteps
  <2>2. OnTheWay /\ stalls \in Nat
    BY <2>1 DEF BudgetInv
  <2>3. Remaining(location, gripper.held_object) \in 1..6
    BY RemainingBounds DEF PhaseInv, TypeInv, RemoteTypeOK
  <2>4. gripper.task_status = "released" \/ stalls > StallsAllowedFor
    BY <2>1, <2>2, <2>3, RemoteEpisodeAssumption DEF OnTheWay, BudgetCoversStalls
  <2>5. QED
    BY <2>1, <2>2, <2>4 DEF BudgetInv, robot
<1>5. ASSUME pc' = "start" \/ UNCHANGED pc, UNCHANGED <<step_index, answer, robot>>
      PROVE  BudgetInv'
  BY <1>5 DEF BudgetInv, OnTheWay, robot
<1>6. CASE Finish \/ Abandon \/ SessionEnds \/ HandleLate \/ UNCHANGED vars
  BY <1>5, <1>6 DEF Finish, Abandon, SessionEnds, HandleLate, vars, program
<1>7. QED
  BY <1>1, <1>2, <1>3, <1>4, <1>6 DEF Next, Iterate, Predicts

\* However requests fail, an episode that returns has delivered the object or
\* released it early, unless the arm stalled more often than the budget allows.
THEOREM FinishedEpisodesRelease ==
  ASSUME FallbacksInSync(Setups), BudgetCoversStalls
  PROVE  Spec => [](pc = "returned" /\ stalls <= StallsAllowedFor =>
                      gripper.task_status \in {"success", "released"})
<1>1. BudgetInv => (pc = "returned" /\ stalls <= StallsAllowedFor =>
                      gripper.task_status \in {"success", "released"})
  BY RemoteEpisodeAssumption DEF BudgetInv
<1>2. QED
  BY <1>1, PhaseInit, PhaseStep, BudgetInit, BudgetStep, PTL DEF Spec

\* An early release is forced by the time box, never by a failed request.
Unreleased == gripper.task_status # "released"

LEMMA EarlyReleaseIsForced ==
  PhaseInv /\ ~Forced /\ Unreleased /\ [Next]_vars => Unreleased'
<1> SUFFICES ASSUME PhaseInv, ~Forced, gripper.task_status # "released", [Next]_vars
             PROVE  gripper'.task_status # "released"
  BY DEF Unreleased
<1>1. CASE StartEpisode
  BY <1>1 DEF StartEpisode, ResetGripper
<1>2. CASE Apply
  <2>1. ReadyToApply
    BY <1>2 DEF Apply, PhaseInv
  <2>2. /\ Carries(gripper, gripper')
        /\ PhaseAgrees(answer.policy.phase, gripper')
        /\ answer.phase = "open_gripper" => location' = location
        /\ gripper.held_object /\ ~gripper'.held_object =>
             /\ answer.phase = "open_gripper" /\ gripper'.fingers_open
             /\ gripper'.task_status =
                  IF location' = "drop" THEN "success" ELSE "released"
    BY <1>2, AppliedAnswer
  <2>3. answer.phase = "open_gripper" => location = "drop"
    BY <2>1 DEF ReadyToApply, Heads, InPhase, Forced
  <2>4. QED
    BY <2>2, <2>3 DEF Carries, PhaseAgrees, HoldsFirmly, Rid
<1>3. UNCHANGED gripper \/ StartEpisode \/ Apply
  BY DEF Next, Iterate, Fails, Answered, Refused, RequestLost, RequestLate,
         AnswerWasted, RunOutOfSteps, Finish, Abandon, SessionEnds, HandleLate, vars, robot
<1>4. QED
  BY <1>1, <1>2, <1>3

\* The fallback keeps its promise: as long as no release is forced, a finished
\* episode has succeeded, whatever failed on the network.
THEOREM UnforcedEpisodesSucceed ==
  ASSUME FallbacksInSync(Setups), BudgetCoversStalls
  PROVE  Spec /\ []~Forced => []FinishedEpisodesSucceed
<1>1. Spec => []PhaseInv
  BY PhaseInit, PhaseStep, PTL DEF Spec
<1>2. Init => Unreleased
  BY DEF Init, ResetGripper, Unreleased
<1>3. Spec /\ []~Forced => []Unreleased
  BY <1>1, <1>2, EarlyReleaseIsForced, PTL DEF Spec
<1>4. /\ Unreleased
      /\ pc = "returned" /\ stalls <= StallsAllowedFor =>
           gripper.task_status \in {"success", "released"}
      => FinishedEpisodesSucceed
  BY DEF FinishedEpisodesSucceed, Unreleased
<1>5. QED
  BY <1>3, <1>4, FinishedEpisodesRelease, PTL
----------------------------------------------------------------------------
(* What is recorded.  The widths of the fingers tell the story of the      *)
(* object: open up to the pick, around the object up to the release, and   *)
(* open again in the last record of an episode that succeeds.              *)

Records ==
  [step_index : Nat, phase : Phases \cup {"reset"}, place : Locations, width : {0, 40, 41, 80}]

Recorders == [started : BOOLEAN, steps : Seq(Records)]
EpisodeFiles == [steps : Seq(Records), success : BOOLEAN, status : TaskStatuses]

OpenUntil(steps, n) == \A i \in 1..n : steps[i].width = 80

\* Record c is the last one before the pick.
PickedAfter(steps, c) ==
  /\ OpenUntil(steps, c)
  /\ steps[c + 1].phase = "close_gripper" /\ steps[c + 1].place = "grasp"

HoldsUntil(steps, c, n) == \A i \in (c + 1)..n : steps[i].width \in {40, 41}

ReleasedAt(steps, n) ==
  steps[n].width = 80 /\ steps[n].phase = "open_gripper" /\ steps[n].place = "drop"

Waits(steps) == Len(steps) >= 1 /\ OpenUntil(steps, Len(steps))

HasPicked(steps) ==
  \E c \in 1..(Len(steps) - 1) : PickedAfter(steps, c) /\ HoldsUntil(steps, c, Len(steps))

HasReleased(steps) ==
  \E c, o \in 1..Len(steps) :
    /\ c < o /\ o < Len(steps)
    /\ PickedAfter(steps, c) /\ HoldsUntil(steps, c, o)
    /\ steps[o + 1].phase = "open_gripper"
    /\ \A i \in (o + 1)..Len(steps) : steps[i].width = 80

Complete(steps) ==
  /\ ReleasedAt(steps, Len(steps))
  /\ \E c \in 1..(Len(steps) - 2) :
       PickedAfter(steps, c) /\ HoldsUntil(steps, c, Len(steps) - 1)

Told(e) ==
  /\ Waits(e.steps) \/ HasPicked(e.steps) \/ HasReleased(e.steps)
  /\ e.success => Complete(e.steps)

ScriptInv ==
  /\ recorder \in Recorders /\ disk \in Seq(EpisodeFiles)
  /\ pc # "start" =>
       /\ Untouched(gripper) => Waits(recorder.steps)
       /\ gripper.held_object => HasPicked(recorder.steps)
       /\ Rid(gripper) => HasReleased(recorder.steps)
       /\ Untouched(gripper) \/ gripper.held_object \/ Rid(gripper)
       /\ gripper.task_status = "success" => Complete(recorder.steps)
  /\ pc \in {"predict", "apply"} => gripper.task_status # "success"
  /\ \A i \in 1..Len(disk) : Told(disk[i])

\* t is s and one more record.
Adds(s, t, phase, place, width) ==
  /\ Len(s) \in Nat /\ Len(t) = Len(s) + 1
  /\ \A i \in 1..Len(s) : t[i] = s[i]
  /\ t[Len(t)].phase = phase /\ t[Len(t)].place = place /\ t[Len(t)].width = width

\* record_step() adds one record and leaves the others alone.
LEMMA RecordStepFields ==
  ASSUME NEW r \in Recorders, NEW phase \in Phases \cup {"reset"},
         NEW place \in Locations, NEW width \in {0, 40, 41, 80},
         NEW q, q = RecordStep(r, phase, place, width)
  PROVE  q \in Recorders /\ Adds(r.steps, q.steps, phase, place, width)
<1> DEFINE e == [step_index |-> Len(r.steps), phase |-> phase, place |-> place,
                 width |-> width]
           t == Append(r.steps, e)
<1>1. r.steps \in Seq(Records) /\ Len(r.steps) \in Nat
  BY LenProperties DEF Recorders
<1>2. e \in Records
  BY <1>1 DEF Records
<1>3. e.phase = phase /\ e.place = place /\ e.width = width
  OBVIOUS
<1> HIDE DEF e
<1>4. /\ t \in Seq(Records) /\ Len(t) = Len(r.steps) + 1 /\ t[Len(r.steps) + 1] = e
      /\ \A i \in 1..Len(r.steps) : t[i] = r.steps[i]
  BY <1>1, <1>2, AppendProperties
<1>5. q = [r EXCEPT !.steps = t]
  BY DEF RecordStep, e, Recorders
<1> HIDE DEF t
<1>6. q \in Recorders /\ q.steps = t
  BY <1>4, <1>5 DEF Recorders
<1>7. QED
  BY <1>1, <1>3, <1>4, <1>6 DEF Adds

\* How one more record continues the story.
LEMMA StoryGoesOn ==
  ASSUME NEW s, NEW t, NEW phase, NEW place, NEW width,
         Adds(s, t, phase, place, width)
  PROVE  /\ Waits(s) /\ width = 80 => Waits(t)
         /\ Waits(s) /\ width \in {40, 41} /\ phase = "close_gripper" /\ place = "grasp"
              => HasPicked(t)
         /\ HasPicked(s) /\ width \in {40, 41} => HasPicked(t)
         /\ HasPicked(s) /\ width = 80 /\ phase = "open_gripper" /\ place = "drop"
              => Complete(t)
         /\ HasPicked(s) /\ width = 80 /\ phase = "open_gripper" => HasReleased(t)
         /\ HasReleased(s) /\ width = 80 => HasReleased(t)
<1> DEFINE n == Len(s)
<1>1. /\ n \in Nat /\ Len(t) = n + 1 /\ \A i \in 1..n : t[i] = s[i]
      /\ t[n + 1].phase = phase /\ t[n + 1].place = place /\ t[n + 1].width = width
  BY DEF Adds
<1> HIDE DEF n
<1>2. ASSUME Waits(s), width = 80 PROVE Waits(t)
  BY <1>1, <1>2 DEF Waits, OpenUntil, n
<1>3. ASSUME Waits(s), width \in {40, 41},
             phase = "close_gripper", place = "grasp"
      PROVE  HasPicked(t)
  <2>1. n \in 1..(Len(t) - 1) /\ PickedAfter(t, n)
    BY <1>1, <1>3 DEF Waits, OpenUntil, PickedAfter, n
  <2>2. HoldsUntil(t, n, Len(t))
    BY <1>1, <1>3 DEF HoldsUntil
  <2>3. QED
    BY <2>1, <2>2 DEF HasPicked
<1>4. ASSUME NEW c \in 1..(n - 1), PickedAfter(s, c), HoldsUntil(s, c, n)
      PROVE  PickedAfter(t, c) /\ HoldsUntil(t, c, n)
  BY <1>1, <1>4 DEF PickedAfter, OpenUntil, HoldsUntil
<1>5. ASSUME HasPicked(s), width \in {40, 41} PROVE HasPicked(t)
  <2>1. PICK c \in 1..(n - 1) : PickedAfter(s, c) /\ HoldsUntil(s, c, n)
    BY <1>5 DEF HasPicked, n
  <2>2. PickedAfter(t, c) /\ HoldsUntil(t, c, n)
    BY <1>4, <2>1
  <2>3. c \in 1..(Len(t) - 1) /\ HoldsUntil(t, c, Len(t))
    BY <1>1, <1>5, <2>2 DEF HoldsUntil
  <2>4. QED
    BY <2>2, <2>3 DEF HasPicked
<1>6. ASSUME HasPicked(s), width = 80, phase = "open_gripper", place = "drop"
      PROVE  Complete(t)
  <2>1. PICK c \in 1..(n - 1) : PickedAfter(s, c) /\ HoldsUntil(s, c, n)
    BY <1>6 DEF HasPicked, n
  <2>2. PickedAfter(t, c) /\ HoldsUntil(t, c, n)
    BY <1>4, <2>1
  <2>3. Len(t) - 1 = n /\ Len(t) - 2 = n - 1 /\ ReleasedAt(t, Len(t))
    BY <1>1, <1>6 DEF ReleasedAt
  <2>4. QED
    BY <2>2, <2>3 DEF Complete
<1>7. ASSUME HasPicked(s), width = 80, phase = "open_gripper"
      PROVE  HasReleased(t)
  <2>1. PICK c \in 1..(n - 1) : PickedAfter(s, c) /\ HoldsUntil(s, c, n)
    BY <1>7 DEF HasPicked, n
  <2>2. PickedAfter(t, c) /\ HoldsUntil(t, c, n)
    BY <1>4, <2>1
  <2>3. /\ c \in 1..Len(t) /\ n \in 1..Len(t) /\ c < n /\ n < Len(t)
        /\ t[n + 1].phase = "open_gripper"
        /\ \A i \in (n + 1)..Len(t) : t[i].width = 80
    BY <1>1, <1>7
  <2>4. QED
    BY <2>2, <2>3 DEF HasReleased
<1>8. ASSUME HasReleased(s), width = 80 PROVE HasReleased(t)
  <2>1. PICK c, o \in 1..n :
          /\ c < o /\ o < n
          /\ PickedAfter(s, c) /\ HoldsUntil(s, c, o)
          /\ s[o + 1].phase = "open_gripper"
          /\ \A i \in (o + 1)..n : s[i].width = 80
    BY <1>8 DEF HasReleased, n
  <2>2. PickedAfter(t, c) /\ HoldsUntil(t, c, o)
    BY <1>1, <2>1 DEF PickedAfter, OpenUntil, HoldsUntil
  <2>3. /\ c \in 1..Len(t) /\ o \in 1..Len(t) /\ o < Len(t)
        /\ t[o + 1].phase = "open_gripper"
        /\ \A i \in (o + 1)..Len(t) : t[i].width = 80
    BY <1>1, <1>8, <2>1
  <2>4. QED
    BY <2>1, <2>2, <2>3 DEF HasReleased
<1>9. QED
  BY <1>2, <1>3, <1>5, <1>6, <1>7, <1>8

\* An open command leaves the fingers open.
LEMMA OpenOpens ==
  ASSUME NEW g \in GripperRecords, NEW near, NEW over_bin
  PROVE  ApplyGripper(g, "open", near, over_bin).fingers_open
<1>1. CASE g.fingers_open
  BY <1>1 DEF ApplyGripper, Actuates
<1>2. CASE ~g.fingers_open
  <2>1. ApplyGripper(g, "open", near, over_bin) = OpenGripper(g, over_bin)
    BY <1>2 DEF ApplyGripper, Actuates
  <2>2. QED
    BY <2>1 DEF OpenGripper, GripperRecords
<1>3. QED
  BY <1>1, <1>2

\* What one action does to the gripper, and where it does it.
LEMMA GripperGoes ==
  ASSUME PhaseInv, Apply
  PROVE  \/ Untouched(gripper) /\ Untouched(gripper')
         \/ /\ Untouched(gripper) /\ gripper'.held_object /\ ~gripper'.fingers_open
            /\ answer.phase = "close_gripper" /\ location' = "grasp"
         \/ gripper.held_object /\ gripper'.held_object /\ ~gripper'.fingers_open
         \/ /\ gripper.held_object /\ ~gripper'.held_object
            /\ answer.phase = "open_gripper" /\ gripper'.fingers_open
            /\ gripper'.task_status = IF location' = "drop" THEN "success" ELSE "released"
         \/ /\ Rid(gripper) /\ Rid(gripper') /\ gripper'.fingers_open
            /\ gripper'.task_status = gripper.task_status
<1>1. /\ PhaseAgrees(answer.policy.phase, gripper') /\ Carries(gripper, gripper')
      /\ location' \in {location, NextLocation(answer.aim)}
      /\ answer.phase = "close_gripper" => gripper'.held_object
      /\ gripper.held_object /\ ~gripper'.held_object =>
           /\ answer.phase = "open_gripper" /\ gripper'.fingers_open
           /\ gripper'.task_status = IF location' = "drop" THEN "success" ELSE "released"
  BY AppliedAnswer
<1>2. /\ SoundAnswer(answer, gripper) /\ Heads(answer, location)
      /\ answer.phase = "close_gripper" => Untouched(gripper)
      /\ answer.phase = answer.policy.phase
  BY DEF Apply, PhaseInv, ReadyToApply, SoundAnswer
<1>3. HoldsFirmly(gripper')
  BY <1>1 DEF PhaseAgrees
<1>4. CASE answer.phase \in {"move_to_object", "stabilize"}
  BY <1>1, <1>2, <1>4 DEF SoundAnswer, PhaseAgrees
<1>5. CASE answer.phase = "close_gripper"
  <2>1. location = "grasp" /\ answer.aim = "stay"
    BY <1>2, <1>5 DEF Heads, InPhase
  <2>2. location' = "grasp"
    BY <1>1, <2>1 DEF NextLocation
  <2>3. QED
    BY <1>1, <1>2, <1>3, <1>5, <2>2 DEF HoldsFirmly
<1>6. CASE answer.phase \in {"lift_object", "move_above_bin"}
  BY <1>1, <1>2, <1>3, <1>6 DEF SoundAnswer, PhaseAgrees, HoldsFirmly
<1>7. CASE answer.phase = "open_gripper"
  BY <1>1, <1>2, <1>7 DEF SoundAnswer, PhaseAgrees, Rid
<1>8. CASE answer.phase = "done"
  <2>1. answer.gripper = "open" /\ gripper \in GripperRecords
    BY <1>2, <1>8 DEF SoundAnswer, PhaseInv, ObjectInv, HoldsFirmly
  <2>2. gripper'.fingers_open
    BY <2>1, OpenOpens DEF Apply
  <2>3. QED
    BY <1>1, <1>2, <1>8, <2>2 DEF SoundAnswer, PhaseAgrees, Carries, Rid, Waiting
<1>9. QED
  BY <1>2, <1>4, <1>5, <1>6, <1>7, <1>8 DEF SoundAnswer

LEMMA ScriptInit == Init => ScriptInv
<1> SUFFICES ASSUME Init PROVE ScriptInv
  OBVIOUS
<1>1. recorder \in Recorders /\ disk \in Seq(EpisodeFiles) /\ Len(disk) = 0
  BY EmptySeq DEF Init, IdleRecorder, Recorders
<1>2. QED
  BY <1>1 DEF Init, ScriptInv

LEMMA ScriptStart ==
  ASSUME ScriptInv, StartEpisode
  PROVE  ScriptInv'
<1>1. /\ pc' = "predict" /\ gripper' = ResetGripper /\ UNCHANGED disk
      /\ recorder' = RecordStep(NewRecorder, "reset", "away", 80)
  BY DEF StartEpisode
<1>2. NewRecorder \in Recorders /\ Len(NewRecorder.steps) = 0
  BY EmptySeq DEF NewRecorder, Recorders
<1>3. "reset" \in Phases \cup {"reset"} /\ "away" \in Locations /\ 80 \in {0, 40, 41, 80}
  BY DEF Locations
<1>4. /\ recorder' \in Recorders /\ Len(recorder'.steps) = 1
      /\ recorder'.steps[1].width = 80
  <2>1. \A r \in Recorders, phase \in Phases \cup {"reset"}, place \in Locations,
           width \in {0, 40, 41, 80} :
          recorder' = RecordStep(r, phase, place, width) =>
            recorder' \in Recorders /\ Adds(r.steps, recorder'.steps, phase, place, width)
    BY RecordStepFields
  <2>2. recorder' \in Recorders /\ Adds(NewRecorder.steps, recorder'.steps, "reset", "away", 80)
    BY <1>1, <1>2, <1>3, <2>1
  <2>3. QED
    BY <1>2, <2>2 DEF Adds
<1>5. Waits(recorder'.steps)
  BY <1>4 DEF Waits, OpenUntil
<1>6. Untouched(gripper') /\ ~Rid(gripper') /\ ~gripper'.held_object
      /\ gripper'.task_status = "running"
  BY <1>1 DEF ResetGripper, Untouched, Rid
<1>7. QED
  BY <1>1, <1>4, <1>5, <1>6 DEF ScriptInv

LEMMA ScriptApply ==
  ASSUME PhaseInv, ScriptInv, Apply
  PROVE  ScriptInv'
<1> DEFINE width == Width(gripper'.fingers_open, gripper'.held_object)
           s == recorder.steps
           t == recorder'.steps
<1>1. /\ recorder \in Recorders /\ gripper.task_status # "success"
      /\ Untouched(gripper) => Waits(s)
      /\ gripper.held_object => HasPicked(s)
      /\ Rid(gripper) => HasReleased(s)
  BY DEF Apply, ScriptInv
<1>2. /\ step_index \in Nat /\ answer.phase \in Phases \cup {"reset"}
      /\ location' \in Locations /\ HoldsFirmly(gripper')
  <2>1. TypeInv'
    BY TypeApply DEF PhaseInv
  <2>2. PhaseAgrees(answer.policy.phase, gripper')
    BY AppliedAnswer
  <2>3. QED
    BY <2>1, <2>2, RemoteEpisodeAssumption
       DEF PhaseInv, TypeInv, RemoteTypeOK, ClientInv, PhaseAgrees
<1>3. /\ width \in {0, 40, 41, 80}
      /\ gripper'.fingers_open => width = 80
      /\ ~gripper'.fingers_open /\ gripper'.held_object => width \in {40, 41}
  BY <1>2 DEF Width
<1>4. /\ pc' \in {"predict", "returned"} /\ UNCHANGED disk
      /\ gripper'.task_status = "success" => pc' = "returned"
      /\ recorder' = RecordStep(recorder, answer.phase, location', width)
  BY DEF Apply, Returns
<1> HIDE DEF width
<1>5. recorder' \in Recorders /\ Adds(s, t, answer.phase, location', width)
  BY <1>1, <1>2, <1>3, <1>4, RecordStepFields
<1> HIDE DEF s, t
<1>6. /\ Waits(s) /\ width = 80 => Waits(t)
      /\ Waits(s) /\ width \in {40, 41}
           /\ answer.phase = "close_gripper" /\ location' = "grasp" => HasPicked(t)
      /\ HasPicked(s) /\ width \in {40, 41} => HasPicked(t)
      /\ HasPicked(s) /\ width = 80
           /\ answer.phase = "open_gripper" /\ location' = "drop" => Complete(t)
      /\ HasPicked(s) /\ width = 80 /\ answer.phase = "open_gripper" => HasReleased(t)
      /\ HasReleased(s) /\ width = 80 => HasReleased(t)
  BY <1>5, StoryGoesOn
<1>7. /\ Untouched(gripper') => Waits(t)
      /\ gripper'.held_object => HasPicked(t)
      /\ Rid(gripper') => HasReleased(t)
      /\ Untouched(gripper') \/ gripper'.held_object \/ Rid(gripper')
      /\ gripper'.task_status = "success" => Complete(t)
  BY <1>1, <1>2, <1>3, <1>6, GripperGoes DEF Untouched, Rid, HoldsFirmly
<1>8. QED
  BY <1>4, <1>5, <1>7 DEF ScriptInv, t

LEMMA ScriptFinish ==
  ASSUME PhaseInv, ScriptInv, Finish
  PROVE  ScriptInv'
<1> DEFINE e == EpisodeRecord(recorder, gripper.task_status)
<1>1. /\ pc = "returned" /\ pc' = "start"
      /\ disk' = Append(disk, e) /\ recorder' = IdleRecorder
  BY DEF Finish
<1>2. gripper.task_status \in TaskStatuses
  BY DEF PhaseInv, ObjectInv, HoldsFirmly, GripperRecords
<1>3. e \in EpisodeFiles /\ Told(e)
  BY <1>1, <1>2 DEF ScriptInv, Told, EpisodeRecord, EpisodeFiles, Recorders
<1> HIDE DEF e
<1>4. /\ disk' \in Seq(EpisodeFiles) /\ Len(disk) \in Nat /\ Len(disk') = Len(disk) + 1
      /\ disk'[Len(disk) + 1] = e
      /\ \A i \in 1..Len(disk) : disk'[i] = disk[i]
  BY <1>1, <1>3, AppendProperties, LenProperties DEF ScriptInv
<1>5. \A i \in 1..Len(disk') : Told(disk'[i])
  BY <1>3, <1>4 DEF ScriptInv
<1>6. IdleRecorder \in Recorders
  BY EmptySeq DEF IdleRecorder, Recorders
<1>7. QED
  BY <1>1, <1>4, <1>5, <1>6 DEF ScriptInv

LEMMA ScriptStep == PhaseInv /\ ScriptInv /\ [Next]_vars => ScriptInv'
<1> SUFFICES ASSUME PhaseInv, ScriptInv, [Next]_vars PROVE ScriptInv'
  OBVIOUS
<1>1. CASE StartEpisode
  BY <1>1, ScriptStart
<1>2. CASE Apply
  BY <1>2, ScriptApply
<1>3. CASE Finish
  BY <1>3, ScriptFinish
<1>4. CASE Abandon
  <2>1. IdleRecorder \in Recorders
    BY EmptySeq DEF IdleRecorder, Recorders
  <2>2. QED
    BY <1>4, <2>1 DEF Abandon, ScriptInv
<1>5. CASE RunOutOfSteps
  BY <1>5 DEF RunOutOfSteps, ScriptInv, robot, data
<1>6. CASE Predicts
  <2>1. pc = "predict" /\ pc' \in {"raised", "apply"} /\ UNCHANGED <<robot, data>>
    BY <1>6 DEF Predicts, Fails, Answered, Refused, RequestLost, RequestLate,
                AnswerWasted, Predicting, Failed, Use
  <2>2. QED
    BY <2>1 DEF ScriptInv, robot, data
<1>7. CASE SessionEnds \/ HandleLate \/ UNCHANGED vars
  BY <1>7 DEF SessionEnds, HandleLate, vars, ScriptInv, robot, data
<1>8. QED
  BY <1>1, <1>2, <1>3, <1>4, <1>5, <1>6, <1>7 DEF Next, Iterate, Predicts

\* The exporter reads the pick and the release, and nothing else, from the
\* widths of a record: open, then around the object, then open.
LEMMA WidthsReplay ==
  ASSUME NEW e \in EpisodeFiles, NEW c \in 1..Len(e.steps), NEW o \in c..Len(e.steps),
         c = o => o = Len(e.steps),
         OpenUntil(e.steps, c), HoldsUntil(e.steps, c, o),
         \A i \in (o + 1)..Len(e.steps) : e.steps[i].width = 80
  PROVE  GripperScript(Samples(e), c, o)
<1> DEFINE s == e.steps
           n == Len(s)
<1>1. n \in Nat
  BY LenProperties DEF EpisodeFiles
<1>2. DOMAIN Samples(e) = 1..(n - 1)
  BY DEF Samples
<1>3. \A j \in 1..(n - 1) : Samples(e)[j].gripper_action = GripperAction(s[j].width, s[j + 1].width)
  BY DEF Samples
<1>4. /\ \A j \in 1..c : s[j].width = 80
      /\ \A j \in (c + 1)..o : s[j].width \in {40, 41}
      /\ \A j \in (o + 1)..n : s[j].width = 80
      /\ c \in 1..n /\ o \in c..n /\ (c = o => o = n)
  BY DEF OpenUntil, HoldsUntil
<1> HIDE DEF s, n
<1>5. ASSUME NEW j \in 1..(n - 1)
      PROVE  GripperAction(s[j].width, s[j + 1].width) =
               CASE j = c -> "close" [] j = o -> "open" [] OTHER -> "hold"
  <2>1. CASE j < c
    <3>1. s[j].width = 80 /\ s[j + 1].width = 80 /\ j # o
      BY <1>1, <1>4, <2>1
    <3>2. QED
      BY <1>1, <2>1, <3>1 DEF GripperAction, GripperActionThreshold
  <2>2. CASE j = c
    <3>1. s[j].width = 80 /\ s[j + 1].width \in {40, 41} /\ j # o
      BY <1>1, <1>4, <2>2
    <3>2. QED
      BY <1>1, <2>2, <3>1 DEF GripperAction, GripperActionThreshold
  <2>3. CASE c < j /\ j < o
    <3>1. s[j].width \in {40, 41} /\ s[j + 1].width \in {40, 41}
      BY <1>1, <1>4, <2>3
    <3>2. QED
      BY <1>1, <2>3, <3>1 DEF GripperAction, GripperActionThreshold
  <2>4. CASE c < j /\ j = o
    <3>1. s[j].width \in {40, 41} /\ s[j + 1].width = 80
      BY <1>1, <1>4, <2>4
    <3>2. QED
      BY <1>1, <2>4, <3>1 DEF GripperAction, GripperActionThreshold
  <2>5. CASE o < j
    <3>1. s[j].width = 80 /\ s[j + 1].width = 80 /\ j # c
      BY <1>1, <1>4, <2>5
    <3>2. QED
      BY <1>1, <2>5, <3>1 DEF GripperAction, GripperActionThreshold
  <2>6. QED
    BY <1>1, <1>4, <2>1, <2>2, <2>3, <2>4, <2>5
<1>6. QED
  BY <1>2, <1>3, <1>5 DEF GripperScript

\* Whatever failed on the network, and whoever answered: an episode the
\* exporter takes for a dataset, with failed ones or without, replays as at
\* most one pick and then at most one release, and a successful one as both.
THEOREM ExportsReplay ==
  ASSUME FallbacksInSync(Setups)
  PROVE  Spec => []ExportedEpisodesReplay
<1> DEFINE Replays(e, close, open) ==
      /\ GripperScript(Samples(e), close, open)
      /\ close # Len(e.steps) =>
           e.steps[close + 1].phase = "close_gripper" /\ e.steps[close + 1].place = "grasp"
      /\ open # Len(e.steps) => close < open /\ e.steps[open + 1].phase = "open_gripper"
      /\ e.success => open # Len(e.steps) /\ e.steps[open + 1].place = "drop"
<1>1. ASSUME NEW e \in EpisodeFiles, Told(e)
      PROVE  \E close, open \in 1..Len(e.steps) : Replays(e, close, open)
  <2> DEFINE n == Len(e.steps)
  <2>0. n \in Nat
    BY LenProperties DEF EpisodeFiles
  <2>1. CASE e.success
    <3>1. PICK c \in 1..(n - 2) : PickedAfter(e.steps, c) /\ HoldsUntil(e.steps, c, n - 1)
      BY <1>1, <2>1 DEF Told, Complete
    <3>2. e.steps[n].width = 80 /\ e.steps[n].phase = "open_gripper" /\ e.steps[n].place = "drop"
      BY <1>1, <2>1 DEF Told, Complete, ReleasedAt
    <3>3. /\ c \in 1..n /\ n - 1 \in 1..n /\ n - 1 \in c..n /\ c < n - 1 /\ n - 1 # n
          /\ (n - 1) + 1 = n
      BY <2>0, <3>1
    <3>4. OpenUntil(e.steps, c) /\ \A i \in ((n - 1) + 1)..n : e.steps[i].width = 80
      BY <2>0, <3>1, <3>2 DEF PickedAfter
    <3>5. GripperScript(Samples(e), c, n - 1)
      BY <3>1, <3>3, <3>4, WidthsReplay
    <3>6. Replays(e, c, n - 1)
      BY <3>1, <3>2, <3>3, <3>5 DEF PickedAfter
    <3>7. QED
      BY <3>3, <3>6
  <2>2. CASE ~e.success /\ Waits(e.steps)
    <3>1. n \in 1..n /\ n \in n..n /\ OpenUntil(e.steps, n) /\ HoldsUntil(e.steps, n, n)
      BY <2>0, <2>2 DEF Waits, HoldsUntil
    <3>2. GripperScript(Samples(e), n, n)
      BY <2>0, <3>1, WidthsReplay
    <3>3. Replays(e, n, n)
      BY <2>2, <3>2
    <3>4. QED
      BY <3>1, <3>3
  <2>3. CASE ~e.success /\ HasPicked(e.steps)
    <3>1. PICK c \in 1..(n - 1) : PickedAfter(e.steps, c) /\ HoldsUntil(e.steps, c, n)
      BY <2>3 DEF HasPicked
    <3>2. c \in 1..n /\ n \in 1..n /\ n \in c..n /\ OpenUntil(e.steps, c)
      BY <2>0, <3>1 DEF PickedAfter
    <3>3. GripperScript(Samples(e), c, n)
      BY <2>0, <3>1, <3>2, WidthsReplay
    <3>4. Replays(e, c, n)
      BY <2>3, <3>1, <3>3 DEF PickedAfter
    <3>5. QED
      BY <3>2, <3>4
  <2>4. CASE ~e.success /\ HasReleased(e.steps)
    <3>1. PICK c, o \in 1..n :
            /\ c < o /\ o < n
            /\ PickedAfter(e.steps, c) /\ HoldsUntil(e.steps, c, o)
            /\ e.steps[o + 1].phase = "open_gripper"
            /\ \A i \in (o + 1)..n : e.steps[i].width = 80
      BY <2>4 DEF HasReleased
    <3>2. o \in c..n /\ c # o /\ OpenUntil(e.steps, c)
      BY <2>0, <3>1 DEF PickedAfter
    <3>3. GripperScript(Samples(e), c, o)
      BY <3>1, <3>2, WidthsReplay
    <3>4. Replays(e, c, o)
      BY <2>4, <3>1, <3>3 DEF PickedAfter
    <3>5. QED
      BY <3>1, <3>4
  <2>5. QED
    BY <1>1, <2>1, <2>2, <2>3, <2>4 DEF Told
<1>2. ScriptInv => ExportedEpisodesReplay
  <2> SUFFICES ASSUME ScriptInv, NEW include_failed \in BOOLEAN,
                      NEW i \in Exported(disk, include_failed, MaxEpisodes)
               PROVE  \E close, open \in 1..Len(disk[i].steps) : Replays(disk[i], close, open)
    BY DEF ExportedEpisodesReplay
  <2>1. i \in 1..Len(disk) /\ disk[i] \in EpisodeFiles /\ Told(disk[i])
    BY LenProperties, ElementOfSeq DEF ScriptInv, Exported
  <2>2. QED
    BY <1>1, <2>1
<1>3. QED
  BY <1>2, PhaseInit, PhaseStep, ScriptInit, ScriptStep, PTL DEF Spec
=============================================================================
