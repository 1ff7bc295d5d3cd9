---------------------------- MODULE OperatorLemmas ----------------------------
(***************************************************************************)
(* Facts about the operators the components of the cell are built from:    *)
(* the supervisor, and one call of the policy followed by the gripper half *)
(* of apply_command(), whatever the geometry and the physics between them. *)
(* HandSafetyProofs, ControlLoopProofs, PickPlaceProofs and                *)
(* RemoteEpisodeProofs rest on them.                                       *)
(***************************************************************************)
EXTENDS SafetySupervisor, DummyPolicy, PandaGripper, TLAPS

----------------------------------------------------------------------------
(* The supervisor, for every value of ResumeStableSteps.                   *)

\* The effective number of clear checks is positive and never below the
\* configured one, which is what the comparison in step() needs.
LEMMA ClearChecksPositive ==
  /\ ClearChecksToResume \in Nat
  /\ ClearChecksToResume >= 1
  /\ \A n \in Nat : n + 1 >= ResumeStableSteps <=> n + 1 >= ClearChecksToResume
BY ResumeStableStepsAssumption, SMT DEF ClearChecksToResume

\* A detected hand: what AfterHand leaves in each field.
LEMMA AfterHandFields ==
  ASSUME NEW s \in SupervisorRecords
  PROVE  LET t == AfterHand(s)
             fresh == IF IsRunning(s) THEN 1 ELSE 0
         IN /\ t \in SupervisorRecords
            /\ ~IsRunning(t) /\ t.safety_state = "paused_by_safety"
            /\ t.stable_clear_steps = 0
            /\ t.pause_count = s.pause_count + fresh
            /\ t.hand_intrusion_events = s.hand_intrusion_events + fresh
            /\ t.resume_count = s.resume_count
            /\ t.paused_steps = s.paused_steps + 1
<1> DEFINE fresh == IF IsRunning(s) THEN 1 ELSE 0
           t == [s EXCEPT !.stable_clear_steps = 0,
                          !.pause_count = @ + fresh,
                          !.hand_intrusion_events = @ + fresh,
                          !.safety_state = "paused_by_safety",
                          !.paused_steps = @ + 1]
<1>1. AfterHand(s) = t
  BY DEF AfterHand
<1>2. fresh \in Nat
  OBVIOUS
<1> HIDE DEF fresh
<1>3. 0 \in 0..(ClearChecksToResume - 1)
  BY ClearChecksPositive
<1>4. /\ s.pause_count + fresh \in Nat
      /\ s.hand_intrusion_events + fresh \in Nat
      /\ s.paused_steps + 1 \in Nat
  BY <1>2 DEF SupervisorRecords
<1>5. t \in SupervisorRecords
  BY <1>3, <1>4 DEF SupervisorRecords, SafetyStates
<1>6. /\ ~IsRunning(t) /\ t.safety_state = "paused_by_safety"
      /\ t.stable_clear_steps = 0
      /\ t.pause_count = s.pause_count + fresh
      /\ t.hand_intrusion_events = s.hand_intrusion_events + fresh
      /\ t.resume_count = s.resume_count
      /\ t.paused_steps = s.paused_steps + 1
  BY DEF SupervisorRecords, IsRunning
<1>7. QED
  BY <1>1, <1>5, <1>6 DEF fresh

\* A clear check while not running: it ends the pause exactly when the count
\* reaches ClearChecksToResume, and only then resets it.
LEMMA AfterClearFields ==
  ASSUME NEW s \in SupervisorRecords, ~IsRunning(s)
  PROVE  LET t == AfterClear(s)
             ends == s.stable_clear_steps + 1 = ClearChecksToResume
         IN /\ t \in SupervisorRecords
            /\ IsRunning(t) <=> ends
            /\ t.safety_state # "paused_by_safety"
            /\ t.stable_clear_steps = (IF ends THEN 0 ELSE s.stable_clear_steps + 1)
            /\ t.resume_count = s.resume_count + (IF ends THEN 1 ELSE 0)
            /\ t.pause_count = s.pause_count
            /\ t.hand_intrusion_events = s.hand_intrusion_events
            /\ t.paused_steps = s.paused_steps + 1
<1>1. s.stable_clear_steps \in 0..(ClearChecksToResume - 1)
  BY DEF SupervisorRecords
<1>2. s.stable_clear_steps + 1 >= ResumeStableSteps <=>
        s.stable_clear_steps + 1 = ClearChecksToResume
  BY <1>1, ClearChecksPositive, SMT
<1>3. s.paused_steps + 1 \in Nat /\ s.resume_count + 1 \in Nat
      /\ s.resume_count + 0 = s.resume_count
  BY DEF SupervisorRecords
<1>4. CASE s.stable_clear_steps + 1 = ClearChecksToResume
  <2> DEFINE t == [s EXCEPT !.stable_clear_steps = 0, !.paused_steps = @ + 1,
                            !.safety_state = "running", !.resume_count = @ + 1]
  <2>1. AfterClear(s) = t
    BY <1>2, <1>4 DEF AfterClear
  <2>2. 0 \in 0..(ClearChecksToResume - 1)
    BY ClearChecksPositive
  <2>3. t \in SupervisorRecords
    BY <1>3, <2>2 DEF SupervisorRecords, SafetyStates
  <2>4. /\ IsRunning(t) /\ t.safety_state # "paused_by_safety"
        /\ t.stable_clear_steps = 0
        /\ t.resume_count = s.resume_count + 1
        /\ t.pause_count = s.pause_count
        /\ t.hand_intrusion_events = s.hand_intrusion_events
        /\ t.paused_steps = s.paused_steps + 1
    BY DEF SupervisorRecords, IsRunning
  <2>5. QED
    BY <1>4, <2>1, <2>3, <2>4
<1>5. CASE s.stable_clear_steps + 1 # ClearChecksToResume
  <2> DEFINE t == [s EXCEPT !.stable_clear_steps = @ + 1, !.paused_steps = @ + 1,
                            !.safety_state = "resuming"]
  <2>1. AfterClear(s) = t
    BY <1>2, <1>5 DEF AfterClear
  <2>2. s.stable_clear_steps + 1 \in 0..(ClearChecksToResume - 1)
    BY <1>1, <1>5, ClearChecksPositive
  <2>3. t \in SupervisorRecords
    BY <1>3, <2>2 DEF SupervisorRecords, SafetyStates
  <2>4. /\ ~IsRunning(t) /\ t.safety_state # "paused_by_safety"
        /\ t.stable_clear_steps = s.stable_clear_steps + 1
        /\ t.resume_count = s.resume_count
        /\ t.pause_count = s.pause_count
        /\ t.hand_intrusion_events = s.hand_intrusion_events
        /\ t.paused_steps = s.paused_steps + 1
    BY DEF SupervisorRecords, IsRunning
  <2>5. QED
    BY <1>3, <1>5, <2>1, <2>3, <2>4
<1>6. QED
  BY <1>4, <1>5

\* The three cases of step(): a hand, a clear check that pays for a pause,
\* and a clear check of a running loop.
LEMMA StepCases ==
  ASSUME NEW s, NEW hand \in BOOLEAN
  PROVE  \/ /\ hand
            /\ SupervisorStep(s, hand) = AfterHand(s)
            /\ StepEvent(s, hand) \in {"safety_pause", "safety_still_paused"}
         \/ /\ ~hand /\ ~IsRunning(s)
            /\ SupervisorStep(s, hand) = AfterClear(s)
            /\ StepEvent(s, hand) \in {"safety_resume", "safety_still_paused"}
         \/ /\ ~hand /\ IsRunning(s)
            /\ SupervisorStep(s, hand) = s
            /\ StepEvent(s, hand) = "none"
<1>1. CASE hand
  BY <1>1 DEF SupervisorStep, StepEvent
<1>2. CASE ~hand /\ ~IsRunning(s)
  <2>1. SupervisorStep(s, hand) = AfterClear(s)
    BY <1>2 DEF SupervisorStep
  <2>2. StepEvent(s, hand) \in {"safety_resume", "safety_still_paused"}
    BY <1>2 DEF StepEvent
  <2>3. QED
    BY <1>2, <2>1, <2>2
<1>3. CASE ~hand /\ IsRunning(s)
  BY <1>3 DEF SupervisorStep, StepEvent
<1>4. QED
  BY <1>1, <1>2, <1>3
----------------------------------------------------------------------------
(* The policy and the gripper.                                             *)

CountWithin(p) ==
  /\ p.move_above_bin_steps <= MaxMoveAboveBinSteps
  /\ p.phase = "move_above_bin" => p.move_above_bin_steps < MaxMoveAboveBinSteps

\* A held object keeps the fingers shut, and the status names the grasp.
HoldsFirmly(g) ==
  /\ g \in GripperRecords
  /\ g.held_object => ~g.fingers_open /\ g.task_status = "grasped"

Untouched(g) == g.fingers_open /\ ~g.held_object /\ g.task_status = "running"
Waiting(g) == ~g.held_object /\ g.task_status = "running"
Rid(g) == ~g.held_object /\ g.task_status \in {"success", "released"}

\* What the policy's phase says about the gripper.  The phases before the
\* grasp say that nothing happened yet, those after it that it cannot be
\* repeated; only "close_gripper" leaves the grasp open.
PhaseAgrees(phase, g) ==
  /\ HoldsFirmly(g)
  /\ phase \in {"move_to_object", "stabilize"} => Untouched(g)
  /\ phase = "close_gripper" => g.held_object \/ Waiting(g)
  /\ phase \in {"lift_object", "move_above_bin"} => g.held_object
  /\ phase \in {"open_gripper", "done"} => Rid(g)

Agree(p, g) == p \in PolicyRecords /\ CountWithin(p) /\ PhaseAgrees(p.phase, g)

\* What an answer may be, given the gripper before it is applied.
SoundAnswer(a, g) ==
  /\ a.policy \in PolicyRecords
  /\ a.phase = a.policy.phase /\ a.done = (a.policy.phase = "done")
  /\ \/ a.policy.phase \in {"move_to_object", "stabilize"} /\ a.gripper = "open" /\ Untouched(g)
     \/ a.policy.phase = "close_gripper" /\ a.gripper = "close" /\ Waiting(g)
     \/ a.policy.phase \in {"lift_object", "move_above_bin"} /\ a.gripper = "close"
          /\ g.held_object
     \/ a.policy.phase = "open_gripper" /\ a.gripper = "open" /\ g.held_object
     \/ a.policy.phase = "done" /\ a.gripper = "open" /\ Rid(g)

Sound(a, g) == SoundAnswer(a, g) /\ CountWithin(a.policy)

Reports(o, g) == o.held = g.held_object /\ o.status = g.task_status
----------------------------------------------------------------------------
(* One lemma per phase operator, from the last of the chain to the first.  *)

\* Setting a field of the policy's record.
LEMMA PolicyFields ==
  ASSUME NEW p \in PolicyRecords
  PROVE  /\ \A ph \in Phases :
              LET q == [p EXCEPT !.phase = ph]
              IN /\ q \in PolicyRecords /\ q.phase = ph
                 /\ q.move_above_bin_steps = p.move_above_bin_steps
         /\ \A n \in Nat :
              LET q == [p EXCEPT !.move_above_bin_steps = n]
              IN q \in PolicyRecords /\ q.phase = p.phase /\ q.move_above_bin_steps = n
         /\ \A n \in Nat :
              LET q == [p EXCEPT !.stabilization_counter = n]
              IN /\ q \in PolicyRecords /\ q.phase = p.phase
                 /\ q.move_above_bin_steps = p.move_above_bin_steps
         /\ p.phase \in Phases /\ p.move_above_bin_steps \in Nat
         /\ p.stabilization_counter \in Nat
BY DEF PolicyRecords

LEMMA InOpenGripperSound ==
  ASSUME NEW p \in PolicyRecords,
         NEW g, HoldsFirmly(g), g.held_object \/ Rid(g),
         NEW o, Reports(o, g), NEW reason
  PROVE  /\ SoundAnswer(InOpenGripper(p, o, reason), g)
         /\ p.move_above_bin_steps <= MaxMoveAboveBinSteps =>
              CountWithin(InOpenGripper(p, o, reason).policy)
<1> DEFINE q == [p EXCEPT !.phase = "open_gripper"]
           r == [q EXCEPT !.phase = "done"]
<1>1. /\ q \in PolicyRecords /\ q.phase = "open_gripper"
      /\ q.move_above_bin_steps = p.move_above_bin_steps
  BY PolicyFields DEF Phases
<1>2. /\ r \in PolicyRecords /\ r.phase = "done"
      /\ r.move_above_bin_steps = p.move_above_bin_steps
  BY <1>1, PolicyFields DEF Phases
<1> HIDE DEF q, r
<1>3. CASE g.held_object
  <2>1. InOpenGripper(p, o, reason) = Answer(q, "stay", "open", reason)
    BY <1>3 DEF InOpenGripper, q, HoldsFirmly, Reports
  <2>2. QED
    BY <1>1, <1>3, <2>1 DEF Answer, SoundAnswer, CountWithin
<1>4. CASE ~g.held_object
  <2>1. InOpenGripper(p, o, reason) = Answer(r, "stay", "open", reason)
    BY <1>4 DEF InOpenGripper, InDone, q, r, Reports
  <2>2. QED
    BY <1>2, <1>4, <2>1 DEF Answer, SoundAnswer, CountWithin
<1>5. QED
  BY <1>3, <1>4

LEMMA InMoveAboveBinSound ==
  ASSUME NEW p \in PolicyRecords,
         NEW g, HoldsFirmly(g), g.held_object,
         NEW o, Reports(o, g)
  PROVE  /\ SoundAnswer(InMoveAboveBin(p, o), g)
         /\ p.move_above_bin_steps < MaxMoveAboveBinSteps => CountWithin(InMoveAboveBin(p, o).policy)
<1> DEFINE steps == p.move_above_bin_steps + 1
           q1 == [p EXCEPT !.phase = "move_above_bin"]
           q == [p EXCEPT !.phase = "move_above_bin", !.move_above_bin_steps = steps]
<1>1. /\ steps \in Nat
      /\ p.move_above_bin_steps < MaxMoveAboveBinSteps => steps <= MaxMoveAboveBinSteps
  BY PolicyFields, PolicyConstantsAssumption
<1> HIDE DEF steps
<1>2. q1 \in PolicyRecords /\ q1.phase = "move_above_bin"
  BY PolicyFields DEF Phases
<1>3. q = [q1 EXCEPT !.move_above_bin_steps = steps]
  BY DEF PolicyRecords
<1>4. /\ q \in PolicyRecords /\ q.phase = "move_above_bin"
      /\ q.move_above_bin_steps = steps
  BY <1>1, <1>2, <1>3, PolicyFields
<1> HIDE DEF q, q1
<1>5. CASE OpensAboveBin(p, o, steps)
  <2>1. InMoveAboveBin(p, o) = InOpenGripper(q, o, OpenReason(o))
    BY <1>5 DEF InMoveAboveBin, q, steps
  <2>2. QED
    BY <1>1, <1>4, <2>1, InOpenGripperSound
<1>6. CASE ~OpensAboveBin(p, o, steps)
  <2>1. InMoveAboveBin(p, o) = Answer(q, IF o.aligned THEN "drop" ELSE "carry", "close", "none")
    BY <1>6 DEF InMoveAboveBin, q, steps
  <2>2. ~(steps >= MaxMoveAboveBinSteps)
    BY <1>6 DEF OpensAboveBin, Reports
  <2>3. steps < MaxMoveAboveBinSteps
    BY <1>1, <2>2, PolicyConstantsAssumption
  <2>4. QED
    BY <1>1, <1>4, <2>1, <2>3 DEF Answer, SoundAnswer, CountWithin
<1>7. QED
  BY <1>5, <1>6

LEMMA InLiftObjectSound ==
  ASSUME NEW p \in PolicyRecords,
         NEW g, HoldsFirmly(g), g.held_object,
         NEW o, Reports(o, g)
  PROVE  /\ SoundAnswer(InLiftObject(p, o), g)
         /\ p.move_above_bin_steps <= MaxMoveAboveBinSteps => CountWithin(InLiftObject(p, o).policy)
<1> DEFINE q == [p EXCEPT !.phase = "lift_object"]
           r == [q EXCEPT !.move_above_bin_steps = 0]
<1>1. /\ q \in PolicyRecords /\ q.phase = "lift_object"
      /\ q.move_above_bin_steps = p.move_above_bin_steps
  BY PolicyFields DEF Phases
<1>2. r \in PolicyRecords /\ r.move_above_bin_steps = 0
  BY <1>1, PolicyFields
<1>3. 0 < MaxMoveAboveBinSteps
  BY PolicyConstantsAssumption
<1> HIDE DEF q, r
<1>4. CASE o.at_lift
  <2>1. InLiftObject(p, o) = InMoveAboveBin(r, o)
    BY <1>4 DEF InLiftObject, q, r
  <2>2. QED
    BY <1>2, <1>3, <2>1, InMoveAboveBinSound
<1>5. CASE ~o.at_lift
  <2>1. InLiftObject(p, o) = Answer(q, "lift", "close", "none")
    BY <1>5 DEF InLiftObject, q
  <2>2. QED
    BY <1>1, <2>1 DEF Answer, SoundAnswer, CountWithin
<1>6. QED
  BY <1>4, <1>5

LEMMA InCloseGripperSound ==
  ASSUME NEW p \in PolicyRecords,
         NEW g, HoldsFirmly(g), g.held_object \/ Waiting(g),
         NEW o, Reports(o, g)
  PROVE  /\ SoundAnswer(InCloseGripper(p, o), g)
         /\ p.move_above_bin_steps <= MaxMoveAboveBinSteps => CountWithin(InCloseGripper(p, o).policy)
<1> DEFINE q == [p EXCEPT !.phase = "close_gripper"]
<1>1. /\ q \in PolicyRecords /\ q.phase = "close_gripper"
      /\ q.move_above_bin_steps = p.move_above_bin_steps
  BY PolicyFields DEF Phases
<1> HIDE DEF q
<1>2. CASE g.held_object
  <2>1. InCloseGripper(p, o) = InLiftObject(q, o)
    BY <1>2 DEF InCloseGripper, q, Reports
  <2>2. QED
    BY <1>1, <1>2, <2>1, InLiftObjectSound
<1>3. CASE ~g.held_object
  <2>1. InCloseGripper(p, o) = Answer(q, "stay", "close", "none")
    BY <1>3 DEF InCloseGripper, q, Reports, Waiting
  <2>2. QED
    BY <1>1, <1>3, <2>1 DEF Answer, SoundAnswer, CountWithin
<1>4. QED
  BY <1>2, <1>3

LEMMA InStabilizeSound ==
  ASSUME NEW p \in PolicyRecords,
         NEW g, HoldsFirmly(g), Untouched(g),
         NEW o, Reports(o, g)
  PROVE  /\ SoundAnswer(InStabilize(p, o), g)
         /\ p.move_above_bin_steps <= MaxMoveAboveBinSteps => CountWithin(InStabilize(p, o).policy)
<1> DEFINE n == p.stabilization_counter + 1
           q1 == [p EXCEPT !.phase = "stabilize"]
           q == [p EXCEPT !.phase = "stabilize", !.stabilization_counter = n]
<1>1. n \in Nat
  BY PolicyFields
<1> HIDE DEF n
<1>2. /\ q1 \in PolicyRecords /\ q1.phase = "stabilize"
      /\ q1.move_above_bin_steps = p.move_above_bin_steps
  BY PolicyFields DEF Phases
<1>3. q = [q1 EXCEPT !.stabilization_counter = n]
  BY DEF PolicyRecords
<1>4. /\ q \in PolicyRecords /\ q.phase = "stabilize"
      /\ q.move_above_bin_steps = p.move_above_bin_steps
  BY <1>1, <1>2, <1>3, PolicyFields
<1> HIDE DEF q, q1
<1>5. CASE q.stabilization_counter >= StabilizationSteps
  <2>1. InStabilize(p, o) = InCloseGripper(q, o)
    BY <1>5 DEF InStabilize, q, n
  <2>2. Waiting(g)
    BY DEF Untouched, Waiting
  <2>3. QED
    BY <1>4, <2>1, <2>2, InCloseGripperSound
<1>6. CASE ~(q.stabilization_counter >= StabilizationSteps)
  <2>1. InStabilize(p, o) = Answer(q, "grasp_fine", "open", "none")
    BY <1>6 DEF InStabilize, q, n
  <2>2. QED
    BY <1>4, <2>1 DEF Answer, SoundAnswer, CountWithin
<1>7. QED
  BY <1>5, <1>6

LEMMA InMoveToObjectSound ==
  ASSUME NEW p \in PolicyRecords,
         p.phase = "move_to_object",
         NEW g, HoldsFirmly(g), Untouched(g),
         NEW o, Reports(o, g)
  PROVE  /\ SoundAnswer(InMoveToObject(p, o), g)
         /\ p.move_above_bin_steps <= MaxMoveAboveBinSteps => CountWithin(InMoveToObject(p, o).policy)
<1> DEFINE q == [p EXCEPT !.stabilization_counter = 0]
<1>1. q \in PolicyRecords /\ q.move_above_bin_steps = p.move_above_bin_steps
  BY PolicyFields
<1> HIDE DEF q
<1>2. Waiting(g)
  BY DEF Untouched, Waiting
<1>3. CASE ~o.at_grasp
  <2>1. InMoveToObject(p, o) = Answer(p, "grasp", "open", "none")
    BY <1>3 DEF InMoveToObject
  <2>2. QED
    BY <2>1 DEF Answer, SoundAnswer, CountWithin
<1>4. CASE o.at_grasp /\ StabilizationSteps > 0
  <2>1. InMoveToObject(p, o) = InStabilize(q, o)
    BY <1>4 DEF InMoveToObject, q
  <2>2. QED
    BY <1>1, <2>1, InStabilizeSound
<1>5. CASE o.at_grasp /\ ~(StabilizationSteps > 0)
  <2>1. InMoveToObject(p, o) = InCloseGripper(p, o)
    BY <1>5 DEF InMoveToObject
  <2>2. QED
    BY <1>2, <2>1, InCloseGripperSound
<1>6. QED
  BY <1>3, <1>4, <1>5
----------------------------------------------------------------------------

\* predict_action() on the state get_state() reports: it answers soundly
\* whenever phase and gripper agree; the count stays within the time box.
LEMMA PredictSoundAnswer ==
  ASSUME NEW p \in PolicyRecords, NEW g, PhaseAgrees(p.phase, g), NEW o, Reports(o, g)
  PROVE  SoundAnswer(Predict(p, o), g) /\ (CountWithin(p) => CountWithin(Predict(p, o).policy))
<1>1. /\ HoldsFirmly(g) /\ p.phase \in Phases
      /\ CountWithin(p) => p.move_above_bin_steps <= MaxMoveAboveBinSteps
  BY PolicyFields DEF PhaseAgrees, CountWithin
<1>2. CASE p.phase = "move_to_object"
  <2>1. Predict(p, o) = InMoveToObject(p, o)
    BY <1>2 DEF Predict
  <2>2. QED
    BY <1>1, <1>2, <2>1, InMoveToObjectSound DEF PhaseAgrees
<1>3. CASE p.phase = "stabilize"
  <2>1. Predict(p, o) = InStabilize(p, o)
    BY <1>3 DEF Predict
  <2>2. QED
    BY <1>1, <1>3, <2>1, InStabilizeSound DEF PhaseAgrees
<1>4. CASE p.phase = "close_gripper"
  <2>1. Predict(p, o) = InCloseGripper(p, o)
    BY <1>4 DEF Predict
  <2>2. QED
    BY <1>1, <1>4, <2>1, InCloseGripperSound DEF PhaseAgrees
<1>5. CASE p.phase = "lift_object"
  <2>1. Predict(p, o) = InLiftObject(p, o)
    BY <1>5 DEF Predict
  <2>2. QED
    BY <1>1, <1>5, <2>1, InLiftObjectSound DEF PhaseAgrees
<1>6. CASE p.phase = "move_above_bin"
  <2>1. Predict(p, o) = InMoveAboveBin(p, o)
    BY <1>6 DEF Predict
  <2>2. QED
    BY <1>1, <1>6, <2>1, InMoveAboveBinSound DEF PhaseAgrees, CountWithin
<1>7. CASE p.phase = "open_gripper"
  <2>1. Predict(p, o) = InOpenGripper(p, o, "none")
    BY <1>7 DEF Predict
  <2>2. QED
    BY <1>1, <1>7, <2>1, InOpenGripperSound DEF PhaseAgrees
<1>8. CASE p.phase = "done"
  <2> DEFINE r == [p EXCEPT !.phase = "done"]
  <2>1. Predict(p, o) = Answer(r, "stay", "open", "none")
    BY <1>8 DEF Predict, InDone
  <2>2. /\ r \in PolicyRecords /\ r.phase = "done"
        /\ r.move_above_bin_steps = p.move_above_bin_steps
    BY <1>1, PolicyFields DEF Phases
  <2>3. Rid(g)
    BY <1>8 DEF PhaseAgrees
  <2> HIDE DEF r
  <2>4. QED
    BY <1>1, <2>1, <2>2, <2>3 DEF Answer, SoundAnswer, CountWithin
<1>9. QED
  BY <1>1, <1>2, <1>3, <1>4, <1>5, <1>6, <1>7, <1>8 DEF Phases

LEMMA PredictSound ==
  ASSUME NEW p, NEW g, Agree(p, g), NEW o, Reports(o, g)
  PROVE  Sound(Predict(p, o), g)
BY PredictSoundAnswer DEF Agree, Sound
----------------------------------------------------------------------------
(* What an answer can be, on any policy and any observation: the phase it  *)
(* names, where it aims, and what the observation must have said for the   *)
(* call to get there.  One operator per phase the call may have reached,   *)
(* from the last of the chain to the first.                                *)

TimedOut(a) == a.reason = "max_move_above_bin_steps_exceeded"

InPhase(a, phase, aim) ==
  a.policy \in PolicyRecords /\ a.policy.phase = phase /\ a.phase = phase /\ a.aim = aim

Releases(a) == InPhase(a, "open_gripper", "stay") \/ InPhase(a, "done", "stay")

Travels(a, o) ==
  \/ InPhase(a, "move_above_bin", IF o.aligned THEN "drop" ELSE "carry") /\ ~o.at_stage
  \/ /\ Releases(a)
     /\ \/ o.at_stage
        \/ /\ o.aligned /\ o.near_bin /\ o.at_drop_height
           /\ a.reason = "near_bin_force_open"
        \/ TimedOut(a)

Lifts(a, o) ==
  \/ InPhase(a, "lift_object", "lift") /\ ~o.at_lift
  \/ o.at_lift /\ Travels(a, o)

Grasps(a, o) ==
  \/ InPhase(a, "close_gripper", "stay") /\ ~o.held
  \/ Lifts(a, o)

Steadies(a, o) ==
  \/ InPhase(a, "stabilize", "grasp_fine")
  \/ Grasps(a, o)

Approaches(a, o) ==
  \/ InPhase(a, "move_to_object", "grasp") /\ ~o.at_grasp
  \/ o.at_grasp /\ Steadies(a, o)

LEMMA InOpenGripperReleases ==
  ASSUME NEW p \in PolicyRecords, NEW o, NEW reason
  PROVE  LET a == InOpenGripper(p, o, reason) IN Releases(a) /\ a.reason = reason
<1> DEFINE q == [p EXCEPT !.phase = "open_gripper"]
           r == [q EXCEPT !.phase = "done"]
<1>1. q \in PolicyRecords /\ q.phase = "open_gripper"
  BY PolicyFields DEF Phases
<1>2. r \in PolicyRecords /\ r.phase = "done"
  BY <1>1, PolicyFields DEF Phases
<1>3. \/ InOpenGripper(p, o, reason) = Answer(q, "stay", "open", reason)
      \/ InOpenGripper(p, o, reason) = Answer(r, "stay", "open", reason)
  BY DEF InOpenGripper, InDone
<1> HIDE DEF q, r
<1>4. QED
  BY <1>1, <1>2, <1>3 DEF Answer, Releases, InPhase

LEMMA InMoveAboveBinTravels ==
  ASSUME NEW p \in PolicyRecords, NEW o
  PROVE  Travels(InMoveAboveBin(p, o), o)
<1> DEFINE steps == p.move_above_bin_steps + 1
           q1 == [p EXCEPT !.phase = "move_above_bin"]
           q == [p EXCEPT !.phase = "move_above_bin", !.move_above_bin_steps = steps]
<1>1. steps \in Nat
  BY PolicyFields
<1>2. q1 \in PolicyRecords /\ q1.phase = "move_above_bin"
  BY PolicyFields DEF Phases
<1>3. q = [q1 EXCEPT !.move_above_bin_steps = steps]
  BY DEF PolicyRecords
<1> HIDE DEF steps, q1
<1>4. q \in PolicyRecords /\ q.phase = "move_above_bin"
  BY <1>1, <1>2, <1>3, PolicyFields
<1> HIDE DEF q
<1>5. CASE OpensAboveBin(p, o, steps)
  <2>1. InMoveAboveBin(p, o) = InOpenGripper(q, o, OpenReason(o))
    BY <1>5 DEF InMoveAboveBin, q, steps
  <2>2. /\ Releases(InMoveAboveBin(p, o))
        /\ InMoveAboveBin(p, o).reason = OpenReason(o)
    BY <1>4, <2>1, InOpenGripperReleases
  <2>3. \/ o.at_stage
        \/ /\ o.aligned /\ o.near_bin /\ o.at_drop_height
           /\ OpenReason(o) = "near_bin_force_open"
        \/ OpenReason(o) = "max_move_above_bin_steps_exceeded"
    BY DEF OpenReason
  <2>4. QED
    BY <2>2, <2>3 DEF Travels, TimedOut
<1>6. CASE ~OpensAboveBin(p, o, steps)
  <2>1. InMoveAboveBin(p, o) = Answer(q, IF o.aligned THEN "drop" ELSE "carry", "close", "none")
    BY <1>6 DEF InMoveAboveBin, q, steps
  <2>2. ~o.at_stage
    BY <1>6 DEF OpensAboveBin
  <2>3. QED
    BY <1>4, <2>1, <2>2 DEF Answer, Travels, InPhase
<1>7. QED
  BY <1>5, <1>6

LEMMA InLiftObjectLifts ==
  ASSUME NEW p \in PolicyRecords, NEW o
  PROVE  Lifts(InLiftObject(p, o), o)
<1> DEFINE q == [p EXCEPT !.phase = "lift_object"]
           r == [q EXCEPT !.move_above_bin_steps = 0]
<1>1. q \in PolicyRecords /\ q.phase = "lift_object"
  BY PolicyFields DEF Phases
<1>2. r \in PolicyRecords
  BY <1>1, PolicyFields
<1>3. \/ ~o.at_lift /\ InLiftObject(p, o) = Answer(q, "lift", "close", "none")
      \/ o.at_lift /\ InLiftObject(p, o) = InMoveAboveBin(r, o)
  BY DEF InLiftObject
<1> HIDE DEF q, r
<1>4. QED
  BY <1>1, <1>2, <1>3, InMoveAboveBinTravels DEF Answer, Lifts, InPhase

LEMMA InCloseGripperGrasps ==
  ASSUME NEW p \in PolicyRecords, NEW o
  PROVE  Grasps(InCloseGripper(p, o), o)
<1> DEFINE q == [p EXCEPT !.phase = "close_gripper"]
<1>1. q \in PolicyRecords /\ q.phase = "close_gripper"
  BY PolicyFields DEF Phases
<1>2. \/ ~o.held /\ InCloseGripper(p, o) = Answer(q, "stay", "close", "none")
      \/ InCloseGripper(p, o) = InLiftObject(q, o)
  BY DEF InCloseGripper
<1> HIDE DEF q
<1>3. QED
  BY <1>1, <1>2, InLiftObjectLifts DEF Answer, Grasps, InPhase

LEMMA InStabilizeSteadies ==
  ASSUME NEW p \in PolicyRecords, NEW o
  PROVE  Steadies(InStabilize(p, o), o)
<1> DEFINE n == p.stabilization_counter + 1
           q1 == [p EXCEPT !.phase = "stabilize"]
           q == [p EXCEPT !.phase = "stabilize", !.stabilization_counter = n]
<1>1. n \in Nat
  BY PolicyFields
<1>2. q1 \in PolicyRecords /\ q1.phase = "stabilize"
  BY PolicyFields DEF Phases
<1>3. q = [q1 EXCEPT !.stabilization_counter = n]
  BY DEF PolicyRecords
<1> HIDE DEF n, q1
<1>4. q \in PolicyRecords /\ q.phase = "stabilize"
  BY <1>1, <1>2, <1>3, PolicyFields
<1>5. \/ InStabilize(p, o) = Answer(q, "grasp_fine", "open", "none")
      \/ InStabilize(p, o) = InCloseGripper(q, o)
  BY DEF InStabilize, n
<1> HIDE DEF q
<1>6. QED
  BY <1>4, <1>5, InCloseGripperGrasps DEF Answer, Steadies, InPhase

LEMMA InMoveToObjectApproaches ==
  ASSUME NEW p \in PolicyRecords, p.phase = "move_to_object", NEW o
  PROVE  Approaches(InMoveToObject(p, o), o)
<1> DEFINE q == [p EXCEPT !.stabilization_counter = 0]
<1>1. q \in PolicyRecords
  BY PolicyFields
<1>2. \/ ~o.at_grasp /\ InMoveToObject(p, o) = Answer(p, "grasp", "open", "none")
      \/ o.at_grasp /\ InMoveToObject(p, o) = InStabilize(q, o)
      \/ o.at_grasp /\ InMoveToObject(p, o) = InCloseGripper(p, o)
  BY DEF InMoveToObject
<1> HIDE DEF q
<1>3. QED
  BY <1>1, <1>2, InStabilizeSteadies, InCloseGripperGrasps
     DEF Answer, Approaches, Steadies, InPhase

\* What a call can answer, by the phase it starts in.
Continues(phase, a, o) ==
  /\ phase = "move_to_object" => Approaches(a, o)
  /\ phase = "stabilize" => Steadies(a, o)
  /\ phase = "close_gripper" => Grasps(a, o)
  /\ phase = "lift_object" => Lifts(a, o)
  /\ phase = "move_above_bin" => Travels(a, o)
  /\ phase \in {"open_gripper", "done"} => Releases(a)

LEMMA PredictContinues ==
  ASSUME NEW p \in PolicyRecords, NEW o
  PROVE  Continues(p.phase, Predict(p, o), o) /\ Predict(p, o).policy \in PolicyRecords
<1> DEFINE a == Predict(p, o)
<1>1. ASSUME p.phase = "move_to_object" PROVE Continues(p.phase, a, o)
  BY <1>1, InMoveToObjectApproaches DEF Predict, Continues
<1>2. ASSUME p.phase = "stabilize" PROVE Continues(p.phase, a, o)
  BY <1>2, InStabilizeSteadies DEF Predict, Continues
<1>3. ASSUME p.phase = "close_gripper" PROVE Continues(p.phase, a, o)
  BY <1>3, InCloseGripperGrasps DEF Predict, Continues
<1>4. ASSUME p.phase = "lift_object" PROVE Continues(p.phase, a, o)
  BY <1>4, InLiftObjectLifts DEF Predict, Continues
<1>5. ASSUME p.phase = "move_above_bin" PROVE Continues(p.phase, a, o)
  BY <1>5, InMoveAboveBinTravels DEF Predict, Continues
<1>6. ASSUME p.phase = "open_gripper" PROVE Continues(p.phase, a, o)
  BY <1>6, InOpenGripperReleases DEF Predict, Continues
<1>7. ASSUME p.phase = "done" PROVE Continues(p.phase, a, o)
  <2> DEFINE r == [p EXCEPT !.phase = "done"]
  <2>1. a = Answer(r, "stay", "open", "none")
    BY <1>7 DEF Predict, InDone
  <2>2. r \in PolicyRecords /\ r.phase = "done"
    BY PolicyFields DEF Phases
  <2> HIDE DEF r
  <2>3. QED
    BY <1>7, <2>1, <2>2 DEF Answer, Continues, Releases, InPhase
<1>8. p.phase \in Phases
  BY PolicyFields
<1>9. Continues(p.phase, a, o)
  BY <1>1, <1>2, <1>3, <1>4, <1>5, <1>6, <1>7, <1>8 DEF Phases
<1> HIDE DEF a
<1>10. a.policy \in PolicyRecords
  BY <1>8, <1>9
     DEF Phases, Continues, Approaches, Steadies, Grasps, Lifts, Travels, Releases, InPhase
<1>11. QED
  BY <1>9, <1>10 DEF a
----------------------------------------------------------------------------
(* The gripper half of apply_command().                                    *)

\* The two operations of the backend, field by field.
LEMMA OpenGripperFields ==
  ASSUME NEW g \in GripperRecords, NEW over_bin
  PROVE  LET h == OpenGripper(g, over_bin)
         IN /\ h \in GripperRecords /\ ~h.held_object
            /\ ~g.held_object => h.task_status = g.task_status
            /\ g.held_object => h.task_status \in {"success", "released"}
<1> DEFINE status == IF ~g.held_object THEN g.task_status
                     ELSE IF over_bin THEN "success" ELSE "released"
           h == [g EXCEPT !.fingers_open = TRUE, !.held_object = FALSE,
                          !.task_status = status]
<1>1. /\ status \in TaskStatuses
      /\ ~g.held_object => status = g.task_status
      /\ g.held_object => status \in {"success", "released"}
  BY DEF GripperRecords, TaskStatuses
<1>2. OpenGripper(g, over_bin) = h
  BY DEF OpenGripper
<1> HIDE DEF status
<1>3. h \in GripperRecords /\ ~h.held_object /\ h.task_status = status
  BY <1>1 DEF GripperRecords
<1>4. QED
  BY <1>1, <1>2, <1>3

LEMMA CloseGripperFields ==
  ASSUME NEW g \in GripperRecords, NEW near
  PROVE  LET h == CloseGripper(g, near)
         IN /\ h \in GripperRecords /\ ~h.fingers_open
            /\ \/ h.held_object = g.held_object /\ h.task_status = g.task_status
               \/ ~g.held_object /\ h.held_object /\ h.task_status = "grasped"
<1>1. CASE ~g.held_object /\ near
  BY <1>1 DEF CloseGripper, GripperRecords, TaskStatuses
<1>2. CASE ~(~g.held_object /\ near)
  BY <1>2 DEF CloseGripper, GripperRecords, TaskStatuses
<1>3. QED
  BY <1>1, <1>2

\* apply_command() keeps the gripper's state a state, whatever it is told.
LEMMA ApplyGripperType ==
  ASSUME NEW g \in GripperRecords, NEW command, NEW near, NEW over_bin
  PROVE  ApplyGripper(g, command, near, over_bin) \in GripperRecords
<1>1. OpenGripper(g, over_bin) \in GripperRecords
  BY OpenGripperFields
<1>2. CloseGripper(g, near) \in GripperRecords
  BY CloseGripperFields
<1>3. QED
  BY <1>1, <1>2 DEF ApplyGripper

\* A held object that is let go: where decides what is reported.
LEMMA ReleaseReports ==
  ASSUME NEW g, HoldsFirmly(g), g.held_object, NEW near, NEW over_bin
  PROVE  LET h == ApplyGripper(g, "open", near, over_bin)
         IN /\ h.fingers_open /\ ~h.held_object
            /\ h.task_status = IF over_bin THEN "success" ELSE "released"
<1>1. ApplyGripper(g, "open", near, over_bin) = OpenGripper(g, over_bin)
  BY DEF ApplyGripper, Actuates, HoldsFirmly
<1>2. QED
  BY <1>1 DEF OpenGripper, HoldsFirmly, GripperRecords

\* Open fingers that are told to close on an object in reach grasp it.
LEMMA CloseGrasps ==
  ASSUME NEW g \in GripperRecords, g.fingers_open, ~g.held_object, NEW near, near,
         NEW over_bin
  PROVE  LET h == ApplyGripper(g, "close", near, over_bin)
         IN h.held_object /\ ~h.fingers_open /\ h.task_status = "grasped"
<1>1. ApplyGripper(g, "close", near, over_bin) = CloseGripper(g, near)
  BY DEF ApplyGripper, Actuates
<1>2. QED
  BY <1>1 DEF CloseGripper, GripperRecords

\* What becomes of the object: nothing, or one step of its journey.
Carries(g, h) ==
  \/ h.held_object = g.held_object /\ h.task_status = g.task_status
  \/ Waiting(g) /\ h.held_object
  \/ g.held_object /\ Rid(h)

\* A sound answer, applied: phase and gripper agree again.
LEMMA ApplySoundAnswer ==
  ASSUME NEW a, NEW g, HoldsFirmly(g), SoundAnswer(a, g), NEW near, NEW over_bin
  PROVE  LET h == ApplyGripper(g, a.gripper, near, over_bin)
         IN PhaseAgrees(a.policy.phase, h) /\ Carries(g, h)
<1> DEFINE h == ApplyGripper(g, a.gripper, near, over_bin)
<1>g. g \in GripperRecords
  BY DEF HoldsFirmly
<1>1. CASE /\ a.policy.phase \in {"move_to_object", "stabilize"}
           /\ a.gripper = "open" /\ Untouched(g)
  <2>1. h = g
    BY <1>1 DEF ApplyGripper, Actuates, Untouched
  <2>2. QED
    BY <1>1, <2>1 DEF PhaseAgrees, Carries
<1>2. CASE a.policy.phase = "close_gripper" /\ a.gripper = "close" /\ Waiting(g)
  <2>1. h = g \/ h = CloseGripper(g, near)
    BY <1>2 DEF ApplyGripper
  <2>2. CASE h = g
    BY <1>2, <2>2 DEF PhaseAgrees, Carries
  <2>3. CASE h = CloseGripper(g, near)
    <3>1. /\ h \in GripperRecords /\ ~h.fingers_open
          /\ \/ h.held_object = g.held_object /\ h.task_status = g.task_status
             \/ ~g.held_object /\ h.held_object /\ h.task_status = "grasped"
      BY <1>g, <2>3, CloseGripperFields
    <3> HIDE DEF h
    <3>2. HoldsFirmly(h)
      BY <1>2, <3>1 DEF HoldsFirmly, Waiting
    <3>3. (h.held_object \/ Waiting(h)) /\ Carries(g, h)
      BY <1>2, <3>1 DEF Carries, Waiting
    <3>4. PhaseAgrees(a.policy.phase, h)
      BY <1>2, <3>2, <3>3 DEF PhaseAgrees
    <3>5. QED
      BY <3>3, <3>4 DEF h
  <2>4. QED
    BY <2>1, <2>2, <2>3
<1>3. CASE /\ a.policy.phase \in {"lift_object", "move_above_bin"}
           /\ a.gripper = "close" /\ g.held_object
  <2>1. h = g
    BY <1>3 DEF ApplyGripper, Actuates, HoldsFirmly
  <2>2. QED
    BY <1>3, <2>1 DEF PhaseAgrees, Carries
<1>4. CASE a.policy.phase = "open_gripper" /\ a.gripper = "open" /\ g.held_object
  <2>1. h = OpenGripper(g, over_bin)
    BY <1>4 DEF ApplyGripper, Actuates, HoldsFirmly
  <2>2. h \in GripperRecords /\ Rid(h)
    BY <1>g, <1>4, <2>1, OpenGripperFields DEF Rid
  <2> HIDE DEF h
  <2>3. HoldsFirmly(h)
    BY <2>2 DEF HoldsFirmly, Rid
  <2>4. PhaseAgrees(a.policy.phase, h) /\ Carries(g, h)
    BY <1>4, <2>2, <2>3 DEF PhaseAgrees, Carries
  <2>5. QED
    BY <2>4 DEF h
<1>5. CASE a.policy.phase = "done" /\ a.gripper = "open" /\ Rid(g)
  <2>1. h = g \/ h = OpenGripper(g, over_bin)
    BY <1>5 DEF ApplyGripper
  <2>2. /\ h \in GripperRecords /\ ~h.held_object
        /\ h.task_status = g.task_status
    BY <1>g, <1>5, <2>1, OpenGripperFields DEF Rid
  <2> HIDE DEF h
  <2>3. HoldsFirmly(h) /\ Rid(h) /\ Carries(g, h)
    BY <1>g, <1>5, <2>2 DEF HoldsFirmly, Rid, Carries, GripperRecords
  <2>4. PhaseAgrees(a.policy.phase, h)
    BY <1>5, <2>3 DEF PhaseAgrees
  <2>5. QED
    BY <2>3, <2>4 DEF h
<1>6. QED
  BY <1>1, <1>2, <1>3, <1>4, <1>5 DEF SoundAnswer

LEMMA ApplySound ==
  ASSUME NEW a, NEW g, HoldsFirmly(g), Sound(a, g), NEW near, NEW over_bin
  PROVE  LET h == ApplyGripper(g, a.gripper, near, over_bin)
         IN Agree(a.policy, h) /\ Carries(g, h)
BY ApplySoundAnswer DEF Sound, SoundAnswer, Agree

LEMMA AgreeInitially == Agree(ResetPolicy, ResetGripper)
<1>1. ResetPolicy \in PolicyRecords /\ CountWithin(ResetPolicy)
  BY PolicyConstantsAssumption
     DEF ResetPolicy, PolicyRecords, CountWithin, Phases
<1>2. HoldsFirmly(ResetGripper) /\ Untouched(ResetGripper)
  BY DEF ResetGripper, GripperRecords, HoldsFirmly, Untouched, TaskStatuses
<1>3. QED
  BY <1>1, <1>2 DEF Agree, PhaseAgrees, ResetPolicy
=============================================================================
