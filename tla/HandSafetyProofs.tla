-------------------------- MODULE HandSafetyProofs --------------------------
(***************************************************************************)
(* Proofs about the pause/resume state machine, and about hand monitors in *)
(* front of it, for every image, polygon, configuration, schedule, number  *)
(* of checks and stability count.                                          *)
(***************************************************************************)
EXTENDS HandSafety, OperatorLemmas, TLAPS
----------------------------------------------------------------------------
(* The state machine alone, checked by any monitor.                        *)

\* The same three cases, as facts about the primed variables of a check.
LEMMA CheckCases ==
  ASSUME NEW hand \in BOOLEAN, Check(hand)
  PROVE  \/ /\ hand
            /\ supervisor' = AfterHand(supervisor)
            /\ event' \in {"safety_pause", "safety_still_paused"}
            /\ acted' = acted /\ streak' = 0
         \/ /\ ~hand /\ ~IsRunning(supervisor)
            /\ supervisor' = AfterClear(supervisor)
            /\ event' \in {"safety_resume", "safety_still_paused"}
            /\ acted' = acted /\ streak' = streak + 1
         \/ /\ ~hand /\ IsRunning(supervisor)
            /\ supervisor' = supervisor
            /\ event' = "none"
            /\ acted' = acted + 1 /\ streak' = streak + 1
BY StepCases DEF Check

LEMMA InductiveInit == Init => Inductive
BY ClearChecksPositive, SMT
   DEF Init, Inductive, TypeOK, CountersBalance, StepsAccounted, StableIsStreak,
       InitialSupervisor, SupervisorRecords, SafetyStates, Events, IsRunning

LEMMA InductiveStep == Inductive /\ [Next]_vars => Inductive'
<1> SUFFICES ASSUME Inductive, [Next]_vars PROVE Inductive'
  OBVIOUS
<1> USE DEF Inductive
<1>1. ASSUME NEW hand \in BOOLEAN, Check(hand) PROVE Inductive'
  <2>t. checks' = checks + 1
    BY <1>1 DEF Check
  <2>1. CASE hand
    <3>1. /\ supervisor' = AfterHand(supervisor)
          /\ event' \in {"safety_pause", "safety_still_paused"}
          /\ acted' = acted /\ streak' = 0
      BY <1>1, <2>1, CheckCases
    <3>2. TypeOK'
      BY <2>t, <3>1, AfterHandFields, SMT DEF TypeOK, Events
    <3>3. CountersBalance'
      BY <3>1, AfterHandFields, SMT DEF TypeOK, CountersBalance, SupervisorRecords
    <3>4. StepsAccounted' /\ StableIsStreak'
      BY <2>t, <3>1, AfterHandFields, SMT
         DEF TypeOK, StepsAccounted, StableIsStreak, SupervisorRecords
    <3>5. QED
      BY <3>1, <3>2, <3>3, <3>4, AfterHandFields DEF TypeOK
  <2>2. CASE ~hand /\ ~IsRunning(supervisor)
    <3>1. /\ supervisor' = AfterClear(supervisor)
          /\ event' \in {"safety_resume", "safety_still_paused"}
          /\ acted' = acted /\ streak' = streak + 1
      BY <1>1, <2>2, CheckCases
    <3>2. TypeOK'
      BY <2>t, <2>2, <3>1, AfterClearFields, SMT DEF TypeOK, Events
    <3>3. CountersBalance'
      BY <2>2, <3>1, AfterClearFields, SMT DEF TypeOK, CountersBalance, SupervisorRecords
    <3>4. StepsAccounted' /\ StableIsStreak'
      BY <2>t, <2>2, <3>1, AfterClearFields, SMT
         DEF TypeOK, StepsAccounted, StableIsStreak, SupervisorRecords
    <3>5. IsRunning(supervisor)' => streak' >= ClearChecksToResume
      BY <2>2, <3>1, AfterClearFields, ClearChecksPositive, SMT
         DEF TypeOK, StableIsStreak, SupervisorRecords
    <3>6. QED
      BY <3>2, <3>3, <3>4, <3>5
  <2>3. CASE ~hand /\ IsRunning(supervisor)
    <3>1. /\ supervisor' = supervisor /\ event' = "none"
          /\ acted' = acted + 1 /\ streak' = streak + 1
      BY <1>1, <2>3, CheckCases
    <3>2. QED
      BY <2>t, <2>3, <3>1, ClearChecksPositive, SMT
         DEF TypeOK, CountersBalance, StepsAccounted, StableIsStreak, SupervisorRecords,
             IsRunning, Events
  <2>4. QED
    BY <2>1, <2>2, <2>3
<1>2. CASE UNCHANGED vars
  BY <1>2 DEF vars, TypeOK, CountersBalance, StepsAccounted, StableIsStreak, IsRunning
<1>3. QED
  BY <1>1, <1>2 DEF Next, HandSeen, HandAbsent

\* safety_supervisor.py keeps its counters in step with what the loop did:
\* types, pause/resume balance, paused steps, and the stability count.
THEOREM SupervisorInvariant ==
  Spec => [](TypeOK /\ CountersBalance /\ StepsAccounted /\ StableIsStreak)
<1>1. Inductive => TypeOK /\ CountersBalance /\ StepsAccounted /\ StableIsStreak
  BY DEF Inductive
<1>2. QED
  BY <1>1, InductiveInit, InductiveStep, PTL DEF Spec

\* step() returns None, so that the loop acts, only after the full run of
\* clear checks that the last pause owes.
THEOREM ActsOnlyAfterStableClear == Spec => ActOnlyAfterStableClear
<1>1. Inductive /\ [Next]_vars =>
        [acted' # acted => supervisor.pause_count = 0 \/ streak >= ClearChecksToResume]_vars
  <2> SUFFICES ASSUME Inductive, NEW hand \in BOOLEAN, Check(hand), acted' # acted
               PROVE  supervisor.pause_count = 0 \/ streak >= ClearChecksToResume
    BY DEF Next, HandSeen, HandAbsent
  <2>1. IsRunning(supervisor)
    BY CheckCases DEF Inductive
  <2>2. QED
    BY <2>1, SMT DEF Inductive, TypeOK, SupervisorRecords
<1>2. QED
  BY <1>1, InductiveInit, InductiveStep, PTL DEF Spec, ActOnlyAfterStableClear

\* SafetySupervisor implements the promise of PauseResume: its count of
\* stable clear steps is what has been paid of the debt.
THEOREM SupervisorImplementsPauseResume == Spec => ImplementsPromise
<1>1. Init => Promise!Init
  BY SMT DEF Init, Promise!Init, InitialSupervisor, IsRunning
<1>2. Inductive /\ [Next]_vars => [Promise!Next]_(Promise!vars)
  <2> SUFFICES ASSUME Inductive, [Next]_vars
               PROVE  [Promise!Next]_(Promise!vars)
    OBVIOUS
  <2> USE DEF Inductive
  <2>1. ASSUME NEW hand \in BOOLEAN, Check(hand) PROVE Promise!Next
    <3>1. CASE hand
      <4>1. /\ supervisor' = AfterHand(supervisor)
            /\ event' \in {"safety_pause", "safety_still_paused"}
        BY <2>1, <3>1, CheckCases
      <4>2. /\ ~IsRunning(supervisor') /\ supervisor'.stable_clear_steps = 0
            /\ supervisor'.safety_state = "paused_by_safety"
        BY <4>1, AfterHandFields DEF TypeOK
      <4>3. ~IsRunning(supervisor)' /\ ClearChecksToResume - 0 = ClearChecksToResume
        BY <4>2, ClearChecksPositive DEF IsRunning
      <4>4. Promise!Detect
        BY <4>1, <4>2, <4>3 DEF Promise!Detect
      <4>5. QED
        BY <4>4 DEF Promise!Next
    <3>2. CASE ~hand /\ ~IsRunning(supervisor)
      <4>1. /\ supervisor' = AfterClear(supervisor)
            /\ event' \in {"safety_resume", "safety_still_paused"}
        BY <2>1, <3>2, CheckCases
      <4>2. supervisor.stable_clear_steps \in 0..(ClearChecksToResume - 1)
        BY DEF TypeOK, SupervisorRecords
      <4>3. Promise!Pay
        BY <3>2, <4>1, <4>2, AfterClearFields, ClearChecksPositive, SMT DEF Promise!Pay, TypeOK
      <4>4. QED
        BY <4>3 DEF Promise!Next
    <3>3. CASE ~hand /\ IsRunning(supervisor)
      BY <2>1, <3>3, CheckCases, SMT DEF Promise!Next, Promise!Act, IsRunning
    <3>4. QED
      BY <3>1, <3>2, <3>3
  <2>2. CASE UNCHANGED vars
    BY <2>2 DEF vars, Promise!vars, IsRunning
  <2>3. QED
    BY <2>1, <2>2 DEF Next, HandSeen, HandAbsent
<1>3. QED
  BY <1>1, <1>2, InductiveInit, InductiveStep, PTL DEF Spec, ImplementsPromise, Promise!Spec
----------------------------------------------------------------------------
(* The monitors in front of it.                                            *)

\* An iteration is a check of the supervisor, or leaves it alone.
LEMMA HandStepCases ==
  ASSUME HandNext
  PROVE  \/ \E f \in NextFrames : Observe(f)
         \/ \E f \in NextFrames : MonitorRaises(f)
BY DEF HandNext

\* The composition only ever drives the supervisor through step(): whatever
\* holds of SupervisorChecks holds of it.
THEOREM HandSafetyDrivesSupervisor == HandSpec => Spec
<1>1. HandInit => Init
  BY DEF HandInit
<1>2. [HandNext]_handVars => [Next]_vars
  <2> SUFFICES ASSUME [HandNext]_handVars PROVE [Next]_vars
    OBVIOUS
  <2>1. ASSUME NEW f \in NextFrames, Observe(f) PROVE Next
    <3>1. Check(TRUE) \/ Check(FALSE)
      <4>1. (Verdict(f) = "stop") \in BOOLEAN
        OBVIOUS
      <4>2. QED
        BY <2>1, <4>1 DEF Observe
    <3>2. QED
      BY <3>1 DEF Next, HandSeen, HandAbsent
  <2>2. ASSUME NEW f \in NextFrames, MonitorRaises(f) PROVE UNCHANGED vars
    BY <2>2 DEF MonitorRaises
  <2>3. CASE UNCHANGED handVars
    BY <2>3 DEF handVars, vars
  <2>4. QED
    BY <2>1, <2>2, <2>3, HandStepCases
<1>3. QED
  BY <1>1, <1>2, PTL DEF HandSpec, Spec

\* The report of an episode adds up behind every monitor.
THEOREM HandCountersBalance == HandSpec => []CountersBalance
BY HandSafetyDrivesSupervisor, SupervisorInvariant, PTL

\* SafetySupervisor keeps its promise behind every monitor.
THEOREM HandSafetyKeepsPromise == HandSpec => ImplementsPromise
BY HandSafetyDrivesSupervisor, SupervisorImplementsPauseResume, PTL

\* Behind any monitor: once a pause has begun, no action passes before
\* resume_stable_steps clear checks in a row.
THEOREM HandActsAfterStableClear == HandSpec => ActOnlyAfterStableClear
BY HandSafetyDrivesSupervisor, ActsOnlyAfterStableClear, PTL
----------------------------------------------------------------------------
(* Types.                                                                  *)

MonitorTypeOK ==
  /\ monitor \in ExternalMonitors \cup MockMonitors(MockSteps)
  /\ taskFrame \in Frames /\ frame \in Frames
  /\ debug \in [handDetected : BOOLEAN, handInWorkspace : BOOLEAN, workspaceValid : BOOLEAN]
  /\ aborted \in BOOLEAN

LEMMA MonitorTypeStep == MonitorTypeOK /\ [HandNext]_handVars => MonitorTypeOK'
<1> SUFFICES ASSUME MonitorTypeOK, [HandNext]_handVars PROVE MonitorTypeOK'
  OBVIOUS
<1> USE DEF MonitorTypeOK
<1>1. NextFrames \subseteq Frames
  BY DEF NextFrames
<1>2. ASSUME NEW f \in NextFrames, Observe(f) PROVE MonitorTypeOK'
  <2>1. DebugOf(monitor, f) \in
          [handDetected : BOOLEAN, handInWorkspace : BOOLEAN, workspaceValid : BOOLEAN]
    BY DEF DebugOf, Workspace, Polygon, NoPolygon
  <2>2. QED
    BY <1>1, <1>2, <2>1 DEF Observe
<1>3. ASSUME NEW f \in NextFrames, MonitorRaises(f) PROVE MonitorTypeOK'
  BY <1>1, <1>3 DEF MonitorRaises
<1>4. CASE UNCHANGED handVars
  BY <1>4 DEF handVars
<1>5. QED
  BY <1>2, <1>3, <1>4, HandStepCases

\* Types of the composition.
THEOREM HandTypes == HandSpec => []HandTypeOK
<1>1. HandInit => MonitorTypeOK
  <2>1. NoDebug \in [handDetected : BOOLEAN, handInWorkspace : BOOLEAN, workspaceValid : BOOLEAN]
    BY DEF NoDebug
  <2>2. QED
    BY <2>1 DEF HandInit, MonitorTypeOK
<1>2. TypeOK /\ MonitorTypeOK => HandTypeOK
  BY DEF HandTypeOK, MonitorTypeOK
<1>3. QED
  BY <1>1, <1>2, MonitorTypeStep, HandSafetyDrivesSupervisor, SupervisorInvariant, PTL
     DEF HandSpec
----------------------------------------------------------------------------
(* What the external-camera monitor pauses for.                            *)

\* An action is let through only on a frame that was looked at and shows no
\* landmark where the monitor is meant to look.
THEOREM HandActsOnlyOnClearFrame == HandSpec => ActsOnlyOnClearFrame
<1>1. [HandNext]_handVars =>
        [External /\ acted' # acted =>
           /\ monitor.detector
           /\ monitor.pauseIfHand => \A p \in frame' : ~Watched(p)]_handVars
  <2> SUFFICES ASSUME HandNext, External, acted' # acted
               PROVE  /\ monitor.detector
                      /\ monitor.pauseIfHand => \A p \in frame' : ~Watched(p)
    OBVIOUS
  <2>1. PICK f \in NextFrames : Observe(f)
    BY HandStepCases DEF MonitorRaises, vars
  <2>2. ~(Verdict(f) = "stop")
    <3>1. Check(Verdict(f) = "stop") /\ (Verdict(f) = "stop") \in BOOLEAN
      BY <2>1 DEF Observe
    <3>2. QED
      BY <3>1, CheckCases
  <2>3. ExternalVerdict(monitor, f) = "safe"
    BY <2>1, <2>2 DEF Observe, Verdict, ExternalVerdict
  <2>4. /\ monitor.detector
        /\ monitor.pauseIfHand => Intrusion(monitor, f) = {} \/ ~Workspace(monitor).valid
    BY <2>3 DEF ExternalVerdict
  <2>5. ASSUME monitor.pauseIfHand, NEW p \in f, Watched(p) PROVE FALSE
    BY <2>4, <2>5 DEF Watched, Intrusion, Workspace, Polygon, NoPolygon
  <2>6. frame' = f
    BY <2>1 DEF Observe
  <2>7. QED
    BY <2>4, <2>5, <2>6
<1>2. QED
  BY <1>1, PTL DEF HandSpec, ActsOnlyOnClearFrame

\* Without a workspace the loop runs; a pause that is not resuming is one for
\* a landmark in the workspace of the last frame.
WatchInv ==
  /\ MonitorTypeOK /\ TypeOK
  /\ External /\ ~monitor.markersFound /\ ~monitor.roiEnabled =>
       IsRunning(supervisor) /\ supervisor.pause_count = 0
  /\ External /\ supervisor.safety_state = "paused_by_safety" =>
       debug.workspaceValid /\ debug.handInWorkspace /\ monitor.pauseIfHand

LEMMA WatchInit == HandInit => WatchInv
<1>1. HandInit => MonitorTypeOK /\ TypeOK
  <2>1. NoDebug \in [handDetected : BOOLEAN, handInWorkspace : BOOLEAN, workspaceValid : BOOLEAN]
    BY DEF NoDebug
  <2>2. QED
    BY <2>1, InductiveInit DEF HandInit, MonitorTypeOK, Inductive
<1>2. QED
  BY <1>1 DEF HandInit, Init, InitialSupervisor, IsRunning, WatchInv

\* What "stop" says of the frame.
LEMMA StopMeansIntrusion ==
  ASSUME NEW m, NEW f, ExternalVerdict(m, f) = "stop"
  PROVE  /\ DebugOf(m, f).workspaceValid /\ DebugOf(m, f).handInWorkspace /\ m.pauseIfHand
         /\ m.markersFound \/ m.roiEnabled
BY DEF ExternalVerdict, DebugOf, Workspace, Polygon, NoPolygon, Intrusion

LEMMA WatchStep == WatchInv /\ TypeOK' /\ [HandNext]_handVars => WatchInv'
<1> SUFFICES ASSUME WatchInv, TypeOK', [HandNext]_handVars PROVE WatchInv'
  OBVIOUS
<1>0. MonitorTypeOK'
  BY MonitorTypeStep DEF WatchInv
<1>1. ASSUME NEW f \in NextFrames, Observe(f) PROVE WatchInv'
  <2> DEFINE hand == Verdict(f) = "stop"
  <2>1. monitor' = monitor /\ Check(hand) /\ hand \in BOOLEAN
    BY <1>1 DEF Observe
  <2>2. CASE ~External
    BY <2>1, <2>2, <1>0 DEF WatchInv, External
  <2>3. CASE External
    <3>1. Verdict(f) = ExternalVerdict(monitor, f) /\ debug' = DebugOf(monitor, f) /\ External'
      BY <1>1, <2>1, <2>3 DEF Observe, Verdict, External
    <3>2. CASE hand
      <4>1. supervisor' = AfterHand(supervisor) /\ ~IsRunning(supervisor)'
        BY <2>1, <3>2, CheckCases, AfterHandFields DEF WatchInv, TypeOK
      <4>2. QED
        BY <1>0, <2>1, <3>1, <3>2, StopMeansIntrusion DEF WatchInv
    <3>3. CASE ~hand /\ ~IsRunning(supervisor)
      <4> HIDE DEF hand
      <4>1. supervisor' = AfterClear(supervisor)
        BY <2>1, <3>3, CheckCases
      <4>2. supervisor'.safety_state # "paused_by_safety"
        BY <3>3, <4>1, AfterClearFields DEF WatchInv, TypeOK
      <4>3. QED
        BY <1>0, <2>1, <2>3, <3>3, <4>2 DEF WatchInv
    <3>4. CASE ~hand /\ IsRunning(supervisor)
      <4> HIDE DEF hand
      <4>1. supervisor' = supervisor
        BY <2>1, <3>4, CheckCases
      <4>2. QED
        BY <1>0, <2>1, <2>3, <3>4, <4>1 DEF WatchInv, IsRunning
    <3>5. QED
      BY <3>2, <3>3, <3>4
  <2>4. QED
    BY <2>2, <2>3
<1>2. ASSUME NEW f \in NextFrames, MonitorRaises(f) PROVE WatchInv'
  BY <1>0, <1>2 DEF MonitorRaises, WatchInv, vars, External, IsRunning
<1>3. CASE UNCHANGED handVars
  BY <1>0, <1>3 DEF handVars, vars, WatchInv, External, IsRunning
<1>4. QED
  BY <1>1, <1>2, <1>3, HandStepCases

\* The camera monitor pauses for a hand in its workspace and for nothing else:
\* never without a workspace, and never with a report that shows none.
THEOREM PausesOnlyForHand == HandSpec => []PausesOnlyForWatchedHand
<1>1. WatchInv => PausesOnlyForWatchedHand
  BY DEF WatchInv, PausesOnlyForWatchedHand
<1>2. QED
  BY <1>1, WatchInit, WatchStep, HandSafetyDrivesSupervisor, SupervisorInvariant, PTL
     DEF HandSpec
----------------------------------------------------------------------------
(* What a scheduled intrusion costs.                                       *)

Scheduled == ~External /\ monitor.active /\ monitor.start < monitor.end

\* Where the supervisor is before, during and after the scheduled steps.
BeforeHand == IsRunning(supervisor) /\ supervisor.pause_count = 0 /\ supervisor.paused_steps = 0
DuringHand ==
  /\ ~IsRunning(supervisor) /\ supervisor.stable_clear_steps = 0
  /\ supervisor.pause_count = 1 /\ supervisor.paused_steps = checks - monitor.start
Resuming ==
  /\ ~IsRunning(supervisor) /\ supervisor.stable_clear_steps = checks - monitor.end
  /\ supervisor.pause_count = 1 /\ supervisor.paused_steps = checks - monitor.start
Resumed ==
  /\ IsRunning(supervisor) /\ supervisor.pause_count = 1
  /\ supervisor.paused_steps = monitor.end + ClearChecksToResume - monitor.start

Progress ==
  /\ monitor.start \in Nat /\ monitor.end \in Nat
  /\ checks <= monitor.start => BeforeHand
  /\ monitor.start < checks /\ checks <= monitor.end => DuringHand
  /\ monitor.end < checks /\ checks < monitor.end + ClearChecksToResume => Resuming
  /\ monitor.end + ClearChecksToResume <= checks => Resumed

ScheduleInv == MonitorTypeOK /\ TypeOK /\ (Scheduled => Progress)

LEMMA ScheduleInit == HandInit => ScheduleInv
<1> SUFFICES ASSUME HandInit PROVE ScheduleInv
  OBVIOUS
<1>1. WatchInv /\ checks = 0 /\ BeforeHand
  BY WatchInit DEF HandInit, Init, InitialSupervisor, IsRunning, BeforeHand
<1>2. ASSUME Scheduled PROVE monitor.start \in Nat /\ monitor.end \in Nat
  BY <1>1, <1>2, MockStepsAssumption
     DEF WatchInv, MonitorTypeOK, Scheduled, External, ExternalMonitors, MockMonitors
<1>3. QED
  BY <1>1, <1>2, ClearChecksPositive DEF WatchInv, ScheduleInv, Scheduled, Progress

LEMMA ScheduleStep == ScheduleInv /\ TypeOK' /\ [HandNext]_handVars => ScheduleInv'
<1> SUFFICES ASSUME ScheduleInv, TypeOK', [HandNext]_handVars PROVE ScheduleInv'
  OBVIOUS
<1>0. MonitorTypeOK'
  BY MonitorTypeStep DEF ScheduleInv
<1>1. ASSUME NEW f \in NextFrames, Observe(f) PROVE ScheduleInv'
  <2> DEFINE hand == Verdict(f) = "stop"
  <2>1. monitor' = monitor /\ Check(hand) /\ hand \in BOOLEAN /\ checks' = checks + 1
    BY <1>1 DEF Observe, Check
  <2>2. SUFFICES ASSUME Scheduled PROVE Progress'
    BY <1>0, <2>1 DEF ScheduleInv, Scheduled, External
  <2>3. /\ Progress /\ checks \in Nat /\ supervisor \in SupervisorRecords
        /\ monitor.start \in Nat /\ monitor.end \in Nat /\ monitor.start < monitor.end
    BY <2>2 DEF ScheduleInv, TypeOK, Scheduled, Progress
  <2>4. hand <=> monitor.start <= checks /\ checks < monitor.end
    BY <2>2 DEF Scheduled, Verdict, MockVerdict
  <2> HIDE DEF hand
  <2>5. CASE hand
    <3>1. supervisor' = AfterHand(supervisor)
      BY <2>1, <2>5, CheckCases
    <3>2. DuringHand'
      BY <2>1, <2>3, <2>4, <2>5, <3>1, AfterHandFields, SMT
         DEF Progress, BeforeHand, DuringHand, IsRunning, SupervisorRecords
    <3>3. QED
      BY <2>1, <2>3, <2>4, <2>5, <3>2, ClearChecksPositive, SMT DEF Progress
  <2>6. CASE ~hand /\ ~IsRunning(supervisor)
    <3>1. supervisor' = AfterClear(supervisor)
      BY <2>1, <2>6, CheckCases
    <3>2. /\ monitor.end <= checks /\ checks < monitor.end + ClearChecksToResume
          /\ supervisor.stable_clear_steps = checks - monitor.end
          /\ supervisor.pause_count = 1 /\ supervisor.paused_steps = checks - monitor.start
      BY <2>3, <2>4, <2>6, ClearChecksPositive, SMT
         DEF Progress, BeforeHand, DuringHand, Resuming, Resumed
    <3>3. IF checks' = monitor.end + ClearChecksToResume THEN Resumed' ELSE Resuming'
      BY <2>1, <2>3, <2>6, <3>1, <3>2, AfterClearFields, ClearChecksPositive, SMT
         DEF Resumed, Resuming, IsRunning
    <3>4. QED
      BY <2>1, <2>3, <3>2, <3>3, ClearChecksPositive, SMT DEF Progress
  <2>7. CASE ~hand /\ IsRunning(supervisor)
    <3>1. supervisor' = supervisor
      BY <2>1, <2>7, CheckCases
    <3>2. checks < monitor.start \/ monitor.end + ClearChecksToResume <= checks
      BY <2>3, <2>4, <2>7, ClearChecksPositive, SMT DEF Progress, DuringHand, Resuming
    <3>3. QED
      BY <2>1, <2>3, <3>1, <3>2, ClearChecksPositive, SMT
         DEF Progress, BeforeHand, Resumed, IsRunning
  <2>8. QED
    BY <2>5, <2>6, <2>7
<1>2. ASSUME UNCHANGED <<vars, monitor>> PROVE ScheduleInv'
  BY <1>0, <1>2
     DEF vars, ScheduleInv, Scheduled, External, Progress, BeforeHand, DuringHand, Resuming,
         Resumed, IsRunning
<1>3. ASSUME NEW f \in NextFrames, MonitorRaises(f) PROVE ScheduleInv'
  BY <1>2, <1>3 DEF MonitorRaises
<1>4. CASE UNCHANGED handVars
  BY <1>2, <1>4 DEF handVars
<1>5. QED
  BY <1>1, <1>3, <1>4, HandStepCases

\* An intrusion scheduled for the steps start..end-1 costs those steps and the
\* clear checks after them, and is one pause.
THEOREM ScheduledIntrusionCost == HandSpec => []ScheduledPauseCost
<1>1. ScheduleInv => ScheduledPauseCost
  <2> SUFFICES ASSUME ScheduleInv, Scheduled, checks > monitor.start
               PROVE  /\ supervisor.pause_count = 1
                      /\ supervisor.paused_steps =
                           Least(checks, monitor.end + ClearChecksToResume) - monitor.start
    BY DEF ScheduledPauseCost, Scheduled
  <2>1. QED
    BY ClearChecksPositive, SMT
       DEF ScheduleInv, TypeOK, Progress, DuringHand, Resuming, Resumed, Least
<1>2. QED
  BY <1>1, ScheduleInit, ScheduleStep, HandSafetyDrivesSupervisor, SupervisorInvariant, PTL
     DEF HandSpec
=============================================================================
