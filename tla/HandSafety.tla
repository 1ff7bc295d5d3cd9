----------------------------- MODULE HandSafety -----------------------------
(***************************************************************************)
(* A hand monitor behind a SafetyGate, and the SafetySupervisor it feeds:  *)
(* the safety half of an iteration of run_dummy_openvla_policy().  The     *)
(* monitor is set up once; every iteration gets the next frame, or the     *)
(* frame taken before the episode when no live camera could be opened.     *)
(***************************************************************************)
EXTENDS SupervisorChecks, HandMonitor

CONSTANT MockSteps             \* steps a mock intrusion may start and end at
ASSUME MockStepsAssumption == MockSteps \subseteq Nat

VARIABLES monitor,             \* the monitor and its configuration
          taskFrame,           \* the frame taken before the episode
          frame,               \* the frame of the last check
          debug,               \* last_debug of the external-camera monitor
          aborted              \* an exception of the monitor ended the episode

handVars == <<vars, monitor, taskFrame, frame, debug, aborted>>

NoDebug == [handDetected |-> FALSE, handInWorkspace |-> FALSE, workspaceValid |-> FALSE]

\* create_hand_safety_monitor()
HandInit ==
  /\ Init
  /\ monitor \in ExternalMonitors \cup MockMonitors(MockSteps)
  /\ taskFrame \in Frames
  /\ frame = taskFrame
  /\ debug = NoDebug /\ aborted = FALSE

External == monitor.source = "external-camera"

\* The frames the provider can return at this step.
NextFrames == IF External /\ monitor.live THEN Frames ELSE {taskFrame}

Verdict(f) == IF External THEN ExternalVerdict(monitor, f) ELSE MockVerdict(monitor, checks)

\* set_step(), SafetyGate.check() and SafetySupervisor.step() of an iteration.
Observe(f) ==
  /\ ~aborted /\ Verdict(f) # "raises"
  /\ Check(Verdict(f) = "stop")
  /\ frame' = f
  /\ debug' = IF External THEN DebugOf(monitor, f) ELSE debug
  /\ UNCHANGED <<monitor, taskFrame, aborted>>

\* The detector cannot be made: check_frame() raises out of the loop.
MonitorRaises(f) ==
  /\ ~aborted /\ checks < MaxChecks /\ Verdict(f) = "raises"
  /\ aborted' = TRUE
  /\ frame' = f
  /\ UNCHANGED <<vars, monitor, taskFrame, debug>>

HandNext == \E f \in NextFrames : Observe(f) \/ MonitorRaises(f)

HandSpec == HandInit /\ [][HandNext]_handVars
----------------------------------------------------------------------------

\* Types of the monitor's state and of the supervisor's.
HandTypeOK ==
  /\ TypeOK
  /\ monitor \in ExternalMonitors \cup MockMonitors(MockSteps)
  /\ taskFrame \in Frames /\ frame \in Frames
  /\ debug \in [handDetected : BOOLEAN, handInWorkspace : BOOLEAN, workspaceValid : BOOLEAN]
  /\ aborted \in BOOLEAN

\* Where the monitor is meant to look: the table between the markers, else the
\* rectangle of the configuration, else nowhere.
Watched(p) ==
  \/ monitor.markersFound /\ p \in ArucoPolygon
  \/ ~monitor.markersFound /\ monitor.roiEnabled /\ p \in RoiPolygon

\* An action is let through only on a frame that was looked at, with a detector,
\* and that shows no landmark where the monitor is meant to look.
ActsOnlyOnClearFrame ==
  [][External /\ acted' # acted =>
       /\ monitor.detector
       /\ monitor.pauseIfHand => \A p \in frame' : ~Watched(p)]_handVars

\* docs/architecture.md, hand safety: without markers and without a ROI the
\* workspace is recorded as not valid and the robot never pauses, whatever is
\* in the frames.  What a paused program reports names the reason: the last
\* frame of a pause that is not resuming has a hand in a valid workspace.
PausesOnlyForWatchedHand ==
  External =>
    /\ (~monitor.markersFound /\ ~monitor.roiEnabled => supervisor.pause_count = 0)
    /\ (supervisor.safety_state = "paused_by_safety" =>
          debug.workspaceValid /\ debug.handInWorkspace /\ monitor.pauseIfHand)

Least(i, j) == IF i < j THEN i ELSE j

\* A scheduled intrusion of steps start..end-1 costs exactly those steps and
\* the clear checks after them, and one pause, whenever the program looks.
ScheduledPauseCost ==
  ~External /\ monitor.active /\ monitor.start < monitor.end /\ checks > monitor.start =>
    /\ supervisor.pause_count = 1
    /\ supervisor.paused_steps =
         Least(checks, monitor.end + ClearChecksToResume) - monitor.start
=============================================================================
