---------------------------- MODULE HandMonitor ----------------------------
(***************************************************************************)
(* The monitors a SafetyGate asks for a hand, as operators: the one that   *)
(* follows a schedule of steps (safety/mock_hand_intrusion_monitor.py) and *)
(* the one that looks at camera frames                                     *)
(* (safety/external_camera_hand_monitor.py).                               *)
(*                                                                         *)
(* A frame is the set of the hand landmarks the detector finds in it, a    *)
(* polygon the set of image points inside it or on its edge.               *)
(***************************************************************************)
EXTENDS Naturals

CONSTANTS
  ImagePoints,                 \* points of the image, as far as polygons tell them apart
  ArucoPolygon,                \* inside the polygon through the four marker centers
  RoiPolygon                   \* inside the rectangle of the config's "roi"

ASSUME PolygonAssumption == ArucoPolygon \subseteq ImagePoints /\ RoiPolygon \subseteq ImagePoints

Frames == SUBSET ImagePoints
NoPolygon == [valid |-> FALSE, points |-> {}]
Polygon(points) == [valid |-> TRUE, points |-> points]

\* What a monitor answers; "raises" when it cannot look at all.
Verdicts == {"safe", "stop", "raises"}

\* What is fixed when the monitor is made: configuration file, detector, the
\* markers found before the episode, and the frames it will be shown.
ExternalMonitors ==
  [source : {"external-camera"}, detector : BOOLEAN, markersFound : BOOLEAN,
   roiEnabled : BOOLEAN, pauseIfHand : BOOLEAN, live : BOOLEAN]
MockMonitors(steps) ==
  [source : {"mock"}, start : steps, end : steps, active : BOOLEAN]

\* Mutants: the ROI is not consulted; a missing polygon stops for any hand.
WorkspaceWithoutRoi(m) == IF m.markersFound THEN Polygon(ArucoPolygon) ELSE NoPolygon
WorkspaceOrWholeImage(m) ==
  IF m.markersFound THEN Polygon(ArucoPolygon) ELSE Polygon(ImagePoints)

\* _resolve_workspace_polygon()
Workspace(m) ==
  IF m.markersFound THEN Polygon(ArucoPolygon)
  ELSE IF m.roiEnabled THEN Polygon(RoiPolygon)
  ELSE NoPolygon

\* Intrusion points of a frame.
Intrusion(m, frame) == frame \intersect Workspace(m).points

\* check_frame(); the detector is only made when the first frame is checked.
ExternalVerdict(m, frame) ==
  IF ~m.detector THEN "raises"
  ELSE IF Intrusion(m, frame) # {} /\ Workspace(m).valid /\ m.pauseIfHand THEN "stop"
  ELSE "safe"

\* last_debug of check_frame()
DebugOf(m, frame) ==
  [handDetected |-> frame # {}, handInWorkspace |-> Intrusion(m, frame) # {},
   workspaceValid |-> Workspace(m).valid]

\* Mutant: the end step still belongs to the intrusion.
MockVerdictInclusive(m, step) ==
  IF m.active /\ m.start <= step /\ step <= m.end THEN "stop" ELSE "safe"

\* MockHandIntrusionMonitor.check() after set_step(step)
MockVerdict(m, step) ==
  IF m.active /\ m.start <= step /\ step < m.end THEN "stop" ELSE "safe"
=============================================================================
