---------------------------- MODULE So101Backend ----------------------------
(***************************************************************************)
(* So101PyBulletBackend of robot_sim/so101_pybullet_backend.py: the life   *)
(* of a backend object over several physics clients, its reset() in the    *)
(* steps between which it can raise, the distance- and gripper-triggered   *)
(* grasp, and the check of the initial scene.                              *)
(*                                                                         *)
(* backend holds attributes of the Python object; an id is the number of   *)
(* the client it belongs to, 0 for None.  engine is what exists in the     *)
(* connected client of the physics engine; it is external.                 *)
(***************************************************************************)
EXTENDS So101Scene

CONSTANTS
  Configs,                     \* arguments of the constructor
  Wobbles,                     \* what settling moves an object by, in mm
  MaxClients                   \* bound: physics clients of a behaviour

\* An optional argument is <<>>, or its value in a tuple of one.
None == <<>>

Points == [x : Int, y : Int]

ASSUME So101Assumption ==
  /\ Wobbles \subseteq Int /\ MaxClients \in Nat
  /\ \A c \in Configs :
       /\ c.useBin \in BOOLEAN /\ c.urdf \in BOOLEAN /\ c.half \in Nat
       /\ c.offset = None \/ c.offset[1] \in Points
       /\ c.footprint = None \/ c.footprint[1] \in Points
       /\ c.binCenter = None \/ c.binCenter[1] \in Points
       /\ c.spawn \in [x : Int, y : Int, z : Int]

VARIABLES
  config,                      \* constructor arguments; None: not given
  stage,                       \* how far the last reset() came
  clients,                     \* clients connected so far
  backend, engine

vars == <<config, stage, clients, backend, engine>>

Stages == {"new", "posing", "building", "validating", "ready", "invalid", "broken", "closed"}

\* A reset is over; anything may be called next.
Idle == stage \in {"new", "ready", "invalid", "broken", "closed"}
\* The calls on robot and object have both.
Usable == stage \in {"ready", "invalid"}

\* Explicit override, else the bin's default, else the flat one.
Offset(c) == IF c.offset # None THEN c.offset[1] ELSE IF c.useBin THEN DefaultBinOffset ELSE FlatOffset

\* Mutant: the bin stands on the table of the flat scene.
FootprintOfFlatScene(c) == IF c.footprint # None THEN c.footprint[1] ELSE FlatFootprint

Footprint(c) ==
  IF c.footprint # None THEN c.footprint[1]
  ELSE IF c.useBin THEN DefaultBinFootprint ELSE FlatFootprint

NoXY == [x |-> 0, y |-> 0]
NoObject == [x |-> 0, y |-> 0, z |-> 0]

Init ==
  /\ config \in Configs
  /\ stage = "new" /\ clients = 0
  /\ backend = [client |-> 0, object |-> 0, bin |-> 0, constraint |-> 0, grasped |-> FALSE,
                offset |-> Offset(config), center |-> NoXY, initial |-> NoObject, failures |-> {}]
  /\ engine = [object |-> FALSE, held |-> FALSE, near |-> FALSE, opening |-> "between"]
----------------------------------------------------------------------------
(* reset()                                                                 *)

\* Mutant: the id of the object is left over from the last client.
ClearedKeepingObject(b) ==
  [b EXCEPT !.bin = 0, !.constraint = 0, !.grasped = FALSE, !.center = NoXY, !.failures = {}]

\* What reset() forgets before it connects again.
Cleared(b) ==
  [b EXCEPT !.object = 0, !.bin = 0, !.constraint = 0, !.grasped = FALSE, !.center = NoXY,
            !.failures = {}]

\* Lines up to the new connection and the checks of the URDF file; config.urdf
\* says that it exists and has the joints and the link that are looked for.
BeginReset ==
  /\ Idle /\ clients < MaxClients
  /\ backend.constraint # 0 => backend.client # 0
  /\ clients' = clients + 1
  /\ backend' = [Cleared(backend) EXCEPT !.client = clients + 1]
  /\ engine' = [object |-> FALSE, held |-> FALSE, near |-> FALSE, opening |-> "between"]
  /\ stage' = IF config.urdf THEN "posing" ELSE "broken"
  /\ UNCHANGED config

\* close() has left a constraint id behind: removeConstraint() gets None for
\* a client and raises a TypeError, which is not a p.error.
ResetAfterCloseRaises ==
  /\ Idle /\ backend.constraint # 0 /\ backend.client = 0
  /\ stage' = "broken"
  /\ UNCHANGED <<config, clients, backend, engine>>

\* _maybe_trigger_grasp() asks for the pose of an object that does not exist.
AsksForMissingObject(b, e) == ~b.grasped /\ b.object # 0 /\ ~e.object

Releases(b, e) == b.grasped /\ e.opening = "open"

\* _maybe_release_grasp()
Detached(b) == [b EXCEPT !.constraint = 0, !.grasped = FALSE]

\* Neutral pose, then set_gripper(1.0), in which a grasp is first looked for
\* and then released.
PoseRobot ==
  /\ stage = "posing"
  /\ engine' = [engine EXCEPT !.opening = "open"]
  /\ IF AsksForMissingObject(backend, engine)
     THEN stage' = "broken" /\ backend' = backend
     ELSE /\ stage' = "building"
          /\ backend' = IF Releases(backend, engine') THEN Detached(backend) ELSE backend
  /\ UNCHANGED <<config, clients>>

\* Where an object comes to rest: on the table if its middle is over it, else
\* on the ground; OBJECT_SETTLE_STEPS are a quarter of a second, in which it
\* falls no further than this.
SettleFall == 306
Support(c, p) ==
  IF /\ p.x \in SurfaceCenter.x - Footprint(c).x..SurfaceCenter.x + Footprint(c).x
     /\ p.y \in SurfaceCenter.y - Footprint(c).y..SurfaceCenter.y + Footprint(c).y
  THEN SurfaceHeight ELSE 0
SettledBottom(c, p) ==
  IF p.z - SettleFall > Support(c, p) THEN p.z - SettleFall ELSE Support(c, p)

\* The target zone, coupled to the settled object or at a fixed place; that is
\* looked at without a bin, too.
Placed(b, c, settled) ==
  IF c.binCenter # None
  THEN [b EXCEPT !.center = c.binCenter[1],
                 !.offset = [x |-> c.binCenter[1].x - settled.x, y |-> c.binCenter[1].y - settled.y]]
  ELSE [b EXCEPT !.center = Shift(settled, b.offset.x, b.offset.y)]

\* Table, object, settling, target zone, and the bin if there is one.
BuildScene ==
  /\ stage = "building"
  /\ \E dx, dy \in Wobbles :
       LET at == [config.spawn EXCEPT !.x = @ + dx, !.y = @ + dy]
           settled == [at EXCEPT !.z = SettledBottom(config, at)]
       IN backend' = [Placed(backend, config, settled) EXCEPT
                        !.object = backend.client, !.initial = settled,
                        !.bin = IF config.useBin THEN backend.client ELSE 0]
  /\ engine' = [engine EXCEPT !.object = TRUE]
  /\ stage' = IF config.useBin THEN "validating" ELSE "ready"
  /\ UNCHANGED <<config, clients>>

ObjectBox(b, c) == BoxOn(b.initial, c.half, c.half, b.initial.z, ObjectHeight)

\* The neutral arm with its hand above the middle of the table.
ArmBox == BoxOn([x |-> 391, y |-> 0], 60, 40, 160, 200)

\* validate_initial_scene_layout(), the last thing reset() does.
Validate ==
  /\ stage = "validating"
  /\ LET object == ObjectBox(backend, config)
         failures ==
           LayoutFailures(object, backend.center, Footprint(config), Overlap(object, ArmBox))
     IN /\ backend' = [backend EXCEPT !.failures = failures]
        /\ stage' = IF failures = {} THEN "ready" ELSE "invalid"
  /\ UNCHANGED <<config, clients, engine>>
----------------------------------------------------------------------------
(* Commands of an episode, and close().                                    *)

\* command_joint_positions() and command_end_effector_delta(): a held object
\* comes along, and the fingers may go on towards the last command.
Move(near, opening) ==
  /\ Usable
  /\ engine' = [engine EXCEPT !.near = IF engine.held THEN @ ELSE near, !.opening = opening]
  /\ UNCHANGED <<config, stage, clients, backend>>

Triggers(b, e) == ~b.grasped /\ b.object # 0 /\ e.near /\ e.opening = "closed"

\* _maybe_trigger_grasp()
Attached(b) == [b EXCEPT !.constraint = b.client, !.grasped = TRUE]

\* set_gripper(): opening is what is measured once the fingers have moved,
\* closed at most 0.15, open at least 0.85.
SetGripper(opening) ==
  /\ Usable
  /\ LET e == [engine EXCEPT !.opening = opening]
     IN CASE Triggers(backend, e) ->
               /\ backend' = Attached(backend) /\ engine' = [e EXCEPT !.held = TRUE]
          [] Releases(backend, e) ->
               /\ backend' = Detached(backend) /\ engine' = [e EXCEPT !.held = FALSE]
          [] OTHER -> backend' = backend /\ engine' = e
  /\ UNCHANGED <<config, stage, clients>>

\* close() forgets the client and nothing else.
Close ==
  /\ Idle /\ backend.client # 0
  /\ backend' = [backend EXCEPT !.client = 0]
  /\ engine' = [engine EXCEPT !.object = FALSE, !.held = FALSE]
  /\ stage' = "closed"
  /\ UNCHANGED <<config, clients>>
----------------------------------------------------------------------------

Openings == {"closed", "between", "open"}

Reset == BeginReset \/ ResetAfterCloseRaises \/ PoseRobot \/ BuildScene \/ Validate
Command ==
  \/ \E near \in BOOLEAN, opening \in Openings : Move(near, opening)
  \/ \E opening \in Openings : SetGripper(opening)

Next == Reset \/ Command \/ Close

Spec == Init /\ [][Next]_vars
----------------------------------------------------------------------------

\* Comments of reset() on stale ids: while a client is connected, the flag
\* is_grasped() reports is the constraint there is in that client, and the
\* ids of object, bin and constraint belong to it.  A reset() that fails does
\* so for want of the URDF file, or because the client was closed with the
\* object in the gripper; rejected scenes, resets in the middle of a grasp and
\* closing after a release leave nothing behind that makes a later one fail.
GraspIsReal ==
  /\ backend.client # 0 =>
       /\ backend.grasped = engine.held
       /\ (backend.grasped => backend.constraint = backend.client /\ engine.object)
       /\ {backend.object, backend.bin} \subseteq {0, backend.client}
       /\ (backend.object # 0 => engine.object)
  /\ (backend.constraint # 0 => backend.grasped)
  /\ (stage = "broken" => ~config.urdf \/ (backend.client = 0 /\ backend.grasped))

\* A scene an episode can start from: the object lies on the table, clear of
\* all the bin encloses and of the arm, and the bin stands on the table.
Sound ==
  LET object == ObjectBox(backend, config)
      bin == BinBox(backend.center)
  IN /\ object.z.lo = SurfaceHeight
     /\ Within(object, Table(Footprint(config))) /\ Within(bin, Table(Footprint(config)))
     /\ ~Overlap(object, bin) /\ ~Overlap(object, ArmBox)

\* What data collection makes: bins at their default, or fixed, place and an
\* object up to a centimetre (one and a half) from the middle.
AwayBy(p, d) == Near(p.x, SurfaceCenter.x, d) /\ Near(p.y, SurfaceCenter.y, d)
Collected(c) ==
  /\ c.useBin /\ c.offset = None /\ c.spawn.z = SurfaceHeight
  /\ \/ c.binCenter = None /\ c.footprint = None /\ c.half = 20 /\ AwayBy(c.spawn, 10)
     \/ /\ c.binCenter = <<Shift(SurfaceCenter, 30, 130)>>
        /\ c.footprint = <<[x |-> 190, y |-> 220]>>
        /\ c.half <= 24 /\ AwayBy(c.spawn, 15)

\* Comments on DEFAULT_BIN_SURFACE_FOOTPRINT_XY: reset() accepts sound scenes
\* and no others, and those of data collection are sound with their margins.
LayoutVerdictIsRight ==
  /\ stage = "ready" /\ config.useBin => Sound
  /\ stage = "invalid" => ~Sound /\ ~Collected(config)
=============================================================================
