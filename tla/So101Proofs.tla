----------------------------- MODULE So101Proofs -----------------------------
(***************************************************************************)
(* Proofs about the SO-101 backend: what its flags and ids say of the      *)
(* physics engine, where its target is, and which scenes it accepts, for   *)
(* every set of configurations and any number of resets.                   *)
(***************************************************************************)
EXTENDS So101Backend, TLAPS

Connected == {"posing", "building", "validating", "ready", "invalid"}
Built == {"validating", "ready", "invalid"}

Places == [x : Int, y : Int, z : Int]
Backends ==
  [client : Nat, object : Nat, bin : Nat, constraint : Nat, grasped : BOOLEAN,
   offset : Points, center : Points, initial : Places, failures : SUBSET FailureTypes]
Engines == [object : BOOLEAN, held : BOOLEAN, near : BOOLEAN, opening : Openings]

BackendTypes ==
  /\ config \in Configs /\ stage \in Stages /\ clients \in Nat
  /\ backend \in Backends /\ engine \in Engines

\* What the flags and ids say, between any two steps.
IdsAgree ==
  /\ backend.client # 0 =>
       /\ backend.grasped = engine.held
       /\ backend.constraint = (IF backend.grasped THEN backend.client ELSE 0)
       /\ backend.object \in {0, backend.client} /\ backend.bin \in {0, backend.client}
       /\ (backend.object # 0 <=> engine.object)
       /\ (backend.grasped => backend.object # 0)
  /\ stage \in Connected => backend.client # 0
  /\ stage \in {"posing", "building"} => backend.object = 0 /\ ~backend.grasped
  /\ stage \in Built => backend.object # 0
  /\ backend.constraint # 0 => backend.grasped
  /\ stage = "broken" => ~config.urdf \/ (backend.client = 0 /\ backend.grasped)

LEMMA DefaultsTyped ==
  ASSUME NEW c \in Configs
  PROVE  Offset(c) \in Points /\ Footprint(c) \in Points
BY So101Assumption
   DEF Offset, Footprint, Points, FlatOffset, FlatFootprint, DefaultBinOffset, DefaultBinFootprint

LEMMA IdsInit == Init => BackendTypes /\ IdsAgree
<1> SUFFICES ASSUME Init PROVE BackendTypes /\ IdsAgree
  OBVIOUS
<1>1. Offset(config) \in Points /\ NoXY \in Points /\ NoObject \in Places
  BY DefaultsTyped DEF Init, NoXY, NoObject, Points, Places
<1>2. BackendTypes
  BY <1>1 DEF Init, BackendTypes, Stages, Backends, Engines, Openings
<1>3. IdsAgree
  <2>1. backend.client = 0 /\ backend.object = 0 /\ backend.constraint = 0 /\ stage = "new"
    BY DEF Init
  <2>2. QED
    BY <2>1 DEF IdsAgree, Connected, Built
<1>4. QED
  BY <1>2, <1>3

\* What reset() leaves of the attributes when it has connected again.
LEMMA ClearedFields ==
  ASSUME NEW b \in Backends, NEW n \in Nat
  PROVE  LET r == [Cleared(b) EXCEPT !.client = n]
         IN /\ r \in Backends
            /\ r.client = n /\ r.object = 0 /\ r.bin = 0 /\ r.constraint = 0 /\ r.grasped = FALSE
<1>1. NoXY \in Points /\ {} \in SUBSET FailureTypes
  BY DEF NoXY, Points
<1>2. QED
  BY <1>1 DEF Backends, Cleared

LEMMA BeginResetKeeps ==
  ASSUME BackendTypes, IdsAgree, BeginReset PROVE BackendTypes' /\ IdsAgree'
<1>1. backend' = [Cleared(backend) EXCEPT !.client = clients + 1] /\ clients' = clients + 1
  BY DEF BeginReset
<1>2. /\ backend' \in Backends /\ backend'.client = clients + 1 /\ backend'.object = 0
      /\ backend'.bin = 0 /\ backend'.constraint = 0 /\ backend'.grasped = FALSE
  <2>1. backend \in Backends /\ clients + 1 \in Nat
    BY DEF BackendTypes
  <2>2. QED
    BY <1>1, <2>1, ClearedFields
<1>3. /\ engine' = [object |-> FALSE, held |-> FALSE, near |-> FALSE, opening |-> "between"]
      /\ stage' = (IF config.urdf THEN "posing" ELSE "broken") /\ config' = config
  BY DEF BeginReset
<1>4. BackendTypes'
  BY <1>1, <1>2, <1>3 DEF BackendTypes, Stages, Engines, Openings
<1>5. IdsAgree'
  <2>1. clients + 1 # 0
    BY DEF BackendTypes
  <2>2. engine'.held = FALSE /\ engine'.object = FALSE
    BY <1>3
  <2>3. stage' = "posing" \/ (stage' = "broken" /\ ~config'.urdf)
    BY <1>3
  <2>4. QED
    BY <1>2, <2>1, <2>2, <2>3 DEF IdsAgree, Connected, Built
<1>6. QED
  BY <1>4, <1>5

LEMMA PlacedFields ==
  ASSUME BackendTypes, NEW settled \in Places
  PROVE  LET b == Placed(backend, config, settled)
         IN /\ b.offset \in Points /\ b.center \in Points
            /\ b = [backend EXCEPT !.offset = b.offset, !.center = b.center]
            /\ Shift(settled, b.offset.x, b.offset.y) = b.center
            /\ config.binCenter # None => b.center = config.binCenter[1]
<1> DEFINE b == Placed(backend, config, settled)
<1>1. CASE config.binCenter # None
  <2> DEFINE at == config.binCenter[1]
             off == [x |-> at.x - settled.x, y |-> at.y - settled.y]
  <2>1. at \in Points
    BY <1>1, So101Assumption DEF BackendTypes
  <2>2. off \in Points /\ Shift(settled, off.x, off.y) = at
    BY <2>1 DEF Places, Points, Shift
  <2>3. b = [backend EXCEPT !.center = at, !.offset = off]
    BY <1>1 DEF Placed
  <2> HIDE DEF at, off
  <2>4. b.center = at /\ b.offset = off /\ b = [backend EXCEPT !.offset = off, !.center = at]
    BY <2>3 DEF BackendTypes, Backends
  <2>5. QED
    BY <2>1, <2>2, <2>4 DEF at
<1>2. CASE config.binCenter = None
  <2> DEFINE off == backend.offset
             at == Shift(settled, off.x, off.y)
  <2>1. off \in Points /\ at \in Points
    BY DEF BackendTypes, Backends, Places, Points, Shift
  <2>2. b = [backend EXCEPT !.center = at]
    BY <1>2 DEF Placed
  <2>3. QED
    BY <1>2, <2>1, <2>2 DEF BackendTypes, Backends
<1>3. QED
  BY <1>1, <1>2

\* Where the target is once there is one.
TargetAgrees ==
  /\ config.binCenter = None => backend.offset = Offset(config)
  /\ stage \in Built =>
       /\ Shift(backend.initial, backend.offset.x, backend.offset.y) = backend.center
       /\ config.binCenter # None => backend.center = config.binCenter[1]

\* Where the object is, and what the check of the scene said.
SettledFor(c, initial) ==
  \E dx, dy \in Wobbles :
    LET at == [c.spawn EXCEPT !.x = @ + dx, !.y = @ + dy]
    IN initial = [at EXCEPT !.z = SettledBottom(c, at)]
FailuresNow ==
  LayoutFailures(ObjectBox(backend, config), backend.center, Footprint(config),
                 Overlap(ObjectBox(backend, config), ArmBox))
VerdictAgrees ==
  /\ stage \in Built => SettledFor(config, backend.initial)
  /\ stage = "ready" /\ config.useBin => FailuresNow = {}
  /\ stage = "invalid" => config.useBin /\ FailuresNow # {}
  /\ stage = "validating" => config.useBin

IInv == BackendTypes /\ IdsAgree /\ TargetAgrees /\ VerdictAgrees

\* The attributes that the scene is made of.
SceneKept ==
  /\ config' = config
  /\ backend'.initial = backend.initial /\ backend'.center = backend.center
  /\ backend'.offset = backend.offset

LEMMA SceneFrame ==
  ASSUME SceneKept PROVE (FailuresNow' = FailuresNow)
BY DEF SceneKept, FailuresNow, ObjectBox, Footprint

LEMMA KeptScene ==
  ASSUME IInv, SceneKept, stage' \in Built => stage' = stage
  PROVE  TargetAgrees' /\ VerdictAgrees'
<1>1. TargetAgrees'
  BY DEF IInv, TargetAgrees, SceneKept, Built
<1>2. VerdictAgrees'
  BY SceneFrame DEF IInv, VerdictAgrees, SceneKept, Built
<1>3. QED
  BY <1>1, <1>2

LEMMA BuildSceneKeeps ==
  ASSUME IInv, BuildScene PROVE IInv'
<1> USE DEF IInv
<1>1. PICK dx, dy \in Wobbles :
        LET at == [config.spawn EXCEPT !.x = @ + dx, !.y = @ + dy]
            settled == [at EXCEPT !.z = SettledBottom(config, at)]
        IN backend' = [Placed(backend, config, settled) EXCEPT
                         !.object = backend.client, !.initial = settled,
                         !.bin = IF config.useBin THEN backend.client ELSE 0]
  BY DEF BuildScene
<1> DEFINE at == [config.spawn EXCEPT !.x = @ + dx, !.y = @ + dy]
           settled == [at EXCEPT !.z = SettledBottom(config, at)]
           b == Placed(backend, config, settled)
<1>2. config \in Configs /\ config.spawn \in Places /\ dx \in Int /\ dy \in Int
  BY So101Assumption DEF BackendTypes, Places
<1>3. settled \in Places
  <2>1. at \in Places
    <3>1. config.spawn.x + dx \in Int /\ config.spawn.y + dy \in Int
      BY <1>2 DEF Places
    <3>2. QED
      BY <1>2, <3>1 DEF Places
  <2> HIDE DEF at
  <2>2. SettledBottom(config, at) \in Int
    <3>1. Support(config, at) \in Int /\ at.z \in Int
      BY <2>1 DEF Places, Support, SurfaceHeight
    <3>2. QED
      BY <3>1 DEF SettledBottom, SettleFall
  <2>3. QED
    BY <2>1, <2>2 DEF Places
<1>4. backend' = [b EXCEPT !.object = backend.client, !.initial = settled,
                           !.bin = IF config.useBin THEN backend.client ELSE 0]
  BY <1>1
<1>5. SettledFor(config, settled)
  BY DEF SettledFor
<1> HIDE DEF settled
<1>6. /\ b.offset \in Points /\ b.center \in Points
      /\ b = [backend EXCEPT !.offset = b.offset, !.center = b.center]
      /\ Shift(settled, b.offset.x, b.offset.y) = b.center
      /\ config.binCenter # None => b.center = config.binCenter[1]
  BY <1>3, PlacedFields
<1>7. config.binCenter = None => b.offset = backend.offset
  BY DEF Placed, BackendTypes, Backends
<1> HIDE DEF b
<1>8. /\ backend' \in Backends /\ backend'.client = backend.client
      /\ backend'.object = backend.client /\ backend'.bin \in {0, backend.client}
      /\ backend'.constraint = backend.constraint /\ backend'.grasped = backend.grasped
      /\ backend'.offset = b.offset /\ backend'.center = b.center /\ backend'.initial = settled
  BY <1>3, <1>4, <1>6 DEF BackendTypes, Backends
<1>9. /\ config' = config /\ clients' = clients
      /\ stage = "building" /\ stage' = (IF config.useBin THEN "validating" ELSE "ready")
      /\ engine' = [engine EXCEPT !.object = TRUE]
  BY DEF BuildScene
<1>10. engine' \in Engines /\ engine'.object = TRUE /\ engine'.held = engine.held
  BY <1>9 DEF BackendTypes, Engines
<1>11. BackendTypes'
  BY <1>8, <1>9, <1>10 DEF BackendTypes, Stages
<1>12. IdsAgree'
  BY <1>8, <1>9, <1>10 DEF IdsAgree, Connected, Built
<1>13. TargetAgrees'
  BY <1>6, <1>7, <1>8, <1>9 DEF TargetAgrees
<1>14. VerdictAgrees'
  BY <1>5, <1>8, <1>9 DEF VerdictAgrees, Built
<1>15. QED
  BY <1>11, <1>12, <1>13, <1>14

LEMMA ValidateKeeps ==
  ASSUME IInv, Validate PROVE IInv'
<1> USE DEF IInv
<1>1. /\ backend' = [backend EXCEPT !.failures = FailuresNow]
      /\ stage' = (IF FailuresNow = {} THEN "ready" ELSE "invalid")
      /\ config' = config /\ clients' = clients /\ engine' = engine /\ stage = "validating"
  BY DEF Validate, FailuresNow
<1>2. FailuresNow \in SUBSET FailureTypes
  BY DEF FailuresNow, LayoutFailures
<1>3. /\ backend' \in Backends /\ SceneKept /\ backend'.client = backend.client
      /\ backend'.object = backend.object /\ backend'.bin = backend.bin
      /\ backend'.constraint = backend.constraint /\ backend'.grasped = backend.grasped
  BY <1>1, <1>2 DEF BackendTypes, Backends, SceneKept
<1>4. BackendTypes'
  BY <1>1, <1>3 DEF BackendTypes, Stages
<1>5. IdsAgree'
  BY <1>1, <1>3 DEF IdsAgree, Connected, Built
<1>6. TargetAgrees'
  BY <1>1, <1>3 DEF TargetAgrees, SceneKept, Built
<1>7. VerdictAgrees'
  BY <1>1, <1>3, SceneFrame DEF VerdictAgrees, SceneKept, Built
<1>8. QED
  BY <1>4, <1>5, <1>6, <1>7

LEMMA GripperKeeps ==
  ASSUME IInv, NEW opening \in Openings, SetGripper(opening) PROVE IInv'
<1> USE DEF IInv
<1> DEFINE e == [engine EXCEPT !.opening = opening]
<1>1. e \in Engines /\ e.held = engine.held /\ e.object = engine.object
  BY DEF BackendTypes, Engines
<1>2. config' = config /\ stage' = stage /\ clients' = clients /\ Usable
  BY DEF SetGripper
<1>3. CASE Triggers(backend, e)
  <2>1. backend' = [backend EXCEPT !.constraint = backend.client, !.grasped = TRUE]
        /\ engine' = [e EXCEPT !.held = TRUE]
    <3>1. ~Releases(backend, e)
      BY <1>3 DEF Triggers, Releases
    <3>2. QED
      BY <1>3, <3>1 DEF SetGripper, Attached
  <2>2. /\ backend' \in Backends /\ SceneKept /\ backend'.client = backend.client
        /\ backend'.object = backend.object /\ backend'.bin = backend.bin
        /\ backend'.constraint = backend.client /\ backend'.grasped = TRUE
        /\ engine' \in Engines /\ engine'.held = TRUE /\ engine'.object = engine.object
    BY <1>1, <1>2, <2>1 DEF BackendTypes, Backends, Engines, SceneKept
  <2>3. BackendTypes' /\ IdsAgree'
    BY <1>2, <2>2 DEF BackendTypes, IdsAgree, Usable, Connected, Built
  <2>4. QED
    BY <1>2, <2>2, <2>3, KeptScene
<1>4. CASE ~Triggers(backend, e) /\ Releases(backend, e)
  <2>1. backend' = [backend EXCEPT !.constraint = 0, !.grasped = FALSE]
        /\ engine' = [e EXCEPT !.held = FALSE]
    BY <1>4 DEF SetGripper, Detached
  <2>2. /\ backend' \in Backends /\ SceneKept /\ backend'.client = backend.client
        /\ backend'.object = backend.object /\ backend'.bin = backend.bin
        /\ backend'.constraint = 0 /\ backend'.grasped = FALSE
        /\ engine' \in Engines /\ engine'.held = FALSE /\ engine'.object = engine.object
    BY <1>1, <1>2, <2>1 DEF BackendTypes, Backends, Engines, SceneKept
  <2>3. BackendTypes' /\ IdsAgree'
    BY <1>2, <2>2 DEF BackendTypes, IdsAgree, Usable, Connected, Built
  <2>4. QED
    BY <1>2, <2>2, <2>3, KeptScene
<1>5. CASE ~Triggers(backend, e) /\ ~Releases(backend, e)
  <2>1. backend' = backend /\ engine' = e
    BY <1>5 DEF SetGripper
  <2>2. BackendTypes' /\ IdsAgree' /\ SceneKept
    BY <1>1, <1>2, <2>1 DEF BackendTypes, IdsAgree, SceneKept
  <2>3. QED
    BY <1>2, <2>2, KeptScene
<1>6. QED
  BY <1>3, <1>4, <1>5

LEMMA OtherStepsKeep ==
  ASSUME IInv,
         \/ BeginReset \/ ResetAfterCloseRaises \/ PoseRobot \/ Close
         \/ \E near \in BOOLEAN, opening \in Openings : Move(near, opening)
         \/ UNCHANGED vars
  PROVE  IInv'
<1> USE DEF IInv
<1>1. CASE BeginReset
  <2>1. BackendTypes' /\ IdsAgree'
    BY <1>1, BeginResetKeeps
  <2>2. stage' \notin Built /\ config' = config /\ backend'.offset = backend.offset
    BY <1>1 DEF BeginReset, Built, Cleared, BackendTypes, Backends
  <2>3. TargetAgrees' /\ VerdictAgrees'
    BY <2>2 DEF TargetAgrees, VerdictAgrees, Built
  <2>4. QED
    BY <2>1, <2>3
<1>2. CASE ResetAfterCloseRaises
  <2>1. /\ stage' = "broken" /\ backend.client = 0 /\ backend.constraint # 0
        /\ config' = config /\ clients' = clients /\ backend' = backend /\ engine' = engine
    BY <1>2 DEF ResetAfterCloseRaises
  <2>2. BackendTypes' /\ IdsAgree' /\ SceneKept
    BY <2>1 DEF BackendTypes, Stages, IdsAgree, Connected, Built, SceneKept
  <2>3. QED
    BY <2>1, <2>2, KeptScene DEF Built
<1>3. CASE PoseRobot
  <2>1. /\ stage = "posing" /\ engine' = [engine EXCEPT !.opening = "open"]
        /\ config' = config /\ clients' = clients /\ backend' = backend
        /\ stage' = "building"
    BY <1>3 DEF PoseRobot, AsksForMissingObject, Releases, IdsAgree
  <2>2. engine' \in Engines /\ engine'.held = engine.held /\ engine'.object = engine.object
    BY <2>1 DEF BackendTypes, Engines, Openings
  <2>3. BackendTypes' /\ IdsAgree' /\ SceneKept
    BY <2>1, <2>2 DEF BackendTypes, Stages, IdsAgree, Connected, Built, SceneKept
  <2>4. QED
    BY <2>1, <2>3, KeptScene DEF Built
<1>4. CASE Close
  <2>1. /\ backend' = [backend EXCEPT !.client = 0] /\ stage' = "closed"
        /\ engine' = [engine EXCEPT !.object = FALSE, !.held = FALSE]
        /\ config' = config /\ clients' = clients
    BY <1>4 DEF Close
  <2>2. /\ backend' \in Backends /\ backend'.client = 0 /\ SceneKept
        /\ engine' \in Engines
    BY <2>1 DEF BackendTypes, Backends, Engines, SceneKept
  <2>3. BackendTypes' /\ IdsAgree'
    BY <2>1, <2>2 DEF BackendTypes, Stages, IdsAgree, Connected, Built
  <2>4. QED
    BY <2>1, <2>2, <2>3, KeptScene DEF Built
<1>5. ASSUME NEW near \in BOOLEAN, NEW opening \in Openings, Move(near, opening) PROVE IInv'
  <2>1. /\ config' = config /\ clients' = clients /\ backend' = backend /\ stage' = stage
        /\ engine' = [engine EXCEPT !.near = IF engine.held THEN @ ELSE near,
                                    !.opening = opening]
    BY <1>5 DEF Move
  <2>2. engine' \in Engines /\ engine'.held = engine.held /\ engine'.object = engine.object
    BY <2>1 DEF BackendTypes, Engines
  <2>3. BackendTypes' /\ IdsAgree' /\ SceneKept
    BY <2>1, <2>2 DEF BackendTypes, IdsAgree, SceneKept
  <2>4. QED
    BY <2>1, <2>3, KeptScene
<1>6. CASE UNCHANGED vars
  <2>1. BackendTypes' /\ IdsAgree' /\ SceneKept /\ stage' = stage
    BY <1>6 DEF vars, BackendTypes, IdsAgree, SceneKept
  <2>2. QED
    BY <2>1, KeptScene
<1>7. QED
  BY <1>1, <1>2, <1>3, <1>4, <1>5, <1>6

LEMMA InvariantInit == Init => IInv
<1> SUFFICES ASSUME Init PROVE IInv
  OBVIOUS
<1>1. TargetAgrees /\ VerdictAgrees
  BY DEF Init, TargetAgrees, VerdictAgrees, Built
<1>2. QED
  BY <1>1, IdsInit DEF IInv

LEMMA InvariantStep == IInv /\ [Next]_vars => IInv'
BY BuildSceneKeeps, ValidateKeeps, GripperKeeps, OtherStepsKeep DEF Next, Reset, Command

\* So101PyBulletBackend: whatever was grasped, rejected or closed before, its
\* grasp flag is the constraint of the connected client and its ids belong to
\* that client.  No reset fails because of what an earlier client left, except
\* after a close() with the object in the gripper.
THEOREM GraspFlagIsReal == Spec => []GraspIsReal
<1>1. IInv => GraspIsReal
  BY DEF IInv, BackendTypes, Backends, IdsAgree, GraspIsReal
<1>2. QED
  BY <1>1, InvariantInit, InvariantStep, PTL DEF Spec
----------------------------------------------------------------------------
(* Which scenes are accepted.                                              *)

Intervals == [lo : Int, hi : Int]
Boxes == [x : Intervals, y : Intervals, z : Intervals]

LEMMA BoxOnFields ==
  ASSUME NEW c, c.x \in Int, c.y \in Int, NEW hx \in Int, NEW hy \in Int, NEW z \in Int,
         NEW h \in Int
  PROVE  LET b == BoxOn(c, hx, hy, z, h)
         IN /\ b.x.lo = c.x - hx /\ b.x.hi = c.x + hx
            /\ b.y.lo = c.y - hy /\ b.y.hi = c.y + hy
            /\ b.z.lo = z /\ b.z.hi = z + h
BY DEF BoxOn, Around

LEMMA OverlapFields ==
  ASSUME NEW a, NEW b
  PROVE  Overlap(a, b) <=>
           /\ a.x.lo < b.x.hi /\ a.x.hi > b.x.lo
           /\ a.y.lo < b.y.hi /\ a.y.hi > b.y.lo
           /\ a.z.lo < b.z.hi /\ a.z.hi > b.z.lo
BY DEF Overlap

\* The box of the bin, and those of its parts, which it contains.
LEMMA BinPartsInside ==
  ASSUME NEW c \in Points, NEW o \in Boxes
  PROVE  /\ \A part \in PartNames : Overlap(o, BinPart(c, part)) => Overlap(o, BinBox(c))
         /\ o.z.lo = SurfaceHeight /\ Overlap(o, BinBox(c)) => Overlap(o, BinPart(c, "bottom"))
<1>1. c.x \in Int /\ c.y \in Int
  BY DEF Points
<1>2. /\ o.x.lo \in Int /\ o.x.hi \in Int /\ o.y.lo \in Int /\ o.y.hi \in Int
      /\ o.z.lo \in Int /\ o.z.hi \in Int
  BY DEF Boxes, Intervals
<1>3. LET b == BinBox(c)
      IN /\ b.x.lo = c.x - 74 /\ b.x.hi = c.x + 74 /\ b.y.lo = c.y - 74 /\ b.y.hi = c.y + 74
         /\ b.z.lo = 50 /\ b.z.hi = 134
  <2>1. BinBox(c) = BoxOn(c, 74, 74, 50, 84)
    BY DEF BinBox, BinOuter, BinInner, WallThickness, SurfaceHeight, BottomThickness, WallHeight
  <2>2. LET b == BoxOn(c, 74, 74, 50, 84)
        IN /\ b.x.lo = c.x - 74 /\ b.x.hi = c.x + 74 /\ b.y.lo = c.y - 74 /\ b.y.hi = c.y + 74
           /\ b.z.lo = 50 /\ b.z.hi = 134
    BY <1>1 DEF BoxOn, Around
  <2>3. QED
    BY <2>1, <2>2
<1>4. LET b == BinPart(c, "bottom")
      IN /\ b.x.lo = c.x - 74 /\ b.x.hi = c.x + 74 /\ b.y.lo = c.y - 74 /\ b.y.hi = c.y + 74
         /\ b.z.lo = 50 /\ b.z.hi = 54
  <2>1. BinPart(c, "bottom") = BoxOn(c, 74, 74, 50, 4)
    BY DEF BinPart, BinOuter, BinInner, WallThickness, SurfaceHeight, BottomThickness
  <2>2. LET b == BoxOn(c, 74, 74, 50, 4)
        IN /\ b.x.lo = c.x - 74 /\ b.x.hi = c.x + 74 /\ b.y.lo = c.y - 74 /\ b.y.hi = c.y + 74
           /\ b.z.lo = 50 /\ b.z.hi = 54
    BY <1>1 DEF BoxOn, Around
  <2>3. QED
    BY <2>1, <2>2
<1>5. WallHalf = 2 /\ WallOffset = 72
  BY DEF WallHalf, WallOffset, WallThickness, BinInner
<1>6. ASSUME NEW sign \in {-1, 1}
      PROVE  LET b == BoxOn(Shift(c, sign * WallOffset, 0), WallHalf, BinOuter, 54, 80)
             IN /\ b.x.lo >= c.x - 74 /\ b.x.hi <= c.x + 74
                /\ b.y.lo >= c.y - 74 /\ b.y.hi <= c.y + 74 /\ b.z.lo = 54 /\ b.z.hi = 134
                /\ b.x.lo \in Int /\ b.x.hi \in Int /\ b.y.lo \in Int /\ b.y.hi \in Int
  <2> DEFINE d == Shift(c, sign * WallOffset, 0)
  <2>1. d.x \in Int /\ d.y = c.y /\ (d.x = c.x - 72 \/ d.x = c.x + 72)
    BY <1>1, <1>5 DEF Shift
  <2> HIDE DEF d
  <2>2. QED
    BY <1>1, <1>5, <2>1, BoxOnFields DEF BinOuter, BinInner, WallThickness, d
<1>7. ASSUME NEW sign \in {-1, 1}
      PROVE  LET b == BoxOn(Shift(c, 0, sign * WallOffset), BinInner, WallHalf, 54, 80)
             IN /\ b.x.lo >= c.x - 74 /\ b.x.hi <= c.x + 74
                /\ b.y.lo >= c.y - 74 /\ b.y.hi <= c.y + 74 /\ b.z.lo = 54 /\ b.z.hi = 134
                /\ b.x.lo \in Int /\ b.x.hi \in Int /\ b.y.lo \in Int /\ b.y.hi \in Int
  <2> DEFINE d == Shift(c, 0, sign * WallOffset)
  <2>1. d.y \in Int /\ d.x = c.x /\ (d.y = c.y - 72 \/ d.y = c.y + 72)
    BY <1>1, <1>5 DEF Shift
  <2> HIDE DEF d
  <2>2. QED
    BY <1>1, <1>5, <2>1, BoxOnFields DEF BinInner, d
<1>8. ASSUME NEW part \in PartNames \ {"bottom"}
      PROVE  LET b == BinPart(c, part)
             IN /\ b.x.lo >= c.x - 74 /\ b.x.hi <= c.x + 74
                /\ b.y.lo >= c.y - 74 /\ b.y.hi <= c.y + 74 /\ b.z.lo = 54 /\ b.z.hi = 134
                /\ b.x.lo \in Int /\ b.x.hi \in Int /\ b.y.lo \in Int /\ b.y.hi \in Int
  <2>1. SurfaceHeight + BottomThickness = 54 /\ WallHeight = 80
    BY DEF SurfaceHeight, BottomThickness, WallHeight
  <2>2. CASE part = "left_wall"
    BY <1>6, <2>1, <2>2 DEF BinPart
  <2>3. CASE part = "right_wall"
    BY <1>6, <2>1, <2>3 DEF BinPart
  <2>4. CASE part = "front_wall"
    BY <1>7, <2>1, <2>4 DEF BinPart
  <2>5. CASE part = "back_wall"
    BY <1>7, <2>1, <2>5 DEF BinPart
  <2>6. QED
    BY <2>2, <2>3, <2>4, <2>5 DEF PartNames
<1>9. ASSUME NEW part \in PartNames, Overlap(o, BinPart(c, part)) PROVE Overlap(o, BinBox(c))
  <2>1. CASE part = "bottom"
    BY <1>1, <1>2, <1>3, <1>4, <1>9, <2>1, OverlapFields
  <2>2. CASE part # "bottom"
    BY <1>1, <1>2, <1>3, <1>8, <1>9, <2>2, OverlapFields
  <2>3. QED
    BY <2>1, <2>2
<1>10. ASSUME o.z.lo = SurfaceHeight, Overlap(o, BinBox(c)) PROVE Overlap(o, BinPart(c, "bottom"))
  BY <1>1, <1>2, <1>3, <1>4, <1>10, OverlapFields DEF SurfaceHeight
<1>11. QED
  BY <1>9, <1>10

WithinTable(o, f) ==
  /\ 391 - f.x <= o.x.lo /\ o.x.hi <= 391 + f.x
  /\ -f.y <= o.y.lo /\ o.y.hi <= f.y

LEMMA TableFields ==
  ASSUME NEW o, NEW f \in Points
  PROVE  Within(o, Table(f)) <=> WithinTable(o, f)
<1>1. Table(f) = BoxOn(SurfaceCenter, f.x, f.y, SurfaceHeight, 0)
  BY DEF Table
<1>2. /\ SurfaceCenter.x = 391 /\ SurfaceCenter.y = 0 /\ SurfaceHeight \in Int
      /\ f.x \in Int /\ f.y \in Int
  BY DEF SurfaceCenter, SurfaceHeight, Points
<1>3. LET t == Table(f)
      IN t.x.lo = 391 - f.x /\ t.x.hi = 391 + f.x /\ t.y.lo = -f.y /\ t.y.hi = f.y
  BY <1>1, <1>2, BoxOnFields
<1>4. QED
  BY <1>3 DEF Within, WithinTable

\* An object box, as numbers.
LEMMA ObjectFields ==
  ASSUME BackendTypes
  PROVE  LET o == ObjectBox(backend, config)
             i == backend.initial
         IN /\ o \in Boxes /\ i \in Places /\ config.half \in Nat
            /\ o.x.lo = i.x - config.half /\ o.x.hi = i.x + config.half
            /\ o.y.lo = i.y - config.half /\ o.y.hi = i.y + config.half
            /\ o.z.lo = i.z /\ o.z.hi = i.z + 40
<1>1. /\ backend.initial \in Places /\ config.half \in Nat
  BY So101Assumption DEF BackendTypes, Backends
<1>2. /\ backend.initial.x \in Int /\ backend.initial.y \in Int /\ backend.initial.z \in Int
      /\ config.half \in Int
  BY <1>1 DEF Places
<1>3. ObjectBox(backend, config) =
        BoxOn(backend.initial, config.half, config.half, backend.initial.z, 40)
  BY DEF ObjectBox, ObjectHeight
<1>4. ObjectBox(backend, config) \in Boxes
  BY <1>2, <1>3 DEF BoxOn, Around, Boxes, Intervals
<1>5. LET o == BoxOn(backend.initial, config.half, config.half, backend.initial.z, 40)
          i == backend.initial
      IN /\ o.x.lo = i.x - config.half /\ o.x.hi = i.x + config.half
         /\ o.y.lo = i.y - config.half /\ o.y.hi = i.y + config.half
         /\ o.z.lo = i.z /\ o.z.hi = i.z + 40
  BY DEF BoxOn, Around
<1>6. QED
  BY <1>1, <1>3, <1>4, <1>5

\* The list of failures is empty exactly if none of its conditions holds.
LEMMA NoFailures ==
  ASSUME NEW o, NEW c, NEW f, NEW touches \in BOOLEAN
  PROVE  LayoutFailures(o, c, f, touches) = {} <=>
           /\ \A part \in PartNames : ~Overlap(o, BinPart(c, part))
           /\ Within(o, Table(f)) /\ Within(BinBox(c), Table(f))
           /\ Near(o.z.lo, SurfaceHeight, RestingTolerance)
           /\ ~touches
<1> DEFINE failures == LayoutFailures(o, c, f, touches)
<1>1. /\ "object_bin_overlap" \in failures <=>
           \E part \in PartNames : Overlap(o, BinPart(c, part))
      /\ "object_outside_table_bounds" \in failures <=> ~Within(o, Table(f))
      /\ "bin_outside_table_bounds" \in failures <=> ~Within(BinBox(c), Table(f))
      /\ "object_not_on_table_surface" \in failures <=>
           ~Near(o.z.lo, SurfaceHeight, RestingTolerance)
      /\ "unexpected_object_robot_contact" \in failures <=> touches
  BY DEF LayoutFailures, FailureTypes
<1>2. failures \subseteq FailureTypes
  BY DEF LayoutFailures
<1> HIDE DEF failures
<1>3. failures = {} <=> \A t \in FailureTypes : t \notin failures
  BY <1>2
<1>4. QED
  BY <1>1, <1>3 DEF FailureTypes, failures

\* Conditions of the theorem: settling moves an object by two millimetres at
\* most, and none is spawned so high that it is still falling a centimetre or
\* less above the table when the scene is checked.
SettlesInTime(c) ==
  c.spawn.z - SettleFall \notin (SurfaceHeight + 1)..(SurfaceHeight + RestingTolerance)

\* An object within the table that is near its height lies on it.
LEMMA RestsOnTable ==
  ASSUME BackendTypes, SettledFor(config, backend.initial), SettlesInTime(config),
         Within(ObjectBox(backend, config), Table(Footprint(config))),
         Near(backend.initial.z, SurfaceHeight, RestingTolerance)
  PROVE  backend.initial.z = SurfaceHeight
<1>1. PICK at \in Places : /\ at.z = config.spawn.z
                           /\ backend.initial = [at EXCEPT !.z = SettledBottom(config, at)]
  <2>1. PICK dx, dy \in Wobbles :
          LET at == [config.spawn EXCEPT !.x = @ + dx, !.y = @ + dy]
          IN backend.initial = [at EXCEPT !.z = SettledBottom(config, at)]
    BY DEF SettledFor
  <2> DEFINE at == [config.spawn EXCEPT !.x = @ + dx, !.y = @ + dy]
  <2>2. config.spawn \in Places /\ dx \in Int /\ dy \in Int
    BY So101Assumption DEF BackendTypes, Places
  <2>3. config.spawn.x + dx \in Int /\ config.spawn.y + dy \in Int
    BY <2>2 DEF Places
  <2>4. at \in Places /\ at.z = config.spawn.z
    BY <2>2, <2>3 DEF Places
  <2>5. QED
    BY <2>1, <2>4
<1>2. /\ backend.initial.x = at.x /\ backend.initial.y = at.y
      /\ backend.initial.z = SettledBottom(config, at)
      /\ at.x \in Int /\ at.y \in Int /\ at.z \in Int
  BY <1>1 DEF Places
<1>3. Footprint(config) \in Points /\ Footprint(config).x \in Int /\ Footprint(config).y \in Int
  BY DefaultsTyped DEF BackendTypes, Points
<1>4. WithinTable(ObjectBox(backend, config), Footprint(config))
  BY <1>3, TableFields
<1>5. Support(config, at) = SurfaceHeight
  <2>1. /\ 391 - Footprint(config).x <= at.x - config.half
        /\ at.x + config.half <= 391 + Footprint(config).x
        /\ -Footprint(config).y <= at.y - config.half
        /\ at.y + config.half <= Footprint(config).y
        /\ config.half \in Nat
    BY <1>2, <1>4, ObjectFields DEF WithinTable
  <2>2. SurfaceCenter.x = 391 /\ SurfaceCenter.y = 0
    BY DEF SurfaceCenter
  <2>3. /\ at.x \in SurfaceCenter.x - Footprint(config).x..SurfaceCenter.x + Footprint(config).x
        /\ at.y \in SurfaceCenter.y - Footprint(config).y..SurfaceCenter.y + Footprint(config).y
    BY <1>2, <1>3, <2>1, <2>2
  <2>4. QED
    BY <2>3 DEF Support
<1>6. QED
  BY <1>1, <1>2, <1>5 DEF SettledBottom, SettlesInTime, Near, SurfaceHeight, SettleFall,
                          RestingTolerance

\* The verdict of the check, for the scene as it is.
LEMMA VerdictIsSound ==
  ASSUME BackendTypes, SettledFor(config, backend.initial), SettlesInTime(config)
  PROVE  FailuresNow = {} <=> Sound
<1> DEFINE o == ObjectBox(backend, config)
           c == backend.center
           f == Footprint(config)
<1>1. o \in Boxes /\ o.z.lo = backend.initial.z /\ c \in Points /\ f \in Points
  BY ObjectFields, DefaultsTyped DEF BackendTypes, Backends
<1>2. FailuresNow = {} <=>
        /\ \A part \in PartNames : ~Overlap(o, BinPart(c, part))
        /\ Within(o, Table(f)) /\ Within(BinBox(c), Table(f))
        /\ Near(o.z.lo, SurfaceHeight, RestingTolerance)
        /\ ~Overlap(o, ArmBox)
  <2>1. Overlap(o, ArmBox) \in BOOLEAN
    BY DEF Overlap
  <2>2. QED
    BY <2>1, NoFailures DEF FailuresNow
<1>3. Sound <=>
        /\ o.z.lo = SurfaceHeight
        /\ Within(o, Table(f)) /\ Within(BinBox(c), Table(f))
        /\ ~Overlap(o, BinBox(c)) /\ ~Overlap(o, ArmBox)
  BY DEF Sound
<1>4. /\ \A part \in PartNames : Overlap(o, BinPart(c, part)) => Overlap(o, BinBox(c))
      /\ o.z.lo = SurfaceHeight /\ Overlap(o, BinBox(c)) => Overlap(o, BinPart(c, "bottom"))
  BY <1>1, BinPartsInside
<1>5. "bottom" \in PartNames
  BY DEF PartNames
<1>6. Within(o, Table(f)) /\ Near(o.z.lo, SurfaceHeight, RestingTolerance) =>
        o.z.lo = SurfaceHeight
  BY <1>1, RestsOnTable
<1>7. o.z.lo = SurfaceHeight => Near(o.z.lo, SurfaceHeight, RestingTolerance)
  BY DEF Near, SurfaceHeight, RestingTolerance
<1> HIDE DEF o, c, f
<1>8. QED
  BY <1>2, <1>3, <1>4, <1>5, <1>6, <1>7

\* What settling within two millimetres makes of a spawn point over the table.
LEMMA Settles ==
  ASSUME BackendTypes, SettledFor(config, backend.initial), Wobbles \subseteq -2..2,
         config.spawn.z = SurfaceHeight
  PROVE  LET i == backend.initial
             s == config.spawn
             f == Footprint(config)
         IN /\ s.x \in Int /\ s.y \in Int /\ i.x \in Int /\ i.y \in Int
            /\ i.x - s.x \in -2..2 /\ i.y - s.y \in -2..2
            /\ (/\ 391 - f.x <= i.x /\ i.x <= 391 + f.x
                /\ -f.y <= i.y /\ i.y <= f.y) => i.z = SurfaceHeight
<1>1. PICK dx, dy \in Wobbles :
        LET at == [config.spawn EXCEPT !.x = @ + dx, !.y = @ + dy]
        IN backend.initial = [at EXCEPT !.z = SettledBottom(config, at)]
  BY DEF SettledFor
<1> DEFINE at == [config.spawn EXCEPT !.x = @ + dx, !.y = @ + dy]
<1>2. /\ config.spawn \in Places /\ dx \in -2..2 /\ dy \in -2..2
      /\ config.spawn.x \in Int /\ config.spawn.y \in Int
  BY So101Assumption DEF BackendTypes, Places
<1>3. /\ at \in Places /\ at.z = SurfaceHeight
      /\ at.x = config.spawn.x + dx /\ at.y = config.spawn.y + dy
  <2>1. config.spawn.x + dx \in Int /\ config.spawn.y + dy \in Int
    BY <1>2
  <2>2. QED
    BY <1>2, <2>1 DEF Places
<1>4. backend.initial = [at EXCEPT !.z = SettledBottom(config, at)]
  BY <1>1
<1> HIDE DEF at
<1>5. /\ backend.initial.x = at.x /\ backend.initial.y = at.y
      /\ backend.initial.z = SettledBottom(config, at)
  BY <1>3, <1>4 DEF Places
<1>6. Footprint(config).x \in Int /\ Footprint(config).y \in Int
  BY DefaultsTyped DEF BackendTypes, Points
<1>7. ASSUME /\ 391 - Footprint(config).x <= at.x /\ at.x <= 391 + Footprint(config).x
             /\ -Footprint(config).y <= at.y /\ at.y <= Footprint(config).y
      PROVE  SettledBottom(config, at) = SurfaceHeight
  <2>1. SurfaceCenter.x = 391 /\ SurfaceCenter.y = 0 /\ at.x \in Int /\ at.y \in Int
    BY <1>2, <1>3 DEF SurfaceCenter
  <2>2. Support(config, at) = SurfaceHeight
    BY <1>6, <1>7, <2>1 DEF Support
  <2>3. QED
    BY <1>3, <2>2 DEF SettledBottom, SettleFall, SurfaceHeight
<1>8. QED
  BY <1>2, <1>3, <1>5, <1>7

\* The object clear of bin and arm, in numbers: it lies on the table, and in
\* y the bin begins behind it.
LEMMA ClearInY ==
  ASSUME BackendTypes, backend.initial.z = SurfaceHeight,
         backend.initial.y + config.half <= backend.center.y - 74
  PROVE  ~Overlap(ObjectBox(backend, config), BinBox(backend.center))
         /\ ~Overlap(ObjectBox(backend, config), ArmBox)
<1> DEFINE o == ObjectBox(backend, config)
<1>1. /\ backend.center.x \in Int /\ backend.center.y \in Int
      /\ o.y.hi = backend.initial.y + config.half /\ o.z.hi = 90 /\ o.y.hi \in Int
  BY ObjectFields DEF BackendTypes, Backends, Points, SurfaceHeight, Boxes, Intervals
<1>2. BinBox(backend.center).y.lo = backend.center.y - 74
  BY <1>1, BoxOnFields
     DEF BinBox, BinOuter, BinInner, WallThickness, SurfaceHeight, BottomThickness, WallHeight
<1>3. ArmBox.z.lo = 160
  BY DEF ArmBox, BoxOn
<1> HIDE DEF o
<1>4. ~Overlap(o, BinBox(backend.center)) /\ ~Overlap(o, ArmBox)
  BY <1>1, <1>2, <1>3, OverlapFields
<1>5. QED
  BY <1>4 DEF o

\* The scenes of data collection are sound.
LEMMA CollectedIsSound ==
  ASSUME BackendTypes, SettledFor(config, backend.initial), Wobbles \subseteq -2..2,
         TargetAgrees, stage \in Built, Collected(config)
  PROVE  Sound
<1> DEFINE o == ObjectBox(backend, config)
           i == backend.initial
           s == config.spawn
           c == backend.center
           f == Footprint(config)
<1>1. /\ s.x \in Int /\ s.y \in Int /\ i.x \in Int /\ i.y \in Int
      /\ i.x - s.x \in -2..2 /\ i.y - s.y \in -2..2
      /\ (/\ 391 - f.x <= i.x /\ i.x <= 391 + f.x
          /\ -f.y <= i.y /\ i.y <= f.y) => i.z = SurfaceHeight
  BY Settles DEF Collected
<1>2. /\ config.half \in Nat
      /\ o.x.lo = i.x - config.half /\ o.x.hi = i.x + config.half
      /\ o.y.lo = i.y - config.half /\ o.y.hi = i.y + config.half /\ o.z.lo = i.z
  BY ObjectFields
<1>3. f \in Points /\ c \in Points /\ c.x \in Int /\ c.y \in Int
  BY DefaultsTyped DEF BackendTypes, Backends, Points
<1>4. BinBox(c).x.lo = c.x - 74 /\ BinBox(c).x.hi = c.x + 74
      /\ BinBox(c).y.lo = c.y - 74 /\ BinBox(c).y.hi = c.y + 74
  BY <1>3, BoxOnFields
     DEF BinBox, BinOuter, BinInner, WallThickness, SurfaceHeight, BottomThickness, WallHeight
<1>5. \/ /\ f.x = 190 /\ f.y = 190 /\ config.half = 20
         /\ s.x - 391 \in -10..10 /\ s.y \in -10..10
         /\ c.x = i.x + 30 /\ c.y = i.y + 100
      \/ /\ f.x = 190 /\ f.y = 220 /\ config.half <= 24
         /\ s.x - 391 \in -15..15 /\ s.y \in -15..15
         /\ c.x = 421 /\ c.y = 130
  <2>1. CASE config.binCenter = None /\ config.footprint = None /\ config.half = 20
             /\ AwayBy(s, 10)
    <3>1. f.x = 190 /\ f.y = 190
      BY <2>1 DEF Footprint, Collected, DefaultBinFootprint
    <3>2. s.x - 391 \in -10..10 /\ s.y \in -10..10
      BY <1>1, <2>1 DEF AwayBy, Near, SurfaceCenter
    <3>3. backend.offset = [x |-> 30, y |-> 100]
      BY <2>1 DEF TargetAgrees, Offset, Collected, DefaultBinOffset
    <3>4. Shift(i, 30, 100) = c
      BY <3>3 DEF TargetAgrees
    <3>5. c.x = i.x + 30 /\ c.y = i.y + 100
      BY <3>4 DEF Shift
    <3>6. QED
      BY <2>1, <3>1, <3>2, <3>5
  <2>2. CASE /\ config.binCenter = <<Shift(SurfaceCenter, 30, 130)>>
             /\ config.footprint = <<[x |-> 190, y |-> 220]>>
             /\ config.half <= 24 /\ AwayBy(s, 15)
    <3>1. f.x = 190 /\ f.y = 220
      BY <2>2 DEF Footprint, None
    <3>2. s.x - 391 \in -15..15 /\ s.y \in -15..15
      BY <1>1, <2>2 DEF AwayBy, Near, SurfaceCenter
    <3>3. c = Shift(SurfaceCenter, 30, 130)
      BY <2>2 DEF TargetAgrees, None
    <3>4. c.x = 421 /\ c.y = 130
      BY <3>3 DEF Shift, SurfaceCenter
    <3>5. QED
      BY <2>2, <3>1, <3>2, <3>4
  <2>3. QED
    BY <2>1, <2>2 DEF Collected
<1> HIDE DEF o, i, s, c, f
<1>6. i.z = SurfaceHeight
  BY <1>1, <1>5
<1>7. WithinTable(o, f) /\ WithinTable(BinBox(c), f)
  BY <1>1, <1>2, <1>3, <1>4, <1>5 DEF WithinTable
<1>8. i.y + config.half <= c.y - 74
  BY <1>1, <1>2, <1>3, <1>5
<1>9. ~Overlap(o, BinBox(c)) /\ ~Overlap(o, ArmBox)
  BY <1>6, <1>8, ClearInY DEF o, i, c
<1>10. Within(o, Table(f)) /\ Within(BinBox(c), Table(f))
  BY <1>3, <1>7, TableFields
<1>11. QED
  BY <1>2, <1>6, <1>9, <1>10 DEF Sound, o, i, c, f

\* If settling moves objects by two millimetres at most and none is still
\* falling closely above the table when it is checked, reset() accepts the
\* sound scenes with a bin and no others, and every one of data collection.
THEOREM AcceptsExactlySoundScenes ==
  ASSUME Wobbles \subseteq -2..2, \A c \in Configs : SettlesInTime(c)
  PROVE  Spec => []LayoutVerdictIsRight
<1>1. IInv => LayoutVerdictIsRight
  <2> SUFFICES ASSUME IInv PROVE LayoutVerdictIsRight
    OBVIOUS
  <2> USE DEF IInv
  <2>1. ASSUME stage \in Built PROVE FailuresNow = {} <=> Sound
    <3>1. SettledFor(config, backend.initial) /\ SettlesInTime(config)
      BY <2>1 DEF VerdictAgrees, BackendTypes
    <3>2. QED
      BY <3>1, VerdictIsSound
  <2>2. ASSUME stage = "ready", config.useBin PROVE Sound
    BY <2>1, <2>2 DEF VerdictAgrees, Built
  <2>3. ASSUME stage = "invalid" PROVE ~Sound /\ ~Collected(config)
    <3>1. ~Sound
      BY <2>1, <2>3 DEF VerdictAgrees, Built
    <3>2. SettledFor(config, backend.initial) /\ stage \in Built
      BY <2>3 DEF VerdictAgrees, Built
    <3>3. QED
      BY <3>1, <3>2, CollectedIsSound
  <2>4. QED
    BY <2>2, <2>3 DEF LayoutVerdictIsRight
<1>2. QED
  BY <1>1, InvariantInit, InvariantStep, PTL DEF Spec
=============================================================================
