----------------------------- MODULE So101Scene -----------------------------
(***************************************************************************)
(* The scene of robot_sim/so101_pybullet_backend.py as operators: where    *)
(* table, object and open-top bin are, and whether an episode may start    *)
(* from such a scene.  Lengths are in millimetres; a box is a closed       *)
(* interval per axis.  Of a scene_config the keys that somebody overrides  *)
(* are parameters, the others have their default values.                   *)
(***************************************************************************)
EXTENDS Integers

SurfaceHeight == 50
SurfaceCenter == [x |-> 391, y |-> 0]
ObjectHeight == 40
FlatOffset == [x |-> 50, y |-> 50]
FlatFootprint == [x |-> 150, y |-> 150]
DefaultBinOffset == [x |-> 30, y |-> 100]
DefaultBinFootprint == [x |-> 190, y |-> 190]

\* compute_bin_geometry(): the inner half width, and the walls around it.
BinInner == 70
WallThickness == 4
BottomThickness == 4
WallHeight == 80
BinOuter == BinInner + WallThickness

Around(c, half) == [lo |-> c - half, hi |-> c + half]
\* A box over the point c of the table, from height z up.
BoxOn(c, halfX, halfY, z, height) ==
  [x |-> Around(c.x, halfX), y |-> Around(c.y, halfY), z |-> [lo |-> z, hi |-> z + height]]
Shift(c, dx, dy) == [x |-> c.x + dx, y |-> c.y + dy]

PartNames == {"bottom", "left_wall", "right_wall", "front_wall", "back_wall"}

\* Half of a wall's thickness, and how far its middle is from the bin's.
WallHalf == WallThickness \div 2
WallOffset == BinInner + WallHalf

BinPart(c, part) ==
  LET wallZ == SurfaceHeight + BottomThickness
      side(sign) == BoxOn(Shift(c, sign * WallOffset, 0), WallHalf, BinOuter, wallZ, WallHeight)
      end(sign) == BoxOn(Shift(c, 0, sign * WallOffset), BinInner, WallHalf, wallZ, WallHeight)
  IN CASE part = "bottom"     -> BoxOn(c, BinOuter, BinOuter, SurfaceHeight, BottomThickness)
       [] part = "left_wall"  -> side(-1)
       [] part = "right_wall" -> side(1)
       [] part = "front_wall" -> end(-1)
       [] part = "back_wall"  -> end(1)

\* All that the walls enclose, up to the rim.
BinBox(c) == BoxOn(c, BinOuter, BinOuter, SurfaceHeight, BottomThickness + WallHeight)
Table(footprint) == BoxOn(SurfaceCenter, footprint.x, footprint.y, SurfaceHeight, 0)

\* _aabb_boxes_overlap(); its epsilon is less than the unit here.
Overlap(a, b) == \A axis \in {"x", "y", "z"} : a[axis].lo < b[axis].hi /\ a[axis].hi > b[axis].lo
Within(a, b) == \A axis \in {"x", "y"} : b[axis].lo <= a[axis].lo /\ a[axis].hi <= b[axis].hi

RestingTolerance == 10
Near(a, b, tolerance) == a - b \in -tolerance..tolerance

FailureTypes ==
  {"object_bin_overlap", "object_outside_table_bounds", "bin_outside_table_bounds",
   "object_not_on_table_surface", "unexpected_object_robot_contact"}

\* The failure types of validate_initial_scene_layout() for a scene of an
\* object box, a bin and a table.  The bin is made after the last simulation
\* step, so that there are no contact points with it (check E) yet.
LayoutFailures(object, binCenter, footprint, touchesRobot) ==
  {f \in FailureTypes :
     CASE f = "object_bin_overlap" ->
            \E part \in PartNames : Overlap(object, BinPart(binCenter, part))
       [] f = "object_outside_table_bounds" -> ~Within(object, Table(footprint))
       [] f = "bin_outside_table_bounds" -> ~Within(BinBox(binCenter), Table(footprint))
       [] f = "object_not_on_table_surface" ->
            ~Near(object.z.lo, SurfaceHeight, RestingTolerance)
       [] f = "unexpected_object_robot_contact" -> touchesRobot}
=============================================================================
