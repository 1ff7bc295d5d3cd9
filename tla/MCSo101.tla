------------------------------- MODULE MCSo101 -------------------------------
(***************************************************************************)
(* Backends of So101Backend for TLC, with the lengths of the code.         *)
(***************************************************************************)
EXTENDS So101Backend

Backend(useBin, offset, footprint, binCenter, half, spawn, urdf) ==
  [useBin |-> useBin, offset |-> offset, footprint |-> footprint, binCenter |-> binCenter,
   half |-> half, spawn |-> spawn, urdf |-> urdf]

Spawn(dx, dy, z) == [x |-> SurfaceCenter.x + dx, y |-> SurfaceCenter.y + dy, z |-> z]

\* The middle, the ranges of data collection, the edge of the table and beyond;
\* also dropped on the table, and too high to land in time.
MCSpawns ==
  {Spawn(0, 0, 90), Spawn(0, 0, 400)}
    \cup {Spawn(dx, dy, SurfaceHeight) : dx \in {-10, 0, 15}, dy \in {-15, 0, 10, 15, 126, 172, 250}}

FixedCenter == <<Shift(SurfaceCenter, 30, 130)>>

\* Squares of 40 mm, straight, turned by 12 and by 45 degrees.
MCConfigs ==
  {Backend(TRUE, offset, footprint, binCenter, half, spawn, TRUE) :
     offset \in {None, <<[x |-> 20, y |-> 105]>>, <<FlatOffset>>},
     footprint \in {None, <<[x |-> 190, y |-> 220]>>}, binCenter \in {None, FixedCenter},
     half \in {20, 24, 28}, spawn \in MCSpawns}
  \cup {Backend(FALSE, None, None, binCenter, 20, spawn, TRUE) :
          binCenter \in {None, FixedCenter}, spawn \in MCSpawns}
  \cup {Backend(TRUE, None, None, None, 20, Spawn(0, 0, SurfaceHeight), FALSE)}

MCWobbles == {-2, 0, 2}
=============================================================================
