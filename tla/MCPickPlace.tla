----------------------------- MODULE MCPickPlace -----------------------------
(***************************************************************************)
(* Instances of PickPlace: the lengths of the code in units of 5 mm, in a  *)
(* small world.  The bin lies on the side the arm approaches the object    *)
(* from, where the errors of grasp and release add up.                     *)
(***************************************************************************)
EXTENDS PickPlace

MCObjectStart == <<16, 10>>
MCBin == <<-2, 10>>
MCWorkspace == (-12..30) \X (4..44)

\* An arm that may stand still at any command, but leaves no residual error,
\* with a perception that is exact or off by one to eight centimetres.
Sluggish ==
  [home : {<<0, 30>>}, misplaced : {-16, -9, -2, 0, 2, 9, 16},
   quarters : {{0, 1, 4}}, residual : {<<0, 0>>}]

\* An arm that achieves at least half of every command.
Able == [home : {<<0, 30>>}, misplaced : {0}, quarters : {2..4}, residual : {<<0, 0>>}]

\* The same, but up to 5 mm off with every command.
Imprecise == [home : {<<16, 18>>}, misplaced : {0}, quarters : {2..4}, residual : {<<1, 1>>}]

\* An arm that may stand still but for errors of up to 5 mm to either side:
\* they drive it out of alignment with the bin again and again.
Rattling == [home : {<<16, 18>>}, misplaced : {0}, quarters : {{0, 4}}, residual : {<<1, 0>>}]

MCTrials == Sluggish \cup Able \cup Imprecise \cup Rattling
=============================================================================
