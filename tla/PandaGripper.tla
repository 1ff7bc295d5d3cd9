---------------------------- MODULE PandaGripper ----------------------------
(***************************************************************************)
(* robot_sim/pybullet_panda_backend.py, the part that keeps state of its   *)
(* own: the fingers, the grasp and the task status.  Where the arm, the    *)
(* object and the bin are is the caller's: close_gripper() needs to know   *)
(* whether the object is in reach of the gripper (near), open_gripper()    *)
(* whether the held object is close enough to the bin (over_bin).          *)
(***************************************************************************)

TaskStatuses == {"running", "grasped", "success", "released"}

GripperRecords ==
  [fingers_open : BOOLEAN, held_object : BOOLEAN, task_status : TaskStatuses]

\* reset(): fingers at FINGER_OPEN_POSITION, nothing held.
ResetGripper == [fingers_open |-> TRUE, held_object |-> FALSE, task_status |-> "running"]

----------------------------------------------------------------------------
(* Mutants of the definitions below (see "mutants" in PROJECT.json).       *)

\* Opening lets the object go without reporting where it went.
OpenGripperSilently(g, over_bin) ==
  [g EXCEPT !.fingers_open = TRUE, !.held_object = FALSE]

\* The release is reported, but the object is still taken for held.
OpenGripperHolding(g, over_bin) ==
  [g EXCEPT !.fingers_open = TRUE,
            !.task_status = IF ~g.held_object THEN @
                            ELSE IF over_bin THEN "success" ELSE "released"]

\* The status takes the name of the event.
OpenGripperEventAsStatus(g, over_bin) ==
  [g EXCEPT !.fingers_open = TRUE,
            !.held_object = FALSE,
            !.task_status = IF ~g.held_object THEN @
                            ELSE IF over_bin THEN "object_placed_in_bin" ELSE "released"]

\* The guard against redundant actuation looks at the wrong finger state.
ActuateInverted(g, command) ==
  IF command = "open" THEN g.fingers_open ELSE ~g.fingers_open
----------------------------------------------------------------------------

\* open_gripper(): a held object is released, into the bin if close enough.
OpenGripper(g, over_bin) ==
  [g EXCEPT !.fingers_open = TRUE,
            !.held_object = FALSE,
            !.task_status = IF ~g.held_object THEN @
                            ELSE IF over_bin THEN "success" ELSE "released"]

\* close_gripper(): a grasp only if nothing is held and the object in reach.
CloseGripper(g, near) ==
  IF ~g.held_object /\ near
  THEN [g EXCEPT !.fingers_open = FALSE, !.held_object = TRUE, !.task_status = "grasped"]
  ELSE [g EXCEPT !.fingers_open = FALSE]

\* apply_command() moves the fingers only when that would change them.
Actuates(g, command) ==
  IF command = "open" THEN ~g.fingers_open ELSE g.fingers_open

\* The gripper half of apply_command(), after the arm has moved.
ApplyGripper(g, command, near, over_bin) ==
  CASE command = "open" /\ Actuates(g, command)  -> OpenGripper(g, over_bin)
    [] command = "close" /\ Actuates(g, command) -> CloseGripper(g, near)
    [] OTHER                                     -> g
=============================================================================
