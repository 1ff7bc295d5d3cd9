---------------------------- MODULE ObjectJourney ----------------------------
(***************************************************************************)
(* What pick-and-place promises about the object: it is picked up at most  *)
(* once, and leaves the gripper once and for all, into the bin or not.     *)
(***************************************************************************)
VARIABLE place                 \* "table", "gripper", "bin" or "dropped"

Init == place = "table"

PickUp == place = "table" /\ place' = "gripper"
Deliver == place = "gripper" /\ place' = "bin"
Drop == place = "gripper" /\ place' = "dropped"

Next == PickUp \/ Deliver \/ Drop

Spec == Init /\ [][Next]_place
=============================================================================
