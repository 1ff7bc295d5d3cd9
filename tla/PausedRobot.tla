---------------------------- MODULE PausedRobot ----------------------------
(***************************************************************************)
(* What the pause/resume mechanism promises of the robot, and not only of  *)
(* the checks (PauseResume): a check that owes nothing and saw no hand     *)
(* gives the permission for one action, and an action uses it up.  A       *)
(* permission may lapse unused, when something else than the hand stops    *)
(* the action.                                                             *)
(***************************************************************************)
EXTENDS Naturals

CONSTANT ClearChecksOwed       \* clear checks owed after a hand was seen

VARIABLES owed, handSeen,      \* as in PauseResume
          letThrough,          \* an action is allowed now
          actions              \* actions the robot was given

vars == <<owed, handSeen, letThrough, actions>>

Checks == INSTANCE PauseResume

Init == Checks!Init /\ actions = 0

\* A safety check moves no robot.
Check == Checks!Next /\ UNCHANGED actions

\* The one action that the last check allowed.
Apply ==
  /\ letThrough /\ letThrough' = FALSE
  /\ actions' = actions + 1
  /\ UNCHANGED <<owed, handSeen>>

\* The allowed action is not taken after all.
Lapse ==
  /\ letThrough /\ letThrough' = FALSE
  /\ UNCHANGED <<owed, handSeen, actions>>

Next == Check \/ Apply \/ Lapse

Spec == Init /\ [][Next]_vars
=============================================================================
