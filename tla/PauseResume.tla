---------------------------- MODULE PauseResume ----------------------------
(***************************************************************************)
(* What the pause/resume mechanism promises, without its state machine: a  *)
(* detected hand makes the robot owe a number of consecutive clear checks, *)
(* every check of that debt is spent without acting, and only a check made *)
(* with no debt left lets the action of that step through.                 *)
(***************************************************************************)
EXTENDS Naturals

CONSTANT ClearChecksOwed       \* clear checks owed after a hand was seen

VARIABLES owed,                \* clear checks still owed before acting again
          handSeen,            \* did the last check see a hand?
          letThrough           \* did the last check let the action through?

vars == <<owed, handSeen, letThrough>>

Init == owed = 0 /\ handSeen = FALSE /\ letThrough = FALSE

\* A hand: the whole debt is due again, however much of it was already paid.
Detect == owed' = ClearChecksOwed /\ handSeen' = TRUE /\ letThrough' = FALSE

\* A clear check that pays one unit of the debt.
Pay == owed > 0 /\ owed' = owed - 1 /\ handSeen' = FALSE /\ letThrough' = FALSE

\* A clear check without debt: the only one that lets an action through.
Act == owed = 0 /\ owed' = 0 /\ handSeen' = FALSE /\ letThrough' = TRUE

Next == Detect \/ Pay \/ Act

Spec == Init /\ [][Next]_vars
=============================================================================
