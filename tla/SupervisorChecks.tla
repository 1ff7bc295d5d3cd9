-------------------------- MODULE SupervisorChecks --------------------------
(***************************************************************************)
(* SafetySupervisor.step() driven by every sequence of at most MaxChecks   *)
(* hand observations, with what an observer of the calls can count: the    *)
(* checks made, the ones that let an action through, and the clear checks  *)
(* since the last detected hand.                                           *)
(***************************************************************************)
EXTENDS SafetySupervisor

CONSTANT MaxChecks             \* bound: calls of step() in one behaviour
ASSUME MaxChecksAssumption == MaxChecks \in Nat

VARIABLES supervisor,          \* SafetySupervisorState
          event,               \* event returned by the last step()
          checks,              \* calls of step() so far
          acted,               \* calls that returned None: an action follows
          streak               \* clear checks since the last detected hand

vars == <<supervisor, event, checks, acted, streak>>

Init ==
  /\ supervisor = InitialSupervisor
  /\ event = "unchecked"       \* no check was made yet: nothing let through
  /\ checks = 0 /\ acted = 0 /\ streak = 0

\* One control-loop step: the caller passes what its monitor saw.
Check(hand) ==
  /\ checks < MaxChecks
  /\ supervisor' = SupervisorStep(supervisor, hand)
  /\ event' = StepEvent(supervisor, hand)
  /\ checks' = checks + 1
  /\ acted' = IF event' = "none" THEN acted + 1 ELSE acted
  /\ streak' = IF hand THEN 0 ELSE streak + 1

HandSeen == Check(TRUE)
HandAbsent == Check(FALSE)

Next == HandSeen \/ HandAbsent

Spec == Init /\ [][Next]_vars
----------------------------------------------------------------------------

\* Every field has its type; in particular the stability count of a pause
\* never reaches the number that ends it, and is not left over afterwards.
TypeOK ==
  /\ supervisor \in SupervisorRecords
  /\ event \in Events \cup {"unchecked"}
  /\ checks \in Nat /\ acted \in Nat /\ streak \in Nat

\* The summary the episode reports balances: each pause was resumed except
\* the one still open, and each pause is one hand intrusion, however often
\* the hand came back before the resume.
CountersBalance ==
  /\ supervisor.pause_count =
       supervisor.resume_count + (IF IsRunning(supervisor) THEN 0 ELSE 1)
  /\ supervisor.hand_intrusion_events = supervisor.pause_count

\* paused_steps is exactly the number of control-loop steps on which no
\* action was let through, the resuming step included.
StepsAccounted == checks = acted + supervisor.paused_steps

\* While paused, stable_clear_steps is the number of clear checks since the
\* last hand: an intrusion during "resuming" loses all of it.
StableIsStreak ==
  IF IsRunning(supervisor)
  THEN supervisor.stable_clear_steps = 0
  ELSE supervisor.stable_clear_steps = streak

\* After a first pause, an action is let through only when the checks before
\* this one include at least ClearChecksToResume clear ones in a row.
ActOnlyAfterStableClear ==
  [][acted' # acted => supervisor.pause_count = 0 \/ streak >= ClearChecksToResume]_vars

\* The state machine implements the debt of clear checks of PauseResume:
\* stable_clear_steps is what has been paid of it.
Promise == INSTANCE PauseResume WITH
  ClearChecksOwed <- ClearChecksToResume,
  owed <- IF IsRunning(supervisor) THEN 0
          ELSE ClearChecksToResume - supervisor.stable_clear_steps,
  handSeen <- supervisor.safety_state = "paused_by_safety",
  letThrough <- event = "none"

ImplementsPromise == Promise!Spec

\* The conjunction that is inductive; HandSafetyProofs.tla uses it.
Inductive ==
  /\ TypeOK
  /\ CountersBalance
  /\ StepsAccounted
  /\ StableIsStreak
  /\ (supervisor.pause_count > 0 /\ IsRunning(supervisor) => streak >= ClearChecksToResume)
=============================================================================
