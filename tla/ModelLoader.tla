----------------------------- MODULE ModelLoader -----------------------------
(***************************************************************************)
(* vla_server/model_loader.py and the request handlers of                  *)
(* vla_server/generic_vla_server.py that use it, for a family that is      *)
(* loaded on request (smolvla).  The server runs every handler in a thread *)
(* of its pool; the threads share _state, guarded by _lock, a              *)
(* threading.Lock, which is not reentrant.                                 *)
(*                                                                         *)
(* A block under `with _lock:` that cannot wait inside is one step, taken  *)
(* while the lock is free.  The one block that calls a function which      *)
(* takes the lock again, in load_model_once(), holds it.                   *)
(***************************************************************************)
EXTENDS Naturals

CONSTANTS
  Threads,                     \* threads of the server's pool
  LoadCallers,                 \* those that ever serve a POST /load_model
  NoThread,                    \* nobody holds _lock
  MaxLoads                     \* bound: load attempts after which no more is requested

ASSUME ModelLoaderAssumption ==
  /\ LoadCallers \subseteq Threads /\ NoThread \notin Threads /\ MaxLoads \in Nat

VARIABLES
  lock,                        \* holder of _lock
  status,                      \* _state["status"]
  model,                       \* _state["model"]: the attempt that loaded it
  compat,                      \* _state["compatibility_result"], likewise
  loads,                       \* load attempts so far
  pc,                          \* where each thread's request is
  mine,                        \* the thread's attempt, or the model it uses
  seen,                        \* status the thread has read
  reply                        \* the thread's last answer

shared == <<lock, status, model, compat, loads>>
vars == <<shared, pc, mine, seen, reply>>

Statuses == {"not_loaded", "loading", "loaded", "load_failed"}
NoModel == 0
Replies == [kind : {"none", "load", "action", "refused", "failed", "health"},
            status : Statuses, model : Nat, compat : Nat]
Reply(k, s, m, c) == [kind |-> k, status |-> s, model |-> m, compat |-> c]

\* What an answer does not carry, it has as in NoReply.
NoReply == Reply("none", "not_loaded", NoModel, NoModel)

Free == lock = NoThread
InProgress(s) == s \in {"loading", "loaded"}

Init ==
  /\ lock = NoThread /\ status = "not_loaded" /\ model = NoModel /\ compat = NoModel
  /\ loads = 0
  /\ pc = [t \in Threads |-> "idle"]
  /\ mine = [t \in Threads |-> NoModel]
  /\ seen = [t \in Threads |-> "not_loaded"]
  /\ reply = [t \in Threads |-> NoReply]

Goto(t, there) == pc' = [pc EXCEPT ![t] = there]

Answer(t, r) == reply' = [reply EXCEPT ![t] = r] /\ Goto(t, "idle")
----------------------------------------------------------------------------
(* Requests.                                                               *)

Arrive(t, there) ==
  /\ pc[t] = "idle"
  /\ Goto(t, there)
  /\ mine' = [mine EXCEPT ![t] = NoModel]
  /\ seen' = [seen EXCEPT ![t] = "not_loaded"]
  /\ reply' = [reply EXCEPT ![t] = NoReply]
  /\ UNCHANGED shared

LoadRequest(t) == t \in LoadCallers /\ loads < MaxLoads /\ Arrive(t, "peek")
PredictRequest(t) == Arrive(t, "check")
HealthRequest(t) == Arrive(t, "health")
----------------------------------------------------------------------------
(* POST /load_model                                                        *)

\* The handler's own look at the state: no lock is kept after it.
Peek(t) ==
  /\ pc[t] = "peek" /\ Free
  /\ IF InProgress(status)
     THEN Answer(t, Reply("load", status, NoModel, NoModel))
     ELSE Goto(t, "enter") /\ UNCHANGED reply
  /\ UNCHANGED <<shared, mine, seen>>

\* Mutants: load_model_once() does not look again under the lock; it would load
\* a loaded model again.
StartsLoadUnchecked == TRUE
StartsLoadUnlessLoading == status # "loading"

StartsLoad == ~InProgress(status)

\* load_model_once(), first caller: claim the load under the lock.
BeginLoad(t) ==
  /\ pc[t] = "enter" /\ Free /\ StartsLoad
  /\ status' = "loading" /\ compat' = NoModel /\ loads' = loads + 1
  /\ mine' = [mine EXCEPT ![t] = loads']
  /\ Goto(t, "load")
  /\ UNCHANGED <<lock, model, seen, reply>>

\* load_model_once(), later caller: `return get_state()` inside the `with`
\* block.  get_state() waits for _lock, which this very thread holds: there is
\* no action that takes a thread on from "nested".
NestedGetState(t) ==
  /\ pc[t] = "enter" /\ Free /\ ~StartsLoad
  /\ lock' = t
  /\ Goto(t, "nested")
  /\ UNCHANGED <<status, model, compat, loads, mine, seen, reply>>

\* Mutant: the compatibility result is not part of the commit.
CommitLoadedAlone(t) ==
  /\ pc[t] = "load" /\ Free
  /\ status' = "loaded" /\ model' = mine[t]
  /\ Goto(t, "reply")
  /\ UNCHANGED <<lock, compat, loads, mine, seen, reply>>

\* _load_smolvla(): everything slow is done without the lock, then committed.
CommitLoaded(t) ==
  /\ pc[t] = "load" /\ Free
  /\ status' = "loaded" /\ model' = mine[t] /\ compat' = mine[t]
  /\ Goto(t, "reply")
  /\ UNCHANGED <<lock, loads, mine, seen, reply>>

\* Mutant: _fail() writes a status that VALID_MODEL_STATUSES does not have.
FailMisspelled(t) ==
  /\ pc[t] = "load" /\ Free
  /\ status' = "failed"
  /\ Goto(t, "reply")
  /\ UNCHANGED <<lock, model, compat, loads, mine, seen, reply>>

\* Any failure of the load: _fail().
Fail(t) ==
  /\ pc[t] = "load" /\ Free
  /\ status' = "load_failed"
  /\ Goto(t, "reply")
  /\ UNCHANGED <<lock, model, compat, loads, mine, seen, reply>>

\* The get_state() that ends both.
ReplyLoad(t) ==
  /\ pc[t] = "reply" /\ Free
  /\ Answer(t, Reply("load", status, NoModel, NoModel))
  /\ UNCHANGED <<shared, mine, seen>>
----------------------------------------------------------------------------
(* POST /predict                                                           *)

Usable == status = "loaded"

\* Mutant: a request that finds no model waits for one.
TakeModelWaiting(t) ==
  /\ pc[t] = "check" /\ Free /\ Usable
  /\ Goto(t, "infer") /\ mine' = [mine EXCEPT ![t] = model]
  /\ UNCHANGED <<shared, seen, reply>>

\* run_inference(): take the model under the lock, or raise RuntimeError.
TakeModel(t) ==
  /\ pc[t] = "check" /\ Free
  /\ IF Usable
     THEN Goto(t, "infer") /\ mine' = [mine EXCEPT ![t] = model]
     ELSE Goto(t, "refused") /\ UNCHANGED mine
  /\ UNCHANGED <<shared, seen, reply>>

\* The forward pass, without the lock.
Infer(t) ==
  /\ pc[t] = "infer"
  /\ Goto(t, "answer")
  /\ UNCHANGED <<shared, mine, seen, reply>>

\* It fails: a RuntimeError joins the "model_not_loaded" answers, any other
\* exception is an "inference_failed".
InferRaisesRuntimeError(t) ==
  /\ pc[t] = "infer"
  /\ Goto(t, "refused")
  /\ UNCHANGED <<shared, mine, seen, reply>>

InferRaises(t) ==
  /\ pc[t] = "infer"
  /\ Answer(t, Reply("failed", "not_loaded", mine[t], NoModel))
  /\ UNCHANGED <<shared, mine, seen>>

\* get_compatibility_result() after the inference goes into the answer, which
\* is an error when the adapter makes no action of the model's output.
ReplyAction(t) ==
  /\ pc[t] = "answer" /\ Free
  /\ \E kind \in {"action", "failed"} :
       Answer(t, Reply(kind, "not_loaded", mine[t], compat))
  /\ UNCHANGED <<shared, mine, seen>>

\* The 503 quotes the status of now, not that of the refusal.
ReplyRefused(t) ==
  /\ pc[t] = "refused" /\ Free
  /\ Answer(t, Reply("refused", status, mine[t], NoModel))
  /\ UNCHANGED <<shared, mine, seen>>
----------------------------------------------------------------------------
(* GET /health: two critical sections, one for each half of the answer.    *)

HealthState(t) ==
  /\ pc[t] = "health" /\ Free
  /\ seen' = [seen EXCEPT ![t] = status]
  /\ Goto(t, "health_compat")
  /\ UNCHANGED <<shared, mine, reply>>

HealthCompat(t) ==
  /\ pc[t] = "health_compat" /\ Free
  /\ Answer(t, Reply("health", seen[t], NoModel, compat))
  /\ UNCHANGED <<shared, mine, seen>>
----------------------------------------------------------------------------

Serve(t) ==
  \/ Peek(t) \/ BeginLoad(t) \/ NestedGetState(t)
  \/ CommitLoaded(t) \/ Fail(t) \/ ReplyLoad(t)
  \/ TakeModel(t) \/ Infer(t) \/ InferRaisesRuntimeError(t) \/ InferRaises(t)
  \/ ReplyAction(t) \/ ReplyRefused(t)
  \/ HealthState(t) \/ HealthCompat(t)

Request(t) == LoadRequest(t) \/ PredictRequest(t) \/ HealthRequest(t)

Next == \E t \in Threads : Serve(t) \/ Request(t)

Spec == Init /\ [][Next]_vars

\* Loads and inferences end, and a thread that waits for the free lock gets
\* it; requests need not come.
FairSpec == Spec /\ \A t \in Threads : WF_vars(Serve(t))
----------------------------------------------------------------------------

Places == {"idle", "peek", "enter", "nested", "load", "reply", "check", "infer",
           "answer", "refused", "health", "health_compat"}

TypeOK ==
  /\ lock \in Threads \cup {NoThread}
  /\ status \in Statuses /\ model \in Nat /\ compat \in Nat /\ loads \in Nat
  /\ pc \in [Threads -> Places]
  /\ mine \in [Threads -> Nat]
  /\ seen \in [Threads -> Statuses]
  /\ reply \in [Threads -> Replies]

\* Two callers that both saw "not loaded" before either claimed the load:
\* still only one of them loads, and "loading" means that somebody does.
OneLoadAtATime ==
  /\ \A t, u \in Threads : pc[t] = "load" /\ pc[u] = "load" => t = u
  /\ status = "loading" <=> \E t \in Threads : pc[t] = "load"

\* A loaded model is never unloaded, replaced or loaded again.
LoadedForGood ==
  [][status = "loaded" => UNCHANGED <<status, model, compat, loads>>]_vars

\* The compatibility result is read in a critical section of its own, after
\* the inference or after the status; it is nevertheless the one of the model
\* that was used, and a reported "loaded" comes with one.
AnswersSpeakOfOneModel ==
  \A t \in Threads :
    /\ reply[t].kind = "action" => reply[t].model # NoModel /\ reply[t].compat = reply[t].model
    /\ reply[t].kind = "health" /\ reply[t].status = "loaded" => reply[t].compat # NoModel

\* The lock is kept across a step only by a caller that lost the race for the
\* load, after the winner has claimed it.
LockLostOnlyToARace ==
  \A t \in Threads :
    /\ lock = t <=> pc[t] = "nested"
    /\ lock = t => InProgress(status) /\ loads > 0

\* Every request is answered, unless the lock is lost to a race for the load.
AllAnswered ==
  \A t \in Threads : pc[t] # "idle" ~> pc[t] = "idle" \/ lock # NoThread

\* vla_server/model_loader.py on load_model_once(): "any concurrent/later
\* caller just observes whatever state that first attempt reached (or is
\* still reaching)": every call returns.
LoadCallsReturn ==
  \A t \in LoadCallers : pc[t] \in {"enter", "nested", "load", "reply"} ~> pc[t] = "idle"
=============================================================================
