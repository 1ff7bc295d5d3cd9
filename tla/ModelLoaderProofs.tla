-------------------------- MODULE ModelLoaderProofs --------------------------
(***************************************************************************)
(* Proofs about the model server's shared load state, for any number of    *)
(* threads, load callers and load attempts.                                *)
(***************************************************************************)
EXTENDS ModelLoader, TLAPS

\* A model is there exactly when the status says so, with its compatibility.
ModelWithStatus ==
  IF status = "loaded" THEN model # NoModel /\ compat = model ELSE model = NoModel

\* A load in progress, or done, was counted.
LoadsCounted == InProgress(status) => loads > 0

\* What a thread has taken from the shared state is still what is there.
TakenIsCurrent ==
  \A t \in Threads :
    /\ pc[t] = "load" => mine[t] # NoModel
    /\ pc[t] \in {"infer", "answer"} => status = "loaded" /\ mine[t] = model
    /\ pc[t] = "health_compat" /\ seen[t] = "loaded" => status = "loaded"

IInv ==
  /\ TypeOK
  /\ OneLoadAtATime
  /\ LockLostOnlyToARace
  /\ ModelWithStatus
  /\ LoadsCounted
  /\ TakenIsCurrent
  /\ AnswersSpeakOfOneModel

LEMMA InitIInv == Init => IInv
<1> SUFFICES ASSUME Init PROVE IInv
  OBVIOUS
<1>1. NoReply \in Replies
  BY DEF NoReply, Reply, Replies, Statuses, NoModel
<1>2. TypeOK
  BY <1>1 DEF Init, TypeOK, Places, Statuses, NoModel
<1>3. OneLoadAtATime /\ LockLostOnlyToARace /\ ModelWithStatus /\ LoadsCounted
      /\ TakenIsCurrent
  BY ModelLoaderAssumption
     DEF Init, OneLoadAtATime, LockLostOnlyToARace, ModelWithStatus, LoadsCounted,
         TakenIsCurrent, InProgress, NoModel
<1>4. AnswersSpeakOfOneModel
  BY DEF Init, AnswersSpeakOfOneModel, NoReply, Reply
<1>5. QED
  BY <1>2, <1>3, <1>4 DEF IInv

\* Steps that leave the shared state alone and move one thread to a place
\* where it has taken nothing, or to "idle" with an answer that is in order.
LEMMA LocalStep ==
  ASSUME IInv, NEW t \in Threads, NEW there \in Places \ {"load", "nested"},
         NEW m \in Nat, NEW s \in Statuses, NEW r \in Replies,
         pc[t] \notin {"load", "nested"}, UNCHANGED shared,
         pc' = [pc EXCEPT ![t] = there],
         mine' = [mine EXCEPT ![t] = m],
         seen' = [seen EXCEPT ![t] = s],
         reply' = [reply EXCEPT ![t] = r],
         there \in {"infer", "answer"} => status = "loaded" /\ m = model,
         there = "health_compat" /\ s = "loaded" => status = "loaded",
         r.kind = "action" => r.model # NoModel /\ r.compat = r.model,
         r.kind = "health" /\ r.status = "loaded" => r.compat # NoModel
  PROVE  IInv'
<1> USE DEF shared
<1>1. TypeOK'
  BY DEF IInv, TypeOK
<1>2. OneLoadAtATime'
  BY DEF IInv, TypeOK, OneLoadAtATime
<1>3. LockLostOnlyToARace'
  BY DEF IInv, TypeOK, LockLostOnlyToARace, InProgress
<1>4. ModelWithStatus' /\ LoadsCounted'
  BY DEF IInv, ModelWithStatus, LoadsCounted, InProgress
<1>5. TakenIsCurrent'
  BY DEF IInv, TypeOK, TakenIsCurrent
<1>6. AnswersSpeakOfOneModel'
  BY DEF IInv, TypeOK, AnswersSpeakOfOneModel
<1>7. QED
  BY <1>1, <1>2, <1>3, <1>4, <1>5, <1>6 DEF IInv

\* The steps of the requests that only read, and the arrival of a request.
LEMMA ReaderStep ==
  ASSUME IInv, NEW t \in Threads,
         \/ Request(t) \/ Peek(t) \/ ReplyLoad(t)
         \/ TakeModel(t) \/ Infer(t) \/ InferRaisesRuntimeError(t) \/ InferRaises(t)
         \/ ReplyAction(t) \/ ReplyRefused(t) \/ HealthState(t) \/ HealthCompat(t)
  PROVE  IInv'
<1>0. /\ pc \in [Threads -> Places] /\ mine \in [Threads -> Nat]
      /\ seen \in [Threads -> Statuses] /\ reply \in [Threads -> Replies]
      /\ status \in Statuses /\ model \in Nat /\ compat \in Nat
  BY DEF IInv, TypeOK
<1>1. mine[t] \in Nat /\ seen[t] \in Statuses /\ reply[t] \in Replies
  BY <1>0
<1>m. UNCHANGED mine => mine' = [mine EXCEPT ![t] = mine[t]]
  BY <1>0
<1>s. UNCHANGED seen => seen' = [seen EXCEPT ![t] = seen[t]]
  BY <1>0
<1>r. UNCHANGED reply => reply' = [reply EXCEPT ![t] = reply[t]]
  BY <1>0
<1>2. /\ reply[t].kind = "action" => reply[t].model # NoModel /\ reply[t].compat = reply[t].model
      /\ reply[t].kind = "health" /\ reply[t].status = "loaded" => reply[t].compat # NoModel
  BY DEF IInv, AnswersSpeakOfOneModel
<1>3. ASSUME NEW there \in {"peek", "check", "health"}, Arrive(t, there)
      PROVE  IInv'
  <2>1. there \in Places \ {"load", "nested"} /\ there \notin {"infer", "answer", "health_compat"}
    BY DEF Places
  <2>2. NoReply \in Replies /\ NoReply.kind = "none" /\ "not_loaded" \in Statuses
        /\ NoModel \in Nat
    BY DEF Replies, Statuses, NoReply, Reply, NoModel
  <2>3. /\ pc[t] = "idle" /\ pc' = [pc EXCEPT ![t] = there] /\ UNCHANGED shared
        /\ mine' = [mine EXCEPT ![t] = NoModel] /\ seen' = [seen EXCEPT ![t] = "not_loaded"]
        /\ reply' = [reply EXCEPT ![t] = NoReply]
    BY <1>3 DEF Arrive, Goto
  <2>4. QED
    BY <2>1, <2>2, <2>3, LocalStep
<1>4. ASSUME NEW r \in Replies, Answer(t, r),
             pc[t] \notin {"load", "nested"}, UNCHANGED <<shared, mine, seen>>,
             r.kind = "action" => r.model # NoModel /\ r.compat = r.model,
             r.kind = "health" /\ r.status = "loaded" => r.compat # NoModel
      PROVE  IInv'
  <2>1. "idle" \in Places \ {"load", "nested"}
    BY DEF Places
  <2>2. pc' = [pc EXCEPT ![t] = "idle"] /\ reply' = [reply EXCEPT ![t] = r]
    BY <1>4 DEF Answer, Goto
  <2>3. mine' = [mine EXCEPT ![t] = mine[t]] /\ seen' = [seen EXCEPT ![t] = seen[t]]
    BY <1>4, <1>m, <1>s
  <2>4. QED
    BY <1>1, <1>4, <2>1, <2>2, <2>3, LocalStep
<1>5. ASSUME NEW there \in Places \ {"load", "nested", "health_compat"},
             pc' = [pc EXCEPT ![t] = there], pc[t] \notin {"load", "nested"},
             there \in {"infer", "answer"} => status = "loaded" /\ mine[t] = model,
             UNCHANGED <<shared, mine, seen, reply>>
      PROVE  IInv'
  <2>1. /\ mine' = [mine EXCEPT ![t] = mine[t]] /\ seen' = [seen EXCEPT ![t] = seen[t]]
        /\ reply' = [reply EXCEPT ![t] = reply[t]]
    BY <1>5, <1>m, <1>s, <1>r
  <2>2. there \in Places \ {"load", "nested"} /\ there # "health_compat"
    BY <1>5
  <2>3. /\ pc' = [pc EXCEPT ![t] = there] /\ pc[t] \notin {"load", "nested"}
        /\ there \in {"infer", "answer"} => status = "loaded" /\ mine[t] = model
        /\ UNCHANGED shared
    BY <1>5
  <2>4. QED
    BY <1>1, <1>2, <2>1, <2>2, <2>3, LocalStep
<1>6. CASE Request(t)
  BY <1>3, <1>6 DEF Request, LoadRequest, PredictRequest, HealthRequest
<1>7. ASSUME NEW k \in {"load", "failed", "refused"}, NEW m \in Nat, NEW s \in Statuses,
             Answer(t, Reply(k, s, m, NoModel)),
             pc[t] \notin {"load", "nested"}, UNCHANGED <<shared, mine, seen>>
      PROVE  IInv'
  <2>1. /\ Reply(k, s, m, NoModel) \in Replies
        /\ Reply(k, s, m, NoModel).kind \notin {"action", "health"}
    BY <1>0 DEF Reply, Replies, NoModel
  <2>2. QED
    BY <1>4, <1>7, <2>1
<1>8. NoModel \in Nat /\ "not_loaded" \in Statuses
  BY DEF NoModel, Statuses
<1>9. CASE Peek(t)
  <2>1. CASE InProgress(status)
    BY <1>0, <1>7, <1>8, <1>9, <2>1 DEF Peek
  <2>2. CASE ~InProgress(status)
    <3>1. /\ pc' = [pc EXCEPT ![t] = "enter"] /\ pc[t] \notin {"load", "nested"}
          /\ UNCHANGED <<shared, mine, seen, reply>>
      BY <1>9, <2>2 DEF Peek, Goto
    <3>2. QED
      BY <1>5, <3>1 DEF Places
  <2>3. QED
    BY <2>1, <2>2
<1>10. CASE ReplyLoad(t)
  BY <1>0, <1>7, <1>8, <1>10 DEF ReplyLoad
<1>11. CASE TakeModel(t)
  <2>1. pc[t] \notin {"load", "nested"} /\ UNCHANGED <<shared, seen, reply>>
    BY <1>11 DEF TakeModel
  <2>2. CASE Usable
    <3>1. pc' = [pc EXCEPT ![t] = "infer"] /\ mine' = [mine EXCEPT ![t] = model]
      BY <1>11, <2>2 DEF TakeModel, Goto
    <3>2. "infer" \in Places \ {"load", "nested"} /\ status = "loaded"
      BY <2>2 DEF Places, Usable
    <3>3. seen' = [seen EXCEPT ![t] = seen[t]] /\ reply' = [reply EXCEPT ![t] = reply[t]]
      BY <2>1, <1>s, <1>r
    <3>4. pc[t] \notin {"load", "nested"} /\ UNCHANGED shared
      BY <2>1
    <3>5. QED
      BY <1>0, <1>1, <1>2, <3>1, <3>2, <3>3, <3>4, LocalStep
  <2>3. CASE ~Usable
    <3>1. pc' = [pc EXCEPT ![t] = "refused"] /\ UNCHANGED mine
      BY <1>11, <2>3 DEF TakeModel, Goto
    <3>2. QED
      BY <1>5, <2>1, <3>1 DEF Places
  <2>4. QED
    BY <2>2, <2>3
<1>12. CASE Infer(t) \/ InferRaisesRuntimeError(t)
  <2>1. /\ pc[t] = "infer" /\ UNCHANGED <<shared, mine, seen, reply>>
        /\ \E there \in {"answer", "refused"} : pc' = [pc EXCEPT ![t] = there]
    BY <1>12 DEF Infer, InferRaisesRuntimeError, Goto
  <2>2. status = "loaded" /\ mine[t] = model
    BY <2>1 DEF IInv, TakenIsCurrent
  <2>3. QED
    BY <1>5, <2>1, <2>2 DEF Places
<1>13. CASE InferRaises(t)
  BY <1>1, <1>7, <1>8, <1>13 DEF InferRaises
<1>14. CASE ReplyAction(t)
  <2>0. PICK kind \in {"action", "failed"} :
               Answer(t, Reply(kind, "not_loaded", mine[t], compat))
    BY <1>14 DEF ReplyAction
  <2> DEFINE r == Reply(kind, "not_loaded", mine[t], compat)
  <2>1. pc[t] = "answer" /\ Answer(t, r) /\ UNCHANGED <<shared, mine, seen>>
    BY <1>14, <2>0 DEF ReplyAction
  <2>2. mine[t] = model /\ model # NoModel /\ compat = model
    BY <2>1 DEF IInv, TakenIsCurrent, ModelWithStatus
  <2>3. r \in Replies /\ r.kind # "health" /\ r.model # NoModel /\ r.compat = r.model
    BY <1>0, <1>1, <1>8, <2>2 DEF Replies, Reply
  <2> HIDE DEF r
  <2>4. QED
    BY <1>4, <2>1, <2>3
<1>15. CASE ReplyRefused(t)
  BY <1>0, <1>1, <1>7, <1>15 DEF ReplyRefused
<1>16. CASE HealthState(t)
  <2>1. "health_compat" \in Places \ {"load", "nested"}
    BY DEF Places
  <2>2. /\ pc' = [pc EXCEPT ![t] = "health_compat"] /\ seen' = [seen EXCEPT ![t] = status]
        /\ pc[t] \notin {"load", "nested"} /\ UNCHANGED <<shared, mine, reply>>
    BY <1>16 DEF HealthState, Goto
  <2>3. mine' = [mine EXCEPT ![t] = mine[t]] /\ reply' = [reply EXCEPT ![t] = reply[t]]
    BY <2>2, <1>m, <1>r
  <2>4. QED
    BY <1>0, <1>1, <1>2, <2>1, <2>2, <2>3, LocalStep
<1>17. CASE HealthCompat(t)
  <2> DEFINE r == Reply("health", seen[t], NoModel, compat)
  <2>1. pc[t] = "health_compat" /\ Answer(t, r) /\ UNCHANGED <<shared, mine, seen>>
    BY <1>17 DEF HealthCompat
  <2>2. seen[t] = "loaded" => compat # NoModel
    BY <2>1 DEF IInv, TakenIsCurrent, ModelWithStatus
  <2>3. r \in Replies /\ r.kind = "health" /\ (r.status = "loaded" => r.compat # NoModel)
    BY <1>0, <1>1, <1>8, <2>2 DEF Replies, Reply
  <2> HIDE DEF r
  <2>4. QED
    BY <1>4, <2>1, <2>3
<1>18. QED
  BY <1>6, <1>9, <1>10, <1>11, <1>12, <1>13, <1>14, <1>15, <1>16, <1>17

\* Claiming the load, and losing it to another caller.
LEMMA BeginStep ==
  ASSUME IInv, NEW t \in Threads, BeginLoad(t) \/ NestedGetState(t)
  PROVE  IInv'
<1>0. /\ pc \in [Threads -> Places] /\ mine \in [Threads -> Nat] /\ loads \in Nat
      /\ pc[t] = "enter" /\ lock = NoThread /\ NoThread \notin Threads
  BY ModelLoaderAssumption DEF IInv, TypeOK, BeginLoad, NestedGetState, Free
<1>1. CASE BeginLoad(t)
  <2>1. /\ ~InProgress(status)
        /\ status' = "loading" /\ compat' = NoModel /\ loads' = loads + 1
        /\ mine' = [mine EXCEPT ![t] = loads + 1] /\ pc' = [pc EXCEPT ![t] = "load"]
        /\ UNCHANGED <<lock, model, seen, reply>>
    BY <1>1 DEF BeginLoad, StartsLoad, Goto
  <2>2. \A u \in Threads : pc[u] \notin {"load", "infer", "answer"}
                           /\ ~(pc[u] = "health_compat" /\ seen[u] = "loaded")
    BY <2>1 DEF IInv, OneLoadAtATime, TakenIsCurrent, InProgress
  <2>3. TypeOK'
    BY <1>0, <2>1 DEF IInv, TypeOK, Places, Statuses, NoModel
  <2>4. OneLoadAtATime'
    BY <1>0, <2>1, <2>2 DEF OneLoadAtATime
  <2>5. LockLostOnlyToARace'
    BY <1>0, <2>1 DEF IInv, LockLostOnlyToARace
  <2>6. ModelWithStatus' /\ LoadsCounted'
    BY <1>0, <2>1 DEF IInv, ModelWithStatus, LoadsCounted, InProgress
  <2>7. TakenIsCurrent'
    BY <1>0, <2>1, <2>2 DEF IInv, TakenIsCurrent, NoModel
  <2>8. AnswersSpeakOfOneModel'
    BY <2>1 DEF IInv, AnswersSpeakOfOneModel
  <2>9. QED
    BY <2>3, <2>4, <2>5, <2>6, <2>7, <2>8 DEF IInv
<1>2. CASE NestedGetState(t)
  <2>1. /\ InProgress(status) /\ lock' = t /\ pc' = [pc EXCEPT ![t] = "nested"]
        /\ UNCHANGED <<status, model, compat, loads, mine, seen, reply>>
    BY <1>2 DEF NestedGetState, StartsLoad, Goto
  <2>2. TypeOK'
    BY <1>0, <2>1 DEF IInv, TypeOK, Places
  <2>3. OneLoadAtATime'
    BY <1>0, <2>1 DEF IInv, OneLoadAtATime
  <2>4. loads > 0
    BY <2>1 DEF IInv, LoadsCounted
  <2>5. \A u \in Threads : pc[u] # "nested"
    BY <1>0, <2>1, <2>4 DEF IInv, LockLostOnlyToARace
  <2>6. LockLostOnlyToARace'
    BY <1>0, <2>1, <2>4, <2>5 DEF LockLostOnlyToARace, InProgress
  <2>7. ModelWithStatus' /\ AnswersSpeakOfOneModel' /\ LoadsCounted'
    BY <2>1 DEF IInv, ModelWithStatus, AnswersSpeakOfOneModel, LoadsCounted, InProgress
  <2>8. TakenIsCurrent'
    BY <1>0, <2>1 DEF IInv, TakenIsCurrent
  <2>9. QED
    BY <2>2, <2>3, <2>6, <2>7, <2>8 DEF IInv
<1>3. QED
  BY <1>1, <1>2

\* The end of a load, by the only thread that loads.
LEMMA EndStep ==
  ASSUME IInv, NEW t \in Threads, CommitLoaded(t) \/ Fail(t)
  PROVE  IInv'
<1>0. /\ pc \in [Threads -> Places] /\ mine \in [Threads -> Nat]
      /\ pc[t] = "load" /\ lock = NoThread /\ NoThread \notin Threads
      /\ pc' = [pc EXCEPT ![t] = "reply"]
      /\ UNCHANGED <<lock, loads, mine, seen, reply>>
  BY ModelLoaderAssumption DEF IInv, TypeOK, CommitLoaded, Fail, Free, Goto
<1>1. /\ status = "loading" /\ model = NoModel /\ mine[t] # NoModel /\ mine[t] \in Nat
      /\ \A u \in Threads : pc[u] = "load" => u = t
  BY <1>0 DEF IInv, OneLoadAtATime, TakenIsCurrent, ModelWithStatus
<1>2. \A u \in Threads : pc[u] \notin {"infer", "answer"}
                         /\ ~(pc[u] = "health_compat" /\ seen[u] = "loaded")
  BY <1>1 DEF IInv, TakenIsCurrent
<1>3. \/ status' = "loaded" /\ model' = mine[t] /\ compat' = mine[t]
      \/ status' = "load_failed" /\ UNCHANGED <<model, compat>>
  BY DEF CommitLoaded, Fail
<1>4. TypeOK'
  BY <1>0, <1>1, <1>3 DEF IInv, TypeOK, Places, Statuses
<1>5. OneLoadAtATime'
  BY <1>0, <1>1, <1>3 DEF OneLoadAtATime
<1>6. \A u \in Threads : pc[u] # "nested"
  BY <1>0, <1>1 DEF IInv, LockLostOnlyToARace, InProgress, LoadsCounted
<1>7. LockLostOnlyToARace'
  BY <1>0, <1>6 DEF LockLostOnlyToARace
<1>8. ModelWithStatus' /\ LoadsCounted'
  BY <1>0, <1>1, <1>3 DEF IInv, ModelWithStatus, LoadsCounted, InProgress
<1>9. TakenIsCurrent'
  BY <1>0, <1>1, <1>2 DEF IInv, TakenIsCurrent
<1>10. AnswersSpeakOfOneModel'
  BY <1>0 DEF IInv, AnswersSpeakOfOneModel
<1>11. QED
  BY <1>4, <1>5, <1>7, <1>8, <1>9, <1>10 DEF IInv

LEMMA NextIInv == IInv /\ [Next]_vars => IInv'
<1> SUFFICES ASSUME IInv, [Next]_vars PROVE IInv'
  OBVIOUS
<1>1. ASSUME NEW t \in Threads, Serve(t) \/ Request(t) PROVE IInv'
  BY <1>1, ReaderStep, BeginStep, EndStep DEF Serve
<1>2. CASE UNCHANGED vars
  BY <1>2 DEF vars, shared, IInv, TypeOK, OneLoadAtATime, LockLostOnlyToARace,
     ModelWithStatus, LoadsCounted, TakenIsCurrent, AnswersSpeakOfOneModel, InProgress
<1>3. QED
  BY <1>1, <1>2 DEF Next

\* model_loader.py and the handlers, whatever threads race: one load at a
\* time, answers that speak of one model, and a lock that only the loser of
\* the race for a load keeps.
THEOREM ServerInvariant ==
  Spec => [](TypeOK /\ OneLoadAtATime /\ LockLostOnlyToARace /\ AnswersSpeakOfOneModel)
<1>1. IInv => TypeOK /\ OneLoadAtATime /\ LockLostOnlyToARace /\ AnswersSpeakOfOneModel
  BY DEF IInv
<1>2. QED
  BY <1>1, InitIInv, NextIInv, PTL DEF Spec

\* Every reachable state of the server's threads is well-typed, the bound on
\* load attempts aside: no handler writes a status that is none.
THEOREM ServerTypes == Spec => []TypeOK
BY ServerInvariant, PTL

\* Status, model and compatibility are read in several steps, without the lock
\* between them, and still no answer mixes two models.
THEOREM AnswersAreConsistent == Spec => []AnswersSpeakOfOneModel
BY ServerInvariant, PTL

\* Once "loaded", the model, its status and its compatibility stay.
THEOREM LoadedModelStays == Spec => LoadedForGood
<1>1. IInv /\ [Next]_vars =>
        [status = "loaded" => UNCHANGED <<status, model, compat, loads>>]_vars
  <2> SUFFICES ASSUME IInv, status = "loaded", NEW t \in Threads, Serve(t) \/ Request(t)
               PROVE  UNCHANGED <<status, model, compat, loads>>
    BY DEF Next
  <2>1. pc[t] # "load"
    BY DEF IInv, OneLoadAtATime
  <2>2. ~BeginLoad(t) /\ ~CommitLoaded(t) /\ ~Fail(t)
    BY <2>1 DEF BeginLoad, StartsLoad, InProgress, CommitLoaded, Fail
  <2>3. QED
    BY <2>2 DEF Serve, Request, LoadRequest, PredictRequest, HealthRequest, Arrive, shared,
       Peek, NestedGetState, ReplyLoad, TakeModel, Infer, InferRaisesRuntimeError, InferRaises,
       ReplyAction, ReplyRefused, HealthState, HealthCompat
<1>2. QED
  BY <1>1, InitIInv, NextIInv, PTL DEF Spec, LoadedForGood
=============================================================================
