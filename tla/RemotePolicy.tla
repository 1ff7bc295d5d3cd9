---------------------------- MODULE RemotePolicy ----------------------------
(***************************************************************************)
(* A policy behind HTTP, as operators: the clients                         *)
(* (policy/real_vla_policy_client.py, fastapi_vla_policy_client.py) and    *)
(* the servers that answer them (openvla_server_dummy/dummy_server.py,     *)
(* real_vla_compatible_server.py, openvla_server_real/colab_vla_server.py).*)
(*                                                                         *)
(* A client keeps the phase of the last answer and sends it along; a       *)
(* server keeps a policy of its own and takes the phase over from the      *)
(* request before it predicts.                                             *)
(***************************************************************************)
EXTENDS DummyPolicy

Backends == {"fastapi-dummy", "real-vla"}
Fallbacks == {"none", "local-dummy", "fastapi-dummy"}

\* "dummy" are both servers of openvla_server_dummy/, the others the modes of
\* colab_vla_server.py.
ServerModes == {"dummy", "mock-action", "health-only", "openvla-dryrun"}

\* The client as its constructor makes it, and after reset().
NewClient == [phase |-> "move_to_object", fallback_used_count |-> 0]

\* _build_payload()
Request(client, observation) == [phase |-> client.phase, observation |-> observation]

\* Mutant: the phase of the request is ignored, the server's is authoritative.
ServeUnsynced(policy, request) == Predict(policy, request.observation)

\* predict() of a server that hosts a DummyOpenVLAPolicy.
Serve(policy, request) ==
  Predict([policy EXCEPT !.phase = request.phase], request.observation)

\* Modes whose answer has an action; the others answer with an error status,
\* or with the raw output of the model and no action.
Acts(mode) == mode \in {"dummy", "mock-action"}

\* reset() of a server: the policy it hosts, if any.
ServerReset(mode, policy) == IF Acts(mode) THEN ResetPolicy ELSE policy

\* Ways in which a response that did arrive is not used: an HTTP error, no
\* JSON, no "action", or one that vla_action_postprocessor.py rejects.
Malformations == {"http_error", "invalid_json", "missing_action_field", "invalid_action"}

\* Mutant: the phase of an answer is lost on the way.
AcceptWithoutPhase(client, answer) == [client EXCEPT !.phase = "none"]

\* The client takes the phase over from the answer it uses.
Accept(client, answer) == [client EXCEPT !.phase = answer.phase]

\* Mutant: the client keeps the phase of the last answer of the server.
AcceptFallbackKeepingPhase(client, answer) == [client EXCEPT !.fallback_used_count = @ + 1]

\* _fallback(), given the answer of the fallback policy.
AcceptFallback(client, answer) ==
  [phase |-> answer.phase, fallback_used_count |-> client.fallback_used_count + 1]
=============================================================================
