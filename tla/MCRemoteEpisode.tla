--------------------------- MODULE MCRemoteEpisode ---------------------------
(***************************************************************************)
(* Setups of RemoteEpisode for TLC.                                        *)
(***************************************************************************)
EXTENDS RemoteEpisode

Setup(backend, mode, fallback, isUp, kinds) ==
  [backend |-> backend, mode |-> mode, fallback |-> fallback, up |-> isUp, faults |-> kinds]

NetworkFaults == {"request_lost", "request_late", "answer_lost", "malformed"}

\* No fallback: every fault ends the run, a lost reset included.
\* A second server as fallback: it takes the phase over from the request, also
\* when the reset was lost, and may fail as well.
\* An in-process fallback: only where the server never acts.
MCSetups ==
  {Setup("fastapi-dummy", "dummy", "none", TRUE, Faults),
   Setup("real-vla", "mock-action", "none", TRUE, Faults),
   Setup("real-vla", "dummy", "fastapi-dummy", TRUE, Faults),
   Setup("real-vla", "health-only", "local-dummy", TRUE, NetworkFaults),
   Setup("real-vla", "openvla-dryrun", "local-dummy", TRUE, {"session_ends"}),
   Setup("real-vla", "mock-action", "local-dummy", FALSE, {})}

ASSUME MCSetupsInSync == FallbacksInSync(MCSetups)

\* The default fallback, and a session that ends.
MCSessionEnds ==
  {Setup("real-vla", "mock-action", "local-dummy", TRUE, {"session_ends"})}
=============================================================================
