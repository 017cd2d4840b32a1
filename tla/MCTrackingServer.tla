-------------------------- MODULE MCTrackingServer --------------------------
(* Two agents, the HTTP thread and the main thread. *)
EXTENDS TrackingServer

CONSTANTS a1, a2

MCAgent == {a1, a2}
\* The records that tell the ways through the handler apart: one that goes
\* through all its locks, one that is never confirmed, one that raises SIGINT.
MCRecord == {"publish", "garbage", "unknown"}

\* Without records of agents that are not in the configuration.
MCKnown == RecordKinds \ {"unknown"}
=============================================================================
