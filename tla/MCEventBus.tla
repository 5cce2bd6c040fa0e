----------------------------- MODULE MCEventBus -----------------------------
(* Small instances of EventBus for TLC. *)
EXTENDS EventBus, TLC

CONSTANTS orch, watcher

\* The orchestrator publishes on "pipeline", the configuration watcher on
\* "config"; nothing is published on "routing".
MCTopics  == {"pipeline", "config", "routing"}
MCTopicOf == orch :> "pipeline" @@ watcher :> "config"
=============================================================================
