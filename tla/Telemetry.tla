------------------------------ MODULE Telemetry ------------------------------
(***************************************************************************)
(* The charm library loki_push_api: the log targets in the Pebble plan of  *)
(* a container, from the endpoints that the remote units publish.          *)
(***************************************************************************)
EXTENDS Naturals

\* _extract_urls and is_ready: one unit without an endpoint, and the relation counts for nothing.
LokiEndpoints(bags) ==
    IF \A r \in DOMAIN bags : bags[r] # 0 THEN DOMAIN bags ELSE {}

\* disable_inactive_endpoints and enable_endpoints, whose layers are combined.
Targets(targets, endpoints) ==
    [r \in DOMAIN targets \union endpoints |-> r \in endpoints]

Forwarding(targets) == {r \in DOMAIN targets : targets[r]}

=============================================================================
