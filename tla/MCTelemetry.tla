---------------------------- MODULE MCTelemetry ----------------------------
(* Telemetry with the two sensor nodes of ipv6_addresses_G.                 *)
EXTENDS Telemetry

CONSTANTS n1, n2

TwoNodes == <<n1, n2>>
=============================================================================
