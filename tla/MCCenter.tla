------------------------------ MODULE MCCenter ------------------------------
(* Instances of Center with the two channels of center.c.                   *)
EXTENDS Center

CONSTANTS app, snmp

Turns == (app :> snmp) @@ (snmp :> app)

\* Everything, by both.
Everything == (app :> {"REQ", "MDFY"}) @@ (snmp :> {"REQ", "MDFY", "DBG"})

\* ihaApp reads, the SNMP agent modifies.
OneWriter == (app :> {"REQ"}) @@ (snmp :> {"MDFY"})

\* How many commands, and how many connections, the two make.
OneEach == Each(1)
TwoOne  == (app :> 2) @@ (snmp :> 1)
=============================================================================
