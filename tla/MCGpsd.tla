------------------------------- MODULE MCGpsd -------------------------------
EXTENDS Gpsd

\* With its device, or without one and with -n: a control client brings it.
WithDevice == {[argv |-> <<"a">>, nowait |-> FALSE]}
BothWays   == WithDevice \cup {[argv |-> <<>>, nowait |-> TRUE]}
=============================================================================
