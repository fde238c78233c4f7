----------------------------- MODULE GpsdHold -----------------------------
(***************************************************************************)
(* Gpsd with a clock that the program has not: how long each device has     *)
(* been without a subscriber.                                               *)
(***************************************************************************)
EXTENDS MCGpsd

VARIABLE idle

HoldInit == Init /\ idle = [d \in Devices |-> 0]

HoldNext ==
  /\ Next
  /\ idle' = [d \in Devices |->
                IF Needed(d)' THEN 0 ELSE IF Tick THEN Older(idle[d]) ELSE idle[d]]

HoldSpec == HoldInit /\ [][HoldNext]_<<vars, idle>>

\* gpsd.c:75: RELEASE_TIMEOUT is the time a device is held open after the last
\* subscriber closes it.  The end of a round closes no device for want of
\* subscribers before it has been without one for so long.  releasetime is the
\* time since which it has been so the first time, and nothing resets it when
\* a subscriber comes back.
HeldOpen ==
  [][\A d \in Devices : Release(d) /\ ~IsOpen(d)' => idle[d] > ReleaseTimeout]_<<vars, idle>>
=============================================================================
