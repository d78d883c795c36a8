----------------------------- MODULE MCPlatform -----------------------------
(* Platform for TLC.  The door and the watchdog share only the stored       *)
(* switch: a behaviour of the run is one of either, chosen at the start.    *)
EXTENDS Platform

VARIABLE half

MCInit == PlatformInit /\ half \in {"door", "watchdog"}
MCNext ==
    /\ \/ FlipNext
       \/ half = "door" /\ FrontNext
       \/ half = "watchdog" /\ WatchNext
    /\ UNCHANGED half

MCSpec ==
    /\ MCInit /\ [][MCNext]_<<platformVars, half>>
    /\ half = "door" => FrontFairness
    /\ half = "watchdog" => WatchFairness

\* What is wrong is said: FindingIsHeard, in the watchdog's half.
WatchdogIsHeard == half = "watchdog" => FindingIsHeard
=============================================================================
