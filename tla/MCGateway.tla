------------------------------ MODULE MCGateway ------------------------------
(***************************************************************************)
(* Gateway with a history variable: how long inclusion mode has been on,   *)
(* whatever was asked for meanwhile.  The program keeps the time at which  *)
(* it believes that the mode began.                                        *)
(***************************************************************************)
EXTENDS Gateway

VARIABLE onFor

mcVars == <<vars, onFor>>

MCInit == Init /\ onFor = 0

MCNext ==
  \/ /\ Controller \/ Process
     /\ onFor' = IF inclusionMode' = "on" THEN onFor ELSE 0
  \/ /\ Tick
     /\ onFor' = IF onFor > Duration THEN onFor ELSE onFor + 1

MCSpec == MCInit /\ [][MCNext]_mcVars

MCFairSpec == MCSpec /\ WF_mcVars(Process /\ MCNext)

\* Inclusion mode ends with the first pass after its time, though controllers
\* ask for it again and again: a request while it is on does not prolong it.
InclusionEndsOnTime ==
  [][stage = "inclusion" /\ stage' # "inclusion" /\ onFor > Duration
       => inclusionMode' = "off"]_mcVars
=============================================================================
