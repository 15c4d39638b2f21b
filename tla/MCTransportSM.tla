--------------------------- MODULE MCTransportSM ---------------------------
(***************************************************************************)
(* TransportSM with a history variable: how long the node has been in a    *)
(* state that waits for an answer, from the first request of the state to  *)
(* the last of its retries.  The program does not keep this time;          *)
(* stateEnter is the time of the last entry only.                          *)
(***************************************************************************)
EXTENDS TransportSM

VARIABLE stateAge

mcVars == <<vars, stateAge>>

Requesting == {"stParent", "stID", "stUplink"}

\* Every request of a state, the first and each retry, waits for its timeout.
Patience == (MY_TRANSPORT_STATE_RETRIES + 1) * (StateTimeout + 1)

MCInit == Init /\ stateAge = 0

MCNext ==
  \/ Step /\ stateAge' = IF currentState' = currentState THEN stateAge ELSE 0
  \/ /\ Tick
     /\ stateAge' = IF currentState \in Requesting /\ stateAge < Patience
                    THEN stateAge + 1 ELSE stateAge

MCSpec == MCInit /\ [][MCNext]_mcVars

\* Liveness has no use for the history variable, which stands still.
MCFairSpec == MCInit /\ [][Next /\ UNCHANGED stateAge]_mcVars /\ Fairness

GivesUp ==
  \/ currentState \in {"stParent", "stID"} /\ currentState' = "stFailure"
  \/ currentState = "stUplink" /\ currentState' = "stParent"

\* A node does not give up for one lost answer: short of a radio fault, it
\* leaves a search, an ID request or an uplink check without success only after
\* 1 + RETRIES requests that each had the time of an answer, whatever handlers
\* ran in between and set the time of the state anew.
GivesUpAfterAllRetries ==
  [][GivesUp => faults' > faults \/ stateAge = Patience]_mcVars
=============================================================================
