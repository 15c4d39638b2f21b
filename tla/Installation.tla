---------------------------- MODULE Installation ----------------------------
(***************************************************************************)
(* What a firmware update over the air promises: the program of a node is  *)
(* only ever replaced, as a whole, by the firmware whose configuration the *)
(* node has recorded before.  A power loss may damage the record, which    *)
(* then installs nothing.                                                  *)
(***************************************************************************)
CONSTANTS Firmwares, Factory, Torn

VARIABLES program, record

Init == program = Factory /\ record = Factory

Record(f) == record' = f /\ UNCHANGED program

Tear == record' = Torn /\ UNCHANGED program

Install == record \in Firmwares /\ program' = record /\ UNCHANGED record

Next == Install \/ Tear \/ \E f \in Firmwares : Record(f)

Spec == Init /\ [][Next]_<<program, record>>
=============================================================================
