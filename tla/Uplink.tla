------------------------------- MODULE Uplink -------------------------------
(***************************************************************************)
(* What the transport layer promises the rest of a node, whatever its      *)
(* radio and its neighbours do: isTransportReady(), getParentNodeId() and  *)
(* getNodeId() as the core and the sketch see them, and the ID in EEPROM.  *)
(*                                                                         *)
(* A node becomes ready only with a parent, and keeps it while it is       *)
(* ready.  A configured ID is in use whenever the node is ready.  Another  *)
(* ID is changed or taken away only by the controller, at any time; what   *)
(* it gave last is saved, and comes back when the node starts again.       *)
(***************************************************************************)
EXTENDS Integers

CONSTANTS None, StaticId

VARIABLES ready, parent, id, saved

Dynamic == StaticId = None

Init ==
  /\ ready = FALSE
  /\ parent \in 0 .. 255
  /\ id \in 0 .. 255 /\ saved = id

\* The controller gives an ID, which is saved at once, or takes it away.
Assign ==
  /\ Dynamic
  /\ \/ id' \in 1 .. 254 /\ saved' = id'
     \/ id' = None /\ UNCHANGED saved
  /\ UNCHANGED <<ready, parent>>

\* While the node is not ready, it searches a parent, puts a configured ID into
\* force, finds that the one it has is none, or starts again from EEPROM.
Search ==
  /\ ~ ready /\ ~ ready'
  /\ parent' \in 0 .. 255
  /\ \/ id' \in {id, saved, None} /\ UNCHANGED saved
     \/ ~ Dynamic /\ saved' = StaticId /\ id' \in {StaticId, None}

Connect ==
  /\ ~ ready /\ ready'
  /\ parent # None
  /\ ~ Dynamic => id = StaticId
  /\ UNCHANGED <<parent, id, saved>>

\* The search starts again, or the node does.
Disconnect ==
  /\ ready /\ ~ ready'
  /\ parent' \in 0 .. 255
  /\ id' \in {id, saved} /\ UNCHANGED saved

Next == Assign \/ Search \/ Connect \/ Disconnect

Spec == Init /\ [][Next]_<<ready, parent, id, saved>>
=============================================================================
