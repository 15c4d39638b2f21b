------------------------------- MODULE Mailbox -------------------------------
(***************************************************************************)
(* What the receive queue promises to the transport: a bounded queue that  *)
(* hands over what was put into it, whole, once and in order.              *)
(***************************************************************************)
EXTENDS Naturals, Sequences

CONSTANTS Letters, Capacity

VARIABLES
  box,                \* what waits, oldest first
  taken               \* the letter taken last

Init == box = <<>> /\ taken \in Letters

Put(m) ==
  /\ Len(box) < Capacity
  /\ box' = Append(box, m) /\ taken' = taken

Take ==
  /\ box # <<>>
  /\ taken' = Head(box) /\ box' = Tail(box)

Next == (\E m \in Letters : Put(m)) \/ Take

Spec == Init /\ [][Next]_<<box, taken>>
=============================================================================
