----------------------------- MODULE MCNetwork -----------------------------
(***************************************************************************)
(* Instances of Network for TLC: networks of two and three repeaters.      *)
(***************************************************************************)
EXTENDS Network

\* 0 - 1 - 2 - 3, and 1 - 3: node 1 alone reaches the gateway
Ring == {{0, 1}, {1, 2}, {2, 3}, {1, 3}}

\* 0 - 1 - 2
Chain      == {{0, 1}, {1, 2}}
AllBooting == [n \in Nodes |-> AUTO]
Unknown    == [n \in Nodes |-> Invalid]

\* 0 <- 1 <- 2 <- 3, all ready
ChainParent   == [n \in Nodes |-> n - 1]
ChainDistance == [n \in Nodes |-> n]
=============================================================================
