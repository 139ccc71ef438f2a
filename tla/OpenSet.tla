------------------------------ MODULE OpenSet ------------------------------
(***************************************************************************)
(* What the connection manager promises the event loop: a set of open      *)
(* connections of bounded size, into which accept() puts new ones and from *)
(* which any handler may take one out, until the server shuts down and     *)
(* takes them all out.  ConnTable.tla implements it with an array, a       *)
(* counter and the slot number that every connection carries.              *)
(***************************************************************************)
EXTENDS Naturals, FiniteSets

CONSTANTS Conn, Capacity

VARIABLES open, serving

Init == open = {} /\ serving = TRUE

Open(c) ==
  /\ serving
  /\ c \notin open
  /\ Cardinality(open) < Capacity
  /\ open' = open \cup {c}
  /\ UNCHANGED serving

Close(c) ==
  /\ serving
  /\ c \in open
  /\ open' = open \ {c}
  /\ UNCHANGED serving

Shutdown ==
  /\ serving
  /\ open' = {}
  /\ serving' = FALSE

Next == (\E c \in Conn : Open(c) \/ Close(c)) \/ Shutdown

Spec == Init /\ [][Next]_<<open, serving>>
=============================================================================
