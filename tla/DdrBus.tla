-------------------------------- MODULE DdrBus --------------------------------
(***************************************************************************)
(* What the DDR bus promises a host (rvlab_ddr_pkg.sv): requests a host    *)
(* has had accepted are answered one by one in the order they were         *)
(* accepted, and each answer carries the ancillary value of its request.   *)
(*                                                                         *)
(* This is the abstract specification: it knows nothing of multiplexers,   *)
(* rings or pointers.  DdrMux is shown to implement it.                    *)
(***************************************************************************)
EXTENDS Naturals, Sequences

CONSTANTS
  Hosts,          \* the hosts of the bus
  Request         \* what a host may ask: an address and an ancillary value

VARIABLES
  pend,           \* pend[h]: h's accepted requests not yet answered, in order
  got             \* got[h]: the answer h took on the last edge, or Silence

Silence == <<>>

Init ==
  /\ pend = [h \in Hosts |-> <<>>]
  /\ got  = [h \in Hosts |-> Silence]

(***************************************************************************)
(* One clock edge: at most one host (a set of at most one) has a request   *)
(* accepted and at most one host takes the answer to its oldest request.   *)
(***************************************************************************)
Edge(accepting, answered, r) ==
  /\ \A h \in answered : pend[h] # <<>>
  /\ pend' = [h \in Hosts |->
       LET kept == IF h \in answered THEN Tail(pend[h]) ELSE pend[h]
       IN  IF h \in accepting THEN Append(kept, r) ELSE kept]
  /\ got' = [h \in Hosts |-> IF h \in answered THEN Head(pend[h]) ELSE Silence]

AtMostOne == {{}} \cup {{h} : h \in Hosts}

Next == \E a, b \in AtMostOne, r \in Request : Edge(a, b, r)

Spec == Init /\ [][Next]_<<pend, got>>
===============================================================================
