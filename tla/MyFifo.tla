-------------------------------- MODULE MyFifo --------------------------------
(***************************************************************************)
(* my_fifo with Pass = 0 and Depth >= 2, the way every stage of the        *)
(* rasterizer instantiates it, seen from its ports: the items it holds,    *)
(* oldest first, and valid_q, which says that the oldest one has reached   *)
(* the output register.  Pure operators on such a record; the pointers and *)
(* the memory are in MyFifoRing, which is shown to behave like this.       *)
(***************************************************************************)
EXTENDS Naturals, Sequences

EmptyFifo == [items |-> <<>>, valid_q |-> FALSE]

InReady(f, depth, out_ready) == Len(f.items) < depth \/ (f.valid_q /\ out_ready)
OutData(f) == Head(f.items)

\* put is <<>> or the item accepted on this edge; take: the output is consumed
FifoEdge(f, put, take) ==
  [items   |-> (IF take THEN Tail(f.items) ELSE f.items) \o put,
   valid_q |-> IF f.valid_q THEN ~take \/ Len(f.items) > 1 ELSE f.items # <<>>]
===============================================================================
