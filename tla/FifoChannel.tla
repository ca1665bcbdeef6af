------------------------------ MODULE FifoChannel ------------------------------
(***************************************************************************)
(* What every FIFO of the design promises: at most Depth items, none lost, *)
(* none duplicated, handed on in the order they were put in.  A step may   *)
(* take an item, put one, or do both at once, in which case the item put   *)
(* may be the very one taken (a FIFO that passes through).                 *)
(***************************************************************************)
EXTENDS Naturals, Sequences

CONSTANTS Item, Depth

VARIABLES
  items,      \* what is in the FIFO, oldest first
  taken       \* what the last step took: <<>> or a sequence of one item

Init == items = <<>> /\ taken = <<>>

\* put: <<>> or the one item put
Edge(put, take) ==
  LET all == items \o put
  IN  /\ take => all # <<>>
      /\ items' = IF take THEN Tail(all) ELSE all
      /\ taken' = IF take THEN <<Head(all)>> ELSE <<>>
      /\ Len(items') <= Depth

Next == \E put \in {<<>>} \cup {<<x>> : x \in Item}, take \in BOOLEAN : Edge(put, take)

Spec == Init /\ [][Next]_<<items, taken>>
===============================================================================
