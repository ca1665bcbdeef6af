----------------------------- MODULE MCDdrPrefetch -----------------------------
EXTENDS DdrPrefetch
(* A block's contents name the block and the version written. *)
MCData == (0 .. Blocks - 1) \X {0, 1}
MCInitialMem == [a \in 0 .. Blocks - 1 |-> <<a, 0>>]
MCWrites == {<<2, <<2, 0>>>>, <<2, <<2, 1>>>>}
===============================================================================
