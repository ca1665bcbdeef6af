----------------------------- MODULE FifoConstants -----------------------------
(* The parameters of a FIFO: what it carries (Width) and how much (Depth).  *)
CONSTANTS Item, Depth
===============================================================================
