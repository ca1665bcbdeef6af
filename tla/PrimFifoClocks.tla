---------------------------- MODULE PrimFifoClocks ----------------------------
(***************************************************************************)
(* PrimFifoAsync with its two clocks made visible, so that fairness can    *)
(* say that both run for ever and nothing at all of the two ports: an edge *)
(* on which the port is idle and nothing moves is still an edge.           *)
(***************************************************************************)
EXTENDS PrimFifoAsync

VARIABLES clk_wr, clk_rd     \* toggled by every edge

clocked == <<asyncVars, clk_wr, clk_rd>>

ClockedInit == AsyncInit /\ clk_wr = FALSE /\ clk_rd = FALSE

WriteEdges == WriteClock /\ clk_wr' = ~clk_wr /\ UNCHANGED clk_rd
ReadEdges  == ReadClock /\ clk_rd' = ~clk_rd /\ UNCHANGED clk_wr
BothAtOnce == Together /\ clk_wr' = ~clk_wr /\ clk_rd' = ~clk_rd

ClockedNext == WriteEdges \/ ReadEdges \/ BothAtOnce

(* A tick of each clock, whatever happens at the ports: every state of      *)
(* ClockedNext has a step with either.                                      *)
WriteTicks == clk_wr' = ~clk_wr
ReadTicks == clk_rd' = ~clk_rd
===============================================================================
