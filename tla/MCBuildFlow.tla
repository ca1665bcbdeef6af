----------------------------- MODULE MCBuildFlow -----------------------------
(***************************************************************************)
(* The Python flow in one run: the register generator that the task reggen *)
(* calls, the crossbar generator that the task xbar calls, and the flow    *)
(* that decides when they and the other tasks run.  FlowBuild knows what a *)
(* generator makes only by the version of its description, so nothing is   *)
(* shared: part says which one runs, and the others stay as they began.    *)
(***************************************************************************)
EXTENDS MCRegisterMap, XbarDescriptions

CONSTANTS Sources, MaxEdits, TooLarge

VARIABLES
  config, next, ranges, nodes, edges, calls, verdict,
  src, built, plan, memory, sim, libold,
  part

xbar == <<config, next, ranges, nodes, edges, calls, verdict>>
flow == <<src, built, plan, memory, sim, libold>>

X == INSTANCE XbarRtl WITH Configs <- MCConfigs, Page <- 2, TopAddress <- 32, status <- verdict
F == INSTANCE FlowBuild

ASSUME BuildFlowAssumption == X!Assumptions /\ F!Assumptions

SomeDescription == [name |-> "c", registers |-> <<>>]
SomeConfig == Config(<<Host("h1", Passing)>>, <<>>)

BuildFlowInit ==
  /\ F!Init
  /\ \/ part = "reggen" /\ config = SomeConfig /\ X!Init /\ Init
     \/ part = "xbar" /\ desc = SomeDescription /\ Init /\ X!Init
     \/ part = "flow" /\ desc = SomeDescription /\ config = SomeConfig /\ Init /\ X!Init

Registers1 == part = "reggen" /\ Next /\ UNCHANGED <<xbar, flow, part>>
Crossbar1  == part = "xbar" /\ X!Next /\ UNCHANGED <<vars, flow, part>>
Flow1      == part = "flow" /\ F!Next /\ UNCHANGED <<vars, xbar, part>>

BuildFlowSpec == BuildFlowInit /\ [][Registers1 \/ Crossbar1 \/ Flow1]_<<vars, xbar, flow, part>>

RoutesKept         == X!RoutesKept
PortsWired         == X!PortsWired
FifosAsAsked       == X!FifosAsAsked
AddressesSteered   == X!AddressesSteered
MemoryHoldsProgram == F!MemoryHoldsProgram
SameRegisters      == F!SameRegisters
==============================================================================
