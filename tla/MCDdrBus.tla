------------------------------- MODULE MCDdrBus -------------------------------
(***************************************************************************)
(* The two ends of the DDR bus in one run: the multiplexer of the hosts,   *)
(* and the block manager at the controller.  They share no signal here     *)
(* (each meets an arbitrary partner), so end says which of them runs and   *)
(* the other stays in reset.                                               *)
(***************************************************************************)
EXTENDS DdrMux, DdrBlkMgr

(* Two requests that differ in both fields tell every mix-up apart. *)
MCAddr == {"b1", "b2"}
MCAnc == {1, 2}
MCRequest == {[addr |-> "b1", anc |-> 1], [addr |-> "b2", anc |-> 2]}

(***************************************************************************)
(* The block manager: lane 0 is the low half, lanes 1 (byte 16) and 2 the  *)
(* high half.  Each word of the DRAM starts with a value naming its place; *)
(* writes put 9.                                                           *)
(***************************************************************************)
Req(o, a, m, c) ==
  [op |-> o, addr |-> a, mask |-> m, data |-> [l \in 0 .. 2 |-> 9], anc |-> c]
MCVal == 0 .. 5 \cup {8, 9}
MCBlkRequest == {Req("Get", 0, 0 .. 2, 1), Req("Get", 1, 0 .. 2, 2),
                 Req("PutFullData", 0, {0, 2}, 2), Req("PutPartialData", 0, {1}, 1)}
MCInitialMem == [a \in {0, 1} |-> [l \in 0 .. 2 |-> 3 * a + l]]

ASSUME BlkMgrAssumption == Assumptions

-------------------------------------------------------------------------------
VARIABLE end

(* Beside the controller the memories of the ring need no contents of their own. *)
NoRoutes == ancillary_mem = [s \in Slots |-> 1] /\ source_mem = [s \in Slots |-> 0]

BusInit ==
  /\ Init /\ BlkInit
  /\ end = "hosts" \/ (end = "controller" /\ NoRoutes)

HostsClock == end = "hosts" /\ Next /\ UNCHANGED <<blkVars, end>>
ControllerClock == end = "controller" /\ BlkNext /\ UNCHANGED <<vars, end>>
BusSpec == BusInit /\ [][HostsClock \/ ControllerClock]_<<vars, blkVars, end>>
===============================================================================
