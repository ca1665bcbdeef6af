-------------------------------- MODULE DdrMux --------------------------------
(***************************************************************************)
(* rvlab_ddr_mux: the M:1 socket between the DDR hosts and the memory      *)
(* controller.  One step is one rising clock edge.  Requests are granted   *)
(* by fixed priority; a ring remembers, for every request in flight, who   *)
(* sent it and with which ancillary value, so that the in-order answers    *)
(* of the device can be routed back.                                       *)
(*                                                                         *)
(* The device is external: it answers requests in order (devq), when it    *)
(* likes, and does not look at a_anc.  A host keeps a request it presents  *)
(* until it is accepted, except the hosts in Fickle (the prefetcher),      *)
(* which may replace or withdraw it.                                       *)
(***************************************************************************)
EXTENDS Naturals, Sequences

CONSTANTS
  N,              \* number of hosts; host 0 has the highest priority
  MaxOutstanding, \* MAX_OUTSTANDING, entries of the route ring
  Addr,           \* block addresses (the answer's data is named by its address)
  Anc,            \* values of a_anc
  Request,        \* the requests the hosts make, each an address with an a_anc
  Fickle          \* hosts that may change a request before it is accepted

ASSUME NAssumption == N \in Nat /\ N >= 2
ASSUME MaxOutstandingAssumption == MaxOutstanding \in Nat /\ MaxOutstanding >= 2
ASSUME RequestAssumption == Request # {} /\ Request \subseteq [addr: Addr, anc: Anc]
ASSUME FickleAssumption == Fickle \subseteq 0 .. N - 1

Hosts == 0 .. N - 1
Slots == 0 .. MaxOutstanding - 1
Idle == <<>>

VARIABLES
  rptr, wptr,     \* read and write pointers of the ring
  outstanding_q,  \* number of requests in flight
  ancillary_mem,  \* ring: a_anc of each request in flight
  source_mem,     \* ring: the host it came from
  host_i,         \* host_i[h]: the request h presents this cycle, or Idle
  devq,           \* requests the device holds, oldest first: [addr, src, anc]
  got,            \* got[h]: the answer h took on the last edge, or Idle
  pend            \* history: the requests of h accepted and not answered (see DdrBus)

ring == <<rptr, wptr, outstanding_q, ancillary_mem, source_mem>>
vars == <<ring, host_i, devq, got, pend>>

(* The combinational signals. *)
route_empty == outstanding_q = 0
route_full  == outstanding_q = MaxOutstanding
Valid(h)    == host_i[h] # Idle

(***************************************************************************)
(* sel_host_id: the lowest index with a_valid, 0 when there is none.       *)
(***************************************************************************)
Selects(h) == \/ Valid(h) /\ \A k \in 0 .. h - 1 : ~Valid(k)
              \/ h = 0 /\ \A k \in Hosts : ~Valid(k)

dev_o_valid(h) == Valid(h) /\ ~route_full
response_host_id_ByWptr == source_mem[wptr]  \* mutant: wrong pointer
response_host_id == source_mem[rptr]

Succ(p) == IF p = MaxOutstanding - 1 THEN 0 ELSE p + 1

Init ==
  /\ rptr = 0 /\ wptr = 0 /\ outstanding_q = 0
  /\ ancillary_mem \in [Slots -> Anc]   \* the memories are not reset
  /\ source_mem \in [Slots -> Hosts]
  /\ host_i = [h \in Hosts |-> Idle]
  /\ devq = <<>>
  /\ got = [h \in Hosts |-> Idle]
  /\ pend = [h \in Hosts |-> <<>>]

(***************************************************************************)
(* The registers at the clock edge, given whether a request and a response *)
(* beat are exchanged in this cycle.                                       *)
(***************************************************************************)
RoutePointers_NoBoth(request_fire, response_fire) ==  \* mutant: both at once
  /\ wptr' = IF request_fire THEN Succ(wptr) ELSE wptr
  /\ rptr' = IF response_fire THEN Succ(rptr) ELSE rptr
  /\ outstanding_q' = IF request_fire THEN outstanding_q + 1
                      ELSE IF response_fire THEN outstanding_q - 1
                      ELSE outstanding_q

RoutePointers(request_fire, response_fire) ==
  /\ wptr' = IF request_fire THEN Succ(wptr) ELSE wptr
  /\ rptr' = IF response_fire THEN Succ(rptr) ELSE rptr
  /\ outstanding_q' = CASE request_fire /\ ~response_fire -> outstanding_q + 1
                        [] response_fire /\ ~request_fire -> outstanding_q - 1
                        [] OTHER -> outstanding_q

RouteMemories_NoAnc(request_fire, sel) ==  \* mutant: a_anc not recorded
  /\ source_mem' = IF request_fire THEN [source_mem EXCEPT ![wptr] = sel]
                   ELSE source_mem
  /\ UNCHANGED ancillary_mem

RouteMemories(request_fire, sel) ==
  IF request_fire
  THEN /\ ancillary_mem' = [ancillary_mem EXCEPT ![wptr] = host_i[sel].anc]
       /\ source_mem' = [source_mem EXCEPT ![wptr] = sel]
  ELSE UNCHANGED <<ancillary_mem, source_mem>>

(* External: the device takes the request and drops the one it answers. *)
Device(request_fire, response_fire, sel) ==
  LET rest == IF response_fire THEN Tail(devq) ELSE devq
  IN  devq' = IF request_fire
              THEN Append(rest, [addr |-> host_i[sel].addr, src |-> sel,
                                 anc |-> host_i[sel].anc])
              ELSE rest

(* The d channel of the hosts: host_o[response_host_id] sees the beat. *)
Deliver(response_fire) ==
  got' = [h \in Hosts |->
            IF response_fire /\ h = response_host_id
            THEN [addr |-> Head(devq).addr, anc |-> ancillary_mem[rptr]]
            ELSE Idle]

\* what a host knows: the requests it had accepted, less one for each answer taken
History(request_fire, response_fire, sel) ==
  pend' = [h \in Hosts |->
    LET kept == IF response_fire /\ h = response_host_id
                THEN SubSeq(pend[h], 2, Len(pend[h])) ELSE pend[h]
    IN  IF request_fire /\ h = sel THEN Append(kept, host_i[h]) ELSE kept]

(* External: what the hosts present in the next cycle. *)
Present(request_fire, sel) ==
  /\ host_i' \in [Hosts -> Request \cup {Idle}]
  /\ \A h \in Hosts \ Fickle :
       Valid(h) /\ ~(request_fire /\ h = sel) => host_i'[h] = host_i[h]

Clock(sel, dev_a_ready, dev_d_valid, host_d_ready) ==
  LET request_fire  == dev_o_valid(sel) /\ dev_a_ready
      response_fire == dev_d_valid /\ ~route_empty /\ host_d_ready
  IN  /\ Selects(sel)
      /\ dev_d_valid => devq # <<>>
      /\ RoutePointers(request_fire, response_fire)
      /\ RouteMemories(request_fire, sel)
      /\ Device(request_fire, response_fire, sel)
      /\ Deliver(response_fire)
      /\ History(request_fire, response_fire, sel)
      /\ Present(request_fire, sel)

Next == \E sel \in Hosts, a_ready, d_valid, d_ready \in BOOLEAN :
          Clock(sel, a_ready, d_valid, d_ready)

Spec == Init /\ [][Next]_vars

-------------------------------------------------------------------------------
TypeOK ==
  /\ rptr \in Slots /\ wptr \in Slots
  /\ outstanding_q \in 0 .. MaxOutstanding
  /\ ancillary_mem \in [Slots -> Anc]
  /\ source_mem \in [Slots -> Hosts]
  /\ host_i \in [Hosts -> Request \cup {Idle}]
  /\ devq \in Seq([addr: Addr, anc: Anc, src: Hosts])
  /\ got \in [Hosts -> [addr: Addr, anc: Anc] \cup {Idle}]
  /\ pend \in [Hosts -> Seq(Request)]

\* the slot i places behind slot p
Slot(p, i) == IF p + i < MaxOutstanding THEN p + i ELSE p + i - MaxOutstanding

(***************************************************************************)
(* The ring and the device agree: as many requests are in flight as the    *)
(* counter says, and slot by slot the ring holds the source and the        *)
(* ancillary value of the request the device holds at that position, over  *)
(* any interleaving of accepts and answers and any wrap of the pointers    *)
(* (rvlab_ddr_mux.sv:48-75).                                               *)
(***************************************************************************)
RouteMatchesDevice ==
  /\ outstanding_q = Len(devq)
  /\ wptr = Slot(rptr, Len(devq))
  /\ \A i \in 1 .. Len(devq) : /\ source_mem[Slot(rptr, i - 1)] = devq[i].src
                               /\ ancillary_mem[Slot(rptr, i - 1)] = devq[i].anc

(***************************************************************************)
(* An answer only ever reaches the host that sent the request the device   *)
(* answers, and carries that request's ancillary value                     *)
(* (rvlab_ddr_mux.sv:77-97).                                               *)
(***************************************************************************)
AnswerReachesSender ==
  [][\A h \in Hosts : got'[h] # Idle =>
       /\ devq # <<>> /\ devq[1].src = h
       /\ got'[h] = [addr |-> devq[1].addr, anc |-> devq[1].anc]]_vars

(***************************************************************************)
(* The mux gives every host the service DdrBus promises: its answers come  *)
(* in the order of its requests, each with the ancillary value of its own  *)
(* request, whatever the other hosts do (rvlab_ddr_pkg.sv:11-23).          *)
(***************************************************************************)
Bus == INSTANCE DdrBus

ImplementsBus == Bus!Spec
===============================================================================
