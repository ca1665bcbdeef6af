------------------------------ MODULE MyFifoRing ------------------------------
(***************************************************************************)
(* my_fifo, its distributed and its block RAM variant (they differ only in *)
(* the ram_style attribute), with Pass = 0: a ring with an output register *)
(* that is filled one cycle ahead.  depth_q counts the item in the output  *)
(* register too, so the ring holds one item less than depth_q when the     *)
(* register is full, and its write pointer can meet the read pointer with  *)
(* depth_q = Depth.  One step is one clock edge; clear_i is tied to 0 by   *)
(* every user.                                                             *)
(***************************************************************************)
EXTENDS Integers, MyFifo, FifoConstants

\* the branches of the generate statement that are modelled
ASSUME DepthAssumption == Depth \in Nat /\ Depth >= 2
ASSUME ItemAssumption == Item # {}

VARIABLES
  memory, write_pointer_q, read_pointer_q,
  depth_q, data_q, valid_q,
  got         \* the item consumed on the last edge, as a sequence of 0 or 1

vars == <<memory, write_pointer_q, read_pointer_q, depth_q, data_q, valid_q, got>>

Slots == 0 .. Depth - 1
Succ(p) == IF p = Depth - 1 THEN 0 ELSE p + 1

in_ready_o_Late(out_ready_i) == depth_q < Depth + 1 \/ (valid_q /\ out_ready_i)  \* mutant
in_ready_o(out_ready_i) == depth_q < Depth \/ (valid_q /\ out_ready_i)

refill_OnlyEmpty(out_ready_i) == ~valid_q /\ depth_q # 0     \* mutant
(* The output register is empty, or emptied, and the ring holds an item. *)
refill(out_ready_i) ==
  \/ ~valid_q /\ depth_q # 0
  \/ valid_q /\ out_ready_i /\ depth_q > 1

Init ==
  /\ memory \in [Slots -> Item] /\ data_q \in Item     \* not reset
  /\ write_pointer_q = 0 /\ read_pointer_q = 0
  /\ depth_q = 0 /\ valid_q = FALSE
  /\ got = <<>>

Store(put) ==
  /\ memory' = IF put = <<>> THEN memory
               ELSE [memory EXCEPT ![write_pointer_q] = put[1]]
  /\ write_pointer_q' = IF put = <<>> THEN write_pointer_q ELSE Succ(write_pointer_q)

Output(out_ready_i) ==
  /\ data_q' = IF refill(out_ready_i) THEN memory[read_pointer_q] ELSE data_q
  /\ read_pointer_q' = IF refill(out_ready_i) THEN Succ(read_pointer_q) ELSE read_pointer_q
  /\ valid_q' = IF refill(out_ready_i) THEN TRUE
                ELSE IF valid_q /\ out_ready_i THEN FALSE
                ELSE valid_q

Count_PutOnly(put, take) ==                \* mutant: put and take at once
  depth_q' = IF put # <<>> THEN depth_q + 1 ELSE IF take THEN depth_q - 1 ELSE depth_q

Count(put, take) ==
  depth_q' = IF put # <<>> /\ ~take THEN depth_q + 1
             ELSE IF put = <<>> /\ take THEN depth_q - 1
             ELSE depth_q

(* in is <<>> or the item offered; it is accepted if the FIFO is ready. *)
Clock(in, out_ready_i) ==
  LET put  == IF in_ready_o(out_ready_i) THEN in ELSE <<>>
      take == valid_q /\ out_ready_i
  IN  /\ Store(put)
      /\ Output(out_ready_i)
      /\ Count(put, take)
      /\ got' = IF take THEN <<data_q>> ELSE <<>>

Next == \E in \in {<<>>} \cup {<<x>> : x \in Item}, out_ready_i \in BOOLEAN :
          Clock(in, out_ready_i)

Spec == Init /\ [][Next]_vars
-------------------------------------------------------------------------------
TypeOK ==
  /\ memory \in [Slots -> Item] /\ data_q \in Item
  /\ write_pointer_q \in Slots /\ read_pointer_q \in Slots
  /\ depth_q \in 0 .. Depth /\ valid_q \in BOOLEAN
  /\ got \in {<<>>} \cup {<<x>> : x \in Item}

(* The refinement mapping: the output register, then the ring. *)
InRing == depth_q - (IF valid_q THEN 1 ELSE 0)
Wrap(a) == IF a < Depth THEN a ELSE a - Depth
Ring(m, r, n) == [i \in 1 .. n |-> m[Wrap(r + i - 1)]]
contents == (IF valid_q THEN <<data_q>> ELSE <<>>) \o Ring(memory, read_pointer_q, InRing)
ports == [items |-> contents, valid_q |-> valid_q]

(***************************************************************************)
(* The pointers describe what the ring holds, whichever way puts, takes    *)
(* and refills of the output register coincide (my_fifo.sv:82-143).        *)
(***************************************************************************)
PointersAgree == Wrap(read_pointer_q + InRing) = write_pointer_q

Channel == INSTANCE FifoChannel WITH items <- contents, taken <- got

(***************************************************************************)
(* The ring is a FIFO of Depth items: none is lost, duplicated or passed,  *)
(* although the register is loaded from the memory a cycle ahead and an    *)
(* item may be written in the cycle in which its slot is read.             *)
(***************************************************************************)
ImplementsChannel == Channel!Spec

(***************************************************************************)
(* Seen from the ports the ring behaves as MyFifo says, which is what the  *)
(* stages of the rasterizer are modelled with: an accepted item reaches    *)
(* the output on the second edge after it entered an empty FIFO.           *)
(***************************************************************************)
PortsAsModelled ==
  [][\E in \in {<<>>} \cup {<<x>> : x \in Item}, out_ready_i \in BOOLEAN :
       ports' = FifoEdge(ports, IF InReady(ports, Depth, out_ready_i) THEN in ELSE <<>>,
                         valid_q /\ out_ready_i)]_vars
===============================================================================
