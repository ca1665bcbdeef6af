------------------------------- MODULE DdrMemory -------------------------------
(***************************************************************************)
(* What one port of the DDR memory promises (rvlab_ddr_pkg.sv:9-24): the   *)
(* requests take effect in the order they are accepted, as if each read or *)
(* wrote its whole block at that moment, and they are answered in that     *)
(* order, each answer with the ancillary value of its request and, for a   *)
(* read, the block as the request found it.                                *)
(***************************************************************************)
EXTENDS Sequences

CONSTANTS
  Addr, Lanes,   \* block addresses; the words of a block
  Request,       \* [op, addr, mask, data, anc]; op is "Get" or a kind of Put
  InitialMem

VARIABLES
  mem,           \* the blocks
  owed,          \* answers owed, oldest first
  got            \* the answer taken on the last edge, or Nothing

Nothing == <<>>

Written(m, r) ==
  [m EXCEPT ![r.addr] = [l \in Lanes |-> IF l \in r.mask THEN r.data[l] ELSE m[r.addr][l]]]

\* The data of the acknowledgement of a write means nothing and is left out.
AnswerTo(m, r) ==
  IF r.op = "Get" THEN [op |-> "AccessAckData", anc |-> r.anc, data |-> m[r.addr]]
                  ELSE [op |-> "AccessAck", anc |-> r.anc]

Init == mem = InitialMem /\ owed = <<>> /\ got = Nothing

(* One clock edge: at most one request accepted, at most one answer taken. *)
Edge(accepted, answered) ==
  LET kept == IF answered THEN Tail(owed) ELSE owed
  IN  /\ answered => owed # <<>>
      /\ got' = IF answered THEN Head(owed) ELSE Nothing
      /\ \/ accepted = {} /\ owed' = kept /\ UNCHANGED mem
         \/ \E r \in accepted : /\ owed' = Append(kept, AnswerTo(mem, r))
                                /\ mem' = IF r.op = "Get" THEN mem ELSE Written(mem, r)

Next == \E answered \in BOOLEAN, accepted \in {{}} \cup {{r} : r \in Request} :
          Edge(accepted, answered)

Spec == Init /\ [][Next]_<<mem, owed, got>>
===============================================================================
