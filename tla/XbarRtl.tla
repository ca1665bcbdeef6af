------------------------------- MODULE XbarRtl -------------------------------
(***************************************************************************)
(* What the generated crossbar does with a request                         *)
(* (flow/tools/tlgen/xbar.rtl.sv.tpl), and what has to hold of it.         *)
(***************************************************************************)
EXTENDS XbarGenerator

LOCAL INSTANCE Bitwise

(* Steering.  The package lists a device's bases and masks from the top      *)
(* index down, and the comparison for port i is chosen by the i-th range     *)
(* measured from the first base.                                             *)

Masked(a, base, size) == a - (a & (size - 1)) = base
Within(a, base, size) == base <= a /\ a <= base + size - 1

Matches(list, a) ==
  LET n == Len(list)
  IN  \E i \in 1..n :
        LET r == list[n + 1 - i]
        IN  IF is_pow2(End(list[i]) - list[1].base)
              THEN Masked(a, r.base, r.size)
              ELSE Within(a, r.base, r.size)

RECURSIVE get_downstream_device(_)
get_downstream_device(k) ==
  IF nodes[k].type = "device" THEN k ELSE get_downstream_device(edges[nodes[k].ds[1]].ds)

Sockets1N == {k \in 1..Len(nodes) : nodes[k].type = "socket_1n"}
Leaf(s, j) == nodes[get_downstream_device(edges[nodes[s].ds[j]].ds)]

\* The port a request at address a takes at socket s; one past the last is
\* the error response.
dev_sel(s, a) ==
  LET hit == {j \in 1..Len(nodes[s].ds) : Matches(Leaf(s, j).addr_range, a)}
  IN  IF hit = {} THEN Len(nodes[s].ds) + 1 ELSE Min(hit)

-----------------------------------------------------------------------------
(* Properties. *)

DescNode(name) == CHOOSE o \in Range(config.nodes) : o.name = name
Requested == Range(config.connections)

RECURSIVE Paths(_, _)
Paths(k, d) ==
  IF k = d THEN 1
  ELSE FoldLeft(LAMBDA n, e : n + Paths(edges[e].ds, d), 0, nodes[k].ds)

\* Whatever has been inserted so far, a host has exactly one path to every
\* device it is connected to in the description, whether named once or twice,
\* and none to any other; and the edge lists of the nodes agree with the edges
\* (elaborate.py process_node, xbar.py insert_node).
RoutesKept ==
  status \in {"elaborating", "pipelining", "generated"} =>
    /\ \A h \in Range(Hosts), d \in Range(Devices) :
         Paths(h, d) = IF <<nodes[h].name, nodes[d].name>> \in Requested THEN 1 ELSE 0
    /\ \A e \in 1..Len(edges), k \in 1..Len(nodes) :
         /\ (edges[e].us = k) <=> (e \in Range(nodes[k].ds))
         /\ (edges[e].ds = k) <=> (e \in Range(nodes[k].us))

\* A device that only hosts with this one connection use is never looked at.
Overlooked(d) ==
  \A h \in Range(Hosts) :
    <<nodes[h].name, nodes[d].name>> \in Requested => Cardinality({p \in Requested : p[1] = nodes[h].name}) = 1

\* In a generated crossbar every port is driven once: hosts, devices and FIFOs
\* have one edge on a side, only sockets several, and an edge joins two ports
\* of the same clock, so that every change of clock has its FIFO
\* (elaborate.py process_node; the edges become the RTL's assignments).
\* Devices that process_node overlooks are excepted.
PortsWired ==
  status = "generated" =>
    /\ \A k \in 1..Len(nodes) :
         /\ nodes[k].type \in {"host", "async_fifo"} => Len(nodes[k].ds) <= 1
         /\ nodes[k].type = "device" /\ ~Overlooked(k) => Len(nodes[k].us) = 1
         /\ nodes[k].type \in {"async_fifo", "socket_1n"} => Len(nodes[k].us) = 1
         /\ nodes[k].type = "socket_m1" => Len(nodes[k].ds) = 1
    /\ \A e \in 1..Len(edges) :
         LET u == nodes[edges[e].us]
             d == nodes[edges[e].ds]
         IN  (d.type = "device" => ~Overlooked(edges[e].ds)) => Last(u.clocks) = Head(d.clocks)

AttachedTo(b, type) == {k \in 1..Len(nodes) : nodes[k].type = type /\ Attached(k) /\ Neighbour(k) = b}

\* The FIFOs of a generated socket: none as soon as one of the hosts or
\* devices at its ports asks for none, otherwise of depth two at every port;
\* and a port's FIFO may be passed unless a node at the socket asked for
\* registers, a device at a 1:N socket only for its own port and the host's
\* (elaborate.py process_pipeline).  Where both ends of a 1:N socket ask for
\* registers the flipped bits give the device a pass again: excepted.
FifosAsAsked ==
  status = "generated" =>
    \A b \in 1..Len(nodes) : nodes[b].type \in {"socket_1n", "socket_m1"} =>
      LET s       == nodes[b]
          hosts   == AttachedTo(b, "host")
          devices == AttachedTo(b, "device")
          depth   == IF \E k \in hosts \cup devices : ~nodes[k].pipeline THEN 0 ELSE 2
          askers  == {k \in hosts \cup devices : NoBypass(k)}
      IN  /\ s.hdepth = depth /\ s.ddepth = depth
          /\ s.hpass = IF askers = {} THEN Ports(s.us) ELSE {}
          /\ s.type = "socket_m1" => s.dpass = (IF askers = {} THEN {1} ELSE {})
          /\ s.type = "socket_1n" /\ askers \cap hosts = {} =>
               s.dpass = {j \in Ports(s.ds) : edges[s.ds[j]].ds \notin askers}

Aligned(r) == is_pow2(r.size) => r.base % r.size = 0

\* Addresses reach their device: a description whose ranges are disjoint is
\* never stopped for an overlap; in the generated RTL a socket sends every
\* address of a range in the description to the device that has it, whatever
\* merging made of the range, and answers an address outside the merged ranges
\* with an error (lib.py simplify_addr, validate.py validate, xbar.rtl.sv.tpl).  The
\* comparison assumes aligned powers of two and one range for a device.
Original(k) == Range(Get(config.nodes[k], "addr_range", <<>>))
AllRanges == UNION {{<<k, r>> : r \in Original(k)} : k \in 1..Len(config.nodes)}
Steerable(s) ==
  \A j \in 1..Len(nodes[s].ds) :
    Len(Leaf(s, j).addr_range) = 1 /\ Aligned(Leaf(s, j).addr_range[1])

AddressesSteered ==
  /\ status = "overlap" =>
       \E x, y \in AllRanges : x # y /\ isOverlap(x[2], y[2])
  /\ status = "generated" =>
       \A s \in Sockets1N : Steerable(s) =>
         \A a \in 0..(TopAddress - 1) :
           LET port == dev_sel(s, a)
               owner(k) == \E r \in Original(k) : r.base <= a /\ a < End(r)
               merged(j) == LET r == Leaf(s, j).addr_range[1] IN r.base <= a /\ a < End(r)
           IN  /\ port <= Len(nodes[s].ds) => merged(port)
               /\ \A k \in 1..Len(config.nodes) : owner(k) =>
                    \/ port <= Len(nodes[s].ds) /\ Leaf(s, port).name = config.nodes[k].name
                    \/ /\ port > Len(nodes[s].ds)
                       /\ \A j \in 1..Len(nodes[s].ds) : Leaf(s, j).name # config.nodes[k].name

\* What a comment of process_pipeline says: when host and device are directly
\* connected, the pipeline settings are ignored.  The code then reads
\* attributes that hosts and devices do not have.
DirectConnectionIgnored ==
  status = "crashed" /\ calls # <<>> /\ Attached(Callee) =>
    nodes[Neighbour(Callee)].type \notin {"host", "device"}
==============================================================================
