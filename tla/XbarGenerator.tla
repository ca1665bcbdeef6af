---------------------------- MODULE XbarGenerator ----------------------------
(***************************************************************************)
(* The crossbar generator run_tlgen (flow/tools/tlgen_wrapper.py):         *)
(* validate() reads the nodes and the connections of a description,        *)
(* elaborate() puts FIFOs and sockets between hosts and devices, and the   *)
(* templates write the RTL.                                                *)
(*                                                                         *)
(* Nodes and edges are known by their position in the crossbar's lists.    *)
(***************************************************************************)
EXTENDS XbarAddress

CONSTANTS
  Configs          \* the descriptions a user may write

\* Connections lead from hosts to devices, every device has ranges, and only
\* one that stands for another crossbar has several.
Assumptions ==
  \A c \in Configs :
    /\ \A p \in Range(c.connections), o \in Range(c.nodes) :
         (o.name = p[1] => o.type = "host") /\ (o.name = p[2] => o.type = "device")
    /\ \A o \in Range(c.nodes) :
         o.type = "device" =>
           /\ "addr_range" \in DOMAIN o /\ o.addr_range # <<>>
           /\ "xbar" \in DOMAIN o \/ Len(o.addr_range) = 1

VARIABLES
  config,          \* the description
  next,            \* the node, then the connection, that is read next
  ranges,          \* the description's address ranges, which merging rewrites
  nodes,           \* xbar.nodes
  edges,           \* xbar.edges: the upstream and the downstream node
  calls,           \* the calls of process_node, or the nodes of process_pipeline, to come
  status           \* "validating", "connecting", "elaborating", "pipelining", and how it ended

vars == <<config, next, ranges, nodes, edges, calls, status>>

Has(r, k) == k \in DOMAIN r
Get(r, k, default) == IF Has(r, k) THEN r[k] ELSE default

Hosts   == SelectSeq([k \in 1..Len(nodes) |-> k], LAMBDA k : nodes[k].type = "host")
Devices == SelectSeq([k \in 1..Len(nodes) |-> k], LAMBDA k : nodes[k].type = "device")

Stop(verdict) ==
  /\ status' = verdict
  /\ UNCHANGED <<config, next, ranges, nodes, edges, calls>>

Init ==
  /\ config \in Configs
  /\ next = 1
  /\ ranges = [k \in 1..Len(config.nodes) |-> Get(config.nodes[k], "addr_range", <<>>)]
  /\ nodes = <<>> /\ edges = <<>> /\ calls = <<>>
  /\ status = "validating"

-----------------------------------------------------------------------------
(* validate: the nodes, in order. *)

NodeObj == config.nodes[next]

NewNode(name, type, clocks) ==
  [name |-> name, type |-> type, clocks |-> clocks, us |-> <<>>, ds |-> <<>>, addr_range |-> <<>>,
   pipeline |-> FALSE, pipeline_byp |-> FALSE,
   hdepth |-> 0, hpass |-> {}, ddepth |-> 0, dpass |-> {}]

Named(name) == {k \in 1..Len(nodes) : nodes[k].name = name}

checkNameExist == Named(NodeObj.name) # {}

Clock == Get(NodeObj, "clock", config.clock)
Reset == Get(NodeObj, "reset", config.reset)

IsDevice(obj) == obj.type = "device"

\* The ranges of every other device as the description has them now.
OtherRanges ==
  UNION {Range(ranges[k]) : k \in {j \in 1..Len(config.nodes) :
           IsDevice(config.nodes[j]) /\ config.nodes[j].name # NodeObj.name}}

\* Any text after the key xbar counts as true.
Compacted ==
  IF IsDevice(NodeObj) /\ Has(NodeObj, "xbar")
    THEN simplify_addr(ranges[next], OtherRanges)
    ELSE [ranges |-> ranges[next], ok |-> TRUE]

\* Whether a range overlaps one accepted before, of this device or another.
Overlapping(list) ==
  LET accepted == UNION {Range(nodes[k].addr_range) : k \in 1..Len(nodes)}
  IN  \E k \in 1..Len(list) :
        checkAddressOverlap(list[k], accepted \cup {list[j] : j \in 1..(k - 1)})

AddNode ==
  /\ status = "validating" /\ next <= Len(config.nodes)
  /\ ~checkNameExist
  /\ Clock \in config.clocks /\ Reset \in config.resets
  /\ Compacted.ok
  /\ ~(IsDevice(NodeObj) /\ Overlapping(Compacted.ranges))
  /\ nodes' = Append(nodes,
       [NewNode(NodeObj.name, NodeObj.type, <<Clock>>) EXCEPT
          !.addr_range   = Compacted.ranges,
          !.pipeline     = Get(NodeObj, "pipeline", "false") \in {"true", "1"},
          !.pipeline_byp = Get(NodeObj, "pipeline_byp", "false") \in {"true", "1"}])
  /\ ranges' = [ranges EXCEPT ![next] = Compacted.ranges]
  /\ next' = next + 1
  /\ UNCHANGED <<config, edges, calls, status>>

RejectNode ==
  /\ status = "validating" /\ next <= Len(config.nodes)
  /\ \/ checkNameExist /\ Stop("duplicate")
     \/ ~checkNameExist /\ Clock \notin config.clocks /\ Stop("no clock")
     \/ ~checkNameExist /\ Clock \in config.clocks /\ Reset \notin config.resets /\ Stop("no reset")
     \/ /\ ~checkNameExist /\ Clock \in config.clocks /\ Reset \in config.resets
        /\ \/ ~Compacted.ok /\ Stop("crashed")
           \/ Compacted.ok /\ IsDevice(NodeObj) /\ Overlapping(Compacted.ranges) /\ Stop("overlap")

NodesRead ==
  /\ status = "validating" /\ next > Len(config.nodes)
  /\ status' = "connecting" /\ next' = 1
  /\ UNCHANGED <<config, ranges, nodes, edges, calls>>

-----------------------------------------------------------------------------
(* validate: the connections. *)

Pair == config.connections[next]
Known == Cardinality(Named(Pair[1])) = 1 /\ Cardinality(Named(Pair[2])) = 1

\* A connection named twice is made once.
Connected(u, d) == \E e \in 1..Len(edges) : edges[e] = [us |-> u, ds |-> d]

connect_nodes ==
  /\ status = "connecting" /\ next <= Len(config.connections)
  /\ Known
  /\ LET u == CHOOSE k \in Named(Pair[1]) : TRUE
         d == CHOOSE k \in Named(Pair[2]) : TRUE
         e == Len(edges) + 1
     IN  IF Connected(u, d)
           THEN UNCHANGED <<nodes, edges>>
           ELSE /\ edges' = Append(edges, [us |-> u, ds |-> d])
                /\ nodes' = [nodes EXCEPT ![u].ds = Append(@, e), ![d].us = Append(@, e)]
  /\ next' = next + 1
  /\ UNCHANGED <<config, ranges, calls, status>>

\* get_node raises for a name no node has.
UnknownNode ==
  status = "connecting" /\ next <= Len(config.connections) /\ ~Known /\ Stop("crashed")

-----------------------------------------------------------------------------
(* elaborate: process_node puts new nodes next to node k. *)

Call(k) == <<"node", k>>
Callee  == IF Head(calls)[1] = "node" THEN Head(calls)[2] ELSE edges[Head(calls)[2]].ds

Elaborate ==
  /\ status = "connecting" /\ next > Len(config.connections)
  /\ IF Len(nodes) <= 1 \/ edges = <<>>
       THEN status' = "refused" /\ UNCHANGED calls
       ELSE status' = "elaborating" /\ calls' = [j \in 1..Len(Hosts) |-> Call(Hosts[j])]
  /\ UNCHANGED <<config, next, ranges, nodes, edges>>

NewId   == Len(nodes) + 1
NewEdge == Len(edges) + 1

\* mutant
InsertAbove_FirstEdge(new, k) ==
  /\ nodes' = Append([nodes EXCEPT ![k].us = <<NewEdge>>],
                     [new EXCEPT !.us = nodes[k].us, !.ds = <<NewEdge>>])
  /\ edges' = Append([e \in 1..Len(edges) |->
                        IF e = nodes[k].us[1] THEN [edges[e] EXCEPT !.ds = NewId] ELSE edges[e]],
                     [us |-> NewId, ds |-> k])
InsertAbove(new, k) ==
  /\ nodes' = Append([nodes EXCEPT ![k].us = <<NewEdge>>],
                     [new EXCEPT !.us = nodes[k].us, !.ds = <<NewEdge>>])
  /\ edges' = Append([e \in 1..Len(edges) |->
                        IF e \in Range(nodes[k].us) THEN [edges[e] EXCEPT !.ds = NewId] ELSE edges[e]],
                     [us |-> NewId, ds |-> k])

InsertBelow(new, k) ==
  /\ nodes' = Append([nodes EXCEPT ![k].ds = <<NewEdge>>],
                     [new EXCEPT !.ds = nodes[k].ds, !.us = <<NewEdge>>])
  /\ edges' = Append([e \in 1..Len(edges) |->
                        IF e \in Range(nodes[k].ds) THEN [edges[e] EXCEPT !.us = NewId] ELSE edges[e]],
                     [us |-> k, ds |-> NewId])

Foreign(k) == nodes[k].type # "async_fifo" /\ nodes[k].clocks[1] # config.clock
FansIn(k)  == nodes[k].type # "socket_m1" /\ Len(nodes[k].us) > 1
FansOut(k) == nodes[k].type # "socket_1n" /\ Len(nodes[k].ds) > 1

\* A host's FIFO leads into the crossbar's clock, a device's out of it.
AddAsyncFifo ==
  /\ status = "elaborating" /\ calls # <<>> /\ Foreign(Callee)
  /\ LET own == nodes[Callee].clocks[1]
     IN  IF nodes[Callee].type = "host"
           THEN InsertBelow(NewNode("", "async_fifo", <<own, config.clock>>), Callee)
           ELSE InsertAbove(NewNode("", "async_fifo", <<config.clock, own>>), Callee)
  /\ calls' = <<Call(NewId)>> \o Tail(calls)
  /\ UNCHANGED <<config, next, ranges, status>>

Ports(list) == 1..Len(list)

AddSocketM1 ==
  /\ status = "elaborating" /\ calls # <<>> /\ ~Foreign(Callee) /\ FansIn(Callee)
  /\ InsertAbove([NewNode("", "socket_m1", <<config.clock>>) EXCEPT
                    !.hdepth = 2, !.hpass = Ports(nodes[Callee].us), !.ddepth = 2, !.dpass = {1}],
                 Callee)
  /\ calls' = <<Call(NewId)>> \o Tail(calls)
  /\ UNCHANGED <<config, next, ranges, status>>

\* mutant
AddSocket1N_NotBelow ==
  /\ status = "elaborating" /\ calls # <<>> /\ ~Foreign(Callee) /\ ~FansIn(Callee) /\ FansOut(Callee)
  /\ InsertBelow([NewNode("", "socket_1n", <<config.clock>>) EXCEPT
                    !.hdepth = 2, !.hpass = {1}, !.ddepth = 2, !.dpass = Ports(nodes[Callee].ds)],
                 Callee)
  /\ calls' = Tail(calls)
  /\ UNCHANGED <<config, next, ranges, status>>
AddSocket1N ==
  /\ status = "elaborating" /\ calls # <<>> /\ ~Foreign(Callee) /\ ~FansIn(Callee) /\ FansOut(Callee)
  /\ InsertBelow([NewNode("", "socket_1n", <<config.clock>>) EXCEPT
                    !.hdepth = 2, !.hpass = {1}, !.ddepth = 2, !.dpass = Ports(nodes[Callee].ds)],
                 Callee)
  /\ calls' = [j \in Ports(nodes[Callee].ds) |-> <<"edge", nodes[Callee].ds[j]>>] \o Tail(calls)
  /\ UNCHANGED <<config, next, ranges, status>>

NothingToAdd ==
  /\ status = "elaborating" /\ calls # <<>>
  /\ ~Foreign(Callee) /\ ~FansIn(Callee) /\ ~FansOut(Callee)
  /\ calls' = Tail(calls)
  /\ UNCHANGED <<config, next, ranges, nodes, edges, status>>

-----------------------------------------------------------------------------
(* process_pipeline: hosts, then devices. *)

StartPipeline ==
  /\ status = "elaborating" /\ calls = <<>>
  /\ status' = "pipelining"
  /\ calls' = [j \in 1..(Len(Hosts) + Len(Devices)) |-> Call((Hosts \o Devices)[j])]
  /\ UNCHANGED <<config, next, ranges, nodes, edges>>

Default(k)  == nodes[k].pipeline /\ nodes[k].pipeline_byp
NoBypass(k) == nodes[k].pipeline /\ ~nodes[k].pipeline_byp

Toggle(set, x) == IF x \in set THEN set \ {x} ELSE set \cup {x}
PortOf(list, e) == CHOOSE j \in 1..Len(list) : list[j] = e

\* The node at the other end of the first edge.
Neighbour(k) ==
  IF nodes[k].type = "host" THEN edges[nodes[k].ds[1]].ds ELSE edges[nodes[k].us[1]].us
Attached(k) == (IF nodes[k].type = "host" THEN nodes[k].ds ELSE nodes[k].us) # <<>>

\* The settings of socket b after node k had its say.
\* mutant
Configure_Keep(b, k) ==
  LET bypass(set) == IF NoBypass(k) THEN {} ELSE set
      depth(d)    == IF nodes[k].pipeline THEN 2 ELSE 0
      depths(s)   == [s EXCEPT !.hdepth = depth(b.hdepth), !.ddepth = depth(b.hdepth)]
  IN  depths([b EXCEPT !.hpass = bypass(@), !.dpass = bypass(@)])
Configure(b, k) ==
  LET bypass(set) == IF NoBypass(k) THEN {} ELSE set
      depth(d)    == IF nodes[k].pipeline THEN d ELSE 0
      depths(s, d) == [s EXCEPT !.hdepth = d, !.ddepth = d]
  IN  IF nodes[k].type = "host"
        THEN depths([b EXCEPT !.hpass = bypass(@), !.dpass = bypass(@)], depth(b.hdepth))
        ELSE depths([b EXCEPT
               !.dpass = IF b.type = "socket_m1" THEN bypass(@)
                         ELSE IF NoBypass(k) THEN Toggle(@, PortOf(b.ds, nodes[k].us[1])) ELSE @,
               !.hpass = bypass(@)], depth(b.ddepth))

\* What the attribute accesses of one round can meet: a host looks for a list
\* of edges among the edges of an SM1, hosts and devices have no FIFOs, and a
\* node without a connection has no neighbour.
Fails(k) ==
  Attached(k) =>
    \/ nodes[Neighbour(k)].type \in {"host", "device"}
    \/ nodes[k].type = "host" /\ nodes[Neighbour(k)].type = "socket_m1"

SetPipeline ==
  /\ status = "pipelining" /\ calls # <<>>
  /\ LET k == Callee
     IN  /\ Default(k) \/ ~Fails(k)
         /\ nodes' = IF Default(k) \/ nodes[Neighbour(k)].type = "async_fifo"
                       THEN nodes
                       ELSE [nodes EXCEPT ![Neighbour(k)] = Configure(@, k)]
  /\ calls' = Tail(calls)
  /\ UNCHANGED <<config, next, ranges, edges, status>>

PipelineFails ==
  /\ status = "pipelining" /\ calls # <<>>
  /\ ~Default(Callee) /\ Fails(Callee)
  /\ Stop("crashed")

-----------------------------------------------------------------------------
(* generate: the templates are filled in. *)

generate ==
  /\ status = "pipelining" /\ calls = <<>>
  /\ status' = "generated"
  /\ UNCHANGED <<config, next, ranges, nodes, edges, calls>>

Ended == status \in {"duplicate", "no clock", "no reset", "overlap", "refused", "crashed", "generated"}
Stopped == Ended /\ UNCHANGED vars

Next ==
  \/ AddNode \/ RejectNode \/ NodesRead
  \/ connect_nodes \/ UnknownNode
  \/ Elaborate \/ AddAsyncFifo \/ AddSocketM1 \/ AddSocket1N \/ NothingToAdd
  \/ StartPipeline \/ SetPipeline \/ PipelineFails
  \/ generate \/ Stopped

Spec == Init /\ [][Next]_vars
==============================================================================
