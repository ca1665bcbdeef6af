-------------------------- MODULE XbarDescriptions --------------------------
(* Crossbar descriptions for the runs: two hosts and two devices in every   *)
(* pattern of connections, with clocks and FIFO settings; one host and three *)
(* devices whose ranges lie side by side, apart, overlapping or unaligned;   *)
(* and descriptions the generator has to refuse.                             *)
EXTENDS Integers, Sequences, TLC

Range1(b, s) == <<[base |-> b, size |-> s]>>

Settings == {[pipeline |-> "false"], [pipeline |-> "true"], [pipeline |-> "true", pipeline_byp |-> "true"]}
Passing  == [pipeline |-> "true", pipeline_byp |-> "true"]

Host(n, more)      == [name |-> n, type |-> "host"] @@ more
Device(n, b, more) == [name |-> n, type |-> "device", addr_range |-> Range1(b, 4)] @@ more
OnClock(c) == [clock |-> c]

Config(nodes, connections) ==
  [clock |-> "main", reset |-> "rst", clocks |-> {"main", "other"}, resets |-> {"rst"},
   nodes |-> nodes, connections |-> connections]

\* Connections of two hosts and two devices, one of them named twice.
Patterns ==
  LET all == <<<<"h1", "d1">>, <<"h1", "d2">>, <<"h2", "d1">>, <<"h2", "d2">>>>
      Pick(s) == SelectSeq(all, LAMBDA p : p \in s)
  IN  {Pick(s) : s \in SUBSET {all[k] : k \in 1..4}} \cup {all \o <<<<"h1", "d2">>>>}

Topologies ==
  {Config(<<Host("h1", a), Device("d1", 0, b), Host("h2", c), Device("d2", 4, d)>>, p) :
     a \in Settings, b \in Settings, c \in Settings, d \in Settings, p \in Patterns}
  \cup
  {Config(<<Host("h1", OnClock(a) @@ Passing), Host("h2", OnClock(b) @@ m), Device("d1", 0, OnClock(c) @@ m),
            Device("d2", 4, OnClock(d) @@ Passing)>>, p) :
     a \in {"main", "other"}, b \in {"main", "other"}, c \in {"main", "other"}, d \in {"main", "other"},
     m \in Settings, p \in Patterns}

\* Ranges of a device behind another crossbar, and of its neighbours.
Spans == {<<0, 2>>, <<2, 2>>, <<4, 4>>, <<6, 1>>, <<8, 2>>, <<12, 4>>}
Ranges2 == {Range1(x[1], x[2]) \o Range1(y[1], y[2]) : x \in Spans, y \in Spans}
Singles == {<<0, 2>>, <<2, 4>>, <<3, 3>>, <<5, 1>>, <<8, 4>>, <<14, 2>>}

AddressMaps ==
  {Config(<<Host("h1", Passing), Device("d1", 0, Passing),
            [name |-> "d2", type |-> "device", addr_range |-> Range1(y[1], y[2])],
            [name |-> "d3", type |-> "device", addr_range |-> r, xbar |-> "true"],
            [name |-> "d4", type |-> "device", addr_range |-> Range1(24, 1) \o Range1(z, 2),
             xbar |-> "true"]>>,
          <<<<"h1", "d2">>, <<"h1", "d3">>, <<"h1", "d4">>>>) :
     y \in Singles, r \in Ranges2, z \in {20, 25, 28}}

Unfit ==
  {Config(<<Host("h1", m), Host(n, Passing), Device("d1", 0, k)>>, p) :
     m \in {Passing, OnClock("gone"), [reset |-> "gone"]}, n \in {"h1", "h2"}, k \in {Passing, OnClock("gone")},
     p \in {<<>>, <<<<"h1", "d1">>>>, <<<<"h1", "d9">>>>}}
  \cup {Config(<<Host("h1", Passing)>>, <<>>)}

MCConfigs == Topologies \cup AddressMaps \cup Unfit
==============================================================================
