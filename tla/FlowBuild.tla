------------------------------ MODULE FlowBuild ------------------------------
(***************************************************************************)
(* The build flow (flow/__init__.py and its blocks): what each task makes  *)
(* of the sources and of the results of other tasks, which results the     *)
(* flow tool reuses, and what a simulation then has in its memory.  A task *)
(* is one step; between two of them the user may edit, and a task may fail *)
(* and end the invocation; results may be removed when no task is planned. *)
(*                                                                         *)
(* One program stands for all; "project" is the program whose image is the *)
(* initial content of the memory in the RTL.                               *)
(***************************************************************************)
EXTENDS Integers, Sequences, FiniteSets, SequencesExt

CONSTANTS
  Sources,         \* what the user edits
  MaxEdits,        \* bound: the number of edits
  TooLarge         \* the versions of the program that do not fit the memory

AllSources == {"regs", "xbar", "rtl", "sys", "project", "prog"}
Assumptions == Sources \subseteq AllSources

VARIABLES
  src,             \* the version of every source
  built,           \* the result of every task, or none
  plan,            \* tasks of this invocation still to be done
  memory,          \* of the last simulation: section to content; empty before the first
  sim,             \* what it simulated: .netlist, .elf, .regs, .baked: the delta's reference is in it
  libold           \* history: the registers were generated again since the library was built

vars == <<src, built, plan, memory, sim, libold>>

none == [missing |-> TRUE]
Is(r) == r # none

-----------------------------------------------------------------------------
(* Tasks: what they require, in order, and which are always rebuilt. *)

program_build == {"project.build", "prog.build"}

requires ==
  [reggen         |-> <<>>,
   xbar           |-> <<>>,
   libsys         |-> <<"reggen">>] @@
  [t \in program_build |-> <<"libsys", "reggen">>] @@
  [srcs           |-> <<"xbar", "reggen", "project.build">>,
   delta          |-> <<"prog.build", "project.build">>,
   syn            |-> <<"srcs">>,
   pnr            |-> <<"syn">>,
   sim_rtl        |-> <<"srcs", "delta">>,
   sim_synfunc    |-> <<"srcs", "delta", "syn">>,
   sim_pnrtime    |-> <<"srcs", "delta", "pnr">>]

Tasks == DOMAIN requires

\* The blocks whose results a user removes at once.
Blocks ==
  {{"reggen"}, {"xbar"}, {"libsys"}, {"project.build"}, {"prog.build", "delta"}, {"srcs"},
   {"syn", "pnr"}}

\* mutant
always_rebuild_NotDelta == program_build \cup {"srcs"}
\* mutant
always_rebuild_NotPrograms == {"srcs", "delta"}
always_rebuild == program_build \cup {"srcs", "delta"}

-----------------------------------------------------------------------------
(* Images.  A program has a section for its own code, one for the library and *)
(* one that only the project program has; the image ends with the last one.   *)

Sections(elf) ==
  LET code == [who |-> elf.who, main |-> elf.main, regs |-> elf.regs]
      lib  == [sys |-> elf.sys, regs |-> elf.libregs]
  IN  IF elf.who = "project" THEN <<code, lib, [data |-> elf.main]>> ELSE <<code, lib>>

Fits(elf) == ~(elf.who = "prog" /\ elf.main \in TooLarge)

\* A section that does not fit ends the load with a warning; what was loaded
\* before stays, and the length counts as nothing.
load_elf_to_mem(elf) ==
  [mem    |-> IF Fits(elf) THEN Sections(elf) ELSE SubSeq(Sections(elf), 1, 1),
   length |-> IF Fits(elf) THEN Len(Sections(elf)) ELSE 0]

\* The words of the new image that differ from the reference.
elfdelta(elf, ref) ==
  LET new == load_elf_to_mem(elf)
      old == load_elf_to_mem(ref)
  IN  [w \in {v \in 1..new.length : v \notin DOMAIN old.mem \/ new.mem[v] # old.mem[v]} |-> new.mem[w]]

-----------------------------------------------------------------------------
(* What the tasks make. *)

program(who) ==
  [who |-> who, main |-> src[who], sys |-> built["libsys"].sys,
   libregs |-> built["libsys"].regs, regs |-> built["reggen"].regs]

\* The sources are a list of file names: whoever reads it, reads the files as
\* they are then.  The list is always made again before it is read, so none is
\* kept.
rtl_files ==
  [rtl |-> src["rtl"], xbar |-> built["xbar"].xbar, regs |-> built["reggen"].regs,
   mem |-> load_elf_to_mem(built["project.build"]).mem]

Made(t) ==
  CASE t = "reggen"        -> [regs |-> src["regs"]]
    [] t = "xbar"          -> [xbar |-> src["xbar"]]
    [] t = "libsys"        -> [sys |-> src["sys"], regs |-> built["reggen"].regs]
    [] t = "project.build" -> program("project")
    [] t = "prog.build"    -> program("prog")
    [] t = "delta"         -> [words |-> elfdelta(built["prog.build"], built["project.build"])]
    [] t = "srcs"          -> none
    [] t = "syn"           -> rtl_files
    [] t = "pnr"           -> built["syn"]

Patched(mem, delta) ==
  [w \in DOMAIN mem \cup DOMAIN delta |-> IF w \in DOMAIN delta THEN delta[w] ELSE mem[w]]

simulated(t) ==
  CASE t = "sim_rtl"     -> rtl_files
    [] t = "sim_synfunc" -> built["syn"]
    [] t = "sim_pnrtime" -> built["pnr"]

Simulations == {"sim_rtl", "sim_synfunc", "sim_pnrtime"}

-----------------------------------------------------------------------------
(* The flow tool (external): the task asked for is built; a result it needs is *)
(* built when it is missing, always rebuilt, or everything is to be rebuilt.   *)

RECURSIVE Planned(_, _, _)
Planned(t, all, done) ==
  LET Visit(acc, d) ==
        IF d \in Range(acc) \/ ~(all \/ d \in always_rebuild \/ ~Is(built[d]))
          THEN acc ELSE Planned(d, all, acc)
  IN  Append(FoldLeft(Visit, done, requires[t]), t)

\* Any task may be named, hidden ones too.
Invoke ==
  /\ plan = <<>>
  /\ \E t \in Tasks, all \in BOOLEAN : plan' = Planned(t, all, <<>>)
  /\ memory' = <<>> /\ sim' = none            \* the last simulation is over
  /\ UNCHANGED <<src, built, libold>>

\* flow --clean, and flow --clean for one block: no result, no simulation.
Clean(ts) ==
  /\ plan = <<>>
  /\ built' = [t \in Tasks |-> IF t \in ts THEN none ELSE built[t]]
  /\ memory' = <<>> /\ sim' = none
  /\ UNCHANGED <<src, plan, libold>>

Build ==
  /\ plan # <<>> /\ Head(plan) \notin Simulations
  /\ built' = [built EXCEPT ![Head(plan)] = Made(Head(plan))]
  /\ libold' = CASE Head(plan) = "reggen" -> Is(built["libsys"])
                 [] Head(plan) = "libsys" -> FALSE
                 [] OTHER                 -> libold
  /\ plan' = Tail(plan)
  /\ UNCHANGED <<src, memory, sim>>

\* The test bench writes the words of the delta over the initial memory.
simulate ==
  /\ plan # <<>> /\ Head(plan) \in Simulations
  /\ LET design == simulated(Head(plan))
     IN  /\ memory' = Patched(design.mem, built["delta"].words)
         /\ sim' = [netlist |-> Head(plan) # "sim_rtl", elf |-> built["prog.build"],
                    regs |-> design.regs,
                    baked |-> design.mem = load_elf_to_mem(built["project.build"]).mem]
  /\ plan' = Tail(plan)
  /\ UNCHANGED <<src, built, libold>>

\* A task fails and leaves no result: a tool reports errors, or Ctrl-C.
Fail ==
  /\ plan # <<>>
  /\ built' = [built EXCEPT ![Head(plan)] = none]
  /\ plan' = <<>>
  /\ UNCHANGED <<src, memory, sim, libold>>

Total == src["regs"] + src["xbar"] + src["rtl"] + src["sys"] + src["project"] + src["prog"]

Edit(s) ==
  /\ Total < MaxEdits
  /\ src' = [src EXCEPT ![s] = @ + 1]
  /\ UNCHANGED <<built, plan, memory, sim, libold>>

Init ==
  /\ src = [s \in AllSources |-> 0]
  /\ built = [t \in Tasks |-> none]
  /\ plan = <<>> /\ memory = <<>> /\ sim = none /\ libold = FALSE

Next ==
  \/ Invoke \/ Build \/ simulate \/ Fail
  \/ \E ts \in Blocks \cup {Tasks} : Clean(ts)
  \/ \E s \in Sources : Edit(s)

Spec == Init /\ [][Next]_vars

-----------------------------------------------------------------------------
(* Properties. *)

\* After every simulation starts, there is a program built for it and its memory
\* holds that program, although only the differences to another program were written: for
\* RTL always, for a netlist as long as the project program is the one that
\* was synthesized (sw.py delta, system_tb.py simulate, elf2mem.py elfdelta).
\* A program too large for the memory is excepted: its delta is empty.
MemoryHoldsProgram ==
  Is(sim) =>
    /\ Is(sim.elf)
    /\ Fits(sim.elf) /\ (sim.netlist => sim.baked) =>
         \A w \in 1..Len(Sections(sim.elf)) : w \in DOMAIN memory /\ memory[w] = Sections(sim.elf)[w]

\* The RTL of an RTL simulation and the program it runs were built from the
\* same register descriptions, however stale (sources.py, sw.py, reggen.py);
\* a netlist may be older.  The library in the program is not built again when
\* the registers are, and is excepted from then on until it is.
SameRegisters ==
  Is(sim) /\ ~sim.netlist =>
    /\ sim.regs = sim.elf.regs
    /\ libold \/ sim.regs = sim.elf.libregs
==============================================================================
