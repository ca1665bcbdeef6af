# Verification of POTATO-GPU

POTATO-GPU is a RISC-V system on chip with a triangle rasterizer, a vertex
pipeline and an HDMI scan-out that share one DDR3 memory, together with the
Python flow that generates its registers and its crossbar, builds and simulates
it, and runs programs on the board. This directory holds TLA+ models of the
project's own logic (not of the vendored CPU, debug module, DDR3 controller and
HDMI PHY), the TLC configurations that check them, and TLAPS proofs for parts
that hold for every parameter value. Paths below are relative to `src/src/rtl/`,
those that start with `flow/` or `docs/` to `src/`, and those that start with
`sw/` or `design/` to `src/src/`.

## 1. The system

```
 CPU --TL-UL--> ddr_cache: block_cache --> prefetch --+ 1
 HDMI: pixel_fetcher --CDC fifo-----------------------+ 0
 frameclear_dma --------------------------------------+ 2     rvlab_ddr_mux
 depth_reader lo, hi ---------------------------------+ 3,4 -------+--CDC--> blkmgr --> DDR3
 writer ----------------------------------------------+ 5           (in order)
                                                                     
 registers (CPU) -> vertex_processor -> matmul -> triangle_collector -> vertex_post
   -> vertex_post_to_triangle2d -+
   triangle_input ---------------+-> triangle_param + load_texture -> triangle_core
   -> tile_reject -> tile_fifo -> line_fifo -> worker (6 lanes) -> rasterizer_status -> writer
```

```
 *.hjson --reggen--> RTL, C header, page        xbar.hjson --tlgen--> crossbar RTL
      \                                            /
  flow: edit -> libsys, programs, sources -> synthesis -> simulation (memory = project
                                                          image + delta), bitstream
  board: host script --OpenOCD--> debug module --> hart, memory (host I/O rings), DDR
```

| part | state | operations | what makes it hard | what makes it correct |
|---|---|---|---|---|
| `ddr3/rvlab_ddr_mux` | route ring, its pointers, count | accept, answer | accept and answer on one edge, ring full or wrapping | every answer goes to the host that asked, with its `a_anc` |
| `ddr3/rvlab_ddr_prefetch` | table of entries (Invalid, Pending, Valid, Stale), next address | read, write, prefetch, answer | a write or an invalidation while a read of the block is in flight | reads return the last write; no entry waits for a read nobody made |
| `ddr3/rvlab_ddr_block_cache` | three memories read a cycle ahead, latched access, stall | get, put, write-back, refill | forwarding on every same-cycle read and write | reads return the last write; no write is lost on eviction |
| `ddr3/rvlab_ddr_blkmgr` | request buffers, split state | latch, first and second half, acknowledge, respond | acknowledgements out of order, halves of different requests interleaved | an in-order block memory |
| `prim/prim_fifo_async`, `ddr3/rvlab_ddr_cdc_fifo` | storage, pointers in two clocks, synchronizers | write, read | a pointer is sampled while it changes, and is always old | bounded FIFO; a stale pointer catches up |
| `rasterizer/my_fifo` | ring, output register, count | put, take | the register is loaded a cycle ahead of the take | bounded FIFO; fixed timing at the ports |
| rasterizer front end | triangle registers, texture lookup, tile walk, tile and line FIFOs | accept triangle, walk, reject, push lines | the lookup races the arithmetic; one FIFO's `in_ready` is not connected | exactly the covered pixels, in order, each with its texture |
| rasterizer back end | six lanes, depth readers, mask, writer, status | fork, read depth, test, write, report | lanes with FIFOs of their own; reads and writes in flight together | lanes stay in step; done means written; the nearer pixel wins |
| vertex pipeline | launch counters, matmul stages, collector, post stage, FIFO | start, launch, collect, cull, push | a counter of beats that must never slip; a completion triangle that must be last | every visible triangle, whole and once, then the marker |
| `student/pixel_fetcher`, `hdmi/rvlab_hdmi` | block ring, valid bits, pointers, synchronized enables | fetch, answer, shift out, disable | answers that arrive after a disable; frame id taken at the wrap | the picture shown is the frame chosen |
| `hdmi/frameclear_dma` | counters, latched command | start, write | a command written while one runs | every block of the frame is cleared before done |
| `student/student_dma` | descriptor FSM, lengths, FIFO | fetch descriptor, memset, memcpy, stop | completion with answers outstanding; stop in the middle | exactly the bytes of the descriptor |
| `tlul/*`, `student/student_tlul_mux`, `prim/prim_arbiter_ppc` | outstanding counters, reorder ring, arbiter mask | route, arbitrate, reorder | device switched while an answer is stalled | answers in order, to the asker |
| register generator (`flow/tools/reggen`) | position and offset in the description, names, errors | walk one entry, check write enables, write RTL, header, page | sizes rounded and aligned; three outputs from one description | an accepted description has one place for everything, the same in all outputs |
| crossbar generator (`flow/tools/tlgen`) | graph of hosts, sockets, FIFOs, devices; address ranges | validate, insert FIFOs and sockets, set passes, compute steering | nodes inserted into edge lists that are being walked; options applied one after the other | every connection kept, wired, with the FIFOs asked for; an address goes to its device |
| build flow (`flow/*.py`) | sources, results of tasks, the running plan | edit, build, fail, simulate | what is reused may be older than what is not | the simulated memory holds the program just built |
| board session (`flow/tools/openocd.py`, `riscv_debug_helper.py`, `project_utils.py`, `sw/sys/hostio.c`, `sw/crt0.S`) | script position, terminal, debug module, hart, rings | reset and halt, clear, load, run, poll, type, end | host and hart read and write the same words; a board left in any state | output shown once and whole; input in order; a clean end |
| software (`sw/project`) | frame loop, buffer ids | clear, start, poll, swap | it learns everything through one status bit | a buffer is shown only when it is complete |

`PROJECT.json` lists every component with its status, and every hazard at the
line where it bites with the properties that would catch it.

## 2. The models

In the hardware modules one step is one rising clock edge: `Clock` computes
all combinational signals from the state and the environment's choices and
assigns every register. What the environment does (requests, grants, answers,
stalls, the length of an arithmetic pipeline) is chosen by `\E` in `Next`.
In the Python modules one step is one register-list entry, one node, one task or
one memory access of the host. Names are the source's. Operators named
`<definition>_<Suffix>` and marked `\* mutant` are plausible bugs; each
property of a passing run is shown to fail when one of them is put in place of
the definition it follows.

| module | models | correspondence |
|---|---|---|
| `DdrBus` | promise of the bus to its hosts (`ddr3/pkg/rvlab_ddr_pkg.sv`) | abstract: per host a queue of requests owed an answer |
| `DdrMux` | `rvlab_ddr_mux` | `RoutePointers`, `RouteMemories`, `Deliver` are its three clocked blocks; `Selects`, `dev_o_valid`, `response_host_id` its wires; device and hosts are external |
| `DdrPrefetch` | `rvlab_ddr_prefetch` | `UpdateStates` is the clocked table update in source order (`Allocated`, `PutInvalidated`, `AckInvalidated`, `Answered`: later assignments win) |
| `DdrBlockCache` | `rvlab_ddr_block_cache` | one operator per memory and per stage; `data_rdata` is the forwarding |
| `DdrMemory` | promise of one port of the DDR | abstract: requests take effect and are answered in order |
| `DdrBlkMgr` | `rvlab_ddr_blkmgr` | `StateMachine`, `Latch`, `BufferStates`, `BufferData`, `Respond`; `Controller` is the external Wishbone side |
| `FifoChannel`, `FifoConstants` | promise of every FIFO, its parameters | abstract |
| `PrimGray`, `PrimFifoAsync` | `prim_fifo_async` | pointer code; `WriteSide` and `ReadSide` are the two clock domains, `Caught` what a flop may sample |
| `MyFifoRing` | `my_fifo`, RAM variants | `Store`, `Output`, `Count` are its clocked blocks |
| `MyFifo` | `my_fifo` at its ports | the queue operators the rasterizer models are built with; `MyFifoRing` is proved to behave like it |
| `RasterFrontEnd` | triangle input to line FIFO | one operator per source module |
| `RasterBackEnd` | worker to writer, the DDR ports, `render_frame` | one operator per source module; the ghost `lines` numbers the lines, the ghost `pictures` has the frame after each of them |
| `VertexPipeline` | vertex processor to triangle FIFO, the register writes | one operator per source module; what the matrix makes of a triangle (visible, behind the camera, flat) is chosen per frame |
| `VertexMath` | 1/w, viewport, winding | operators, evaluated over all words in `MCRender` |
| `PrimFifoClocks` | the two free-running clocks around `PrimFifoAsync` | `WriteTicks`, `ReadTicks`, and both at once |
| `HostSession` | one session of the host script with the board | `Script` is the script up to its loop, command by command; then one action per memory access of `run_prog`, `hostio_read`, `hostio_write`; the hart's side is `hostio.c` and `crt0.S` |
| `RegisterFields` | `validate.py`: keys, fields, bit ranges, reset values | operators that return what the functions return, with the errors counted |
| `RegisterMap` | `validate()`, `gen_rtl.py`/`data.py`, `gen_ctheader.py` | one action per kind of entry; `Finish`, `GenRtl`, `GenHeader` follow it |
| `RegisterPage` | `gen_html.py` | the picture and the table as sequences of cells and rows, read back as bits |
| `XbarAddress` | `lib.py`, the address part of `tlgen/validate.py` | ranges, merging, base and mask |
| `XbarGenerator` | `tlgen/validate.py`, `xbar.py`, `elaborate.py`, `item.py` | `process_node` is a stack of `calls`, one action per branch; nodes and edges as Python's lists |
| `XbarRtl` | `tlgen/generate.py`, `xbar.rtl.sv.tpl` | the instances and the steering the template writes |
| `XbarDescriptions` | descriptions for the runs | |
| `FlowBuild` | `flow/__init__.py`, `sw.py`, `sources.py`, `reggen.py`, `xbar.py`, `rvlab_fpga_top.py`, `system_tb.py`, `elf2mem.py` | `requires`, `always_rebuild` and `Made` are the tasks; the flow tool's own rule (rebuild what is missing, or everything when asked) is external |
| `DdrBusProofs`, `DdrPrefetchProofs`, `DdrBlockCacheProofs`, `FifoProofs`, `RasterFrontEndProofs`, `RasterBackEndProofs`, `HostSessionProofs`, `RegisterMapProofs` | theorems | section 5 |
| `MCDdrBus`, `MCBuffers`, `MCRender`, `MCBuildFlow` | several parts in one run | see section 3 |
| other `MC*` | one part for TLC | |

**Refinements.** `DdrMux` implements `DdrBus` (the history `pend` records what each
host still waits for; nothing in the multiplexer reads it); `DdrBlkMgr` implements `DdrMemory` (the history `owed` is the abstract
queue; the buffer pointers wrap by their width, so the number of buffers is a
power of two); `PrimFifoAsync` and `MyFifoRing` implement `FifoChannel` (the cells
between the pointers; the output register followed by the ring). The block cache
has a history too: `asked` is the requests it accepted and has not answered, so
that `RequestAnswered` can name the request an answer belongs to.

**Abstractions.** Data are a few model values: a block is two or three lanes, a
request is named by address and ancillary value, a vertex by the slot it was
stored in. In the front end coordinates do not wrap and the interpolation of
depth and texture is a stage of any length. In the back end the 16 pixels of a
half line share one depth and the colour pipeline is a FIFO of any latency. In
the vertex pipeline the matrix product is replaced by the choice above; a
`triangle_count` written below the triangle being launched starts the launch over
(`StartOver`), which `render_frame` never does.
The back end makes one timing assumption, `MarkerFlushed`: two frame
clears (324 000 DDR writes of 32 bytes, three for 32 pixels of colour and one for 16
pixels of depth, `frameclear_dma.sv`) take longer than the rest of the completion
triangle takes to leave the pipeline.

In the session a character is its number in the order typed or written, and the
host's reply parser is reduced to "a number or not". The connection to OpenOCD
is up, reset, ended (the other side closed it in order) or gone with the killed
process. A command on a connection that was reset raises; on one that ended
`recv` gives `b''` and `cmd` asks again for ever (`flow/tools/openocd.py:52-54`),
so no step of the host follows.

In the register generator texts are sequences of name parts, a set of bits stands
for a mask or a value, and RTL, header and page are records of what the text says
about names, places, sizes and reset values. A number is an integer or the one
value that is none (the model value `BadInt`): `check_int` refuses text that is no
natural number, but returns what Hjson has read as an `int` unchanged
(`validate.py:73-74`). A negative number is therefore one written without quotes,
and a natural number one written with them; where the code converts such an `int`
once more (`gen_ctheader.py`) or joins it with a message the generator crashes,
and so does the model. A negative reset value of a field is one value, `Below0`. That the header
and page also fail on natural numbers without quotes (window items, enum values)
is left out, and so is the writing of the HTML text: the page is an operator. In the crossbar generator names and types are in lower case, there are
only host and device nodes, connections go from hosts to devices and every
device has a range. In the flow a source is its version, one program stands for
all, and an image is a sequence of sections that are equal or not. Any task may be
named, hidden ones too, and all results or those of a block may be removed
(`flow --clean`). The list of source files is always made again before it is read
and names files without copying them, so no result is kept for it.
`HostSession` makes one timing assumption, `HartSettled`: the hart leaves reset
before the next access over JTAG.

## 3. The runs

| run | instance | distinct states | shows |
|---|---|---|---|
| `ddr_bus` | multiplexer: 3 hosts, ring of 2, one host may change its request; block manager: 2 buffers, 4 kinds of request | 96 665 | ring and device agree, answers go home, `DdrBus`; halves add up, `DdrMemory` |
| `ddr_prefetch` | 2 entries, 3 blocks, 2 reads in flight | 63 282 | stale marking is right as long as no entry is freed with its read in flight; every request is served |
| `ddr_prefetch_stale` | 4 blocks, 3 in flight | violation | finding 1 |
| `buffers` | `my_fifo` and `prim_fifo_async`: depth 3, 2 items; block cache: 2 sets, 2 tags, 2 lanes, 3 writes | 73 072 | both FIFOs are a `FifoChannel`, port timing, neither side optimistic, stale pointers catch up; the last write is read, none lost, every request answered |
| `render` | vertices: 3 triangles, 2 frames, every split into visible, behind and flat; front end: 2x2 tiles of 2x4 pixels, 4 triangles, at most 3 presented, line FIFO one deeper than a tile; back end: two frames (2 and 1 draws) and a marker of 2 lines, FIFOs of 2 or 3 | 85 992 | exactly the visible triangles, then the marker; exactly the covered pixels, with their texture; lanes in step, completion means written, frame correct unless a depth was read early; no stretch gets stuck |
| `raster_depth_order` | the back end as above | violation | finding 2 |
| `vertex_restart` | 2 triangles, restart during a frame | violation | finding 3 |
| `board` | rings of 4 bytes in words of 2, 3 programs of up to 5 calls, 4 keys, the board left in any state | 707 906 | output shown once and whole, input in order, memory touched only with the hart halted, the terminal raw nowhere but in the loop and OpenOCD gone when the session is over, which it is in the end unless a command waits on a connection that ended |
| `board_calibration` | the same rings, no keys | violation | finding 4 |
| `flow` | all register lists of up to 2 entries of 33 kinds and some of 3, widths 8, 12, 32, 64; negative numbers between registers and windows, with widths 8, 0 and -8; interrupts of widths 1, 2, 8, 0 and -1; 2 hosts and 2 devices in every pattern of connections, clocks and settings, 1 host with 3 devices of 648 address maps; 3 edited sources, 2 edits, any task named and any results removed, one version of the program too large | 2 752 361 | section 1's promises of the two generators and of the flow |
| `registers_regwen` | the same register lists | violation | finding 5 |
| `crossbar_direct` | the same crossbars | violation | finding 6 |

**Several parts in one run.** `MCDdrBus`, `MCBuffers`, `MCRender` and
`MCBuildFlow` each check parts that have no variable in common: every part meets
an arbitrary neighbour. A variable chosen in `Init` (`end`, `which`, `stretch`,
`part`) says which part runs, the others stay in their initial state, so the
state space is the sum of the parts' and not their product, and every property
is that of the part alone. They are not compositions. `DdrBlockCache`,
`DdrBlkMgr`, `PrimFifoAsync` and `RasterBackEnd` have names of their own for Init, Next
and Spec (`CacheInit`, `BlkInit`, `AsyncInit`, `BackInit`, ...), so that a run can extend them
beside another component and check the very formulas the theorems state.

**Why the bounds are enough.** Each ring has a size at which it is full, empty
and wraps within the run, and one not a power of two where the code has a
special case for it (`prim_fifo_async`, `my_fifo`; the pointer code is evaluated
for all depths from 3 to 20). Two distinguishable items
show loss, duplication and exchange. The cache run has a conflict in one set
and a second set for the stale read ports. The prefetch run has more blocks
than entries, so that the address wraps. The front end has tiles in both
directions, a triangle leaving the frame at negative coordinates, one off
screen and one whose box holds rejected tiles; `NoCoveredTileRejected` evaluates
the rejection over a grid of 25 points, and `RejectedIsEmpty` proves it for every triangle. The back end has lines over the same pixels
in different order of depth, half-covered lines (so the two depth readers
differ), and a second frame over the leftovers of the first. The session's
programs wrap the output ring, mix both directions and let input overrun a
program that does not read. The register lists hold one entry of every kind the
walk tells apart, right and wrong, in every pair, and every number that may be
negative between what it could step back over; the wide registers put fields
at and over the line breaks of the picture. The crossbars hold every pattern of
sharing of hosts and devices, and ranges that touch, leave gaps, overlap and are
not aligned. Two edits let one source be newer than a result and a second one
be newer than that.

The named bounds are `MaxInFlight`, `MaxOwed`, `MaxDraws`, `MaxTriangles`,
`MaxFrames`, `MaxKeys`, `MaxEntries`, `MaxEdits`, `MaxLog` (windows of at most
2^30 bytes), and `Page` and `TopAddress`, which scale the crossbar's 4 KiB page
and 32-bit space down to 2 and 32. For the safety properties and refinements of
both FIFOs, the multiplexer, the prefetch unit, the block cache, the block
manager, both ends of the rasterizer and the host session, and for `MapDisjoint`, the theorems of section 5 remove
the bounds (`MaxLog` apart).

**Fairness.** The clock runs; an external memory goes on accepting and goes on
answering (each as weak fairness of an edge on which it does, other choices
free); arithmetic pipelines end; the consumer at the end of the pipeline goes
on taking; the front end ends its frame with the marker; software goes on
polling. The async FIFO assumes only that both clocks run, nothing of its
ports. Nothing inside a modelled hardware component is assumed fair beyond the
clock itself. For the memory the assumption is that of the code: every DDR host
except the lowest waits behind fixed priority, and the hosts in question keep
`d_ready` high or, for the depth readers, never need to lower it (`LanesInStep`
includes that a response FIFO has room for every answer due). In
the session the host script is a sequential process that is never blocked for
ever by anything but a connection that ended, the hart executes, and its reset ends
(`FairSpec`); keys, Ctrl-C, bad replies and the loss of the connection may come or
not. A session whose program asks for input that is never typed need not end. The generators and
the flow have safety properties only.

**Deadlock** checking is on in every run but those of `HostSession`: there the
session and the program both end. A step of the hardware models is a clock edge,
and the generators stop in a state that repeats.

## 4. Findings

1. **Prefetch unit returns another block** (`ddr_prefetch_stale`,
   `ReadsLatest`). The acknowledgement of a read marks all entries at or below
   its address Invalid (`ddr3/rvlab_ddr_prefetch.sv:184`), also one whose own
   read is in flight or that is being allocated on that edge. The entry is
   given to another block and the late answer, which carries the entry's
   number only, fills it.
2. **A farther line overwrites a nearer one** (`raster_depth_order`,
   `NearerIsSeen`). Depth is read when a line enters the worker
   (`rasterizer/depth_reader.sv:66`), without regard to lines over the same pixels
   that have not been written. `FrameMatchesUnlessEarly` shows that this
   overtaking is the only way the frame goes wrong in the model.
3. **A restart loses a triangle** (`vertex_restart`, `RestartDrawsTheFrame`).
   `start_render` during a frame does not clear the matmul stages and the
   collector (`student/vertex_processor.sv:256`,
   `design/reggen/vertex_processor.hjson:22`).

4. **The DDR is used before its calibration ends** (`board_calibration`,
   `CalibrationAnnounced`). The waiting loop reads the word at the address
   `(0x1f001000 & 2) == 0`, which is 1 (`flow/project_utils.py:91`).
5. **A write enable that does not exist is accepted** (`registers_regwen`,
   `RegwenErrorReported`). The failed search is logged, not counted, and the
   entry found before is judged in its place (`flow/tools/reggen/validate.py:1251`).
6. **A direct connection is not ignored** (`crossbar_direct`,
   `DirectConnectionIgnored`). Pipeline settings of a host wired to one device
   are applied to the device and raise (`flow/tools/tlgen/elaborate.py:146`).

Seen while modelling the hardware, outside the runs:

- `rvlab_ddr_pkg.sv:15-16` asks hosts to hold a beat until it is accepted; the
  multiplexer's device port does not, since a host of higher priority may come
  in between (`rvlab_ddr_mux.sv:98-108`), and neither does the prefetch unit.
  `DdrMux` therefore lets the hosts in `Fickle` change a request, and checks
  that nothing depends on it.
- `rvlab_ddr_blkmgr.sv:111` sends a partial write to the high half by mask bit
  16 alone: a mask of bytes 17 to 31 without 16 goes to the low half and writes
  nothing. No host of the block bus makes partial writes today (the cache, the
  writer and the frame clear engine use `PutFullData`, and the masks they use
  may cover both halves); `DdrBlkMgr!Assumptions` asks them to fit in a half.
- `rvlab_ddr_block_cache.sv`: a miss right after a write hit to another index
  sees `dirty_rdata` set for a clean line and writes it back (175); `d_valid` is
  high for one cycle whether or not the host is ready (182); there are no valid
  bits, tag 0 hits on the power-up contents (110).
- `prim_fifo_async.sv:59`: nothing keeps one clock domain from being reset alone
  while items are in flight.
- The completion triangle of the vertex pipeline covers more than one line, and
  each sets the status bit; hence `MarkerFlushed`.
- The status register's write-one-to-clear wins over a set on the same edge.
- A triangle that is turned round loses the texture descriptor of its second
  and third vertex (`student/vertex_post_to_triangle2d.sv:148-189`); the test bench
  repeats the code here. `VertexMath` models it so.
- `vp_x` cuts to 14 bits without clipping (`vertex_post.sv:79`), and the edge
  differences of `triangle_param.sv:239-244` are kept in 14 bits where 15 are needed.
- `triangle_input` can submit a triangle without area, which
  `triangle_inv_area.sv:122` asserts not to happen.
- `frameclear_dma.sv:60`: a second clear written while one runs changes mode and
  frame under the counters.

Of the board session:

- When OpenOCD ends and closes the connection in order, `cmd` spins for ever on
  the empty reply (`flow/tools/openocd.py:52-54`): in the loop with the terminal
  still raw, where Ctrl-C is only a character, and in `__exit__` before
  `proc.kill` is reached (39-43). `SessionEnds` excepts exactly this
  (`WaitsForEver`), and `CleanEnd` says nothing of a session that is not over.
- `hostio_write`'s test for room never finds the input ring full, so keys that
  run ahead of the program overwrite unread ones; `InputInOrder` holds until then.
- `sys.stdin.read(1)` takes every waiting key into Python's buffer, where
  `select` does not see them: they wait for the next key.
- After Ctrl-C "Execution finished" is printed although the program runs on.

Of the register generator:

- A negative number without quotes passes every check (`validate.py:73-74`). A
  negative `reserved`, a window of a negative number of words or a register width
  below one steps the offset back, and the next register shares its address with
  one placed before; `MapDisjoint` and `HeaderMatchesRtl` except exactly the
  descriptions with such a size (`PositiveSizes`). A negative reset value is
  accepted too and spills over the field (`Below0`, excepted in `FieldsFit`).
- `validate_multi` returns one value where its caller unpacks two (939); a
  multi-register that failed, a register without `swaccess`, and one of no
  instances each end in an exception instead of an error message
  (`WenCrash`, `NoFirst`, `Crash`).
- The reset value of a multi-register itself is lost, although the help text
  (`validate.py:482-486`) lists it; those of its fields are kept (`MultiregComplete`).
- `make_intr_reg` advances by one bit whatever the width of the interrupt:
  `FieldsFit` and `PageShowsFields` except the interrupt registers of a list with
  an entry of other than one bit (`UnevenIntr`), and no others.
- A multi-register's own name is not compared with those taken. It becomes a
  register's name when there is only one, so `NamesUnique` excepts a pair exactly
  when the later of the two is the single register of a multi-register
  (`TakesOwnName`); names that were generated are all compared.
- `sameaddr` registers are in the C header and not in the RTL (`HeaderMatchesRtl`).
- A register without fields makes the template fail, which is only logged; the
  RTL file is empty (`gen_rtl.py:198`).
- The picture of a register misses bit 0 when the lowest field starts at bit 1
  (`PageShowsFields`).
- With a width that is no multiple of 8 a window's word has one byte less than
  a register.

Of the crossbar generator:

- Devices that only hosts with a single connection use get neither the M:1
  socket nor the clock-crossing FIFO that the function's description promises
  (`Overlooked`, excepted in `PortsWired`).
- Pass bits are flipped, so two nodes that both ask for registers at a 1:N
  socket cancel each other (`FifosAsAsked`); one node's `pipeline: false`
  removes the FIFOs of the whole socket.
- A range whose size is a power of two but whose base is not aligned to it is
  never matched, and ranges of several crossbars behind one socket may be merged
  into each other (`Aligned`, `Steerable`, excepted in `AddressesSteered`).
- A host or device without a connection and with settings of its own raises.
- `generate` swallows the template's exception and then fails on the missing text.

Of the build flow:

- `elf2mem` says it does not write the image of a program that is too large, and
  writes what it had (`elf2mem.py:25` and `53-57`); `elfdelta` then makes an
  empty delta. `MemoryHoldsProgram` excepts such a program.
- A netlist simulation after the project program changed uses a delta against
  an image that is not in the netlist; excepted too.
- The library is not built again when the registers are generated anew
  (`flow/sw.py:19`, and `docs/flow.rst:16` says so of every existing result), but
  programs and RTL are: from then on a program has old register constants in its
  library and new ones in its own code. `SameRegisters` compares both with the
  RTL and excepts the library exactly from such a generation until the library
  is next built (the history `libold`, which nothing in the flow reads).
- Words behind the end of the new program keep the reference's contents.

## 5. The proofs

All proofs are checked by tlapm (SMT, Zenon, LS4). A component's assumptions
are the named `ASSUME`s of its module or its operator `Assumptions`; TLC evaluates
them in the runs.

| module | theorem | states | for |
|---|---|---|---|
| `DdrBusProofs` | `TypeCorrect`, `RoutesAgree`, `AnswersRouted` | `TypeOK`, `RouteMatchesDevice`, `AnswerReachesSender` | N >= 2 hosts, a ring of >= 2, any requests |
| | `BusImplemented` | `ImplementsBus` | the same |
| | `HalvesAlwaysAddUp`, `BlockManagerIsMemory` | `HalvesAddUp`, `ImplementsMemory` | any number of buffers, lanes, requests |
| `DdrPrefetchProofs` | `NoEntryWaitsForNothing`, `PrefetchReadsLatest` | `WaitingHasRead`, `ReadsLatestUnlessForgot` | >= 2 entries, any blocks and writes |
| `DdrBlockCacheProofs` | `CacheReadsLastWrite`, `CacheLosesNoWrite` | `ReadsLastWrite`, `NoWriteLost` | any sets, tags, lanes, writes |
| `FifoProofs` | `SidesNeverOptimistic`, `AsyncIsChannel` | `NeitherSideOptimistic`, `AsyncImplementsChannel` | Depth >= 3 with a one-bit pointer code |
| | `TypeCorrect`, `PointersCorrect`, `PortsCorrect`, `ChannelImplemented` | `TypeOK`, `PointersAgree`, `PortsAsModelled`, `ImplementsChannel` | Depth >= 2, any items |
| `RasterFrontEndProofs` | `TrianglesAreSent` | `SendsTheTriangles` | any tile size (two rows or more) and screen size, any triangles with an area and any number of them, any FIFO depths >= 2 |
| `RasterBackEndProofs` | `LanesAlwaysInStep`, `CompletionAlwaysMeansWritten` | `LanesInStep`, `CompletionMeansWritten` | any FIFO depths >= 2, any places, lines and frames, any number of answers owed |
| | `FrameAlwaysMatchesUnlessEarly` | `FrameMatchesUnlessEarly` | the same |
| `HostSessionProofs` | `EverySessionShowsOutput`, `EveryKeyInOrder`, `DebuggerNeedsNoLuck`, `EverySessionEndsCleanly` | `OutputShown`, `InputInOrder`, `HaltedForDebugger`, `CleanEnd` | rings of any whole number of words, any program, any number of keys |
| `RegisterMapProofs` | `MapDisjointAlways` | `MapDisjoint` | any descriptions with any numbers, negative ones included; `MapDisjoint` itself speaks of those whose sizes do not step back |

Where a module has a theorem `Invariant` (`AsyncInvariant`, `BlkInvariant`,
`FrontInvariant`, `LinesInvariant`, `FrameInvariant`), it states the inductive invariant the others follow from.

**`DdrBusProofs`, the multiplexer** (`NAssumption`, `MaxOutstandingAssumption`,
`RequestAssumption`: there are requests, and they are requests). The inductive
invariant is the types with `RouteMatchesDevice`, which holds the count and both
pointers together: slot `rptr + i` describes the i-th request of the device. An accept
writes the slot behind the youngest, free since a request is only offered when
the ring is not full. `AnswersRouted` follows at the oldest slot. For
`BusImplemented` the device's queue and the hosts' queues in `pend` are matched
(`Matched`): a numbering gives each request of the device its place in the
queue of its host, increasing along the device's queue and reaching every place. Hence the
oldest request of the device is the oldest of its host (`OldestFirst`), an
answer removes both, and an accept appends to both.

**`DdrBusProofs`, the block manager** (`DdrBlkMgr!Assumptions`). `Halves` says which accesses the
controller's queue holds of every buffer, low before high; acknowledgements
take an access out of the middle and leave those of other buffers. `Ring` ties
the buffers in use to the answers owed. `Promised` is what the refinement
rests on: of every owed answer each half is in the buffer, on its way back, or still in the
memory because its access is the next one offered.

**`DdrPrefetchProofs`** (`SizeAssumption`, `BlocksAssumption`, `MemAssumption`,
`WritesAssumption`). `ReadsLatest` is false of the code (finding 1), so the
theorem is about executions in which no entry was freed with its read in
flight (`forgot`), like the run. `WaitingHasRead` needs no such condition. The
inductive invariant is that with, unless forgotten, `Tracked`: no read without
its entry, a Valid entry holds what its block holds (`ValidCurrent`), the read
of a Pending one carries what its block holds (`PendingCurrent`). The steps go
through the table update in source order, since later assignments win. `Lowest`
and `Highest` need that a set of entries has a least member, which is the
library's `WFMin` for sets of naturals.

**`DdrBlockCacheProofs`** (`DdrBlockCache!Assumptions`). The invariant says that the
read ports show the memories as they stand now (`ReadPorts`), which is what the
write-first forwarding is for; which answers the back end may owe in each phase
of a miss (`OwedForMiss`); and that a line agrees with the last write unless it
is being replaced (`LinesAgree`). Only the dirty flag shown may be too high (see
section 4). `NoWriteLost` is stated for every cycle, in the middle of a miss
too, where the line may already hold the beat of an AccessAck.

**`FifoProofs`, two clocks** (`FifoAssumptions`: the pointer code
decodes, resets to zero, and changes by one bit per increment; `MCBuffers`
evaluates the last for every depth from 3 to 20). `NeitherSideOptimistic` is not inductive:
it says nothing of the flops between the two clocks. `Ordered` does: what the
writer has decoded, its two flops, the reader's pointer, the reader's two
flops and the writer's pointer follow one another on the circle of 2 * Depth
pointers, the last at most Depth ahead of the first. Whatever a flop catches
of a changing code lies between what it held and what is there, so looking
again keeps the order; an increment keeps it because the full and the empty
test compare with an older copy. Both edges at once are the same argument
done twice (`Moved`). The contents are then a ring in the storage (`RingPut`,
`RingTake`), and a step of either clock or of both is a step of `FifoChannel`.

**`FifoProofs`, one clock** (`DepthAssumption`, `ItemAssumption`). `PointersAgree`
alone is not inductive: nothing in it keeps a valid output register from going
with a count of zero. `IInv` adds the types and `valid_q => depth_q >= 1`. On it
rest two facts about rings as sequences, `RingPut` (writing the slot behind the
last item appends it, since no item of a ring that is not full lies there) and
`RingTake` (advancing the read pointer drops the first), from which `EdgeContents`
computes the contents after an edge in the five ways a register and a ring can
meet a take. The channel's step and the port timing follow. This is what
entitles the rasterizer models to use the queue operators of `MyFifo` for FIFOs
of any size.

**`RasterFrontEndProofs`** (`TriangleAssumption`: corners are pairs of integers;
`AreaAssumption`: no triangle is flat, which `triangle_inv_area.sv` asserts and the
vertex pipeline and the software see to; `FrameAssumption`: the frame has tiles,
a tile has two rows or more, the line FIFO has room for the rows of one).
A tile of one row is excluded because `line_fifo` pushes the first row in
the cycle it takes the tile and only then looks whether that was the last. Two
arguments meet.

The geometry says what the arithmetic of the stages gives. A covered
pixel is the mean of the three corners with the edge functions as weights
(`AreasAddUp`), so it lies between their extreme coordinates (`Mean`,
`CoveredIsInside`) and its tile in the bounding box, clipping and the test for
off-screen triangles included (`LineInBox`). An edge function is
largest at one corner of a tile, so a rejected tile covers nothing
(`RejectedIsEmpty`). Adding `dx` row by row arrives at the edge functions of each
row, and their signs give exactly the mask (`MaskIsCovered`).

The flow is `FrontInv`. A line is *made* when it is sent or queued in `line_fifo`.
From the lines made back over the walk, `tile_fifo` and `triangle_core` to
`triangle_param`, each stage holds tiles that come later than those of the stages
before it (`MadeOk`, `WalkOk`, `TilesOk`, `CoreOk`), and a line with covered
pixels that is not made yet is still in front of one of them (`CompleteOk`). That is what
`SendsTheTriangles` lacks: it looks at the lines sent only. `ParamOk` has
the texture id: while a triangle is in `triangle_param`, the lookup under way is
its own, and it does not leave before the answer. `RoomFor` is the hazard at
`line_fifo.sv:146`: the rows the walk has still to push fit the line FIFO, so that each
line pushed is stored although `in_ready` is not looked at. One edge changes all
stages at once; it is described as one relation per stage (`ParamMoves` to
`MadeMoves`), and each part of the invariant is kept under these.

**`RasterBackEndProofs`** (`DepthsAssumption`: every FIFO has two entries or
more; `LinesAssumption`: a line covers something of its place and only the
completion triangle's are markers; `MarkerAssumption`: the completion triangle
covers a line; `BoundsAssumption`: the bounds are positive, otherwise arbitrary).
Two invariants, one on top of the other; TLC checked every conjunct of both on
the instance of `render` and on a larger one before they were proved.

`IInv` is about line numbers. A lane that has been handed the lines up to
`Len(lines)` holds the last of them, consecutive (`Lanes`); the lines behind the
join are those before (`Output`). `LanesAgree` alone is not inductive, since it does
not say that a lane has no gap in it. `Readers` has each read of a depth
reader (presented, owed by the memory, or answered and waiting) at its token, in
order, and each token of a covered half at its read; `Room` is the token count
against `ReadDepth`, which is why an answer always finds room. `Status`
carries the completion: the line vouched for has left the pipeline, and from the
moment the bit is set nothing up to it is in the writer or unacknowledged.

`FInv` is about what the lines draw. The ghost `pictures` is the reference, a
sequence of frames that grows by a line at a time, so that no recursion over the
input is needed. `Depths`: an answer carries the depth of the picture before
its line, unless it was read early. `Masks`: so the mask hits exactly where that
picture is farther. `Memories`: so the surfaces are the picture of the lines that
have left, save for the colours and depths the writer has still to write
(`Stored` follows it from state to state). What makes `Depths` inductive is the
definition of early: when a read is accepted and no earlier line over the
same half is in the pipeline or the writer, every picture from the last line that
left to the one before the read has the same depth there. `Frame` and `Progress` say that a
frame is draws and then markers and that the marker is claimed as it leaves,
hence that at the completion no line is left to draw.

`MarkerFlushed` (section 2) is part of the model and so of these theorems. The
lemmas about the queues of `MyFifo` (`QueueStep`, `FifoStep`) are those of the
front end's proofs, which this module extends.

**`HostSessionProofs`** (`BufferAssumption`: a ring is a whole number of
words). The script is first written out as the 36 or 37 commands it is
(`ScriptLines`), so that `Scripted` can say at each line what the hart is doing
and which words are cleared already, whatever the board was left in
(`Untouched`). `Outputs` describes the output ring by distances from the place the
host reads: everything from the last character printed to the last one stored.
`Draining` says that what the host has fetched of it in words stays true while
the program goes on writing. `Finishing` is the order of `crt0.S` and the
host's last look at the ring: the flags are seen set only after the program's last
write. `Keys`, `Inputs` and `InOrder` are the other direction, as long as
no more than `BUF_SIZE - 1` keys wait. `Programs` and `MaxKeys` are arbitrary.
`EverySessionEndsCleanly` holds wherever the connection is reset or ends; it does
not say that the session comes to its end, which is `SessionEnds`, checked only.

**`RegisterMapProofs`** (`DescriptionAssumption`: numbers are integers of either
sign or no numbers, and parameters have names of their own; `BadIntAssumption`:
what is no number is no integer; `PowersAssumption`: the powers of two up to the
bound on windows are positive). The invariant is `MapInv`: when no size of the description
steps back, `IInv`; a description does not change, nor whether its sizes step back.
`MapDisjoint` alone is not inductive: `IInv` adds that the position,
the offset and the parameters are numbers, and that the offset is still 0 before
the first entry, where the interrupt registers go. `Extend` is the core: spans
that are laid out between the old offset and the new one can be added to a map
that is laid out below the old offset. One lemma per action then shows that
its spans are of that kind; `AlignUpGrows` and `PowerSize` give it for windows,
`MultiLaid` for multi-registers (the registers of one follow each other), `IntrLaid` for the
interrupt registers.

Only model-checked:

- every liveness property (`RequestServed`, `RequestAnswered`, `PointersCatchUp`,
  `StretchesFinish`, `SessionEnds`): fairness and ENABLED are out of the prover's
  reach;
- the other promises of the register generator, of the crossbar generator and
  the flow, whose operators fold or recurse over lists (fields, names, ranges,
  paths), and the pages;
- the vertex pipeline (`FramesDrawn`), whose property compares with sequences that are
  computed by recursion over the input;
- that the pointer code of `prim_fifo_async` moves by one bit (a statement
  about sums of powers of two), and `VertexMath`, evaluated over bounded
  inputs.

## 6. Not modelled, and the plan

Not modelled: the vendored CPU, debug module (what the host script relies on of
it is in `HostSession`), DDR3 controller and PHY, HDMI
PHY, C library and CoreMark; the generated register files and the sockets of the
crossbar (a register is modelled where its owner is); the shading arithmetic,
whose values no property tells apart; demo peripherals and the timer; test
benches and test programs, which were read for what they promise; converters of
pictures, slides and meshes, the documentation extensions and the generators'
unused outputs (`gen_dv.py`, `gen_fpv.py`, `gen_json.py`, `gen_cheader.py`,
`gen_cfg_html.py`, `generate_tb.py`), the command lines of the tools, and the
bitstream, lint and module bench tasks of the flow.

What could follow, in order:

1. **Scan-out and frame hand-over**: `PixelFetcher` with `rvlab_hdmi`'s
   enables and the CDC, `FrameClear`, and the buffer swap of `main.c:103-107`.
   Properties: a block is valid only with the three planes of its own
   coordinates; the frame shown never changes inside a frame; disable and
   enable with reads in flight; a clear covers the frame exactly once.
2. **DMA engine**: `StudentDma` against an abstract copy; completion with
   outstanding answers; stop. Then the TL-UL reorder buffer and the
   `student_tlul_mux`.
3. **Composed memory**: block cache over prefetch unit over the bus, with a
   second writer of cached blocks (the hazards at `rvlab_ddr_block_cache.sv:175`).
4. **Edge arithmetic** at its real widths.
5. **Proofs**: `FramesDrawn` of the vertex pipeline; `HeaderMatchesRtl`, `FieldsFit` and
   `NamesUnique` of the register generator, for which the errors have to be
   summed and the fields walked without a fold; `RoutesKept` of the crossbar
   generator.
