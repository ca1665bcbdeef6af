----------------------------- MODULE HostSession -----------------------------
(***************************************************************************)
(* One session of the host computer with the FPGA board.  The host script  *)
(* (flow/tools/openocd.py, riscv_debug_helper.py, project_utils.py) talks  *)
(* through OpenOCD to the RISC-V debug module; the hart runs the loaded    *)
(* program, whose stdin and stdout are two ring buffers in main memory     *)
(* (src/sw/sys/hostio.c) that the host reads and writes as words, while    *)
(* the program runs.  Every memory access is one step.                     *)
(*                                                                         *)
(* The connection to OpenOCD may go away at any time.  Reset, it makes the *)
(* next command raise; ended in order, it makes the next command wait for  *)
(* an answer for ever (recv gives no byte and cmd asks again).             *)
(*                                                                         *)
(* Characters are numbers: the program's k-th output is k, the user's k-th *)
(* key is k, and 0 is whatever the memory held before.                     *)
(***************************************************************************)
EXTENDS Integers, Sequences, FiniteSets, SequencesExt

CONSTANTS
  BUF_SIZE,      \* OBUF_SIZE and IBUF_SIZE: a power of two
  WORD,          \* bytes of a memory word
  Programs,      \* what a program may do: sequences of "putc" and "getc"
  MaxKeys,       \* bound: the number of keys the user types
  Tasks          \* what the session is for: "run_prog", "init_board"

ASSUME BufferAssumption ==
  WORD \in Nat \ {0} /\ BUF_SIZE \in Nat \ {0} /\ BUF_SIZE % WORD = 0

VARIABLES
  task,          \* the script of this session
  pc, line,      \* where the host script stands: "script" at a line of Script, then a label
  host,          \* the script's variables
  tty,           \* keys typed: .queue not read yet, .buf inside sys.stdin, .typed so far, .raw
  mem,           \* hostio_t
  dm,            \* debug module: requests, dmactive and the hart's reset flag
  hart,          \* "running", "halted", or "reset" while the reset is held or just released
  prog,          \* the program in memory: "old", or a position in the new one
  calls,         \* what is left of the program's calls
  board,         \* OpenOCD's access mode and connection, DDR calibration
  seen           \* what happened: .printed, .put by the program, .sent, .got, .overrun

vars == <<task, pc, line, host, tty, mem, dm, hart, prog, calls, board, seen>>

Indices   == 0 .. BUF_SIZE - 1
Interrupt == -1         \* Ctrl+C or Ctrl+D
Next1(i) == (i + 1) % BUF_SIZE
Enqueued(widx, ridx) == (widx - ridx) % BUF_SIZE

-----------------------------------------------------------------------------
(* The debug module and the script that resets the hart into debug mode. *)

dm_start              == << <<"dmi", {}>> >>
Pulse(field)          == << <<"dmi", {field}>>, <<"dmi", {}>> >>
dm_ackhavereset       == Pulse("ackhavereset")
dm_set_resethaltreq   == Pulse("setresethaltreq")
dm_clear_resethaltreq == Pulse("clrresethaltreq")
dm_ndmreset           == << <<"dmi", {"ndmreset"}>>, <<"poll", "allhavereset">>, <<"dmi", {}>> >>

\* mutant
reset_halt_rvlab_cpu_AckFirst ==
  dm_start \o dm_ackhavereset \o dm_set_resethaltreq
    \o << <<"dmi", {"ndmreset"}>>, <<"poll", "allhavereset">> >>
    \o dm_clear_resethaltreq \o << <<"dmi", {}>> >> \o dm_ackhavereset
reset_halt_rvlab_cpu ==
  dm_start \o dm_ackhavereset \o dm_set_resethaltreq \o dm_ndmreset
           \o dm_ackhavereset \o dm_clear_resethaltreq

writeword(at, value) == << <<"write", at, value>> >>

\* mutant
hostio_clear_NoFlags ==
  writeword("retval", 0) \o writeword("obuf_widx", 0) \o writeword("obuf_ridx", 0)
    \o writeword("ibuf_widx", 0) \o writeword("ibuf_ridx", 0)
hostio_clear ==
  writeword("flags", 0) \o writeword("retval", 0)
    \o writeword("obuf_widx", 0) \o writeword("obuf_ridx", 0)
    \o writeword("ibuf_widx", 0) \o writeword("ibuf_ridx", 0)

EnterDebug == reset_halt_rvlab_cpu \o << <<"arp_examine">> >> \o reset_halt_rvlab_cpu

load_image == << <<"load_image">>, <<"reg_pc">>, <<"set_mem_access_sysbus">> >>

run_prog == EnterDebug \o hostio_clear \o load_image \o << <<"resume">>, <<"enter_loop">> >>

init_board ==
  EnterDebug \o hostio_clear \o << <<"set_mem_access_sysbus">> >>
    \o writeword("ddr_ctrl", 0) \o writeword("ddr_ctrl", 1)
    \o << <<"await_calibration">>, <<"announce">>, <<"load_data">> >>

Script == IF task = "run_prog" THEN run_prog ELSE init_board

(* What the hart sees: a request that only lasts while its reset is not acknowledged. *)
haltreq == dm.resethaltreq /\ dm.havereset

(* One DMI write of dmcontrol; fields names the bits set besides dmactive. *)
DmControl(fields) ==
  /\ dm' = [resethaltreq |-> IF "clrresethaltreq" \in fields THEN FALSE
                             ELSE dm.resethaltreq \/ "setresethaltreq" \in fields,
            ndmreset     |-> "ndmreset" \in fields,
            havereset    |-> \/ "ndmreset" \in fields
                             \/ dm.havereset /\ "ackhavereset" \notin fields]
  /\ IF "ndmreset" \in fields
     THEN /\ hart' = "reset"
          /\ board' = [board EXCEPT !.ddr_ctrl = 0, !.calibrated = FALSE]
     ELSE UNCHANGED <<hart, board>>

(* The hart leaves reset before the next DMI access, which takes a whole   *)
(* JTAG scan, and is halted at once if the request is still there.         *)
HartSettled == hart # "reset" \/ dm.ndmreset

LeaveReset ==
  /\ hart = "reset" /\ ~dm.ndmreset
  /\ hart' = IF haltreq THEN "halted" ELSE "running"
  /\ prog' = IF prog = "old" THEN "old" ELSE "crt0"
  /\ UNCHANGED <<pc, line, host, tty, mem, dm, calls, board, seen>>

-----------------------------------------------------------------------------
(* The script up to its loop: one action per kind of command. *)

(* "progbuf" access runs code on the halted hart; "sysbus" needs no hart. *)
Accessible == board.access = "sysbus" \/ hart = "halted"

At(command) == pc = "script" /\ Script[line][1] = command /\ HartSettled
Done        == line' = line + 1 /\ UNCHANGED pc

(* cmd sends a command and takes the reply. *)
Connected     == board.openocd = "up"
Sent(command) == At(command) /\ Connected

DmiWrite ==
  /\ Sent("dmi") /\ Done
  /\ DmControl(Script[line][2])
  /\ UNCHANGED <<host, tty, mem, prog, calls, seen>>

PollHaveReset ==              \* the script spins until the flag is up
  /\ Sent("poll") /\ dm.havereset /\ Done
  /\ UNCHANGED <<host, tty, mem, dm, hart, prog, calls, board, seen>>

WriteHostio ==
  /\ Sent("write") /\ Script[line][2] \in DOMAIN mem /\ Done
  /\ mem' = [mem EXCEPT ![Script[line][2]] = Script[line][3]]
  /\ UNCHANGED <<host, tty, dm, hart, prog, calls, board, seen>>

WriteDdrCtrl ==
  /\ Sent("write") /\ Script[line][2] = "ddr_ctrl" /\ Done
  /\ board' = [board EXCEPT !.ddr_ctrl = Script[line][3]]
  /\ UNCHANGED <<host, tty, mem, dm, hart, prog, calls, seen>>

LoadImage ==
  /\ Sent("load_image") /\ Done
  /\ prog' = "crt0"
  /\ calls' \in Programs
  /\ UNCHANGED <<host, tty, mem, dm, hart, board, seen>>

UseSysbus ==
  /\ Sent("set_mem_access_sysbus") /\ Done
  /\ board' = [board EXCEPT !.access = "sysbus"]
  /\ UNCHANGED <<host, tty, mem, dm, hart, prog, calls, seen>>

Resume ==
  /\ Sent("resume") /\ Done
  /\ hart' = "running"
  /\ UNCHANGED <<host, tty, mem, dm, prog, calls, board, seen>>

Other ==                      \* commands that change nothing modelled
  /\ Sent("arp_examine") \/ Sent("reg_pc")
  /\ Done
  /\ UNCHANGED <<host, tty, mem, dm, hart, prog, calls, board, seen>>

EnterLoop ==                  \* tty.setraw
  /\ At("enter_loop")
  /\ pc' = "flags"
  /\ tty' = [tty EXCEPT !.raw = TRUE]
  /\ UNCHANGED <<line, host, mem, dm, hart, prog, calls, board, seen>>

(***************************************************************************)
(* The loop reads the word at address (0x1f001000 & 2) == 0, which is 1,   *)
(* until it reads as zero; what that word holds has nothing to do with     *)
(* the DDR status, so any value may come.                                  *)
(***************************************************************************)
AwaitCalibration ==
  /\ Sent("await_calibration") /\ Done
  /\ UNCHANGED <<host, tty, mem, dm, hart, prog, calls, board, seen>>

Announce ==
  /\ At("announce") /\ Done
  /\ seen' = [seen EXCEPT !.announced = TRUE]
  /\ UNCHANGED <<host, tty, mem, dm, hart, prog, calls, board>>

LoadData ==                   \* palette, texture, slides or mesh, then its size
  /\ Sent("load_data") /\ pc' = "shutdown"
  /\ UNCHANGED <<line, host, tty, mem, dm, hart, prog, calls, board, seen>>

Calibrate ==                  \* the DDR controller, some time after its reset is off
  /\ board.ddr_ctrl = 1 /\ ~board.calibrated
  /\ board' = [board EXCEPT !.calibrated = TRUE]
  /\ UNCHANGED <<pc, line, host, tty, mem, dm, hart, prog, calls, seen>>

ScriptSteps ==
  \/ DmiWrite \/ PollHaveReset \/ WriteHostio \/ WriteDdrCtrl \/ LoadImage
  \/ UseSysbus \/ Resume \/ Other \/ EnterLoop \/ AwaitCalibration \/ Announce \/ LoadData

-----------------------------------------------------------------------------
(* The script's loop (run_prog) over hostio_read, select and hostio_write. *)

ReadFlags ==
  /\ pc = "flags" /\ Connected
  /\ host' = [host EXCEPT !.flags = mem.flags]
  /\ pc' = "widx"
  /\ UNCHANGED <<line, tty, mem, dm, hart, prog, calls, board, seen>>

ReadObufWidx ==
  /\ pc = "widx" /\ Connected
  /\ host' = [host EXCEPT !.widx = mem.obuf_widx, !.wordaddr = -1]
  /\ pc' = "drain"
  /\ UNCHANGED <<line, tty, mem, dm, hart, prog, calls, board, seen>>

WordOf(i)      == i - (i % WORD)
Word(buf, a)   == [k \in 0 .. WORD - 1 |-> buf[a + k]]

NextWord == host.widx # host.obuf_ridx /\ host.wordaddr # WordOf(host.obuf_ridx)

ReadObufWord ==
  /\ pc = "drain" /\ NextWord /\ Connected
  /\ host' = [host EXCEPT !.wordaddr = WordOf(host.obuf_ridx),
                          !.word = Word(mem.obuf, WordOf(host.obuf_ridx))]
  /\ UNCHANGED <<pc, line, tty, mem, dm, hart, prog, calls, board, seen>>

PrintChar ==
  /\ pc = "drain" /\ host.widx # host.obuf_ridx
  /\ host.wordaddr = WordOf(host.obuf_ridx)
  /\ seen' = [seen EXCEPT !.printed = Append(@, host.word[host.obuf_ridx % WORD])]
  /\ host' = [host EXCEPT !.obuf_ridx = Next1(@)]
  /\ UNCHANGED <<pc, line, tty, mem, dm, hart, prog, calls, board>>

WriteObufRidx ==
  /\ pc = "drain" /\ host.widx = host.obuf_ridx /\ Connected
  /\ mem' = [mem EXCEPT !.obuf_ridx = host.obuf_ridx]
  /\ pc' = "select"
  /\ UNCHANGED <<line, host, tty, dm, hart, prog, calls, board, seen>>

LoopTest == IF host.flags = 1 THEN "restore" ELSE "flags"

\* mutant
NoKey_Blocking ==
  /\ pc = "select" /\ tty.typed > 0 /\ tty.queue = <<>>
  /\ pc' = LoopTest
  /\ UNCHANGED <<line, host, tty, mem, dm, hart, prog, calls, board, seen>>
NoKey ==
  /\ pc = "select" /\ tty.queue = <<>>
  /\ pc' = LoopTest
  /\ UNCHANGED <<line, host, tty, mem, dm, hart, prog, calls, board, seen>>

(***************************************************************************)
(* select looks at the terminal, sys.stdin.read(1) takes every key that is *)
(* there into its own buffer and hands out one.                            *)
(***************************************************************************)
ReadKey ==
  /\ pc = "select" /\ tty.queue # <<>>
  /\ LET all == IF tty.buf # <<>> THEN tty.buf ELSE tty.queue
         rest == IF tty.buf # <<>> THEN tty.queue ELSE <<>>
     IN  /\ tty' = [tty EXCEPT !.queue = rest, !.buf = Tail(all)]
         /\ host' = [host EXCEPT !.char = Head(all)]
         /\ pc' = IF Head(all) = Interrupt THEN "restore" ELSE "ibuf"
  /\ UNCHANGED <<line, mem, dm, hart, prog, calls, board, seen>>

ReadIbufRidx ==
  /\ pc = "ibuf" /\ Connected
  /\ host' = [host EXCEPT !.ridx = mem.ibuf_ridx]
  /\ pc' = "ibuf_read"
  /\ UNCHANGED <<line, tty, mem, dm, hart, prog, calls, board, seen>>

(* hostio_write's test for room, then writebyte; ridx is not used again.   *)
ReadIbufWord ==
  /\ pc = "ibuf_read" /\ Connected
  /\ Enqueued(host.ibuf_widx, host.ridx) < BUF_SIZE
  /\ host' = [host EXCEPT !.iword = Word(mem.ibuf, WordOf(host.ibuf_widx)), !.ridx = 0]
  /\ pc' = "ibuf_write"
  /\ UNCHANGED <<line, tty, mem, dm, hart, prog, calls, board, seen>>

\* mutant
WriteIbufWord_OtherByte ==
  /\ pc = "ibuf_write" /\ Connected
  /\ mem' = [mem EXCEPT !.ibuf = [i \in Indices |->
               IF WordOf(i) # WordOf(host.ibuf_widx) THEN @[i]
               ELSE IF i % WORD = (host.ibuf_widx + 1) % WORD THEN host.char
               ELSE host.iword[i % WORD]]]
  /\ pc' = "ibuf_widx"
  /\ UNCHANGED <<line, host, tty, dm, hart, prog, calls, board, seen>>
WriteIbufWord ==
  /\ pc = "ibuf_write" /\ Connected
  /\ mem' = [mem EXCEPT !.ibuf = [i \in Indices |->
               IF WordOf(i) # WordOf(host.ibuf_widx) THEN @[i]
               ELSE IF i = host.ibuf_widx THEN host.char
               ELSE host.iword[i % WORD]]]
  /\ pc' = "ibuf_widx"
  /\ UNCHANGED <<line, host, tty, dm, hart, prog, calls, board, seen>>

WriteIbufWidx ==
  /\ pc = "ibuf_widx" /\ Connected
  /\ host' = [host EXCEPT !.ibuf_widx = Next1(@)]
  /\ mem' = [mem EXCEPT !.ibuf_widx = Next1(host.ibuf_widx)]
  /\ seen' = [seen EXCEPT !.overrun =
                @ \/ Enqueued(host.ibuf_widx, mem.ibuf_ridx) = BUF_SIZE - 1]
  /\ pc' = LoopTest
  /\ UNCHANGED <<line, tty, dm, hart, prog, calls, board>>

-----------------------------------------------------------------------------
(* The end of the session, normal or not. *)

Restore ==                    \* finally: tcsetattr
  /\ pc = "restore"
  /\ tty' = [tty EXCEPT !.raw = FALSE]
  /\ pc' = IF host.failed THEN "shutdown" ELSE "retval"
  /\ UNCHANGED <<line, host, mem, dm, hart, prog, calls, board, seen>>

ReadRetval ==
  /\ pc = "retval" /\ Connected
  /\ host' = [host EXCEPT !.retval = mem.retval]
  /\ pc' = "shutdown"
  /\ UNCHANGED <<line, tty, mem, dm, hart, prog, calls, board, seen>>

(* __exit__: cmd("shutdown") is answered or raises; conn.close and the      *)
(* finally of start follow in both cases.                                   *)
Shutdown ==
  /\ pc = "shutdown" /\ board.openocd \in {"up", "reset"}
  /\ board' = [board EXCEPT !.openocd = "killed"]
  /\ pc' = "over"
  /\ UNCHANGED <<line, host, tty, mem, dm, hart, prog, calls, seen>>

(* Where a command is sent, and where a number is expected for an answer. *)
Reading ==
  \/ pc \in {"flags", "widx", "ibuf", "ibuf_read", "retval"}
  \/ pc = "drain" /\ NextWord
  \/ At("poll") \/ At("await_calibration")

Commanding ==
  \/ Reading
  \/ pc = "script" /\ Script[line][1] \notin {"enter_loop", "announce"}
  \/ pc = "drain" /\ host.widx = host.obuf_ridx
  \/ pc \in {"ibuf_write", "ibuf_widx", "shutdown"}

(* An exception on the way: the loop's finally, or none to run. *)
\* mutant
Raises_NoFinally ==
  /\ host' = [host EXCEPT !.failed = TRUE]
  /\ pc' = "shutdown"
  /\ UNCHANGED <<line, tty, mem, dm, hart, prog, calls, board, seen>>
Raises ==
  /\ host' = [host EXCEPT !.failed = TRUE]
  /\ pc' = IF tty.raw THEN "restore" ELSE "shutdown"
  /\ UNCHANGED <<line, tty, mem, dm, hart, prog, calls, board, seen>>

BadReply    == Reading /\ Connected /\ Raises    \* not a number: int(raw, 0) raises

BrokenPipe  == Commanding /\ pc # "shutdown" /\ board.openocd = "reset" /\ Raises

(* External: OpenOCD or the terminal window it runs in goes away. *)
ConnectionLost ==
  /\ Connected /\ pc # "over"
  /\ \E how \in {"ended", "reset"} : board' = [board EXCEPT !.openocd = how]
  /\ UNCHANGED <<pc, line, host, tty, mem, dm, hart, prog, calls, seen>>

-----------------------------------------------------------------------------
(* The user. *)

TypeKey(key) ==              \* setraw discards what was typed before
  /\ tty.raw /\ tty.typed < MaxKeys
  /\ tty' = [tty EXCEPT !.queue = Append(@, key), !.typed = @ + 1]
  /\ UNCHANGED <<pc, line, host, mem, dm, hart, prog, calls, board, seen>>

-----------------------------------------------------------------------------
(* The hart. *)

Runs(where) == hart = "running" /\ prog = where

OldProgram ==                 \* what ran before: it may touch its words of hostio
  /\ Runs("old")
  /\ \E at \in {"flags", "retval", "obuf_widx"} : mem' = [mem EXCEPT ![at] = 1]
  /\ UNCHANGED <<pc, line, host, tty, dm, hart, prog, calls, board, seen>>

crt0 == <<"crt0", "crt0_retval", "crt0_obuf_widx", "crt0_ibuf_ridx", "main">>
hostio_init == <<"flags", "retval", "obuf_widx", "ibuf_ridx">>

HostioInit ==
  \E i \in DOMAIN hostio_init :
    /\ Runs(crt0[i])
    /\ mem' = [mem EXCEPT ![hostio_init[i]] = 0]
    /\ prog' = crt0[i + 1]
    /\ UNCHANGED <<pc, line, host, tty, dm, hart, calls, board, seen>>

obuf_full == Enqueued(mem.obuf_widx, mem.obuf_ridx) >= BUF_SIZE - 1

PutcStore ==                  \* obuf_putc waits for room
  /\ Runs("main") /\ calls # <<>> /\ Head(calls) = "putc" /\ ~obuf_full
  /\ mem' = [mem EXCEPT !.obuf[mem.obuf_widx] = seen.put + 1]
  /\ seen' = [seen EXCEPT !.put = @ + 1]
  /\ prog' = "putc" /\ calls' = Tail(calls)
  /\ UNCHANGED <<pc, line, host, tty, dm, hart, board>>

PutcAdvance ==
  /\ Runs("putc")
  /\ mem' = [mem EXCEPT !.obuf_widx = Next1(@)]
  /\ prog' = "main"
  /\ UNCHANGED <<pc, line, host, tty, dm, hart, calls, board, seen>>

GetcFetch ==                  \* ibuf_getc waits for a character
  /\ Runs("main") /\ calls # <<>> /\ Head(calls) = "getc"
  /\ Enqueued(mem.ibuf_widx, mem.ibuf_ridx) # 0
  /\ seen' = [seen EXCEPT !.got = Append(@, mem.ibuf[mem.ibuf_ridx])]
  /\ prog' = "getc" /\ calls' = Tail(calls)
  /\ UNCHANGED <<pc, line, host, tty, mem, dm, hart, board>>

GetcAdvance ==
  /\ Runs("getc")
  /\ mem' = [mem EXCEPT !.ibuf_ridx = Next1(@)]
  /\ prog' = "main"
  /\ UNCHANGED <<pc, line, host, tty, dm, hart, calls, board, seen>>

ReturnValue ==                \* crt0 after main returns
  /\ Runs("main") /\ calls = <<>>
  /\ mem' = [mem EXCEPT !.retval = 1]
  /\ prog' = "returned"
  /\ UNCHANGED <<pc, line, host, tty, dm, hart, calls, board, seen>>

Finished ==
  /\ Runs("returned")
  /\ mem' = [mem EXCEPT !.flags = 1]
  /\ prog' = "end_loop"
  /\ UNCHANGED <<pc, line, host, tty, dm, hart, calls, board, seen>>

-----------------------------------------------------------------------------
NewHost == [flags |-> 0, widx |-> 0, wordaddr |-> -1, word |-> [k \in 0 .. WORD - 1 |-> 0],
            obuf_ridx |-> 0, ibuf_widx |-> 0, char |-> 0,
            iword |-> [k \in 0 .. WORD - 1 |-> 0], ridx |-> 0, retval |-> 0, failed |-> FALSE]

(***************************************************************************)
(* The session starts on a board left in any state by the one before: the  *)
(* old program running or halted or its reset held, requests pending, its  *)
(* flag and indices in memory.                                             *)
(***************************************************************************)
Init ==
  /\ task \in Tasks
  /\ pc = "script" /\ line = 1
  /\ host = NewHost
  /\ tty = [queue |-> <<>>, buf |-> <<>>, typed |-> 0, raw |-> FALSE]
  /\ mem \in [obuf : {[i \in Indices |-> 0]}, ibuf : {[i \in Indices |-> 0]},
              flags : {0, 1}, retval : {1}, obuf_widx : {1}, obuf_ridx : {0},
              ibuf_widx : {1}, ibuf_ridx : {0}]
  /\ dm \in [resethaltreq : BOOLEAN, havereset : BOOLEAN, ndmreset : BOOLEAN]
  /\ hart \in IF dm.ndmreset THEN {"reset"} ELSE {"running", "halted"}
  /\ prog = "old"
  /\ calls = <<>>
  /\ board = [access |-> "progbuf", openocd |-> "up", ddr_ctrl |-> 0, calibrated |-> FALSE]
  /\ seen = [printed |-> <<>>, put |-> 0, got |-> <<>>, overrun |-> FALSE, announced |-> FALSE]

HostSteps ==
  \/ ScriptSteps
  \/ ReadFlags \/ ReadObufWidx \/ ReadObufWord \/ PrintChar \/ WriteObufRidx
  \/ NoKey \/ ReadKey \/ ReadIbufRidx \/ ReadIbufWord \/ WriteIbufWord
  \/ WriteIbufWidx \/ BrokenPipe
  \/ Restore \/ ReadRetval \/ Shutdown

ProgramSteps ==
  \/ HostioInit \/ PutcStore \/ PutcAdvance \/ GetcFetch \/ GetcAdvance
  \/ ReturnValue \/ Finished

Next ==
  /\ \/ HostSteps \/ BadReply \/ ConnectionLost
     \/ ProgramSteps \/ OldProgram \/ LeaveReset \/ Calibrate
     \/ TypeKey(tty.typed + 1) \/ TypeKey(Interrupt)
  /\ UNCHANGED task

(* The script runs on, the hart runs on, reset takes finite time. *)
FairSpec == /\ Init /\ [][Next]_vars
            /\ WF_vars(HostSteps /\ UNCHANGED task)
            /\ WF_vars(ProgramSteps /\ UNCHANGED task)
            /\ WF_vars(LeaveReset /\ UNCHANGED task)

-----------------------------------------------------------------------------
UpTo(n) == [i \in 1 .. n |-> i]

(* The terminal shows what the program wrote, in order, nothing twice and  *)
(* nothing of an older program; and all of it, with the program's return   *)
(* value, when the session ends because the program did.                   *)
OutputShown ==
  /\ Len(seen.printed) <= seen.put
  /\ seen.printed = UpTo(Len(seen.printed))
  /\ pc = "over" /\ ~host.failed /\ host.flags = 1 =>
       prog = "end_loop" /\ Len(seen.printed) = seen.put /\ host.retval = 1

(* The program reads what the user typed, in order, as long as no more     *)
(* than BUF_SIZE - 1 characters wait unread: hostio_write tests for room   *)
(* in a way that never finds the ring full.                                *)
InputInOrder == ~seen.overrun => seen.got = UpTo(Len(seen.got))

(* Until the script switches to the system bus, it touches memory only     *)
(* while the hart is halted, however the board was left.                   *)
HaltedForDebugger ==
  At("write") \/ At("load_image") \/ At("resume") => Accessible

(* The terminal is raw in the loop and its finally only, however they are   *)
(* left, and is restored before anything more is asked of OpenOCD; a        *)
(* session that comes to its end has killed OpenOCD.  One that waits for    *)
(* ever on a connection that ended does not come to its end (WaitsForEver). *)
CleanEnd ==
  /\ pc \in {"script", "retval", "shutdown", "over"} => ~tty.raw
  /\ pc = "over" => board.openocd = "killed"

(* A session comes to its end by itself when its program asks for no more  *)
(* input (the full ring is drained, the end is noticed), when a reply is   *)
(* bad and when the connection is reset.  The one exception is a command   *)
(* that waits on a connection that ended: cmd has no other way out.        *)
WaitsForEver == board.openocd = "ended" /\ Commanding

AsksNoMore == hart = "running" /\ prog # "old" /\ "getc" \notin ToSet(calls)

SessionEnds ==
  /\ AsksNoMore \/ host.failed ~> pc = "over" \/ WaitsForEver
  /\ board.openocd = "reset" ~> pc = "over"

(* "DDR calibration completed." is only printed once it is. *)
CalibrationAnnounced == seen.announced => board.calibrated
=============================================================================
