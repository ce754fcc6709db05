------------------------------ MODULE FlashChip ------------------------------
(***************************************************************************)
(* The SPI NOR part behind the FPGA control register, as the driver in     *)
(* src/pyrite/utils/flash_spi.c observes it: one step per CS# frame (the   *)
(* bytes clocked between a select and the next deselect).  This is the     *)
(* environment of the driver, written from the opcode table and status    *)
(* bits of spec.md sections 4.4 and 6 and the usual NOR behaviour:         *)
(*   - a program or erase sets WIP and takes effect when the part finishes *)
(*     (ChipComplete in SpiFlash), which also clears WEL;                  *)
(*   - while WIP is set every frame except READ_STATUS_REG is ignored;    *)
(*   - program/erase without WEL are ignored;                              *)
(*   - a 3-byte address is extended by the extended address register,     *)
(*     and every address wraps at the device size;                         *)
(*   - program data wraps inside the page, the last bytes latched win;     *)
(*   - RESET_ENABLE + RESET_MEMORY is accepted even while busy: it aborts   *)
(*     a program or erase (the cells it was changing are left undefined),  *)
(*     clears WEL and the extended address register, and the part may     *)
(*     stay in reset recovery for a while, ignoring every frame (Micron     *)
(*     and Macronix datasheets: tens of us idle, up to ms during an erase). *)
(* A byte is abstracted to one bit: 1 is the erased value 0xFF and         *)
(* programming is a bitwise AND.                                           *)
(***************************************************************************)
EXTENDS Naturals, Sequences

CONSTANTS
    PAGE,       \* SPI_PAGE_SIZE       (0x100 in the code)
    SUBSECTOR,  \* SPI_SUBSECTOR_SIZE  (0x1000)
    SECTOR,     \* SPI_SECTOR_SIZE     (0x10000)
    BANK,       \* span of a 3-byte address (0x1000000)
    MaxSize     \* largest device size modelled

Cells  == 0..MaxSize-1
Byte   == {0, 1}
ERASED == 1

ProgramCmds == {"PAGE_PROGRAM", "PAGE_PROGRAM_QUAD_IN"}
EraseCmds   == {"SECTOR_ERASE", "4KB_SUBSECTOR_ERASE"}
ReadCmds3   == {"READ", "FAST_READ_QUAD_IO"}
ReadCmds4   == {"4B_READ", "4B_FAST_READ_QUAD_IO"}
ReadCmds    == ReadCmds3 \cup ReadCmds4

EraseBlock(cmd) == IF cmd = "SECTOR_ERASE" THEN SECTOR ELSE SUBSECTOR

NoOp == [kind |-> "none", at |-> 0, data |-> <<>>]

ChipType ==
    [size : {s \in 1..MaxSize : MaxSize % s = 0}, mem : [Cells -> Byte],
     wip : BOOLEAN, wel : BOOLEAN, ext : Nat,
     pending : [kind : {"none", "program"} \cup EraseCmds,
                at : Cells, data : Seq(Byte)],
     ignored : BOOLEAN, rst : BOOLEAN]

PowerOn(size, mem) ==
    [size |-> size, mem |-> mem, wip |-> FALSE, wel |-> FALSE, ext |-> 0,
     pending |-> NoOp, ignored |-> FALSE, rst |-> FALSE]

(* The cell a frame's address selects. *)
Target(c, f) ==
    IF f.cmd \in ReadCmds4 THEN f.addr % c.size
    ELSE (c.ext * BANK + f.addr) % c.size

Status(c) == [wip |-> c.wip, wel |-> c.wel]

(* A frame sent while the part is busy or recovering from a reset is     *)
(* dropped; the part records it.                                          *)
Busy(c, f) == (c.wip /\ f.cmd # "READ_STATUS_REG") \/ c.rst

(* WRITE_ENABLE; latches is FALSE when the part refuses to set WEL      *)
(* (write protection, or a command corrupted on the wire).              *)
Wren(c, latches) ==
    IF c.wip \/ c.rst THEN [c EXCEPT !.ignored = TRUE] ELSE [c EXCEPT !.wel = latches]

(* Any frame but WRITE_ENABLE. *)
Frame(c, f) ==
    CASE Busy(c, f) -> [c EXCEPT !.ignored = TRUE]
      [] f.cmd = "WRITE_EXT_ADDR_REG" -> [c EXCEPT !.ext = f.data[1]]
      [] f.cmd \in ProgramCmds \cup EraseCmds /\ c.wel ->
            [c EXCEPT !.wip = TRUE,
                      !.pending = [kind |-> IF f.cmd \in ProgramCmds
                                            THEN "program" ELSE f.cmd,
                                   at |-> Target(c, f), data |-> f.data]]
      [] OTHER -> c

(* Bytes clocked out by a read frame of n bytes; a busy part drives      *)
(* nothing the driver could use, shown as the all-zero pattern.          *)
ReadOut(c, f, n) ==
    IF c.wip \/ c.rst THEN [i \in 1..n |-> 0]
    ELSE [i \in 1..n |-> c.mem[(Target(c, f) + i - 1) % c.size]]

(* The part finishes its program or erase. *)
PageCell(p, i) == (p.at - (p.at % PAGE)) + ((p.at + i - 1) % PAGE)
LastLatched(p, x) ==
    {i \in DOMAIN p.data : PageCell(p, i) = x /\
                           \A j \in DOMAIN p.data : PageCell(p, j) = x => j <= i}
Finished(c) ==
    LET p == c.pending
        newMem ==
          CASE p.kind = "program" ->
                 [x \in Cells |-> IF LastLatched(p, x) = {} THEN c.mem[x]
                                  ELSE LET i == CHOOSE i \in LastLatched(p, x) : TRUE
                                       IN IF p.data[i] = 0 THEN 0 ELSE c.mem[x]]
            [] p.kind \in EraseCmds ->
                 LET b == EraseBlock(p.kind)
                 IN [x \in Cells |-> IF x \div b = p.at \div b THEN ERASED ELSE c.mem[x]]
            [] OTHER -> c.mem
    IN [c EXCEPT !.mem = newMem, !.wip = FALSE, !.wel = FALSE, !.pending = NoOp]

(* The cells a pending program or erase is changing *)
Affected(p) ==
    CASE p.kind = "program" -> {PageCell(p, i) : i \in DOMAIN p.data}
      [] p.kind \in EraseCmds ->
            {x \in Cells : x \div EraseBlock(p.kind) = p.at \div EraseBlock(p.kind)}
      [] OTHER -> {}

(* The part after the reset dance: every outcome of aborting what it was *)
(* busy with, and whether it is still in reset recovery.                 *)
Resets(c) ==
    { [c EXCEPT !.mem = [x \in Cells |-> IF x \in DOMAIN f THEN f[x] ELSE c.mem[x]],
                !.wip = FALSE, !.wel = FALSE, !.ext = 0, !.pending = NoOp, !.rst = r] :
        f \in [Affected(c.pending) -> Byte], r \in BOOLEAN }

(* The manufacturer byte READ_ID clocks out: nothing (0) while busy or   *)
(* recovering, the JEDEC code of the part (Micron, 0x20) otherwise.      *)
MFR_ID == 32
ReadId(c) == IF c.wip \/ c.rst THEN 0 ELSE MFR_ID

(* Reset recovery ends. *)
Recovered(c) == [c EXCEPT !.rst = FALSE]

=============================================================================
