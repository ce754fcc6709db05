# TLA+ models of the pyrite flash and register utilities

This directory holds TLA+ models of the C code under `src/src/pyrite/utils/` and the TLC
configurations that check them. The code is the userspace side of an FPGA board's
management path. It maps a register window, walks the chain of register blocks found in
the window, and drives the board's SPI NOR configuration flash by bit-banging a single
control register. `PROJECT.json` lists every component, run, mutant, mapped line range,
finding and hazard. This file explains them.

## The system and how its parts interact

| Part | Source | State | Operations |
|---|---|---|---|
| Register interface | `reg_if.c` | `struct reg_if`: ops table, `priv` (raw base or parent), `size` (0 = unbounded), `offset` | `reg_if_open_raw`, `reg_if_open_offset`, `reg_if_close`, `reg_if_{read,write}{8,16,32,64}` |
| Register-block enumerator | `reg_block.c` | growing array of `struct reg_block` (type, version, offset, child view), sentinel with `regs == NULL` | `enumerate_reg_block_list`, `find_reg_block`, `free_reg_block_list` |
| Flash facade | `flash.c` | `struct flash_device`, driver vtable | `flash_open_spi`, `flash_open_bpi`, `flash_release`, `flash_read/write/erase` |
| SPI driver | `flash_spi.c` | `fdev->size`, `data_width`, `bulk_protocol`, `read_dummy_cycles`, geometry; the control register | init (reset, READ_ID, vendor decode, quad set-up), read, page program, erase, bit-level byte I/O |
| SPI NOR part | hardware, not code | memory, WIP/WEL status bits, extended address register | frames between CS# select and deselect |

The parts interact like this:
- The enumerator reads headers through a `reg_if` and opens one offset view per block. Freeing the list closes those views.
- The flash device borrows a `reg_if` and touches one control register through it. Every byte on the SPI bus is a sequence of writes and read-back fences to that register.
- Every flow of the driver (init, read, write, erase) is a sequence of CS# frames that the part answers.

What makes the code hard to test:
- The part finishes programs and erases at times the driver cannot see. It drops frames while it is busy, and it may refuse to set WEL.
- Multi-page writes and multi-block erases can fail halfway.
- Decoding the device size from the ID uses a shift whose count is not range-checked.
- Posted MMIO writes can merge two clock edges into one.
- Failed allocations and failed register reads inside the enumerator are not all handled.

## Modules

| Module | Models | Mapped source |
|---|---|---|
| `FlashChip` | The SPI NOR part, one step per CS# frame. It is the environment of the driver, written from the opcode table and status bits of spec.md 4.4 and 6, plus the reset behaviour of the Micron and Macronix datasheets: a reset aborts a program or erase in progress, leaving the cells it was changing undefined, and the part may then ignore frames during reset recovery. It is not mapped to code. | — |
| `SpiFlash` | `spi_flash_read`, `spi_flash_write` and `spi_flash_erase`, reached through `flash_read/write/erase`; `flash_release`; re-opening through `flash_open_spi`/`spi_flash_init` (reset dance, READ_ID check, register dumps, quad set-up); and the death of the process at any point. Composed with `FlashChip` (`Chip == INSTANCE FlashChip`). | flash_spi.c 242-261, 269-276, 311-318, 345-350, 377-382, 421-462, 494-512, 533-706; flash.c 30-41, 80-112 |
| `FlashMemory` | The contract of the facade, from spec.md 4.3-4.4 and 8: a read returns the stored bytes; a write or erase passes only through prefix states (page-aligned, whole subsectors) and returns 0 exactly when all of it is done. The device may be closed at any time; a call this interrupts is lost, and until the device is open again only the cells that call covers may change. Not mapped: it is the specification `SpiFlash` is checked against. | — |
| `SpiFlashInit` | The facade's constructors `flash_open_spi` and `flash_open_bpi`: NULL register window or failed calloc, driver init, and `flash_release` on its failure (`InitReturn`). Calls on the NULL a failed open returns (`CallNull`). `spi_flash_init`: ID errors, vendor size decoding, fixed geometry, quad set-up. The BPI driver's init is not in the repository and may succeed or fail (`OpenBpiInit`). | flash_spi.c 439-531; flash.c 18-68, 90-112; flash.h 31-53 |
| `SpiBitBang` | `spi_flash_write_byte`, `spi_flash_read_byte` and the dummy-cycle loop, as the sequence of control-register accesses they make, played against the part's pins. | flash_spi.c 106-240, 533-578 |
| `RegBlock` | `enumerate_reg_block_list` (one iteration per step), `find_reg_block` (a RECURSIVE operator), `free_reg_block_list`. | reg_block.c 16-108; reg_if.c 51-58, 237-251 |
| `RegIf` | Raw windows, offset views, the accessors' bounds check and delegation, close. | reg_if.c 15-259 |

Each model module has an `MC_*.tla` that extends it and defines the constant values a cfg cannot write: sets of records, functions and layouts. Each run names its `MC_*.cfg`.

### How state and actions correspond to the code

- **`SpiFlash`.** The variables are:
  - `chip`, the part's state;
  - `fdev`, the size and data width;
  - `pc`, the flow the driver is in;
  - `addr`, `len`, `src` and `blk`, the locals of the write and erase loops;
  - `ret` and `rbuf`, the results;
  - `call` and `mem0`, ghost copies of the arguments and of the memory at call entry.

  A driver step runs every frame the code issues between two points where the part may be busy:
  - `WritePage` covers one outer iteration of the write loop: extended address register, WREN, RDSR with its WEL check, then the program frame.
  - `EraseBlock` is the erase counterpart.

  Each WIP poll that sees the part idle is its own step (`WritePoll`, `ErasePoll`). Polls that see the part busy change nothing and appear as stuttering steps. `ErasePoll` includes the `len <= erase_block_size` exit and the decrement. `ChipComplete` is the part finishing its operation. Because it interleaves freely with the polls, every completion time is explored.

  Closing and re-opening:
  - `Crash` is the death of the process at any location, inside a call or between calls (`pc` becomes `"closed"`). The part keeps doing what it was doing. The ghost `lost` records the interrupted call.
  - `Release` is `flash_release` between calls.
  - `Open` is `flash_open_spi` on the same part. It sends the reset dance (`Chip!Resets`: every abort outcome, and whether the part is still recovering), then READ_ID. A manufacturer byte of 0x00 or 0xFF returns NULL (`IdValid`), and the device stays closed. Otherwise it sends the register dumps (`RegisterReads`, folded over `ReadRegister`) and, on a quad board, the configuration write (`WriteVolatileConfigReg`, sent without WREN). The frame helpers of `flash_spi.c` that the flows use each have an operator: `WriteEnable`, `WriteExtAddrReg`, `WriteVolatileConfigReg` and `ReadStatus`.
  - `ChipRecover` is the part ending its reset recovery.
  - Vendor decoding is in `SpiFlashInit`; here the part is one the driver knows.
- **Data abstraction.** A byte is one bit: 1 stands for 0xFF (erased) and programming is a bitwise AND. The sizes are scaled: page 2, subsector 4, sector 8, and a 3-byte address span (`BANK`) of 8. The code only uses these constants as powers-of-two masks, so its alignment, page-break and 3/4-byte decisions are unchanged. Device sizes are 8 and 16, one of them above `BANK`, so both the extended-address path and the 4-byte path are taken.
- **`SpiFlashInit`.** `Open(drv)` is the constructor up to the init call, with its two NULL returns. The driver's init is then one step: `OpenDeadBus`, `OpenUnknownVendor`, `OpenMicron` or `OpenMacronix` for SPI, and an arbitrary outcome for BPI. Each ends in `InitReturn`, which on failure releases and frees the device (`dev` becomes `"freed"`). The size is kept as its shift. `(size_t)1 << s` with `s` outside 0..63 is undefined behaviour. The x86-64 and AArch64 shift instructions use `s mod 64`, and that is the outcome modelled (`ShiftOutcome`).
- **`SpiBitBang`.** The initial state chooses a byte, a protocol and a dummy-cycle count, and computes the exact access trace the code makes: `WriteByteTrace`, `DummyTrace` and `ReadByteTrace`, built with `FlattenSeq`. The bus then carries the trace one access per step:
  - `BusWrite` changes the pins the part sees;
  - `BusFence` is a dummy read;
  - `BusSample` ORs the masked and shifted lines into `val`, as `spi_flash_read_byte` does.

  The part clocks in `8/w` groups on rising edges and lets the dummy clocks pass. It then drives `Reply(v)` after each falling edge, on DQ1 alone in STR.
- **`RegBlock`.** The variables are:
  - `hdr`, the register contents, chosen once from `Layouts`;
  - `rb`, the locals `rb_type`, `rb_version` and `val`. They start from `Garbage`, because they are uninitialized, and keep their value when a read fails;
  - `list` and `cap`, the array and `max_count`;
  - `count` and `offset`;
  - `views`, the child views that are open;
  - `oob`, a ghost flag: the free scan read past the array.

  `WalkBlock` is one iteration of the loop: three reads, record, open the view, follow next, grow or fail. `WalkEnd` and `WalkLoop` are the two exits. `Free` is the caller's `free_reg_block_list`. Allocation failures are choices that the constant `AllocFailures` enables.
- **`RegIf`.** `ifs` maps each struct to `[open, raw, parent, offset, size]`. `Accessor(i, off, w)` stands for the eight wrappers. It follows `Access`, which checks at every level and adds the view's offset, down to the raw window, and records the result in `last`. The history variable `slice` records, at each open, the region bytes the caller handed to the interface: the parent's slice from the offset, `size` bytes long (or to the parent's end), never past the parent's end.

## Runs

| Run | Expect | States | What it shows |
|---|---|---|---|
| `spi_flash` | pass | 1,289,724 | Read, write and erase on 8- and 16-cell parts, STR and quad, two calls, and one close (a release or the death of the process at any point) followed by any number of open attempts, against a part that finishes at any time, may refuse WEL, and is aborted and possibly left recovering by the reset of the next open. `WriteOutcome` and `EraseOutcome`: every return leaves exactly a prefix done, ending on a page or block boundary, with `ret = 0` exactly when all of it is done. `ReadOutcome`: reads return the stored bytes whatever the extended address register holds. `NeverWhileBusy`: once open, no frame is sent that the part drops (busy or recovering); this includes the frame of `spi_flash_read`, which has no WIP poll of its own and relies on every earlier call having polled to the end. Every call returning is `Abstract!CallsComplete`, part of `ImplementsFlashMemory`; it rests on the part finishing each operation, because the WIP polls have no timeout. `IdleMeansReady`: between calls the part is neither busy nor recovering, also after a crash and re-open; only the READ_ID check guarantees this after a reset. `spi_flash` also checks `ImplementsFlashMemory`: under the mapping mem ↦ `chip.mem`, size ↦ `fdev.size`, busy ↦ `pc ∈ Flows`, op ↦ `call`, start ↦ `mem0`, opened ↦ `pc # "closed"`, lost ↦ `lost`, every step is a `FlashMemory` step (`Abstract!SafetySpec`) and every call in progress returns (`Abstract!CallsComplete`). This is stronger than the outcome invariants: it constrains every intermediate memory state, not only the one at return. It also checks that a crash, the abort made by the next reset, and any completion while closed damage only the cells of the lost call, and that out-of-range requests wrap at the device size. |
| `spi_flash_init` | pass | 20,736 | Both constructors with every failure path, and every capacity byte 0..255 for Micron, Macronix, an unknown vendor and a dead bus. `KnownPartsSized` checks the decoder against the vendors' ID tables: every Micron N25Q/MT25Q code 0x17..0x22 (BCD) and every Macronix MX25U/MX66U code 0x37..0x3C opens with its datasheet size, which covers S1 and S2's valid ID. A dead bus (S3) never opens. The 3 V Macronix MX25L family (codes 0x17..0x1B, log2 of the size directly) is not in the table, because the `- 32` formula only fits the 1.8 V family; `spi_flash_init_size` shows that failure. |
| `spi_flash_init_size` | violation | — | `OpenedSizeValid` fails. Macronix `C2 20 19` opens with shift 57 instead of being rejected (finding). |
| `spi_bitbang` | pass | 71,168 | `ByteRoundTrip`: for all 256 bytes in STR, DUAL_STR and QUAD_STR, with 0 or 2 dummy cycles, the part receives the byte and `spi_flash_read_byte` returns what the part drove. |
| `spi_bitbang_fence` | violation | — | `ClockHighFenced` fails in the quad dummy-cycle loop: CLK high is followed by CLK low with no fence between them (finding). |
| `reg_block` | pass | 18,176 | All 4,096 layouts of three headers. `EnumerationCorrect`: the list equals the reference chain, or NULL is returned exactly for looping chains (S7). `FindSelectsNth`: find agrees with a reference built from `SelectSeq`. `FreeReleasesAll`: all views are closed, no over-read. `Terminates`: the walk always returns. |
| `reg_block_view_alloc` | violation | — | A failed child-view calloc truncates a list that is returned as a success (finding). |
| `reg_block_realloc` | violation | — | An 8-block chain with the code's real capacities (8, +4). A failed realloc makes the free scan read entry 8 of an 8-entry array (finding). |
| `reg_block_stale_header` | violation | — | The header at 32 in a 40-byte parent: the read of `next` fails, the stale value 32 is followed, and a loop is reported (finding). |
| `reg_if` | pass | 75,705 | Three structs: raw windows of size 0 or 16, views and views of views at offsets and sizes on every edge. `ConfinedToSlice`: an access that the bounds checks let through lands at its offset inside the slice the caller asked for when opening each view (the history variable `slice`, built at open time from the caller's arguments and not from the code's own size arithmetic). It holds for the byte addressed even through the overhanging view that `reg_if_overhang` shows is created, because the parent's check still refuses what lies past its end; the width gap is `reg_if_width`'s finding. |
| `reg_if_width` | violation | — | A 4-byte access at offset 15 of a 16-byte window succeeds (finding). |
| `reg_if_overhang` | violation | — | The view (12, 8) of a 16-byte window is created (finding). |

Each property of a passing run has a mutant in `PROJECT.json`: a plausible bug in the mapped code, written as an operator next to the definition it replaces. Under the run's own configuration TLC finds the property violated by that mutant. Examples:
- the erase block chosen without the length test;
- the WIP poll dropped;
- the READ_ID check dropped, so a part still in reset recovery is used;
- the 3-byte opcodes always used;
- the STR read sampling DQ0;
- the capacity read without BCD;
- the loop check dropped;
- the version wildcard dropped;
- the offset view not adding its offset.

### Bounds and why they are enough

- **`spi_flash`.**
  - Addresses {0,1,4,8} are aligned and misaligned for pages, subsectors and sectors. They include the start of the second bank, and on the 8-cell part they include a request past the end.
  - Write lengths {0,1,3} cover empty, inside one page and across a page boundary.
  - Erase lengths {0,4,6,12} cover nothing to erase, one subsector, a length that is not a multiple (partial then fail), and a sector plus a subsector (S6's shape).
  - Two calls let an extended address register left set by one call meet the next call.
  - One close (`MaxCloses`) is enough for a crash at every location of every call, followed by a re-open against every abort outcome.
  - One initial memory with period 3 (`MCInitMems`) makes a cell programmed, erased or read at a wrong address distinguishable from the right one. No page, subsector or bank boundary lines up with it.
  - These bounds keep the run near two minutes. The earlier sets ({0,1,2,4,6,8} and two memories) exceed five minutes once closing is modelled.
- **`spi_bitbang`.** It covers every byte value and every implemented protocol. Two dummy cycles exercise the loop. The fence run uses the real 10 cycles of the Micron quad set-up.
- **`reg_block`.** Three header slots, each pointing at a slot, at 0 or at the window end, give every chain shape: empty, one to three blocks, self-loop, loops back to the first or a middle block, and termination by 0 or by `>= size`. `Base = 256` keeps absolute and relative offsets apart. The capacity is scaled to 2 (+4) so that growth happens in the pass run. The realloc run uses the code's 8 and +4.
- **`reg_if`.** One raw window and two stacked views reach every mix of bounded and unbounded levels. The offsets and sizes sit at, inside and past each edge.

### Fairness

- `FlashMemory` has weak fairness on `Finish`. TLC cannot evaluate ENABLED through a mapping that sends a variable to an expression (busy ↦ `pc ∈ Flows`), so the refinement run checks the safety part `SafetySpec` together with `CallsComplete` (`busy ~> ~busy`), which is the promise that fairness makes to a caller.
- `SpiFlash` assumes weak fairness of the driver, which is a single thread that always runs, and of `ChipComplete` and `ChipRecover`, since the part finishes what it starts and leaves reset recovery. The caller is not fair: it may stop after any call and need never re-open a closed device. That is also why `CHECK_DEADLOCK FALSE` is set: the model stops once `MaxCalls` calls have returned.
- `RegBlock` assumes weak fairness of its single thread. Its runs stop when the list is freed or NULL is returned.
- `SpiFlashInit`, `SpiBitBang` and `RegIf` check only safety. `RegIf` never deadlocks, and the traces of `SpiBitBang` end by design.

## Findings

See `PROJECT.json` "findings":
- **Macronix size:** the decode shifts by a negative count and opens the device instead of rejecting it (S2).
- **Dummy cycles:** the quad dummy-cycle loop has no fences.
- **View allocation failure:** the child view's allocation failure is stored as the list sentinel.
- **Realloc failure:** the free scan after a failed realloc reads one entry past the array.
- **Failed header reads:** a failed header read is silently replaced by the previous value.
- **Access width:** the accessors' bounds check ignores the access width.
- **Overhanging views:** views that overhang their parent are accepted.

## Not modelled, and why

- **BPI driver:** `bpi_flash_driver` has no source in the repository. `flash_open_bpi` is modelled, with the driver's init as an arbitrary outcome; its read, write, erase and release cannot be. The **bitfile** parser and **cndm_proto** are headers only.
- **Printing:** the `printf` calls are left out. The register reads made only to print values are kept as frames (`RegisterReads`), because they are bus traffic the part must accept; the values they return are not modelled.
- **DTR protocols:** their cases are empty in the code and no init path selects them.
- **Register values:** `RegIf` does not model the values read and written. No property is about data. The raw accessors are plain volatile loads and stores.
- **Macronix quad set-up:** `FlashChip` is a Micron part. Its volatile configuration default (0xFB) is the value the driver writes, so a write dropped for lack of WREN changes nothing. The Macronix WRSR at `flash_spi.c:521` would leave QE clear, and checking that needs a Macronix part with a QE bit and quad reads.
- **Sector protection:** `FlashChip` has no protection bits. A protected sector would make `WriteOutcome` fail by design, and a contract for silently refused programs and erases is not written yet.
- **Close order of `reg_if`:** nothing in the code tracks views of a parent. `RegIf`'s `Close` assumes children are closed first. The repository's own user of views is the enumerator, and `FreeReleasesAll` checks that it closes every view it opened. An application that closes a window while it still holds views is outside the repository.
- **Alignment:** the raw accessors cast `regs + offset` to a pointer of the access width with no alignment check, and the enumerator follows `next` words unchecked. spec.md 4.1 requires natural alignment. The models abstract register values and use aligned header slots, and the code has no check a property could exercise, so this hazard is listed without a property.

## Plan

Done in the first sitting: the seven modules and their runs, including the refinement of `FlashMemory` by `SpiFlash`.

Done in the second sitting:
- `SpiFlash` gained `flash_release`, a process death at any step, and re-open. The reset of the next `flash_open_spi` aborts a busy program or erase, and the part may stay in reset recovery (`FlashChip!Resets`). `IdleMeansReady` checks that the READ_ID check keeps an open device from talking to a part that is still busy.
- `FlashMemory` gained close and re-open. An operation cut short may damage exactly the cells it covered.
- The register dump of init is modelled as frames.
- `spi_flash_init` checks the decoder against the vendors' ID tables.

Done in the third sitting:
- The facade's constructors joined `SpiFlashInit`: `flash_open_bpi` beside `flash_open_spi`, the NULL register and calloc failures, and the release on a failed driver init. Calls on the NULL handle are modelled. The facade is now fully modelled.
- `InitFrames` is mapped to the Micron branch only, which is what it models.

Done in the fourth sitting:
- Operators for the frame helpers (`WriteEnable`, `WriteExtAddrReg`, `WriteVolatileConfigReg`), used by `EnableWrite` and `InitFrames`.
- The `reg_if` close-order hazard is tied to `FreeReleasesAll`, and the missing alignment check is listed as a hazard.

What remains, and why it is not done:
1. **Macronix part.** The WRSR of the Macronix quad set-up is sent without WREN. Checking it needs a Macronix variant of `FlashChip` with a QE bit, and its outcome, `ReadOutcome` failing on a part whose QE is clear, is a violation that needs a run of its own.
2. **Protection.** This needs protection bits and a contract for refused programs and erases. Its outcome would also be a violation, of `WriteOutcome`, and needs a run of its own.
3. **Composition.** `RegBlock` with `RegIf` needs a caller of `enumerate_reg_block_list`, and there is none in the repository.
