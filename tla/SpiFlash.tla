------------------------------ MODULE SpiFlash ------------------------------
(***************************************************************************)
(* The SPI flash driver of src/pyrite/utils/flash_spi.c after a successful *)
(* flash_open_spi: the read, page-program and erase flows reached through  *)
(* flash_read/flash_write/flash_erase (src/pyrite/utils/flash.c), composed *)
(* with the flash part of FlashChip.                                       *)
(*                                                                         *)
(* Granularity: one driver step runs the frames the code issues between   *)
(* two points where the part may be busy; each status poll is a step of   *)
(* its own, and the part finishes its program or erase in a step of its   *)
(* own (ChipComplete), so every order of polls and completions is seen.   *)
(* Sizes are scaled: the code's masks only use that they are powers of    *)
(* two, so PAGE < SUBSECTOR < SECTOR <= BANK keep the code's alignment    *)
(* logic.  Bit-level clocking is in SpiBitBang.                           *)
(***************************************************************************)
EXTENDS Integers, Sequences

CONSTANTS
    PAGE, SUBSECTOR, SECTOR, BANK,
    Sizes,       \* device sizes init may report (fdev->size)
    MaxSize,
    InitMems,    \* flash contents at open
    Addrs,       \* addr arguments of the calls
    WriteLens, EraseLens, ReadLens,
    MaxCalls,    \* bound on the number of calls made by the caller
    MaxCloses    \* bound on the number of closes (flash_release or process death)

ASSUME /\ PAGE < SUBSECTOR /\ SUBSECTOR < SECTOR /\ SECTOR <= BANK
       /\ \A s \in Sizes : s <= MaxSize /\ s % SECTOR = 0

VARIABLES
    chip,     \* the flash part (FlashChip record)
    fdev,     \* [size, data_width]: the fields of struct flash_device used
    pc,       \* driver location: "idle" or inside a flow
    call,     \* the current or last call: [kind, addr, len, data]
    addr, len, src,  \* locals of spi_flash_write/erase: cursor, remaining, data left
    blk,      \* erase_block_size local of spi_flash_erase
    ret,      \* return value of the last call
    rbuf,     \* bytes returned by the last read
    mem0,     \* ghost: flash contents when the current call started
    calls,    \* number of calls made
    lost,     \* ghost: the call the last close or crash interrupted
    closes    \* number of closes

vars == <<chip, fdev, pc, call, addr, len, src, blk, ret, rbuf, mem0, calls, lost, closes>>

Chip == INSTANCE FlashChip
SeqX == INSTANCE SequencesExt

(* Driver locations inside a write or erase call *)
Flows == {"write", "write_poll", "erase", "erase_poll"}

NoCall == [kind |-> "none", addr |-> 0, len |-> 0, data |-> <<>>]

TypeOK ==
    /\ chip \in Chip!ChipType
    /\ fdev \in [size : Sizes, data_width : {1, 4}]
    /\ pc \in {"closed", "idle"} \cup Flows
    /\ call \in [kind : {"none", "read", "write", "erase"}, addr : Nat,
                 len : Nat, data : Seq(Chip!Byte)]
    /\ addr \in Nat /\ len \in Nat /\ src \in Seq(Chip!Byte)
    /\ blk \in {0, SUBSECTOR, SECTOR}
    /\ ret \in {0, -1}
    /\ rbuf \in Seq(Chip!Byte)
    /\ mem0 \in [Chip!Cells -> Chip!Byte]
    /\ calls \in 0..MaxCalls
    /\ lost \in [kind : {"none", "write", "erase"}, addr : Nat, len : Nat, data : Seq(Chip!Byte)]
    /\ closes \in 0..MaxCloses

-----------------------------------------------------------------------------
(* Helpers of flash_spi.c *)

(* spi_flash_write_addr: three address bytes, bits 23..0 *)
WireAddr3(a) == a % BANK

(* spi_flash_write_addr_4b: four address bytes, bits 31..0 *)
WireAddr4(a) == a % (BANK * 256)

(* the protocol local of read/write: QUAD_STR when data_width == 4 *)
DataProtocol == IF fdev.data_width = 4 THEN "QUAD_STR" ELSE "STR"

(* spi_flash_read_status_reg: RDSR frame, the status byte read back *)
ReadStatus(c) == Chip!Status(c)

(* spi_flash_write_enable: WRITE_ENABLE, deselect; latches is FALSE when *)
(* the part does not set WEL.                                             *)
WriteEnable(c, latches) == Chip!Wren(c, latches)

(* spi_flash_write_ext_addr_reg: opcode, the register value, deselect *)
WriteExtAddrReg(c, v) == Chip!Frame(c, [cmd |-> "WRITE_EXT_ADDR_REG", addr |-> 0, data |-> <<v>>])

(* spi_flash_write_volatile_config_reg: opcode, the value, deselect; sent *)
(* without WRITE_ENABLE by its caller.  The value (0xFB) is not modelled. *)
WriteVolatileConfigReg(c) == Chip!Frame(c, [cmd |-> "WRITE_V_CONFIG_REG", addr |-> 0, data |-> <<1>>])

(* Mutation: the extended address register is never written. *)
EnableWrite_NoExt(c, a, latches) == WriteEnable(c, latches)

(* The frames a page-program or erase iteration sends before its        *)
(* program/erase frame: extended address register on parts larger than  *)
(* 16 MiB, then spi_flash_write_enable.                                 *)
EnableWrite(c, a, latches) ==
    LET c1 == IF fdev.size > BANK THEN WriteExtAddrReg(c, (a \div BANK) % 256) ELSE c
    IN WriteEnable(c1, latches)

(* Mutation: 3-byte read opcodes whatever the device size. *)
ReadFrame_Always3B(a) ==
    [cmd |-> IF DataProtocol = "QUAD_STR" THEN "FAST_READ_QUAD_IO" ELSE "READ",
     addr |-> WireAddr3(a), data |-> <<>>]

(* The read opcode and the address as clocked out *)
ReadFrame(a) ==
    IF fdev.size > BANK
    THEN [cmd |-> IF DataProtocol = "QUAD_STR" THEN "4B_FAST_READ_QUAD_IO" ELSE "4B_READ",
          addr |-> WireAddr4(a), data |-> <<>>]
    ELSE [cmd |-> IF DataProtocol = "QUAD_STR" THEN "FAST_READ_QUAD_IO" ELSE "READ",
          addr |-> WireAddr3(a), data |-> <<>>]

(* Mutation: the inner loop never stops at a page boundary. *)
PageChunk_NoBreak(a, n) == n

(* Number of bytes the inner loop of spi_flash_write streams: until len *)
(* runs out or addr reaches a page boundary.                            *)
PageChunk(a, n) == IF n < PAGE - (a % PAGE) THEN n ELSE PAGE - (a % PAGE)

(* Mutation: block chosen by alignment alone, without the length test. *)
EraseBlockAt_NoLen(a, n) ==
    IF a % SECTOR = 0 THEN SECTOR ELSE IF a % SUBSECTOR = 0 THEN SUBSECTOR ELSE 0

(* The largest erase block that fits at a with n bytes left, 0 if none *)
EraseBlockAt(a, n) ==
    IF a % SECTOR = 0 /\ n >= SECTOR THEN SECTOR
    ELSE IF a % SUBSECTOR = 0 /\ n >= SUBSECTOR THEN SUBSECTOR
    ELSE 0

(* Mutation: the ID check is dropped. *)
IdValid_Any(id) == TRUE

(* "Failed to read flash ID": a bus nobody drives reads 0x00 or 0xFF *)
IdValid(id) == id # 0 /\ id # 255

(* A register read helper of flash_spi.c (spi_flash_read_flag_status_reg *)
(* and its siblings): opcode, one or two bytes read back, deselect.  The  *)
(* value read only feeds a printf and is not modelled.                    *)
ReadRegister(c, cmd) == Chip!Frame(c, [cmd |-> cmd, addr |-> 0, data |-> <<>>])

(* The Micron register dumps of spi_flash_init, in the order it makes them *)
RegisterReads ==
    << "READ_STATUS_REG", "READ_FLAG_STATUS_REG", "READ_NV_CONFIG_REG",
       "READ_V_CONFIG_REG", "READ_EV_CONFIG_REG", "READ_GLOBAL_FREEZE_BIT",
       "READ_SECTOR_PROTECTION" >>

(* The dumps, then on a quad board spi_flash_write_volatile_config_reg,  *)
(* sent without WRITE_ENABLE.                                            *)
InitFrames(c) ==
    LET c1 == SeqX!FoldLeft(ReadRegister, c, RegisterReads)
    IN IF fdev.data_width = 4
       THEN WriteVolatileConfigReg(c1)
       ELSE c1

-----------------------------------------------------------------------------
(* Initial state: the device as flash_open_spi leaves it on success. *)
Init ==
    /\ \E s \in Sizes, w \in {1, 4}, m \in InitMems :
          /\ fdev = [size |-> s, data_width |-> w]
          /\ chip = Chip!PowerOn(s, m)
          /\ mem0 = m
    /\ pc = "idle"
    /\ call = NoCall /\ lost = NoCall /\ closes = 0
    /\ addr = 0 /\ len = 0 /\ src = <<>> /\ blk = 0
    /\ ret = 0 /\ rbuf = <<>> /\ calls = 0

(* Return from a flow with ret r; the final spi_flash_deselect is implicit *)
(* in the frame granularity.                                              *)
Return(r) == /\ pc' = "idle" /\ ret' = r

(* flash_read -> spi_flash_read: one frame, opcode, address, dummy      *)
(* cycles, len bytes, deselect.                                         *)
Read(a, n) ==
    /\ pc = "idle" /\ calls < MaxCalls
    /\ rbuf' = Chip!ReadOut(chip, ReadFrame(a), n)
    /\ chip' = Chip!Frame(chip, ReadFrame(a))
    /\ call' = [kind |-> "read", addr |-> a, len |-> n, data |-> <<>>]
    /\ mem0' = chip.mem
    /\ calls' = calls + 1
    /\ ret' = 0
    /\ UNCHANGED <<fdev, pc, addr, len, src, blk, lost, closes>>

(* flash_write -> spi_flash_write entry *)
Write(a, n, d) ==
    /\ pc = "idle" /\ calls < MaxCalls
    /\ pc' = "write"
    /\ call' = [kind |-> "write", addr |-> a, len |-> n, data |-> d]
    /\ addr' = a /\ len' = n /\ src' = d
    /\ mem0' = chip.mem
    /\ calls' = calls + 1
    /\ UNCHANGED <<chip, fdev, blk, ret, rbuf, lost, closes>>

(* while (len > 0) exits: success *)
WriteDone ==
    /\ pc = "write" /\ len = 0
    /\ Return(0)
    /\ UNCHANGED <<chip, fdev, call, addr, len, src, blk, rbuf, mem0, calls, lost, closes>>

(* "Invalid write request": addr not page aligned at the loop head *)
WriteMisaligned ==
    /\ pc = "write" /\ len > 0 /\ addr % PAGE # 0
    /\ Return(-1)
    /\ UNCHANGED <<chip, fdev, call, addr, len, src, blk, rbuf, mem0, calls, lost, closes>>

(* One page: extended address, WREN, RDSR; "Failed to enable writing"   *)
(* when WEL is clear, else the program frame with the page's bytes.     *)
WritePage ==
    /\ pc = "write" /\ len > 0 /\ addr % PAGE = 0
    /\ \E latches \in BOOLEAN :
         LET c == EnableWrite(chip, addr, latches)
             k == PageChunk(addr, len)
             pp == [cmd |-> IF DataProtocol = "QUAD_STR" THEN "PAGE_PROGRAM_QUAD_IN"
                                                       ELSE "PAGE_PROGRAM",
                    addr |-> WireAddr3(addr), data |-> SubSeq(src, 1, k)]
         IN IF ReadStatus(c).wel
            THEN /\ chip' = Chip!Frame(c, pp)
                 /\ addr' = addr + k /\ len' = len - k
                 /\ src' = SubSeq(src, k + 1, Len(src))
                 /\ pc' = "write_poll"
                 /\ UNCHANGED ret
            ELSE /\ chip' = c
                 /\ Return(-1)
                 /\ UNCHANGED <<addr, len, src>>
    /\ UNCHANGED <<fdev, call, blk, rbuf, mem0, calls, lost, closes>>

(* Mutation: no WIP poll after the page program. *)
WritePoll_NoWait ==
    /\ pc = "write_poll"
    /\ pc' = "write"
    /\ UNCHANGED <<chip, fdev, call, addr, len, src, blk, ret, rbuf, mem0, calls, lost, closes>>

(* while (spi_flash_read_status_reg(...) & 0x01) {}: the poll that sees *)
(* WIP clear; polls that see it set change nothing and are stutters.    *)
WritePoll ==
    /\ pc = "write_poll"
    /\ ~ReadStatus(chip).wip
    /\ pc' = "write"
    /\ UNCHANGED <<chip, fdev, call, addr, len, src, blk, ret, rbuf, mem0, calls, lost, closes>>

(* flash_erase -> spi_flash_erase entry *)
Erase(a, n) ==
    /\ pc = "idle" /\ calls < MaxCalls
    /\ pc' = "erase"
    /\ call' = [kind |-> "erase", addr |-> a, len |-> n, data |-> <<>>]
    /\ addr' = a /\ len' = n /\ src' = <<>>
    /\ mem0' = chip.mem
    /\ calls' = calls + 1
    /\ UNCHANGED <<chip, fdev, blk, ret, rbuf, lost, closes>>

(* while (len > 0) fails on entry: nothing to erase *)
EraseDone ==
    /\ pc = "erase" /\ len = 0
    /\ Return(0)
    /\ UNCHANGED <<chip, fdev, call, addr, len, src, blk, rbuf, mem0, calls, lost, closes>>

(* "Invalid erase request": no block fits at addr *)
EraseMisaligned ==
    /\ pc = "erase" /\ len > 0 /\ EraseBlockAt(addr, len) = 0
    /\ Return(-1)
    /\ UNCHANGED <<chip, fdev, call, addr, len, src, blk, rbuf, mem0, calls, lost, closes>>

(* One block: extended address, WREN, RDSR, then the erase frame *)
EraseBlock ==
    /\ pc = "erase" /\ len > 0 /\ EraseBlockAt(addr, len) # 0
    /\ \E latches \in BOOLEAN :
         LET b == EraseBlockAt(addr, len)
             c == EnableWrite(chip, addr, latches)
             ef == [cmd |-> IF b = SECTOR THEN "SECTOR_ERASE" ELSE "4KB_SUBSECTOR_ERASE",
                    addr |-> WireAddr3(addr), data |-> <<>>]
         IN /\ blk' = b
            /\ IF ReadStatus(c).wel
               THEN /\ chip' = Chip!Frame(c, ef)
                    /\ pc' = "erase_poll"
                    /\ UNCHANGED ret
               ELSE /\ chip' = c
                    /\ Return(-1)
    /\ UNCHANGED <<fdev, call, addr, len, src, rbuf, mem0, calls, lost, closes>>

(* The poll that sees WIP clear, then "if (len <= erase_block_size)     *)
(* break;" or advance to the next block.                                *)
ErasePoll ==
    /\ pc = "erase_poll"
    /\ ~ReadStatus(chip).wip
    /\ IF len <= blk
       THEN /\ Return(0) /\ UNCHANGED <<addr, len>>
       ELSE /\ addr' = addr + blk /\ len' = len - blk
            /\ pc' = "erase" /\ UNCHANGED ret
    /\ UNCHANGED <<chip, fdev, call, src, blk, rbuf, mem0, calls, lost, closes>>

(* The part finishes the program or erase it is busy with. *)
ChipComplete ==
    /\ chip.wip
    /\ chip' = Chip!Finished(chip)
    /\ UNCHANGED <<fdev, pc, call, addr, len, src, blk, ret, rbuf, mem0, calls, lost, closes>>

(* The part ends its reset recovery. *)
ChipRecover ==
    /\ chip.rst
    /\ chip' = Chip!Recovered(chip)
    /\ UNCHANGED <<fdev, pc, call, addr, len, src, blk, ret, rbuf, mem0, calls, lost, closes>>

(* The process using the device dies, inside a call or between calls.   *)
(* The part keeps whatever it was doing.                                *)
Crash ==
    /\ pc # "closed" /\ closes < MaxCloses
    /\ pc' = "closed"
    /\ lost' = IF pc \in Flows THEN call ELSE NoCall
    /\ closes' = closes + 1
    /\ UNCHANGED <<chip, fdev, call, addr, len, src, blk, ret, rbuf, mem0, calls>>

(* flash_release -> spi_flash_release: deselect, free the device *)
Release ==
    /\ pc = "idle" /\ closes < MaxCloses
    /\ pc' = "closed" /\ lost' = NoCall
    /\ closes' = closes + 1
    /\ UNCHANGED <<chip, fdev, call, addr, len, src, blk, ret, rbuf, mem0, calls>>

(* flash_open_spi -> spi_flash_init on the same part: the reset dance,   *)
(* READ_ID, and NULL when the ID reads as a dead bus; otherwise the      *)
(* register dumps and quad set-up, and the device is returned.  (Vendor  *)
(* decoding is SpiFlashInit; the part here is one the driver knows.)     *)
Open ==
    /\ pc = "closed"
    /\ \E c \in Chip!Resets(chip) :
         IF IdValid(Chip!ReadId(c))
         THEN /\ chip' = InitFrames(c)
              /\ pc' = "idle" /\ call' = NoCall /\ lost' = NoCall
              /\ mem0' = chip'.mem
         ELSE /\ chip' = c
              /\ UNCHANGED <<pc, call, lost, mem0>>
    /\ UNCHANGED <<fdev, addr, len, src, blk, ret, rbuf, calls, closes>>

Driver ==
    \/ WriteDone \/ WriteMisaligned \/ WritePage \/ WritePoll
    \/ EraseDone \/ EraseMisaligned \/ EraseBlock \/ ErasePoll

Caller ==
    \E a \in Addrs :
       \/ \E n \in ReadLens : Read(a, n)
       \/ \E n \in WriteLens : \E d \in [1..n -> Chip!Byte] : Write(a, n, d)
       \/ \E n \in EraseLens : Erase(a, n)

Next == Caller \/ Open \/ Release \/ Crash \/ Driver \/ ChipComplete \/ ChipRecover

(* The driver is one thread that runs whenever it can, and the part     *)
(* finishes every program or erase and every reset recovery it starts;  *)
(* the caller may stop, and need never open the device again.           *)
Spec == Init /\ [][Next]_vars /\ WF_vars(Driver) /\ WF_vars(ChipComplete)
                              /\ WF_vars(ChipRecover)

-----------------------------------------------------------------------------
(* Properties *)

InRange(a, n) == a + n <= fdev.size

(* Contents after programming the first m bytes of d at a *)
Programmed(m, a, d, k) ==
    [x \in Chip!Cells |-> IF a <= x /\ x < a + k /\ d[x - a + 1] = 0 THEN 0 ELSE m[x]]

(* Contents after erasing [a, a+k) *)
Erased(m, a, k) ==
    [x \in Chip!Cells |-> IF a <= x /\ x < a + k THEN Chip!ERASED ELSE m[x]]

(* spi_flash_write: when a write returns, it has programmed a prefix of   *)
(* its data that is all of it exactly when it returns 0 and otherwise     *)
(* ends on a page boundary (so a misaligned request programs nothing),    *)
(* and it has changed nothing outside [addr, addr+len): the page loop,    *)
(* the extended address per page and the WEL check together.              *)
WriteOutcome ==
    pc = "idle" /\ call.kind = "write" /\ InRange(call.addr, call.len) =>
      \E k \in 0..call.len :
         /\ (ret = 0) <=> (k = call.len)
         /\ k = 0 \/ k = call.len \/ (call.addr + k) % PAGE = 0
         /\ chip.mem = Programmed(mem0, call.addr, call.data, k)

(* spi_flash_erase: when an erase returns, it has erased a prefix of      *)
(* [addr, addr+len) made of whole subsectors, all of it exactly when it   *)
(* returns 0, and nothing else (spec.md 8, items 1 and 4).                *)
EraseOutcome ==
    pc = "idle" /\ call.kind = "erase" /\ InRange(call.addr, call.len) =>
      \E k \in 0..call.len :
         /\ (ret = 0) <=> (k = call.len)
         /\ k % SUBSECTOR = 0
         /\ chip.mem = Erased(mem0, call.addr, k)

(* spi_flash_read returns the bytes stored at [addr, addr+len), whatever  *)
(* the extended address register was left at by earlier writes.           *)
ReadOutcome ==
    pc = "idle" /\ call.kind = "read" /\ InRange(call.addr, call.len) =>
      rbuf = [i \in 1..call.len |-> chip.mem[call.addr + i - 1]]

(* Once a device is open the driver never sends the part a frame it      *)
(* drops: none while it is busy with a program or erase (the WIP polls of *)
(* spi_flash_write/erase) and none while it is recovering from the reset *)
(* of spi_flash_init (the READ_ID check), even after a process died in   *)
(* the middle of a call.                                                  *)
NeverWhileBusy == ~chip.ignored

(* Whenever an open device has no call in progress, the part is ready   *)
(* for the next one: not busy with a program or erase and not in reset  *)
(* recovery.  The WIP polls of spi_flash_write/erase give it after a     *)
(* call; after a process died mid-call, only the READ_ID check of the   *)
(* next spi_flash_init does, the reset having left the part recovering. *)
IdleMeansReady == pc = "idle" => ~chip.wip /\ ~chip.rst

(* Refinement: with the part's memory as the stored bytes, a call in      *)
(* progress whenever the driver is inside a flow, and the ghost call      *)
(* record, every step of the driver and the part is a step of the         *)
(* facade's contract FlashMemory, and every call returns: in particular   *)
(* the memory never shows a state that is not a page-aligned prefix of    *)
(* the write, or a whole-subsector prefix of the erase, in progress.      *)
Abstract == INSTANCE FlashMemory
              WITH mem <- chip.mem, size <- fdev.size, busy <- pc \in Flows,
                   op <- call, start <- mem0, opened <- pc # "closed", lost <- lost

ImplementsFlashMemory == Abstract!SafetySpec /\ Abstract!CallsComplete

=============================================================================
