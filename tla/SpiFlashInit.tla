---------------------------- MODULE SpiFlashInit ----------------------------
(***************************************************************************)
(* The constructors of the flash facade (src/pyrite/utils/flash.c):       *)
(* flash_open_spi and flash_open_bpi with their NULL-register, calloc and *)
(* driver-init failures and the release on the error path, the calls a    *)
(* caller makes on the NULL they return, and spi_flash_init              *)
(* (src/pyrite/utils/flash_spi.c): reset, READ_ID, vendor decoding of the  *)
(* device size, the fixed geometry, and the quad set-up for data_width 4. *)
(* The BPI driver's init is not in the repository; spec.md 4.5 allows it  *)
(* to be a stub returning unsupported, so it may succeed or fail.         *)
(* The part answers READ_ID with one of the triples in Ids.  The size is  *)
(* kept as its shift: fdev->size = (size_t)1 << shift.  A shift outside   *)
(* 0..63 is undefined behaviour in C; the x86-64 and AArch64 shifters use *)
(* the count modulo 64, and that is the outcome modelled.  Diagnostic    *)
(* printf/fprintf output and the register reads done only to print them  *)
(* are left out.                                                          *)
(***************************************************************************)
EXTENDS Integers

CONSTANTS
    Ids,         \* [mfr, type, cap] answers to READ_ID
    Widths       \* data_width arguments of flash_open_spi

VARIABLES
    id,          \* what the part answers to READ_ID
    fdev,        \* fields of struct flash_device set by open and init
    state,       \* "closed", "init" (driver init running), "open" (device
                 \* returned) or "failed" (NULL returned)
    variant,     \* fdev->driver: "none", "spi" or "bpi"
    dev,         \* the calloc'ed struct flash_device: "none", "alloc", "freed"
    ret          \* return value of the last flash_read/write/erase

vars == <<id, fdev, state, variant, dev, ret>>

SIZE_T_BITS == 64
PAGE_SIZE == 256          \* SPI_PAGE_SIZE
SUBSECTOR_SIZE == 4096    \* SPI_SUBSECTOR_SIZE

(* (size_t)1 << s as the build computes it *)
ShiftOutcome(s) == s % SIZE_T_BITS

(* Mutation: the capacity byte taken as binary, without the BCD step. *)
MicronShift_NoBCD(cap) == cap + 6

(* Micron: mem_capacity is BCD, size = 1 << (capacity + 6) *)
MicronShift(cap) == (cap % 16) + ((cap \div 16) % 16) * 10 + 6

(* Macronix: size = 1 << (mem_capacity - 32) *)
MacronixShift(cap) == cap - 32

-----------------------------------------------------------------------------
(* A calloc'ed struct flash_device: every field zero *)
ZeroDev == [data_width |-> 0, shift |-> 0, protocol |-> "STR",
            bulk_protocol |-> "STR", read_dummy_cycles |-> 0,
            write_buffer_size |-> 0, erase_block_size |-> 0]

(* Nothing opened yet; the part's READ_ID answer is fixed by the board. *)
Init ==
    /\ id \in Ids
    /\ fdev = ZeroDev
    /\ state = "closed" /\ variant = "none" /\ dev = "none" /\ ret = 0

(* flash_open_spi / flash_open_bpi up to the init call: NULL when reg is *)
(* NULL or calloc fails, otherwise the zeroed device with its driver and *)
(* data_width.  The register offsets are not modelled.                   *)
Open(drv) ==
    /\ state = "closed"
    /\ \/ /\ state' = "failed"
          /\ UNCHANGED <<fdev, variant, dev>>
       \/ /\ \E w \in Widths : fdev' = [ZeroDev EXCEPT !.data_width = w]
          /\ variant' = drv /\ dev' = "alloc"
          /\ state' = "init"
    /\ UNCHANGED <<id, ret>>

OpenSpi == Open("spi")
OpenBpi == Open("bpi")

(* if (fdev->driver->init(fdev)) goto err; return fdev;  err:           *)
(* flash_release(fdev) (driver release, free) and return NULL.          *)
InitReturn(ok) ==
    IF ok THEN state' = "open" /\ dev' = dev
          ELSE state' = "failed" /\ dev' = "freed"

(* The BPI driver's init, outside the repository: any outcome. *)
OpenBpiInit ==
    /\ state = "init" /\ variant = "bpi"
    /\ \E ok \in BOOLEAN : InitReturn(ok)
    /\ UNCHANGED <<id, fdev, variant, ret>>

(* flash_read/flash_write/flash_erase on the NULL a failed open returned *)
CallNull ==
    /\ state = "failed"
    /\ ret' = -1
    /\ UNCHANGED <<id, fdev, state, variant, dev>>

MICRON == 32      \* 0x20
MACRONIX == 194   \* 0xC2

(* spi_flash_init, "Failed to read flash ID": mfr_id 0x00 or 0xff       *)
OpenDeadBus ==
    /\ state = "init" /\ variant = "spi" /\ id.mfr \in {0, 255}
    /\ InitReturn(FALSE)
    /\ UNCHANGED <<id, fdev, variant, ret>>

(* "Unknown flash ID": the default case of the vendor switch *)
OpenUnknownVendor ==
    /\ state = "init" /\ variant = "spi" /\ id.mfr \notin {0, 255, MICRON, MACRONIX}
    /\ InitReturn(FALSE)
    /\ UNCHANGED <<id, fdev, variant, ret>>

(* The fixed settings of spi_flash_init after a recognised ID, then the *)
(* vendor's quad set-up when data_width == 4.                            *)
Configured(shift, quadDummy) ==
    [fdev EXCEPT !.shift = ShiftOutcome(shift),
                 !.protocol = "STR",
                 !.bulk_protocol = IF fdev.data_width = 4 THEN "QUAD_STR" ELSE "STR",
                 !.read_dummy_cycles = IF fdev.data_width = 4 THEN quadDummy ELSE 0,
                 !.write_buffer_size = PAGE_SIZE,
                 !.erase_block_size = SUBSECTOR_SIZE]

(* case 0x20: Micron; quad: volatile config 0xFB, 10 dummy cycles *)
OpenMicron ==
    /\ state = "init" /\ variant = "spi" /\ id.mfr = MICRON
    /\ fdev' = Configured(MicronShift(id.cap), 10)
    /\ InitReturn(TRUE)
    /\ UNCHANGED <<id, variant, ret>>

(* case 0xC2: Macronix; quad: status 0x40 / config 0x07, 6 dummy cycles *)
OpenMacronix ==
    /\ state = "init" /\ variant = "spi" /\ id.mfr = MACRONIX
    /\ fdev' = Configured(MacronixShift(id.cap), 6)
    /\ InitReturn(TRUE)
    /\ UNCHANGED <<id, variant, ret>>

Next == OpenSpi \/ OpenBpi \/ OpenBpiInit \/ CallNull
        \/ OpenDeadBus \/ OpenUnknownVendor \/ OpenMicron \/ OpenMacronix

Spec == Init /\ [][Next]_vars

-----------------------------------------------------------------------------
(* Properties *)

(* Reference: READ_ID answers of the parts the two vendor cases are for, *)
(* with log2 of their size in bytes, from the vendors' ID tables:         *)
(* Micron N25Q/MT25Q 64 Mb .. 2 Gb (capacity 0x17 .. 0x22, BCD) and        *)
(* Macronix MX25U/MX66U 64 Mb .. 2 Gb (capacity 0x37 .. 0x3C).             *)
KnownParts ==
    { [mfr |-> MICRON, cap |-> c, shift |-> s] :
        <<c, s>> \in {<<23, 23>>, <<24, 24>>, <<25, 25>>, <<32, 26>>, <<33, 27>>, <<34, 28>>} }
    \cup { [mfr |-> MACRONIX, cap |-> 32 + s, shift |-> s] : s \in 23..28 }

(* Every part of the vendors' tables is accepted and opened with its     *)
(* real size (spec.md 8, S1: Micron 20 BA 19 is 32 MiB; S2: C2 .. 3A is   *)
(* 64 MiB), the size every later 3-byte/4-byte address choice depends on; *)
(* a dead bus (FF) never opens (S3).                                       *)
KnownPartsSized ==
    /\ \A p \in KnownParts :
          (variant = "spi" /\ id.mfr = p.mfr /\ id.cap = p.cap) => state # "failed" /\ (state = "open" => fdev.shift = p.shift)
    /\ variant = "spi" /\ id.mfr = 255 => state # "open"

MiB == 20

(* spec.md 3 and scenario S2: a device returned by flash_open_spi has a  *)
(* size that is a power of two of at least 1 MiB computed without an     *)
(* out-of-range shift; an ID whose decoded shift is out of range (such as *)
(* Macronix C2 20 19, 1 << -7) is rejected.                               *)
OpenedSizeValid ==
    state = "open" /\ variant = "spi" =>
       LET s == IF id.mfr = MICRON THEN MicronShift(id.cap) ELSE MacronixShift(id.cap)
       IN MiB <= s /\ s < SIZE_T_BITS

=============================================================================
