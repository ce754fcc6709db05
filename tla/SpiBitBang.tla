----------------------------- MODULE SpiBitBang -----------------------------
(***************************************************************************)
(* The bit-banged SPI line discipline of src/pyrite/utils/flash_spi.c:     *)
(* spi_flash_write_byte, the dummy-cycle loop of spi_flash_read and        *)
(* spi_flash_read_byte, as the sequence of control-register accesses they *)
(* make, played against the flash part's pins.  A read frame is modelled: *)
(* one byte written in protocol p (the part samples D lines on each rising *)
(* CLK edge), the dummy cycles, then one byte read (the part drives its    *)
(* next bit group after each falling edge).  The control register is a    *)
(* record of its fields (D0..D3 as a number, OE0..OE3 as a mask, CLK,      *)
(* CS#) rather than the packed 32-bit word.                                *)
(***************************************************************************)
EXTENDS Naturals, Sequences

LOCAL INSTANCE SequencesExt
LOCAL INSTANCE Bitwise

CONSTANTS
    Protocols,     \* subset of {"STR", "DUAL_STR", "QUAD_STR"}
    DummyCounts    \* fdev->read_dummy_cycles values

VARIABLES
    v, p, n,       \* byte written, protocol, dummy cycles of the frame
    trace,         \* the control-register accesses of the frame
    k,             \* index of the next access the bus carries
    dev,           \* the flash part: CLK seen, edges counted, bits in, lines driven
    val,           \* the val accumulator of spi_flash_read_byte
    unfenced       \* a CLK-high write was followed by a write with no read between

vars == <<v, p, n, trace, k, dev, val, unfenced>>

Width(proto) == CASE proto = "STR" -> 1 [] proto = "DUAL_STR" -> 2 [] proto = "QUAD_STR" -> 4

(* The byte the part shifts out in the data phase. *)
Reply(b) == 255 - b

Ctrl(d, oe, clk) == [d |-> d, oe |-> oe, clk |-> clk, csn |-> 0]
Wr(c) == [op |-> "write", ctrl |-> c, shift |-> 0, mask |-> 0, test |-> FALSE]
Fence == [op |-> "fence", ctrl |-> Ctrl(0, 0, 0), shift |-> 0, mask |-> 0, test |-> FALSE]
Sample(i, m, t) == [op |-> "sample", ctrl |-> Ctrl(0, 0, 0), shift |-> i, mask |-> m, test |-> t]

(* the loop "for (int i = 8-w; i >= 0; i -= w)" *)
Shifts(proto) == [j \in 1..(8 \div Width(proto)) |-> 8 - Width(proto) * j]

(* FLASH_OE_0 / FLASH_OE_01 / FLASH_OE_0123 *)
OEMask(proto) == 2^Width(proto) - 1

(* Mutation: STR samples FLASH_D_0, the line the host drives. *)
SampleMask_D0(proto) == IF proto = "STR" THEN 1 ELSE 2^Width(proto) - 1

(* FLASH_D_1 for STR (the part drives DQ1), FLASH_D_01, FLASH_D_0123 *)
SampleMask(proto) == IF proto = "STR" THEN 2 ELSE 2^Width(proto) - 1

(* spi_flash_write_byte *)
WriteByteTrace(b, proto) ==
    LET bits(j) == (b \div 2^(Shifts(proto)[j])) % 2^Width(proto)
        clock(j) == << Wr(Ctrl(bits(j), OEMask(proto), 0)), Fence,
                       Wr(Ctrl(bits(j), OEMask(proto), 1)), Fence >>
    IN FlattenSeq([j \in DOMAIN Shifts(proto) |-> clock(j)])
         \o << Wr(Ctrl(0, 0, 0)) >>

(* the dummy-cycle loop of spi_flash_read *)
DummyTrace(cycles) ==
    FlattenSeq([j \in 1..cycles |-> << Wr(Ctrl(0, 0, 1)), Wr(Ctrl(0, 0, 0)) >>])

(* spi_flash_read_byte *)
ReadByteTrace(proto) ==
    LET clock(j) == << Wr(Ctrl(0, 0, 0)), Fence,
                       Sample(Shifts(proto)[j], SampleMask(proto), proto = "STR"),
                       Wr(Ctrl(0, 0, 1)), Fence >>
    IN FlattenSeq([j \in DOMAIN Shifts(proto) |-> clock(j)])
         \o << Wr(Ctrl(0, 0, 0)) >>

(* spi_flash_read: "if (protocol != SPI_PROTO_STR)" dummy cycles *)
FrameTrace(b, proto, cycles) ==
    WriteByteTrace(b, proto)
      \o (IF proto # "STR" THEN DummyTrace(cycles) ELSE << >>)
      \o ReadByteTrace(proto)

(* val |= ((ctrl & FLASH_D_1) != 0) << i for STR, (ctrl & mask) << i   *)
(* otherwise                                                              *)
Accumulate(acc, lines, a) ==
    LET bits == IF a.test THEN (IF (lines & a.mask) # 0 THEN 1 ELSE 0)
                ELSE lines & a.mask
    IN acc | (bits * 2^a.shift)

-----------------------------------------------------------------------------
(* The part.  It clocks in 8/w groups, lets the dummy clocks pass, and    *)
(* after each later falling edge drives the next group of Reply(v),       *)
(* DQ1 alone in STR.                                                      *)
CmdClocks == 8 \div Width(p)
DummyClocks == IF p # "STR" THEN n ELSE 0

Drive(idx) ==
    LET g == (Reply(v) \div 2^(8 - Width(p) * (idx + 1))) % 2^Width(p)
    IN IF p = "STR" THEN g * 2 ELSE g

PartSees(c) ==
    LET rising == dev.clk = 0 /\ c.clk = 1
        falling == dev.clk = 1 /\ c.clk = 0
        outIdx == dev.rise - CmdClocks - DummyClocks
    IN [dev EXCEPT
          !.clk = c.clk,
          !.rise = IF rising THEN @ + 1 ELSE @,
          !.rx = IF rising /\ dev.rise < CmdClocks
                 THEN @ * 2^Width(p) + (c.d % 2^Width(p)) ELSE @,
          !.dq = IF falling /\ outIdx >= 0 /\ outIdx < CmdClocks
                 THEN Drive(outIdx) ELSE @]

Init ==
    /\ v \in 0..255 /\ p \in Protocols /\ n \in DummyCounts
    /\ trace = FrameTrace(v, p, n)
    /\ k = 1
    /\ dev = [clk |-> 0, rise |-> 0, rx |-> 0, dq |-> 0]
    /\ val = 0
    /\ unfenced = FALSE

(* The bus carries a control-register write to the part. *)
BusWrite ==
    /\ k <= Len(trace) /\ trace[k].op = "write"
    /\ dev' = PartSees(trace[k].ctrl)
    /\ unfenced' = (unfenced \/ (k > 1 /\ trace[k-1].op = "write" /\ trace[k-1].ctrl.clk = 1))
    /\ k' = k + 1
    /\ UNCHANGED <<v, p, n, trace, val>>

(* ctrl_reg_read used only as a fence ("dummy read") *)
BusFence ==
    /\ k <= Len(trace) /\ trace[k].op = "fence"
    /\ k' = k + 1
    /\ UNCHANGED <<v, p, n, trace, dev, val, unfenced>>

(* ctrl_reg_read whose D lines are shifted into val *)
BusSample ==
    /\ k <= Len(trace) /\ trace[k].op = "sample"
    /\ val' = Accumulate(val, dev.dq, trace[k])
    /\ k' = k + 1
    /\ UNCHANGED <<v, p, n, trace, dev, unfenced>>

Next == BusWrite \/ BusFence \/ BusSample

Spec == Init /\ [][Next]_vars

-----------------------------------------------------------------------------
(* Properties *)

Done == k > Len(trace)

(* At the end of the frame the part has clocked in exactly the byte      *)
(* spi_flash_write_byte was given, and spi_flash_read_byte has returned  *)
(* exactly the byte the part drove: MSB first, the right lines for each  *)
(* protocol, sampled between the falling and the rising edge, with the   *)
(* dummy cycles of the frame in between.                                  *)
ByteRoundTrip == Done => dev.rx = v /\ val = Reply(v)

(* spec.md 4.4.1 and 9: every CLK-high write is followed by a read-back  *)
(* fence before the next control-register write, so the part never sees *)
(* a clock pulse shortened by posted writes.                             *)
ClockHighFenced == ~unfenced

=============================================================================
