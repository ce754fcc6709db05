----------------------------- MODULE FlashMemory -----------------------------
(***************************************************************************)
(* What the flash facade promises its caller (spec.md 4.3, 4.4.3-4.4.5 and *)
(* 8): a read returns the stored bytes; a write or erase runs for a while, *)
(* during which the memory passes only through states where a prefix of   *)
(* the request has taken effect, and returns 0 when all of it has, -1     *)
(* otherwise.  Prefixes stop on page boundaries for writes and on whole   *)
(* subsectors for erases.  Addresses wrap at the device size, as the part *)
(* wraps them.  The device may be closed at any time, by flash_release   *)
(* or by the death of the process using it; a call it interrupts is lost: *)
(* until the device is opened again the cells that call covers may change    *)
(* in any way, and no other cell does.  Actions are predicates on the     *)
(* next state's call record, so that the module serves as the property   *)
(* SpiFlash is checked against.                                           *)
(***************************************************************************)
EXTENDS Integers, Sequences

CONSTANTS
    PAGE,       \* program granularity
    SUBSECTOR,  \* smallest erase block
    MaxSize     \* largest device size

VARIABLES
    mem,     \* the stored bytes (1 = erased)
    size,    \* device size
    busy,    \* a write or erase is in progress
    op,      \* the current or last call: [kind, addr, len, data]
    start,   \* the memory when the current call began
    ret,     \* return value of the last call
    rbuf,    \* bytes returned by the last read
    opened,    \* a flash_device is open on the part
    lost     \* the call the last close interrupted, if any

vars == <<mem, size, busy, op, start, ret, rbuf, opened, lost>>

Cells == 0..MaxSize-1

(* The cell the i-th byte (from 0) of a request at a lands in *)
Cell(a, i) == (a + i) % size

(* The memory after the first k bytes of o have taken effect on m *)
Effect(o, m, k) ==
    [x \in Cells |->
        IF o.kind = "write" /\ \E i \in 0..k-1 : Cell(o.addr, i) = x /\ o.data[i + 1] = 0
        THEN 0
        ELSE IF o.kind = "erase" /\ \E i \in 0..k-1 : Cell(o.addr, i) = x
        THEN 1
        ELSE m[x]]

(* The cells a write or erase request covers *)
Covered(o) == IF o.kind \in {"write", "erase"} THEN {Cell(o.addr, i) : i \in 0..o.len-1} ELSE {}

(* The prefix lengths a write or erase may stop at *)
Stops(o) ==
    IF o.kind = "write"
    THEN {k \in 0..o.len : k = 0 \/ k = o.len \/ (o.addr + k) % PAGE = 0}
    ELSE {k \in 0..o.len : k % SUBSECTOR = 0}

Init ==
    /\ mem \in [Cells -> {0, 1}]
    /\ size \in 1..MaxSize
    /\ ~busy
    /\ op.kind = "none"
    /\ start = mem
    /\ ret = 0 /\ rbuf = << >>
    /\ opened = TRUE /\ lost.kind = "none"

Read ==
    /\ opened /\ ~busy
    /\ op'.kind = "read"
    /\ rbuf' = [i \in 1..op'.len |-> mem[Cell(op'.addr, i - 1)]]
    /\ ret' = 0
    /\ start' = mem
    /\ UNCHANGED <<mem, size, busy, opened, lost>>

Begin ==
    /\ opened /\ ~busy /\ busy'
    /\ op'.kind \in {"write", "erase"}
    /\ start' = mem
    /\ UNCHANGED <<mem, size, ret, rbuf, opened, lost>>

Progress ==
    /\ busy
    /\ \E k \in Stops(op) : mem' = Effect(op, start, k)
    /\ UNCHANGED <<size, busy, op, start, ret, rbuf, opened, lost>>

Finish ==
    /\ busy /\ ~busy'
    /\ \E k \in Stops(op) : /\ mem = Effect(op, start, k)
                            /\ ret' = IF k = op.len THEN 0 ELSE -1
    /\ UNCHANGED <<mem, size, op, start, rbuf, opened, lost>>

(* The device is closed; a call in progress is lost. *)
Close ==
    /\ opened /\ ~opened' /\ ~busy'
    /\ IF busy THEN lost' = op ELSE lost'.kind = "none"
    /\ UNCHANGED <<mem, size, op, start, ret, rbuf>>

(* While closed, only the cells of the lost call change. *)
Damage == \A x \in Cells \ Covered(lost) : mem'[x] = mem[x]

Settle ==
    /\ ~opened /\ Damage
    /\ UNCHANGED <<size, busy, op, start, ret, rbuf, opened, lost>>

(* The device is opened again, with no call made on it yet. *)
Reopen ==
    /\ ~opened /\ opened' /\ Damage
    /\ lost'.kind = "none" /\ op'.kind = "none" /\ start' = mem'
    /\ UNCHANGED <<size, busy, ret, rbuf>>

Next == Read \/ Begin \/ Progress \/ Finish \/ Close \/ Settle \/ Reopen

SafetySpec == Init /\ [][Next]_vars

(* A call in progress returns. *)
Spec == SafetySpec /\ WF_vars(Finish)

(* What the fairness of Spec gives a caller, in a form that can be       *)
(* checked through a refinement mapping: every call in progress returns. *)
CallsComplete == busy ~> ~busy

=============================================================================
