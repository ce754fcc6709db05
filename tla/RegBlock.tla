------------------------------ MODULE RegBlock ------------------------------
(***************************************************************************)
(* enumerate_reg_block_list, find_reg_block and free_reg_block_list of    *)
(* src/pyrite/utils/reg_block.c.  The register window holds a chain of    *)
(* block headers; hdr gives the three 32-bit words (type, version, next)  *)
(* at each offset that may hold one.  One step is one iteration of the   *)
(* walk loop.  The list is the calloc/realloc'ed array: cap slots, each  *)
(* an entry [type, version, offset, regs] whose regs is the child view   *)
(* (named by its ptr) or NULL.  The locals rb_type, rb_version and val   *)
(* keep their value when reg_if_read32 fails, and start uninitialized.   *)
(* Which allocations may fail is the constant AllocFailures.             *)
(***************************************************************************)
EXTENDS Integers, Sequences

CONSTANTS
    Offsets,       \* offsets that may hold a block header
    Layouts,       \* possible register contents: functions Offsets -> header
    Garbage,       \* possible uninitialized values of the three locals
    Base,          \* base argument
    Start,         \* offset argument (first block)
    Size,          \* size argument
    RegsSize,      \* size of the parent reg_if (0 = unbounded)
    InitCapacity,  \* int max_count = 8
    Growth,        \* max_count += 4
    MaxCount,      \* model bound on the number of iterations
    AllocFailures, \* subset of {"list", "view"}: calloc/realloc that may fail
    Types, Versions, MaxIndex

NULL == -1    \* a null pointer or absent slot: no offset or view is negative

VARIABLES
    hdr,       \* the register contents
    rb,        \* the locals [type |-> rb_type, version |-> rb_version, next |-> val]
    list,      \* reg_block_list[0 .. cap-1]
    cap,       \* max_count
    count,     \* count
    offset,    \* the offset cursor
    pc,        \* "walk", "done" (list returned), "fail" (NULL returned), "freed"
    views,     \* child reg_if views currently open (by ptr)
    oob        \* free_reg_block_list read reg_block_list past its allocation

vars == <<hdr, rb, list, cap, count, offset, pc, views, oob>>

Entry == [type : Types \cup {0}, version : Versions \cup {0},
          offset : Nat \cup {NULL}, regs : Nat \cup {NULL}]

Sentinel == [type |-> 0, version |-> 0, offset |-> NULL, regs |-> NULL]

TypeOK ==
    /\ hdr \in Layouts
    /\ cap \in Nat /\ list \in [0..cap-1 -> Entry]
    /\ count \in 0..cap /\ offset \in Nat
    /\ pc \in {"walk", "done", "fail", "freed"}
    /\ views \subseteq Nat /\ oob \in BOOLEAN

(* reg_if_read32 on the parent: Err when size > 0 and off >= size *)
ReadOk(off) == RegsSize = 0 \/ off < RegsSize

(* The three reads at ptr+0x00, +0x04, +0x08; a failed one leaves its    *)
(* local as it was.                                                       *)
ReadHeader(ptr, old) ==
    LET h == hdr[ptr - Base]
    IN [type    |-> IF ReadOk(ptr)     THEN h.type    ELSE old.type,
        version |-> IF ReadOk(ptr + 4) THEN h.version ELSE old.version,
        next    |-> IF ReadOk(ptr + 8) THEN h.next    ELSE old.next]

(* reg_if_open_offset(regs, ptr, size-offset) refuses ptr >= regs->size *)
OpenOffsetFails(ptr) == RegsSize # 0 /\ ptr >= RegsSize

(* free_reg_block_list: close the views of entries until the first      *)
(* NULL regs; reaching index c means a read past the allocation.        *)
RECURSIVE ScanEnd(_, _, _)
ScanEnd(l, c, i) == IF i >= c \/ l[i].regs = NULL THEN i ELSE ScanEnd(l, c, i + 1)

FreedViews(l, c) == { l[i].regs : i \in 0..ScanEnd(l, c, 0) - 1 }

FreeReadsPastEnd(l, c) == ScanEnd(l, c, 0) >= c

(* Mutation: offset 0 ends the walk even before the first block. *)
ChainEnds_NoFirst(off, c) == off = 0 \/ off >= Size

(* The walk's termination test *)
ChainEnds(off, c) == (off = 0 /\ c # 0) \/ off >= Size

(* Mutation: no loop check. *)
LoopSeen_Never(ptr) == FALSE

(* The loop check against every block recorded so far *)
LoopSeen(ptr) == \E j \in 0..count-1 : list[j].offset = ptr

(* The slot at count is zeroed at the top of every iteration. *)
ClearSlot == [list EXCEPT ![count] = [@ EXCEPT !.type = 0, !.version = 0, !.regs = NULL]]

(* find_reg_block: scan until the first NULL regs; version 0 matches any *)
(* version; the index-th match (from 0) is returned, as a slot number.   *)
(* Mutation: version 0 is not a wildcard. *)
Matches_Exact(e, type, version) == e.type = type /\ e.version = version

Matches(e, type, version) == e.type = type /\ (version = 0 \/ e.version = version)

RECURSIVE FindFrom(_, _, _, _, _)
FindFrom(l, type, version, index, i) ==
    IF l[i].regs = NULL THEN NULL
    ELSE IF Matches(l[i], type, version)
         THEN IF index > 0 THEN FindFrom(l, type, version, index - 1, i + 1) ELSE i
         ELSE FindFrom(l, type, version, index, i + 1)

FindRegBlock(l, type, version, index) == FindFrom(l, type, version, index, 0)

-----------------------------------------------------------------------------
(* The initial calloc of 8 entries; if it fails NULL is returned at once. *)
Init ==
    /\ hdr \in Layouts
    /\ rb \in Garbage
    /\ count = 0 /\ offset = Start
    /\ views = {} /\ oob = FALSE
    /\ \/ /\ cap = InitCapacity /\ list = [i \in 0..InitCapacity-1 |-> Sentinel]
          /\ pc = "walk"
       \/ /\ "list" \in AllocFailures
          /\ cap = 0 /\ list = [i \in {} |-> Sentinel] /\ pc = "fail"

(* The walk ends normally: the list, with its zeroed sentinel, is returned. *)
WalkEnd ==
    /\ pc = "walk"
    /\ ChainEnds(offset, count)
    /\ list' = ClearSlot
    /\ pc' = "done"
    /\ UNCHANGED <<hdr, rb, cap, count, offset, views, oob>>

(* Mutation: goto fail without freeing the list. *)
WalkLoop_NoFree ==
    /\ pc = "walk"
    /\ ~ChainEnds(offset, count)
    /\ LoopSeen(Base + offset)
    /\ list' = ClearSlot
    /\ pc' = "fail"
    /\ UNCHANGED <<hdr, rb, cap, count, offset, views, oob>>

(* "Register blocks form a loop": goto fail, free the list, return NULL. *)
WalkLoop ==
    /\ pc = "walk"
    /\ ~ChainEnds(offset, count)
    /\ LoopSeen(Base + offset)
    /\ list' = ClearSlot
    /\ pc' = "fail"
    /\ views' = views \ FreedViews(list', cap)
    /\ oob' = (oob \/ FreeReadsPastEnd(list', cap))
    /\ UNCHANGED <<hdr, rb, cap, count, offset>>

(* Read the header, record the block and its child view, follow next;   *)
(* then grow the array by Growth when it is full, and on a failed        *)
(* realloc goto fail with the old array.  Slots the realloc adds are     *)
(* shown as sentinels: the code leaves them uninitialized, and each one  *)
(* is cleared at the top of the iteration that first uses it.            *)
WalkBlock ==
    /\ pc = "walk" /\ count < MaxCount
    /\ ~ChainEnds(offset, count)
    /\ ~LoopSeen(Base + offset)
    /\ \E viewOk \in IF "view" \in AllocFailures THEN BOOLEAN ELSE {TRUE},
          grown \in IF "list" \in AllocFailures THEN BOOLEAN ELSE {TRUE} :
         LET ptr == Base + offset
             h == ReadHeader(ptr, rb)
             view == IF viewOk /\ ~OpenOffsetFails(ptr) THEN ptr ELSE NULL
             l1 == [ClearSlot EXCEPT ![count] = [type |-> h.type, version |-> h.version,
                                                 offset |-> ptr, regs |-> view]]
             full == count + 1 >= cap
             opened == views \cup ({view} \ {NULL})
         IN /\ rb' = h
            /\ offset' = h.next
            /\ count' = count + 1
            /\ IF full /\ ~grown
               THEN /\ list' = l1 /\ cap' = cap /\ pc' = "fail"
                    /\ views' = opened \ FreedViews(l1, cap)
                    /\ oob' = (oob \/ FreeReadsPastEnd(l1, cap))
               ELSE /\ cap' = IF full THEN cap + Growth ELSE cap
                    /\ list' = [i \in 0..cap'-1 |-> IF i < cap THEN l1[i] ELSE Sentinel]
                    /\ views' = opened
                    /\ UNCHANGED <<pc, oob>>
    /\ UNCHANGED hdr

(* The caller frees the returned list. *)
Free ==
    /\ pc = "done"
    /\ pc' = "freed"
    /\ views' = views \ FreedViews(list, cap)
    /\ oob' = (oob \/ FreeReadsPastEnd(list, cap))
    /\ UNCHANGED <<hdr, rb, list, cap, count, offset>>

Next == WalkEnd \/ WalkLoop \/ WalkBlock \/ Free

(* enumerate_reg_block_list runs to completion on the calling thread. *)
Spec == Init /\ [][Next]_vars /\ WF_vars(Next)

-----------------------------------------------------------------------------
(* Reference: the chain the headers describe, by the walk protocol of    *)
(* spec.md 4.2, as the blocks met before it ends and whether it loops.   *)
RECURSIVE ChainFrom(_, _)
ChainFrom(off, seen) ==
    IF (off = 0 /\ seen # {}) \/ off >= Size THEN [blocks |-> << >>, loop |-> FALSE]
    ELSE IF Base + off \in seen THEN [blocks |-> << >>, loop |-> TRUE]
    ELSE LET rest == ChainFrom(hdr[off].next, seen \cup {Base + off})
         IN [blocks |-> << [type |-> hdr[off].type, version |-> hdr[off].version,
                            offset |-> Base + off] >> \o rest.blocks,
             loop |-> rest.loop]

Chain == ChainFrom(Start, {})

(* The blocks a user of the returned list sees: those before the first NULL. *)
Visible == [i \in 1..ScanEnd(list, cap, 0) |->
              [type |-> list[i-1].type, version |-> list[i-1].version,
               offset |-> list[i-1].offset]]

(* A list returned by enumerate_reg_block_list holds, up to its sentinel, *)
(* exactly the blocks of the chain in chain order, and NULL is returned   *)
(* for a reason other than a failed allocation only when the chain loops *)
(* (scenario S7).                                                          *)
EnumerationCorrect ==
    /\ pc = "done" => ~Chain.loop /\ Visible = Chain.blocks
    /\ (pc = "fail" /\ count < cap) => Chain.loop

(* On a returned list, find_reg_block(list, type, version, index) is the  *)
(* index-th block of the chain with that type and version (0 matching   *)
(* any version), or NULL when there are not that many.                   *)
FindSelectsNth ==
    pc = "done" =>
      \A t \in Types, ver \in Versions \cup {0}, idx \in 0..MaxIndex :
        LET m == SelectSeq(Chain.blocks, LAMBDA b : b.type = t /\ (ver = 0 \/ b.version = ver))
            r == FindRegBlock(list, t, ver, idx)
        IN IF idx < Len(m) THEN r # NULL /\ list[r].offset = m[idx + 1].offset
                           ELSE r = NULL

(* Every child view the walk opened is closed again when NULL is returned *)
(* (loop or failed allocation) and when the caller frees the list, and   *)
(* free_reg_block_list never reads outside the array.                    *)
FreeReleasesAll == pc \in {"fail", "freed"} => views = {} /\ ~oob

(* The walk always returns, even on a chain that loops back. *)
Terminates == <>(pc # "walk")

=============================================================================
