------------------------------- MODULE RegIf -------------------------------
(***************************************************************************)
(* The register interface of src/pyrite/utils/reg_if.c: raw windows over  *)
(* a mapped region, offset views over a parent interface, the bounds      *)
(* check of the reg_if_readN/writeN wrappers, and close.  The eight       *)
(* accessors differ only in width and direction and share one action;     *)
(* values are left out: an access is known by the bytes of the mapped     *)
(* region it touches.  A struct reg_if is an element of Ids, open or not. *)
(***************************************************************************)
EXTENDS Integers

CONSTANTS
    Ids,        \* the reg_if structs that can be allocated
    RawSizes,   \* size arguments of reg_if_open_raw (0 = unbounded)
    ViewOffs,   \* offset arguments of reg_if_open_offset
    ViewSizes,  \* size arguments of reg_if_open_offset (0 = unbounded)
    AccOffs,    \* offset arguments of the accessors
    Widths      \* access widths in bytes: 1, 2, 4, 8

NULL == -1    \* a null pointer: no reg_if is numbered below 0

VARIABLES
    ifs,        \* ifs[i]: [open, raw, parent, offset, size] of struct reg_if i
    last,       \* the access the last step made, if it was one: [id, off, width, ok, at]
    slice       \* history: slice[i] = [base, hi], the region bytes [base, hi) the
                \* caller handed to interface i when opening it (hi = NULL: no end)

vars == <<ifs, last, slice>>

Closed == [open |-> FALSE, raw |-> TRUE, parent |-> NULL, offset |-> 0, size |-> 0]

TypeOK ==
    /\ ifs \in [Ids -> [open : BOOLEAN, raw : BOOLEAN, parent : Ids \cup {NULL},
                        offset : Nat, size : Nat]]
    /\ last \in [id : Ids \cup {NULL}, off : Nat, width : Nat, ok : BOOLEAN, at : Nat]
    /\ slice \in [Ids -> [base : Nat, hi : Nat \cup {NULL}]]

(* The wrapper's check: Err when size > 0 and offset >= size *)
OutOfRange(i, off) == ifs[i].size # 0 /\ off >= ifs[i].size

(* Mutation: the offset view passes its own offset unchanged. *)
Delegate_NoAdd(i, off) == off

(* reg_if_offset_readN: the parent's accessor at reg->offset + offset *)
Delegate(i, off) == ifs[i].offset + off

(* reg_if_readN(i, off): Err, or the region offset the raw accessor uses *)
RECURSIVE Access(_, _)
Access(i, off) ==
    IF OutOfRange(i, off) THEN [ok |-> FALSE, at |-> 0]
    ELSE IF ifs[i].raw THEN [ok |-> TRUE, at |-> off]
    ELSE Access(ifs[i].parent, Delegate(i, off))

-----------------------------------------------------------------------------
NoAccess == [id |-> NULL, off |-> 0, width |-> 0, ok |-> FALSE, at |-> 0]
NoSlice == [base |-> 0, hi |-> NULL]

(* The slice a caller asks for: size bytes from off of the parent's slice, *)
(* and never past the parent's end (size 0: the rest of the parent).       *)
SubSlice(ps, off, size) ==
    LET b == ps.base + off
        own == IF size = 0 THEN NULL ELSE b + size
    IN [base |-> b,
        hi |-> CASE own = NULL -> ps.hi
                 [] ps.hi = NULL -> own
                 [] OTHER -> IF own < ps.hi THEN own ELSE ps.hi]

Init ==
    /\ ifs = [i \in Ids |-> Closed]
    /\ last = NoAccess
    /\ slice = [i \in Ids |-> NoSlice]

(* reg_if_open_raw(regs, size): a calloc'ed struct with the raw ops *)
OpenRaw(i, size) ==
    /\ ~ifs[i].open
    /\ ifs' = [ifs EXCEPT ![i] = [open |-> TRUE, raw |-> TRUE, parent |-> NULL,
                                  offset |-> 0, size |-> size]]
    /\ last' = NoAccess
    /\ slice' = [slice EXCEPT ![i] = [base |-> 0, hi |-> IF size = 0 THEN NULL ELSE size]]

(* reg_if_open_offset(regs, offset, size): NULL when offset >= the       *)
(* parent's size; a size of 0 or of at least the parent's is clamped to  *)
(* what is left of the parent.                                           *)
OpenOffset(i, p, off, size) ==
    /\ ~ifs[i].open /\ ifs[p].open
    /\ ~OutOfRange(p, off)
    /\ LET ps == ifs[p].size
           sz == IF ps # 0 /\ (size = 0 \/ size >= ps) THEN ps - off ELSE size
       IN ifs' = [ifs EXCEPT ![i] = [open |-> TRUE, raw |-> FALSE, parent |-> p,
                                     offset |-> off, size |-> sz]]
    /\ last' = NoAccess
    /\ slice' = [slice EXCEPT ![i] = SubSlice(slice[p], off, size)]

(* reg_if_close: free the struct; an offset view has no close op, so its *)
(* parent stays open.  Callers close views before their parent (the      *)
(* ownership rule of spec.md 3), which the guard assumes.                *)
Close(i) ==
    /\ ifs[i].open
    /\ \A j \in Ids : ifs[j].open /\ ~ifs[j].raw => ifs[j].parent # i
    /\ ifs' = [ifs EXCEPT ![i] = Closed]
    /\ last' = NoAccess
    /\ slice' = [slice EXCEPT ![i] = NoSlice]

(* reg_if_readN / reg_if_writeN of width w on an open interface *)
Accessor(i, off, w) ==
    /\ ifs[i].open
    /\ LET r == Access(i, off)
       IN last' = [id |-> i, off |-> off, width |-> w, ok |-> r.ok, at |-> r.at]
    /\ UNCHANGED <<ifs, slice>>

Next ==
    \E i \in Ids :
       \/ \E s \in RawSizes : OpenRaw(i, s)
       \/ \E p \in Ids, o \in ViewOffs, s \in ViewSizes : OpenOffset(i, p, o, s)
       \/ Close(i)
       \/ \E o \in AccOffs, w \in Widths : Accessor(i, o, w)

Spec == Init /\ [][Next]_vars

-----------------------------------------------------------------------------
(* Whether the bytes [off, off + w) lie inside the window of interface i *)
(* and of every ancestor.                                                  *)
RECURSIVE InAllWindows(_, _, _)
InAllWindows(i, off, w) ==
    /\ ifs[i].size = 0 \/ off + w <= ifs[i].size
    /\ ifs[i].raw \/ InAllWindows(ifs[i].parent, ifs[i].offset + off, w)

(* spec.md 4.1 isolation, for the byte an accessor addresses: whatever   *)
(* stack of offset views it goes through, an access that reg_if_readN /   *)
(* writeN lets through lands at offset off of the slice the caller asked  *)
(* for at open time, and inside it, even when the view was opened over-   *)
(* hanging its parent (reg_if_open_offset keeps such a size unclamped).   *)
ConfinedToSlice ==
    last.ok =>
       /\ last.at = slice[last.id].base + last.off
       /\ slice[last.id].hi = NULL \/ last.at < slice[last.id].hi

(* spec.md 3: an access at off on a bounded window must satisfy          *)
(* off + width <= size, so no accessor that succeeds touches a byte      *)
(* outside the slice it was given (spec.md 4.1 rationale).                *)
OkAccessInBounds == last.ok => InAllWindows(last.id, last.off, last.width)

(* spec.md 4.1 and S8: an offset view over a bounded parent fits inside  *)
(* it: construction is refused, or the size clamped, when (off, size)    *)
(* would overhang the parent.                                             *)
ViewsNested ==
    \A i \in Ids :
       (ifs[i].open /\ ~ifs[i].raw /\ ifs[ifs[i].parent].size # 0) =>
          /\ ifs[i].size # 0
          /\ ifs[i].offset + ifs[i].size <= ifs[ifs[i].parent].size

=============================================================================
