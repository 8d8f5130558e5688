-------------------------------- MODULE Buffer --------------------------------
(***************************************************************************)
(* Buffer (Buffer.cpp): a block of memory in which the bytes from str_idx  *)
(* to end_idx, both included, are not handled yet.  The operations are     *)
(* operators from the buffer before to the buffer after.  Indices count    *)
(* from 0 as in the code: byte i of the block is cache[i + 1].             *)
(***************************************************************************)
EXTENDS Integers, Sequences

CONSTANTS
    Align,       \* Allocate::ALIGN (256): blocks are multiples of it
    FreshLimit,  \* FRESHLIMIT (1024): larger blocks are given back
    Junk         \* a byte that this buffer has not written

ASSUME BufferAssumption == Align \in Nat \ {0} /\ FreshLimit \in Nat

(* Allocate::ROUND_UP *)
RoundUp(n) == ((n + Align - 1) \div Align) * Align

JunkBytes(n) == [i \in 1 .. n |-> Junk]

(* allo_len *)
Allo(b) == Len(b.cache)

(* Buffer(), and what clear() leaves: no block *)
Null == [cache |-> <<>>, str |-> 0, end |-> -1]

(* init *)
New(size) == [cache |-> JunkBytes(RoundUp(size + 1)), str |-> 0, end |-> -1]

(* get_empty_size, get_unhandle_num *)
EmptySize(b) == Allo(b) - b.end - 1
UnhandledNum(b) == b.end - b.str + 1

(* n bytes as they are read through get_unhandle_cache *)
FirstBytes(b, n) ==
    [k \in 1 .. n |-> IF b.str + k <= Allo(b) THEN b.cache[b.str + k] ELSE Junk]

Unhandled(b) == SubSeq(b.cache, b.str + 1, b.end + 1)

(* memcpy or read to get_empty_cache, and end_idx moved behind it; what is *)
(* outside the block is not remembered.                                    *)
Store(b, bytes) ==
    LET before == SubSeq(b.cache, 1, b.end + 1)
        behind == SubSeq(b.cache, b.end + Len(bytes) + 2, Allo(b))
    IN  [b EXCEPT !.end = @ + Len(bytes),
                  !.cache = SubSeq(before \o bytes \o behind, 1, Allo(b))]

(* What fresh_cache allocates for len bytes more. *)
Larger(b, len) ==
    LET need == b.end + len + 1
    IN  RoundUp((IF 2 * Allo(b) > need THEN 2 * Allo(b) ELSE need) + 1)

(* Mutant of FreshCache: end_idx bytes are copied, which is one too few.   *)
FreshCacheShort(b, len) ==
    LET kept == SubSeq(b.cache, 1, b.end)
    IN  [b EXCEPT !.cache = kept \o JunkBytes(Larger(b, len) - Len(kept))]

(* fresh_cache: a block at least twice as large, with the bytes up to end  *)
FreshCache(b, len) ==
    LET kept == SubSeq(b.cache, 1, b.end + 1)
    IN  [b EXCEPT !.cache = kept \o JunkBytes(Larger(b, len) - Len(kept))]

(* Mutant of AddData: the room is not checked. *)
AddDataUnchecked(b, bytes) ==
    Store(IF b = Null THEN New(Len(bytes)) ELSE b, bytes)

(* add_data *)
AddData(b, bytes) ==
    LET c == IF b = Null THEN New(Len(bytes)) ELSE b
        d == IF Len(bytes) > EmptySize(c) THEN FreshCache(c, Len(bytes)) ELSE c
    IN  Store(d, bytes)

(* add_handl_num: the buffer is empty again once str_idx reaches end_idx,  *)
(* which is the index of the last byte.                                    *)
AddHandled(b, n) ==
    IF b.str + n < b.end THEN [b EXCEPT !.str = @ + n]
    ELSE IF Allo(b) > FreshLimit THEN Null
    ELSE [b EXCEPT !.str = 0, !.end = -1]

Compacts(b) == Allo(b) > FreshLimit /\ b.str > Allo(b) \div 2

(* check_empty_space: move_forward.  end_idx -= str_idx comes after        *)
(* str_idx = 0, so end_idx stays and the bytes that were moved are there   *)
(* twice.  The '\0' behind them may fall outside the block.                *)
CheckEmptySpace(b) ==
    LET moved == Unhandled(b) \o SubSeq(b.cache, UnhandledNum(b) + 1, b.end + 1)
        behind == SubSeq(b.cache, b.end + 3, Allo(b))
    IN  IF ~Compacts(b) THEN b
        ELSE [b EXCEPT !.str = 0,
                       !.cache = SubSeq(moved \o <<Junk>> \o behind, 1, Len(@))]
=============================================================================
