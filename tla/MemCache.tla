------------------------------ MODULE MemCache ------------------------------
(***************************************************************************)
(* Allocate, the memory cache of commonn/memCache.cpp, and the buffers     *)
(* that hold its blocks.  A free list per size is chained through the      *)
(* first word of its blocks, which belongs to the user while the block is  *)
(* in use, and is locked by a mutex of its own.  Sizes are counted in      *)
(* units of ALIGN bytes: list i has blocks of i units, and what is larger  *)
(* than Lists units comes from malloc and goes back to it.                 *)
(*                                                                         *)
(* A buffer is used by one thread at a time.  Every operation of Buffer    *)
(* that changes its memory is at most one allocate and one deallocate, in  *)
(* this order.  malloc gives a block that nobody uses, and does not fail.  *)
(***************************************************************************)
EXTENDS FiniteSetsExt

CONSTANTS
    Threads, Buffers,
    Lists,       \* MAX_BYTES / ALIGN
    ChunkNode,   \* CHUNK_NODE, the blocks of a refill
    MaxUnits,    \* bound: the largest size asked for
    MaxBlocks,   \* bound: how many blocks there are at once
    MaxInits,    \* bound: how often init is called
    NULL, Junk   \* no block; user data in the first word

ASSUME MemCacheAssumption ==
    /\ {Lists, MaxUnits, MaxBlocks, MaxInits} \subseteq Nat
    /\ 0 < Lists /\ Lists < MaxUnits
    /\ ChunkNode \in Nat /\ ChunkNode > 1
    /\ NULL \notin 1..MaxBlocks /\ Junk \notin 1..MaxBlocks /\ NULL # Junk
    /\ NULL \notin Threads \union Buffers
    /\ IsFiniteSet(Threads)

Blocks == 1..MaxBlocks
Indices == 1..Lists

VARIABLES
    size,        \* size[k]: units of block k, 0 if there is no such memory
    link,        \* its first word
    head,        \* free_list
    mutex,       \* mem_mutex
    cache,       \* of a buffer: its block
    allo         \* allo_len, in units

VARIABLES        \* of thread t
    pc,
    buffer,      \* the buffer it works on, NULL if none
    block,       \* tmp, the block it has got
    units,       \* what it asks for, and
    alloLen,     \* what it will write to allo_len
    first        \* the head of the list it has read

VARIABLES        \* for the properties
    dropped,     \* blocks that were on a list when init made it anew
    inits,       \* how many lists init has made
    copied       \* a buffer was assigned to another

memory == <<size, link, head>>
buffers == <<cache, allo>>
history == <<dropped, inits, copied>>
local == <<buffer, block, units, alloLen, first>>
vars == <<memory, mutex, buffers, pc, local, history>>

Init ==
    /\ size = [k \in Blocks |-> 0]
    /\ link = [k \in Blocks |-> Junk]
    /\ head = [i \in Indices |-> NULL]
    /\ mutex = [i \in Indices |-> NULL]
    /\ cache = [b \in Buffers |-> NULL]
    /\ allo = [b \in Buffers |-> 0]
    /\ pc = [t \in Threads |-> "idle"]
    /\ buffer = [t \in Threads |-> NULL]
    /\ block = [t \in Threads |-> NULL]
    /\ units = [t \in Threads |-> 0]
    /\ alloLen = [t \in Threads |-> 0]
    /\ first = [t \in Threads |-> NULL]
    /\ dropped = {}
    /\ inits = 0
    /\ copied = FALSE

Goto(t, label) == pc' = [pc EXCEPT ![t] = label]
-----------------------------------------------------------------------------
(* malloc gives unused memory: one block, or a chunk of them. *)
Unmapped == {k \in Blocks : size[k] = 0}
Chunk == CHOOSE s \in kSubset(ChunkNode, Unmapped) : TRUE

(* bound: whoever is to get memory may refill a list, and one more *)
MemoryLeft ==
    Cardinality(Unmapped) >=
        ChunkNode * (1 + Cardinality({t \in Threads : units[t] > 0}))

(* The links of the chunk: each block to the next one, the last to none.   *)
Chained(chunk) ==
    [k \in Blocks |->
       LET later == {j \in chunk : j > k} IN
       CASE k \notin chunk -> link[k]
         [] k \in chunk /\ later = {} -> NULL
         [] OTHER -> Min(later)]

(* init, one list after the other: a new chunk, whose first block is put   *)
(* back.  What the list had before is not looked at.  The mutexes are made *)
(* anew, so no thread may be in a call.                                    *)
NextList == (inits % Lists) + 1

(* The blocks of a list, which begins with k. *)
ListFrom(k, next) ==
    LET nth[n \in 0..MaxBlocks] ==
          IF n = 0 THEN k
          ELSE IF nth[n - 1] \in Blocks THEN next[nth[n - 1]] ELSE NULL
    IN  {nth[n] : n \in 0..MaxBlocks} \intersect Blocks

FreeOn(i) == ListFrom(head[i], link)

InitList ==
    /\ inits < MaxInits * Lists
    /\ \A t \in Threads : pc[t] = "idle"
    /\ inits % Lists = 0 => Cardinality(Unmapped) >= ChunkNode * Lists
    /\ LET i == NextList
       IN  /\ size' = [k \in Blocks |-> IF k \in Chunk THEN i ELSE size[k]]
           /\ link' = Chained(Chunk)
           /\ head' = [head EXCEPT ![i] = Min(Chunk)]
           /\ dropped' = dropped \union FreeOn(i)
    /\ inits' = inits + 1
    /\ UNCHANGED <<mutex, buffers, pc, local, copied>>
-----------------------------------------------------------------------------
(* The operations of Buffer.  Thread t begins one on buffer b that wants n *)
(* units, 0 for none, and sets allo_len to r units.                        *)
Begin(t, b, n, r) ==
    /\ inits % Lists = 0
    /\ n <= MaxUnits /\ (n > 0 => MemoryLeft)
    /\ pc[t] = "idle" /\ \A u \in Threads : buffer[u] # b
    /\ buffer' = [buffer EXCEPT ![t] = b]
    /\ units' = [units EXCEPT ![t] = n]
    /\ alloLen' = [alloLen EXCEPT ![t] = r]
    /\ Goto(t, IF n > 0 THEN "allocate" ELSE "deallocate")
    /\ UNCHANGED <<memory, mutex, buffers, block, first, dropped, inits>>

(* Buffer(size), add_data and LineEvent::initBuffer, on an empty buffer.   *)
BufferInit(t, b) ==
    /\ cache[b] = NULL
    /\ \E n \in 1..MaxUnits : Begin(t, b, n, n)
    /\ UNCHANGED copied

(* clear, ~Buffer and add_handl_num. *)
Clear(t, b) ==
    /\ cache[b] # NULL
    /\ Begin(t, b, 0, 0)
    /\ UNCHANGED copied

(* fresh_cache: at least twice the size, plus one byte. *)
FreshCache(t, b) ==
    /\ cache[b] # NULL
    /\ \E n \in 2 * allo[b] + 1 .. MaxUnits : Begin(t, b, n, n)
    /\ UNCHANGED copied

(* operator=: a copy of c, which takes the place of b.  The copy asks for  *)
(* a byte more than the allo_len of c, and then takes this allo_len for    *)
(* its own.  (An empty c cannot be copied: memcpy of -1 bytes.)            *)
Assign(t, b, c) ==
    /\ cache[c] # NULL /\ \A u \in Threads : buffer[u] # c
    /\ Begin(t, b, allo[c] + 1, allo[c])
    /\ copied' = TRUE
-----------------------------------------------------------------------------
(* ROUND_UP and FREELIST_INDEX do nothing to whole units. *)
Pooled(n) == n <= Lists

(* What a call does in the end: the block it has got is handed out. *)
Allocated(t, k) ==
    /\ block' = [block EXCEPT ![t] = k]
    /\ Goto(t, "deallocate")

(* allocate: a size that no list has is taken from malloc. *)
Malloc(t) ==
    /\ pc[t] = "allocate" /\ ~Pooled(units[t])
    /\ LET k == Min(Unmapped)
       IN  /\ size' = [size EXCEPT ![k] = units[t]]
           /\ Allocated(t, k)
    /\ UNCHANGED <<link, head, mutex, buffers, buffer, units, alloLen, first,
                   history>>

(* Mutant of Lock: it does not wait. *)
LockBarges(t, i) == mutex' = [mutex EXCEPT ![i] = t]

Lock(t, i) == mutex[i] = NULL /\ mutex' = [mutex EXCEPT ![i] = t]
Unlock(i) == mutex' = [mutex EXCEPT ![i] = NULL]

(* allocate: the mutex, and the head of the list. *)
ReadHead(t) ==
    /\ pc[t] = "allocate" /\ Pooled(units[t])
    /\ Lock(t, units[t])
    /\ first' = [first EXCEPT ![t] = head[units[t]]]
    /\ Goto(t, "take")
    /\ UNCHANGED <<memory, buffers, buffer, block, units, alloLen, history>>

(* allocate: the first block leaves the list. *)
Take(t) ==
    /\ pc[t] = "take" /\ first[t] # NULL
    /\ head' = [head EXCEPT ![units[t]] = link[first[t]]]
    /\ Allocated(t, first[t])
    /\ first' = [first EXCEPT ![t] = NULL]
    /\ Unlock(units[t])
    /\ UNCHANGED <<size, link, buffers, buffer, units, alloLen, history>>

(* allocate: an empty list gets a chunk, whose first block is the result.  *)
Refill(t) ==
    /\ pc[t] = "take" /\ first[t] = NULL
    /\ LET i == units[t]
       IN  /\ size' = [k \in Blocks |-> IF k \in Chunk THEN i ELSE size[k]]
           /\ link' = Chained(Chunk)
           /\ head' = [head EXCEPT ![i] = link'[Min(Chunk)]]
           /\ Allocated(t, Min(Chunk))
           /\ Unlock(i)
    /\ UNCHANGED <<buffers, buffer, units, alloLen, first, history>>

(* The block of the buffer that is given back, of allo_len units. *)
Old(t) == cache[buffer[t]]

(* Mutant of OldUnits: the byte that init adds is added once more. *)
OldUnitsPlusOne(t) == allo[buffer[t]] + 1

OldUnits(t) == allo[buffer[t]]

(* The operation ends: the buffer has the new block, and writes to it. *)
End(t) ==
    /\ cache' = [cache EXCEPT ![buffer[t]] = block[t]]
    /\ allo' = [allo EXCEPT ![buffer[t]] = alloLen[t]]
    /\ Goto(t, "idle")
    /\ buffer' = [buffer EXCEPT ![t] = NULL]
    /\ block' = [block EXCEPT ![t] = NULL]
    /\ units' = [units EXCEPT ![t] = 0]
    /\ alloLen' = [alloLen EXCEPT ![t] = 0]
    /\ first' = [first EXCEPT ![t] = NULL]

(* deallocate returns at once, or frees what no list has. *)
Free(t) ==
    /\ pc[t] = "deallocate"
    /\ \/ Old(t) = NULL /\ UNCHANGED size
       \/ /\ Old(t) # NULL /\ ~Pooled(OldUnits(t))
          /\ size' = [size EXCEPT ![Old(t)] = 0]
    /\ link' = [k \in Blocks |-> IF k = block[t] THEN Junk ELSE link[k]]
    /\ End(t)
    /\ UNCHANGED <<head, mutex, history>>

(* deallocate: the mutex, and the link to the first block of the list. *)
LinkOld(t) ==
    /\ pc[t] = "deallocate" /\ Old(t) # NULL /\ Pooled(OldUnits(t))
    /\ Lock(t, OldUnits(t))
    /\ link' = [link EXCEPT ![Old(t)] = head[OldUnits(t)]]
    /\ Goto(t, "give")
    /\ UNCHANGED <<size, head, buffers, local, history>>

(* deallocate: the block becomes the head of the list. *)
Give(t) ==
    /\ pc[t] = "give"
    /\ head' = [head EXCEPT ![OldUnits(t)] = Old(t)]
    /\ Unlock(OldUnits(t))
    /\ link' = [k \in Blocks |-> IF k = block[t] THEN Junk ELSE link[k]]
    /\ End(t)
    /\ UNCHANGED <<size, history>>

Work(t) ==
    \/ Malloc(t) \/ ReadHead(t) \/ Take(t) \/ Refill(t)
    \/ Free(t) \/ LinkOld(t) \/ Give(t)

Next ==
    \/ InitList
    \/ \E t \in Threads, b \in Buffers :
          \/ BufferInit(t, b) \/ Clear(t, b) \/ FreshCache(t, b)
          \/ \E c \in Buffers : Assign(t, b, c)
    \/ \E t \in Threads : Work(t)

Spec == Init /\ [][Next]_vars
-----------------------------------------------------------------------------
Held == {cache[b] : b \in Buffers} \ {NULL}
Given == {block[t] : t \in Threads} \ {NULL}
Mapped == Blocks \ Unmapped

(* Type correctness of the memory, the buffers and the calls. *)
TypeOK ==
    /\ size \in [Blocks -> 0..MaxUnits]
    /\ link \in [Blocks -> Blocks \union {NULL, Junk}]
    /\ head \in [Indices -> Blocks \union {NULL}]
    /\ mutex \in [Indices -> Threads \union {NULL}]
    /\ cache \in [Buffers -> Blocks \union {NULL}]
    /\ allo \in [Buffers -> 0..MaxUnits]
    /\ pc \in [Threads -> {"idle", "allocate", "take", "deallocate", "give"}]
    /\ buffer \in [Threads -> Buffers \union {NULL}]
    /\ first \in [Threads -> Blocks \union {NULL}]

(* Where every block is: with a buffer, with a thread that has just got    *)
(* it, on one free list, or dropped by a second init.  Never in two of     *)
(* these places, so no two buffers share memory, and never in none.        *)
EveryBlockHasOnePlace ==
    /\ \A b, c \in Buffers : b # c /\ cache[b] # NULL => cache[b] # cache[c]
    /\ \A t, u \in Threads : t # u /\ block[t] # NULL => block[t] # block[u]
    /\ \A i, j \in Indices : i # j => FreeOn(i) \intersect FreeOn(j) = {}
    /\ LET free == UNION {FreeOn(i) : i \in Indices}
       IN  /\ Held \intersect Given = {}
           /\ (Held \union Given) \intersect (free \union dropped) = {}
           /\ free \intersect dropped = {}
           /\ Mapped = Held \union Given \union free \union dropped

(* A block is as large as whoever has it believes: a buffer its allo_len,  *)
(* a list the units of its index.  Exactly so, until a buffer is copied:   *)
(* the block of a copy goes to the list of smaller blocks, or, when it     *)
(* came from malloc, to a list for good.                                   *)
BlocksAreLargeEnough ==
    /\ \A b \in Buffers : cache[b] # NULL
          => size[cache[b]] >= allo[b] /\ (copied \/ size[cache[b]] = allo[b])
    /\ \A i \in Indices : \A k \in FreeOn(i) :
          size[k] >= i /\ (copied \/ size[k] = i)
=============================================================================
