----------------------------- MODULE DynTallocr -----------------------------
(***************************************************************************)
(* ggml_dyn_tallocr (ggml-alloc.c): the allocator with which the memory of *)
(* a graph's tensors is planned. It hands out addresses in chunks, each of *)
(* which becomes a buffer of its own, and keeps for each chunk the blocks  *)
(* that are free and the highest address ever used.                        *)
(*                                                                         *)
(* The code keeps the free blocks in an array sorted by offset. Here they  *)
(* are a set, and "the last block" is the one with the highest offset.     *)
(***************************************************************************)
EXTENDS Integers, Sequences

CONSTANTS
    Alignment,      \* of every size and so of every offset
    MaxChunkSize,   \* the largest buffer of the backend
    MaxChunks,      \* GGML_VBUFFER_MAX_CHUNKS
    Endless         \* the size of the last chunk, SIZE_MAX / 2

ASSUME DynTallocrAssumption ==
    /\ Alignment \in Nat \ {0}
    /\ MaxChunkSize \in Nat \ {0}
    /\ MaxChunks \in Nat \ {0}
    /\ Endless \in Nat \ {0}

Blocks == [offset : Nat, size : Nat]
Chunks == [free : SUBSET Blocks, max_size : Nat]
Addresses == [chunk : Nat, offset : Nat]

Larger(a, b) == IF a > b THEN a ELSE b

(* aligned_offset of a size: the next multiple of the alignment.           *)
Aligned(size) == ((size + Alignment - 1) \div Alignment) * Alignment

End(b) == b.offset + b.size
IsLast(b, free) == \A o \in free : o.offset <= b.offset

-----------------------------------------------------------------------------
(* ggml_dyn_tallocr_alloc.                                                 *)

(* Blocks other than the last that are large enough.                       *)
Fitting(chunk, size) ==
    {b \in chunk.free : b.size >= size /\ ~IsLast(b, chunk.free)}

(* The smallest of them, the last one of those of equal size. The best     *)
(* size found starts anew with every chunk, so a later chunk wins.         *)
BestFit(c, b, chunks, size) ==
    /\ b \in Fitting(chunks[c], size)
    /\ \A o \in Fitting(chunks[c], size) :
           b.size < o.size \/ (b.size = o.size /\ b.offset >= o.offset)
    /\ \A d \in DOMAIN chunks : d > c => Fitting(chunks[d], size) = {}

(* How much of what the chunk has used before would be left over, and, if  *)
(* negative, by how much it would have to grow.                            *)
Reuse(chunk, b, size) == chunk.max_size - b.offset - size

(* The last block of a chunk is taken when no other block fits: best one   *)
(* that need not grow its chunk and wastes least, else one that makes it   *)
(* grow least.                                                             *)
LastFit(c, b, chunks, size) ==
    LET Last(d, l) == l \in chunks[d].free /\ IsLast(l, chunks[d].free)
                      /\ l.size >= size
        gain == Reuse(chunks[c], b, size)
    IN  /\ Last(c, b)
        /\ \A d \in DOMAIN chunks : \A l \in chunks[d].free :
               Last(d, l) =>
                   LET other == Reuse(chunks[d], l, size)
                   IN  \/ gain >= 0 /\ other < 0
                       \/ gain >= 0 /\ gain < other
                       \/ gain < 0 /\ other < gain
                       \/ gain = other /\ c <= d

(* ggml_dyn_tallocr_new_chunk. The last of the chunks is endless.          *)
NewChunk(chunks, size) ==
    [free |-> {[offset |-> 0,
                size |-> IF Len(chunks) = MaxChunks - 1
                         THEN Endless ELSE Larger(size, MaxChunkSize)]},
     max_size |-> 0]

(* Where size bytes go: the chunks (one more, perhaps), and the block.     *)
Free(chunks) ==
    UNION {{<<c, b>> : b \in chunks[c].free} : c \in DOMAIN chunks}

Place(chunks, size) ==
    LET fits == {w \in Free(chunks) : BestFit(w[1], w[2], chunks, size)}
        lasts == {w \in Free(chunks) : LastFit(w[1], w[2], chunks, size)}
        new == NewChunk(chunks, size)
        here(w) == [chunks |-> chunks, chunk |-> w[1], block |-> w[2]]
    IN  IF fits # {} THEN here(CHOOSE w \in fits : TRUE)
        ELSE IF lasts # {} THEN here(CHOOSE w \in lasts : TRUE)
        ELSE [chunks |-> Append(chunks, new), chunk |-> Len(chunks) + 1,
              block |-> CHOOSE b \in new.free : TRUE]

(* Cutting size bytes off the front of a free block.                       *)
Take(chunk, b, size) ==
    [free |-> (chunk.free \ {b}) \cup
              (IF b.size = size THEN {}
               ELSE {[offset |-> b.offset + size, size |-> b.size - size]}),
     max_size |-> Larger(chunk.max_size, b.offset + size)]

AllocBytes(chunks, bytes) ==
    LET size == Aligned(bytes)
        at == Place(chunks, size)
    IN  [chunks |-> [at.chunks EXCEPT ![at.chunk] = Take(@, at.block, size)],
         addr |-> [chunk |-> at.chunk, offset |-> at.block.offset]]

-----------------------------------------------------------------------------
(* ggml_dyn_tallocr_free_bytes: the block is merged with the free block    *)
(* that ends where it starts and with the one that starts where it ends.   *)
MergeBefore(free, offset, size) ==
    LET before == {b \in free : End(b) = offset}
        start == IF before = {} THEN offset
                 ELSE (CHOOSE b \in before : TRUE).offset
    IN  (free \ before) \cup {[offset |-> start, size |-> offset + size - start]}

Merge(free, offset, size) ==
    LET before == {b \in free : End(b) = offset}
        after == {b \in free : b.offset = offset + size}
        start == IF before = {} THEN offset
                 ELSE (CHOOSE b \in before : TRUE).offset
        end == IF after = {} THEN offset + size
               ELSE End(CHOOSE b \in after : TRUE)
    IN  (free \ (before \cup after)) \cup {[offset |-> start, size |-> end - start]}

FreeBytes(chunks, addr, bytes) ==
    [chunks EXCEPT ![addr.chunk].free = Merge(@, addr.offset, Aligned(bytes))]
=============================================================================
