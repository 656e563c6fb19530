-------------------------- MODULE GraphAllocProofs --------------------------
(***************************************************************************)
(* Proofs about the graph allocator, for every set of graphs, alignment    *)
(* and chunk size: the memory planned for tensors that are needed at the   *)
(* same time never overlaps, and none of it is lost; and about graphs that *)
(* are computed in that memory, in parts and in any order a run may take:  *)
(* what is read has not been overwritten, and the outputs are whole.       *)
(***************************************************************************)
EXTENDS GraphMemory, FiniteSetTheorems, SequenceTheorems, WellFoundedInduction, TLAPS

(* A chunk of which top bytes have been used is divided between the free   *)
(* blocks and the tensors in own, tensor t having lo[t] up to hi[t]. Free  *)
(* blocks do not touch, and start within or right behind what was used.    *)
Apart(free) == \A a, b \in free : a # b => End(a) < b.offset \/ End(b) < a.offset
Within(free, top) == \A b \in free : b \in Blocks /\ b.size > 0 /\ b.offset <= top
Lodged(own, lo, hi, free, top) ==
    \A t \in own :
        /\ lo[t] \in Nat /\ hi[t] \in Nat /\ lo[t] < hi[t] /\ hi[t] <= top
        /\ \A b \in free : hi[t] <= b.offset \/ End(b) <= lo[t]
Disjoint(own, lo, hi) ==
    \A t, u \in own : u # t => hi[t] <= lo[u] \/ hi[u] <= lo[t]
Covers(own, lo, hi, free, top) ==
    \A x \in 0 .. top - 1 :
        \/ \E b \in free : b.offset <= x /\ x < End(b)
        \/ \E t \in own : lo[t] <= x /\ x < hi[t]

Tiled(chunk, own, lo, hi) ==
    /\ Apart(chunk.free) /\ Within(chunk.free, chunk.max_size)
    /\ Lodged(own, lo, hi, chunk.free, chunk.max_size)
    /\ Disjoint(own, lo, hi)
    /\ Covers(own, lo, hi, chunk.free, chunk.max_size)

(* The tensors that own memory in chunk c, and where it begins and ends.   *)
Owners(c) == {t \in All : In(t, c)}
Los == [t \in All |-> From(t)]
His == [t \in All |-> To(t)]

HashNodes == [n_children : Int, n_views : Int, allocated : BOOLEAN, addr : Addresses]

(* While a graph is planned, the walk is inside it, a tensor that owns     *)
(* memory has been reached and lies in a chunk, and each chunk is divided  *)
(* between its owners and its free blocks.                                 *)
Reached == \A t \in All : Own(t) => t < at.tensor \/ (t = at.tensor /\ at.src # 0)

Planning ==
    /\ graph \in Graphs
    /\ at \in [tensor : Nat \ {0}, src : Nat]
    /\ at.tensor <= graph.leafs => at.src = 0
    /\ hash \in [All -> HashNodes] /\ chunks \in Seq(Chunks)
    /\ Reached
    /\ \A t \in All : Own(t) => hash[t].addr.chunk \in DOMAIN chunks
    /\ \A c \in DOMAIN chunks : Tiled(chunks[c], Owners(c), Los, His)

AllocInv ==
    /\ goal \in {"none", "reserve", "alloc", "ready"}
    /\ goal \in {"reserve", "alloc"} => Planning

-----------------------------------------------------------------------------
(* One chunk.                                                              *)

(* Aligning a size gives a size (aligned_offset).                          *)
LEMMA AlignedType ==
    ASSUME NEW s \in Nat \ {0}
    PROVE  Aligned(s) \in Nat \ {0}
<1> DEFINE q == (s + Alignment - 1) \div Alignment
<1>1. Alignment \in Nat \ {0}
    BY DynTallocrAssumption
<1>2. q \in Nat /\ q >= 1
    BY <1>1, SMT
<1> HIDE DEF q
<1>3. q * Alignment \in Nat /\ q * Alignment >= Alignment
    BY <1>1, <1>2, SMT
<1> QED
    BY <1>1, <1>3 DEF Aligned, q

(* Cutting a tensor's bytes off a free block leaves the chunk divided, the *)
(* tensor being one more owner (ggml_dyn_tallocr_alloc).                   *)
LEMMA TakeTiled ==
    ASSUME NEW chunk \in Chunks, NEW own, NEW lo, NEW hi,
           Tiled(chunk, own, lo, hi),
           NEW b \in chunk.free, NEW size \in Nat \ {0}, size <= b.size,
           NEW n, n \notin own, NEW lo2, NEW hi2,
           \A t \in own : lo2[t] = lo[t] /\ hi2[t] = hi[t],
           lo2[n] = b.offset, hi2[n] = b.offset + size
    PROVE  /\ Take(chunk, b, size) \in Chunks
           /\ Tiled(Take(chunk, b, size), own \cup {n}, lo2, hi2)
<1> DEFINE new == Take(chunk, b, size)
           rest == [offset |-> b.offset + size, size |-> b.size - size]
           top == Larger(chunk.max_size, b.offset + size)
<1>1. /\ chunk.free \subseteq Blocks /\ chunk.max_size \in Nat
      /\ b.offset \in Nat /\ b.size \in Nat
    BY DEF Chunks, Blocks
<1>2. top \in Nat /\ chunk.max_size <= top /\ b.offset + size <= top
    BY <1>1 DEF Larger
<1>2a. top = chunk.max_size \/ top = b.offset + size
    BY DEF Larger
<1>3. new.max_size = top
    BY DEF Take
<1>4. \A a \in new.free :
          (a \in chunk.free /\ a # b) \/ (a = rest /\ b.size # size)
    BY DEF Take
<1>5. b.size # size => rest \in new.free
    BY DEF Take
<1>6. \A a \in chunk.free : a # b => a \in new.free
    BY DEF Take
<1>7. rest.offset = b.offset + size /\ rest.size = b.size - size
    OBVIOUS
<1>7a. rest \in Blocks
    BY <1>1 DEF Blocks
<1>8. new.free \subseteq Blocks
    BY <1>1, <1>4, <1>7a
<1>9. new \in Chunks
    BY <1>8, <1>2, <1>3 DEF Take, Chunks
<1>10. /\ \A a, c \in chunk.free : a # c => End(a) < c.offset \/ End(c) < a.offset
       /\ \A a \in chunk.free : a.size > 0 /\ a.offset <= chunk.max_size
    BY DEF Tiled, Apart, Within
<1>11. \A a \in chunk.free : a.offset \in Nat /\ a.size \in Nat /\ End(a) = a.offset + a.size
    BY <1>1 DEF Blocks, End
<1>12. \A t \in own :
         /\ lo[t] \in Nat /\ hi[t] \in Nat /\ lo[t] < hi[t] /\ hi[t] <= chunk.max_size
         /\ \A a \in chunk.free : hi[t] <= a.offset \/ End(a) <= lo[t]
    BY DEF Tiled, Lodged
<1>13. End(rest) = b.offset + b.size
    BY <1>1, <1>7 DEF End
<1> HIDE DEF new, rest, top
<1>14. Apart(new.free)
    <2>1. \A a \in chunk.free : a # b /\ b.size # size =>
            End(a) < rest.offset \/ End(rest) < a.offset
        BY <1>1, <1>7, <1>10, <1>11, <1>13
    <2> QED
        BY <2>1, <1>4, <1>10 DEF Apart
<1>15. Within(new.free, new.max_size)
    <2>1. b.size # size => rest.size > 0 /\ rest.offset <= top
        BY <1>1, <1>2, <1>7
    <2>2. \A a \in chunk.free : a.size > 0 /\ a.offset <= top
        BY <1>1, <1>2, <1>10, <1>11
    <2> QED
        BY <2>1, <2>2, <1>3, <1>4, <1>8 DEF Within
<1>16. \A t \in own : t # n
    OBVIOUS
<1>17. Lodged(own \cup {n}, lo2, hi2, new.free, new.max_size)
    <2>1. ASSUME NEW t \in own
          PROVE  /\ lo2[t] \in Nat /\ hi2[t] \in Nat /\ lo2[t] < hi2[t] /\ hi2[t] <= top
                 /\ \A a \in new.free : hi2[t] <= a.offset \/ End(a) <= lo2[t]
        <3>1. lo2[t] \in Nat /\ hi2[t] \in Nat /\ lo2[t] < hi2[t] /\ hi2[t] <= top
            BY <1>1, <1>2, <1>12
        <3>2. hi2[t] <= rest.offset \/ End(rest) <= lo2[t]
            BY <1>1, <1>7, <1>11, <1>12, <1>13
        <3> QED
            BY <3>1, <3>2, <1>4, <1>12
    <2>2. lo2[n] \in Nat /\ hi2[n] \in Nat /\ lo2[n] < hi2[n] /\ hi2[n] <= top
        BY <1>1, <1>2
    <2>3. \A a \in chunk.free : a # b => hi2[n] <= a.offset \/ End(a) <= lo2[n]
        BY <1>1, <1>10, <1>11
    <2>4. hi2[n] <= rest.offset
        BY <1>1, <1>7
    <2> QED
        BY <2>1, <2>2, <2>3, <2>4, <1>3, <1>4 DEF Lodged
<1>18. Disjoint(own \cup {n}, lo2, hi2)
    <2>1. \A t \in own : hi2[t] <= lo2[n] \/ hi2[n] <= lo2[t]
        BY <1>1, <1>11, <1>12
    <2>2. \A t, u \in own : u # t => hi2[t] <= lo2[u] \/ hi2[u] <= lo2[t]
        BY DEF Tiled, Disjoint
    <2> QED
        BY <2>1, <2>2 DEF Disjoint
<1>19. Covers(own \cup {n}, lo2, hi2, new.free, new.max_size)
    <2> SUFFICES ASSUME NEW x \in 0 .. top - 1
                 PROVE  \/ \E a \in new.free : a.offset <= x /\ x < End(a)
                        \/ \E t \in own \cup {n} : lo2[t] <= x /\ x < hi2[t]
        BY <1>3 DEF Covers
    <2>1. CASE b.offset <= x /\ x < b.offset + size
        BY <2>1
    <2>2. CASE b.offset + size <= x /\ x < b.offset + b.size
        <3>1. rest \in new.free
            BY <2>2, <1>1, <1>5
        <3> QED
            BY <3>1, <2>2, <1>7, <1>13
    <2>3. CASE ~(b.offset <= x /\ x < b.offset + b.size)
        <3>1. x \in 0 .. chunk.max_size - 1
            BY <2>3, <1>1, <1>2, <1>2a, <1>10
        <3>2. CASE \E a \in chunk.free : a.offset <= x /\ x < End(a)
            BY <3>2, <2>3, <1>6, <1>11
        <3>3. CASE \E t \in own : lo[t] <= x /\ x < hi[t]
            BY <3>3
        <3> QED
            BY <3>1, <3>2, <3>3 DEF Tiled, Covers
    <2> QED
        BY <2>1, <2>2, <2>3, <1>1, <1>2
<1> QED
    BY <1>9, <1>14, <1>15, <1>17, <1>18, <1>19 DEF Tiled, new

(* Giving back what a tensor owns leaves the chunk divided among the       *)
(* others, and free blocks that touch merged (ggml_dyn_tallocr_free_bytes).*)
LEMMA MergeTiled ==
    ASSUME NEW chunk \in Chunks, NEW own, NEW lo, NEW hi,
           Tiled(chunk, own, lo, hi), NEW n \in own,
           NEW size, size = hi[n] - lo[n],
           NEW new, new = [chunk EXCEPT !.free = Merge(@, lo[n], size)]
    PROVE  new \in Chunks /\ Tiled(new, own \ {n}, lo, hi)
<1> DEFINE free == chunk.free
           before == {b \in free : End(b) = lo[n]}
           after == {b \in free : b.offset = lo[n] + size}
           start == IF before = {} THEN lo[n]
                    ELSE (CHOOSE b \in before : TRUE).offset
           end == IF after = {} THEN lo[n] + size
                  ELSE End(CHOOSE b \in after : TRUE)
           merged == [offset |-> start, size |-> end - start]
<1>1. free \subseteq Blocks /\ chunk.max_size \in Nat
    BY DEF Chunks
<1>2. /\ \A a, c \in free : a # c => End(a) < c.offset \/ End(c) < a.offset
      /\ \A a \in free : a.size > 0 /\ a.offset <= chunk.max_size
    BY DEF Tiled, Apart, Within
<1>3. \A a \in free : /\ a.offset \in Nat /\ a.size \in Nat
                      /\ End(a) = a.offset + a.size /\ End(a) \in Nat
                      /\ a.offset < End(a)
    BY <1>1, <1>2 DEF Blocks, End
<1>4. \A t \in own :
         /\ lo[t] \in Nat /\ hi[t] \in Nat /\ lo[t] < hi[t] /\ hi[t] <= chunk.max_size
         /\ \A a \in free : hi[t] <= a.offset \/ End(a) <= lo[t]
    BY DEF Tiled, Lodged
<1>5. lo[n] + size = hi[n]
    BY <1>4
<1>6. \/ before = {} /\ start = lo[n]
      \/ \E b \in free : before = {b} /\ start = b.offset /\ End(b) = lo[n]
    <2>1. CASE before = {}
        BY <2>1
    <2>2. CASE before # {}
        <3>1. PICK b \in before : b = CHOOSE c \in before : TRUE
            BY <2>2
        <3>2. \A c \in before : c = b
            BY <1>2, <1>3
        <3>3. start = b.offset
            BY <2>2, <3>1
        <3> QED
            BY <3>2, <3>3
    <2> QED
        BY <2>1, <2>2
<1>7. \/ after = {} /\ end = hi[n]
      \/ \E b \in free : after = {b} /\ end = End(b) /\ b.offset = hi[n]
    <2>1. CASE after = {}
        BY <2>1, <1>5
    <2>2. CASE after # {}
        <3>1. PICK b \in after : b = CHOOSE c \in after : TRUE
            BY <2>2
        <3>2. \A c \in after : c = b
            BY <1>2, <1>3
        <3>3. end = End(b)
            BY <2>2, <3>1
        <3> QED
            BY <3>2, <3>3, <1>5
    <2> QED
        BY <2>1, <2>2
<1>8. /\ new.free = (free \ (before \cup after)) \cup {merged}
      /\ new.max_size = chunk.max_size
      /\ new = [free |-> new.free, max_size |-> chunk.max_size]
    BY DEF Merge, Chunks
<1>9. merged.offset = start /\ merged.size = end - start
    OBVIOUS
<1>10. \A a \in free : /\ End(a) = lo[n] <=> a \in before
                       /\ a.offset = hi[n] <=> a \in after
    BY <1>5
<1> HIDE DEF before, after, start, end, merged
<1>11. /\ start \in Nat /\ end \in Nat /\ start <= lo[n] /\ hi[n] <= end
       /\ start < end /\ start <= chunk.max_size
    <2>1. lo[n] \in Nat /\ hi[n] \in Nat /\ lo[n] < hi[n] /\ hi[n] <= chunk.max_size
        BY <1>4
    <2>2. start \in Nat /\ start <= lo[n]
        BY <2>1, <1>3, <1>6
    <2>3. end \in Nat /\ hi[n] <= end
        BY <2>1, <1>3, <1>7
    <2> QED
        BY <2>1, <2>2, <2>3, <1>1
<1>12. merged \in Blocks /\ merged.size > 0 /\ End(merged) = end
    <2>1. merged = [offset |-> start, size |-> end - start]
        BY DEF merged
    <2>2. end - start \in Nat /\ end - start > 0
        BY <1>11
    <2> QED
        BY <2>1, <2>2, <1>9, <1>11 DEF Blocks, End
<1>13. \A a \in new.free :
          a = merged \/ (a \in free /\ a \notin before /\ a \notin after)
    BY <1>8
<1>14. new \in Chunks
    BY <1>1, <1>8, <1>12, <1>13 DEF Chunks
(* Nothing else lies next to the merged block, or in it.                   *)
<1>15. \A a \in free : a \notin before /\ a \notin after =>
          End(a) < start \/ end < a.offset
    <2> SUFFICES ASSUME NEW a \in free, a \notin before, a \notin after
                 PROVE  End(a) < start \/ end < a.offset
        OBVIOUS
    <2>1. hi[n] < a.offset \/ End(a) < lo[n]
        <3>1. hi[n] <= a.offset \/ End(a) <= lo[n]
            BY <1>4
        <3>2. hi[n] # a.offset /\ End(a) # lo[n]
            BY <1>10
        <3> QED
            BY <3>1, <3>2, <1>3, <1>4
    <2>2. start = lo[n] \/ End(a) < start \/ lo[n] < a.offset
        <3>1. CASE before = {} /\ start = lo[n]
            BY <3>1
        <3>2. ASSUME NEW b \in free, before = {b}, start = b.offset, End(b) = lo[n]
              PROVE  End(a) < start \/ lo[n] < a.offset
            <4>1. a # b
                BY <3>2
            <4> QED
                BY <4>1, <3>2, <1>2
        <3> QED
            BY <3>1, <3>2, <1>6
    <2>3. end = hi[n] \/ end < a.offset \/ End(a) < hi[n]
        <3>1. CASE after = {} /\ end = hi[n]
            BY <3>1
        <3>2. ASSUME NEW b \in free, after = {b}, end = End(b), b.offset = hi[n]
              PROVE  end < a.offset \/ End(a) < hi[n]
            <4>1. a # b
                BY <3>2
            <4> QED
                BY <4>1, <3>2, <1>2
        <3> QED
            BY <3>1, <3>2, <1>7
    <2> QED
        BY <2>1, <2>2, <2>3, <1>3, <1>4, <1>11
<1>16. Apart(new.free)
    <2>1. \A a \in new.free : a # merged => End(a) < start \/ end < a.offset
        BY <1>13, <1>15
    <2>2. \A a, c \in new.free : a # merged /\ c # merged /\ a # c =>
             End(a) < c.offset \/ End(c) < a.offset
        BY <1>2, <1>13
    <2> QED
        BY <2>1, <2>2, <1>9, <1>12 DEF Apart
<1>17. Within(new.free, new.max_size)
    BY <1>1, <1>2, <1>8, <1>9, <1>11, <1>12, <1>13 DEF Within
<1>18. Lodged(own \ {n}, lo, hi, new.free, new.max_size)
    <2>1. ASSUME NEW t \in own, t # n
          PROVE  hi[t] <= start \/ end <= lo[t]
        <3>1. hi[t] <= lo[n] \/ hi[n] <= lo[t]
            BY <2>1 DEF Tiled, Disjoint
        <3>2. hi[t] <= start \/ lo[n] <= lo[t]
            <4>1. CASE start = lo[n]
                BY <4>1, <3>1, <1>4
            <4>2. ASSUME NEW b \in free, start = b.offset, End(b) = lo[n]
                  PROVE  hi[t] <= start \/ lo[n] <= lo[t]
                BY <4>2, <1>4
            <4> QED
                BY <4>1, <4>2, <1>6
        <3>3. end <= lo[t] \/ hi[t] <= hi[n]
            <4>1. CASE end = hi[n]
                BY <4>1, <3>1, <1>4
            <4>2. ASSUME NEW b \in free, end = End(b), b.offset = hi[n]
                  PROVE  end <= lo[t] \/ hi[t] <= hi[n]
                BY <4>2, <1>4
            <4> QED
                BY <4>1, <4>2, <1>7
        <3> QED
            BY <3>1, <3>2, <3>3, <1>4, <1>11
    <2>2. \A t \in own \ {n} : hi[t] <= merged.offset \/ End(merged) <= lo[t]
        BY <2>1, <1>9, <1>12
    <2> QED
        BY <2>2, <1>4, <1>8, <1>13 DEF Lodged
<1>19. Disjoint(own \ {n}, lo, hi)
    BY DEF Tiled, Disjoint
<1>20. Covers(own \ {n}, lo, hi, new.free, new.max_size)
    <2> SUFFICES ASSUME NEW x \in 0 .. chunk.max_size - 1
                 PROVE  \/ \E a \in new.free : a.offset <= x /\ x < End(a)
                        \/ \E t \in own \ {n} : lo[t] <= x /\ x < hi[t]
        BY <1>8 DEF Covers
    <2>0. x \in Nat
        BY <1>1
    <2>1. CASE start <= x /\ x < end
        BY <2>1, <1>8, <1>9, <1>12
    <2>2. CASE ~(start <= x /\ x < end)
        <3>1. ASSUME NEW a \in free, a.offset <= x, x < End(a)
              PROVE  a \in new.free
            <4>1. a \notin before
                <5>1. a \in before => start = a.offset /\ End(a) = lo[n]
                    BY <1>6, <1>10
                <5> QED
                    BY <5>1, <3>1, <2>0, <2>2, <1>3, <1>4, <1>11
            <4>2. a \notin after
                <5>1. a \in after => end = End(a) /\ a.offset = hi[n]
                    BY <1>7, <1>10
                <5> QED
                    BY <5>1, <3>1, <2>0, <2>2, <1>3, <1>4, <1>11
            <4> QED
                BY <4>1, <4>2, <1>8
        <3>2. ~(lo[n] <= x /\ x < hi[n])
            BY <2>0, <2>2, <1>4, <1>11
        <3> QED
            BY <3>1, <3>2 DEF Tiled, Covers
    <2> QED
        BY <2>1, <2>2
<1> QED
    BY <1>14, <1>16, <1>17, <1>18, <1>19, <1>20 DEF Tiled

(* A tensor that takes over the memory of another leaves the chunk divided *)
(* as it was.                                                              *)
LEMMA RenameTiled ==
    ASSUME NEW chunk \in Chunks, NEW own, NEW lo, NEW hi,
           Tiled(chunk, own, lo, hi), NEW p \in own, NEW n, n \notin own,
           NEW lo2, NEW hi2,
           \A t \in own \ {p} : lo2[t] = lo[t] /\ hi2[t] = hi[t],
           lo2[n] = lo[p], hi2[n] = hi[p]
    PROVE  Tiled(chunk, (own \ {p}) \cup {n}, lo2, hi2)
<1> DEFINE new == (own \ {p}) \cup {n}
           was(t) == IF t = n THEN p ELSE t
<1>1. \A t \in new : was(t) \in own /\ lo2[t] = lo[was(t)] /\ hi2[t] = hi[was(t)]
    OBVIOUS
<1>2. \A t, u \in new : t # u => was(t) # was(u)
    OBVIOUS
<1>3. \A t \in own : \E u \in new : was(u) = t
    OBVIOUS
<1> HIDE DEF new, was
<1>4. Lodged(new, lo2, hi2, chunk.free, chunk.max_size)
    BY <1>1 DEF Tiled, Lodged
<1>5. Disjoint(new, lo2, hi2)
    BY <1>1, <1>2 DEF Tiled, Disjoint
<1>6. Covers(new, lo2, hi2, chunk.free, chunk.max_size)
    BY <1>1, <1>3 DEF Tiled, Covers
<1> QED
    BY <1>4, <1>5, <1>6 DEF Tiled, new

(* Only where the owners lie matters.                                      *)
LEMMA SameTiled ==
    ASSUME NEW chunk, NEW own, NEW lo, NEW hi, Tiled(chunk, own, lo, hi),
           NEW lo2, NEW hi2, \A t \in own : lo2[t] = lo[t] /\ hi2[t] = hi[t]
    PROVE  Tiled(chunk, own, lo2, hi2)
BY DEF Tiled, Lodged, Disjoint, Covers

(* Where bytes are placed there is room for them: the block belongs to a   *)
(* chunk there was, or to a new one behind it (ggml_dyn_tallocr_alloc).    *)
LEMMA PlaceGives ==
    ASSUME NEW cs \in Seq(Chunks), NEW size \in Nat \ {0}, size <= Endless,
           NEW w, w = Place(cs, size)
    PROVE  /\ w.chunks \in Seq(Chunks) /\ w.chunk \in DOMAIN w.chunks
           /\ w.block \in w.chunks[w.chunk].free /\ w.block.size >= size
           /\ \/ w.chunks = cs
              \/ w.chunks = Append(cs, NewChunk(cs, size)) /\ w.chunk = Len(cs) + 1
<1> DEFINE fits == {v \in Free(cs) : BestFit(v[1], v[2], cs, size)}
           lasts == {v \in Free(cs) : LastFit(v[1], v[2], cs, size)}
           new == NewChunk(cs, size)
           here(v) == [chunks |-> cs, chunk |-> v[1], block |-> v[2]]
           block == [offset |-> 0, size |-> IF Len(cs) = MaxChunks - 1
                     THEN Endless ELSE Larger(size, MaxChunkSize)]
<1>1. \A v \in Free(cs) : /\ v[1] \in DOMAIN cs /\ v[2] \in cs[v[1]].free
    BY DEF Free
<1>2. \A v \in fits : v[2].size >= size
    BY DEF BestFit, Fitting
<1>3. \A v \in lasts : v[2].size >= size
    BY DEF LastFit
<1>4. /\ new.free = {block} /\ new.max_size = 0 /\ block \in Blocks /\ new \in Chunks
      /\ block.size >= size
    <2>1. block.size \in Nat /\ block.size >= size
        BY DynTallocrAssumption DEF Larger
    <2>2. block \in Blocks
        BY <2>1 DEF Blocks
    <2>3. new = [free |-> {block}, max_size |-> 0]
        BY DEF NewChunk
    <2> QED
        BY <2>1, <2>2, <2>3 DEF Chunks
<1>5. CASE fits # {}
    <2>1. PICK v \in fits : v = CHOOSE u \in fits : TRUE
        BY <1>5
    <2>2. w = here(v)
        BY <1>5, <2>1 DEF Place
    <2> QED
        BY <2>2, <1>1, <1>2
<1>6. CASE fits = {} /\ lasts # {}
    <2>1. PICK v \in lasts : v = CHOOSE u \in lasts : TRUE
        BY <1>6
    <2>2. w = here(v)
        BY <1>6, <2>1 DEF Place
    <2> QED
        BY <2>2, <1>1, <1>3
<1>7. CASE fits = {} /\ lasts = {}
    <2>1. w = [chunks |-> Append(cs, new), chunk |-> Len(cs) + 1,
               block |-> CHOOSE b \in new.free : TRUE]
        BY <1>7 DEF Place
    <2>2. (CHOOSE b \in new.free : TRUE) = block
        BY <1>4
    <2> HIDE DEF new, block
    <2>3. /\ Append(cs, new) \in Seq(Chunks)
          /\ DOMAIN Append(cs, new) = 1 .. Len(cs) + 1
          /\ Append(cs, new)[Len(cs) + 1] = new
        BY <1>4, AppendProperties
    <2>4. Len(cs) + 1 \in 1 .. Len(cs) + 1
        BY LenProperties
    <2> QED
        BY <2>1, <2>2, <2>3, <2>4, <1>4 DEF new
<1> QED
    BY <1>5, <1>6, <1>7

-----------------------------------------------------------------------------
(* The steps of the walk.                                                  *)

LEMMA PlanningFacts ==
    ASSUME Planning
    PROVE  /\ All = 1 .. Len(graph.tensors) /\ Len(graph.tensors) \in Nat
           /\ graph.leafs \in Nat
           /\ \A t \in All :
                 /\ T(t) \in Tensors /\ T(t).size \in Nat \ {0}
                 /\ Aligned(T(t).size) \in Nat \ {0} /\ Aligned(T(t).size) <= Endless
                 /\ T(t).view \in Nat /\ (T(t).view # 0 => T(t).view \in All)
                 /\ DOMAIN T(t).src = 1 .. Len(T(t).src) /\ Len(T(t).src) \in Nat
                 /\ \A j \in DOMAIN T(t).src : T(t).src[j] \in All /\ T(t).src[j] < t
                 /\ hash[t] \in HashNodes /\ hash[t].allocated \in BOOLEAN
                 /\ From(t) \in Nat /\ To(t) \in Nat /\ From(t) < To(t)
                 /\ Los[t] = From(t) /\ His[t] = To(t)
                 /\ (Own(t) <=> hash[t].allocated)
<1>1. WellFormed(graph) /\ graph.tensors \in Seq(Tensors)
    BY GraphAllocAssumption DEF Planning, WellFormed
<1>2. All = 1 .. Len(graph.tensors) /\ Len(graph.tensors) \in Nat
    BY <1>1, LenProperties DEF All
<1>3. graph.leafs \in Nat
    BY <1>1, <1>2 DEF WellFormed
<1>4. ASSUME NEW t \in All
      PROVE  /\ T(t) \in Tensors /\ T(t).size \in Nat \ {0}
             /\ T(t).view \in Nat /\ T(t).src \in Seq(Nat \ {0})
    <2>1. T(t) \in Tensors
        BY <1>1, ElementOfSeq DEF T, All
    <2> QED
        BY <2>1 DEF Tensors
<1>5. ASSUME NEW t \in All
      PROVE  /\ T(t).view # 0 => T(t).view \in All
             /\ DOMAIN T(t).src = 1 .. Len(T(t).src) /\ Len(T(t).src) \in Nat
             /\ \A j \in DOMAIN T(t).src : T(t).src[j] \in All /\ T(t).src[j] < t
             /\ Aligned(T(t).size) <= Endless
    <2>1. /\ T(t).view < t /\ \A j \in DOMAIN T(t).src : T(t).src[j] < t
          /\ Aligned(T(t).size) <= Endless
        BY <1>1 DEF WellFormed, T, All
    <2>2. DOMAIN T(t).src = 1 .. Len(T(t).src) /\ Len(T(t).src) \in Nat
        BY <1>4, LenProperties
    <2>3. \A j \in DOMAIN T(t).src : T(t).src[j] \in Nat \ {0}
        BY <1>4, ElementOfSeq
    <2>4. t \in Nat /\ t <= Len(graph.tensors)
        BY <1>2
    <2> QED
        BY <2>1, <2>2, <2>3, <2>4, <1>2, <1>4, SMTT(60)
<1>6. ASSUME NEW t \in All
      PROVE  /\ Aligned(T(t).size) \in Nat \ {0}
             /\ hash[t] \in HashNodes /\ hash[t].allocated \in BOOLEAN
             /\ From(t) \in Nat /\ To(t) \in Nat /\ From(t) < To(t)
             /\ Los[t] = From(t) /\ His[t] = To(t)
             /\ (Own(t) <=> hash[t].allocated)
    <2>1. Aligned(T(t).size) \in Nat \ {0}
        BY <1>4, AlignedType
    <2>2. hash[t] \in HashNodes /\ DOMAIN hash = All
        BY DEF Planning
    <2>3. hash[t].addr.offset \in Nat /\ hash[t].allocated \in BOOLEAN
        BY <2>2 DEF HashNodes, Addresses
    <2>4. From(t) \in Nat /\ To(t) \in Nat /\ From(t) < To(t)
        BY <2>1, <2>3 DEF From, To
    <2> QED
        BY <2>1, <2>2, <2>3, <2>4 DEF Los, His, Own
<1> QED
    BY <1>2, <1>3, <1>4, <1>5, <1>6, SMTT(60)

(* The numbers among these facts: tensors and operands are numbered, and   *)
(* an operand comes before the tensor it is an operand of.                 *)
LEMMA TensorNumbers ==
    ASSUME Planning
    PROVE  /\ graph.leafs \in Nat
           /\ \A t \in All : t \in Nat \ {0}
           /\ \A t \in All : \A j \in DOMAIN T(t).src :
                 j \in Nat \ {0} /\ T(t).src[j] \in All /\ T(t).src[j] < t
BY PlanningFacts, SMTT(60)

(* Where tensors lie does not change unless the graph or addresses do.     *)
LEMMA SamePlaces ==
    ASSUME Planning, graph' = graph, hash' \in [All -> HashNodes],
           \A t \in All : hash'[t].addr = hash[t].addr
    PROVE  /\ All' = All /\ Los' = Los /\ His' = His
           /\ \A t \in All : T(t)' = T(t) /\ (Own(t)' <=> hash'[t].allocated)
<1>1. All' = All /\ \A t \in All : T(t)' = T(t)
    BY DEF All, T
<1>2. \A t \in All : From(t)' = From(t)
    BY DEF From
<1>3. \A t \in All : To(t)' = To(t)
    BY <1>1, <1>2 DEF To
<1>4. Los' = Los
    BY <1>1, <1>2 DEF Los
<1>5. His' = His
    BY <1>1, <1>3 DEF His
<1>6. \A t \in All : Own(t)' <=> hash'[t].allocated
    BY DEF Own
<1> QED
    BY <1>1, <1>4, <1>5, <1>6

(* A step that changes no more than counts and how far the walk is.        *)
LEMMA WalkedOn ==
    ASSUME Planning, graph' = graph, chunks' = chunks,
           hash' \in [All -> HashNodes],
           \A t \in All : /\ hash'[t].addr = hash[t].addr
                          /\ hash'[t].allocated = hash[t].allocated,
           at' \in [tensor : Nat \ {0}, src : Nat],
           at'.tensor <= graph.leafs => at'.src = 0,
           \A t \in All : t < at.tensor \/ (t = at.tensor /\ at.src # 0) =>
                          t < at'.tensor \/ (t = at'.tensor /\ at'.src # 0)
    PROVE  Planning'
<1>1. /\ All' = All /\ Los' = Los /\ His' = His
      /\ \A t \in All : T(t)' = T(t) /\ (Own(t)' <=> hash'[t].allocated)
    BY SamePlaces
<1>2. \A t \in All : Own(t)' <=> Own(t)
    <2>1. \A t \in All : hash[t].allocated \in BOOLEAN /\ (Own(t) <=> hash[t].allocated)
        BY PlanningFacts
    <2> QED
        BY <2>1, <1>1
<1>3. \A c : Owners(c)' = Owners(c)
    <2>1. \A c : \A t \in All : In(t, c)' <=> In(t, c)
        BY <1>2 DEF In
    <2> QED
        BY <2>1, <1>1 DEF Owners
<1>4. \A c \in DOMAIN chunks' : Tiled(chunks[c], Owners(c), Los, His)'
    <2>1. \A c \in DOMAIN chunks : Tiled(chunks[c], Owners(c), Los, His)
        BY DEF Planning
    <2> QED
        BY <2>1, <1>1, <1>3
<1>5. Reached'
    BY <1>1, <1>2 DEF Reached, Planning
<1>6. \A t \in All' : Own(t)' => hash'[t].addr.chunk \in DOMAIN chunks'
    BY <1>1, <1>2, SMTT(60) DEF Planning
<1>7. /\ graph' \in Graphs /\ hash' \in [All' -> HashNodes] /\ chunks' \in Seq(Chunks)
      /\ at'.tensor <= graph'.leafs => at'.src = 0
    BY <1>1 DEF Planning
<1> QED
    BY <1>4, <1>5, <1>6, <1>7 DEF Planning

(* A tensor's memory is given back (ggml_gallocr_free_node).               *)
LEMMA NodeFreed ==
    ASSUME Planning, graph' = graph, NEW p \in All, Own(p),
           hash' \in [All -> HashNodes],
           \A t \in All : /\ hash'[t].addr = hash[t].addr
                          /\ hash'[t].allocated = (t # p /\ hash[t].allocated),
           chunks' = FreeBytes(chunks, hash[p].addr, T(p).size),
           at' = [at EXCEPT !.src = @ + 1], at.tensor > graph.leafs
    PROVE  Planning'
<1> DEFINE k == hash[p].addr.chunk
           new == [chunks[k] EXCEPT !.free = Merge(@, Los[p], Aligned(T(p).size))]
<1>1. /\ All' = All /\ Los' = Los /\ His' = His
      /\ \A t \in All : T(t)' = T(t) /\ (Own(t)' <=> hash'[t].allocated)
    BY SamePlaces
<1>2. \A t \in All : Own(t)' <=> t # p /\ Own(t)
    BY <1>1, PlanningFacts
<1>3. \A c : Owners(c)' = Owners(c) \ {p}
    <2>1. \A c : \A t \in All : In(t, c)' <=> t # p /\ In(t, c)
        BY <1>2 DEF In
    <2> QED
        BY <2>1, <1>1 DEF Owners
<1>4. /\ k \in DOMAIN chunks /\ chunks \in Seq(Chunks) /\ chunks[k] \in Chunks
      /\ Tiled(chunks[k], Owners(k), Los, His)
    BY ElementOfSeq DEF Planning
<1>5. p \in Owners(k)
    BY DEF Owners, In
<1>6. Aligned(T(p).size) = His[p] - Los[p]
    BY PlanningFacts DEF To
<1>7. new \in Chunks /\ Tiled(new, Owners(k) \ {p}, Los, His)
    <2> HIDE DEF k
    <2>1. new = [chunks[k] EXCEPT !.free = Merge(chunks[k].free, Los[p], Aligned(T(p).size))]
        OBVIOUS
    <2> HIDE DEF new
    <2> QED
        BY <2>1, <1>4, <1>5, <1>6, MergeTiled, SMTT(60)
<1>8. chunks' = [chunks EXCEPT ![k] = new]
    BY <1>4, PlanningFacts, ZenonT(60) DEF FreeBytes, From
<1>9. /\ chunks' \in Seq(Chunks) /\ DOMAIN chunks' = DOMAIN chunks
      /\ chunks'[k] = new /\ \A c \in DOMAIN chunks \ {k} : chunks'[c] = chunks[c]
    <2> HIDE DEF k, new
    <2>1. chunks' \in Seq(Chunks)
        BY <1>4, <1>7, <1>8, ExceptSeq
    <2> QED
        BY <2>1, <1>4, <1>8
<1>10. \A c \in DOMAIN chunks' : Tiled(chunks[c], Owners(c), Los, His)'
    <2> SUFFICES ASSUME NEW c \in DOMAIN chunks'
                 PROVE  Tiled(chunks[c], Owners(c), Los, His)'
        OBVIOUS
    <2> HIDE DEF new
    <2>1. CASE c = k
        BY <2>1, <1>1, <1>3, <1>7, <1>9
    <2>2. CASE c # k
        <3>1. p \notin Owners(c)
            BY <2>2 DEF Owners, In
        <3>2. Owners(c)' = Owners(c)
            BY <3>1, <1>3
        <3>3. Tiled(chunks[c], Owners(c), Los, His)
            BY <1>9 DEF Planning
        <3> QED
            BY <2>2, <3>2, <3>3, <1>1, <1>9
    <2> QED
        BY <2>1, <2>2
<1>11. at' = [tensor |-> at.tensor, src |-> at.src + 1] /\ at.tensor \in Nat \ {0} /\ at.src \in Nat
    BY DEF Planning
<1>12. Reached'
    BY <1>1, <1>2, <1>11 DEF Reached, Planning
<1>13. \A t \in All' : Own(t)' => hash'[t].addr.chunk \in DOMAIN chunks'
    BY <1>1, <1>2, <1>9 DEF Planning
<1>14. /\ graph' \in Graphs /\ hash' \in [All' -> HashNodes]
       /\ at' \in [tensor : Nat \ {0}, src : Nat]
       /\ at'.tensor <= graph'.leafs => at'.src = 0
    <2>1. graph.leafs \in Nat
        BY PlanningFacts
    <2> QED
        BY <2>1, <1>1, <1>11 DEF Planning
<1> QED
    BY <1>9, <1>10, <1>12, <1>13, <1>14 DEF Planning

(* A set of numbers that is not empty has a least one.                     *)
LEMMA LeastOf ==
    ASSUME NEW S \in SUBSET Nat, S # {}
    PROVE  \E x \in S : \A y \in S : x <= y
<1> DEFINE less == {ss \in Nat \X Nat : ss[1] < ss[2]}
<1>1. IsWellFoundedOn(less, Nat)
    BY NatLessThanWellFounded, Zenon DEF OpToRel
<1> HIDE DEF less
<1>2. PICK x \in S : \A y \in S : ~(<<y, x>> \in less)
    BY <1>1, WFMin
<1>3. \A y \in S : ~(y < x)
    BY <1>2 DEF less
<1> QED
    BY <1>3

(* The walk goes on behind the tensor it has come to.                      *)
Onward ==
    /\ Walking /\ graph' = graph /\ at.src = 0
    /\ \/ at.tensor <= graph.leafs /\ at' = [at EXCEPT !.tensor = @ + 1]
       \/ at.tensor > graph.leafs /\ at' = [at EXCEPT !.src = 1]

LEMMA OnwardFacts ==
    ASSUME Planning, Onward
    PROVE  /\ at.tensor \in All /\ ~Own(at.tensor)
           /\ at' \in [tensor : Nat \ {0}, src : Nat]
           /\ at'.tensor <= graph'.leafs => at'.src = 0
           /\ \A t \in All : t <= at.tensor =>
                    t < at'.tensor \/ (t = at'.tensor /\ at'.src # 0)
           /\ \A t \in All : Own(t) => t < at.tensor
<1>1. /\ All = 1 .. Len(graph.tensors) /\ Len(graph.tensors) \in Nat
      /\ graph.leafs \in Nat
    BY PlanningFacts
<1>2. at \in [tensor : Nat \ {0}, src : Nat]
    BY DEF Planning
<1>3. at.tensor \in All
    BY <1>1, <1>2 DEF Onward, Walking
<1>4. \A t \in All : Own(t) => t < at.tensor
    BY DEF Planning, Reached, Onward
<1>5. ~Own(at.tensor)
    BY <1>1, <1>3, <1>4
<1>6. CASE at.tensor <= graph.leafs /\ at' = [at EXCEPT !.tensor = @ + 1]
    <2>1. at' = [tensor |-> at.tensor + 1, src |-> 0]
        BY <1>2, <1>6 DEF Onward
    <2> QED
        BY <2>1, <1>1, <1>2, <1>3, <1>4, <1>5
<1>7. CASE at.tensor > graph.leafs /\ at' = [at EXCEPT !.src = 1]
    <2>1. at' = [tensor |-> at.tensor, src |-> 1]
        BY <1>2, <1>7
    <2>2. graph' = graph
        BY SMTT(60) DEF Onward
    <2> QED
        BY <2>1, <2>2, <1>1, <1>2, <1>3, <1>4, <1>5, <1>7
<1> QED
    BY <1>6, <1>7 DEF Onward

(* The node n is written over its operand p.                               *)
Overwrites(n, p) ==
    hash' = [hash EXCEPT ![n].allocated = TRUE, ![n].addr = hash[p].addr,
                         ![p].allocated = FALSE]

(* A tensor is written over an operand nobody else needs.                  *)
LEMMA TakenOver ==
    ASSUME Planning, Onward, NEW n, n = at.tensor,
           NEW p \in All, Own(p), p # n, T(p).size = T(n).size,
           NEW k, k = hash[p].addr.chunk,
           Overwrites(n, p), chunks' = chunks
    PROVE  Planning'
<1>1. n \in All /\ ~Own(n)
    BY OnwardFacts
<1>2. /\ hash \in [All -> HashNodes] /\ hash[p] \in HashNodes /\ hash[n] \in HashNodes
      /\ hash[p].addr \in Addresses
    BY <1>1 DEF Planning, HashNodes
<1>3. /\ hash' \in [All -> HashNodes]
      /\ hash'[n].allocated = TRUE /\ hash'[n].addr = hash[p].addr
      /\ hash'[p].allocated = FALSE /\ hash'[p].addr = hash[p].addr
      /\ \A t \in All \ {n, p} : hash'[t] = hash[t]
    <2>1. hash' = [t \in All |->
                     IF t = n THEN [hash[n] EXCEPT !.allocated = TRUE, !.addr = hash[p].addr]
                     ELSE IF t = p THEN [hash[p] EXCEPT !.allocated = FALSE]
                     ELSE hash[t]]
        BY <1>1, <1>2 DEF Overwrites
    <2>2. /\ [hash[n] EXCEPT !.allocated = TRUE, !.addr = hash[p].addr] \in HashNodes
          /\ [hash[p] EXCEPT !.allocated = FALSE] \in HashNodes
        BY <1>2 DEF HashNodes
    <2>3. /\ hash'[n] = [hash[n] EXCEPT !.allocated = TRUE, !.addr = hash[p].addr]
          /\ hash'[p] = [hash[p] EXCEPT !.allocated = FALSE]
        BY <2>1, <1>1
    <2>4. \A h \in HashNodes :
             /\ [h EXCEPT !.allocated = FALSE].allocated = FALSE
             /\ [h EXCEPT !.allocated = FALSE].addr = h.addr
        BY DEF HashNodes
    <2>5. hash' \in [All -> HashNodes]
        BY <1>2, <2>1, <2>2
    <2>6. \A t \in All \ {n, p} : hash'[t] = hash[t]
        BY <2>1
    <2>7. hash'[n].allocated = TRUE /\ hash'[n].addr = hash[p].addr
        <3>1. /\ [hash[n] EXCEPT !.allocated = TRUE, !.addr = hash[p].addr].allocated = TRUE
              /\ [hash[n] EXCEPT !.allocated = TRUE, !.addr = hash[p].addr].addr = hash[p].addr
            BY <1>2 DEF HashNodes
        <3> QED
            BY <2>3, <3>1
    <2>8. hash'[p].allocated = FALSE /\ hash'[p].addr = hash[p].addr
        BY <1>2, <2>3, <2>4, ZenonT(60)
    <2> QED
        BY <2>5, <2>6, <2>7, <2>8
<1>4. All' = All /\ \A t \in All : T(t)' = T(t)
    BY DEF All, T, Onward
<1>5. \A t \in All \ {n} : From(t)' = From(t) /\ To(t)' = To(t)
    BY <1>3, <1>4 DEF From, To
<1>6. From(n)' = From(p) /\ To(n)' = To(p)
    BY <1>1, <1>3, <1>4 DEF From, To
<1>7. /\ \A t \in All \ {n} : Los'[t] = Los[t] /\ His'[t] = His[t]
      /\ Los'[n] = Los[p] /\ His'[n] = His[p]
    BY <1>1, <1>4, <1>5, <1>6 DEF Los, His
<1>8. \A t \in All : Own(t)' <=> (t = n \/ (t # p /\ Own(t)))
    <2>1. \A t \in All : (Own(t) <=> hash[t].allocated) /\ (Own(t)' <=> hash'[t].allocated)
        BY <1>2, <1>3 DEF Own
    <2>2. ~hash[n].allocated /\ p # n
        BY <1>1, <2>1, SMTT(60)
    <2> QED
        BY <2>1, <2>2, <1>1, <1>3
<1>9. /\ \A t \in All \ {n} : hash'[t].addr = hash[t].addr
      /\ hash'[n].addr.chunk = k
    BY <1>1, <1>3
<1>10. \A c : Owners(c)' = IF c = k THEN (Owners(c) \ {p}) \cup {n} ELSE Owners(c)
    <2>1. \A c : \A t \in All :
             In(t, c)' <=> (t = n /\ c = k) \/ (t # p /\ In(t, c))
        BY <1>1, <1>8, <1>9 DEF In
    <2>2. \A c : c # k => p \notin Owners(c)
        BY DEF Owners, In
    <2> QED
        BY <2>1, <2>2, <1>1, <1>4 DEF Owners
<1>11. \A c : n \notin Owners(c)
    BY <1>1 DEF Owners, In
<1>12. p \in Owners(k) /\ k \in DOMAIN chunks /\ chunks \in Seq(Chunks) /\ DOMAIN chunks' = DOMAIN chunks
    BY DEF Owners, In, Planning
<1>13. \A c \in DOMAIN chunks' : Tiled(chunks[c], Owners(c), Los, His)'
    <2> SUFFICES ASSUME NEW c \in DOMAIN chunks
                 PROVE  Tiled(chunks[c], Owners(c)', Los', His')
        BY <1>12
    <2>1. Tiled(chunks[c], Owners(c), Los, His) /\ chunks[c] \in Chunks
        BY <1>12, ElementOfSeq DEF Planning
    <2>2. \A t \in Owners(c) : t \in All \ {n}
        BY <1>11 DEF Owners
    <2>3. CASE c = k
        <3>1. p \in Owners(c) /\ n \notin Owners(c)
            BY <2>3, <1>11, <1>12
        <3>2. \A t \in Owners(c) \ {p} : Los'[t] = Los[t] /\ His'[t] = His[t]
            BY <2>2, <1>7
        <3>3. Tiled(chunks[c], (Owners(c) \ {p}) \cup {n}, Los', His')
            <4>1. Los'[n] = Los[p] /\ His'[n] = His[p]
                BY <1>7
            <4> DEFINE own == Owners(c)
                       old == chunks[c]
                       lo == Los
                       hi == His
                       lo2 == Los'
                       hi2 == His'
            <4>2. /\ old \in Chunks /\ Tiled(old, own, lo, hi) /\ p \in own /\ n \notin own
                  /\ \A t \in own \ {p} : lo2[t] = lo[t] /\ hi2[t] = hi[t]
                  /\ lo2[n] = lo[p] /\ hi2[n] = hi[p]
                BY ONLY <2>1, <3>1, <3>2, <4>1, ZenonT(60)
            <4> HIDE DEF own, old, lo, hi, lo2, hi2
            <4>3. Tiled(old, (own \ {p}) \cup {n}, lo2, hi2)
                BY ONLY <4>2, RenameTiled, SMTT(60)
            <4> QED
                BY ONLY <4>3, ZenonT(60) DEF own, old, lo2, hi2
        <3> QED
            BY <2>3, <3>3, <1>10
    <2>4. CASE c # k
        BY <2>1, <2>2, <2>4, <1>7, <1>10, SameTiled
    <2> QED
        BY <2>3, <2>4
<1>14. Reached'
    <2>1. \A t \in All : t \in Nat
        BY PlanningFacts
    <2>2. \A t \in All : Own(t)' => t <= at.tensor
        BY <2>1, <1>1, <1>8, OnwardFacts
    <2> QED
        BY <2>2, <1>4, OnwardFacts DEF Reached
<1>15. \A t \in All' : Own(t)' => hash'[t].addr.chunk \in DOMAIN chunks'
    BY <1>4, <1>8, <1>9, <1>12, ZenonT(60) DEF Planning
<1>16. graph' \in Graphs
    BY DEF Planning, Onward
<1> QED
    BY <1>3, <1>4, <1>12, <1>13, <1>14, <1>15, <1>16, OnwardFacts DEF Planning

(* A function at which one value has changed.                              *)
LEMMA Updated ==
    ASSUME NEW D, NEW S, NEW f \in [D -> S], NEW d \in D, NEW e \in S,
           NEW g, g = [f EXCEPT ![d] = e]
    PROVE  g \in [D -> S] /\ g[d] = e /\ \A x \in D \ {d} : g[x] = f[x]
OBVIOUS

(* A chunk that is new is one free block, and nobody's.                    *)
LEMMA NewChunkTiled ==
    ASSUME NEW cs, Len(cs) \in Nat, NEW size \in Nat \ {0}, NEW lo, NEW hi, size <= Endless
    PROVE  NewChunk(cs, size) \in Chunks /\ Tiled(NewChunk(cs, size), {}, lo, hi)
<1> DEFINE block == [offset |-> 0, size |-> IF Len(cs) = MaxChunks - 1
                     THEN Endless ELSE Larger(size, MaxChunkSize)]
<1>1. block.size \in Nat /\ block.size > 0
    BY DynTallocrAssumption DEF Larger
<1>2. block \in Blocks
    BY <1>1 DEF Blocks
<1>3. NewChunk(cs, size) = [free |-> {block}, max_size |-> 0] /\ block.offset = 0
    BY DEF NewChunk
<1> HIDE DEF block
<1> QED
    BY <1>1, <1>2, <1>3 DEF Tiled, Apart, Within, Lodged, Disjoint, Covers, Chunks

(* A tensor is given memory of its own.                                    *)
Lodges(n, size, w, k) ==
    /\ hash' = [hash EXCEPT ![n].allocated = TRUE,
                            ![n].addr = [chunk |-> k, offset |-> w.block.offset]]
    /\ chunks' = [w.chunks EXCEPT ![k] = Take(@, w.block, size)]

LEMMA NodeLodged ==
    ASSUME Planning, Onward, NEW n, n = at.tensor,
           NEW size, size = Aligned(T(n).size),
           NEW w, w = Place(chunks, size), NEW k, k = w.chunk,
           Lodges(n, size, w, k)
    PROVE  Planning'
<1> DEFINE addr == [chunk |-> k, offset |-> w.block.offset]
           cut == Take(w.chunks[k], w.block, size)
<1>1. n \in All /\ ~Own(n)
    BY OnwardFacts
<1>2. size \in Nat \ {0} /\ size <= Endless /\ chunks \in Seq(Chunks)
    BY <1>1, PlanningFacts, SMTT(60) DEF Planning
<1>3. /\ w.chunks \in Seq(Chunks) /\ k \in DOMAIN w.chunks
      /\ w.block \in w.chunks[k].free /\ w.block.size >= size
      /\ \/ w.chunks = chunks
         \/ w.chunks = Append(chunks, NewChunk(chunks, size)) /\ k = Len(chunks) + 1
    BY <1>2, PlaceGives, SMTT(60)
<1>4. /\ w.chunks[k] \in Chunks /\ w.block.offset \in Nat /\ w.block.size \in Nat
      /\ DOMAIN w.chunks = 1 .. Len(w.chunks) /\ k \in Nat
    <2>1. DOMAIN w.chunks = 1 .. Len(w.chunks) /\ Len(w.chunks) \in Nat
        BY <1>3, LenProperties
    <2>2. w.chunks[k] \in Chunks
        BY <1>3, ElementOfSeq, SMTT(60)
    <2>3. w.block \in Blocks
        BY ONLY <2>2, <1>3, SMTT(60) DEF Chunks
    <2>4. w.block.offset \in Nat /\ w.block.size \in Nat
        BY ONLY <2>3, SMTT(60) DEF Blocks
    <2>5. k \in Nat
        BY ONLY <2>1, <1>3, SMTT(60)
    <2> QED
        BY ONLY <2>1, <2>2, <2>4, <2>5
<1>5. /\ DOMAIN chunks \subseteq DOMAIN w.chunks
      /\ \A c \in DOMAIN w.chunks : Tiled(w.chunks[c], Owners(c), Los, His)
    <2>1. CASE w.chunks = chunks
        BY <2>1 DEF Planning
    <2>2. CASE w.chunks = Append(chunks, NewChunk(chunks, size))
        <3> DEFINE new == NewChunk(chunks, size)
        <3>1. DOMAIN chunks = 1 .. Len(chunks) /\ Len(chunks) \in Nat
            BY <1>2, LenProperties
        <3>2. new \in Chunks /\ Tiled(new, {}, Los, His)
            BY <1>2, <3>1, NewChunkTiled
        <3> HIDE DEF new
        <3>3. /\ \A c \in 1 .. Len(chunks) : Append(chunks, new)[c] = chunks[c]
              /\ Append(chunks, new)[Len(chunks) + 1] = new
              /\ DOMAIN Append(chunks, new) = 1 .. Len(chunks) + 1
            BY <1>2, <3>2, AppendProperties
        <3>4. Owners(Len(chunks) + 1) = {}
            BY <3>1 DEF Owners, In, Planning
        <3>5. \A c \in DOMAIN chunks : Tiled(chunks[c], Owners(c), Los, His)
            BY DEF Planning
        <3>6. \A c \in 1 .. Len(chunks) + 1 : c \in 1 .. Len(chunks) \/ c = Len(chunks) + 1
            BY <3>1
        <3>7. w.chunks = Append(chunks, new)
            BY <2>2 DEF new
        <3>8. \A c \in DOMAIN w.chunks : Tiled(w.chunks[c], Owners(c), Los, His)
            BY <3>1, <3>2, <3>3, <3>4, <3>5, <3>6, <3>7
        <3>9. DOMAIN chunks \subseteq DOMAIN w.chunks
            BY <3>1, <3>3, <3>7
        <3> QED
            BY <3>8, <3>9
    <2> QED
        BY ONLY <2>1, <2>2, <1>3, ZenonT(60)
<1>6. /\ hash \in [All -> HashNodes] /\ hash[n] \in HashNodes /\ addr \in Addresses
    BY <1>1, <1>4 DEF Planning, Addresses
<1> HIDE DEF addr
<1>7. /\ hash' \in [All -> HashNodes]
      /\ hash'[n].allocated = TRUE /\ hash'[n].addr = addr
      /\ \A t \in All \ {n} : hash'[t] = hash[t]
    <2> DEFINE node == [hash[n] EXCEPT !.allocated = TRUE, !.addr = addr]
    <2>1. node \in HashNodes /\ node.allocated = TRUE /\ node.addr = addr
        BY <1>6 DEF HashNodes
    <2>2. hash' = [hash EXCEPT ![n] = node]
        BY <1>1, <1>6, ZenonT(60) DEF addr, Lodges
    <2> HIDE DEF node
    <2>3. /\ hash' \in [All -> HashNodes] /\ hash'[n] = node
          /\ \A t \in All \ {n} : hash'[t] = hash[t]
        <3>1. node \in HashNodes
            BY <2>1
        <3> QED
            BY <3>1, <2>2, <1>1, <1>6, Updated
    <2> QED
        BY <2>1, <2>3
<1>8. All' = All /\ \A t \in All : T(t)' = T(t)
    BY DEF All, T, Onward
<1>9. \A t \in All \ {n} : From(t)' = From(t) /\ To(t)' = To(t)
    BY <1>7, <1>8 DEF From, To
<1>10. From(n)' = w.block.offset /\ To(n)' = w.block.offset + size
    BY <1>1, <1>7, <1>8 DEF From, To, addr
<1>11. /\ \A t \in All \ {n} : Los'[t] = Los[t] /\ His'[t] = His[t]
       /\ Los'[n] = w.block.offset /\ His'[n] = w.block.offset + size
    BY <1>1, <1>8, <1>9, <1>10 DEF Los, His
<1>12. \A t \in All : Own(t)' <=> (t = n \/ Own(t))
    <2>1. \A t \in All : (Own(t) <=> hash[t].allocated) /\ (Own(t)' <=> hash'[t].allocated)
        BY <1>6, <1>7 DEF Own
    <2> QED
        BY <2>1, <1>1, <1>7
<1>13. /\ \A t \in All \ {n} : hash'[t].addr = hash[t].addr
       /\ hash'[n].addr.chunk = k
    BY <1>7 DEF addr
<1>14. \A c : Owners(c)' = IF c = k THEN Owners(c) \cup {n} ELSE Owners(c)
    <2>1. \A c : \A t \in All : In(t, c)' <=> (t = n /\ c = k) \/ In(t, c)
        BY <1>1, <1>12, <1>13 DEF In
    <2> QED
        BY <2>1, <1>1, <1>8 DEF Owners
<1>15. \A c : n \notin Owners(c)
    BY <1>1, SMTT(60) DEF Owners, In
<1>16. chunks' = [w.chunks EXCEPT ![k] = cut]
    BY <1>3, ZenonT(60) DEF Lodges
<1>17. cut \in Chunks /\ Tiled(cut, Owners(k) \cup {n}, Los', His')
    <2> DEFINE own == Owners(k)
    <2>1. own = Owners(k)
        OBVIOUS
    <2>2. \A t \in own : Los'[t] = Los[t] /\ His'[t] = His[t]
        BY <1>11, <1>15, SMTT(60) DEF Owners
    <2> HIDE DEF own
    <2>3. Tiled(w.chunks[k], own, Los, His) /\ n \notin own
        BY ONLY <1>3, <1>5, <1>15, <2>1, ZenonT(60)
    <2>4. Los'[n] = w.block.offset /\ His'[n] = w.block.offset + size
        BY <1>11
    <2>5. cut \in Chunks /\ Tiled(cut, own \cup {n}, Los', His')
        <3> DEFINE old == w.chunks[k]
                   b == w.block
        <3>1. /\ old \in Chunks /\ Tiled(old, own, Los, His)
              /\ b \in old.free /\ size \in Nat \ {0} /\ size <= b.size
              /\ Los'[n] = b.offset /\ His'[n] = b.offset + size
            BY ONLY <1>2, <1>3, <1>4, <2>3, <2>4, ZenonT(60)
        <3>2. cut = Take(old, b, size)
            BY SMTT(60)
        <3> DEFINE lo == Los
                   hi == His
                   lo2 == Los'
                   hi2 == His'
        <3>3. /\ \A t \in own : lo2[t] = lo[t] /\ hi2[t] = hi[t]
              /\ Tiled(old, own, lo, hi) /\ lo2[n] = b.offset /\ hi2[n] = b.offset + size
            BY <3>1, <2>2
        <3> HIDE DEF old, b, cut, lo, hi, lo2, hi2
        <3>4. cut \in Chunks /\ Tiled(cut, own \cup {n}, lo2, hi2)
            <4>1. n \notin own /\ old \in Chunks /\ b \in old.free /\ size \in Nat \ {0}
                  /\ size <= b.size
                BY <3>1, <2>3
            <4> QED
                BY <4>1, <3>2, <3>3, TakeTiled, Z3T(60)
        <3> QED
            BY <3>4, SMTT(60) DEF lo2, hi2
    <2> QED
        BY <2>1, <2>5
<1> HIDE DEF cut
<1>18. /\ chunks' \in Seq(Chunks) /\ DOMAIN chunks' = DOMAIN w.chunks
       /\ chunks'[k] = cut /\ \A c \in DOMAIN w.chunks \ {k} : chunks'[c] = w.chunks[c]
    <2>1. chunks' \in Seq(Chunks)
        BY ONLY <1>3, <1>4, <1>16, <1>17, ExceptSeq, ZenonT(60)
    <2>2. k \in DOMAIN w.chunks
        BY <1>3
    <2>3. /\ DOMAIN chunks' = DOMAIN w.chunks
          /\ chunks'[k] = cut /\ \A c \in DOMAIN w.chunks \ {k} : chunks'[c] = w.chunks[c]
        BY ONLY <2>2, <1>16, SMTT(60)
    <2> QED
        BY ONLY <2>1, <2>3
<1>19. \A c \in DOMAIN chunks' : Tiled(chunks[c], Owners(c), Los, His)'
    <2> SUFFICES ASSUME NEW c \in DOMAIN w.chunks
                 PROVE  Tiled(chunks'[c], Owners(c)', Los', His')
        BY <1>18
    <2>1. CASE c = k
        BY <2>1, <1>14, <1>17, <1>18
    <2>2. CASE c # k
        <3>1. \A t \in Owners(c) : Los'[t] = Los[t] /\ His'[t] = His[t]
            BY <1>11, <1>15 DEF Owners
        <3>2. Tiled(w.chunks[c], Owners(c), Los', His')
            BY <3>1, <1>5, SameTiled
        <3> QED
            BY <3>2, <2>2, <1>14, <1>18
    <2> QED
        BY <2>1, <2>2
<1>20. Reached'
    <2>1. \A t \in All : t \in Nat
        BY PlanningFacts
    <2>2. \A t \in All : Own(t)' => t <= at.tensor
        BY <2>1, <1>1, <1>12, OnwardFacts
    <2> QED
        BY <2>2, <1>8, OnwardFacts DEF Reached
<1>21. \A t \in All' : Own(t)' => hash'[t].addr.chunk \in DOMAIN chunks'
    <2>1. \A t \in All : Own(t) => hash[t].addr.chunk \in DOMAIN w.chunks
        BY <1>5, SMTT(60) DEF Planning
    <2>2. \A t \in All : Own(t)' => hash'[t].addr.chunk \in DOMAIN w.chunks
        BY <2>1, <1>3, <1>12, <1>13
    <2> QED
        BY <2>2, <1>8, <1>18
<1>22. graph' \in Graphs
    BY DEF Planning, Onward
<1> QED
    BY <1>7, <1>8, <1>18, <1>19, <1>20, <1>21, <1>22, OnwardFacts DEF Planning

(* Placing a tensor (ggml_gallocr_allocate_node): one that is not placed,  *)
(* one that takes over an operand's memory, one with memory of its own.    *)
LEMMA AllocateNodeGood ==
    ASSUME Planning, Onward, AllocateNode(at.tensor)
    PROVE  Planning'
<1> DEFINE n == at.tensor
           reuse == {j \in DOMAIN T(n).src : T(n).inplace /\ Reusable(n, T(n).src[j])}
           first == T(n).src[CHOOSE j \in reuse : \A i \in reuse : j <= i]
           new == AllocBytes(chunks, T(n).size)
<1>1. n \in All
    BY OnwardFacts
<1>2. CASE ~Placed(n)
    <2>1. chunks' = chunks /\ hash' = hash
        BY ONLY <1>2, AllocateNode(at.tensor), ZenonT(60) DEF AllocateNode, n
    <2>2. hash \in [All -> HashNodes] /\ graph' = graph
        BY DEF Planning, Onward
    <2>3. \A t \in All : t < at.tensor \/ (t = at.tensor /\ at.src # 0) =>
             t < at'.tensor \/ (t = at'.tensor /\ at'.src # 0)
        <3>1. \A t \in All : t \in Nat /\ at.tensor \in Nat
            BY PlanningFacts, <1>1
        <3> QED
            BY <3>1, OnwardFacts
    <2> QED
        BY <2>1, <2>2, <2>3, OnwardFacts, WalkedOn, SMTT(60)
<1>3. CASE Placed(n) /\ reuse # {}
    <2>1. PICK j \in reuse : \A i \in reuse : j <= i
        <3>1. reuse \in SUBSET Nat
            BY <1>1, TensorNumbers
        <3> QED
            BY <3>1, <1>3, LeastOf
    <2>2. PICK i \in DOMAIN T(n).src : first = T(n).src[i] /\ Reusable(n, first)
        BY <2>1, ZenonT(60)
    <2>3. Overwrites(n, first) /\ chunks' = chunks
        BY <1>3, ZenonT(60) DEF AllocateNode, Overwrites
    <2> HIDE DEF first, reuse, new, n
    <2>4. \A t \in All : t \in Nat /\ (Own(t) <=> hash[t].allocated)
        BY ONLY Planning, PlanningFacts, SMTT(60)
    <2>5. first \in All /\ first < n
        BY ONLY Planning, <1>1, <2>2, TensorNumbers, SMTT(60)
    <2>6. first # n
        BY ONLY <1>1, <2>4, <2>5, SMTT(60)
    <2>7. hash[first].allocated /\ T(first).size = T(n).size
        BY <2>2, ZenonT(60) DEF Reusable
    <2>8. first \in All /\ Own(first) /\ first # n /\ T(first).size = T(n).size
        BY ONLY <2>4, <2>5, <2>6, <2>7
    <2>9. n = at.tensor
        BY DEF n
    <2> QED
        BY ONLY Planning, Onward, <2>3, <2>8, <2>9, TakenOver
<1>4. CASE Placed(n) /\ reuse = {}
    <2> DEFINE size == Aligned(T(n).size)
               w == Place(chunks, size)
               k == w.chunk
    <2>1. hash' = [hash EXCEPT ![n].allocated = TRUE, ![n].addr = new.addr]
          /\ chunks' = new.chunks
        BY <1>4, ZenonT(60) DEF AllocateNode
    <2>2. Lodges(n, size, w, k)
        BY <2>1 DEF AllocBytes, Lodges
    <2>3. n = at.tensor /\ size = Aligned(T(n).size) /\ w = Place(chunks, size) /\ k = w.chunk
        OBVIOUS
    <2> HIDE DEF n, size, w, k
    <2> QED
        BY ONLY Planning, Onward, <1>1, <1>4, <2>2, <2>3, NodeLodged
<1> QED
    BY <1>2, <1>3, <1>4

LEMMA PlaceLeafGood ==
    ASSUME Planning, PlaceLeaf
    PROVE  Planning'
<1>1. Onward /\ AllocateNode(at.tensor)
    BY DEF PlaceLeaf, Onward, Planning
<1> QED
    BY <1>1, AllocateNodeGood

LEMMA PlaceNodeGood ==
    ASSUME Planning, PlaceNode
    PROVE  Planning'
<1>1. Onward /\ AllocateNode(at.tensor)
    BY DEF PlaceNode, Onward
<1> QED
    BY <1>1, AllocateNodeGood

(* What is known of the tensors but for the counts, after the counts of an *)
(* operand went down; and the walk on its way to the next operand.         *)
Recounted(h) ==
    /\ h \in [All -> HashNodes]
    /\ \A t \in All : h[t].addr = hash[t].addr /\ h[t].allocated = hash[t].allocated

NextOperand ==
    /\ graph' = graph /\ at' = [at EXCEPT !.src = @ + 1]
    /\ at.tensor > graph.leafs

LEMMA CountsGood ==
    ASSUME Planning, NextOperand, Recounted(hash'), chunks' = chunks
    PROVE  Planning'
<1>1. at \in [tensor : Nat \ {0}, src : Nat] /\ graph.leafs \in Nat
    BY PlanningFacts DEF Planning
<1>2. at' = [tensor |-> at.tensor, src |-> at.src + 1]
    BY <1>1 DEF NextOperand
<1>3. /\ at' \in [tensor : Nat \ {0}, src : Nat]
      /\ at'.tensor <= graph.leafs => at'.src = 0
      /\ at'.tensor = at.tensor /\ at'.src # 0
    BY <1>1, <1>2 DEF NextOperand
<1> QED
    BY <1>3, WalkedOn DEF NextOperand, Recounted

LEMMA FreeNodeGood ==
    ASSUME Planning, NextOperand, NEW h, Recounted(h),
           NEW t \in All, h[t].allocated, FreeNode(h, t)
    PROVE  Planning'
<1>1. CASE T(t).output
    BY <1>1, CountsGood DEF FreeNode
<1>2. CASE ~T(t).output
    <2>1. /\ hash' = [h EXCEPT ![t].allocated = FALSE]
          /\ chunks' = FreeBytes(chunks, h[t].addr, T(t).size)
        BY <1>2 DEF FreeNode
    <2> DEFINE node == [h[t] EXCEPT !.allocated = FALSE]
    <2>2. h \in [All -> HashNodes] /\ h[t] \in HashNodes /\ hash' = [h EXCEPT ![t] = node]
        BY <2>1 DEF Recounted
    <2>3. node \in HashNodes /\ node.allocated = FALSE /\ node.addr = h[t].addr
        BY <2>2 DEF HashNodes
    <2> HIDE DEF node
    <2>4. /\ hash' \in [All -> HashNodes] /\ hash'[t] = node
          /\ \A u \in All \ {t} : hash'[u] = h[u]
        BY <2>2, <2>3, Updated
    <2>5. \A u \in All : h[u].allocated \in BOOLEAN /\ hash[u].allocated \in BOOLEAN
        BY <2>2, PlanningFacts DEF HashNodes
    <2>6. \A u \in All : /\ hash'[u].addr = hash[u].addr
                         /\ hash'[u].allocated = (u # t /\ hash[u].allocated)
        <3> SUFFICES ASSUME NEW u \in All
                     PROVE  /\ hash'[u].addr = hash[u].addr
                            /\ hash'[u].allocated = (u # t /\ hash[u].allocated)
            OBVIOUS
        <3>1. CASE u = t
            BY <3>1, <2>3, <2>4 DEF Recounted
        <3>2. CASE u # t
            BY <3>2, <2>4, <2>5 DEF Recounted
        <3> QED
            BY <3>1, <3>2
    <2>7. Own(t) /\ chunks' = FreeBytes(chunks, hash[t].addr, T(t).size)
        BY <2>1, PlanningFacts DEF Recounted
    <2> QED
        BY <2>4, <2>6, <2>7, NodeFreed DEF NextOperand
<1> QED
    BY <1>1, <1>2

(* The walk drops an operand of a node it has come to.                     *)
LEMMA DropsAt ==
    ASSUME Planning, DropParent
    PROVE  /\ at.tensor \in All /\ at.tensor > graph.leafs
           /\ at.src \in DOMAIN T(at.tensor).src
           /\ T(at.tensor).src[at.src] \in All
<1>1. /\ All = 1 .. Len(graph.tensors) /\ Len(graph.tensors) \in Nat
      /\ graph.leafs \in Nat
    BY ONLY Planning, PlanningFacts
<1>2. /\ at.tensor <= Len(graph.tensors)
      /\ at.src \in DOMAIN T(at.tensor).src
    BY ZenonT(60) DEF DropParent, Walking
<1>3. /\ at \in [tensor : Nat \ {0}, src : Nat]
      /\ at.tensor <= graph.leafs => at.src = 0
    BY DEF Planning
<1>4. at.tensor \in All
    BY ONLY <1>1, <1>2, <1>3
<1>5. at.src # 0 /\ T(at.tensor).src[at.src] \in All
    BY ONLY Planning, <1>2, <1>4, TensorNumbers, SMTT(60)
<1> QED
    BY ONLY <1>1, <1>2, <1>3, <1>4, <1>5

LEMMA DropParentGood ==
    ASSUME Planning, DropParent
    PROVE  Planning'
<1> DEFINE n == at.tensor
           p == T(n).src[at.src]
           v == T(p).view
           used == [hash EXCEPT ![p].n_children = @ - 1]
           unseen == [used EXCEPT ![v].n_views = @ - 1]
<1>1. n \in All /\ at.src \in DOMAIN T(n).src /\ n > graph.leafs
    BY ONLY Planning, DropParent, DropsAt
<1>2. NextOperand
    BY <1>1, ZenonT(60) DEF NextOperand, DropParent
<1>3. p \in All /\ (v # 0 => v \in All)
    BY <1>1, PlanningFacts
<1>4. \A h \in HashNodes :
         /\ [h EXCEPT !.n_children = h.n_children - 1] \in HashNodes
         /\ [h EXCEPT !.n_children = h.n_children - 1].addr = h.addr
         /\ [h EXCEPT !.n_children = h.n_children - 1].allocated = h.allocated
         /\ [h EXCEPT !.n_views = h.n_views - 1] \in HashNodes
         /\ [h EXCEPT !.n_views = h.n_views - 1].addr = h.addr
         /\ [h EXCEPT !.n_views = h.n_views - 1].allocated = h.allocated
    BY DEF HashNodes
<1>5. hash \in [All -> HashNodes]
    BY DEF Planning
<1>6. Recounted(used)
    <2> DEFINE node == [hash[p] EXCEPT !.n_children = hash[p].n_children - 1]
    <2>1. used = [hash EXCEPT ![p] = node]
        OBVIOUS
    <2>2. node \in HashNodes /\ node.addr = hash[p].addr /\ node.allocated = hash[p].allocated
        BY <1>3, <1>4, <1>5, ZenonT(60)
    <2> HIDE DEF node, used, p
    <2>3. /\ used \in [All -> HashNodes] /\ used[p] = node
          /\ \A t \in All \ {p} : used[t] = hash[t]
        BY <2>1, <2>2, <1>3, <1>5, Updated
    <2> QED
        BY <2>2, <2>3 DEF Recounted
<1>7. v # 0 => Recounted(unseen)
    <2> SUFFICES ASSUME v # 0
                 PROVE  Recounted(unseen)
        BY ZenonT(60)
    <2> DEFINE node == [used[v] EXCEPT !.n_views = used[v].n_views - 1]
    <2>1. unseen = [used EXCEPT ![v] = node]
        OBVIOUS
    <2> HIDE DEF used
    <2>2. used \in [All -> HashNodes] /\ used[v] \in HashNodes /\ v \in All
        BY <1>3, <1>6, SMTT(60) DEF Recounted
    <2>3. node \in HashNodes /\ node.addr = used[v].addr /\ node.allocated = used[v].allocated
        BY <2>2, <1>4, ZenonT(60)
    <2> HIDE DEF node, unseen, v
    <2>4. /\ unseen \in [All -> HashNodes] /\ unseen[v] = node
          /\ \A t \in All \ {v} : unseen[t] = used[t]
        BY <2>1, <2>2, <2>3, Updated
    <2> QED
        BY <2>3, <2>4, <1>6 DEF Recounted
<1>8. \/ (hash' = used /\ chunks' = chunks)
      \/ (v # 0 /\ unseen[v].allocated /\ FreeNode(unseen, v))
      \/ (v # 0 /\ hash' = unseen /\ chunks' = chunks)
      \/ (used[p].allocated /\ FreeNode(used, p))
    BY ZenonT(60) DEF DropParent
<1> HIDE DEF used, unseen, v, p
<1>9. CASE hash' = used /\ chunks' = chunks
    BY <1>9, <1>2, <1>6, CountsGood
<1>10. CASE v # 0 /\ unseen[v].allocated /\ FreeNode(unseen, v)
    BY <1>10, <1>2, <1>3, <1>7, FreeNodeGood
<1>11. CASE v # 0 /\ hash' = unseen /\ chunks' = chunks
    BY <1>11, <1>2, <1>7, CountsGood
<1>12. CASE used[p].allocated /\ FreeNode(used, p)
    BY <1>12, <1>2, <1>3, <1>6, FreeNodeGood
<1> QED
    BY <1>8, <1>9, <1>10, <1>11, <1>12

LEMMA NodeDoneGood ==
    ASSUME Planning, NodeDone
    PROVE  Planning'
<1>1. at \in [tensor : Nat \ {0}, src : Nat] /\ hash \in [All -> HashNodes]
    BY DEF Planning
<1>2. at' = [tensor |-> at.tensor + 1, src |-> 0]
    BY DEF NodeDone
<1>3. \A t \in All : t \in Nat
    BY PlanningFacts
<1>4. /\ at' \in [tensor : Nat \ {0}, src : Nat] /\ at'.src = 0
      /\ \A t \in All : t < at.tensor \/ t = at.tensor => t < at'.tensor
    BY <1>1, <1>2, <1>3
<1> QED
    BY <1>1, <1>4, WalkedOn DEF NodeDone

LEMMA CountedType ==
    ASSUME NEW g \in Graphs
    PROVE  Counted(g) \in [DOMAIN g.tensors -> HashNodes]
<1>1. WellFormed(g)
    BY GraphAllocAssumption
<1>2. DOMAIN g.tensors = 1 .. Len(g.tensors) /\ Len(g.tensors) \in Nat
    BY <1>1, LenProperties DEF WellFormed
<1>3. IsFiniteSet(DOMAIN g.tensors) /\ IsFiniteSet(1 .. MaxSrc)
    <2>1. \A m \in Nat : IsFiniteSet(1 .. m)
        BY FS_Interval
    <2>2. MaxSrc \in Nat
        BY DEF MaxSrc
    <2> QED
        BY <2>1, <2>2, <1>2
<1>4. IsFiniteSet((DOMAIN g.tensors) \X (1 .. MaxSrc))
    BY <1>3, FS_Product
<1>5. ASSUME NEW t
      PROVE  NChildren(g, t) \in Int /\ NViews(g, t) \in Int
    <2> DEFINE uses == {use \in (DOMAIN g.tensors) \X (1 .. MaxSrc) :
                           /\ use[2] \in DOMAIN g.tensors[use[1]].src
                           /\ g.tensors[use[1]].src[use[2]] = t}
               views == {n \in DOMAIN g.tensors : g.tensors[n].view = t}
    <2>1. uses \subseteq (DOMAIN g.tensors) \X (1 .. MaxSrc) /\ views \subseteq DOMAIN g.tensors
        OBVIOUS
    <2>2. NChildren(g, t) = Cardinality(uses) /\ NViews(g, t) = Cardinality(views)
        BY DEF NChildren, Uses, NViews
    <2> HIDE DEF uses, views
    <2>3. IsFiniteSet(uses) /\ IsFiniteSet(views)
        BY <2>1, <1>3, <1>4, FS_Subset
    <2>4. Cardinality(uses) \in Nat /\ Cardinality(views) \in Nat
        BY <2>3, FS_CardinalityType
    <2> QED
        BY <2>2, <2>4
<1>6. Nowhere \in Addresses
    BY DEF Nowhere, Addresses
<1> QED
    BY <1>5, <1>6 DEF Counted, HashNodes

(* The walk begins with nothing placed.                                    *)
LEMMA WalkGood ==
    ASSUME NEW g \in Graphs, NEW for, Walk(g, for)
    PROVE  Planning'
<1>1. /\ graph' = g /\ chunks' = <<>> /\ hash' = Counted(g) /\ at' = [tensor |-> 1, src |-> 0]
    BY DEF Walk, WalkStart
<1>2. All' = DOMAIN g.tensors
    BY <1>1 DEF All
<1>3. hash' \in [All' -> HashNodes]
    BY <1>1, <1>2, CountedType
<1>4. \A t \in All' : ~Own(t)'
    BY <1>1, <1>2 DEF Own, Counted
<1>5. chunks' \in Seq(Chunks) /\ DOMAIN chunks' = {}
    BY <1>1
<1>6. Reached'
    BY <1>4 DEF Reached
<1> QED
    BY <1>1, <1>3, <1>4, <1>5, <1>6 DEF Planning

(* AllocInv speaks of the allocator only.                                  *)
LEMMA AllocInvStutters ==
    ASSUME AllocInv, UNCHANGED allocVars
    PROVE  AllocInv'
<1>1. /\ graph' = graph /\ chunks' = chunks /\ hash' = hash /\ at' = at /\ goal' = goal
    BY DEF allocVars
<1>2. CASE goal \notin {"reserve", "alloc"}
    BY <1>1, <1>2 DEF AllocInv
<1>3. CASE goal \in {"reserve", "alloc"}
    <2>1. Planning
        BY <1>3 DEF AllocInv
    <2>2. Planning'
        <3>1. hash' \in [All -> HashNodes] /\ at \in [tensor : Nat \ {0}, src : Nat]
            BY <2>1, <1>1 DEF Planning
        <3> QED
            BY <2>1, <3>1, <1>1, WalkedOn DEF Planning
    <2> QED
        BY <2>2, <1>1 DEF AllocInv
<1> QED
    BY <1>2, <1>3

(* Every step of the allocator keeps the memory divided.                   *)
LEMMA AllocNextGood ==
    ASSUME AllocInv, AllocNext
    PROVE  AllocInv'
<1>1. CASE PlaceLeaf
    BY <1>1, PlaceLeafGood DEF AllocInv, PlaceLeaf, Walking
<1>2. CASE PlaceNode
    <2>1. goal \in {"reserve", "alloc"} /\ goal' = goal
        BY <1>2, ZenonT(60) DEF PlaceNode, Walking
    <2> QED
        BY ONLY AllocInv, <1>2, <2>1, PlaceNodeGood DEF AllocInv
<1>3. CASE DropParent
    BY <1>3, DropParentGood, ZenonT(60) DEF AllocInv, DropParent, Walking
<1>4. CASE NodeDone
    BY <1>4, NodeDoneGood DEF AllocInv, NodeDone, Walking
<1>5. CASE FinishReserve
    BY <1>5 DEF AllocInv, FinishReserve
<1>6. ASSUME NEW g \in Graphs, Reserve(g)
      PROVE  AllocInv'
    <2>1. Walk(g, "reserve")
        BY <1>6 DEF Reserve
    <2> QED
        BY <2>1, WalkGood DEF AllocInv, Walk
<1>7. ASSUME NEW g \in Graphs, AllocGraph(g)
      PROVE  AllocInv'
    <2>1. CASE Walk(g, "alloc")
        BY <2>1, WalkGood DEF AllocInv, Walk
    <2>2. CASE goal' = "ready"
        BY <2>2 DEF AllocInv
    <2> QED
        BY <1>7, <2>1, <2>2 DEF AllocGraph
<1> QED
    BY <1>1, <1>2, <1>3, <1>4, <1>5, <1>6, <1>7 DEF AllocNext, AllocStep

-----------------------------------------------------------------------------
(* While a graph is planned, each chunk is divided between the tensors     *)
(* that own memory and the free blocks; computing the graphs in between    *)
(* does not disturb it (ggml_gallocr_alloc_graph_impl).                    *)
THEOREM ChunksStayDivided == Spec => []AllocInv
<1>1. Init => AllocInv
    BY DEF Init, AllocInit, AllocInv
<1>2. AllocInv /\ [Next]_vars => AllocInv'
    <2> SUFFICES ASSUME AllocInv, [Next]_vars
                 PROVE  AllocInv'
        OBVIOUS
    <2>1. CASE Plan
        BY <2>1, AllocNextGood DEF Plan
    <2>2. CASE Steer
        BY <2>2, AllocInvStutters DEF Steer, allocVars
    <2>3. CASE Collect
        BY <2>3 DEF Collect, AllocInv
    <2>4. ASSUME NEW n \in 1 .. MaxParts, Compute(n)
          PROVE  AllocInv'
        BY <2>4, AllocInvStutters DEF Compute
    <2>5. ASSUME NEW k \in DOMAIN parts, NEW p \in DOMAIN parts[k], ComputePart(k, p)
          PROVE  AllocInv'
        BY <2>5, AllocInvStutters DEF ComputePart
    <2>6. CASE UNCHANGED vars
        BY <2>6, AllocInvStutters DEF vars
    <2> QED
        BY <2>1, <2>2, <2>3, <2>4, <2>5, <2>6 DEF Next
<1> QED
    BY <1>1, <1>2, PTL DEF Spec

(* No two tensors that own memory overlap, none lies in a free block,      *)
(* nothing below the highest address used is lost, and free blocks that    *)
(* touch have been merged, at every point of every plan                    *)
(* (ggml_dyn_tallocr_alloc, ggml_dyn_tallocr_free_bytes).                  *)
THEOREM MemoryIsNeverShared == Spec => []FreeSpaceExact
<1>1. AllocInv => FreeSpaceExact
    <2> SUFFICES ASSUME AllocInv, goal \in {"reserve", "alloc"}, NEW c \in DOMAIN chunks
                 PROVE
        /\ \A a, b \in chunks[c].free :
               a # b => End(a) < b.offset \/ End(b) < a.offset
        /\ \A t \in All : In(t, c) =>
               /\ To(t) <= chunks[c].max_size
               /\ \A b \in chunks[c].free : To(t) <= b.offset \/ End(b) <= From(t)
               /\ \A u \in All : In(u, c) /\ u # t =>
                      To(t) <= From(u) \/ To(u) <= From(t)
        /\ \A x \in 0 .. chunks[c].max_size - 1 :
               \/ \E b \in chunks[c].free : b.offset <= x /\ x < End(b)
               \/ \E t \in All : In(t, c) /\ From(t) <= x /\ x < To(t)
        BY DEF FreeSpaceExact
    <2>1. Planning /\ Tiled(chunks[c], Owners(c), Los, His)
        BY DEF AllocInv, Planning
    <2>2. \A t \in All : Los[t] = From(t) /\ His[t] = To(t)
        BY <2>1, PlanningFacts
    <2>3. \A t : t \in Owners(c) <=> t \in All /\ In(t, c)
        BY DEF Owners
    <2>4. \A a, b \in chunks[c].free :
             a # b => End(a) < b.offset \/ End(b) < a.offset
        BY <2>1 DEF Tiled, Apart
    <2>5. \A t \in All : In(t, c) =>
             /\ To(t) <= chunks[c].max_size
             /\ \A b \in chunks[c].free : To(t) <= b.offset \/ End(b) <= From(t)
        BY <2>1, <2>2, <2>3 DEF Tiled, Lodged
    <2>6. \A t, u \in All : In(t, c) /\ In(u, c) /\ u # t =>
             To(t) <= From(u) \/ To(u) <= From(t)
        BY <2>1, <2>2, <2>3 DEF Tiled, Disjoint
    <2>7. \A x \in 0 .. chunks[c].max_size - 1 :
             \/ \E b \in chunks[c].free : b.offset <= x /\ x < End(b)
             \/ \E t \in All : In(t, c) /\ From(t) <= x /\ x < To(t)
        BY <2>1, <2>2, <2>3 DEF Tiled, Covers
    <2> QED
        BY <2>4, <2>5, <2>6, <2>7
<1> QED
    BY <1>1, ChunksStayDivided, PTL

-----------------------------------------------------------------------------
(* What the plan promises the graph that is computed in it. Two tensors    *)
(* may lie in the same memory only if the earlier one is not needed any    *)
(* more when the later one is written, or is written over by it cell by    *)
(* cell. The walk keeps that because what it gives back was counted down   *)
(* to nothing; a later graph that fits the plan keeps it because it is     *)
(* like the graph that was planned.                                        *)

(* Memory at a and at b, of sizes s and r, that has a byte in common.      *)
Meet(a, s, b, r) ==
    a.chunk = b.chunk /\ a.offset < b.offset + r /\ b.offset < a.offset + s

(* Node n of g needs t as its operand j, or through a view of it.          *)
Needs(g, n, j, t) ==
    LET o == g.tensors[n].src[j] IN o = t \/ g.tensors[o].view = t

(* The tensors of g that are given memory.                                 *)
Lives(g, t) == ~g.tensors[t].external /\ g.tensors[t].view = 0

(* u may be written over t: nobody needs t any more, or only u itself      *)
(* does, which reads each cell before it writes it.                        *)
Yields(g, t, u, same) ==
    /\ u > g.leafs /\ ~g.tensors[t].output
    /\ \A n \in DOMAIN g.tensors : \A j \in DOMAIN g.tensors[n].src :
           Needs(g, n, j, t) =>
               \/ n < u
               \/ /\ n = u /\ same /\ g.tensors[u].inplace
                  /\ g.tensors[u].src[j] = t /\ g.tensors[t].size = g.tensors[u].size

(* The uses of t the walk has still to come to, and the views of t that    *)
(* have any.                                                               *)
ToCome(n, j) == n > at.tensor \/ (n = at.tensor /\ j >= at.src)
Left(t) == {use \in Uses(graph, t) : ToCome(use[1], use[2])}
ViewsLeft(t) == {v \in All : T(v).view = t /\ Left(v) # {}}

(* The counts of children and views never fall below what is to come, so   *)
(* that a tensor whose counts are down to nothing has no use to come.      *)
Counts == \A t \in All : /\ Cardinality(Left(t)) <= hash[t].n_children
                         /\ Cardinality(ViewsLeft(t)) <= hash[t].n_views
NoneToCome ==
    \A t \in All : hash[t].n_children = 0 /\ hash[t].n_views = 0 =>
        \A m \in All : \A j \in DOMAIN T(m).src : Needs(graph, m, j, t) => ~ToCome(m, j)

(* The tensors the walk has placed, and those of them that all nodes that  *)
(* need them have been placed as well.                                     *)
Passed(t) == t < at.tensor \/ (t = at.tensor /\ at.src # 0)
Over(t) ==
    /\ at.tensor > graph.leafs /\ ~T(t).output
    /\ \A n \in All : \A j \in DOMAIN T(n).src : Needs(graph, n, j, t) => Passed(n)

(* A tensor owns its memory until it is over, lies in a chunk that stays   *)
(* large enough, and shares it only with one that may be written over it.  *)
GivenUp == \A t \in All : Placed(t) /\ Passed(t) /\ ~Own(t) => Over(t)
Settled ==
    \A t \in All : Placed(t) /\ Passed(t) =>
        /\ hash[t].addr.chunk \in DOMAIN chunks
        /\ To(t) <= chunks[hash[t].addr.chunk].max_size
Ordered ==
    \A t, u \in All :
        /\ t < u /\ Placed(t) /\ Placed(u) /\ Passed(u)
        /\ Meet(hash[t].addr, Aligned(T(t).size), hash[u].addr, Aligned(T(u).size))
        => Yields(graph, t, u, hash[t].addr = hash[u].addr)

Sound == Counts /\ GivenUp /\ Settled /\ Ordered

(* Those that own memory are apart, whichever chunks they lie in.          *)
OwnersApart ==
    \A t, u \in All :
        /\ Own(t) /\ Own(u) /\ t # u /\ hash[t].addr.chunk = hash[u].addr.chunk
        => To(t) <= From(u) \/ To(u) <= From(t)
OwnersFit ==
    \A t \in All : Own(t) =>
        /\ hash[t].addr.chunk \in DOMAIN chunks
        /\ To(t) <= chunks[hash[t].addr.chunk].max_size

(* The addresses of the plan suit g: all its tensors lie in the buffer and *)
(* share memory as they may.                                               *)
Suits(g) ==
    /\ \A t \in DOMAIN g.tensors :
          LET addr == plan.tensors[t].addr
          IN  IF Lives(g, t)
              THEN /\ addr \in Addresses /\ addr.chunk \in DOMAIN buffer
                   /\ addr.offset + g.tensors[t].size <= buffer[addr.chunk]
              ELSE addr = Nowhere
    /\ \A t, u \in DOMAIN g.tensors :
          /\ t < u /\ Lives(g, t) /\ Lives(g, u)
          /\ Meet(plan.tensors[t].addr, g.tensors[t].size,
                  plan.tensors[u].addr, g.tensors[u].size)
          => Yields(g, t, u, plan.tensors[t].addr = plan.tensors[u].addr)

(* The plan is the one a walk of g has left.                               *)
MadeFor(g) ==
    /\ plan.leafs = g.leafs
    /\ DOMAIN plan.tensors = DOMAIN g.tensors /\ Len(plan.tensors) = Len(g.tensors)
    /\ \A t \in DOMAIN g.tensors :
          /\ plan.tensors[t].size_max = SizeOf(g.tensors[t])
          /\ plan.tensors[t].src = g.tensors[t].src
    /\ Suits(g)

Sized == \A c \in DOMAIN buffer : c # 0 /\ buffer[c] \in Nat

PlanFits ==
    /\ goal \in {"reserve", "alloc"} => Sound
    /\ Sized
    /\ plan = NoPlan \/ \E g \in Graphs : MadeFor(g)
    /\ goal = "ready" => graph \in Graphs /\ Suits(graph)

(* Which cells have been written: those of the inputs, and of parts done.  *)
Wrote(t, i) ==
    \/ t <= graph.leafs
    \/ \E k \in DOMAIN parts : \E p \in DOMAIN parts[k] :
           t = Result(k) /\ parts[k][p] = 1 /\ i \in Share(t, p, Cardinality(DOMAIN parts[k]))

(* A cell that was written holds its value until a later tensor with the   *)
(* same cell has been written there.                                       *)
Held ==
    \A t \in All : Placed(t) => \A i \in Indexes(t) :
        /\ Wrote(t, i)
        /\ \A u \in All : Placed(u) /\ u > t =>
              \A j \in Indexes(u) : Cell(u, j) = Cell(t, i) => ~Wrote(u, j)
        => mem[Cell(t, i)] = t

(* No part of a node is done before all the nodes before it.               *)
Sequential ==
    \A k \in DOMAIN parts : \A p \in DOMAIN parts[k] :
        parts[k][p] = 1 => \A j \in DOMAIN parts : j < k => Run!Done(j)

(* Each node of the graph is cut into as many parts, memory is the buffer. *)
Shaped ==
    /\ DOMAIN parts = 0 .. Len(graph.tensors) - graph.leafs - 1
    /\ \E n \in 1 .. MaxParts : \A k \in DOMAIN parts :
          parts[k] \in [IF Computed(Result(k)) THEN 0 .. n - 1 ELSE {} -> {0, 1}]
    /\ DOMAIN mem = Cells

RunFits ==
    /\ status \in {"idle", "running", "success", "aborted"}
    /\ status # "idle" => goal = "ready"
    /\ status = "running" => Shaped /\ Sequential /\ Held
    /\ OutputsIntact

MemInv == AllocInv /\ PlanFits /\ RunFits

-----------------------------------------------------------------------------
(* Arithmetic: how nodes are cut into parts.                               *)

(* What a quotient and a remainder are.                                    *)
LEMMA Division ==
    ASSUME NEW a \in Nat, NEW b \in Nat \ {0}
    PROVE  /\ a \div b \in Nat /\ a % b \in 0 .. b - 1
           /\ a = b * (a \div b) + (a % b)
OBVIOUS

(* Rounding up a quotient leaves nothing out.                              *)
LEMMA DivUp ==
    ASSUME NEW a \in Nat \ {0}, NEW b \in Nat \ {0}
    PROVE  (a + b - 1) \div b \in Nat \ {0} /\ a <= ((a + b - 1) \div b) * b
<1> DEFINE q == (a + b - 1) \div b
           r == (a + b - 1) % b
<1>1. a + b - 1 \in Nat
    OBVIOUS
<1>2. q \in Nat /\ r \in 0 .. b - 1 /\ a + b - 1 = b * q + r
    BY <1>1, Division
<1> HIDE DEF q, r
<1>3. b * q \in Nat /\ b * q = q * b
    BY <1>2
<1>4. a <= q * b
    BY <1>2, <1>3
<1>5. q # 0
    BY <1>2, <1>4
<1> QED
    BY <1>2, <1>4, <1>5 DEF q

(* A product grows with its factor.                                        *)
LEMMA Less ==
    ASSUME NEW p \in Nat, NEW n \in Nat, NEW b \in Nat, p >= n
    PROVE  b * n <= b * p
OBVIOUS

(* Every index of a tensor is in one of its parts (ggml_compute_params).   *)
LEMMA PartOf ==
    ASSUME NEW size \in Nat \ {0}, NEW n \in Nat \ {0}, NEW i \in 0 .. size - 1
    PROVE  i \div ((size + n - 1) \div n) \in 0 .. n - 1
<1> DEFINE rows == (size + n - 1) \div n
           p == i \div rows
<1>1. rows \in Nat \ {0} /\ size <= rows * n
    BY DivUp
<1> HIDE DEF rows
<1>2. p \in Nat /\ i % rows \in 0 .. rows - 1 /\ i = rows * p + (i % rows)
    <2>1. i \in Nat /\ rows \in Nat \ {0}
        BY <1>1
    <2> QED
        BY <2>1, Division
<1> HIDE DEF p
<1>3. rows * p \in Nat /\ rows * n \in Nat /\ rows * p <= i
    BY <1>1, <1>2
<1>4. p < n
    BY <1>1, <1>2, <1>3, Less
<1> QED
    BY <1>2, <1>4 DEF p, rows

(* An index is its own remainder.                                          *)
LEMMA Small ==
    ASSUME NEW s \in Nat \ {0}, NEW i \in 0 .. s - 1
    PROVE  i % s = i
OBVIOUS

-----------------------------------------------------------------------------
(* What is known of graphs and of their uses.                              *)

(* What a graph is well formed for.                                        *)
LEMMA GraphFacts ==
    ASSUME NEW g \in Graphs
    PROVE  /\ DOMAIN g.tensors = 1 .. Len(g.tensors) /\ Len(g.tensors) \in Nat
           /\ g.leafs \in Nat /\ g.leafs <= Len(g.tensors)
           /\ \A t \in DOMAIN g.tensors :
                 LET x == g.tensors[t]
                 IN  /\ t \in Nat \ {0} /\ x \in Tensors
                     /\ x.size \in Nat \ {0}
                     /\ Aligned(x.size) \in Nat /\ x.size <= Aligned(x.size)
                     /\ x.view \in Nat /\ x.view < t
                     /\ (x.op = "view") = (x.view # 0)
                     /\ (x.op = "none") = (t <= g.leafs)
                     /\ x.op \in {"none", "view", "map", "mul_mat"}
                     /\ (x.inplace => x.op = "map")
                     /\ Len(x.src) \in Nat /\ Len(x.src) <= MaxSrc
                     /\ DOMAIN x.src = 1 .. Len(x.src)
                     /\ \A j \in DOMAIN x.src :
                            x.src[j] \in DOMAIN g.tensors /\ x.src[j] < t
<1>1. WellFormed(g) /\ g.tensors \in Seq(Tensors)
    BY GraphAllocAssumption DEF WellFormed
<1>2. DOMAIN g.tensors = 1 .. Len(g.tensors) /\ Len(g.tensors) \in Nat
    BY <1>1, LenProperties
<1>3. g.leafs \in Nat /\ g.leafs <= Len(g.tensors)
    BY <1>1, <1>2 DEF WellFormed
<1>4. ASSUME NEW t \in DOMAIN g.tensors, NEW x, x = g.tensors[t]
      PROVE  /\ t \in Nat \ {0} /\ x \in Tensors
             /\ x.size \in Nat \ {0}
             /\ Aligned(x.size) \in Nat /\ x.size <= Aligned(x.size)
             /\ x.view \in Nat /\ x.view < t
             /\ (x.op = "view") = (x.view # 0)
             /\ (x.op = "none") = (t <= g.leafs)
             /\ x.op \in {"none", "view", "map", "mul_mat"}
             /\ (x.inplace => x.op = "map")
             /\ Len(x.src) \in Nat /\ Len(x.src) <= MaxSrc
             /\ DOMAIN x.src = 1 .. Len(x.src)
             /\ \A j \in DOMAIN x.src : x.src[j] \in DOMAIN g.tensors /\ x.src[j] < t
    <2>1. x \in Tensors
        BY <1>1, <1>4, ElementOfSeq
    <2>2. /\ x.size \in Nat \ {0} /\ x.view \in Nat /\ x.src \in Seq(Nat \ {0})
          /\ x.op \in {"none", "view", "map", "mul_mat"}
        BY <2>1 DEF Tensors
    <2>3. /\ x.view < t
          /\ (x.op = "view") = (x.view # 0)
          /\ (x.op = "none") = (t <= g.leafs)
          /\ (x.inplace => x.op = "map")
          /\ Len(x.src) <= MaxSrc
          /\ \A j \in DOMAIN x.src : x.src[j] < t
        BY <1>1, <1>4 DEF WellFormed
    <2>4. DOMAIN x.src = 1 .. Len(x.src) /\ Len(x.src) \in Nat
        BY <2>2, LenProperties
    <2>5. \A j \in DOMAIN x.src : x.src[j] \in Nat \ {0}
        BY <2>2, ElementOfSeq
    <2>6. Aligned(x.size) \in Nat /\ x.size <= Aligned(x.size)
        BY <2>2, AlignedType, DynTallocrAssumption, DivUp DEF Aligned
    <2>7. t \in Nat \ {0} /\ t <= Len(g.tensors)
        BY <1>2
    <2>8. \A j \in DOMAIN x.src : x.src[j] \in DOMAIN g.tensors
        BY <2>3, <2>5, <2>7, <1>2
    <2> QED
        BY <2>1, <2>2, <2>3, <2>4, <2>6, <2>7, <2>8
<1> QED
    BY <1>2, <1>3, <1>4

(* A view lies within a tensor that is none.                               *)
LEMMA ViewFacts ==
    ASSUME NEW g \in Graphs, NEW t \in DOMAIN g.tensors, g.tensors[t].view # 0
    PROVE  /\ g.tensors[t].view \in DOMAIN g.tensors
           /\ g.tensors[g.tensors[t].view].view = 0
           /\ g.tensors[t].size <= g.tensors[g.tensors[t].view].size
<1>1. WellFormed(g)
    BY GraphAllocAssumption
<1>2. /\ g.tensors[t].view \in Nat /\ g.tensors[t].view < t /\ t \in Nat
      /\ DOMAIN g.tensors = 1 .. Len(g.tensors) /\ Len(g.tensors) \in Nat
    BY GraphFacts
<1>3. g.tensors[t].view \in DOMAIN g.tensors
    BY <1>2
<1> QED
    BY <1>1, <1>3 DEF WellFormed

(* A tensor is used finitely often.                                        *)
LEMMA UsesFinite ==
    ASSUME NEW g \in Graphs, NEW t
    PROVE  IsFiniteSet(Uses(g, t)) /\ IsFiniteSet(DOMAIN g.tensors)
<1>1. DOMAIN g.tensors = 1 .. Len(g.tensors) /\ Len(g.tensors) \in Nat
    BY GraphFacts
<1>2. \A m \in Nat : IsFiniteSet(1 .. m)
    BY FS_Interval
<1>3. IsFiniteSet(DOMAIN g.tensors) /\ IsFiniteSet(1 .. MaxSrc)
    BY <1>1, <1>2 DEF MaxSrc
<1>4. IsFiniteSet((DOMAIN g.tensors) \X (1 .. MaxSrc))
    BY <1>3, FS_Product
<1>5. Uses(g, t) \subseteq (DOMAIN g.tensors) \X (1 .. MaxSrc)
    BY DEF Uses
<1> QED
    BY <1>3, <1>4, <1>5, FS_Subset

(* A leaf has no operands, and some node has it as one                     *)
(* (ggml_visit_parents_graph).                                             *)
LEMMA LeafFacts ==
    ASSUME NEW g \in Graphs, NEW t \in DOMAIN g.tensors, t <= g.leafs
    PROVE  /\ g.tensors[t].src = <<>>
           /\ \E n \in DOMAIN g.tensors : \E j \in DOMAIN g.tensors[n].src :
                  g.tensors[n].src[j] = t
<1>1. g.tensors[t].src = <<>> /\ NChildren(g, t) > 0
    BY GraphAllocAssumption DEF WellFormed
<1>2. Uses(g, t) # {}
    <2>1. Uses(g, t) = {} => Cardinality(Uses(g, t)) = 0
        BY UsesFinite, FS_EmptySet
    <2> QED
        BY <1>1, <2>1 DEF NChildren
<1>3. PICK use \in Uses(g, t) : TRUE
    BY <1>2
<1>4. /\ use[1] \in DOMAIN g.tensors /\ use[2] \in DOMAIN g.tensors[use[1]].src
      /\ g.tensors[use[1]].src[use[2]] = t
    BY <1>3 DEF Uses
<1> QED
    BY <1>1, <1>4

(* What is known of a set with at most c elements: with none it is empty,  *)
(* with one it is that element, and without one of them it has one less.   *)
LEMMA FewElements ==
    ASSUME NEW S, IsFiniteSet(S), NEW c \in Int, Cardinality(S) <= c
    PROVE  /\ c = 0 => S = {}
           /\ \A x \in S : c = 1 => S = {x}
           /\ \A x \in S : \A R \in SUBSET (S \ {x}) : Cardinality(R) <= c - 1
           /\ \A R \in SUBSET S : Cardinality(R) <= c
<1>1. Cardinality(S) \in Nat
    BY FS_CardinalityType
<1>2. c = 0 => S = {}
    <2>1. Cardinality(S) = 0 => S = {}
        BY FS_EmptySet
    <2> QED
        BY <1>1, <2>1
<1>3. ASSUME NEW x \in S
      PROVE  /\ c = 1 => S = {x}
             /\ \A R \in SUBSET (S \ {x}) : Cardinality(R) <= c - 1
    <2>1. IsFiniteSet(S \ {x}) /\ Cardinality(S \ {x}) = Cardinality(S) - 1
        BY <1>3, FS_RemoveElement
    <2>2. Cardinality(S \ {x}) \in Nat
        BY <2>1, FS_CardinalityType
    <2>3. c = 1 => S \ {x} = {}
        <3>1. Cardinality(S \ {x}) = 0 => S \ {x} = {}
            BY <2>1, FS_EmptySet
        <3> QED
            BY <3>1, <2>1, <2>2, <1>1
    <2>4. ASSUME NEW R \in SUBSET (S \ {x})
          PROVE  Cardinality(R) <= c - 1
        <3>1. IsFiniteSet(R) /\ Cardinality(R) <= Cardinality(S \ {x})
            BY <2>1, FS_Subset
        <3>2. Cardinality(R) \in Nat
            BY <3>1, FS_CardinalityType
        <3> QED
            BY <3>1, <3>2, <2>1, <1>1
    <2> QED
        BY <2>3, <2>4
<1>4. ASSUME NEW R \in SUBSET S
      PROVE  Cardinality(R) <= c
    <2>1. IsFiniteSet(R) /\ Cardinality(R) <= Cardinality(S)
        BY FS_Subset
    <2>2. Cardinality(R) \in Nat
        BY <2>1, FS_CardinalityType
    <2> QED
        BY <2>1, <2>2, <1>1
<1> QED
    BY <1>2, <1>3, <1>4

(* What is to come is finite.                                              *)
LEMMA LeftFinite ==
    ASSUME Planning, NEW t
    PROVE  IsFiniteSet(Left(t)) /\ IsFiniteSet(ViewsLeft(t))
<1>1. graph \in Graphs
    BY DEF Planning
<1>2. IsFiniteSet(Uses(graph, t)) /\ IsFiniteSet(All)
    BY <1>1, UsesFinite DEF All
<1>3. Left(t) \subseteq Uses(graph, t) /\ ViewsLeft(t) \subseteq All
    BY DEF Left, ViewsLeft
<1> QED
    BY <1>2, <1>3, FS_Subset

(* A use is one of the tensor's at that place.                             *)
LEMMA UseIsLeft ==
    ASSUME Planning, NEW t, NEW n \in All, NEW j \in DOMAIN T(n).src
    PROVE  /\ <<n, j>> \in Left(t) <=> T(n).src[j] = t /\ ToCome(n, j)
           /\ \A use \in Left(t) :
                 /\ use[1] \in All /\ use[2] \in DOMAIN T(use[1]).src
                 /\ use = <<use[1], use[2]>>
                 /\ T(use[1]).src[use[2]] = t /\ ToCome(use[1], use[2])
<1>1. graph \in Graphs
    BY DEF Planning
<1>2. j \in 1 .. MaxSrc
    <2>1. DOMAIN T(n).src = 1 .. Len(T(n).src) /\ Len(T(n).src) <= MaxSrc /\ Len(T(n).src) \in Nat
        BY <1>1, GraphFacts DEF All, T
    <2> QED
        BY <2>1, SMTT(60) DEF MaxSrc
<1>3. <<n, j>> \in Uses(graph, t) <=> T(n).src[j] = t
    BY <1>2 DEF Uses, All, T
<1>4. \A use \in Uses(graph, t) :
          /\ use[1] \in All /\ use[2] \in DOMAIN T(use[1]).src
          /\ use = <<use[1], use[2]>> /\ T(use[1]).src[use[2]] = t
    BY DEF Uses, All, T
<1> QED
    BY <1>3, <1>4 DEF Left

(* The uses to come stay the same if none has been passed.                 *)
LEMMA SameLeft ==
    ASSUME Planning, graph' = graph,
           \A n \in All : \A j \in DOMAIN T(n).src : ToCome(n, j)' <=> ToCome(n, j)
    PROVE  \A t : Left(t)' = Left(t) /\ ViewsLeft(t)' = ViewsLeft(t)
<1>1. All' = All /\ \A n \in All : T(n)' = T(n)
    BY DEF All, T
<1>2. ASSUME NEW t
      PROVE  Left(t)' = Left(t)
    <2>1. Uses(graph, t)' = Uses(graph, t)
        OBVIOUS
    <2>2. \A use \in Uses(graph, t) : ToCome(use[1], use[2])' <=> ToCome(use[1], use[2])
        BY DEF Uses, All, T
    <2> QED
        BY <2>1, <2>2 DEF Left
<1>3. \A t : ViewsLeft(t)' = ViewsLeft(t)
    BY <1>1, <1>2 DEF ViewsLeft
<1> QED
    BY <1>2, <1>3

-----------------------------------------------------------------------------
(* The walk goes on.                                                       *)

(* Chunks that are divided keep their owners apart.                        *)
LEMMA OwnersDivided == Planning => OwnersApart /\ OwnersFit
<1> SUFFICES ASSUME Planning
             PROVE  OwnersApart /\ OwnersFit
    OBVIOUS
<1>1. \A t \in All : Own(t) => hash[t].addr.chunk \in DOMAIN chunks
    BY DEF Planning
<1>2. \A c \in DOMAIN chunks : Tiled(chunks[c], Owners(c), Los, His)
    BY DEF Planning
<1>3. \A t \in All : Own(t) => t \in Owners(hash[t].addr.chunk)
    BY DEF Owners, In
<1>4. \A t \in All : Los[t] = From(t) /\ His[t] = To(t)
    BY PlanningFacts
<1>5. ASSUME NEW t \in All, NEW u \in All, Own(t), Own(u), t # u,
             hash[t].addr.chunk = hash[u].addr.chunk
      PROVE  To(t) <= From(u) \/ To(u) <= From(t)
    <2> DEFINE c == hash[t].addr.chunk
    <2>1. c \in DOMAIN chunks /\ t \in Owners(c) /\ u \in Owners(c)
        BY <1>1, <1>3, <1>5
    <2> HIDE DEF c
    <2>2. Disjoint(Owners(c), Los, His)
        BY <2>1, <1>2 DEF Tiled
    <2> QED
        BY <2>1, <2>2, <1>4, <1>5 DEF Disjoint
<1>6. ASSUME NEW t \in All, Own(t)
      PROVE  To(t) <= chunks[hash[t].addr.chunk].max_size
    <2> DEFINE c == hash[t].addr.chunk
    <2>1. c \in DOMAIN chunks /\ t \in Owners(c)
        BY <1>1, <1>3, <1>6
    <2> HIDE DEF c
    <2>2. Lodged(Owners(c), Los, His, chunks[c].free, chunks[c].max_size)
        BY <2>1, <1>2 DEF Tiled
    <2>3. To(t) <= chunks[c].max_size
        BY <2>1, <2>2, <1>4 DEF Lodged
    <2> QED
        BY <2>3 DEF c
<1> QED
    BY <1>1, <1>5, <1>6 DEF OwnersApart, OwnersFit

(* And so after a step that keeps them divided.                            *)
LEMMA OwnersDividedNext == Planning' => OwnersApart' /\ OwnersFit'
BY OwnersDivided, PTL

(* The walk as it goes on: nothing that was passed is to come.             *)
OnWalk ==
    /\ graph' = graph /\ hash' \in [All -> HashNodes]
    /\ at.tensor > graph.leafs => at'.tensor > graph.leafs
    /\ \A t \in All : Passed(t) => Passed(t)'
    /\ DOMAIN chunks \subseteq DOMAIN chunks'
    /\ \A c \in DOMAIN chunks :
           /\ chunks[c].max_size \in Nat /\ chunks'[c].max_size \in Nat
           /\ chunks[c].max_size <= chunks'[c].max_size

(* Nothing that is over on the walk begins again.                          *)
LEMMA OnWalkFacts ==
    ASSUME Planning, OnWalk
    PROVE  /\ All' = All /\ \A t \in All : T(t)' = T(t) /\ Placed(t)' = Placed(t)
           /\ \A t \in All : Over(t) => Over(t)'
           /\ \A t \in All : (Own(t)' <=> hash'[t].allocated) /\ (Own(t) <=> hash[t].allocated)
           /\ \A t \in All : hash'[t].addr = hash[t].addr => To(t)' = To(t) /\ From(t)' = From(t)
<1>1. All' = All /\ \A t \in All : T(t)' = T(t) /\ Placed(t)' = Placed(t)
    BY DEF OnWalk, All, T, Placed
<1>2. ASSUME NEW t \in All, Over(t)
      PROVE  Over(t)'
    <2>1. \A n, j : Needs(graph, n, j, t)' = Needs(graph, n, j, t)
        BY DEF OnWalk, Needs
    <2> QED
        BY <1>1, <1>2, <2>1 DEF Over, OnWalk
<1>3. \A t \in All : (Own(t)' <=> hash'[t].allocated) /\ (Own(t) <=> hash[t].allocated)
    <2>1. DOMAIN hash = All /\ DOMAIN hash' = All
        BY DEF Planning, OnWalk
    <2> QED
        BY <2>1 DEF Own
<1>4. \A t \in All : hash'[t].addr = hash[t].addr => To(t)' = To(t) /\ From(t)' = From(t)
    BY <1>1 DEF To, From
<1> QED
    BY <1>1, <1>2, <1>3, <1>4

(* A tensor that keeps its address stays in its chunk.                     *)
LEMMA StillSettled ==
    ASSUME Planning, Sound, OnWalk, NEW t \in All, Placed(t), Passed(t),
           hash'[t].addr = hash[t].addr
    PROVE  /\ hash'[t].addr.chunk \in DOMAIN chunks'
           /\ To(t)' <= chunks'[hash'[t].addr.chunk].max_size
<1> DEFINE c == hash[t].addr.chunk
<1>1. c \in DOMAIN chunks /\ To(t) <= chunks[c].max_size
    BY DEF Sound, Settled
<1>2. hash'[t].addr.chunk = c /\ To(t)' = To(t) /\ To(t) \in Nat
    BY OnWalkFacts, PlanningFacts
<1> HIDE DEF c
<1>3. /\ c \in DOMAIN chunks' /\ chunks[c].max_size \in Nat /\ chunks'[c].max_size \in Nat
      /\ chunks[c].max_size <= chunks'[c].max_size
    BY <1>1 DEF OnWalk
<1> QED
    BY <1>1, <1>2, <1>3

(* Nothing is placed: what has given up its memory is over.                *)
LEMMA NothingPlaced ==
    ASSUME Planning, Sound, OnWalk, Counts',
           \A t \in All : hash'[t].addr = hash[t].addr,
           \A t \in All : Placed(t) /\ Passed(t)' => Passed(t),
           \A t \in All : Own(t) /\ ~Own(t)' => Over(t)'
    PROVE  Sound'
<1>1. /\ All' = All /\ \A t \in All : T(t)' = T(t) /\ Placed(t)' = Placed(t)
      /\ \A t \in All : Over(t) => Over(t)'
    BY OnWalkFacts
<1>2. GivenUp'
    <2>1. \A t \in All : Placed(t) /\ Passed(t) /\ ~Own(t) => Over(t)
        BY DEF Sound, GivenUp
    <2> QED
        BY <2>1, <1>1 DEF GivenUp
<1>3. Settled'
    <2> SUFFICES ASSUME NEW t \in All, Placed(t), Passed(t)'
                 PROVE  /\ hash'[t].addr.chunk \in DOMAIN chunks'
                        /\ To(t)' <= chunks'[hash'[t].addr.chunk].max_size
        BY <1>1 DEF Settled
    <2> QED
        BY StillSettled
<1>4. Ordered'
    <2>1. \A t, u \in All :
             Yields(graph, t, u, hash[t].addr = hash[u].addr) =>
             Yields(graph', t, u, hash'[t].addr = hash'[u].addr)
        BY DEF OnWalk
    <2>2. \A t, u \in All :
        /\ t < u /\ Placed(t) /\ Placed(u) /\ Passed(u)
        /\ Meet(hash[t].addr, Aligned(T(t).size), hash[u].addr, Aligned(T(u).size))
        => Yields(graph, t, u, hash[t].addr = hash[u].addr)
        BY DEF Sound, Ordered
    <2>3. \A t, u \in All :
             Meet(hash'[t].addr, Aligned(T(t).size), hash'[u].addr, Aligned(T(u).size)) =>
             Meet(hash[t].addr, Aligned(T(t).size), hash[u].addr, Aligned(T(u).size))
        OBVIOUS
    <2>4. \A t, u \in All :
        /\ t < u /\ Placed(t)' /\ Placed(u)' /\ Passed(u)'
        /\ Meet(hash'[t].addr, Aligned(T(t).size), hash'[u].addr, Aligned(T(u).size))
        => Yields(graph', t, u, hash'[t].addr = hash'[u].addr)
        BY <2>1, <2>2, <2>3, <1>1
    <2> QED
        BY <2>4, <1>1 DEF Ordered
<1> QED
    BY <1>2, <1>3, <1>4 DEF Sound

-----------------------------------------------------------------------------
(* A tensor is placed.                                                     *)

(* Tensor n is placed: a tensor that gives up its memory for it is over    *)
(* but for n.                                                              *)
LEMMA OnePlaced ==
    ASSUME Planning, Sound, Onward, OnWalk, Planning', Counts', NEW n, n = at.tensor,
           Own(n)',
           \A t \in All : Passed(t)' => t <= n,
           \A t \in All \ {n} : hash'[t].addr = hash[t].addr /\ (Own(t)' => Own(t)),
           \A t \in All : Own(t) /\ ~Own(t)' =>
               Over(t)' /\ Yields(graph, t, n, hash[t].addr = hash'[n].addr)
    PROVE  Sound'
<1>1. /\ All' = All /\ \A t \in All : T(t)' = T(t) /\ Placed(t)' = Placed(t)
      /\ \A t \in All : Over(t) => Over(t)'
      /\ \A t \in All : hash'[t].addr = hash[t].addr => To(t)' = To(t) /\ From(t)' = From(t)
    BY OnWalkFacts
<1>2. n \in All /\ n \in Nat /\ \A t \in All : t \in Nat
    BY OnwardFacts, TensorNumbers
<1>3. \A t \in All : Passed(t) <=> t < n
    BY <1>2 DEF Passed, Onward
<1>4. \A t \in All : Passed(t)' => Passed(t) \/ t = n
    BY <1>2, <1>3
<1>5. OwnersApart' /\ OwnersFit'
    BY OwnersDividedNext
<1>6. GivenUp'
    <2>1. \A t \in All : Placed(t) /\ Passed(t) /\ ~Own(t) => Over(t)
        BY DEF Sound, GivenUp
    <2>2. \A t \in All : Placed(t) /\ Passed(t)' /\ ~Own(t)' => Over(t)'
        BY <2>1, <1>1, <1>4
    <2> QED
        BY <2>2, <1>1 DEF GivenUp
<1>7. Settled'
    <2> SUFFICES ASSUME NEW t \in All, Placed(t), Passed(t)'
                 PROVE  /\ hash'[t].addr.chunk \in DOMAIN chunks'
                        /\ To(t)' <= chunks'[hash'[t].addr.chunk].max_size
        BY <1>1 DEF Settled
    <2>1. CASE t = n
        BY <2>1, <1>1, <1>5 DEF OwnersFit
    <2>2. CASE t # n
        BY <2>2, <1>4, StillSettled
    <2> QED
        BY <2>1, <2>2
<1>8. \A t, u \in All :
        /\ t < u /\ Placed(t) /\ Placed(u) /\ Passed(u)'
        /\ Meet(hash'[t].addr, Aligned(T(t).size), hash'[u].addr, Aligned(T(u).size))
        => Yields(graph, t, u, hash'[t].addr = hash'[u].addr)
    <2> SUFFICES ASSUME NEW t \in All, NEW u \in All, t < u, Placed(t), Placed(u), Passed(u)',
                        Meet(hash'[t].addr, Aligned(T(t).size), hash'[u].addr, Aligned(T(u).size))
                 PROVE  Yields(graph, t, u, hash'[t].addr = hash'[u].addr)
        OBVIOUS
    <2>1. CASE u # n
        <3>1. u < n /\ t # n /\ Passed(u)
            BY <2>1, <1>2, <1>3, <1>4
        <3>2. hash'[t].addr = hash[t].addr /\ hash'[u].addr = hash[u].addr
            BY <3>1, <2>1
        <3> QED
            BY <3>1, <3>2 DEF Sound, Ordered
    <2>2. CASE u = n
        <3>1. t # n /\ Passed(t) /\ hash'[t].addr = hash[t].addr
            BY <2>2, <1>2, <1>3
        <3>2. CASE Own(t)'
            <4>1. hash'[t].addr.chunk = hash'[n].addr.chunk
                BY <2>2 DEF Meet
            <4>2. To(t)' <= From(n)' \/ To(n)' <= From(t)'
                BY <4>1, <3>1, <3>2, <1>1, <1>2, <1>5 DEF OwnersApart
            <4>3. /\ To(t)' = hash'[t].addr.offset + Aligned(T(t).size) /\ From(t)' = hash'[t].addr.offset
                  /\ To(n)' = hash'[n].addr.offset + Aligned(T(n).size) /\ From(n)' = hash'[n].addr.offset
                BY <1>1, <1>2 DEF To, From
            <4>4. /\ hash'[t].addr.offset < hash'[n].addr.offset + Aligned(T(n).size)
                  /\ hash'[n].addr.offset < hash'[t].addr.offset + Aligned(T(t).size)
                BY <2>2 DEF Meet
            <4>5. /\ Aligned(T(t).size) \in Nat /\ Aligned(T(n).size) \in Nat
                  /\ hash'[t].addr.offset \in Nat /\ hash'[n].addr.offset \in Nat
                <5>1. hash'[t] \in HashNodes /\ hash'[n] \in HashNodes
                    BY <1>2 DEF OnWalk
                <5> QED
                    BY <5>1, <1>2, PlanningFacts DEF HashNodes, Addresses
            <4> QED
                BY <4>2, <4>3, <4>4, <4>5
        <3>3. CASE ~Own(t)' /\ Own(t)
            BY <3>1, <3>3, <2>2
        <3>4. CASE ~Own(t)' /\ ~Own(t)
            <4>1. Over(t)
                BY <3>1, <3>4 DEF Sound, GivenUp
            <4>2. \A m \in All : m \in Nat /\ (Passed(m) => m < n)
                BY <1>2, <1>3
            <4>3. \A m \in All : \A j \in DOMAIN T(m).src : Needs(graph, m, j, t) => m < n
                BY <4>1, <4>2 DEF Over
            <4> QED
                BY <4>1, <4>3, <2>2 DEF Over, Yields, All, T
        <3> QED
            BY <3>2, <3>3, <3>4
    <2> QED
        BY <2>1, <2>2
<1>9. Ordered'
    <2>1. \A t, u : Yields(graph', t, u, hash'[t].addr = hash'[u].addr)
             <=> Yields(graph, t, u, hash'[t].addr = hash'[u].addr)
        BY DEF OnWalk
    <2> QED
        BY <2>1, <1>1, <1>8 DEF Ordered
<1> QED
    BY <1>6, <1>7, <1>9 DEF Sound

(* The walk goes on without passing a use.                                 *)
LEMMA OnwardOnWalk ==
    ASSUME Planning, Onward
    PROVE  /\ \A n \in All : \A j \in DOMAIN T(n).src : ToCome(n, j)' <=> ToCome(n, j)
           /\ \A t \in All : Passed(t) => Passed(t)'
           /\ \A t \in All : Passed(t)' <=> t <= at.tensor
           /\ at.tensor > graph.leafs => at'.tensor > graph.leafs
<1>1. at \in [tensor : Nat \ {0}, src : Nat] /\ at.src = 0
    BY DEF Planning, Onward
<1>2. at.tensor \in All /\ graph.leafs \in Nat
    BY OnwardFacts, TensorNumbers
<1>3. \A n \in All : n \in Nat /\ \A j \in DOMAIN T(n).src : j \in Nat \ {0}
    BY TensorNumbers
<1>4. CASE at.tensor <= graph.leafs /\ at' = [at EXCEPT !.tensor = @ + 1]
    <2>1. at' = [tensor |-> at.tensor + 1, src |-> 0]
        BY <1>1, <1>4
    <2>2. T(at.tensor).src = <<>>
        BY <1>2, <1>4, LeafFacts DEF Planning, All, T
    <2>3. \A n \in All : \A j \in DOMAIN T(n).src : n # at.tensor
        BY <2>2
    <2>4. ASSUME NEW n \in All, NEW j \in DOMAIN T(n).src
          PROVE  ToCome(n, j)' <=> ToCome(n, j)
        BY <2>1, <2>3, <1>1, <1>3 DEF ToCome
    <2>5. \A t \in All : Passed(t) => Passed(t)'
        BY <2>1, <1>1, <1>3 DEF Passed
    <2>6. \A t \in All : Passed(t)' <=> t <= at.tensor
        BY <2>1, <1>1, <1>3 DEF Passed
    <2> QED
        BY <2>4, <2>5, <2>6, <1>1, <1>4, <1>2
<1>5. CASE at.tensor > graph.leafs /\ at' = [at EXCEPT !.src = 1]
    <2>1. at' = [tensor |-> at.tensor, src |-> 1]
        BY <1>1, <1>5
    <2>4. ASSUME NEW n \in All, NEW j \in DOMAIN T(n).src
          PROVE  ToCome(n, j)' <=> ToCome(n, j)
        <3>1. j \in Nat \ {0}
            BY <1>3
        <3> QED
            BY <3>1, <2>1, <1>1, <1>3 DEF ToCome
    <2>5. \A t \in All : Passed(t) => Passed(t)'
        BY <2>1, <1>1, <1>3 DEF Passed
    <2>6. \A t \in All : Passed(t)' <=> t <= at.tensor
        BY <2>1, <1>1, <1>3 DEF Passed
    <2> QED
        BY <2>1, <2>4, <2>5, <2>6, <1>5
<1> QED
    BY <1>4, <1>5 DEF Onward

(* Counts are right if they and the uses to come stay as they are.         *)
LEMMA SameCounts ==
    ASSUME Planning, Sound, graph' = graph,
           \A n \in All : \A j \in DOMAIN T(n).src : ToCome(n, j)' <=> ToCome(n, j),
           \A t \in All : /\ hash'[t].n_children = hash[t].n_children
                          /\ hash'[t].n_views = hash[t].n_views
    PROVE  Counts'
<1>1. All' = All /\ \A t : Left(t)' = Left(t) /\ ViewsLeft(t)' = ViewsLeft(t)
    BY SameLeft DEF All
<1> QED
    BY <1>1 DEF Sound, Counts

(* The type of chunks.                                                     *)
LEMMA ChunksHaveSizes ==
    ASSUME Planning
    PROVE  \A c \in DOMAIN chunks : chunks[c] \in Chunks /\ chunks[c].max_size \in Nat
<1>1. \A c \in DOMAIN chunks : chunks[c] \in Chunks
    BY ElementOfSeq DEF Planning
<1> QED
    BY <1>1 DEF Chunks

(* After the operands of a node have been dropped, the walk is sound.      *)
LEMMA NodeDoneSound ==
    ASSUME Planning, Sound, NodeDone
    PROVE  Sound'
<1>1. at \in [tensor : Nat \ {0}, src : Nat] /\ hash \in [All -> HashNodes]
    BY DEF Planning
<1>2. at' = [tensor |-> at.tensor + 1, src |-> 0]
    BY DEF NodeDone
<1>3. \A n \in All : /\ n \in Nat /\ Len(T(n).src) \in Nat
                     /\ DOMAIN T(n).src = 1 .. Len(T(n).src)
    BY PlanningFacts
<1>4. ASSUME NEW n \in All, NEW j \in DOMAIN T(n).src
      PROVE  ToCome(n, j)' <=> ToCome(n, j)
    <2>1. j \in Nat /\ j <= Len(T(n).src)
        BY <1>3
    <2>2. at.src = Len(T(at.tensor).src) + 1
        BY DEF NodeDone
    <2>3. n = at.tensor => j < at.src
        BY <2>1, <2>2, <1>3
    <2> QED
        BY <2>1, <2>3, <1>1, <1>2, <1>3 DEF ToCome
<1>5. \A t \in All : Passed(t)' <=> Passed(t)
    <2>1. at.src # 0
        <3>1. at.tensor \in All
            <4>1. All = 1 .. Len(graph.tensors) /\ Len(graph.tensors) \in Nat
                BY PlanningFacts
            <4> QED
                BY <4>1, <1>1 DEF NodeDone, Walking
        <3> QED
            BY <3>1, <1>3 DEF NodeDone
    <2> QED
        BY <2>1, <1>1, <1>2, <1>3 DEF Passed
<1>7. \A c \in DOMAIN chunks : chunks[c].max_size \in Nat
    BY ChunksHaveSizes
<1>8. OnWalk
    <2>1. at.tensor > graph.leafs => at'.tensor > graph.leafs
        BY <1>1, <1>2, PlanningFacts
    <2>2. chunks' = chunks /\ hash' = hash /\ graph' = graph
        BY DEF NodeDone
    <2> QED
        BY <2>1, <2>2, <1>1, <1>5, <1>7 DEF OnWalk
<1>9. Counts'
    BY <1>4, SameCounts DEF NodeDone
<1>10. \A t \in All : Own(t)' = Own(t)
    BY SMTT(60) DEF NodeDone, Own
<1> QED
    BY <1>5, <1>8, <1>9, <1>10, NothingPlaced DEF NodeDone

(* An operand that may be reused is needed by nothing that is to come but  *)
(* the node.                                                               *)
LEMMA ReuseIsLast ==
    ASSUME Planning, Sound, Onward, NEW n, n = at.tensor, NEW i \in DOMAIN T(n).src,
           NEW p, p = T(n).src[i], Reusable(n, p),
           NEW m \in All, NEW j \in DOMAIN T(m).src, Needs(graph, m, j, p)
    PROVE  m < n \/ (m = n /\ T(n).src[j] = p)
<1>1. n \in All /\ at.src = 0 /\ p \in All
    BY OnwardFacts, TensorNumbers DEF Onward
<1>2. n \in Nat \ {0} /\ m \in Nat \ {0} /\ j \in Nat \ {0} /\ i \in Nat \ {0}
    <2>1. \A t \in All : t \in Nat \ {0} /\ \A k \in DOMAIN T(t).src : k \in Nat \ {0}
        BY TensorNumbers
    <2> QED
        BY <2>1, <1>1
<1>3. /\ hash[p].n_children = 1 /\ hash[p].n_views = 0
      /\ Cardinality(Left(p)) <= 1 /\ Cardinality(ViewsLeft(p)) <= 0
    BY <1>1 DEF Reusable, Sound, Counts
<1>4. \A x \in Left(p) : Left(p) = {x}
    BY <1>3, LeftFinite, FewElements
<1>5. ViewsLeft(p) = {}
    BY <1>3, LeftFinite, FewElements
<1>6. ToCome(n, i) /\ <<n, i>> \in Left(p)
    <2>1. ToCome(n, i)
        BY <1>1, <1>2 DEF ToCome
    <2> QED
        BY <2>1, <1>1, UseIsLeft
<1>7. ~ToCome(m, j) => m < n
    BY <1>1, <1>2 DEF ToCome
<1>8. CASE T(m).src[j] = p /\ ToCome(m, j)
    <2>1. <<m, j>> \in Left(p)
        BY <1>8, UseIsLeft
    <2>2. <<m, j>> = <<n, i>>
        BY <2>1, <1>4, <1>6
    <2> QED
        BY <2>2
<1>9. CASE T(T(m).src[j]).view = p /\ ToCome(m, j)
    <2> DEFINE o == T(m).src[j]
    <2>1. o \in All
        BY PlanningFacts
    <2>2. <<m, j>> \in Left(o)
        BY <1>9, UseIsLeft
    <2>3. o \in ViewsLeft(p)
        BY <2>1, <2>2, <1>9 DEF ViewsLeft
    <2> QED
        BY <2>3, <1>5
<1> QED
    BY <1>7, <1>8, <1>9 DEF Needs, T

(* Bytes are placed at w, and what that leaves of the chunks there were.   *)
Takes(w, size) == chunks' = [w.chunks EXCEPT ![w.chunk] = Take(@, w.block, size)]
Grown ==
    /\ DOMAIN chunks \subseteq DOMAIN chunks'
    /\ \A c \in DOMAIN chunks :
          /\ chunks[c].max_size \in Nat /\ chunks'[c].max_size \in Nat
          /\ chunks[c].max_size <= chunks'[c].max_size

(* Where bytes are placed the chunks there were stay, and do not shrink.   *)
LEMMA ChunksGrow ==
    ASSUME Planning, NEW size \in Nat \ {0}, size <= Endless,
           NEW w, w = Place(chunks, size), Takes(w, size)
    PROVE  Grown
<1>1. chunks \in Seq(Chunks) /\ Len(chunks) \in Nat /\ DOMAIN chunks = 1 .. Len(chunks)
    BY LenProperties DEF Planning
<1>2. /\ w.chunks \in Seq(Chunks) /\ w.chunk \in DOMAIN w.chunks
      /\ w.block \in w.chunks[w.chunk].free
      /\ \/ w.chunks = chunks
         \/ w.chunks = Append(chunks, NewChunk(chunks, size)) /\ w.chunk = Len(chunks) + 1
    BY <1>1, PlaceGives
<1>3. /\ DOMAIN chunks \subseteq DOMAIN w.chunks
      /\ \A c \in DOMAIN chunks : w.chunks[c] = chunks[c]
    <2>1. CASE w.chunks = chunks
        BY <2>1
    <2>2. CASE w.chunks = Append(chunks, NewChunk(chunks, size))
        <3> DEFINE new == NewChunk(chunks, size)
        <3> HIDE DEF new
        <3>1. w.chunks = Append(chunks, new)
            BY <2>2 DEF new
        <3> QED
            BY <3>1, <1>1
    <2> QED
        BY <2>1, <2>2, <1>2
<1>4. \A c \in DOMAIN w.chunks : w.chunks[c] \in Chunks
    BY <1>2, ElementOfSeq
<1>5. ASSUME NEW chunk \in Chunks, NEW b \in chunk.free
      PROVE  /\ chunk.max_size \in Nat /\ Take(chunk, b, size).max_size \in Nat
             /\ chunk.max_size <= Take(chunk, b, size).max_size
    <2>1. chunk.max_size \in Nat /\ b.offset \in Nat
        BY DEF Chunks, Blocks
    <2>2. Take(chunk, b, size).max_size = Larger(chunk.max_size, b.offset + size)
        BY DEF Take
    <2> QED
        BY <2>1, <2>2 DEF Larger
<1>6. /\ DOMAIN chunks' = DOMAIN w.chunks
      /\ chunks'[w.chunk] = Take(w.chunks[w.chunk], w.block, size)
      /\ \A c \in DOMAIN w.chunks : c # w.chunk => chunks'[c] = w.chunks[c]
    BY <1>2 DEF Takes
<1>7. ASSUME NEW c \in DOMAIN chunks
      PROVE  /\ chunks[c].max_size \in Nat /\ chunks'[c].max_size \in Nat
             /\ chunks[c].max_size <= chunks'[c].max_size
    <2>1. w.chunks[c] \in Chunks /\ c \in DOMAIN w.chunks /\ w.chunks[c] = chunks[c]
        BY <1>3, <1>4
    <2>2. CASE c = w.chunk
        BY <2>1, <2>2, <1>2, <1>5, <1>6
    <2>3. CASE c # w.chunk
        <3>1. chunks'[c] = chunks[c]
            BY <2>1, <2>3, <1>6
        <3> QED
            BY <3>1, ChunksHaveSizes
    <2> QED
        BY <2>2, <2>3
<1> QED
    BY <1>3, <1>6, <1>7 DEF Grown

(* Leafs have no operands.                                                 *)
LEMMA LeafsHaveNoSrc ==
    ASSUME Planning
    PROVE  \A t \in All : t <= graph.leafs => DOMAIN T(t).src = {}
BY LeafFacts DEF Planning, All, T

(* What the step that places tensor n passes and leaves to come.           *)
LEMMA PlacingFacts ==
    ASSUME Planning, Onward, Planning', NEW n, n = at.tensor
    PROVE  /\ n \in All /\ n \in Nat /\ graph' = graph /\ All' = All
           /\ hash \in [All -> HashNodes] /\ hash' \in [All -> HashNodes]
           /\ \A m \in All : \A j \in DOMAIN T(m).src : ToCome(m, j)' <=> ToCome(m, j)
           /\ \A t \in All : Passed(t) => Passed(t)'
           /\ \A t \in All : Passed(t)' <=> t <= n
           /\ n > graph.leafs => at'.tensor > graph.leafs
           /\ \A t \in All : Passed(t) <=> t < n
           /\ \A t \in All : (Own(t)' <=> hash'[t].allocated) /\ (Own(t) <=> hash[t].allocated)
<1>1. /\ n \in All /\ n \in Nat /\ graph' = graph /\ All' = All /\ hash \in [All -> HashNodes]
      /\ hash' \in [All -> HashNodes]
    <2>1. graph' = graph
        BY DEF Onward
    <2>2. All' = All
        BY <2>1 DEF All
    <2> QED
        BY <2>1, <2>2, OnwardFacts, PlanningFacts DEF Planning
<1>2. /\ \A m \in All : \A j \in DOMAIN T(m).src : ToCome(m, j)' <=> ToCome(m, j)
      /\ \A t \in All : Passed(t) => Passed(t)'
      /\ \A t \in All : Passed(t)' <=> t <= n
      /\ n > graph.leafs => at'.tensor > graph.leafs
    BY OnwardOnWalk
<1>3. \A t \in All : Passed(t) <=> t < n
    BY TensorNumbers, <1>1 DEF Passed, Onward
<1>4. \A t \in All : (Own(t)' <=> hash'[t].allocated) /\ (Own(t) <=> hash[t].allocated)
    <2>1. DOMAIN hash = All /\ DOMAIN hash' = All
        BY <1>1
    <2> QED
        BY <2>1 DEF Own
<1> QED
    BY <1>1, <1>2, <1>3, <1>4

(* A step that leaves the chunks alone goes on.                            *)
LEMMA SameChunksOnWalk ==
    ASSUME Planning, graph' = graph, hash' \in [All -> HashNodes], chunks' = chunks,
           at.tensor > graph.leafs => at'.tensor > graph.leafs,
           \A t \in All : Passed(t) => Passed(t)'
    PROVE  OnWalk
BY ChunksHaveSizes DEF OnWalk

(* A view, or a tensor whose data is elsewhere, is passed without memory.  *)
LEMMA NodeSkipped ==
    ASSUME Planning, Sound, Onward, Planning', NEW n, n = at.tensor, ~Placed(n),
           chunks' = chunks, hash' = hash
    PROVE  Sound'
<1>1. /\ n \in All /\ n \in Nat /\ graph' = graph /\ All' = All
      /\ hash \in [All -> HashNodes] /\ hash' \in [All -> HashNodes]
      /\ \A m \in All : \A j \in DOMAIN T(m).src : ToCome(m, j)' <=> ToCome(m, j)
      /\ \A t \in All : Passed(t) => Passed(t)'
      /\ \A t \in All : Passed(t)' <=> t <= n
      /\ n > graph.leafs => at'.tensor > graph.leafs
      /\ \A t \in All : Passed(t) <=> t < n
      /\ \A t \in All : (Own(t)' <=> hash'[t].allocated) /\ (Own(t) <=> hash[t].allocated)
    BY PlacingFacts
<1>2. OnWalk
    BY <1>1, ChunksHaveSizes DEF OnWalk
<1>3. Counts'
    BY <1>1, SameCounts
<1>4. \A t \in All : Placed(t) /\ Passed(t)' => Passed(t)
    <2>1. \A t \in All : Placed(t) => t # n
        OBVIOUS
    <2>2. \A t \in All : t \in Nat
        BY TensorNumbers
    <2> QED
        BY <2>1, <2>2, <1>1
<1>5. \A t \in All : Own(t)' = Own(t)
    BY DEF Own
<1> QED
    BY <1>2, <1>3, <1>4, <1>5, NothingPlaced

(* A node that is placed has its place behind the leafs if it has an       *)
(* operand, and the operand has its place before it.                       *)
LEMMA NodeOperand ==
    ASSUME Planning, NEW n \in All, NEW i \in DOMAIN T(n).src, NEW p, p = T(n).src[i]
    PROVE  /\ p \in All /\ p < n /\ p # n /\ p \in Nat /\ n \in Nat
           /\ graph.leafs \in Nat /\ n > graph.leafs
<1>1. (\A t \in All : t \in Nat) /\ graph.leafs \in Nat
    BY TensorNumbers
<1>2. p \in All /\ p < n
    BY TensorNumbers
<1>3. n \in Nat /\ p \in Nat
    BY <1>1, <1>2
<1>4. ~(n <= graph.leafs)
    BY LeafsHaveNoSrc
<1> QED
    BY <1>1, <1>2, <1>3, <1>4

(* What changes in hash where the node n is written over its operand p: n  *)
(* owns the address p had, and p owns nothing any more.                    *)
Overwritten(n, p) ==
    /\ hash'[n].allocated = TRUE /\ hash'[n].addr = hash[p].addr
    /\ hash'[p].allocated = FALSE
    /\ \A t \in All \ {n} : hash'[t].addr = hash[t].addr
    /\ \A t \in All \ {n, p} : hash'[t].allocated = hash[t].allocated
    /\ \A t \in All : /\ hash'[t].n_children = hash[t].n_children
                      /\ hash'[t].n_views = hash[t].n_views

(* The node n is given the address addr, and what that changes in hash.    *)
GivesMemory(n, addr) == hash' = [hash EXCEPT ![n].allocated = TRUE, ![n].addr = addr]
GivenMemory(n) ==
    /\ hash'[n].allocated = TRUE
    /\ \A t \in All \ {n} : hash'[t] = hash[t]
    /\ \A t \in All : /\ hash'[t].n_children = hash[t].n_children
                      /\ hash'[t].n_views = hash[t].n_views

(* What changes where a node is written over its operand: the node owns    *)
(* the address the operand had, and the operand owns nothing any more.     *)
LEMMA OverChanges ==
    ASSUME NEW H, H = All, hash \in [H -> HashNodes], NEW n \in H, NEW p \in H, p # n,
           Overwrites(n, p)
    PROVE  Overwritten(n, p)
<1> DEFINE a == [hash[n] EXCEPT !.allocated = TRUE, !.addr = hash[p].addr]
           b == [hash[p] EXCEPT !.allocated = FALSE]
<1>1. hash[n] \in HashNodes /\ hash[p] \in HashNodes
    OBVIOUS
<1>2. /\ a.allocated = TRUE /\ a.addr = hash[p].addr
      /\ a.n_children = hash[n].n_children /\ a.n_views = hash[n].n_views
      /\ b.allocated = FALSE /\ b.addr = hash[p].addr
      /\ b.n_children = hash[p].n_children /\ b.n_views = hash[p].n_views
    BY <1>1 DEF HashNodes
<1>3. hash' = [hash EXCEPT ![n] = a, ![p] = b]
    BY DEF Overwrites
<1> HIDE DEF a, b
<1>4. /\ hash'[n] = a /\ hash'[p] = b
      /\ \A t \in H \ {n, p} : hash'[t] = hash[t]
    BY <1>3
<1> QED
    BY ONLY <1>2, <1>4, H = All DEF Overwritten

(* A reusable operand yields to the node that is written over it.          *)
LEMMA OperandYields ==
    ASSUME Planning, Sound, Onward, NEW n, n = at.tensor,
           NEW i \in DOMAIN T(n).src, NEW p, p = T(n).src[i],
           T(n).inplace, Reusable(n, p), NEW same, same = TRUE
    PROVE  Yields(graph, p, n, same)
<1>1. n > graph.leafs
    BY OnwardFacts, NodeOperand
<1>2. \A m \in All : \A k \in DOMAIN T(m).src :
          Needs(graph, m, k, p) => m < n \/ (m = n /\ T(n).src[k] = p)
    BY ReuseIsLast
<1>3. ~T(p).output /\ T(p).size = T(n).size
    BY DEF Reusable
<1> QED
    BY ONLY <1>1, <1>2, <1>3, T(n).inplace, same = TRUE, SMTT(60) DEF Yields, All, T

(* And once the walk has passed the node, the operand is over.             *)
LEMMA OperandOver ==
    ASSUME Planning, Sound, Onward, graph' = graph, NEW n, n = at.tensor,
           NEW i \in DOMAIN T(n).src, NEW p, p = T(n).src[i], Reusable(n, p),
           n > graph.leafs => at'.tensor > graph.leafs,
           \A t \in All : Passed(t)' <=> t <= n
    PROVE  Over(p)'
<1>1. n \in All /\ n \in Nat /\ n > graph.leafs
    BY OnwardFacts, NodeOperand
<1>2. All' = All /\ \A m \in All : T(m)' = T(m)
    BY DEF All, T
<1>3. \A m, k : Needs(graph, m, k, p)' <=> Needs(graph, m, k, p)
    BY DEF Needs
<1>4. \A m \in All : \A k \in DOMAIN T(m).src :
          Needs(graph, m, k, p) => m < n \/ (m = n /\ T(n).src[k] = p)
    BY ReuseIsLast
<1>5. ASSUME NEW m \in All, m < n \/ m = n
      PROVE  Passed(m)'
    <2>1. m \in Nat
        BY TensorNumbers
    <2>2. m <= n
        BY ONLY <2>1, <1>1, <1>5
    <2> QED
        BY <2>2
<1>6. \A m \in All : \A k \in DOMAIN T(m).src : Needs(graph, m, k, p) => Passed(m)'
    BY ONLY <1>4, <1>5, SMTT(60)
<1>7. T(p)' = T(p) /\ ~T(p).output
    BY ONLY graph' = graph, Reusable(n, p), SMTT(60) DEF Reusable, T
<1> QED
    BY <1>1, <1>2, <1>3, <1>6, <1>7 DEF Over

(* A node is written over an operand.                                      *)
LEMMA NodeOver ==
    ASSUME Planning, Sound, Onward, Planning', NEW n, n = at.tensor,
           NEW i \in DOMAIN T(n).src, NEW p, p = T(n).src[i],
           T(n).inplace, Reusable(n, p), chunks' = chunks,
           Overwritten(n, p)
    PROVE  Sound'
<1>1. /\ n \in All /\ n \in Nat /\ graph' = graph /\ All' = All
      /\ hash \in [All -> HashNodes] /\ hash' \in [All -> HashNodes]
      /\ \A m \in All : \A j \in DOMAIN T(m).src : ToCome(m, j)' <=> ToCome(m, j)
      /\ \A t \in All : Passed(t) => Passed(t)'
      /\ \A t \in All : Passed(t)' <=> t <= n
      /\ n > graph.leafs => at'.tensor > graph.leafs
      /\ \A t \in All : (Own(t)' <=> hash'[t].allocated) /\ (Own(t) <=> hash[t].allocated)
    BY PlacingFacts
<1>2. p \in All /\ p # n
    BY <1>1, NodeOperand
<1>3. OnWalk
    BY <1>1, SameChunksOnWalk
<1>4. Counts'
    BY <1>1, SameCounts DEF Overwritten
<1>5. \A t \in All : Own(t) /\ ~Own(t)' => t = p
    BY <1>1, <1>2 DEF Overwritten
<1>6. \A t \in All \ {n} : hash'[t].addr = hash[t].addr /\ (Own(t)' => Own(t))
    BY <1>1, <1>2 DEF Overwritten
<1>7. Own(n)'
    BY <1>1 DEF Overwritten
<1>8. Over(p)'
    BY <1>1, OperandOver
<1>9. Yields(graph, p, n, hash[p].addr = hash'[n].addr)
    <2> DEFINE same == hash[p].addr = hash'[n].addr
    <2>1. same = TRUE
        BY DEF Overwritten
    <2> HIDE DEF same
    <2>2. Yields(graph, p, n, same)
        BY <2>1, OperandYields
    <2> QED
        BY <2>2 DEF same
<1>10. \A t \in All : Own(t) /\ ~Own(t)' =>
           Over(t)' /\ Yields(graph, t, n, hash[t].addr = hash'[n].addr)
    BY ONLY <1>5, <1>8, <1>9
<1>11. \A t \in All : Passed(t)' => t <= n
    BY <1>1
<1> QED
    BY <1>3, <1>4, <1>6, <1>7, <1>10, <1>11, OnePlaced

(* What changes where a node is given memory of its own.                   *)
LEMMA AnewChanges ==
    ASSUME NEW H, H = All, hash \in [H -> HashNodes], NEW n \in H, NEW addr,
           GivesMemory(n, addr)
    PROVE  GivenMemory(n)
<1> DEFINE a == [hash[n] EXCEPT !.allocated = TRUE, !.addr = addr]
<1>1. hash[n] \in HashNodes
    OBVIOUS
<1>2. /\ a.allocated = TRUE
      /\ a.n_children = hash[n].n_children /\ a.n_views = hash[n].n_views
    BY <1>1 DEF HashNodes
<1>3. hash' = [hash EXCEPT ![n] = a]
    BY DEF GivesMemory
<1> HIDE DEF a
<1>4. hash'[n] = a /\ \A t \in H \ {n} : hash'[t] = hash[t]
    BY <1>3
<1> QED
    BY ONLY <1>2, <1>4, H = All DEF GivenMemory

(* A node is given memory of its own.                                      *)
LEMMA NodeAnew ==
    ASSUME Planning, Sound, Onward, Planning', NEW n, n = at.tensor,
           GivenMemory(n), Grown
    PROVE  Sound'
<1>1. /\ n \in All /\ n \in Nat /\ graph' = graph /\ All' = All
      /\ hash \in [All -> HashNodes] /\ hash' \in [All -> HashNodes]
      /\ \A m \in All : \A j \in DOMAIN T(m).src : ToCome(m, j)' <=> ToCome(m, j)
      /\ \A t \in All : Passed(t) => Passed(t)'
      /\ \A t \in All : Passed(t)' <=> t <= n
      /\ n > graph.leafs => at'.tensor > graph.leafs
      /\ \A t \in All : (Own(t)' <=> hash'[t].allocated) /\ (Own(t) <=> hash[t].allocated)
    BY PlacingFacts
<1>2. OnWalk
    BY <1>1 DEF OnWalk, Grown
<1>3. Counts'
    BY <1>1, SameCounts DEF GivenMemory
<1>4. \A t \in All : Own(t) => Own(t)'
    BY <1>1 DEF GivenMemory
<1>5. \A t \in All \ {n} : hash'[t].addr = hash[t].addr /\ (Own(t)' => Own(t))
    BY <1>1 DEF GivenMemory
<1>6. Own(n)'
    BY <1>1 DEF GivenMemory
<1>7. \A t \in All : Passed(t)' => t <= n
    BY <1>1
<1> QED
    BY <1>2, <1>3, <1>4, <1>5, <1>6, <1>7, OnePlaced

(* Placing a tensor is sound, whether it is skipped, written over an       *)
(* operand or given memory of its own (ggml_gallocr_allocate_node).        *)
LEMMA AllocateNodeSound ==
    ASSUME Planning, Sound, Onward, AllocateNode(at.tensor), Planning'
    PROVE  Sound'
<1> DEFINE n == at.tensor
           reuse == {j \in DOMAIN T(n).src : T(n).inplace /\ Reusable(n, T(n).src[j])}
           first == T(n).src[CHOOSE j \in reuse : \A i \in reuse : j <= i]
           new == AllocBytes(chunks, T(n).size)
<1>1. n \in All /\ n = at.tensor
    BY OnwardFacts
<1>2. hash \in [All -> HashNodes]
    BY DEF Planning
<1>5. CASE ~Placed(n)
    <2>1. chunks' = chunks /\ hash' = hash
        BY ONLY <1>5, AllocateNode(at.tensor), ZenonT(60) DEF AllocateNode, n
    <2> HIDE DEF n
    <2> QED
        BY ONLY Planning, Sound, Onward, Planning', <2>1, <1>1, <1>5, NodeSkipped, ZenonT(60)
<1>6. CASE Placed(n) /\ reuse # {}
    <2>1. PICK j \in reuse : \A i \in reuse : j <= i
        <3>1. reuse \in SUBSET Nat
            BY <1>1, TensorNumbers
        <3> QED
            BY ONLY <3>1, <1>6, LeastOf
    <2>2. PICK i \in reuse : first = T(n).src[i]
        BY ONLY <2>1, ZenonT(60)
    <2>3. Overwrites(n, first) /\ chunks' = chunks
        BY <1>6, ZenonT(60) DEF AllocateNode, Overwrites
    <2> DEFINE p == first
    <2>4. i \in DOMAIN T(n).src /\ p = T(n).src[i] /\ T(n).inplace /\ Reusable(n, p)
        BY ONLY <2>2
    <2>5. Overwrites(n, p) /\ chunks' = chunks
        BY ONLY <2>3
    <2> HIDE DEF p, n
    <2>6. p \in All /\ p # n
        BY ONLY Planning, <1>1, <2>4, NodeOperand
    <2>7. Overwritten(n, p)
        BY ONLY <1>1, <1>2, <2>5, <2>6, OverChanges
    <2> QED
        BY ONLY Planning, Sound, Onward, Planning', <1>1, <2>4, <2>5, <2>7, NodeOver
<1>7. CASE Placed(n) /\ reuse = {}
    <2> DEFINE size == Aligned(T(n).size)
               w == Place(chunks, size)
               addr == new.addr
    <2>1. GivesMemory(n, addr) /\ chunks' = new.chunks
        BY <1>7, ZenonT(60) DEF AllocateNode, GivesMemory
    <2>2. Takes(w, size)
        BY <2>1 DEF AllocBytes, Takes
    <2>3. size \in Nat \ {0} /\ size <= Endless /\ w = Place(chunks, size)
        BY <1>1, PlanningFacts
    <2> HIDE DEF size, w, addr, n
    <2>4. GivenMemory(n)
        BY ONLY <1>1, <1>2, <2>1, AnewChanges
    <2>5. Grown
        BY ONLY Planning, <2>2, <2>3, ChunksGrow
    <2> QED
        BY ONLY Planning, Sound, Onward, Planning', <1>1, <2>4, <2>5, NodeAnew, ZenonT(60)
<1> QED
    BY <1>5, <1>6, <1>7

-----------------------------------------------------------------------------
(* An operand is dropped.                                                  *)

(* Tensors and operands are numbers.                                       *)
LEMMA UseNumbers ==
    ASSUME Planning
    PROVE  \A t \in All : t \in Nat /\ \A i \in DOMAIN T(t).src : i \in Nat
BY TensorNumbers

(* A tensor whose counts are down to nothing is not needed any more.       *)
LEMMA CountedDown == Planning /\ Counts => NoneToCome
<1> SUFFICES ASSUME Planning, Counts, NEW t \in All,
                    hash[t].n_children = 0, hash[t].n_views = 0,
                    NEW m \in All, NEW j \in DOMAIN T(m).src, Needs(graph, m, j, t)
             PROVE  ~ToCome(m, j)
    BY DEF NoneToCome
<1>1. Cardinality(Left(t)) <= 0 /\ Cardinality(ViewsLeft(t)) <= 0
    BY DEF Counts
<1>2. Left(t) = {} /\ ViewsLeft(t) = {}
    BY <1>1, LeftFinite, FewElements
<1>3. CASE T(m).src[j] = t
    BY <1>2, <1>3, UseIsLeft
<1>4. CASE T(T(m).src[j]).view = t
    <2> DEFINE o == T(m).src[j]
    <2>1. o \in All
        BY PlanningFacts, SMTT(60)
    <2>2. ToCome(m, j) => <<m, j>> \in Left(o)
        BY UseIsLeft
    <2>3. ToCome(m, j) => o \in ViewsLeft(t)
        BY <2>1, <2>2, <1>4 DEF ViewsLeft
    <2> QED
        BY <2>3, <1>2
<1> QED
    BY <1>3, <1>4 DEF Needs, T

(* And so after a step that keeps the counts.                              *)
LEMMA CountedDownNext == Planning' /\ Counts' => NoneToCome'
BY CountedDown, PTL

(* A use is dropped: it is not to come any more.                           *)
LEMMA UseDropped ==
    ASSUME Planning, Sound, graph' = graph, at' = [at EXCEPT !.src = @ + 1],
           NEW n \in All, n = at.tensor, NEW k \in DOMAIN T(n).src, k = at.src
    PROVE  /\ \A m \in All : \A j \in DOMAIN T(m).src :
                 ToCome(m, j)' <=> ToCome(m, j) /\ <<m, j>> # <<n, k>>
           /\ \A t : Left(t)' = Left(t) \ {<<n, k>>}
           /\ \A t : ViewsLeft(t)' \subseteq ViewsLeft(t)
           /\ <<n, k>> \in Left(T(n).src[k])
<1>1. /\ at \in [tensor : Nat \ {0}, src : Nat]
      /\ All' = All /\ \A t \in All : T(t)' = T(t)
    BY DEF Planning, All, T
<1>2. at' = [tensor |-> n, src |-> k + 1]
    BY <1>1
<1>3. ASSUME NEW m \in All, NEW j \in DOMAIN T(m).src
      PROVE  ToCome(m, j)' <=> ToCome(m, j) /\ <<m, j>> # <<n, k>>
    <2>1. m \in Nat /\ j \in Nat /\ n \in Nat /\ k \in Nat
        BY UseNumbers
    <2>2. ToCome(m, j)' <=> m > n \/ (m = n /\ j >= k + 1)
        BY <1>2 DEF ToCome
    <2>3. ToCome(m, j) <=> m > n \/ (m = n /\ j >= k)
        BY DEF ToCome
    <2>4. <<m, j>> = <<n, k>> <=> m = n /\ j = k
        OBVIOUS
    <2> QED
        BY <2>1, <2>2, <2>3, <2>4
<1>4. ASSUME NEW t
      PROVE  Left(t)' = Left(t) \ {<<n, k>>}
    <2>1. Uses(graph, t)' = Uses(graph, t)
        OBVIOUS
    <2>2. \A use \in Uses(graph, t) :
              /\ use[1] \in All /\ use[2] \in DOMAIN T(use[1]).src
              /\ use = <<use[1], use[2]>>
        BY DEF Uses, All, T
    <2>3. \A use \in Uses(graph, t) :
              ToCome(use[1], use[2])' <=> ToCome(use[1], use[2]) /\ use # <<n, k>>
        BY <2>2, <1>3
    <2> QED
        BY <2>1, <2>3 DEF Left
<1>5. \A t : ViewsLeft(t)' \subseteq ViewsLeft(t)
    <2>1. \A v : Left(v)' # {} => Left(v) # {}
        BY <1>4
    <2> QED
        BY <2>1, <1>1 DEF ViewsLeft
<1>6. <<n, k>> \in Left(T(n).src[k])
    <2>1. ToCome(n, k)
        BY <1>1 DEF ToCome
    <2> QED
        BY <2>1, UseIsLeft
<1> QED
    BY <1>3, <1>4, <1>5, <1>6

(* The counts after it: one child less, and one view less of the tensor    *)
(* the operand was a view of, if nobody needs the operand any more.        *)
Recount(p) ==
    \A t \in All :
        /\ hash'[t].n_children = IF t = p THEN hash[t].n_children - 1
                                 ELSE hash[t].n_children
        /\ \/ hash'[t].n_views = hash[t].n_views
           \/ /\ T(p).view = t /\ hash'[p].n_children = 0
              /\ hash'[t].n_views = hash[t].n_views - 1

(* The counts after a use was dropped are not below what is to come.       *)
LEMMA CountsAfterDrop ==
    ASSUME Planning, Sound, graph' = graph, at' = [at EXCEPT !.src = @ + 1],
           NEW n \in All, n = at.tensor, NEW k \in DOMAIN T(n).src, k = at.src,
           NEW p \in All, p = T(n).src[k], Recount(p)
    PROVE  Counts'
<1>1. /\ \A t : Left(t)' = Left(t) \ {<<n, k>>}
      /\ \A t : ViewsLeft(t)' \subseteq ViewsLeft(t)
      /\ <<n, k>> \in Left(p)
    BY UseDropped
<1>2. \A t \in All : /\ hash[t].n_children \in Int /\ hash[t].n_views \in Int
                     /\ Cardinality(Left(t)) <= hash[t].n_children
                     /\ Cardinality(ViewsLeft(t)) <= hash[t].n_views
    <2>1. \A t \in All : hash[t] \in HashNodes
        BY PlanningFacts
    <2> QED
        BY <2>1 DEF HashNodes, Sound, Counts
<1>3. ASSUME NEW t \in All
      PROVE  Cardinality(Left(t)') <= hash'[t].n_children
    <2>1. CASE t = p
        <3>1. Left(t)' \in SUBSET (Left(t) \ {<<n, k>>})
            BY <1>1
        <3>2. Cardinality(Left(t)') <= hash[t].n_children - 1
            BY <3>1, <2>1, <1>1, <1>2, LeftFinite, FewElements
        <3> QED
            BY <3>2, <2>1 DEF Recount
    <2>2. CASE t # p
        <3>1. Left(t)' \in SUBSET Left(t)
            BY <1>1
        <3>2. Cardinality(Left(t)') <= hash[t].n_children
            BY <3>1, <1>2, LeftFinite, FewElements
        <3> QED
            BY <3>2, <2>2 DEF Recount
    <2> QED
        BY <2>1, <2>2
<1>4. hash'[p].n_children = 0 => Left(p)' = {}
    <2>1. IsFiniteSet(Left(p)')
        BY <1>1, LeftFinite, FS_RemoveElement
    <2>2. Cardinality(Left(p)') <= hash'[p].n_children
        BY <1>3
    <2> QED
        BY <2>1, <2>2, FewElements
<1>5. ASSUME NEW t \in All
      PROVE  Cardinality(ViewsLeft(t)') <= hash'[t].n_views
    <2>1. CASE hash'[t].n_views = hash[t].n_views
        <3>1. ViewsLeft(t)' \in SUBSET ViewsLeft(t)
            BY <1>1
        <3> QED
            BY <3>1, <2>1, <1>2, LeftFinite, FewElements
    <2>2. CASE /\ T(p).view = t /\ hash'[p].n_children = 0
               /\ hash'[t].n_views = hash[t].n_views - 1
        <3>1. p \in ViewsLeft(t)
            BY <2>2, <1>1, SMTT(60) DEF ViewsLeft
        <3>2. p \notin ViewsLeft(t)'
            BY <2>2, <1>4 DEF ViewsLeft
        <3>3. ViewsLeft(t)' \in SUBSET (ViewsLeft(t) \ {p})
            BY <3>2, <1>1
        <3>4. Cardinality(ViewsLeft(t)') <= hash[t].n_views - 1
            BY <3>1, <3>3, <1>2, LeftFinite, FewElements
        <3> QED
            BY <3>4, <2>2
    <2> QED
        BY <2>1, <2>2 DEF Recount
<1>6. All' = All
    BY DEF All
<1> QED
    BY <1>3, <1>5, <1>6 DEF Counts

(* Freeing a node (ggml_gallocr_free_node).                                *)
LEMMA FreeNodeDoes ==
    ASSUME Planning, NEW h \in [All -> HashNodes], NEW t \in All, FreeNode(h, t)
    PROVE  /\ \A u \in All :
                 /\ hash'[u].addr = h[u].addr
                 /\ hash'[u].n_children = h[u].n_children /\ hash'[u].n_views = h[u].n_views
                 /\ u # t => hash'[u].allocated = h[u].allocated
           /\ hash'[t].allocated # h[t].allocated => ~T(t).output
           /\ DOMAIN chunks' = DOMAIN chunks
           /\ \A c \in DOMAIN chunks : chunks'[c].max_size = chunks[c].max_size
<1>1. CASE T(t).output
    BY <1>1 DEF FreeNode
<1>2. CASE ~T(t).output
    <2>1. /\ hash' = [h EXCEPT ![t].allocated = FALSE]
          /\ chunks' = FreeBytes(chunks, h[t].addr, T(t).size)
        BY <1>2 DEF FreeNode
    <2> DEFINE node == [h[t] EXCEPT !.allocated = FALSE]
    <2>2. hash' = [h EXCEPT ![t] = node]
        BY <2>1
    <2>3. /\ node.addr = h[t].addr /\ node.n_children = h[t].n_children
          /\ node.n_views = h[t].n_views
        BY DEF HashNodes
    <2> HIDE DEF node
    <2>4. hash'[t] = node /\ \A u \in All : u # t => hash'[u] = h[u]
        BY <2>2
    <2>5. \A u \in All :
              /\ hash'[u].addr = h[u].addr
              /\ hash'[u].n_children = h[u].n_children /\ hash'[u].n_views = h[u].n_views
              /\ u # t => hash'[u].allocated = h[u].allocated
        BY <2>3, <2>4
    <2> DEFINE k == h[t].addr.chunk
               free == Merge(chunks[k].free, h[t].addr.offset, Aligned(T(t).size))
               new == [chunks[k] EXCEPT !.free = free]
    <2>6. chunks' = [chunks EXCEPT ![k] = new]
        BY <2>1 DEF FreeBytes
    <2>7. k \in DOMAIN chunks => new.max_size = chunks[k].max_size
        <3>1. k \in DOMAIN chunks => chunks[k] \in Chunks
            BY ChunksHaveSizes
        <3> HIDE DEF free
        <3> QED
            BY <3>1 DEF Chunks
    <2> HIDE DEF k, new
    <2>8. /\ DOMAIN chunks' = DOMAIN chunks
          /\ \A c \in DOMAIN chunks : chunks'[c].max_size = chunks[c].max_size
        BY <2>6, <2>7, SMTT(60)
    <2> QED
        BY <2>5, <2>8, <1>2
<1> QED
    BY <1>1, <1>2

(* What a drop does but for the counts: only what is not needed any more   *)
(* is given back.                                                          *)
DropEffect ==
    /\ \A t \in All : hash'[t].addr = hash[t].addr
    /\ \A t \in All : hash[t].allocated /\ ~hash'[t].allocated =>
           ~T(t).output /\ hash'[t].n_children = 0 /\ hash'[t].n_views = 0
    /\ DOMAIN chunks' = DOMAIN chunks
    /\ \A c \in DOMAIN chunks : chunks'[c].max_size = chunks[c].max_size

(* What DropParent does with counts and memory, whichever branch it takes. *)
LEMMA DropDoes ==
    ASSUME Planning, DropParent, NEW n, n = at.tensor, NEW p, p = T(n).src[at.src]
    PROVE  /\ n \in All /\ n > graph.leafs /\ at.src \in DOMAIN T(n).src /\ p \in All
           /\ Recount(p) /\ DropEffect
<1> DEFINE v == T(p).view
           used == [hash EXCEPT ![p].n_children = @ - 1]
           unseen == [used EXCEPT ![v].n_views = @ - 1]
<1>1. n \in All /\ at.src \in DOMAIN T(n).src /\ n > graph.leafs
    BY ONLY Planning, DropParent, DropsAt, n = at.tensor
<1>2. p \in All /\ (v # 0 => v \in All) /\ hash \in [All -> HashNodes]
    BY <1>1, PlanningFacts DEF Planning
<1>3. /\ used \in [All -> HashNodes]
      /\ \A t \in All :
            /\ used[t].n_children = IF t = p THEN hash[t].n_children - 1
                                    ELSE hash[t].n_children
            /\ used[t].n_views = hash[t].n_views
            /\ used[t].allocated = hash[t].allocated /\ used[t].addr = hash[t].addr
    <2> DEFINE node == [hash[p] EXCEPT !.n_children = hash[p].n_children - 1]
    <2>1. used = [hash EXCEPT ![p] = node]
        BY SMTT(60)
    <2>2. /\ node \in HashNodes /\ node.addr = hash[p].addr
          /\ node.allocated = hash[p].allocated /\ node.n_views = hash[p].n_views
          /\ node.n_children = hash[p].n_children - 1
        BY <1>2, SMTT(60) DEF HashNodes
    <2> HIDE DEF node, used
    <2>3. /\ used \in [All -> HashNodes] /\ used[p] = node
          /\ \A t \in All \ {p} : used[t] = hash[t]
        BY <2>1, <2>2, <1>2, Updated
    <2> QED
        BY <2>2, <2>3
<1>4. ASSUME v # 0
      PROVE  /\ unseen \in [All -> HashNodes]
             /\ \A t \in All :
                   /\ unseen[t].n_children = used[t].n_children
                   /\ unseen[t].n_views = IF t = v THEN used[t].n_views - 1
                                          ELSE used[t].n_views
                   /\ unseen[t].allocated = used[t].allocated /\ unseen[t].addr = used[t].addr
    <2> DEFINE node == [used[v] EXCEPT !.n_views = used[v].n_views - 1]
    <2>1. unseen = [used EXCEPT ![v] = node]
        BY SMTT(60)
    <2> HIDE DEF used
    <2>2. /\ node \in HashNodes /\ node.addr = used[v].addr
          /\ node.allocated = used[v].allocated /\ node.n_views = used[v].n_views - 1
          /\ node.n_children = used[v].n_children
        <3>1. used[v] \in HashNodes
            BY <1>2, <1>3, <1>4
        <3>2. \A h \in HashNodes :
                 /\ [h EXCEPT !.n_views = h.n_views - 1] \in HashNodes
                 /\ [h EXCEPT !.n_views = h.n_views - 1].addr = h.addr
                 /\ [h EXCEPT !.n_views = h.n_views - 1].allocated = h.allocated
                 /\ [h EXCEPT !.n_views = h.n_views - 1].n_views = h.n_views - 1
                 /\ [h EXCEPT !.n_views = h.n_views - 1].n_children = h.n_children
            BY ONLY SMTT(60) DEF HashNodes
        <3> QED
            BY ONLY <3>1, <3>2, ZenonT(60) DEF node
    <2> HIDE DEF node, unseen, v
    <2>3. /\ unseen \in [All -> HashNodes] /\ unseen[v] = node
          /\ \A t \in All \ {v} : unseen[t] = used[t]
        BY <2>1, <2>2, <1>2, <1>3, <1>4, Updated
    <2> QED
        BY <2>2, <2>3
<1>5. \/ hash' = used /\ chunks' = chunks
      \/ /\ v # 0 /\ used[p].n_children = 0 /\ unseen[v].n_views = 0
         /\ unseen[v].n_children = 0 /\ FreeNode(unseen, v)
      \/ v # 0 /\ used[p].n_children = 0 /\ hash' = unseen /\ chunks' = chunks
      \/ used[p].n_children = 0 /\ used[p].n_views = 0 /\ FreeNode(used, p)
    BY ZenonT(60) DEF DropParent
<1>6. \A t \in All : hash[t].allocated \in BOOLEAN
    BY PlanningFacts
<1> HIDE DEF used, unseen, v
<1>7. CASE hash' = used /\ chunks' = chunks
    BY <1>1, <1>2, <1>3, <1>7 DEF Recount, DropEffect
<1>8. CASE /\ v # 0 /\ used[p].n_children = 0 /\ unseen[v].n_views = 0
           /\ unseen[v].n_children = 0 /\ FreeNode(unseen, v)
    <2>1. /\ \A u \in All :
                /\ hash'[u].addr = unseen[u].addr
                /\ hash'[u].n_children = unseen[u].n_children
                /\ hash'[u].n_views = unseen[u].n_views
                /\ u # v => hash'[u].allocated = unseen[u].allocated
          /\ hash'[v].allocated # unseen[v].allocated => ~T(v).output
          /\ DOMAIN chunks' = DOMAIN chunks
          /\ \A c \in DOMAIN chunks : chunks'[c].max_size = chunks[c].max_size
        BY <1>2, <1>4, <1>8, FreeNodeDoes, SMTT(60)
    <2>2. Recount(p)
        <3>1. \A t \in All : /\ hash'[t].n_children = used[t].n_children
                             /\ hash'[t].n_views = unseen[t].n_views
                             /\ unseen[t].n_views = IF t = v THEN used[t].n_views - 1
                                                    ELSE used[t].n_views
            BY ONLY <2>1, <1>4, <1>8, ZenonT(60)
        <3>2. \A t \in All : hash'[t].n_children = IF t = p THEN hash[t].n_children - 1
                                                    ELSE hash[t].n_children
            BY ONLY <3>1, <1>3, ZenonT(60)
        <3>3. \A t \in All : used[t].n_views = hash[t].n_views
            BY ONLY <1>3, ZenonT(60)
        <3>4. \A t \in All : \/ hash'[t].n_views = hash[t].n_views
                             \/ v = t /\ hash'[t].n_views = hash[t].n_views - 1
            BY ONLY <3>1, <3>3, SMTT(60)
        <3>5. hash'[p].n_children = 0
            BY ONLY <3>1, <1>2, <1>8, ZenonT(60)
        <3> QED
            BY ONLY <3>2, <3>4, <3>5 DEF Recount, v
    <2>3. DropEffect
        BY <2>1, <1>2, <1>3, <1>4, <1>6, <1>8 DEF DropEffect
    <2> QED
        BY <2>2, <2>3, <1>1, <1>2
<1>9. CASE v # 0 /\ used[p].n_children = 0 /\ hash' = unseen /\ chunks' = chunks
    <2>1. Recount(p)
        BY <1>2, <1>3, <1>4, <1>9 DEF Recount, v
    <2>2. DropEffect
        BY <1>2, <1>3, <1>4, <1>9, SMTT(60) DEF DropEffect
    <2> QED
        BY <2>1, <2>2, <1>1, <1>2
<1>10. CASE used[p].n_children = 0 /\ used[p].n_views = 0 /\ FreeNode(used, p)
    <2>1. /\ \A u \in All :
                /\ hash'[u].addr = used[u].addr
                /\ hash'[u].n_children = used[u].n_children
                /\ hash'[u].n_views = used[u].n_views
                /\ u # p => hash'[u].allocated = used[u].allocated
          /\ hash'[p].allocated # used[p].allocated => ~T(p).output
          /\ DOMAIN chunks' = DOMAIN chunks
          /\ \A c \in DOMAIN chunks : chunks'[c].max_size = chunks[c].max_size
        BY <1>2, <1>3, <1>10, FreeNodeDoes, SMTT(60)
    <2>2. Recount(p)
        BY <2>1, <1>2, <1>3, <1>10, SMTT(60) DEF Recount
    <2>3. DropEffect
        BY <2>1, <1>2, <1>3, <1>6, <1>10 DEF DropEffect
    <2> QED
        BY <2>2, <2>3, <1>1, <1>2
<1> QED
    BY <1>5, <1>7, <1>8, <1>9, <1>10

(* Dropping an operand is sound: what is given back is over                *)
(* (ggml_gallocr_free_node).                                               *)
LEMMA DropParentSound ==
    ASSUME Planning, Sound, DropParent, Planning'
    PROVE  Sound'
<1>1. PICK n, p : n = at.tensor /\ p = T(n).src[at.src]
    OBVIOUS
<1>2. /\ n \in All /\ n > graph.leafs /\ at.src \in DOMAIN T(n).src /\ p \in All
      /\ Recount(p) /\ DropEffect
    BY <1>1, DropDoes
<1>3. graph' = graph /\ at' = [at EXCEPT !.src = @ + 1]
    BY ZenonT(60) DEF DropParent
<1>4. PICK k : k = at.src
    OBVIOUS
<1>5. k \in DOMAIN T(n).src /\ p = T(n).src[k]
    BY <1>1, <1>2, <1>4
<1>6. Counts'
    BY <1>1, <1>2, <1>3, <1>4, <1>5, CountsAfterDrop
<1>7. \A m \in All : \A j \in DOMAIN T(m).src :
          ToCome(m, j)' <=> ToCome(m, j) /\ <<m, j>> # <<n, k>>
    BY <1>1, <1>2, <1>3, <1>4, <1>5, UseDropped
<1>8. NoneToCome'
    BY <1>6, CountedDownNext
<1>9. /\ at \in [tensor : Nat \ {0}, src : Nat] /\ All' = All
      /\ \A t \in All : T(t)' = T(t) /\ t \in Nat
    BY <1>3, PlanningFacts, SMTT(60) DEF Planning, All, T
<1>10. at' = [tensor |-> n, src |-> k + 1] /\ k \in Nat /\ n \in Nat /\ k # 0
    <2>1. k \in Nat \ {0}
        BY <1>2, <1>5, PlanningFacts, SMTT(60)
    <2> QED
        BY <2>1, <1>1, <1>3, <1>4, <1>9
<1>11. \A t \in All : Passed(t)' <=> Passed(t)
    <2>1. \A t \in All : Passed(t) <=> t < n \/ t = n
        BY <1>1, <1>4, <1>10 DEF Passed
    <2>2. \A t \in All : Passed(t)' <=> t < n \/ t = n
        BY <1>10 DEF Passed
    <2> QED
        BY <2>1, <2>2
<1>12. OnWalk
    <2>1. hash' \in [All -> HashNodes]
        BY <1>9 DEF Planning
    <2>2. at.tensor > graph.leafs => at'.tensor > graph.leafs
        BY <1>2, <1>10
    <2> QED
        BY <2>1, <2>2, <1>2, <1>3, <1>11, ChunksHaveSizes DEF OnWalk, DropEffect
<1>13. \A t \in All : (Own(t)' <=> hash'[t].allocated) /\ (Own(t) <=> hash[t].allocated)
    BY <1>12, OnWalkFacts
<1>14. ASSUME NEW t \in All, Own(t), ~Own(t)'
       PROVE  Over(t)'
    <2>1. ~T(t).output /\ hash'[t].n_children = 0 /\ hash'[t].n_views = 0
        BY <1>2, <1>13, <1>14 DEF DropEffect
    <2>2. ASSUME NEW m \in All, NEW j \in DOMAIN T(m).src, Needs(graph, m, j, t)'
          PROVE  Passed(m)'
        <3>1. ~ToCome(m, j)'
            BY <2>1, <2>2, <1>8, <1>9 DEF NoneToCome
        <3>2. j \in Nat /\ m \in Nat
            BY PlanningFacts, SMTT(60)
        <3> QED
            BY <3>1, <3>2, <1>10 DEF ToCome, Passed
    <2>3. at'.tensor > graph'.leafs
        BY <1>2, <1>3, <1>10
    <2> QED
        BY <2>1, <2>2, <2>3, <1>9 DEF Over
<1> QED
    BY <1>2, <1>6, <1>11, <1>12, <1>14, NothingPlaced DEF DropEffect

-----------------------------------------------------------------------------
(* The plan, from the first step of the walk to a later graph.             *)

(* The walk begins with all uses to come, and nothing passed.              *)
LEMMA WalkSound ==
    ASSUME NEW g \in Graphs, NEW for, Walk(g, for), Planning'
    PROVE  Sound'
<1>1. /\ graph' = g /\ chunks' = <<>> /\ hash' = Counted(g) /\ at' = [tensor |-> 1, src |-> 0]
    BY DEF Walk, WalkStart
<1>2. All' = DOMAIN g.tensors /\ \A t \in DOMAIN g.tensors : t \in Nat \ {0}
    BY <1>1, GraphFacts DEF All
<1>3. \A t \in All' : ~Passed(t)'
    BY <1>1, <1>2 DEF Passed
<1>4. GivenUp' /\ Settled' /\ Ordered'
    BY <1>3 DEF GivenUp, Settled, Ordered
<1>5. ASSUME NEW t \in All'
      PROVE  /\ Cardinality(Left(t)') <= hash'[t].n_children
             /\ Cardinality(ViewsLeft(t)') <= hash'[t].n_views
    <2> DEFINE views == {n \in DOMAIN g.tensors : g.tensors[n].view = t}
    <2>1. hash'[t].n_children = Cardinality(Uses(g, t)) /\ hash'[t].n_views = Cardinality(views)
        BY <1>1, <1>2, <1>5 DEF Counted, NChildren, NViews
    <2>2. Left(t)' \in SUBSET Uses(g, t)
        BY <1>1 DEF Left
    <2>3. ViewsLeft(t)' \in SUBSET views
        BY <1>1, <1>2 DEF ViewsLeft, T
    <2>4. IsFiniteSet(Uses(g, t)) /\ IsFiniteSet(DOMAIN g.tensors)
        BY UsesFinite
    <2>5. views \in SUBSET DOMAIN g.tensors
        OBVIOUS
    <2> HIDE DEF views
    <2>6. IsFiniteSet(views)
        BY <2>4, <2>5, FS_Subset
    <2>7. Cardinality(Left(t)') <= Cardinality(Uses(g, t))
        BY <2>2, <2>4, FS_Subset
    <2>8. Cardinality(ViewsLeft(t)') <= Cardinality(views)
        BY <2>3, <2>6, FS_Subset
    <2> QED
        BY <2>1, <2>7, <2>8
<1>6. Counts'
    BY <1>5 DEF Counts
<1> QED
    BY <1>4, <1>6 DEF Sound

(* The plan of a walk that has come to its end is one for its graph.       *)
LEMMA AllPassed ==
    ASSUME Planning, at.tensor > Len(graph.tensors)
    PROVE  \A t \in All : Passed(t)
<1>1. at.tensor \in Nat
    BY DEF Planning
<1> QED
    BY <1>1, PlanningFacts DEF Passed

(* The length of a function on 1 .. n.                                     *)
LEMMA LenOfFunction ==
    ASSUME NEW n \in Nat, NEW S, NEW f \in [1 .. n -> S]
    PROVE  Len(f) = n
OBVIOUS

(* What the walk leaves is a plan for its graph, and the buffer has room   *)
(* for it (ggml_gallocr_reserve_n_impl).                                   *)
LEMMA PlanMade ==
    ASSUME Planning, Sound, FinishReserve, NEW g, g = graph, Sized
    PROVE  MadeFor(g)' /\ Sized'
<1> DEFINE made == [t \in All |->
                       [addr |-> IF Placed(t) THEN hash[t].addr ELSE Nowhere,
                        size_max |-> SizeOf(T(t)), src |-> T(t).src]]
<1>1. plan'.leafs = g.leafs /\ plan'.tensors = made
    BY DEF FinishReserve
<1>2. /\ All = DOMAIN g.tensors /\ All = 1 .. Len(g.tensors) /\ Len(g.tensors) \in Nat
      /\ g \in Graphs /\ \A t \in All : T(t) = g.tensors[t] /\ (Placed(t) <=> Lives(g, t))
    BY PlanningFacts DEF All, T, Placed, Lives, Planning
<1>3. \A t \in All : Passed(t)
    <2>1. at.tensor > Len(graph.tensors)
        BY DEF FinishReserve
    <2> QED
        BY <2>1, AllPassed
<1>4. \A t \in All : /\ plan'.tensors[t].addr = IF Placed(t) THEN hash[t].addr ELSE Nowhere
                     /\ plan'.tensors[t].size_max = SizeOf(T(t))
                     /\ plan'.tensors[t].src = T(t).src
    BY <1>1
<1>5. DOMAIN plan'.tensors = All /\ Len(plan'.tensors) = Len(g.tensors)
    <2> DEFINE S == {made[t] : t \in All}
    <2>1. made \in [1 .. Len(g.tensors) -> S]
        BY <1>2
    <2>2. DOMAIN made = All
        OBVIOUS
    <2> HIDE DEF made, S
    <2>3. Len(made) = Len(g.tensors)
        BY <2>1, <1>2, LenOfFunction
    <2> QED
        BY <2>2, <2>3, <1>1
<1> HIDE DEF made
<1>6. \A c \in DOMAIN chunks : /\ c \in DOMAIN buffer' /\ buffer'[c] \in Nat
                               /\ chunks[c].max_size \in Nat
                               /\ chunks[c].max_size <= buffer'[c]
    <2>1. \A c \in DOMAIN chunks : chunks[c].max_size \in Nat
        BY ChunksHaveSizes
    <2>2. CASE buffer' = MaxSizes
        BY <2>1, <2>2 DEF MaxSizes
    <2>3. CASE buffer' = buffer /\ \A c \in DOMAIN chunks : ~TooSmall(c)
        BY <2>1, <2>3 DEF TooSmall, Sized
    <2> QED
        BY <2>2, <2>3 DEF FinishReserve
<1>7. Sized'
    <2>1. CASE buffer' = MaxSizes
        <3>1. \A c \in DOMAIN chunks : c # 0
            BY LenProperties DEF Planning
        <3> QED
            BY <2>1, <3>1, ChunksHaveSizes DEF MaxSizes, Sized
    <2>2. CASE buffer' = buffer
        BY <2>2 DEF Sized
    <2> QED
        BY <2>1, <2>2 DEF FinishReserve
<1>8. \A t \in All : /\ g.tensors[t].size \in Nat /\ Aligned(g.tensors[t].size) \in Nat
                     /\ g.tensors[t].size <= Aligned(g.tensors[t].size)
                     /\ hash[t].addr \in Addresses /\ hash[t].addr.offset \in Nat
    <2>1. \A t \in All : hash[t] \in HashNodes
        BY PlanningFacts
    <2>2. \A t \in All : hash[t].addr \in Addresses /\ hash[t].addr.offset \in Nat
        BY <2>1 DEF HashNodes, Addresses
    <2> QED
        BY <2>2, <1>2, GraphFacts
<1>9. ASSUME NEW t \in All
      PROVE  IF Lives(g, t)
             THEN /\ plan'.tensors[t].addr \in Addresses
                  /\ plan'.tensors[t].addr.chunk \in DOMAIN buffer'
                  /\ plan'.tensors[t].addr.offset + g.tensors[t].size
                        <= buffer'[plan'.tensors[t].addr.chunk]
             ELSE plan'.tensors[t].addr = Nowhere
    <2>1. CASE ~Lives(g, t)
        BY <2>1, <1>2, <1>4
    <2>2. CASE Lives(g, t)
        <3> DEFINE c == hash[t].addr.chunk
        <3>1. plan'.tensors[t].addr = hash[t].addr
            BY <2>2, <1>2, <1>4
        <3>2. c \in DOMAIN chunks /\ To(t) <= chunks[c].max_size
            BY <2>2, <1>2, <1>3 DEF Sound, Settled
        <3>3. To(t) = hash[t].addr.offset + Aligned(g.tensors[t].size)
            BY <1>2 DEF To, From
        <3> HIDE DEF c
        <3>4. /\ c \in DOMAIN buffer' /\ buffer'[c] \in Nat /\ chunks[c].max_size \in Nat
              /\ chunks[c].max_size <= buffer'[c]
            BY <3>2, <1>6
        <3>5. hash[t].addr.offset + g.tensors[t].size <= buffer'[c]
            BY <3>2, <3>3, <3>4, <1>8
        <3> QED
            BY <3>1, <3>4, <3>5, <2>2, <1>8 DEF c
    <2> QED
        BY <2>1, <2>2
<1>10. ASSUME NEW t \in All, NEW u \in All, t < u, Lives(g, t), Lives(g, u),
              Meet(plan'.tensors[t].addr, g.tensors[t].size,
                   plan'.tensors[u].addr, g.tensors[u].size)
       PROVE  Yields(g, t, u, plan'.tensors[t].addr = plan'.tensors[u].addr)
    <2>1. plan'.tensors[t].addr = hash[t].addr /\ plan'.tensors[u].addr = hash[u].addr
        BY <1>2, <1>4, <1>10
    <2>2. Meet(hash[t].addr, Aligned(g.tensors[t].size), hash[u].addr, Aligned(g.tensors[u].size))
        BY <2>1, <1>8, <1>10 DEF Meet
    <2>3. Meet(hash[t].addr, Aligned(T(t).size), hash[u].addr, Aligned(T(u).size))
        BY <2>2, <1>2
    <2>4. Yields(graph, t, u, hash[t].addr = hash[u].addr)
        BY <2>3, <1>2, <1>3, <1>10 DEF Sound, Ordered
    <2> QED
        BY <2>1, <2>4
<1>11. Suits(g)'
    BY <1>2, <1>9, <1>10 DEF Suits
<1> QED
    BY <1>1, <1>2, <1>4, <1>5, <1>7, <1>11 DEF MadeFor

(* What the node n of g makes outgrow the plan (ggml_gallocr_needs_realloc *)
(* at a node of the graph).                                                *)
OutgrownAt(g, planned, n) ==
    LET new == g.tensors[n]
        old == planned.tensors[n]
    IN  \/ old.size_max < SizeOf(new)
        \/ \E j \in DOMAIN new.src :
               LET size == SizeOf(g.tensors[new.src[j]])
               IN  IF j \in DOMAIN old.src
                   THEN planned.tensors[old.src[j]].size_max < size
                   ELSE size > 0

(* A graph that does not outgrow the plan of another is like it, and what  *)
(* it is given memory for is no larger.                                    *)
LEMMA ServedAlike ==
    ASSUME NEW g \in Graphs, NEW h \in Graphs, MadeFor(g), ~NeedsRealloc(h)
    PROVE  /\ h.leafs = g.leafs /\ DOMAIN h.tensors = DOMAIN g.tensors /\ Alike(g, h)
           /\ \A t \in DOMAIN g.tensors :
                 /\ h.tensors[t].view = g.tensors[t].view
                 /\ h.tensors[t].external = g.tensors[t].external
                 /\ h.tensors[t].output = g.tensors[t].output
                 /\ h.tensors[t].inplace = g.tensors[t].inplace
                 /\ h.tensors[t].src = g.tensors[t].src
           /\ \A t \in DOMAIN g.tensors : Lives(g, t) => h.tensors[t].size <= g.tensors[t].size
<1> DEFINE planned == Planned(g)
<1>1. ~Outgrows(h, plan)
    BY DEF NeedsRealloc
<1>2. /\ DOMAIN g.tensors = 1 .. Len(g.tensors) /\ Len(g.tensors) \in Nat
      /\ DOMAIN h.tensors = 1 .. Len(h.tensors) /\ Len(h.tensors) \in Nat
      /\ h.leafs \in Nat
    BY GraphFacts, SMTT(60)
<1>3. h.leafs = g.leafs /\ Len(h.tensors) = Len(g.tensors)
    BY ONLY <1>1, MadeFor(g), SMTT(60) DEF Outgrows, MadeFor
<1>4. /\ planned.leafs = g.leafs /\ Len(planned.tensors) = Len(g.tensors)
      /\ \A t \in DOMAIN g.tensors : /\ planned.tensors[t].size_max = SizeOf(g.tensors[t])
                                     /\ planned.tensors[t].src = g.tensors[t].src
    <2> DEFINE f == [t \in DOMAIN g.tensors |->
                       [size_max |-> SizeOf(g.tensors[t]), src |-> g.tensors[t].src]]
               S == {f[t] : t \in DOMAIN g.tensors}
    <2>1. f \in [1 .. Len(g.tensors) -> S]
        BY <1>2
    <2>2. planned.tensors = f /\ planned.leafs = g.leafs
        BY DEF Planned
    <2>3. \A t \in DOMAIN g.tensors : /\ f[t].size_max = SizeOf(g.tensors[t])
                                      /\ f[t].src = g.tensors[t].src
        OBVIOUS
    <2> HIDE DEF f, S
    <2>4. Len(f) = Len(g.tensors)
        BY <2>1, <1>2, LenOfFunction
    <2> QED
        BY <2>2, <2>3, <2>4
<1> HIDE DEF planned
<1>5. \A n \in h.leafs + 1 .. Len(h.tensors) :
          /\ n \in DOMAIN g.tensors /\ n \in DOMAIN h.tensors
          /\ plan.tensors[n].size_max = planned.tensors[n].size_max
          /\ plan.tensors[n].src = planned.tensors[n].src
          /\ \A j \in DOMAIN plan.tensors[n].src :
                plan.tensors[plan.tensors[n].src[j]].size_max =
                planned.tensors[planned.tensors[n].src[j]].size_max
    <2>1. \A n \in h.leafs + 1 .. Len(h.tensors) : n \in DOMAIN g.tensors /\ n \in DOMAIN h.tensors
        BY <1>2, <1>3
    <2>2. \A t \in DOMAIN g.tensors :
              /\ plan.tensors[t].size_max = planned.tensors[t].size_max
              /\ plan.tensors[t].src = planned.tensors[t].src
              /\ planned.tensors[t].src = g.tensors[t].src
        BY <1>4 DEF MadeFor
    <2>3. \A t \in DOMAIN g.tensors : \A j \in DOMAIN g.tensors[t].src :
              g.tensors[t].src[j] \in DOMAIN g.tensors
        BY GraphFacts, SMTT(60)
    <2> QED
        BY ONLY <2>1, <2>2, <2>3, SMTT(60)
<1>6. ~Outgrows(h, planned)
    <2>1. planned.leafs = h.leafs /\ Len(planned.tensors) = Len(h.tensors)
        BY <1>3, <1>4
    <2>2. ASSUME Outgrows(h, planned)
          PROVE  Outgrows(h, plan)
        <3>1. PICK n \in h.leafs + 1 .. Len(h.tensors) : OutgrownAt(h, planned, n)
            BY ONLY <2>1, <2>2, ZenonT(60) DEF Outgrows, OutgrownAt
        <3>2. /\ plan.tensors[n].size_max = planned.tensors[n].size_max
              /\ plan.tensors[n].src = planned.tensors[n].src
              /\ \A j \in DOMAIN plan.tensors[n].src :
                    plan.tensors[plan.tensors[n].src[j]].size_max =
                    planned.tensors[planned.tensors[n].src[j]].size_max
            BY ONLY <1>5, n \in h.leafs + 1 .. Len(h.tensors), ZenonT(60)
        <3>3. OutgrownAt(h, plan, n)
            BY ONLY <3>1, <3>2, ZenonT(60) DEF OutgrownAt
        <3> QED
            BY ONLY <3>3, n \in h.leafs + 1 .. Len(h.tensors), ZenonT(60)
               DEF Outgrows, OutgrownAt
    <2> QED
        BY ONLY <1>1, <2>2, ZenonT(60)
<1>7. Alike(g, h)
    BY <1>6, GraphMemoryAssumption DEF planned
<1>8. ASSUME NEW t \in DOMAIN g.tensors
      PROVE  /\ h.tensors[t].view = g.tensors[t].view
             /\ h.tensors[t].external = g.tensors[t].external
             /\ h.tensors[t].output = g.tensors[t].output
             /\ h.tensors[t].inplace = g.tensors[t].inplace
             /\ h.tensors[t].src = g.tensors[t].src
    <2>1. h.tensors[t] = [g.tensors[t] EXCEPT !.size = h.tensors[t].size]
        BY <1>7 DEF Alike
    <2>2. g.tensors[t] \in Tensors
        BY GraphFacts
    <2> QED
        BY <2>1, <2>2, SMTT(60) DEF Tensors
<1>9. ASSUME NEW t \in DOMAIN g.tensors, Lives(g, t)
      PROVE  h.tensors[t].size <= g.tensors[t].size
    <2>1. t \in DOMAIN h.tensors /\ t \in Nat \ {0} /\ t <= Len(h.tensors)
        BY <1>2, <1>3
    <2>2. /\ SizeOf(h.tensors[t]) = h.tensors[t].size
          /\ planned.tensors[t].size_max = g.tensors[t].size
        BY <1>4, <1>8, <1>9 DEF SizeOf, Lives
    <2>3. h.tensors[t].size \in Nat /\ g.tensors[t].size \in Nat
        BY <2>1, GraphFacts, SMTT(60)
    <2>4. ~(planned.tensors[t].size_max < SizeOf(h.tensors[t]))
        <3>1. CASE t > h.leafs
            BY <3>1, <2>1, <1>2, <1>6 DEF Outgrows
        <3>2. CASE t <= h.leafs
            <4>0. PICK n \in DOMAIN h.tensors :
                      \E j \in DOMAIN h.tensors[n].src : h.tensors[n].src[j] = t
                BY <3>2, <2>1, LeafFacts
            <4>1. PICK j \in DOMAIN h.tensors[n].src : h.tensors[n].src[j] = t
                BY <4>0
            <4>2. n > h.leafs
                <5>1. n <= h.leafs => h.tensors[n].src = <<>>
                    BY LeafFacts
                <5>2. n \in Nat
                    BY <1>2
                <5> QED
                    BY <4>1, <5>1, <5>2, <1>2
            <4>3. n \in h.leafs + 1 .. Len(h.tensors)
                BY <4>2, <1>2
            <4>4. planned.tensors[n].src = h.tensors[n].src
                BY <1>2, <1>3, <1>4, <1>8, SMTT(60)
            <4>5. ~(planned.tensors[planned.tensors[n].src[j]].size_max
                        < SizeOf(h.tensors[h.tensors[n].src[j]]))
                BY <4>3, <4>4, <1>6, SMTT(60) DEF Outgrows
            <4> QED
                BY <4>1, <4>4, <4>5
        <3> QED
            BY <3>1, <3>2, <2>1, <1>2
    <2> QED
        BY <2>2, <2>3, <2>4
<1> QED
    BY <1>2, <1>3, <1>7, <1>8, <1>9

(* And so its addresses suit it.                                           *)
LEMMA PlanServes ==
    ASSUME NEW g \in Graphs, NEW h \in Graphs, MadeFor(g), ~NeedsRealloc(h), Sized
    PROVE  Suits(h)
<1>1. /\ h.leafs = g.leafs /\ DOMAIN h.tensors = DOMAIN g.tensors /\ Alike(g, h)
      /\ \A t \in DOMAIN g.tensors :
            /\ h.tensors[t].view = g.tensors[t].view
            /\ h.tensors[t].external = g.tensors[t].external
            /\ h.tensors[t].output = g.tensors[t].output
            /\ h.tensors[t].inplace = g.tensors[t].inplace
            /\ h.tensors[t].src = g.tensors[t].src
      /\ \A t \in DOMAIN g.tensors : Lives(g, t) => h.tensors[t].size <= g.tensors[t].size
    BY ServedAlike
<1>2. \A t \in DOMAIN g.tensors : Lives(h, t) <=> Lives(g, t)
    BY <1>1 DEF Lives
<1>3. \A t \in DOMAIN g.tensors : h.tensors[t].size \in Nat /\ g.tensors[t].size \in Nat
    BY <1>1, GraphFacts
<1>4. Suits(g)
    BY DEF MadeFor
<1>5. ASSUME NEW t \in DOMAIN g.tensors, Lives(g, t)
      PROVE  /\ plan.tensors[t].addr \in Addresses /\ plan.tensors[t].addr.offset \in Nat
             /\ plan.tensors[t].addr.chunk \in DOMAIN buffer
             /\ plan.tensors[t].addr.offset + g.tensors[t].size <= buffer[plan.tensors[t].addr.chunk]
    BY <1>4, <1>5 DEF Suits, Addresses
<1>6. ASSUME NEW t \in DOMAIN h.tensors
      PROVE  LET addr == plan.tensors[t].addr
             IN  IF Lives(h, t)
                 THEN /\ addr \in Addresses /\ addr.chunk \in DOMAIN buffer
                      /\ addr.offset + h.tensors[t].size <= buffer[addr.chunk]
                 ELSE addr = Nowhere
    <2>1. CASE ~Lives(g, t)
        BY <2>1, <1>1, <1>2, <1>4 DEF Suits
    <2>2. CASE Lives(g, t)
        <3> DEFINE addr == plan.tensors[t].addr
        <3>1. /\ addr \in Addresses /\ addr.offset \in Nat /\ addr.chunk \in DOMAIN buffer
              /\ addr.offset + g.tensors[t].size <= buffer[addr.chunk]
              /\ h.tensors[t].size <= g.tensors[t].size
            BY <2>2, <1>1, <1>5
        <3> HIDE DEF addr
        <3>2. buffer[addr.chunk] \in Nat
            BY <3>1 DEF Sized
        <3>3. addr.offset + h.tensors[t].size <= buffer[addr.chunk]
            BY <3>1, <3>2, <1>1, <1>3
        <3> QED
            BY <3>1, <3>3, <2>2, <1>1, <1>2 DEF addr
    <2> QED
        BY <2>1, <2>2
<1>7. ASSUME NEW t \in DOMAIN h.tensors, NEW u \in DOMAIN h.tensors, t < u,
             Lives(h, t), Lives(h, u),
             Meet(plan.tensors[t].addr, h.tensors[t].size, plan.tensors[u].addr, h.tensors[u].size)
      PROVE  Yields(h, t, u, plan.tensors[t].addr = plan.tensors[u].addr)
    <2> DEFINE same == plan.tensors[t].addr = plan.tensors[u].addr
    <2>1. t \in DOMAIN g.tensors /\ u \in DOMAIN g.tensors /\ Lives(g, t) /\ Lives(g, u)
        BY <1>1, <1>2, <1>7, SMTT(60)
    <2>2. Meet(plan.tensors[t].addr, g.tensors[t].size, plan.tensors[u].addr, g.tensors[u].size)
        BY <2>1, <1>1, <1>3, <1>5, <1>7, SMTT(60) DEF Meet
    <2>3. Yields(g, t, u, same)
        BY <2>1, <2>2, <1>4, <1>7 DEF Suits
    <2> HIDE DEF same
    <2>4. \A n \in DOMAIN g.tensors : \A j \in DOMAIN g.tensors[n].src :
             /\ g.tensors[n].src[j] \in DOMAIN g.tensors
             /\ Needs(h, n, j, t) <=> Needs(g, n, j, t)
        <3> SUFFICES ASSUME NEW n \in DOMAIN g.tensors, NEW j \in DOMAIN g.tensors[n].src
                     PROVE  /\ g.tensors[n].src[j] \in DOMAIN g.tensors
                            /\ Needs(h, n, j, t) <=> Needs(g, n, j, t)
            OBVIOUS
        <3>1. g.tensors[n].src[j] \in DOMAIN g.tensors
            BY GraphFacts
        <3>2. h.tensors[n].src = g.tensors[n].src
            BY <1>1
        <3>3. h.tensors[g.tensors[n].src[j]].view = g.tensors[g.tensors[n].src[j]].view
            BY <1>1, <3>1
        <3> QED
            BY <3>1, <3>2, <3>3 DEF Needs
    <2>5. \A j \in DOMAIN g.tensors[u].src :
             g.tensors[u].inplace /\ g.tensors[u].src[j] = t
             /\ g.tensors[t].size = g.tensors[u].size => h.tensors[t].size = h.tensors[u].size
        <3>1. LET x == g.tensors[u]
                  y == h.tensors[u]
              IN  \A j \in DOMAIN x.src :
                     x.inplace /\ g.tensors[x.src[j]].size = x.size =>
                         h.tensors[x.src[j]].size = y.size
            BY <2>1, <1>1, ZenonT(60) DEF Alike
        <3> QED
            BY <3>1, SMTT(60)
    <2>6. Yields(h, t, u, same)
        BY <2>1, <2>3, <2>4, <2>5, <1>1 DEF Yields
    <2> QED
        BY <2>6 DEF same
<1> QED
    BY <1>6, <1>7 DEF Suits

(* What is planned does not change while a graph is computed.              *)
LEMMA SoundStutters ==
    ASSUME Sound, UNCHANGED <<graph, chunks, hash, at>>
    PROVE  Sound'
<1>1. graph' = graph /\ chunks' = chunks /\ hash' = hash /\ at' = at
    OBVIOUS
<1>2. Counts'
    BY <1>1 DEF Sound, Counts, All, T, Left, ViewsLeft, ToCome
<1>3. GivenUp'
    BY <1>1 DEF Sound, GivenUp, All, T, Placed, Passed, Own, Over
<1>4. Settled'
    BY <1>1 DEF Sound, Settled, All, T, Placed, Passed, To, From
<1>5. Ordered'
    BY <1>1 DEF Sound, Ordered, All, T, Placed, Passed
<1> QED
    BY <1>2, <1>3, <1>4, <1>5 DEF Sound

(* A plan and a buffer that stay suit the same graphs.                     *)
LEMMA SamePlan ==
    ASSUME plan' = plan, buffer' = buffer, NEW g
    PROVE  (Suits(g)' <=> Suits(g)) /\ (MadeFor(g)' <=> MadeFor(g))
<1>1. Suits(g)' <=> Suits(g)
    BY DEF Suits
<1> QED
    BY <1>1 DEF MadeFor

(* And so remain one for a graph that was planned.                         *)
LEMMA SamePlanKept ==
    ASSUME PlanFits, plan' = plan, buffer' = buffer
    PROVE  Sized' /\ (plan' = NoPlan \/ \E g \in Graphs : MadeFor(g)')
<1>1. Sized'
    BY DEF PlanFits, Sized
<1>2. CASE plan = NoPlan
    BY <1>1, <1>2
<1>3. CASE plan # NoPlan
    <2>1. PICK g \in Graphs : MadeFor(g)
        BY <1>3 DEF PlanFits
    <2> QED
        BY <2>1, <1>1, SamePlan
<1> QED
    BY <1>2, <1>3

(* PlanFits speaks of the allocator only.                                  *)
LEMMA PlanFitsStutters ==
    ASSUME PlanFits, UNCHANGED allocVars
    PROVE  PlanFits'
<1>1. /\ graph' = graph /\ chunks' = chunks /\ hash' = hash /\ at' = at
      /\ goal' = goal /\ plan' = plan /\ buffer' = buffer
    BY DEF allocVars
<1>2. goal' \in {"reserve", "alloc"} => Sound'
    BY <1>1, SoundStutters DEF PlanFits
<1>3. Sized' /\ (plan' = NoPlan \/ \E g \in Graphs : MadeFor(g)')
    BY <1>1, SamePlanKept
<1>4. goal' = "ready" => graph' \in Graphs /\ Suits(graph)'
    <2>1. Suits(graph) => Suits(graph)'
        BY <1>1 DEF Suits
    <2> QED
        BY <2>1, <1>1 DEF PlanFits
<1> QED
    BY <1>2, <1>3, <1>4 DEF PlanFits

(* The steps of the walk keep it sound.                                    *)
LEMMA WalkStepSound ==
    ASSUME Planning, Sound, Planning', PlaceLeaf \/ PlaceNode \/ DropParent \/ NodeDone
    PROVE  Sound'
<1>1. CASE PlaceLeaf
    <2>1. Onward /\ AllocateNode(at.tensor)
        BY <1>1 DEF PlaceLeaf, Onward, Planning
    <2> QED
        BY <2>1, AllocateNodeSound
<1>2. CASE PlaceNode
    <2>1. Onward /\ AllocateNode(at.tensor)
        BY <1>2 DEF PlaceNode, Onward
    <2> QED
        BY <2>1, AllocateNodeSound
<1> QED
    BY <1>1, <1>2, DropParentSound, NodeDoneSound

(* Every step of the allocator keeps its plans fitting.                    *)
LEMMA AllocNextFits ==
    ASSUME AllocInv, PlanFits, AllocNext, AllocInv'
    PROVE  PlanFits'
<1>1. CASE PlaceLeaf \/ PlaceNode \/ DropParent \/ NodeDone
    <2>1. /\ goal \in {"reserve", "alloc"} /\ goal' = goal
          /\ plan' = plan /\ buffer' = buffer
        BY <1>1, ZenonT(60) DEF PlaceLeaf, PlaceNode, DropParent, NodeDone, Walking
    <2>2. Planning /\ Sound /\ Planning'
        BY <2>1 DEF AllocInv, PlanFits
    <2>3. Sound'
        BY <2>2, <1>1, WalkStepSound
    <2>4. Sized' /\ (plan' = NoPlan \/ \E g \in Graphs : MadeFor(g)')
        BY <2>1, SamePlanKept
    <2>5. goal' # "ready"
        BY <2>1
    <2> QED
        BY <2>3, <2>4, <2>5 DEF PlanFits
<1>2. CASE FinishReserve
    <2>1. goal \in {"reserve", "alloc"}
        BY <1>2 DEF FinishReserve
    <2>2. Planning /\ Sound /\ Sized
        BY <2>1 DEF AllocInv, PlanFits
    <2>3. graph \in Graphs
        BY <2>2 DEF Planning
    <2>4. PICK g \in Graphs : g = graph
        BY <2>3
    <2>5. MadeFor(g)' /\ Sized'
        BY <2>2, <2>4, <1>2, PlanMade
    <2>6. goal' \notin {"reserve", "alloc"} /\ (goal' = "ready" => graph' = g)
        BY <2>1, <2>4, <1>2 DEF FinishReserve
    <2>7. goal' = "ready" => graph' \in Graphs /\ Suits(graph)'
        <3>1. ASSUME graph' = g
              PROVE  Suits(graph)'
            <4>1. Suits(g)'
                BY <2>5 DEF MadeFor
            <4> QED
                BY <4>1, <3>1 DEF Suits
        <3> QED
            BY <3>1, <2>4, <2>6
    <2> QED
        BY <2>4, <2>5, <2>6, <2>7 DEF PlanFits
<1>3. ASSUME NEW g \in Graphs, NEW for \in {"reserve", "alloc"}, Walk(g, for)
      PROVE  PlanFits'
    <2>1. plan' = plan /\ buffer' = buffer /\ goal' = for
        BY <1>3 DEF Walk
    <2>2. Planning'
        BY <1>3, WalkGood
    <2>3. Sound'
        BY <2>2, <1>3, WalkSound
    <2>4. Sized' /\ (plan' = NoPlan \/ \E h \in Graphs : MadeFor(h)')
        BY <2>1, SamePlanKept
    <2>5. goal' # "ready"
        BY <2>1, <1>3
    <2> QED
        BY <2>3, <2>4, <2>5 DEF PlanFits
<1>4. ASSUME NEW h \in Graphs, AllocGraph(h), ~NeedsRealloc(h)
      PROVE  PlanFits'
    <2>1. graph' = h /\ goal' = "ready" /\ plan' = plan /\ buffer' = buffer
        BY <1>4 DEF AllocGraph
    <2>2. plan # NoPlan
        <3>1. h.leafs \in Nat
            BY GraphFacts, SMTT(60)
        <3>2. plan.leafs = h.leafs
            BY <1>4 DEF NeedsRealloc, Outgrows
        <3> QED
            BY <3>1, <3>2 DEF NoPlan
    <2>3. PICK g \in Graphs : MadeFor(g)
        BY <2>2 DEF PlanFits
    <2>4. Suits(h)
        BY <2>3, <1>4, PlanServes DEF PlanFits
    <2>5. Suits(graph)'
        <3>1. Suits(h)'
            BY <2>1, <2>4, SamePlan
        <3> QED
            BY <3>1, <2>1 DEF Suits
    <2>6. Sized' /\ (plan' = NoPlan \/ \E f \in Graphs : MadeFor(f)')
        BY <2>1, SamePlanKept
    <2> QED
        BY <2>1, <2>5, <2>6 DEF PlanFits
<1>5. ASSUME NEW g \in Graphs, Reserve(g) \/ AllocGraph(g)
      PROVE  PlanFits'
    <2>1. CASE Reserve(g)
        BY <2>1, <1>3 DEF Reserve
    <2>2. CASE AllocGraph(g) /\ NeedsRealloc(g)
        BY <2>2, <1>3 DEF AllocGraph
    <2>3. CASE AllocGraph(g) /\ ~NeedsRealloc(g)
        BY <2>3, <1>4
    <2> QED
        BY <1>5, <2>1, <2>2, <2>3
<1> QED
    BY <1>1, <1>2, <1>5 DEF AllocNext, AllocStep

-----------------------------------------------------------------------------
(* Where the tensors of a graph are.                                       *)

(* A graph that is ready, with a plan that fits.                           *)
Ready == graph \in Graphs /\ Suits(graph) /\ Sized

(* Where its tensors are: each of those that are placed in the buffer, and *)
(* a view where its tensor is.                                             *)
LEMMA ReadyFacts ==
    ASSUME Ready
    PROVE  /\ All = 1 .. Len(graph.tensors) /\ Len(graph.tensors) \in Nat
           /\ graph.leafs \in Nat /\ graph.leafs <= Len(graph.tensors)
           /\ \A t \in All :
                 /\ t \in Nat \ {0} /\ T(t).size \in Nat \ {0}
                 /\ Root(t) \in All /\ T(Root(t)).view = 0 /\ Root(t) <= t
                 /\ (T(t).view = 0) = (Root(t) = t)
                 /\ T(t).size <= T(Root(t)).size
                 /\ Data(t) = Data(Root(t))
                 /\ (T(t).op = "none") = (t <= graph.leafs)
                 /\ (T(t).op = "view") = (T(t).view # 0)
                 /\ T(t).op \in {"none", "view", "map", "mul_mat"}
                 /\ (T(t).inplace => T(t).op = "map")
                 /\ \A j \in DOMAIN T(t).src : T(t).src[j] \in All /\ T(t).src[j] < t
<1>1. All = 1 .. Len(graph.tensors) /\ Len(graph.tensors) \in Nat
      /\ graph.leafs \in Nat /\ graph.leafs <= Len(graph.tensors)
    BY GraphFacts DEF Ready, All
<1>2. ASSUME NEW t \in All
      PROVE  /\ t \in Nat \ {0} /\ T(t).size \in Nat \ {0} /\ T(t).view \in Nat /\ T(t).view < t
             /\ (T(t).op = "none") = (t <= graph.leafs)
             /\ (T(t).op = "view") = (T(t).view # 0)
             /\ T(t).op \in {"none", "view", "map", "mul_mat"}
             /\ (T(t).inplace => T(t).op = "map")
             /\ \A j \in DOMAIN T(t).src : T(t).src[j] \in All /\ T(t).src[j] < t
    BY GraphFacts DEF Ready, All, T
<1>3. ASSUME NEW t \in All
      PROVE  /\ Root(t) \in All /\ T(Root(t)).view = 0 /\ Root(t) <= t
             /\ (T(t).view = 0) = (Root(t) = t)
             /\ T(t).size <= T(Root(t)).size
             /\ Data(t) = Data(Root(t))
    <2>1. CASE T(t).view = 0
        BY <2>1, <1>2 DEF Root, Data
    <2>2. CASE T(t).view # 0
        <3>1. Root(t) = T(t).view
            BY <2>2 DEF Root
        <3>2. Root(t) \in All /\ T(Root(t)).view = 0 /\ T(t).size <= T(Root(t)).size
            BY <2>2, <3>1, ViewFacts DEF Ready, All, T
        <3>3. Root(t) # t /\ Root(t) <= t
            BY <3>1, <1>2
        <3>4. Data(t) = Data(Root(t))
            BY <2>2, <3>1, <3>2 DEF Data
        <3> QED
            BY <2>2, <3>2, <3>3, <3>4
    <2> QED
        BY <2>1, <2>2
<1> QED
    BY <1>1, <1>2, <1>3

(* A tensor that is placed has all its cells in the buffer.                *)
LEMMA PlacedFacts ==
    ASSUME Ready, NEW t \in All, Placed(t)
    PROVE  /\ Root(t) = t /\ Data(t) = plan.tensors[t].addr
           /\ Data(t) \in Addresses /\ Data(t).offset \in Nat
           /\ Data(t).chunk \in DOMAIN buffer /\ Data(t).chunk # 0
           /\ \A i \in Indexes(t) : Cell(t, i) \in Cells
<1>1. T(t).view = 0 /\ Lives(graph, t) /\ t \in DOMAIN graph.tensors
    BY DEF Placed, Lives, T, All
<1>2. Root(t) = t /\ Data(t) = plan.tensors[t].addr
    BY <1>1 DEF Root, Data
<1>3. /\ Data(t) \in Addresses /\ Data(t).chunk \in DOMAIN buffer
      /\ Data(t).offset + T(t).size <= buffer[Data(t).chunk]
    BY <1>1, <1>2 DEF Ready, Suits, T
<1>4. Data(t).offset \in Nat
    BY <1>3 DEF Addresses
<1>5. Data(t).chunk # 0 /\ buffer[Data(t).chunk] \in Nat
    BY <1>3 DEF Ready, Sized
<1>6. ASSUME NEW i \in Indexes(t)
      PROVE  Cell(t, i) \in Cells
    <2>1. T(t).size \in Nat
        BY ReadyFacts, SMTT(60)
    <2>2. Data(t).offset + i \in 0 .. buffer[Data(t).chunk] - 1
        BY <2>1, <1>3, <1>4, <1>5 DEF Indexes
    <2> QED
        BY <2>2, <1>3 DEF Cells, Cell
<1> QED
    BY <1>2, <1>3, <1>4, <1>5, <1>6

(* A tensor that is not placed has no cell in common with one that is.     *)
LEMMA NotPlaced ==
    ASSUME Ready, NEW t \in All, ~Placed(t), T(t).view = 0
    PROVE  Data(t).chunk = 0
<1>1. ~Lives(graph, t) /\ t \in DOMAIN graph.tensors
    BY DEF Placed, Lives, T, All
<1>2. Data(t) = plan.tensors[t].addr
    BY DEF Data
<1> QED
    BY <1>1, <1>2 DEF Ready, Suits, Nowhere

(* Two tensors have a cell in common only as the plan has it.              *)
LEMMA Clash ==
    ASSUME Ready, NEW t \in All, NEW u \in All, t < u, Placed(t), Placed(u),
           NEW i \in Indexes(t), NEW j \in Indexes(u), Cell(t, i) = Cell(u, j)
    PROVE  Yields(graph, t, u, Data(t) = Data(u)) /\ (Data(t) = Data(u) => i = j)
<1>1. /\ Data(t) = plan.tensors[t].addr /\ Data(u) = plan.tensors[u].addr
      /\ Data(t).offset \in Nat /\ Data(u).offset \in Nat
    BY PlacedFacts
<1>2. T(t).size \in Nat /\ T(u).size \in Nat
    BY ReadyFacts
<1>3. Data(t).chunk = Data(u).chunk /\ Data(t).offset + i = Data(u).offset + j
    BY DEF Cell
<1>4. i \in Nat /\ i < T(t).size /\ j \in Nat /\ j < T(u).size
    BY <1>2 DEF Indexes
<1>5. Meet(Data(t), T(t).size, Data(u), T(u).size)
    BY <1>1, <1>2, <1>3, <1>4 DEF Meet
<1>6. Lives(graph, t) /\ Lives(graph, u) /\ t \in DOMAIN graph.tensors /\ u \in DOMAIN graph.tensors
    BY DEF Placed, Lives, T, All
<1>7. Yields(graph, t, u, Data(t) = Data(u))
    BY <1>1, <1>5, <1>6 DEF Ready, Suits, T
<1>8. Data(t) = Data(u) => i = j
    BY <1>1, <1>3, <1>4
<1> QED
    BY <1>7, <1>8

(* The nodes of a run, and the parts they are cut into.                    *)
LEMMA ShapedFacts ==
    ASSUME Ready, Shaped
    PROVE  /\ \A k \in DOMAIN parts : /\ k \in Nat /\ Result(k) \in All /\ Result(k) > graph.leafs
                                      /\ Result(k) = graph.leafs + k + 1
           /\ \A k, l \in DOMAIN parts : (Result(k) = Result(l)) = (k = l)
           /\ \A t \in All : t > graph.leafs =>
                  t - graph.leafs - 1 \in DOMAIN parts /\ Result(t - graph.leafs - 1) = t
           /\ \A k \in DOMAIN parts : \A p \in DOMAIN parts[k] :
                  parts[k][p] \in {0, 1} /\ Computed(Result(k))
           /\ DOMAIN mem = Cells
<1>1. /\ All = 1 .. Len(graph.tensors) /\ Len(graph.tensors) \in Nat
      /\ graph.leafs \in Nat /\ graph.leafs <= Len(graph.tensors)
    BY ReadyFacts
<1>2. DOMAIN parts = 0 .. Len(graph.tensors) - graph.leafs - 1 /\ DOMAIN mem = Cells
    BY DEF Shaped
<1>3. \A k \in DOMAIN parts : \A p \in DOMAIN parts[k] :
          parts[k][p] \in {0, 1} /\ Computed(Result(k))
    <2>1. PICK n \in 1 .. MaxParts : \A k \in DOMAIN parts :
              parts[k] \in [IF Computed(Result(k)) THEN 0 .. n - 1 ELSE {} -> {0, 1}]
        BY DEF Shaped
    <2> QED
        BY <2>1
<1>4. \A k \in DOMAIN parts : k \in Nat /\ Result(k) \in All /\ Result(k) > graph.leafs
    BY <1>1, <1>2, SMTT(60) DEF Result
<1>5. \A k, l \in DOMAIN parts : (Result(k) = Result(l)) = (k = l)
    BY <1>1, <1>2, SMTT(60) DEF Result
<1>6. \A t \in All : t > graph.leafs =>
          t - graph.leafs - 1 \in DOMAIN parts /\ Result(t - graph.leafs - 1) = t
    BY <1>1, <1>2, SMTT(60) DEF Result
<1> QED
    BY <1>2, <1>3, <1>4, <1>5, <1>6 DEF Result

(* What is done has been written, all of it.                               *)
LEMMA DoneIsWritten ==
    ASSUME Ready, Shaped, NEW k \in DOMAIN parts, Run!Done(k), Computed(Result(k)),
           NEW i \in Indexes(Result(k))
    PROVE  Wrote(Result(k), i)
<1> DEFINE t == Result(k)
<1>1. t \in All /\ T(t).size \in Nat \ {0}
    BY ShapedFacts, ReadyFacts
<1>2. PICK n \in 1 .. MaxParts :
          parts[k] \in [IF Computed(t) THEN 0 .. n - 1 ELSE {} -> {0, 1}]
    BY DEF Shaped
<1>3. n \in Nat \ {0} /\ DOMAIN parts[k] = 0 .. n - 1
    BY <1>2, GraphMemoryAssumption
<1>4. Cardinality(DOMAIN parts[k]) = n
    BY <1>3, FS_Interval
<1> DEFINE p == i \div ((T(t).size + n - 1) \div n)
<1>5. p \in 0 .. n - 1
    <2>1. i \in 0 .. T(t).size - 1
        BY DEF Indexes
    <2> QED
        BY <2>1, <1>1, <1>3, PartOf
<1>6. i \in Share(t, p, n)
    BY DEF Share
<1> HIDE DEF p, t
<1>7. p \in DOMAIN parts[k] /\ parts[k][p] = 1
    BY <1>3, <1>5 DEF Run!Done
<1> QED
    BY <1>4, <1>6, <1>7 DEF Wrote, t

-----------------------------------------------------------------------------
(* A run.                                                                  *)

(* An operand and its cells.                                               *)
LEMMA OperandFacts ==
    ASSUME Ready, NEW t \in All, Computed(t), NEW o, NEW j \in DOMAIN T(t).src, o = T(t).src[j],
           NEW share \in SUBSET Indexes(t), NEW i \in Reads(t, o, share)
    PROVE  /\ o \in All /\ Root(o) \in All /\ Root(o) < t /\ i \in Indexes(o)
           /\ i \in Indexes(Root(o)) /\ Cell(o, i) = Cell(Root(o), i)
           /\ Needs(graph, t, j, Root(o))
           /\ T(t).inplace /\ T(o).size = T(t).size => i \in share
<1>1. /\ t \in Nat \ {0} /\ T(t).size \in Nat \ {0} /\ o \in All /\ o < t /\ o \in Nat
      /\ T(t).inplace => T(t).op = "map"
    BY ReadyFacts, SMTT(60)
<1>2. /\ Root(o) \in All /\ Root(o) <= o /\ T(o).size <= T(Root(o)).size /\ Data(o) = Data(Root(o))
      /\ T(o).size \in Nat \ {0} /\ T(Root(o)).size \in Nat /\ Root(o) \in Nat
    BY <1>1, ReadyFacts
<1>3. i \in Indexes(o)
    <2>1. CASE T(t).op = "mul_mat"
        BY <2>1 DEF Reads
    <2>2. CASE T(t).op # "mul_mat"
        <3>1. PICK x \in share : i = x % T(o).size
            BY <2>2 DEF Reads
        <3>2. x \in Nat
            BY <3>1, <1>1 DEF Indexes
        <3> QED
            BY <3>1, <3>2, <1>2, Division, SMTT(60) DEF Indexes
    <2> QED
        BY <2>1, <2>2
<1>4. i \in Indexes(Root(o))
    BY <1>2, <1>3 DEF Indexes
<1>5. Needs(graph, t, j, Root(o))
    <2>1. graph.tensors[t].src[j] = o
        BY DEF T
    <2>2. Root(o) = o \/ graph.tensors[o].view = Root(o)
        BY DEF Root, T
    <2> QED
        BY <2>1, <2>2 DEF Needs
<1>6. T(t).inplace /\ T(o).size = T(t).size => i \in share
    <2> SUFFICES ASSUME T(t).inplace, T(o).size = T(t).size
                 PROVE  i \in share
        OBVIOUS
    <2>1. PICK x \in share : i = x % T(o).size
        BY <1>1 DEF Reads
    <2>2. x \in 0 .. T(t).size - 1
        BY <2>1 DEF Indexes
    <2>3. i = x
        BY <2>1, <2>2, <1>1, Small
    <2> QED
        BY <2>1, <2>3
<1> QED
    BY <1>1, <1>2, <1>3, <1>4, <1>5, <1>6 DEF Cell

(* A tensor written while a part of a node is to be computed comes no      *)
(* later than that node.                                                   *)
LEMMA WrittenBefore ==
    ASSUME Ready, Shaped, Sequential, NEW k \in DOMAIN parts, NEW p \in DOMAIN parts[k],
           Run!Pending(k, p), NEW u \in All, NEW i, Wrote(u, i)
    PROVE  /\ u <= Result(k)
           /\ u = Result(k) =>
                 \E r \in DOMAIN parts[k] :
                     parts[k][r] = 1 /\ i \in Share(u, r, Cardinality(DOMAIN parts[k]))
<1>1. /\ k \in Nat /\ Result(k) > graph.leafs /\ Result(k) = graph.leafs + k + 1
      /\ graph.leafs \in Nat /\ u \in Nat
    BY ReadyFacts, ShapedFacts
<1>2. CASE u <= graph.leafs
    BY <1>1, <1>2
<1>3. CASE u > graph.leafs
    <2>1. PICK l \in DOMAIN parts : \E r \in DOMAIN parts[l] :
              u = Result(l) /\ parts[l][r] = 1 /\ i \in Share(u, r, Cardinality(DOMAIN parts[l]))
        BY <1>1, <1>3 DEF Wrote
    <2>2. PICK r \in DOMAIN parts[l] :
              u = Result(l) /\ parts[l][r] = 1 /\ i \in Share(u, r, Cardinality(DOMAIN parts[l]))
        BY <2>1
    <2>3. l \in Nat /\ u = graph.leafs + l + 1
        BY <2>2, ShapedFacts
    <2>4. ~(k < l)
        <3>1. k < l => Run!Done(k)
            BY <2>2 DEF Sequential
        <3>2. ~Run!Done(k)
            BY DEF Run!Done, Run!Pending
        <3> QED
            BY <3>1, <3>2
    <2>5. u = Result(k) => l = k
        BY <2>2, ShapedFacts, ZenonT(60)
    <2>6. u <= Result(k)
        BY <2>3, <2>4, <1>1
    <2> QED
        BY <2>2, <2>5, <2>6
<1> QED
    BY <1>1, <1>2, <1>3

(* The run keeps the operands of what is still to be computed.             *)
LEMMA RunKeepsSources ==
    ASSUME Ready, status = "running" => Shaped /\ Sequential /\ Held
    PROVE  SourcesIntact
<1> SUFFICES ASSUME NEW k \in DOMAIN parts, NEW p \in DOMAIN parts[k], Run!Pending(k, p),
                    NEW t, t = Result(k),
                    NEW share, share = Share(t, p, Cardinality(DOMAIN parts[k])),
                    NEW j \in DOMAIN T(t).src, NEW o, o = T(t).src[j],
                    NEW i \in Reads(t, o, share)
             PROVE  Intact(o, i)
    BY DEF SourcesIntact
<1>1. Shaped /\ Sequential /\ Held
    BY DEF Run!Pending
<1>2. /\ t \in All /\ t > graph.leafs /\ Computed(t) /\ k \in Nat /\ parts[k][p] = 0
      /\ t = graph.leafs + k + 1 /\ graph.leafs \in Nat
    BY <1>1, ShapedFacts, ReadyFacts, ZenonT(60) DEF Run!Pending
<1>3. share \in SUBSET Indexes(t)
    BY DEF Share
<1> DEFINE q == Root(o)
<1>4. /\ o \in All /\ q \in All /\ q < t /\ i \in Indexes(q) /\ Cell(o, i) = Cell(q, i)
      /\ Needs(graph, t, j, q) /\ (T(t).inplace /\ T(o).size = T(t).size => i \in share)
    <2> HIDE DEF q
    <2>1. t \in All /\ Computed(t)
        BY <1>2
    <2>2. /\ o \in All /\ Root(o) \in All /\ Root(o) < t /\ i \in Indexes(o)
          /\ i \in Indexes(Root(o)) /\ Cell(o, i) = Cell(Root(o), i)
          /\ Needs(graph, t, j, Root(o))
          /\ T(t).inplace /\ T(o).size = T(t).size => i \in share
        BY ONLY Ready, <2>1, <1>3, o = T(t).src[j], OperandFacts, i \in Reads(t, o, share), j \in DOMAIN T(t).src, SMTT(60)
    <2> QED
        BY <2>2 DEF q
<1>5. T(q).view = 0 /\ q \in Nat /\ t \in Nat
    BY <1>2, <1>4, ReadyFacts, ZenonT(60)
<1> HIDE DEF q
<1>6. CASE T(q).external
    BY <1>6 DEF Intact, q
<1>7. CASE ~T(q).external
    <2>1. Placed(q)
        BY <1>5, <1>7 DEF Placed
    <2>2. Wrote(q, i)
        <3>1. CASE q <= graph.leafs
            BY <3>1 DEF Wrote
        <3>2. CASE q > graph.leafs
            <4> DEFINE l == q - graph.leafs - 1
            <4>1. l \in DOMAIN parts /\ Result(l) = q /\ l < k
                BY <3>2, <1>1, <1>2, <1>4, <1>5, ShapedFacts
            <4> HIDE DEF l
            <4>2. Run!Done(l)
                BY <4>1 DEF Run!Pending
            <4>3. Computed(q)
                <5>1. ~(q <= graph.leafs)
                    BY ONLY <3>2, <1>2, <1>5, SMTT(60)
                <5>2. /\ (T(q).op = "none") = (q <= graph.leafs)
                      /\ (T(q).op = "view") = (T(q).view # 0)
                      /\ T(q).op \in {"none", "view", "map", "mul_mat"}
                    BY <1>4, ReadyFacts, ZenonT(60)
                <5> QED
                    BY ONLY <5>1, <5>2, <1>5, ZenonT(60) DEF Computed
            <4> QED
                BY <4>1, <4>2, <4>3, <1>1, <1>4, DoneIsWritten
        <3> QED
            BY <3>1, <3>2, <1>2, <1>5
    <2>3. ASSUME NEW u \in All, Placed(u), u > q, NEW m \in Indexes(u),
                 Cell(u, m) = Cell(q, i), Wrote(u, m)
          PROVE  FALSE
        <3>1. u <= t /\ u \in Nat
            BY <2>3, <1>1, WrittenBefore, ReadyFacts
        <3>2. Yields(graph, q, u, Data(q) = Data(u)) /\ (Data(q) = Data(u) => i = m)
            BY <2>1, <2>3, <1>4, Clash
        <3>3. /\ t = u /\ Data(q) = Data(u) /\ T(u).inplace
              /\ T(u).src[j] = q /\ T(q).size = T(u).size
            <4>1. t \in DOMAIN graph.tensors /\ j \in DOMAIN graph.tensors[t].src
                BY <1>2 DEF All, T
            <4>2. \/ t < u
                  \/ /\ t = u /\ Data(q) = Data(u) /\ graph.tensors[u].inplace
                     /\ graph.tensors[u].src[j] = q /\ graph.tensors[q].size = graph.tensors[u].size
                BY <4>1, <3>2, <1>4 DEF Yields
            <4> QED
                BY <4>2, <3>1, <1>5 DEF T
        <3>4. o = q /\ i \in share /\ i = m
            BY <3>2, <3>3, <1>4
        <3>5. PICK r \in DOMAIN parts[k] :
                  parts[k][r] = 1 /\ m \in Share(u, r, Cardinality(DOMAIN parts[k]))
            BY <3>3, <2>3, <1>1, WrittenBefore
        <3>6. r = p
            BY <3>3, <3>4, <3>5 DEF Share
        <3> QED
            BY <3>5, <3>6, <1>2
    <2>4. mem[Cell(q, i)] = q
        BY <2>1, <2>2, <2>3, <1>1, <1>4 DEF Held
    <2>5. Cell(q, i) \in DOMAIN mem
        BY <2>1, <1>1, <1>4, PlacedFacts, ShapedFacts
    <2> QED
        BY <2>4, <2>5, <1>4 DEF Intact, q
<1> QED
    BY <1>6, <1>7

(* The caller's inputs are there when the run begins.                      *)
LEMMA InputsHeld ==
    ASSUME Ready, NEW n \in 1 .. MaxParts, Compute(n)
    PROVE  Shaped' /\ Sequential' /\ Held'
<1>1. /\ graph' = graph /\ plan' = plan /\ buffer' = buffer
    BY DEF Compute, allocVars
<1>2. /\ All' = All /\ Cells' = Cells /\ \A t \in All : T(t)' = T(t)
      /\ \A t : Indexes(t)' = Indexes(t) /\ Placed(t)' = Placed(t) /\ Computed(t)' = Computed(t)
      /\ \A k : Result(k)' = Result(k)
      /\ \A t, i : Cell(t, i)' = Cell(t, i)
    BY <1>1 DEF All, Cells, T, Indexes, Placed, Computed, Result, Cell, Data
<1>3. parts' = [k \in 0 .. Len(graph.tensors) - graph.leafs - 1 |->
                   [p \in IF Computed(Result(k)) THEN 0 .. n - 1 ELSE {} |-> 0]]
    BY DEF Compute
<1>4. \A k \in DOMAIN parts' : \A p \in DOMAIN parts'[k] : parts'[k][p] = 0
    BY <1>3
<1> DEFINE inputs == {t \in 1 .. graph.leafs : ~T(t).external}
           Here(x) == {t \in inputs : \E i \in Indexes(t) : Cell(t, i) = x}
<1>5. mem' = [x \in Cells |-> IF Here(x) = {} THEN 0 ELSE CHOOSE t \in Here(x) : TRUE]
    BY DEF Compute
<1>6. Shaped'
    <2>1. DOMAIN parts' = 0 .. Len(graph'.tensors) - graph'.leafs - 1 /\ DOMAIN mem' = Cells'
        BY <1>1, <1>2, <1>3, <1>5
    <2>2. \A k \in DOMAIN parts' :
              parts'[k] \in [IF Computed(Result(k))' THEN 0 .. n - 1 ELSE {} -> {0, 1}]
        BY <1>1, <1>2, <1>3 DEF Computed, Result, T
    <2> QED
        BY <2>1, <2>2 DEF Shaped
<1>7. Sequential'
    BY <1>4 DEF Sequential
<1>8. \A t \in All : \A i : Wrote(t, i)' => t <= graph.leafs
    BY <1>1, <1>4 DEF Wrote
<1>9. ASSUME NEW t \in All, Placed(t), NEW i \in Indexes(t), t <= graph.leafs
      PROVE  mem'[Cell(t, i)] = t
    <2>1. t \in inputs /\ t \in Here(Cell(t, i))
        BY <1>9, ReadyFacts DEF Placed
    <2>2. ASSUME NEW u \in Here(Cell(t, i)), u # t
          PROVE  FALSE
        <3>1. u \in 1 .. graph.leafs /\ ~T(u).external
            OBVIOUS
        <3>2. PICK m \in Indexes(u) : Cell(u, m) = Cell(t, i)
            OBVIOUS
        <3>3. /\ u \in All /\ u \in Nat /\ t \in Nat /\ u <= graph.leafs /\ T(u).view = 0
              /\ graph.leafs \in Nat
            <4>1. u \in All /\ u \in Nat /\ t \in Nat /\ u <= graph.leafs /\ graph.leafs \in Nat
                BY <3>1, ReadyFacts
            <4>2. T(u).op = "none" /\ T(u).view \in Nat
                BY <4>1, ReadyFacts, GraphFacts DEF Ready, T, All
            <4> QED
                BY <4>1, <4>2, ReadyFacts
        <3>4. Placed(u)
            BY <3>1, <3>3 DEF Placed
        <3>5. CASE u < t
            BY <3>2, <3>3, <3>4, <3>5, <1>9, Clash DEF Yields
        <3>6. CASE t < u
            BY <3>2, <3>3, <3>4, <3>6, <1>9, Clash DEF Yields
        <3> QED
            BY <3>3, <3>5, <3>6, <2>2
    <2>3. Cell(t, i) \in Cells
        BY <1>9, PlacedFacts
    <2> HIDE DEF Here, inputs
    <2>4. mem'[Cell(t, i)] = CHOOSE u \in Here(Cell(t, i)) : TRUE
        BY <2>1, <2>3, <1>5
    <2>5. (CHOOSE u \in Here(Cell(t, i)) : TRUE) \in Here(Cell(t, i))
        BY <2>1
    <2> QED
        BY <2>2, <2>4, <2>5
<1>10. Held'
    <2> SUFFICES ASSUME NEW t \in All', Placed(t)', NEW i \in Indexes(t)', Wrote(t, i)'
                 PROVE  mem'[Cell(t, i)'] = t
        BY DEF Held
    <2> QED
        BY <1>2, <1>8, <1>9
<1> QED
    BY <1>6, <1>7, <1>10

(* A part that is computed is written, and nothing else.                   *)
LEMMA PartWritten ==
    ASSUME Ready, Shaped, NEW k \in DOMAIN parts, NEW p \in DOMAIN parts[k], ComputePart(k, p)
    PROVE  /\ \A l \in DOMAIN parts : DOMAIN parts'[l] = DOMAIN parts[l]
           /\ DOMAIN parts' = DOMAIN parts
           /\ \A l \in DOMAIN parts : \A r \in DOMAIN parts[l] :
                  parts'[l][r] = IF l = k /\ r = p THEN 1 ELSE parts[l][r]
           /\ \A t, i : Wrote(t, i)' <=>
                 \/ Wrote(t, i)
                 \/ t = Result(k) /\ i \in Share(t, p, Cardinality(DOMAIN parts[k]))
<1>1. graph' = graph
    BY DEF ComputePart, allocVars
<1>2. parts' = [parts EXCEPT ![k][p] = 1]
    BY DEF ComputePart, Run!ComputePart
<1>3. /\ DOMAIN parts' = DOMAIN parts
      /\ \A l \in DOMAIN parts : DOMAIN parts'[l] = DOMAIN parts[l]
      /\ \A l \in DOMAIN parts : \A r \in DOMAIN parts[l] :
             parts'[l][r] = IF l = k /\ r = p THEN 1 ELSE parts[l][r]
    <2>1. \A l \in DOMAIN parts : parts[l] = [r \in DOMAIN parts[l] |-> parts[l][r]]
        BY DEF Shaped
    <2> QED
        BY <1>2, <2>1
<1>4. /\ \A l : Result(l)' = Result(l)
      /\ \A t, r, n : Share(t, r, n)' = Share(t, r, n)
    BY <1>1 DEF Result, Share, Indexes, T
<1>5. ASSUME NEW t, NEW i
      PROVE  Wrote(t, i)' <=>
                 \/ Wrote(t, i)
                 \/ t = Result(k) /\ i \in Share(t, p, Cardinality(DOMAIN parts[k]))
    <2>1. Wrote(t, i)' <=>
              \/ t <= graph.leafs
              \/ \E l \in DOMAIN parts : \E r \in DOMAIN parts[l] :
                    t = Result(l) /\ parts'[l][r] = 1 /\ i \in Share(t, r, Cardinality(DOMAIN parts[l]))
        BY <1>1, <1>3, <1>4 DEF Wrote
    <2> QED
        BY <2>1, <1>3 DEF Wrote
<1> QED
    BY <1>3, <1>5

(* Computing a part keeps what is held: only cells of its own node change, *)
(* and no later node has been written.                                     *)
LEMMA PartHeld ==
    ASSUME Ready, Shaped, Sequential, Held,
           NEW k \in DOMAIN parts, NEW p \in DOMAIN parts[k], ComputePart(k, p),
           NEW t0, t0 = Result(k)
    PROVE  Shaped' /\ Sequential' /\ Held'
<1> DEFINE share == Share(t0, p, Cardinality(DOMAIN parts[k]))
           written == {Cell(t0, i) : i \in share}
<1>1. /\ graph' = graph /\ plan' = plan /\ buffer' = buffer
    BY DEF ComputePart, allocVars
<1>2. /\ All' = All /\ Cells' = Cells
      /\ \A t : Indexes(t)' = Indexes(t) /\ Placed(t)' = Placed(t) /\ Computed(t)' = Computed(t)
      /\ \A l : Result(l)' = Result(l)
      /\ \A t, i : Cell(t, i)' = Cell(t, i)
    BY <1>1 DEF All, Cells, T, Indexes, Placed, Computed, Result, Cell, Data
<1>3. mem' = [x \in DOMAIN mem |-> IF x \in written THEN t0 ELSE mem[x]]
    BY DEF ComputePart
<1>4. Run!Pending(k, p)
    BY DEF ComputePart, Run!ComputePart
<1>5. /\ DOMAIN parts' = DOMAIN parts
      /\ \A l \in DOMAIN parts : DOMAIN parts'[l] = DOMAIN parts[l]
      /\ \A l \in DOMAIN parts : \A r \in DOMAIN parts[l] :
             parts'[l][r] = IF l = k /\ r = p THEN 1 ELSE parts[l][r]
      /\ \A t, i : Wrote(t, i)' <=> Wrote(t, i) \/ (t = t0 /\ i \in share)
    BY PartWritten
<1>6. /\ t0 \in All /\ t0 > graph.leafs /\ Computed(t0) /\ parts[k][p] = 0
      /\ t0 \in Nat /\ graph.leafs \in Nat /\ DOMAIN mem = Cells
    BY <1>4, ShapedFacts, ReadyFacts DEF Run!Pending
<1>7. Shaped'
    <2>1. PICK n \in 1 .. MaxParts : \A l \in DOMAIN parts :
              parts[l] \in [IF Computed(Result(l)) THEN 0 .. n - 1 ELSE {} -> {0, 1}]
        BY DEF Shaped
    <2>2. parts' = [parts EXCEPT ![k][p] = 1]
        BY DEF ComputePart, Run!ComputePart
    <2>3. ASSUME NEW l \in DOMAIN parts
          PROVE  parts'[l] \in [IF Computed(Result(l)) THEN 0 .. n - 1 ELSE {} -> {0, 1}]
        BY <2>1, <2>2
    <2>4. \A l \in DOMAIN parts' :
              parts'[l] \in [IF Computed(Result(l))' THEN 0 .. n - 1 ELSE {} -> {0, 1}]
        <3>1. \A l \in DOMAIN parts : Computed(Result(l))' = Computed(Result(l))
            BY <1>1 DEF Computed, Result, T
        <3> QED
            BY <2>3, <3>1, <1>5
    <2>5. DOMAIN parts' = 0 .. Len(graph'.tensors) - graph'.leafs - 1 /\ DOMAIN mem' = Cells'
        BY <1>1, <1>2, <1>3, <1>5, <1>6 DEF Shaped
    <2> QED
        BY <2>4, <2>5 DEF Shaped
<1>8. Sequential'
    <2>1. \A l \in DOMAIN parts : Run!Done(l) => Run!Done(l)'
        BY <1>5 DEF Run!Done
    <2>2. \A l \in DOMAIN parts : \A r \in DOMAIN parts[l] :
              parts'[l][r] = 1 => \A j \in DOMAIN parts : j < l => Run!Done(j)
        BY <1>4, <1>5 DEF Run!Pending, Sequential
    <2> QED
        BY <2>1, <2>2, <1>5 DEF Sequential
<1> HIDE DEF share, written
<1>9. ASSUME NEW t \in All, Placed(t), NEW i \in Indexes(t), Wrote(t, i)',
             \A u \in All : Placed(u) /\ u > t =>
                 \A j \in Indexes(u) : Cell(u, j) = Cell(t, i) => ~Wrote(u, j)'
      PROVE  mem'[Cell(t, i)] = t
    <2>1. Cell(t, i) \in DOMAIN mem
        BY <1>6, <1>9, PlacedFacts
    <2>2. t \in Nat
        BY ReadyFacts
    <2>3. CASE Cell(t, i) \in written
        <3>1. PICK j \in share : Cell(t0, j) = Cell(t, i)
            BY <2>3 DEF written
        <3>2. j \in Indexes(t0)
            BY DEF share, Share
        <3>3. T(t0).view = 0
            BY <1>6, ReadyFacts DEF Computed
        <3>4. Placed(t0)
            <4>1. Data(t0).chunk = Data(t).chunk
                BY <3>1 DEF Cell
            <4>2. Data(t).chunk # 0
                BY <1>9, PlacedFacts
            <4> QED
                BY <4>1, <4>2, <3>3, <1>6, NotPlaced
        <3>5. ~(t0 > t)
            <4>1. Wrote(t0, j)'
                BY <1>5
            <4> QED
                BY <4>1, <3>1, <3>2, <3>4, <1>6, <1>9
        <3>6. ~(t > t0)
            <4> SUFFICES ASSUME t > t0
                         PROVE  FALSE
                OBVIOUS
            <4>1. Wrote(t, i)
                BY <1>5, <1>6, <1>9, <2>2
            <4>2. t <= t0
                BY <4>1, <1>4, WrittenBefore
            <4> QED
                BY <4>2, <1>6, <2>2
        <3>7. t = t0
            BY <3>5, <3>6, <1>6, <2>2
        <3> QED
            BY <3>7, <2>1, <2>3, <1>3
    <2>4. CASE Cell(t, i) \notin written
        <3>1. Wrote(t, i)
            <4>1. ~(t = t0 /\ i \in share)
                BY <2>4 DEF written
            <4> QED
                BY <4>1, <1>5, <1>9
        <3>2. \A u \in All : Placed(u) /\ u > t =>
                 \A j \in Indexes(u) : Cell(u, j) = Cell(t, i) => ~Wrote(u, j)
            BY <1>5, <1>9
        <3>3. mem[Cell(t, i)] = t
            BY <3>1, <3>2, <1>9 DEF Held
        <3> QED
            BY <3>3, <2>1, <2>4, <1>3
    <2> QED
        BY <2>3, <2>4
<1>10. Held'
    <2> SUFFICES ASSUME NEW t \in All', Placed(t)', NEW i \in Indexes(t)', Wrote(t, i)',
                        \A u \in All' : Placed(u)' /\ u > t =>
                            \A j \in Indexes(u)' : Cell(u, j)' = Cell(t, i)' => ~Wrote(u, j)'
                 PROVE  mem'[Cell(t, i)'] = t
        BY DEF Held
    <2> QED
        BY <1>2, <1>9
<1> QED
    BY <1>7, <1>8, <1>10

(* When all has been computed, the outputs are there.                      *)
LEMMA OutputsHeld ==
    ASSUME Ready, Shaped, Held, \A k \in DOMAIN parts : Run!Done(k),
           NEW t \in All, Computed(t), T(t).output \/ t = Len(graph.tensors),
           NEW i \in Indexes(t)
    PROVE  Intact(t, i)
<1>1. /\ t \in Nat /\ t > graph.leafs /\ graph.leafs \in Nat /\ T(t).view = 0 /\ Root(t) = t
    BY ReadyFacts, SMTT(60) DEF Computed
<1>2. CASE T(t).external
    BY <1>1, <1>2 DEF Intact
<1>3. CASE ~T(t).external
    <2>1. Placed(t)
        BY <1>1, <1>3 DEF Placed
    <2>2. Wrote(t, i)
        BY <1>1, ShapedFacts, DoneIsWritten
    <2>3. ASSUME NEW u \in All, Placed(u), u > t, NEW j \in Indexes(u), Cell(u, j) = Cell(t, i)
          PROVE  FALSE
        <3>1. Yields(graph, t, u, Data(t) = Data(u))
            BY <2>1, <2>3, Clash
        <3>2. ~T(t).output
            BY <3>1 DEF Yields, T
        <3>3. u <= Len(graph.tensors) /\ Len(graph.tensors) \in Nat /\ u \in Nat
            BY ReadyFacts
        <3> QED
            BY <3>2, <3>3, <2>3, <1>1
    <2>4. mem[Cell(t, i)] = t
        BY <2>1, <2>2, <2>3 DEF Held
    <2>5. Cell(t, i) \in DOMAIN mem
        BY <2>1, PlacedFacts, ShapedFacts
    <2> QED
        BY <2>4, <2>5, <1>1 DEF Intact
<1> QED
    BY <1>2, <1>3

(* Outputs stay intact as long as graph, plan and memory stay.             *)
LEMMA SameOutputs ==
    ASSUME graph' = graph, plan' = plan, mem' = mem
    PROVE  /\ All' = All
           /\ \A t \in All : /\ T(t)' = T(t) /\ Computed(t)' = Computed(t)
                             /\ Indexes(t)' = Indexes(t)
                             /\ \A i : Intact(t, i)' = Intact(t, i)
BY DEF All, T, Computed, Indexes, Intact, Root, Cell, Data

(* And so does what is known of them.                                      *)
LEMMA OutputsStutter ==
    ASSUME OutputsIntact, graph' = graph, plan' = plan, mem' = mem, status' = status
    PROVE  OutputsIntact'
BY SameOutputs DEF OutputsIntact

(* What is held stays as long as plan, memory and parts stay.              *)
LEMMA RunStutters ==
    ASSUME Shaped, Sequential, Held,
           graph' = graph, plan' = plan, buffer' = buffer, mem' = mem, parts' = parts
    PROVE  Shaped' /\ Sequential' /\ Held'
<1>1. /\ All' = All /\ Cells' = Cells
      /\ \A t : Indexes(t)' = Indexes(t) /\ Placed(t)' = Placed(t) /\ Computed(t)' = Computed(t)
      /\ \A l : Result(l)' = Result(l)
      /\ \A t, i : Cell(t, i)' = Cell(t, i)
      /\ \A t, i : Wrote(t, i)' = Wrote(t, i)
    BY DEF All, Cells, T, Indexes, Placed, Computed, Result, Cell, Data, Wrote, Share
<1>2. Shaped'
    <2>1. PICK n \in 1 .. MaxParts : \A l \in DOMAIN parts :
              parts[l] \in [IF Computed(Result(l)) THEN 0 .. n - 1 ELSE {} -> {0, 1}]
        BY DEF Shaped
    <2>2. \A l : Computed(Result(l))' = Computed(Result(l))
        BY DEF Computed, Result, T
    <2> QED
        BY <2>1, <2>2, <1>1 DEF Shaped
<1>3. Sequential'
    BY DEF Sequential, Run!Done
<1>4. Held'
    BY <1>1 DEF Held
<1> QED
    BY <1>2, <1>3, <1>4

(* Every step of a run, and between runs.                                  *)
LEMMA RunFitsNext ==
    ASSUME PlanFits, RunFits, [Next]_vars
    PROVE  RunFits'
<1>1. status # "idle" => goal = "ready" /\ Ready
    BY DEF PlanFits, RunFits, Ready
<1>2. CASE UNCHANGED vars
    <2>1. /\ graph' = graph /\ plan' = plan /\ buffer' = buffer /\ mem' = mem
          /\ parts' = parts /\ status' = status /\ goal' = goal
        BY <1>2 DEF vars, allocVars
    <2>2. OutputsIntact'
        BY <2>1, OutputsStutter DEF RunFits
    <2>3. status' = "running" => Shaped' /\ Sequential' /\ Held'
        BY <2>1, RunStutters DEF RunFits
    <2> QED
        BY <2>1, <2>2, <2>3 DEF RunFits
<1>3. CASE Plan
    <2>1. status = "idle" /\ status' = "idle"
        BY <1>3 DEF Plan
    <2> QED
        BY <2>1 DEF RunFits, OutputsIntact
<1>4. CASE Run!Return /\ UNCHANGED <<allocVars, mem>>
    <2>1. /\ graph' = graph /\ plan' = plan /\ mem' = mem /\ goal' = goal
          /\ status = "running"
          /\ status' = IF limit = -1 THEN "success" ELSE "aborted"
        BY <1>4 DEF Run!Return, allocVars
    <2>2. goal' = "ready" /\ Ready /\ Shaped /\ Held
        BY <2>1, <1>1 DEF RunFits
    <2>3. CASE limit = -1
        <3>1. \A k \in DOMAIN parts : Run!Done(k)
            BY <1>4, <2>3 DEF Run!Return, Run!Wanted
        <3>2. \A t \in All : Computed(t) /\ (T(t).output \/ t = Len(graph.tensors)) =>
                 \A i \in Indexes(t) : Intact(t, i)
            BY <3>1, <2>2, OutputsHeld
        <3>3. OutputsIntact'
            BY <3>2, <2>1, SameOutputs DEF OutputsIntact
        <3> QED
            BY <3>3, <2>1, <2>2, <2>3 DEF RunFits
    <2>4. CASE limit # -1
        BY <2>1, <2>2, <2>4 DEF RunFits, OutputsIntact
    <2> QED
        BY <2>3, <2>4
<1>5. ASSUME NEW k \in DOMAIN parts, Run!Abort(k), UNCHANGED <<allocVars, mem>>
      PROVE  RunFits'
    <2>1. /\ graph' = graph /\ plan' = plan /\ buffer' = buffer /\ mem' = mem
          /\ parts' = parts /\ status' = status /\ goal' = goal
        BY <1>5 DEF Run!Abort, allocVars
    <2>2. OutputsIntact'
        BY <2>1, OutputsStutter DEF RunFits
    <2>3. status' = "running" => Shaped' /\ Sequential' /\ Held'
        BY <2>1, RunStutters DEF RunFits
    <2> QED
        BY <2>1, <2>2, <2>3 DEF RunFits
<1>6. CASE Collect
    BY <1>6 DEF Collect, Run!Collect, RunFits, OutputsIntact
<1>7. ASSUME NEW n \in 1 .. MaxParts, Compute(n)
      PROVE  RunFits'
    <2>1. goal = "ready" /\ goal' = goal /\ status' = "running"
        BY <1>7 DEF Compute, Run!Begin, allocVars
    <2>2. Ready
        BY <2>1 DEF PlanFits, Ready
    <2>3. Shaped' /\ Sequential' /\ Held'
        BY <2>2, <1>7, InputsHeld
    <2> QED
        BY <2>1, <2>3 DEF RunFits, OutputsIntact
<1>8. ASSUME NEW k \in DOMAIN parts, NEW p \in DOMAIN parts[k], ComputePart(k, p)
      PROVE  RunFits'
    <2>1. status = "running" /\ status' = "running" /\ goal' = goal
        BY <1>8 DEF ComputePart, Run!ComputePart, Run!Pending, allocVars
    <2>2. Ready /\ goal' = "ready" /\ Shaped /\ Sequential /\ Held
        BY <2>1, <1>1 DEF RunFits
    <2>3. PICK t0 : t0 = Result(k)
        OBVIOUS
    <2>4. Shaped' /\ Sequential' /\ Held'
        BY <2>2, <2>3, <1>8, PartHeld
    <2> QED
        BY <2>1, <2>2, <2>4 DEF RunFits, OutputsIntact
<1> QED
    BY <1>2, <1>3, <1>4, <1>5, <1>6, <1>7, <1>8 DEF Next, Steer

(* The allocator while a graph is computed, and between runs.              *)
LEMMA PlanFitsNext ==
    ASSUME AllocInv, PlanFits, [Next]_vars, AllocInv'
    PROVE  PlanFits'
<1>1. CASE Plan
    BY <1>1, AllocNextFits DEF Plan
<1>2. CASE UNCHANGED allocVars
    BY <1>2, PlanFitsStutters
<1>3. CASE Collect
    <2>1. plan' = plan /\ buffer' = buffer /\ goal' = "none"
        BY <1>3 DEF Collect
    <2>2. Sized' /\ (plan' = NoPlan \/ \E g \in Graphs : MadeFor(g)')
        BY <2>1, SamePlanKept
    <2> QED
        BY <2>1, <2>2 DEF PlanFits
<1>4. CASE Steer
    BY <1>2, <1>4 DEF Steer, allocVars
<1> QED
    BY <1>1, <1>2, <1>3, <1>4 DEF Next, Compute, ComputePart, vars

-----------------------------------------------------------------------------
(* The theorems.                                                           *)

(* Every plan fits the graph it is used for, the one it was made for and   *)
(* any later one that does not outgrow it, and every run in it keeps the   *)
(* cells that have been written (ggml_gallocr_reserve_n_impl,              *)
(* ggml_gallocr_needs_realloc, ggml_graph_compute).                        *)
THEOREM PlansFitTheirGraphs == Spec => []MemInv
<1>1. Init => PlanFits /\ RunFits
    <2> SUFFICES ASSUME Init
                 PROVE  PlanFits /\ RunFits
        OBVIOUS
    <2>1. plan = NoPlan /\ goal = "none" /\ buffer = <<>> /\ status = "idle"
        BY DEF Init, AllocInit, Run!Init
    <2>2. Sized
        BY <2>1 DEF Sized
    <2> QED
        BY <2>1, <2>2 DEF PlanFits, RunFits, OutputsIntact
<1>2. AllocInv /\ PlanFits /\ RunFits /\ [Next]_vars /\ AllocInv' => PlanFits' /\ RunFits'
    BY PlanFitsNext, RunFitsNext
<1>3. AllocInv /\ PlanFits /\ RunFits => MemInv
    BY DEF MemInv
<1> QED
    BY <1>1, <1>2, <1>3, ChunksStayDivided, PTL DEF Spec

(* When a graph has been computed, its outputs and its last node hold      *)
(* their values, whatever the graph, the parts and their order: "output    *)
(* tensors are never freed and never overwritten" (ggml-alloc.h).          *)
THEOREM OutputsStayIntact == Spec => []OutputsIntact
<1>1. MemInv => OutputsIntact
    BY DEF MemInv, RunFits
<1> QED
    BY <1>1, PlansFitTheirGraphs, PTL

(* Whatever part of a node is still to be computed, all it reads is there, *)
(* in place or not, for any graphs, parts and orders of computing          *)
(* (ggml_gallocr_allocate_node, ggml_gallocr_free_node).                   *)
THEOREM OperandsStayIntact == Spec => []SourcesIntact
<1>1. ASSUME MemInv
      PROVE  SourcesIntact
    <2>1. CASE status = "running"
        <3>1. Ready /\ Shaped /\ Sequential /\ Held
            BY <2>1, <1>1 DEF MemInv, PlanFits, RunFits, Ready
        <3> QED
            BY <3>1, RunKeepsSources
    <2>2. CASE status # "running"
        BY <2>2 DEF SourcesIntact, Run!Pending
    <2> QED
        BY <2>1, <2>2
<1> QED
    BY <1>1, PlansFitTheirGraphs, PTL
=============================================================================
