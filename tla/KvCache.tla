------------------------------ MODULE KvCache -------------------------------
(***************************************************************************)
(* whisper_kv_cache (whisper.cpp): the self-attention cache the decoders   *)
(* of one call share. A cell belongs to the sequences (decoders) in its    *)
(* seq_id; a decoder attends to the cells of its sequence.                 *)
(*                                                                         *)
(* A cache has the cells in use, the head at which the next search starts  *)
(* and its size. What a cell holds depends on the tokens up to and with    *)
(* its own; it is represented by them.                                     *)
(***************************************************************************)
EXTENDS Integers, Sequences, SequencesExt

NewCache(size) == [cells |-> <<>>, head |-> 0, size |-> size]

Cells(cache) == DOMAIN cache.cells
InUse(cache) == {cache.cells[c] : c \in Cells(cache)}

(* whisper_kv_cache_clear.                                                 *)
Clear(cache) == [cache EXCEPT !.cells = <<>>, !.head = 0]

-----------------------------------------------------------------------------
(* whisper_kv_cache_find_slot: the first n free cells in a row from head   *)
(* on, or else from the first cell on.                                     *)
Slots(cache, n) ==
    {h \in 0 .. cache.size - n : (h .. h + n - 1) \cap Cells(cache) = {}}

FromHead(cache, n) == {h \in Slots(cache, n) : h >= cache.head}

HasSlot(cache, n) == Slots(cache, n) # {}

FindSlot(cache, n) ==
    Min(IF FromHead(cache, n) # {} THEN FromHead(cache, n) ELSE Slots(cache, n))

(* The cells of a batch are put there, the first of them at the new head.  *)
Put(cache, batch) ==
    LET h == FindSlot(cache, Len(batch))
        new == h .. h + Len(batch) - 1
    IN  [cache EXCEPT
            !.cells = [c \in Cells(cache) \cup new |->
                          IF c \in new THEN batch[c - h + 1] ELSE cache.cells[c]],
            !.head = h]

-----------------------------------------------------------------------------
(* The sequences of a cell after whisper_kv_cache_seq_cp, all positions,   *)
(* from src(j) to dst for each dst of a set, and after seq_rm of a set.    *)
SeqCp(ids, src, dsts) == ids \cup {d \in dsts : src[d] \in ids}
SeqRm(ids, seqs) == ids \ seqs

(* The cells after a list of these that ends in a copy, or in the removal  *)
(* of what was copied: a cell left without a sequence is free; the copy    *)
(* has set head to 0, and nothing was freed since to set it again.         *)
Reassigned(cache, ids) ==
    [cache EXCEPT
        !.cells = [c \in {d \in Cells(cache) : ids[d] # {}} |->
                      [cache.cells[c] EXCEPT !.seq_id = ids[c]]],
        !.head = 0]

(* The cells a token of sequence seq at position pos attends to.           *)
Visible(cache, seq, pos) ==
    {c \in Cells(cache) : seq \in cache.cells[c].seq_id /\ cache.cells[c].pos <= pos}
=============================================================================
