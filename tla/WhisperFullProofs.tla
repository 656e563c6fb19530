------------------------- MODULE WhisperFullProofs --------------------------
(***************************************************************************)
(* Proofs about whisper_full_with_state: for any number of decoders and    *)
(* temperatures, any sizes of the model and any calls.                     *)
(***************************************************************************)
EXTENDS WhisperFull, FiniteSetTheorems, SequenceTheorems, WellFoundedInduction, TLAPS

-----------------------------------------------------------------------------
(* The invariant.                                                          *)

CellType == [pos : Nat, seq_id : SUBSET Nat, tokens : Seq(Tokens)]
CacheType ==
    [cells : UNION {[D -> CellType] : D \in SUBSET Nat}, head : Nat, size : Nat]
DecoderType ==
    [tokens : Seq(Tokens), result_len : Nat, seek_delta : 1 .. Chunk,
     failed : BOOLEAN, completed : BOOLEAN, has_ts : BOOLEAN]

Sampling == pc \in {"sample", "decode"}

(* The cache is as large as it was made for; every batch so far lies in    *)
(* the first cells, a row of kv_n_dec of them for each token.              *)
Edge == prompt + i * kv_n_dec
Packed ==
    /\ kv \in CacheType /\ kv.size = CacheSize(kv_n_dec)
    /\ prompt <= InitLen + MaxPrompt /\ kv.head <= Edge
    /\ \A c \in Cells(kv) : c < Edge /\ kv.cells[c].pos < prompt + i
    /\ Sampling => i < NMax /\ NDecoders <= kv_n_dec

(* While decoders sample, each has one cell for each position before its   *)
(* next token, computed from its own tokens.                               *)
IsOf(j, p, c) == c \in Cells(kv) /\ j \in kv.cells[c].seq_id /\ kv.cells[c].pos = p
Context(j, p) == SubSeq(dec[j].tokens, 1, IF p < prompt THEN 0 ELSE p - prompt + 1)
Seen(j, p, c) == IsOf(j, p, c) /\ kv.cells[c].tokens = Context(j, p)
Contexts ==
    Sampling =>
        /\ \A c \in Cells(kv) : kv.cells[c].seq_id \subseteq Decoders
        /\ \A j \in Live : Len(dec[j].tokens) = IF pc = "decode" THEN i + 1 ELSE i
        /\ \A j \in Live : \A p \in 0 .. prompt + i - 1 :
               \E c : Seen(j, p, c) /\ \A e : IsOf(j, p, e) => e = c

(* The timestamps of a result do not decrease, and its step is that of the *)
(* last of them.                                                           *)
InTime(tokens, has_ts, seek_delta) ==
    /\ \A a \in DOMAIN tokens :
           IsTime(tokens[a]) => has_ts /\ 2 * tokens[a].ts <= seek_delta
    /\ \A a, b \in DOMAIN tokens :
           a < b /\ IsTime(tokens[a]) /\ IsTime(tokens[b]) => tokens[a].ts <= tokens[b].ts
Timely == \A j \in Decoders : InTime(dec[j].tokens, dec[j].has_ts, dec[j].seek_delta)

(* The segments are in order of time, and none ends beyond where the call  *)
(* has come, unless that is the end of the audio.                          *)
Ordered(segments) ==
    \A a, b \in DOMAIN segments : a < b => segments[a].end <= segments[b].end
Behind == \A a \in DOMAIN result_all : result_all[a].end <= seek
Written ==
    /\ Ordered(result_all)
    /\ pc = "window" => Behind \/ call.seek_end <= seek
    /\ pc \notin {"idle", "window"} => Behind /\ seek < call.seek_end

Inv == TypeOK /\ Packed /\ Contexts /\ Timely /\ Written

-----------------------------------------------------------------------------
(* Induction. A set of numbers has a least one, as the intervals that end  *)
(* in them have one that contains no other.                                *)
LEMMA LeastNumber ==
    ASSUME NEW T \in SUBSET Nat, T # {}
    PROVE  \E x \in T : \A y \in T : x <= y
<1> DEFINE Intervals == {0 .. x : x \in T}
<1>1. Intervals \subseteq FiniteSubsetsOf(Nat) /\ Intervals # {}
  <2>1. \A x \in T : IsFiniteSet(0 .. x) /\ 0 .. x \subseteq Nat
    BY FS_Interval
  <2> QED
    BY <2>1 DEF FiniteSubsetsOf
<1>2. IsWellFoundedOn(StrictSubsetOrdering(Nat), FiniteSubsetsOf(Nat))
  BY FS_StrictSubsetOrderingWellFounded
<1>3. PICK X \in Intervals : \A Y \in Intervals : ~(<<Y, X>> \in StrictSubsetOrdering(Nat))
  <2> HIDE DEF Intervals
  <2> QED
    BY <1>1, <1>2, WFMin
<1>4. PICK x \in T : X = 0 .. x
  OBVIOUS
<1>5. ASSUME NEW y \in T PROVE x <= y
  <2>1. ~(<<0 .. y, 0 .. x>> \in StrictSubsetOrdering(Nat))
    BY <1>3, <1>4
  <2>2. ~(0 .. y \subseteq 0 .. x /\ 0 .. y # 0 .. x)
    BY <2>1 DEF StrictSubsetOrdering
  <2> QED
    BY <2>2
<1> QED
  BY <1>5

LEMMA Induction ==
    ASSUME NEW S \in SUBSET Nat, 0 \in S, \A n \in S : n + 1 \in S
    PROVE  S = Nat
<1> SUFFICES ASSUME Nat \ S # {} PROVE FALSE
  OBVIOUS
<1>1. PICK x \in Nat \ S : \A y \in Nat \ S : x <= y
  BY LeastNumber
<1>2. x - 1 \in S
  BY <1>1
<1> QED
  BY <1>1, <1>2

-----------------------------------------------------------------------------
(* The constants.                                                          *)
LEMMA Sizes ==
    /\ TextCtx \in Nat /\ MaxPrompt \in Nat /\ NMax \in Nat
    /\ MaxPrompt > 4 /\ NMax = MaxPrompt - 4 /\ 2 * MaxPrompt <= TextCtx
    /\ InitLen \in 1 .. 4 /\ MaxDecoders \in Nat \ {0} /\ Chunk \in Nat /\ Chunk > 0
    /\ Chunk \div 2 \in Nat /\ 2 * (Chunk \div 2) <= Chunk
BY WhisperFullAssumption DEF MaxPrompt, NMax

LEMMA TokenType ==
    ASSUME NEW token \in Tokens
    PROVE  /\ token.kind \in {"text", "eot", "ts"} /\ token.ts \in 0 .. Chunk \div 2
           /\ IsTime(token) => 2 * token.ts \in 1 .. Chunk
           /\ token = Text \/ token = Eot <=> token.kind # "ts"
           /\ token = Text <=> token.kind = "text"
<1>1. Chunk \div 2 \in Nat /\ 2 * (Chunk \div 2) <= Chunk /\ Chunk \in Nat
  BY Sizes
<1>2. \/ token = [kind |-> "text", ts |-> 0]
      \/ token = [kind |-> "eot", ts |-> 0]
      \/ \E v \in 0 .. Chunk \div 2 : token = [kind |-> "ts", ts |-> v]
  BY DEF Tokens, Text, Eot, Ts
<1> QED
  BY <1>1, <1>2 DEF IsTime, Text, Eot

LEMMA CallType ==
    ASSUME TypeOK
    PROVE  /\ call \in [strategy : {"greedy", "beam"}, best_of : 1 .. MaxDecoders,
                        beam_size : 1 .. MaxDecoders, seek_end : Nat,
                        no_context : BOOLEAN]
           /\ NDecoders \in 1 .. MaxDecoders
           /\ Current \subseteq Decoders /\ Live \subseteq Current /\ 0 \in Current
           /\ Current \subseteq Nat
           /\ IsFiniteSet(Live) /\ Cardinality(Live) \in Nat /\ Cardinality(Live) <= NDecoders
<1>1. call \in [strategy : {"greedy", "beam"}, best_of : 1 .. MaxDecoders,
                beam_size : 1 .. MaxDecoders, seek_end : Nat, no_context : BOOLEAN]
  BY WhisperFullAssumption DEF TypeOK
<1>2. NDecoders \in 1 .. MaxDecoders
  BY <1>1, Sizes DEF NDecoders
<1>3. Current \subseteq Decoders /\ Live \subseteq Current /\ 0 \in Current /\ Current \subseteq Nat
  BY <1>2, Sizes DEF Current, Decoders, Live
<1>4. IsFiniteSet(Current) /\ Cardinality(Current) = NDecoders
  BY <1>2, Sizes, FS_Interval DEF Current
<1>5. IsFiniteSet(Live) /\ Cardinality(Live) \in Nat /\ Cardinality(Live) <= Cardinality(Current)
  BY <1>3, <1>4, FS_Subset, FS_CardinalityType
<1> QED
  BY <1>1, <1>2, <1>3, <1>4, <1>5

-----------------------------------------------------------------------------
(* The cache.                                                              *)

LEMMA CacheParts ==
    ASSUME NEW c \in CacheType
    PROVE  /\ c = [cells |-> c.cells, head |-> c.head, size |-> c.size]
           /\ c.head \in Nat /\ c.size \in Nat /\ Cells(c) \subseteq Nat
           /\ c.cells = [d \in Cells(c) |-> c.cells[d]]
           /\ \A d \in Cells(c) : c.cells[d] \in CellType
<1>1. PICK D \in SUBSET Nat : c.cells \in [D -> CellType]
  BY DEF CacheType
<1> QED
  BY <1>1 DEF CacheType, Cells

Changed(c, y, h) == [c EXCEPT !.cells = y, !.head = h]

LEMMA CacheChanged ==
    ASSUME NEW c \in CacheType, NEW D \in SUBSET Nat, NEW y \in [D -> CellType],
           NEW h \in Nat, NEW e, e = Changed(c, y, h)
    PROVE  /\ e \in CacheType /\ e.cells = y /\ e.head = h /\ e.size = c.size
           /\ Cells(e) = D
<1> DEFINE X == UNION {[E -> CellType] : E \in SUBSET Nat}
<1>1. y \in X /\ DOMAIN y = D
  OBVIOUS
<1>2. c \in [cells : X, head : Nat, size : Nat]
  BY DEF CacheType
<1> HIDE DEF X
<1>3. /\ e \in [cells : X, head : Nat, size : Nat]
      /\ e.cells = y /\ e.head = h /\ e.size = c.size
  BY <1>1, <1>2 DEF Changed
<1> QED
  BY <1>1, <1>3 DEF X, CacheType, Cells

LEMMA EmptyCaches ==
    /\ \A size \in Nat : /\ NewCache(size) \in CacheType /\ NewCache(size).size = size
                         /\ NewCache(size).head = 0 /\ Cells(NewCache(size)) = {}
    /\ \A c \in CacheType : /\ Clear(c) \in CacheType /\ Clear(c).size = c.size
                            /\ Clear(c).head = 0 /\ Cells(Clear(c)) = {}
<1>1. <<>> \in [{} -> CellType] /\ {} \in SUBSET Nat /\ DOMAIN <<>> = {}
  OBVIOUS
<1>2. <<>> \in UNION {[D -> CellType] : D \in SUBSET Nat}
  BY <1>1
<1>3. ASSUME NEW size \in Nat
      PROVE  /\ NewCache(size) \in CacheType /\ NewCache(size).size = size
             /\ NewCache(size).head = 0 /\ Cells(NewCache(size)) = {}
  BY <1>1, <1>2 DEF NewCache, CacheType, Cells
<1>4. ASSUME NEW c \in CacheType
      PROVE  /\ Clear(c) \in CacheType /\ Clear(c).size = c.size
             /\ Clear(c).head = 0 /\ Cells(Clear(c)) = {}
  <2> DEFINE y == <<>>
             D == {}
             e == Clear(c)
  <2>1. e = Changed(c, y, 0) /\ 0 \in Nat
    BY DEF Clear, Changed
  <2>2. y \in [D -> CellType] /\ D \in SUBSET Nat
    BY <1>1
  <2> HIDE DEF y, D, e
  <2>3. e \in CacheType /\ e.head = 0 /\ e.size = c.size /\ Cells(e) = D
    BY <2>1, <2>2, CacheChanged
  <2> QED
    BY <2>3 DEF D, e
<1> QED
  BY <1>3, <1>4

(* A batch is put where all its cells are free, and not beyond the first   *)
(* place from which on, as far as it needs, nothing is in use.             *)
LEMMA SlotFound ==
    ASSUME NEW c \in CacheType, NEW n \in Nat, HasSlot(c, n)
    PROVE  /\ FindSlot(c, n) \in 0 .. c.size - n
           /\ (FindSlot(c, n) .. FindSlot(c, n) + n - 1) \cap Cells(c) = {}
           /\ \A b \in FromHead(c, n) : FindSlot(c, n) <= b
<1> DEFINE S == IF FromHead(c, n) # {} THEN FromHead(c, n) ELSE Slots(c, n)
<1>1. S \in SUBSET Nat /\ S # {} /\ S \subseteq Slots(c, n)
  BY CacheParts DEF FromHead, Slots, HasSlot
<1>2. \E x \in S : \A y \in S : x <= y
  <2> HIDE DEF S
  <2> QED
    BY <1>1, LeastNumber
<1>3. FindSlot(c, n) \in S /\ \A y \in S : FindSlot(c, n) <= y
  BY <1>2 DEF FindSlot, Min
<1> QED
  BY <1>1, <1>3 DEF Slots

LEMMA SlotAtFront ==
    ASSUME NEW c \in CacheType, NEW n \in Nat, NEW b \in Nat, c.head <= b, b + n <= c.size,
           \A d \in Cells(c) : d < b
    PROVE  HasSlot(c, n) /\ FindSlot(c, n) <= b
<1>1. c.size \in Nat /\ c.head \in Nat /\ Cells(c) \subseteq Nat
  BY CacheParts
<1>2. b \in 0 .. c.size - n /\ (b .. b + n - 1) \cap Cells(c) = {}
  BY <1>1
<1>3. b \in Slots(c, n) /\ b \in FromHead(c, n)
  BY <1>2 DEF FromHead, Slots
<1> QED
  BY <1>3, SlotFound DEF HasSlot

(* What Put makes of a cache.                                              *)
LEMMA PutCells ==
    ASSUME NEW c \in CacheType, NEW batch \in Seq(CellType), HasSlot(c, Len(batch))
    PROVE  LET h == FindSlot(c, Len(batch))
               e == Put(c, batch)
           IN  /\ e \in CacheType /\ e.size = c.size /\ e.head = h
               /\ Cells(e) = Cells(c) \cup h .. h + Len(batch) - 1
               /\ \A d \in Cells(c) : d \notin h .. h + Len(batch) - 1 /\ e.cells[d] = c.cells[d]
               /\ \A b \in 1 .. Len(batch) :
                     h + b - 1 \in Cells(e) /\ e.cells[h + b - 1] = batch[b]
               /\ \A d \in Cells(e) : d \in Cells(c) \/ d - h + 1 \in 1 .. Len(batch)
<1> DEFINE n == Len(batch)
           h == FindSlot(c, n)
           new == h .. h + n - 1
           y == [d \in Cells(c) \cup new |-> IF d \in new THEN batch[d - h + 1] ELSE c.cells[d]]
           e == Put(c, batch)
<1>1. n \in Nat /\ \A b \in 1 .. n : batch[b] \in CellType
  OBVIOUS
<1>2. c.size \in Nat /\ Cells(c) \subseteq Nat /\ \A d \in Cells(c) : c.cells[d] \in CellType
  BY CacheParts
<1>3. h \in 0 .. c.size - n /\ new \cap Cells(c) = {}
  BY <1>1, SlotFound
<1>4. e = Changed(c, y, h)
  BY DEF Put, Changed
<1> HIDE DEF h, n, e
<1>5. new \subseteq Nat /\ h \in Nat /\ \A d \in new : d - h + 1 \in 1 .. n
  BY <1>1, <1>2, <1>3
<1>6. Cells(c) \cup new \in SUBSET Nat /\ y \in [Cells(c) \cup new -> CellType]
  BY <1>1, <1>2, <1>5
<1>7. /\ e \in CacheType /\ e.size = c.size /\ e.head = h /\ e.cells = y
      /\ Cells(e) = Cells(c) \cup new
  <2> DEFINE D == Cells(c) \cup new
  <2>1. D \in SUBSET Nat /\ y \in [D -> CellType] /\ h \in Nat
    BY <1>5, <1>6
  <2> HIDE DEF y, D
  <2>2. /\ e \in CacheType /\ e.cells = y /\ e.head = h /\ e.size = c.size
        /\ Cells(e) = D
    BY ONLY c \in CacheType, <1>4, <2>1, CacheChanged, SMTT(60)
  <2> QED
    BY <2>2 DEF D
<1>8. \A d \in Cells(c) : d \notin new /\ e.cells[d] = c.cells[d]
  BY <1>3, <1>7
<1>9. ASSUME NEW b \in 1 .. n PROVE h + b - 1 \in Cells(e) /\ e.cells[h + b - 1] = batch[b]
  <2>1. h + b - 1 \in new /\ (h + b - 1) - h + 1 = b
    BY <1>1, <1>5
  <2> QED
    BY <1>7, <2>1
<1>10. \A d \in Cells(e) : d \in Cells(c) \/ d - h + 1 \in 1 .. n
  BY <1>5, <1>7
<1> QED
  BY <1>7, <1>8, <1>9, <1>10 DEF h, n, e

(* What a list of copies and removals makes of it.                         *)
LEMMA ReassignedCells ==
    ASSUME NEW c \in CacheType, NEW ids, \A d \in Cells(c) : ids[d] \in SUBSET Nat
    PROVE  LET e == Reassigned(c, ids)
           IN  /\ e \in CacheType /\ e.size = c.size /\ e.head = 0
               /\ Cells(e) = {d \in Cells(c) : ids[d] # {}}
               /\ \A d \in Cells(e) : /\ e.cells[d].seq_id = ids[d]
                                      /\ e.cells[d].pos = c.cells[d].pos
                                      /\ e.cells[d].tokens = c.cells[d].tokens
<1> DEFINE left == {d \in Cells(c) : ids[d] # {}}
           y == [d \in left |-> [c.cells[d] EXCEPT !.seq_id = ids[d]]]
           e == Reassigned(c, ids)
<1>1. Cells(c) \subseteq Nat /\ \A d \in Cells(c) : c.cells[d] \in CellType
  BY CacheParts
<1>2. ASSUME NEW d \in left
      PROVE  LET x == [c.cells[d] EXCEPT !.seq_id = ids[d]]
             IN  /\ x \in CellType /\ x.seq_id = ids[d]
                 /\ x.pos = c.cells[d].pos /\ x.tokens = c.cells[d].tokens
  BY <1>1 DEF CellType
<1>3. left \in SUBSET Nat /\ y \in [left -> CellType]
  BY <1>1, <1>2
<1>4. e = Changed(c, y, 0)
  BY DEF Reassigned, Changed
<1>5. \A d \in left : y[d] = [c.cells[d] EXCEPT !.seq_id = ids[d]]
  OBVIOUS
<1> HIDE DEF e, y
<1>6. e \in CacheType /\ e.cells = y /\ e.head = 0 /\ e.size = c.size /\ Cells(e) = left
  <2>1. 0 \in Nat
    OBVIOUS
  <2> HIDE DEF left
  <2> QED
    BY <1>3, <1>4, <2>1, CacheChanged
<1> QED
  BY <1>2, <1>5, <1>6 DEF e

-----------------------------------------------------------------------------
(* InOrder lists every decoder of a set once.                              *)
LEMMA Listed ==
    ASSUME NEW S \in SUBSET Nat, IsFiniteSet(S)
    PROVE  /\ DOMAIN InOrder(S) = 1 .. Cardinality(S) /\ Len(InOrder(S)) = Cardinality(S)
           /\ Cardinality(S) \in Nat
           /\ InOrder(S) \in Seq(S)
           /\ \A d \in S : \E b \in 1 .. Cardinality(S) :
                  InOrder(S)[b] = d /\ \A a \in 1 .. Cardinality(S) : InOrder(S)[a] = d => a = b
<1> DEFINE n == Cardinality(S)
           Below(d) == {e \in S : e < d}
           rank == [d \in S |-> Cardinality(Below(d)) + 1]
<1>1. n \in Nat /\ IsFiniteSet(1 .. n) /\ Cardinality(1 .. n) = n
  BY FS_CardinalityType, FS_Interval
<1>2. ASSUME NEW d \in S
      PROVE  /\ IsFiniteSet(Below(d)) /\ Cardinality(Below(d)) \in Nat
             /\ Cardinality(Below(d)) < n
  <2>1. IsFiniteSet(S \ {d}) /\ Cardinality(S \ {d}) = n - 1
    BY FS_RemoveElement
  <2>2. Below(d) \in SUBSET (S \ {d})
    OBVIOUS
  <2>3. IsFiniteSet(Below(d)) /\ Cardinality(Below(d)) <= n - 1
    BY <2>1, <2>2, FS_Subset
  <2>4. Cardinality(Below(d)) \in Nat
    BY <2>3, FS_CardinalityType
  <2> QED
    BY <1>1, <2>3, <2>4
<1>3. ASSUME NEW d \in S, NEW e \in S, d < e
      PROVE  Cardinality(Below(d)) < Cardinality(Below(e))
  <2>1. Below(d) \cup {d} \in SUBSET Below(e) /\ d \notin Below(d)
    <3>1. \A a \in S : a < d => a < e
      BY <1>3
    <3>2. \A a \in S : ~(a < a)
      OBVIOUS
    <3> QED
      BY <1>3, <3>1, <3>2
  <2>2. Cardinality(Below(d) \cup {d}) = Cardinality(Below(d)) + 1
    BY <1>2, <2>1, FS_AddElement
  <2>3. Cardinality(Below(d) \cup {d}) <= Cardinality(Below(e))
    BY <1>2, <2>1, FS_Subset
  <2> QED
    BY <1>2, <2>2, <2>3
<1>4. \A d, e \in S : Cardinality(Below(d)) = Cardinality(Below(e)) => d = e
  <2>1. \A d, e \in S : d < e \/ e < d \/ d = e
    OBVIOUS
  <2> HIDE DEF Below
  <2> QED
    BY <1>2, <1>3, <2>1
<1>5. rank \in Injection(S, 1 .. n)
  <2>1. rank \in [S -> 1 .. n]
    <3> HIDE DEF Below
    <3> QED
      BY <1>1, <1>2
  <2>2. \A d, e \in S : rank[d] = rank[e] => d = e
    <3> HIDE DEF Below
    <3> QED
      BY <1>2, <1>4
  <2> HIDE DEF rank
  <2> QED
    BY <2>1, <2>2 DEF Injection, IsInjective
<1>6. rank \in Surjection(S, 1 .. n)
  <2> HIDE DEF rank, n
  <2> QED
    BY <1>1, <1>5, FS_Injection DEF n
<1>7. \A b \in 1 .. n : \E d \in S : Cardinality(Below(d)) = b - 1
  <2>1. \A b \in 1 .. n : \E d \in S : rank[d] = b
    <3> HIDE DEF rank, n
    <3> QED
      BY <1>6 DEF Surjection
  <2> HIDE DEF Below
  <2> QED
    BY <1>1, <1>2, <2>1
<1> DEFINE s == InOrder(S)
<1>8. s = [b \in 1 .. n |-> CHOOSE d \in S : Cardinality(Below(d)) = b - 1]
  BY DEF InOrder
<1> HIDE DEF Below, s
<1>9. \A b \in 1 .. n : s[b] \in S /\ Cardinality(Below(s[b])) = b - 1
  BY <1>7, <1>8
<1>10. DOMAIN s = 1 .. n /\ s \in Seq(S) /\ Len(s) = n
  <2>1. s \in [1 .. n -> S]
    BY <1>8, <1>9
  <2> HIDE DEF n
  <2> QED
    BY <1>1, <2>1
<1>11. ASSUME NEW d \in S
       PROVE  \E b \in 1 .. n : s[b] = d /\ \A a \in 1 .. n : s[a] = d => a = b
  <2> DEFINE b == Cardinality(Below(d)) + 1
  <2>1. b \in 1 .. n /\ b - 1 = Cardinality(Below(d))
    BY <1>1, <1>2
  <2>2. s[b] = d
    BY <1>4, <1>9, <2>1
  <2>3. \A a \in 1 .. n : s[a] = d => a = b
    BY <1>1, <1>9, <2>1
  <2> QED
    BY <2>1, <2>2, <2>3
<1> QED
  BY <1>1, <1>10, <1>11 DEF s

-----------------------------------------------------------------------------
(* A decoder that gets a token.                                            *)
TimedAs(d, v, n) == [d EXCEPT !.seek_delta = v, !.result_len = n, !.has_ts = TRUE]
DoneAt(d, n) == [d EXCEPT !.completed = TRUE, !.result_len = n]

LEMMA DecoderTimed ==
    ASSUME NEW d \in DecoderType, NEW v \in 1 .. Chunk, NEW n \in Nat
    PROVE  LET e == TimedAs(d, v, n)
           IN  /\ e \in DecoderType /\ e.tokens = d.tokens
               /\ e.result_len = n /\ e.seek_delta = v /\ e.has_ts
BY DEF DecoderType, TimedAs

LEMMA DecoderDone ==
    ASSUME NEW d \in DecoderType, NEW n \in Nat
    PROVE  LET e == DoneAt(d, n)
           IN  /\ e \in DecoderType /\ e.tokens = d.tokens
               /\ e.result_len = n /\ e.seek_delta = d.seek_delta /\ e.has_ts = d.has_ts
BY DEF DecoderType, DoneAt

LEMMA TimedDecoder ==
    ASSUME NEW d \in DecoderType, Len(d.tokens) > 0, d.result_len <= Len(d.tokens)
    PROVE  /\ Timed(d) \in DecoderType /\ Timed(d).tokens = d.tokens
           /\ Timed(d).result_len <= Len(d.tokens)
           /\ IF IsTime(Last(d.tokens))
                THEN Timed(d).has_ts /\ Timed(d).seek_delta = 2 * Last(d.tokens).ts
                ELSE Timed(d) = d
<1>1. d.tokens \in Seq(Tokens) /\ Len(d.tokens) \in Nat /\ Last(d.tokens) \in Tokens
  BY DEF DecoderType, Last
<1>2. IsTime(Last(d.tokens)) => 2 * Last(d.tokens).ts \in 1 .. Chunk
  BY <1>1, TokenType
<1> DEFINE x == Last(d.tokens)
           n == Len(d.tokens)
<1>3. CASE IsTime(x)
  <2> DEFINE v == 2 * x.ts
  <2>1. Timed(d) = TimedAs(d, v, n)
    BY <1>3 DEF Timed, TimedAs
  <2>2. v \in 1 .. Chunk /\ n \in Nat
    BY <1>1, <1>2, <1>3
  <2> HIDE DEF x, n, v
  <2>3. /\ Timed(d) \in DecoderType /\ Timed(d).tokens = d.tokens
        /\ Timed(d).result_len = n /\ Timed(d).seek_delta = v /\ Timed(d).has_ts
    BY <2>1, <2>2, DecoderTimed, SMTT(60)
  <2> QED
    BY <1>3, <2>2, <2>3 DEF n, x, v
<1>4. CASE ~IsTime(x)
  BY <1>4 DEF Timed
<1> QED
  BY <1>3, <1>4

LEMMA UpdatedDecoder ==
    ASSUME NEW d \in DecoderType, Len(d.tokens) > 0, d.result_len <= Len(d.tokens)
    PROVE  /\ Updated(d) \in DecoderType /\ Updated(d).tokens = d.tokens
           /\ Updated(d).result_len <= Len(d.tokens)
           /\ ~GoesBack(d) => /\ Updated(d).has_ts = Timed(d).has_ts
                              /\ Updated(d).seek_delta = Timed(d).seek_delta
<1> DEFINE t == Timed(d)
           n == Len(d.tokens)
           ends == Last(d.tokens) = Eot \/ (t.has_ts /\ AtEnd(t))
           stuck == n = NMax /\ (t.result_len = 0 \/ 2 * t.seek_delta < Chunk)
           b == ~GoesBack(d) /\ ends
           f == ~GoesBack(d) /\ ~ends /\ stuck
<1>1. t \in DecoderType /\ t.tokens = d.tokens /\ t.result_len <= n /\ n \in Nat
  BY TimedDecoder DEF DecoderType
<1>2. \/ GoesBack(d) /\ Updated(d) = [d EXCEPT !.failed = TRUE]
      \/ Updated(d) = [t EXCEPT !.failed = TRUE]
      \/ Updated(d) = [t EXCEPT !.completed = TRUE, !.result_len = n]
      \/ Updated(d) = [t EXCEPT !.completed = TRUE]
      \/ Updated(d) = [t EXCEPT !.failed = f]
  <2> HIDE DEF t
  <2>1. Updated(d) =
          CASE GoesBack(d) -> [d EXCEPT !.failed = TRUE]
            [] b /\ t.result_len = 0 /\ ~AtEnd(t) -> [t EXCEPT !.failed = TRUE]
            [] b /\ t.result_len = 0 /\ AtEnd(t) ->
                   [t EXCEPT !.completed = TRUE, !.result_len = n]
            [] b /\ t.result_len > 0 -> [t EXCEPT !.completed = TRUE]
            [] OTHER -> [t EXCEPT !.failed = f]
    BY DEF Updated, t
  <2> HIDE DEF b, f, n
  <2> QED
    BY <2>1
<1>3. f \in BOOLEAN
  OBVIOUS
<1> HIDE DEF t, f, n
<1>4. CASE Updated(d) = [d EXCEPT !.failed = TRUE] /\ GoesBack(d)
  BY <1>4 DEF DecoderType
<1>5. CASE Updated(d) = [t EXCEPT !.failed = TRUE]
  BY <1>1, <1>5 DEF DecoderType, n, t
<1>6. CASE Updated(d) = [t EXCEPT !.completed = TRUE, !.result_len = n]
  <2>1. /\ Updated(d) \in DecoderType /\ Updated(d).tokens = t.tokens
        /\ Updated(d).result_len = n /\ Updated(d).seek_delta = t.seek_delta
        /\ Updated(d).has_ts = t.has_ts
    <3>1. Updated(d) = DoneAt(t, n)
      BY <1>6 DEF DoneAt
    <3>2. t \in DecoderType /\ n \in Nat
      BY <1>1
    <3>3. /\ DoneAt(t, n) \in DecoderType /\ DoneAt(t, n).tokens = t.tokens
          /\ DoneAt(t, n).result_len = n /\ DoneAt(t, n).seek_delta = t.seek_delta
          /\ DoneAt(t, n).has_ts = t.has_ts
      BY <3>2, DecoderDone
    <3> QED
      BY <3>1, <3>3
  <2> QED
    BY <1>1, <2>1 DEF n, t
<1>7. CASE Updated(d) = [t EXCEPT !.completed = TRUE]
  BY <1>1, <1>7 DEF DecoderType, n, t
<1>8. CASE Updated(d) = [t EXCEPT !.failed = f]
  BY <1>1, <1>3, <1>8 DEF DecoderType, n, t
<1> QED
  BY <1>2, <1>4, <1>5, <1>6, <1>7, <1>8

(* A sampled token keeps the timestamps in order, so that GoesBack, which  *)
(* looks for one that does not, never finds any.                           *)
Extended(d, token) == [d EXCEPT !.tokens = Append(@, token)]

LEMMA SampledDecoder ==
    ASSUME NEW d \in DecoderType, d.result_len <= Len(d.tokens),
           InTime(d.tokens, d.has_ts, d.seek_delta), NEW token \in Allowed(d),
           NEW e, e = Extended(d, token)
    PROVE  /\ Updated(e) \in DecoderType /\ Updated(e).tokens = Append(d.tokens, token)
           /\ Updated(e).result_len <= Len(Updated(e).tokens)
           /\ Len(Updated(e).tokens) = Len(d.tokens) + 1
           /\ \A m \in 0 .. Len(d.tokens) :
                 SubSeq(Updated(e).tokens, 1, m) = SubSeq(d.tokens, 1, m)
           /\ InTime(Updated(e).tokens, Updated(e).has_ts, Updated(e).seek_delta)
<1> DEFINE n == Len(d.tokens)
           s == Append(d.tokens, token)
           u == Updated(e)
<1>1. token \in Tokens /\ d.tokens \in Seq(Tokens) /\ n \in Nat
  BY DEF Allowed, DecoderType
<1>2. /\ s \in Seq(Tokens) /\ Len(s) = n + 1 /\ Last(s) = token
      /\ \A a \in 1 .. n : s[a] = d.tokens[a]
      /\ s[n + 1] = token
      /\ DOMAIN s = 1 .. n + 1 /\ DOMAIN d.tokens = 1 .. n
  BY <1>1 DEF Last
<1> HIDE DEF s
<1>3. /\ e \in DecoderType /\ e.tokens = s /\ e.result_len = d.result_len
      /\ e.has_ts = d.has_ts /\ e.seek_delta = d.seek_delta
  BY <1>2 DEF DecoderType, s, Extended
<1>4. Len(e.tokens) > 0 /\ e.result_len <= Len(e.tokens)
  BY <1>1, <1>2, <1>3 DEF DecoderType
<1>5. u \in DecoderType /\ u.tokens = s /\ u.result_len <= Len(s)
  BY <1>3, <1>4, UpdatedDecoder
<1>6. ASSUME IsTime(token), d.has_ts PROVE d.seek_delta <= 2 * token.ts
  <2>1. token # Text /\ token # Eot
    BY <1>1, <1>6, TokenType DEF IsTime
  <2> QED
    BY <1>6, <2>1 DEF Allowed
<1>7. ~GoesBack(e)
  <2>1. d.seek_delta \in Int /\ token.ts \in Int
    BY <1>1, TokenType DEF DecoderType
  <2>2. Last(e.tokens) = token /\ e.has_ts = d.has_ts /\ e.seek_delta = d.seek_delta
    BY <1>2, <1>3
  <2>3. ~(IsTime(token) /\ d.has_ts /\ d.seek_delta > 2 * token.ts)
    BY <1>6, <2>1
  <2> HIDE DEF n
  <2> QED
    BY <2>2, <2>3 DEF GoesBack
<1>8. u.has_ts = Timed(e).has_ts /\ u.seek_delta = Timed(e).seek_delta
  BY <1>3, <1>4, <1>7, UpdatedDecoder
<1>9. IF IsTime(token) THEN u.has_ts /\ u.seek_delta = 2 * token.ts
                       ELSE u.has_ts = d.has_ts /\ u.seek_delta = d.seek_delta
  BY <1>2, <1>3, <1>4, <1>8, TimedDecoder
<1> HIDE DEF u, n
<1>10. ASSUME NEW a \in 1 .. n, IsTime(s[a])
       PROVE  /\ d.has_ts /\ 2 * s[a].ts <= d.seek_delta
              /\ IsTime(token) => s[a].ts <= token.ts
              /\ u.has_ts /\ 2 * s[a].ts <= u.seek_delta
  <2>1. s[a] = d.tokens[a] /\ s[a] \in Tokens /\ s[a].ts \in Nat /\ token.ts \in Nat
    BY <1>1, <1>2, TokenType
  <2>2. d.has_ts /\ 2 * s[a].ts <= d.seek_delta /\ d.seek_delta \in Nat
    BY <1>2, <1>10, <2>1, SMTT(60) DEF InTime, DecoderType
  <2>3. CASE IsTime(token)
    <3>1. d.seek_delta <= 2 * token.ts /\ u.has_ts /\ u.seek_delta = 2 * token.ts
      BY <1>6, <1>9, <2>2, <2>3
    <3>2. 2 * s[a].ts <= 2 * token.ts /\ s[a].ts <= token.ts
      BY ONLY <2>1, <2>2, <3>1
    <3> QED
      BY <2>2, <3>1, <3>2
  <2>4. CASE ~IsTime(token)
    BY <1>9, <2>1, <2>2, <2>4
  <2> QED
    BY <2>2, <2>3, <2>4
<1>11. InTime(s, u.has_ts, u.seek_delta)
  <2>1. ASSUME NEW a \in DOMAIN s, IsTime(s[a]) PROVE u.has_ts /\ 2 * s[a].ts <= u.seek_delta
    <3>1. CASE a \in 1 .. n
      BY <1>10, <2>1, <3>1
    <3>2. CASE a = n + 1
      BY <1>1, <1>2, <1>9, <2>1, <3>2, TokenType
    <3> QED
      BY <1>1, <1>2, <3>1, <3>2
  <2>2. ASSUME NEW a \in DOMAIN s, NEW b \in DOMAIN s, a < b, IsTime(s[a]), IsTime(s[b])
        PROVE  s[a].ts <= s[b].ts
    <3>1. a \in 1 .. n
      BY <1>1, <1>2, <2>2
    <3>2. CASE b \in 1 .. n
      BY <1>2, <2>2, <3>1, <3>2 DEF InTime
    <3>3. CASE b = n + 1
      BY <1>2, <1>10, <2>2, <3>1, <3>3
    <3> QED
      BY <1>1, <1>2, <3>2, <3>3
  <2> QED
    BY <2>1, <2>2 DEF InTime
<1>12. ASSUME NEW m \in 0 .. n PROVE SubSeq(s, 1, m) = SubSeq(d.tokens, 1, m)
  <2>1. \A a \in 1 .. m : s[a] = d.tokens[a]
    BY <1>1, <1>2
  <2> QED
    BY <1>1, <1>2, <2>1
<1> QED
  BY <1>1, <1>2, <1>5, <1>11, <1>12 DEF s, u, n

-----------------------------------------------------------------------------
(* Cutting tokens up into segments, and the words of segments, as they are *)
(* computed one by one.                                                    *)

Nothing == [words |-> 0, segments |-> <<>>]

Cuts(f, tokens) ==
    f = [n \in 0 .. Len(tokens) |-> IF n = 0 THEN Nothing ELSE Cut(f[n - 1], tokens[n])]

LEMMA CutterExists ==
    ASSUME NEW tokens, Len(tokens) \in Nat
    PROVE  \E f : Cuts(f, tokens)
<1> DEFINE Partial(f, m) ==
        f = [n \in 0 .. m |-> IF n = 0 THEN Nothing ELSE Cut(f[n - 1], tokens[n])]
           Good == {m \in Nat : \E f : Partial(f, m)}
<1>1. 0 \in Good
  <2>1. Partial([n \in 0 .. 0 |-> Nothing], 0)
    OBVIOUS
  <2> QED
    BY <2>1
<1>2. ASSUME NEW m \in Good PROVE m + 1 \in Good
  <2>1. PICK f : Partial(f, m)
    OBVIOUS
  <2> DEFINE g == [n \in 0 .. m + 1 |-> IF n = m + 1 THEN Cut(f[m], tokens[m + 1]) ELSE f[n]]
  <2>2. Partial(g, m + 1)
    <3>1. \A n \in 0 .. m + 1 : g[n] = IF n = m + 1 THEN Cut(f[m], tokens[m + 1]) ELSE f[n]
      OBVIOUS
    <3>2. \A n \in 0 .. m : f[n] = IF n = 0 THEN Nothing ELSE Cut(f[n - 1], tokens[n])
      BY <2>1
    <3>3. \A n \in 0 .. m + 1 : n # 0 => g[n - 1] = f[n - 1]
      BY <3>1
    <3>4. \A n \in 0 .. m + 1 : g[n] = IF n = 0 THEN Nothing ELSE Cut(g[n - 1], tokens[n])
      BY <3>1, <3>2, <3>3
    <3> QED
      BY <3>4
  <2> HIDE DEF g, Partial
  <2> QED
    BY <2>2
<1>3. Good = Nat
  <2>1. Good \subseteq Nat
    OBVIOUS
  <2> HIDE DEF Good
  <2> QED
    BY <1>1, <1>2, <2>1, Induction
<1>4. PICK f : Partial(f, Len(tokens))
  <2> HIDE DEF Partial
  <2> QED
    BY <1>3
<1> QED
  BY <1>4 DEF Cuts

LEMMA Cutter ==
    ASSUME NEW tokens, Len(tokens) \in Nat
    PROVE  \E f : /\ CutUp(tokens) = f[Len(tokens)] /\ f[0] = Nothing
                  /\ \A n \in Nat : n < Len(tokens) => f[n + 1] = Cut(f[n], tokens[n + 1])
<1> DEFINE f == CHOOSE f : Cuts(f, tokens)
<1>1. Cuts(f, tokens)
  BY CutterExists
<1>2. CutUp(tokens) = f[Len(tokens)]
  BY DEF CutUp, Cuts, Nothing
<1> HIDE DEF f
<1>3. \A m \in 0 .. Len(tokens) : f[m] = IF m = 0 THEN Nothing ELSE Cut(f[m - 1], tokens[m])
  BY <1>1 DEF Cuts
<1>4. ASSUME NEW n \in Nat, n < Len(tokens) PROVE f[n + 1] = Cut(f[n], tokens[n + 1])
  <2>1. n + 1 \in 0 .. Len(tokens) /\ n + 1 # 0 /\ (n + 1) - 1 = n
    BY <1>4
  <2> QED
    BY <1>3, <2>1
<1> QED
  BY <1>2, <1>3, <1>4

Adds(f, segments) ==
    f = [n \in 0 .. Len(segments) |-> IF n = 0 THEN 0 ELSE f[n - 1] + segments[n].words]

LEMMA AdderExists ==
    ASSUME NEW segments, Len(segments) \in Nat
    PROVE  \E f : Adds(f, segments)
<1> DEFINE Partial(f, m) ==
        f = [n \in 0 .. m |-> IF n = 0 THEN 0 ELSE f[n - 1] + segments[n].words]
           Good == {m \in Nat : \E f : Partial(f, m)}
<1>1. 0 \in Good
  <2>1. Partial([n \in 0 .. 0 |-> 0], 0)
    OBVIOUS
  <2> QED
    BY <2>1
<1>2. ASSUME NEW m \in Good PROVE m + 1 \in Good
  <2>1. PICK f : Partial(f, m)
    OBVIOUS
  <2> DEFINE g == [n \in 0 .. m + 1 |-> IF n = m + 1 THEN f[m] + segments[m + 1].words ELSE f[n]]
  <2>2. Partial(g, m + 1)
    <3>1. \A n \in 0 .. m + 1 : g[n] = IF n = m + 1 THEN f[m] + segments[m + 1].words ELSE f[n]
      OBVIOUS
    <3>2. \A n \in 0 .. m : f[n] = IF n = 0 THEN 0 ELSE f[n - 1] + segments[n].words
      BY <2>1
    <3>3. \A n \in 0 .. m + 1 : n # 0 => g[n - 1] = f[n - 1]
      BY <3>1
    <3>4. \A n \in 0 .. m + 1 : g[n] = IF n = 0 THEN 0 ELSE g[n - 1] + segments[n].words
      BY <3>1, <3>2, <3>3
    <3> QED
      BY <3>4
  <2> HIDE DEF g, Partial
  <2> QED
    BY <2>2
<1>3. Good = Nat
  <2>1. Good \subseteq Nat
    OBVIOUS
  <2> HIDE DEF Good
  <2> QED
    BY <1>1, <1>2, <2>1, Induction
<1>4. PICK f : Partial(f, Len(segments))
  <2> HIDE DEF Partial
  <2> QED
    BY <1>3
<1> QED
  BY <1>4 DEF Adds

LEMMA Adder ==
    ASSUME NEW segments, Len(segments) \in Nat
    PROVE  \E f : /\ Words(segments) = f[Len(segments)] /\ f[0] = 0
                  /\ \A n \in Nat : n < Len(segments) => f[n + 1] = f[n] + segments[n + 1].words
<1> DEFINE f == CHOOSE f : Adds(f, segments)
<1>1. Adds(f, segments)
  BY AdderExists
<1>2. Words(segments) = f[Len(segments)]
  BY DEF Words, Adds
<1> HIDE DEF f
<1>3. \A m \in 0 .. Len(segments) : f[m] = IF m = 0 THEN 0 ELSE f[m - 1] + segments[m].words
  BY <1>1 DEF Adds
<1>4. ASSUME NEW n \in Nat, n < Len(segments) PROVE f[n + 1] = f[n] + segments[n + 1].words
  <2>1. n + 1 \in 0 .. Len(segments) /\ n + 1 # 0 /\ (n + 1) - 1 = n
    BY <1>4
  <2> QED
    BY <1>3, <2>1
<1> QED
  BY <1>2, <1>3, <1>4

SegmentType == [end : Nat, words : Nat \ {0}]

LEMMA WordsType ==
    ASSUME NEW s \in Seq(SegmentType)
    PROVE  Words(s) \in Nat
<1>1. PICK f : /\ Words(s) = f[Len(s)] /\ f[0] = 0
               /\ \A n \in Nat : n < Len(s) => f[n + 1] = f[n] + s[n + 1].words
  BY Adder
<1> DEFINE Fine == {n \in Nat : n <= Len(s) => f[n] \in Nat}
<1>2. 0 \in Fine
  BY <1>1
<1>3. ASSUME NEW n \in Fine PROVE n + 1 \in Fine
  <2>1. CASE n + 1 <= Len(s)
    <3>1. s[n + 1] \in SegmentType
      BY <2>1
    <3>2. s[n + 1].words \in Nat
      BY <3>1 DEF SegmentType
    <3> QED
      BY <1>1, <2>1, <3>2, SMTT(60)
  <2> QED
    BY <2>1
<1>4. Fine = Nat
  <2>1. Fine \subseteq Nat
    OBVIOUS
  <2> HIDE DEF Fine
  <2> QED
    BY <1>2, <1>3, <2>1, Induction
<1> QED
  BY <1>1, <1>4

LEMMA WordsConcat ==
    ASSUME NEW s \in Seq(SegmentType), NEW t \in Seq(SegmentType)
    PROVE  Words(s \o t) = Words(s) + Words(t)
<1> DEFINE u == s \o t
<1>1. /\ u \in Seq(SegmentType) /\ Len(u) = Len(s) + Len(t)
      /\ \A k \in 1 .. Len(s) : u[k] = s[k]
      /\ \A k \in 1 .. Len(t) : u[Len(s) + k] = t[k]
      /\ Len(s) \in Nat /\ Len(t) \in Nat
  OBVIOUS
<1> HIDE DEF u
<1>2. PICK f : /\ Words(s) = f[Len(s)] /\ f[0] = 0
               /\ \A n \in Nat : n < Len(s) => f[n + 1] = f[n] + s[n + 1].words
  BY Adder
<1>3. PICK g : /\ Words(t) = g[Len(t)] /\ g[0] = 0
               /\ \A n \in Nat : n < Len(t) => g[n + 1] = g[n] + t[n + 1].words
  BY Adder
<1>4. PICK h : /\ Words(u) = h[Len(u)] /\ h[0] = 0
               /\ \A n \in Nat : n < Len(u) => h[n + 1] = h[n] + u[n + 1].words
  <2>1. Len(u) \in Nat
    BY <1>1
  <2> QED
    BY <2>1, Adder
<1> DEFINE Same == {n \in Nat : n <= Len(s) => h[n] = f[n]}
<1>5. 0 \in Same
  BY <1>2, <1>4
<1>6. ASSUME NEW n \in Same PROVE n + 1 \in Same
  <2>1. CASE n + 1 <= Len(s)
    <3>1. u[n + 1] = s[n + 1] /\ h[n] = f[n]
      BY <1>1, <2>1
    <3>2. h[n + 1] = h[n] + u[n + 1].words /\ f[n + 1] = f[n] + s[n + 1].words
      <4>1. n \in Nat /\ n < Len(s) /\ n < Len(u)
        BY <1>1, <2>1
      <4>2. \A m \in Nat : m < Len(u) => h[m + 1] = h[m] + u[m + 1].words
        BY <1>4
      <4>3. \A m \in Nat : m < Len(s) => f[m + 1] = f[m] + s[m + 1].words
        BY <1>2
      <4> HIDE DEF Same
      <4> QED
        BY <4>1, <4>2, <4>3
    <3> QED
      BY <3>1, <3>2
  <2> QED
    BY <2>1
<1>7. Same = Nat
  <2>1. Same \subseteq Nat
    OBVIOUS
  <2> HIDE DEF Same
  <2> QED
    BY <1>5, <1>6, <2>1, Induction
<1>8. h[Len(s)] = Words(s) /\ Words(s) \in Nat
  BY <1>1, <1>2, <1>7, WordsType, SMTT(60)
<1> DEFINE Sums == {n \in Nat : n <= Len(t) => g[n] \in Int /\ h[Len(s) + n] = Words(s) + g[n]}
<1>9. 0 \in Sums
  BY <1>1, <1>3, <1>8
<1>10. ASSUME NEW n \in Sums PROVE n + 1 \in Sums
  <2>1. CASE n + 1 <= Len(t)
    <3>1. /\ g[n] \in Int /\ h[Len(s) + n] = Words(s) + g[n] /\ t[n + 1].words \in Int
          /\ u[Len(s) + n + 1] = t[n + 1]
      <4>1. t[n + 1] \in SegmentType /\ n + 1 \in 1 .. Len(t)
        BY <1>1, <2>1
      <4>2. t[n + 1].words \in Int
        BY <4>1 DEF SegmentType
      <4>3. u[Len(s) + (n + 1)] = t[n + 1] /\ Len(s) + (n + 1) = Len(s) + n + 1
        BY <1>1, <4>1
      <4> QED
        BY <2>1, <4>2, <4>3
    <3>2. g[n + 1] = g[n] + t[n + 1].words
      BY <1>3, <2>1
    <3>3. h[Len(s) + n + 1] = h[Len(s) + n] + u[Len(s) + n + 1].words
      BY <1>1, <1>4, <2>1, SMTT(60)
    <3> QED
      BY <1>1, <1>8, <3>1, <3>2, <3>3, SMTT(60)
  <2> QED
    BY <2>1
<1>11. Sums = Nat
  <2>1. Sums \subseteq Nat
    OBVIOUS
  <2> HIDE DEF Sums
  <2> QED
    BY <1>9, <1>10, <2>1, Induction
<1>12. g[Len(t)] \in Int /\ h[Len(s) + Len(t)] = Words(s) + g[Len(t)]
  <2>1. Len(t) \in Sums /\ Len(t) <= Len(t)
    <3> HIDE DEF Sums
    <3> QED
      BY <1>1, <1>11
  <2> QED
    BY <2>1
<1> QED
  BY <1>1, <1>3, <1>4, <1>12 DEF u

LEMMA WordsOne ==
    ASSUME NEW x \in SegmentType
    PROVE  Words(<<x>>) = x.words
<1>1. Len(<<x>>) = 1 /\ <<x>>[1] = x
  OBVIOUS
<1>2. PICK f : /\ Words(<<x>>) = f[Len(<<x>>)] /\ f[0] = 0
               /\ \A n \in Nat : n < Len(<<x>>) => f[n + 1] = f[n] + <<x>>[n + 1].words
  BY <1>1, Adder
<1>3. f[0 + 1] = f[0] + <<x>>[0 + 1].words
  BY <1>1, <1>2
<1>4. x.words \in Int
  BY DEF SegmentType
<1> QED
  BY <1>1, <1>2, <1>3, <1>4

LEMMA WordsAppend ==
    ASSUME NEW s \in Seq(SegmentType), NEW x \in SegmentType
    PROVE  Words(Append(s, x)) = Words(s) + x.words
<1>1. <<x>> \in Seq(SegmentType) /\ Append(s, x) = s \o <<x>>
  OBVIOUS
<1> QED
  BY <1>1, WordsConcat, WordsOne

(* What the first n tokens are cut up into: segments in order, each with   *)
(* the time of one of the timestamps, and all the text, of which the words *)
(* after the last one are still to be written.                             *)
CutAt(s, tokens, n) ==
    /\ s.words \in Nat /\ s.segments \in Seq(SegmentType)
    /\ Ordered(s.segments)
    /\ \A a \in DOMAIN s.segments : \E b \in 1 .. n :
           IsTime(tokens[b]) /\ s.segments[a].end = seek + 2 * tokens[b].ts
    /\ Words(s.segments) + s.words = Cardinality({k \in 1 .. n : tokens[k] = Text})

LEMMA OrderedAppend ==
    ASSUME NEW s \in Seq(SegmentType), Ordered(s), NEW x \in SegmentType,
           \A a \in DOMAIN s : s[a].end <= x.end
    PROVE  Ordered(Append(s, x))
<1> DEFINE t == Append(s, x)
           n == Len(s)
<1>1. /\ n \in Nat /\ DOMAIN s = 1 .. n /\ DOMAIN t = 1 .. n + 1
      /\ t[n + 1] = x /\ \A a \in 1 .. n : t[a] = s[a]
  OBVIOUS
<1> HIDE DEF t, n
<1>2. ASSUME NEW a \in 1 .. n + 1, NEW b \in 1 .. n + 1, a < b
      PROVE  t[a].end <= t[b].end
  <2>1. a \in 1 .. n
    BY <1>1, <1>2
  <2>2. CASE b \in 1 .. n
    BY <1>1, <1>2, <2>1, <2>2 DEF Ordered
  <2>3. CASE b = n + 1
    BY <1>1, <2>1, <2>3
  <2> QED
    BY <1>1, <2>2, <2>3
<1> QED
  BY <1>1, <1>2 DEF Ordered, t

LEMMA CutStep ==
    ASSUME seek \in Nat, NEW tokens \in Seq(Tokens), NEW n \in Nat, n < Len(tokens),
           \A a, b \in DOMAIN tokens :
               a < b /\ IsTime(tokens[a]) /\ IsTime(tokens[b]) => tokens[a].ts <= tokens[b].ts,
           NEW s, CutAt(s, tokens, n), NEW x, x = Cut(s, tokens[n + 1]), s = [words |-> s.words, segments |-> s.segments]
    PROVE  CutAt(x, tokens, n + 1) /\ x = [words |-> x.words, segments |-> x.segments]
<1> DEFINE token == tokens[n + 1]
           TextTo(m) == {k \in 1 .. m : tokens[k] = Text}
<1>1. token \in Tokens /\ n + 1 \in DOMAIN tokens /\ DOMAIN tokens = 1 .. Len(tokens)
  OBVIOUS
<1>2. token.ts \in Nat /\ (IsTime(token) => token # Text) /\ \A m \in 1 .. n : tokens[m].ts \in Nat
  <2>1. \A m \in 1 .. n : tokens[m] \in Tokens
    OBVIOUS
  <2> QED
    BY <1>1, <2>1, TokenType DEF IsTime
<1>3. /\ IsFiniteSet(TextTo(n)) /\ Cardinality(TextTo(n)) \in Nat
      /\ TextTo(n + 1) = IF token = Text THEN TextTo(n) \cup {n + 1} ELSE TextTo(n)
      /\ n + 1 \notin TextTo(n)
  <2>1. IsFiniteSet(1 .. n) /\ TextTo(n) \in SUBSET (1 .. n)
    <3>1. 1 \in Int /\ n \in Int /\ TextTo(n) \in SUBSET (1 .. n)
      OBVIOUS
    <3> HIDE DEF TextTo
    <3> QED
      BY <3>1, FS_Interval
  <2>2. \A k : k \in 1 .. n + 1 <=> k \in 1 .. n \/ k = n + 1
    OBVIOUS
  <2> QED
    BY <2>1, <2>2, FS_Subset, FS_CardinalityType
<1>4. Cardinality(TextTo(n + 1)) = Cardinality(TextTo(n)) + (IF token = Text THEN 1 ELSE 0)
  <2> DEFINE now == TextTo(n)
             next == TextTo(n + 1)
  <2>1. /\ IsFiniteSet(now) /\ Cardinality(now) \in Nat /\ n + 1 \notin now
        /\ next = IF token = Text THEN now \cup {n + 1} ELSE now
    BY <1>3
  <2> HIDE DEF now, next, token
  <2>2. Cardinality(now \cup {n + 1}) = Cardinality(now) + 1
    BY <2>1, FS_AddElement
  <2>3. Cardinality(next) = Cardinality(now) + (IF token = Text THEN 1 ELSE 0)
    BY <2>1, <2>2
  <2> QED
    BY <2>3 DEF now, next
<1>5. /\ s.words \in Nat /\ s.segments \in Seq(SegmentType) /\ Ordered(s.segments)
      /\ \A a \in DOMAIN s.segments : \E b \in 1 .. n :
            IsTime(tokens[b]) /\ s.segments[a].end = seek + 2 * tokens[b].ts
      /\ Words(s.segments) + s.words = Cardinality(TextTo(n))
      /\ Words(s.segments) \in Nat
  BY WordsType DEF CutAt
<1>6. ASSUME NEW b \in 1 .. n, IsTime(tokens[b]), IsTime(token)
      PROVE  seek + 2 * tokens[b].ts <= seek + 2 * token.ts
  <2>1. tokens[b].ts <= token.ts
    BY <1>1, <1>6
  <2> QED
    BY <1>2, <2>1, SMTT(60)
<1> HIDE DEF token, TextTo
<1>7. \A b \in 1 .. n : b \in 1 .. n + 1
  OBVIOUS
<1>8. CASE ~IsTime(token)
  <2> DEFINE w == IF token = Text THEN s.words + 1 ELSE s.words
  <2>1. x = [words |-> w, segments |-> s.segments]
    BY <1>8 DEF Cut, token
  <2>2. w \in Nat /\ Words(s.segments) + w = Cardinality(TextTo(n + 1))
    BY <1>3, <1>4, <1>5, SMTT(60)
  <2> HIDE DEF w
  <2>3. x.words = w /\ x.segments = s.segments
    BY <2>1
  <2> QED
    BY <1>5, <1>7, <2>1, <2>2, <2>3 DEF CutAt, TextTo
<1>9. CASE IsTime(token) /\ s.words = 0
  <2>1. x = [words |-> 0, segments |-> s.segments]
    BY <1>9 DEF Cut, token
  <2>2. Words(s.segments) + 0 = Cardinality(TextTo(n + 1))
    BY <1>2, <1>3, <1>4, <1>5, <1>9
  <2>3. x.words = 0 /\ x.segments = s.segments
    BY <2>1
  <2> QED
    BY <1>5, <1>7, <2>1, <2>2, <2>3 DEF CutAt, TextTo
<1>10. CASE IsTime(token) /\ s.words # 0
  <2> DEFINE y == [end |-> seek + 2 * token.ts, words |-> s.words]
             t == Append(s.segments, y)
  <2>1. x = [words |-> 0, segments |-> t]
    BY <1>10 DEF Cut, token
  <2>2. y \in SegmentType /\ y.end = seek + 2 * token.ts /\ y.words = s.words
    BY <1>2, <1>5, <1>10, SMTT(60) DEF SegmentType
  <2> HIDE DEF y
  <2>3. t \in Seq(SegmentType) /\ Words(t) + 0 = Cardinality(TextTo(n + 1))
    <3>1. Words(t) = Words(s.segments) + s.words
      BY <1>5, <2>2, WordsAppend
    <3>2. t \in Seq(SegmentType)
      BY <1>5, <2>2
    <3> QED
      BY <1>2, <1>3, <1>4, <1>5, <1>10, <3>1, <3>2
  <2>4. Ordered(t)
    <3>1. \A a \in DOMAIN s.segments : s.segments[a].end <= y.end
      BY <1>5, <1>6, <1>10, <2>2
    <3> QED
      BY <1>5, <2>2, <3>1, OrderedAppend
  <2>5. ASSUME NEW a \in DOMAIN t
        PROVE  \E b \in 1 .. n + 1 : IsTime(tokens[b]) /\ t[a].end = seek + 2 * tokens[b].ts
    <3>1. CASE a \in DOMAIN s.segments
      <4>1. t[a] = s.segments[a]
        BY <1>5, <3>1, SMTT(60)
      <4> QED
        BY <1>5, <1>7, <3>1, <4>1
    <3>2. CASE a = Len(s.segments) + 1
      <4>1. t[a] = y /\ n + 1 \in 1 .. n + 1
        BY <1>5, <3>2
      <4> QED
        BY <1>10, <2>2, <4>1 DEF token
    <3> QED
      BY <1>5, <3>1, <3>2, SMTT(60)
  <2> HIDE DEF t
  <2>6. x.words = 0 /\ x.segments = t
    BY <2>1
  <2> QED
    BY <2>1, <2>3, <2>4, <2>5, <2>6 DEF CutAt, TextTo
<1> QED
  BY <1>8, <1>9, <1>10

LEMMA CutUpHolds ==
    ASSUME seek \in Nat, NEW tokens \in Seq(Tokens),
           \A a, b \in DOMAIN tokens :
               a < b /\ IsTime(tokens[a]) /\ IsTime(tokens[b]) => tokens[a].ts <= tokens[b].ts
    PROVE  CutAt(CutUp(tokens), tokens, Len(tokens))
<1>1. Len(tokens) \in Nat
  OBVIOUS
<1>2. PICK f : /\ CutUp(tokens) = f[Len(tokens)] /\ f[0] = Nothing
               /\ \A n \in Nat : n < Len(tokens) => f[n + 1] = Cut(f[n], tokens[n + 1])
  BY <1>1, Cutter
<1> DEFINE Good(n) == CutAt(f[n], tokens, n) /\ f[n] = [words |-> f[n].words, segments |-> f[n].segments]
           Fine == {n \in Nat : n <= Len(tokens) => Good(n)}
<1>3. 0 \in Fine
  <2>1. /\ Nothing.words = 0 /\ Nothing.segments = <<>>
        /\ Nothing = [words |-> Nothing.words, segments |-> Nothing.segments]
    BY DEF Nothing
  <2>2. <<>> \in Seq(SegmentType) /\ DOMAIN <<>> = {} /\ Len(<<>>) = 0
    OBVIOUS
  <2>3. Words(<<>>) = 0
    BY <2>2, Adder
  <2>4. {k \in 1 .. 0 : tokens[k] = Text} = {}
    OBVIOUS
  <2>5. CutAt(Nothing, tokens, 0)
    BY <2>1, <2>2, <2>3, <2>4, FS_EmptySet DEF CutAt, Ordered
  <2> QED
    BY <1>2, <2>1, <2>5
<1>4. ASSUME NEW n \in Fine PROVE n + 1 \in Fine
  <2>1. CASE n + 1 <= Len(tokens)
    <3>1. n \in Nat /\ n < Len(tokens) /\ Good(n)
      BY <1>1, <2>1
    <3>2. f[n + 1] = Cut(f[n], tokens[n + 1])
      BY <1>2, <3>1
    <3>3. Good(n + 1)
      BY <3>1, <3>2, CutStep
    <3> HIDE DEF Good
    <3> QED
      BY <3>1, <3>3
  <2> QED
    BY <2>1
<1>5. Fine = Nat
  <2>1. Fine \subseteq Nat
    OBVIOUS
  <2> HIDE DEF Fine
  <2> QED
    BY <1>3, <1>4, <2>1, Induction
<1>6. Len(tokens) \in Fine /\ Len(tokens) <= Len(tokens)
  <2> HIDE DEF Fine
  <2> QED
    BY <1>1, <1>5
<1> QED
  BY <1>2, <1>6

(* What a decoder's result is written out as.                              *)
LEMMA SegmentsHold ==
    ASSUME seek \in Nat, NEW d \in DecoderType, InTime(d.tokens, d.has_ts, d.seek_delta)
    PROVE  /\ Segments(d) \in Seq(SegmentType) /\ Ordered(Segments(d))
           /\ \A a \in DOMAIN Segments(d) :
                 seek <= Segments(d)[a].end /\ Segments(d)[a].end <= seek + d.seek_delta
           /\ Words(Segments(d)) = TextLen(d.tokens)
<1> DEFINE s == CutUp(d.tokens)
           t == Segments(d)
<1>1. d.tokens \in Seq(Tokens) /\ d.seek_delta \in Nat /\ DOMAIN d.tokens = 1 .. Len(d.tokens)
  BY DEF DecoderType
<1>2. CutAt(s, d.tokens, Len(d.tokens))
  BY <1>1, CutUpHolds DEF InTime
<1> HIDE DEF s
<1>3. /\ s.words \in Nat /\ s.segments \in Seq(SegmentType) /\ Ordered(s.segments)
      /\ Words(s.segments) + s.words = TextLen(d.tokens)
  BY <1>1, <1>2 DEF CutAt, TextLen
<1>4. \A a \in DOMAIN s.segments :
         seek <= s.segments[a].end /\ s.segments[a].end <= seek + d.seek_delta
  <2>1. ASSUME NEW b \in 1 .. Len(d.tokens), IsTime(d.tokens[b])
        PROVE  /\ seek <= seek + 2 * d.tokens[b].ts
               /\ seek + 2 * d.tokens[b].ts <= seek + d.seek_delta
    <3>1. d.tokens[b].ts \in Nat
      BY <1>1, TokenType
    <3>2. 2 * d.tokens[b].ts <= d.seek_delta
      BY <1>1, <2>1 DEF InTime
    <3> QED
      BY <1>1, <3>1, <3>2, SMTT(60)
  <2> QED
    BY <1>2, <2>1 DEF CutAt
<1>5. CASE s.words = 0
  <2>1. t = s.segments /\ Words(s.segments) \in Nat
    BY <1>3, <1>5, WordsType DEF Segments, s
  <2> QED
    BY <1>3, <1>4, <1>5, <2>1
<1>6. CASE s.words # 0
  <2> DEFINE y == [end |-> seek + d.seek_delta, words |-> s.words]
  <2>1. t = Append(s.segments, y)
    BY <1>6 DEF Segments, s
  <2>2. y \in SegmentType /\ y.end = seek + d.seek_delta /\ y.words = s.words
    BY <1>1, <1>3, <1>6 DEF SegmentType
  <2> HIDE DEF y, t
  <2>3. Ordered(t)
    BY <1>3, <1>4, <2>1, <2>2, OrderedAppend
  <2>4. Words(t) = TextLen(d.tokens)
    BY <1>3, <2>1, <2>2, WordsAppend
  <2>5. ASSUME NEW a \in DOMAIN t PROVE seek <= t[a].end /\ t[a].end <= seek + d.seek_delta
    <3>1. CASE a \in DOMAIN s.segments
      <4>1. t[a] = s.segments[a]
        BY <1>3, <2>1, <3>1
      <4> QED
        BY <1>4, <3>1, <4>1
    <3>2. CASE a = Len(s.segments) + 1
      <4>1. t[a] = y
        BY <1>3, <2>1, <3>2
      <4> QED
        BY <1>1, <2>2, <4>1
    <3> QED
      BY <1>3, <2>1, <3>1, <3>2
  <2>6. t \in Seq(SegmentType)
    BY <1>3, <2>1, <2>2
  <2> QED
    BY <2>3, <2>4, <2>5, <2>6 DEF t
<1> QED
  BY <1>5, <1>6

-----------------------------------------------------------------------------
(* The sizes of the caches.                                                *)
LEMMA CacheSizes ==
    ASSUME NEW n \in 1 .. MaxDecoders
    PROVE  /\ CacheSize(n) \in Nat /\ InitLen + MaxPrompt <= CacheSize(n)
           /\ \A m \in Nat : m < NMax => InitLen + MaxPrompt + m * n + n <= CacheSize(n)
<1>1. n \in Nat /\ n >= 1
  BY Sizes
<1>2. CASE n = 1
  BY <1>2, Sizes DEF CacheSize
<1>3. CASE n > 1
  <2>1. CacheSize(n) = TextCtx * (n + 2)
    BY <1>3 DEF CacheSize
  <2>2. TextCtx * (n + 2) = TextCtx * n + 2 * TextCtx /\ TextCtx * n \in Nat
    BY <1>1, Sizes
  <2>3. ASSUME NEW m \in Nat, m < NMax
        PROVE  m * n + n \in Nat /\ m * n + n <= TextCtx * n
    <3>1. m + 1 <= TextCtx /\ m * n + n = (m + 1) * n
      BY <1>1, <2>3, Sizes
    <3>2. (TextCtx - (m + 1)) * n >= 0
      <4>1. TextCtx - (m + 1) \in Nat
        BY <3>1, Sizes
      <4> QED
        BY <1>1, <4>1
    <3>3. (TextCtx - (m + 1)) * n = TextCtx * n - (m + 1) * n
      BY <1>1, Sizes
    <3>4. (m + 1) * n \in Nat
      BY <1>1
    <3> QED
      BY <2>2, <3>1, <3>2, <3>3, <3>4
  <2>4. InitLen + MaxPrompt <= 2 * TextCtx /\ InitLen + MaxPrompt \in Nat
    BY Sizes
  <2>5. ASSUME NEW m \in Nat, m < NMax
        PROVE  InitLen + MaxPrompt + m * n + n <= CacheSize(n)
    <3>1. m * n \in Nat
      BY <1>1
    <3> QED
      BY <1>1, <2>1, <2>2, <2>3, <2>4, <2>5, <3>1, Sizes
  <2> QED
    BY <2>1, <2>2, <2>4, <2>5, Sizes
<1> QED
  BY <1>1, <1>2, <1>3

LEMMA SmallerOf ==
    ASSUME NEW a \in Int, NEW b \in Int
    PROVE  Min({a, b}) = IF a <= b THEN a ELSE b
<1> DEFINE m == IF a <= b THEN a ELSE b
<1>1. m \in {a, b} /\ \A y \in {a, b} : m <= y
  OBVIOUS
<1>2. \A x \in {a, b} : (\A y \in {a, b} : x <= y) => x = m
  OBVIOUS
<1> QED
  BY <1>1, <1>2 DEF Min

LEMMA PromptFits ==
    ASSUME TypeOK
    PROVE  PromptLen \in Nat /\ PromptLen <= InitLen + MaxPrompt
<1>1. past \in Nat /\ MaxPrompt \in Nat /\ MaxPrompt > 4 /\ InitLen \in Nat
  BY Sizes DEF TypeOK
<1>2. MaxPrompt - 1 \in Int /\ past \in Int
  BY <1>1
<1>3. Min({MaxPrompt - 1, past}) = IF MaxPrompt - 1 <= past THEN MaxPrompt - 1 ELSE past
  BY <1>2, SmallerOf
<1> HIDE DEF MaxPrompt
<1> QED
  BY <1>1, <1>3 DEF PromptLen

LEMMA FreshDecoder ==
    /\ Fresh \in DecoderType /\ Fresh.tokens = <<>> /\ Fresh.result_len = 0
    /\ Len(<<>>) = 0 /\ InTime(Fresh.tokens, Fresh.has_ts, Fresh.seek_delta)
<1>1. <<>> \in Seq(Tokens) /\ Len(<<>>) = 0 /\ DOMAIN <<>> = {} /\ Chunk \in 1 .. Chunk
  BY Sizes
<1> QED
  BY <1>1 DEF Fresh, DecoderType, InTime

-----------------------------------------------------------------------------
(* The batches.                                                            *)
LEMMA BatchCells ==
    ASSUME TypeOK
    PROVE  /\ Batch \in Seq(CellType) /\ Len(Batch) = Cardinality(Live)
           /\ \A b \in 1 .. Len(Batch) :
                 /\ InOrder(Live)[b] \in Live /\ Batch[b].pos = prompt + i
                 /\ Batch[b].seq_id = {InOrder(Live)[b]}
                 /\ Batch[b].tokens = dec[InOrder(Live)[b]].tokens
<1> DEFINE live == InOrder(Live)
           n == Cardinality(Live)
<1>1. Live \in SUBSET Nat /\ IsFiniteSet(Live) /\ Live \subseteq Decoders
  BY CallType
<1>2. DOMAIN live = 1 .. n /\ n \in Nat /\ \A b \in 1 .. n : live[b] \in Live
  BY <1>1, Listed
<1>3. ASSUME NEW b \in 1 .. n
      PROVE  [pos |-> prompt + i, seq_id |-> {live[b]}, tokens |-> dec[live[b]].tokens] \in CellType
  <2>1. live[b] \in Decoders /\ live[b] \in Nat /\ prompt + i \in Nat
    <3>1. i \in Nat /\ prompt \in Nat
      BY Sizes DEF TypeOK
    <3>2. prompt + i \in Nat
      BY <3>1
    <3> HIDE DEF live, n
    <3>3. live[b] \in Live
      BY <1>2
    <3> QED
      BY <1>1, <3>2, <3>3
  <2>2. dec[live[b]].tokens \in Seq(Tokens)
    BY <2>1 DEF TypeOK
  <2> QED
    BY <2>1, <2>2 DEF CellType
<1>4. Batch = [b \in 1 .. n |-> [pos |-> prompt + i, seq_id |-> {live[b]},
                                 tokens |-> dec[live[b]].tokens]]
  BY <1>2 DEF Batch
<1> HIDE DEF live, n
<1>5. Batch \in [1 .. n -> CellType]
  BY <1>3, <1>4
<1>6. Batch \in Seq(CellType) /\ Len(Batch) = n
  BY <1>2, <1>5
<1>7. \A b \in 1 .. n : /\ Batch[b].pos = prompt + i /\ Batch[b].seq_id = {live[b]}
                        /\ Batch[b].tokens = dec[live[b]].tokens
  BY <1>4
<1> QED
  BY <1>2, <1>6, <1>7 DEF live, n

LEMMA PromptedCells ==
    ASSUME TypeOK, NEW c \in CacheType, Cells(c) = {}, c.head = 0, NEW n \in Nat, n <= c.size
    PROVE  LET e == Prompted(c, n)
           IN  /\ e \in CacheType /\ e.size = c.size /\ e.head = 0
               /\ Cells(e) = 0 .. n - 1
               /\ \A d \in 0 .. n - 1 : /\ e.cells[d].pos = d /\ e.cells[d].seq_id = Current
                                        /\ e.cells[d].tokens = <<>>
<1> DEFINE batch == PromptBatch(n)
           put == Put(c, batch)
<1>1. <<>> \in Seq(Tokens) /\ {0} \in SUBSET Nat
  OBVIOUS
<1>2. \A p \in 1 .. n : [pos |-> p - 1, seq_id |-> {0}, tokens |-> <<>>] \in CellType
  BY <1>1 DEF CellType
<1>3. batch \in [1 .. n -> CellType]
  BY <1>2 DEF PromptBatch
<1>4. batch \in Seq(CellType) /\ Len(batch) = n
  <2> HIDE DEF batch
  <2> QED
    BY <1>3
<1>5. \A p \in 1 .. n : /\ batch[p].pos = p - 1 /\ batch[p].seq_id = {0}
                        /\ batch[p].tokens = <<>>
  BY DEF PromptBatch
<1> HIDE DEF batch
<1>6. c.size \in Nat
  BY CacheParts
<1>7. HasSlot(c, n) /\ FindSlot(c, n) = 0
  <2>1. 0 \in Nat /\ c.head <= 0 /\ 0 + n <= c.size /\ \A d \in Cells(c) : d < 0
    BY <1>6
  <2>2. HasSlot(c, n) /\ FindSlot(c, n) <= 0
    BY <2>1, SlotAtFront
  <2>3. FindSlot(c, n) \in 0 .. c.size - n
    BY <2>2, SlotFound
  <2> QED
    BY <1>6, <2>2, <2>3
<1>8. /\ put \in CacheType /\ put.size = c.size /\ put.head = 0
      /\ Cells(put) = 0 .. 0 + n - 1
      /\ \A b \in 1 .. n : put.cells[0 + b - 1] = batch[b]
  <2>1. HasSlot(c, Len(batch)) /\ FindSlot(c, Len(batch)) = 0
    BY <1>4, <1>7
  <2> DEFINE h == FindSlot(c, Len(batch))
  <2>2. /\ put \in CacheType /\ put.size = c.size /\ put.head = h
        /\ Cells(put) = Cells(c) \cup h .. h + Len(batch) - 1
        /\ \A b \in 1 .. Len(batch) :
              h + b - 1 \in Cells(put) /\ put.cells[h + b - 1] = batch[b]
    BY <1>4, <2>1, PutCells
  <2>3. h = 0 /\ Len(batch) = n
    BY <1>4, <2>1
  <2> HIDE DEF h, put
  <2> QED
    BY <2>2, <2>3
<1> HIDE DEF put
<1>9. Cells(put) = 0 .. n - 1
  BY <1>8
<1>10. ASSUME NEW d \in 0 .. n - 1
       PROVE  /\ put.cells[d].pos = d /\ put.cells[d].seq_id = {0}
              /\ put.cells[d].tokens = <<>>
  <2>1. d + 1 \in 1 .. n /\ 0 + (d + 1) - 1 = d /\ (d + 1) - 1 = d
    OBVIOUS
  <2> QED
    BY <1>5, <1>8, <2>1, ZenonT(60)
<1>11. NDecoders \in 1 .. MaxDecoders /\ Current \subseteq Nat /\ 0 \in Current
  BY CallType
<1>12. CASE NDecoders = 1
  <2>1. Prompted(c, n) = put
    BY <1>12 DEF Prompted, put, batch
  <2>2. Current = {0}
    BY <1>12 DEF Current
  <2> QED
    BY <1>8, <1>9, <1>10, <2>1, <2>2
<1>13. CASE NDecoders # 1
  <2> DEFINE src == [j \in Current \ {0} |-> 0]
             ids == [d \in Cells(put) |-> SeqCp(put.cells[d].seq_id, src, Current \ {0})]
  <2>1. Prompted(c, n) = Reassigned(put, ids)
    BY <1>13 DEF Prompted, put, batch
  <2>2. ASSUME NEW d \in Cells(put) PROVE ids[d] = Current
    <3>1. ids[d] = {0} \cup {j \in Current \ {0} : src[j] \in {0}}
      BY <1>9, <1>10 DEF SeqCp
    <3>2. {j \in Current \ {0} : src[j] \in {0}} = Current \ {0}
      OBVIOUS
    <3>3. ids[d] = {0} \cup (Current \ {0})
      BY <3>1, <3>2
    <3> HIDE DEF ids, src
    <3> QED
      BY <1>11, <3>3
  <2> HIDE DEF ids
  <2> DEFINE e == Reassigned(put, ids)
  <2>3. /\ e \in CacheType /\ e.size = put.size /\ e.head = 0
        /\ Cells(e) = {d \in Cells(put) : ids[d] # {}}
        /\ \A d \in Cells(e) : /\ e.cells[d].seq_id = ids[d]
                               /\ e.cells[d].pos = put.cells[d].pos
                               /\ e.cells[d].tokens = put.cells[d].tokens
    <3>1. \A d \in Cells(put) : ids[d] \in SUBSET Nat
      BY <1>11, <2>2
    <3> QED
      BY <1>8, <3>1, ReassignedCells
  <2> HIDE DEF e
  <2>4. Cells(e) = 0 .. n - 1
    BY <1>9, <1>11, <2>2, <2>3
  <2> QED
    BY <1>8, <1>9, <1>10, <2>1, <2>2, <2>3, <2>4, ZenonT(60) DEF e
<1> QED
  BY <1>12, <1>13

(* Where the copies aside and back leave the sequences of a cell.          *)
LEMMA MovedCells ==
    ASSUME TypeOK, kv \in CacheType, NEW from \in [Live -> Live],
           \A c \in Cells(kv) : kv.cells[c].seq_id \subseteq Decoders
    PROVE  LET e == Moved(from)
           IN  /\ e \in CacheType /\ e.size = kv.size /\ e.head = 0
               /\ Cells(e) \subseteq Cells(kv)
               /\ \A c \in Cells(e) : /\ e.cells[c].pos = kv.cells[c].pos
                                      /\ e.cells[c].tokens = kv.cells[c].tokens
                                      /\ e.cells[c].seq_id \subseteq Decoders
               /\ \A j \in Live, c \in Cells(kv) :
                     from[j] \in kv.cells[c].seq_id <=> c \in Cells(e) /\ j \in e.cells[c].seq_id
<1> DEFINE asides == {Aside(j) : j \in Live}
           CopiedAside(ids) == SeqCp(ids, [a \in asides |-> from[a - MaxDecoders]], asides)
           MovedBack(ids) ==
               SeqRm(SeqCp(SeqRm(ids, Live), [j \in Live |-> Aside(j)], Live), asides)
           ids == [c \in Cells(kv) |-> MovedBack(CopiedAside(kv.cells[c].seq_id))]
           e == Moved(from)
<1>1. e = Reassigned(kv, ids)
  BY DEF Moved
<1>2. Live \subseteq Decoders /\ Decoders \subseteq Nat /\ MaxDecoders \in Nat
  BY CallType, Sizes DEF Decoders
<1>3. \A j \in Live : Aside(j) - MaxDecoders = j /\ Aside(j) \notin Decoders
  BY <1>2 DEF Aside, Decoders
<1>4. asides \cap Decoders = {} /\ \A j \in Live : Aside(j) \in asides
  BY <1>3
<1>5. ASSUME NEW S \in SUBSET Decoders
      PROVE  LET T == MovedBack(CopiedAside(S))
             IN  T \subseteq Decoders /\ \A j \in Live : j \in T <=> from[j] \in S
  <2> DEFINE src == [a \in asides |-> from[a - MaxDecoders]]
             dst == [j \in Live |-> Aside(j)]
             C == CopiedAside(S)
             T == MovedBack(C)
  <2>1. C = S \cup {a \in asides : src[a] \in S}
    BY DEF SeqCp
  <2>2. T = ((C \ Live) \cup {j \in Live : dst[j] \in C \ Live}) \ asides
    BY DEF SeqCp, SeqRm
  <2>3. \A j \in Live : src[Aside(j)] = from[j] /\ dst[j] = Aside(j)
    BY <1>3, <1>4
  <2> HIDE DEF src, dst, C, T, asides
  <2>4. \A j \in Live : Aside(j) \in C <=> from[j] \in S
    BY <1>3, <1>4, <2>1, <2>3
  <2>5. \A j \in Live : Aside(j) \notin Live
    BY <1>2, <1>3
  <2>6. T \subseteq Decoders
    BY <1>2, <2>1, <2>2
  <2>7. ASSUME NEW j \in Live PROVE j \in T <=> from[j] \in S
    <3>1. j \notin asides /\ j \notin C \ Live
      BY <1>2, <1>4
    <3> QED
      BY <2>2, <2>3, <2>4, <2>5, <3>1
  <2> QED
    BY <2>6, <2>7 DEF T, C
<1>6. ASSUME NEW c \in Cells(kv)
      PROVE  /\ ids[c] \subseteq Decoders /\ ids[c] \in SUBSET Nat
             /\ \A j \in Live : j \in ids[c] <=> from[j] \in kv.cells[c].seq_id
  <2>1. ids[c] = MovedBack(CopiedAside(kv.cells[c].seq_id)) /\ kv.cells[c].seq_id \in SUBSET Decoders
    OBVIOUS
  <2> HIDE DEF ids, MovedBack, CopiedAside
  <2> QED
    BY <1>2, <1>5, <2>1, ZenonT(60)
<1> HIDE DEF ids, e
<1>7. /\ e \in CacheType /\ e.size = kv.size /\ e.head = 0
      /\ Cells(e) = {d \in Cells(kv) : ids[d] # {}}
      /\ \A d \in Cells(e) : /\ e.cells[d].seq_id = ids[d]
                             /\ e.cells[d].pos = kv.cells[d].pos
                             /\ e.cells[d].tokens = kv.cells[d].tokens
  BY <1>1, <1>6, ReassignedCells
<1> QED
  BY <1>6, <1>7 DEF e

-----------------------------------------------------------------------------
(* Between two steps of the audio there are no tokens and nothing is in    *)
(* the cache.                                                              *)
LEMMA AllFresh ==
    ASSUME NoAttempt
    PROVE  /\ it' \in 1 .. Temperatures /\ i' \in 0 .. NMax /\ prompt' \in Nat
           /\ best' \in Decoders /\ silent' \in BOOLEAN
           /\ dec' \in [Decoders -> DecoderType]
           /\ \A j \in Decoders : dec'[j].result_len <= Len(dec'[j].tokens)
           /\ Timely' /\ prompt' = 0 /\ i' = 0
<1>1. dec' = [j \in Decoders |-> Fresh]
  BY DEF NoAttempt
<1>2. dec' \in [Decoders -> DecoderType] /\ \A j \in Decoders : dec'[j] = Fresh
  BY <1>1, FreshDecoder
<1>3. Timely' /\ \A j \in Decoders : dec'[j].result_len <= Len(dec'[j].tokens)
  BY <1>2, FreshDecoder DEF Timely
<1>4. it' \in 1 .. Temperatures /\ best' \in Decoders /\ i' \in 0 .. NMax
  BY Sizes, WhisperFullAssumption DEF NoAttempt, Decoders
<1> QED
  BY <1>2, <1>3, <1>4 DEF NoAttempt

LEMMA NothingPacked ==
    ASSUME kv' \in CacheType, Cells(kv') = {}, kv'.head = 0, kv'.size = CacheSize(kv_n_dec'),
           kv_n_dec' \in 1 .. MaxDecoders, prompt' \in Nat, i' \in Nat, prompt' <= InitLen + MaxPrompt,
           ~Sampling'
    PROVE  Packed' /\ Contexts'
<1>1. kv_n_dec' \in Nat
  BY Sizes
<1>2. \A a, b, c \in Nat : 0 <= a + b * c
  OBVIOUS
<1>3. kv'.head <= Edge'
  BY <1>1, <1>2 DEF Edge
<1>4. Cells(kv)' = {} /\ kv' \in CacheType
  BY DEF Cells
<1> QED
  BY <1>3, <1>4 DEF Packed, Contexts

(* The types of a decoder that TypeOK spells out.                          *)
LEMMA TypeParts ==
    TypeOK <=>
        /\ pc \in {"idle", "window", "temperature", "sample", "decode", "rank", "output"}
        /\ call \in Calls /\ seek \in Nat /\ past \in Nat
        /\ it \in 1 .. Temperatures /\ i \in 0 .. NMax /\ prompt \in Nat
        /\ best \in Decoders /\ silent \in BOOLEAN
        /\ dec \in [Decoders -> DecoderType]
        /\ \A j \in Decoders : dec[j].result_len <= Len(dec[j].tokens)
        /\ kv_n_dec \in 1 .. MaxDecoders
        /\ result_all \in Seq(SegmentType)
        /\ rc \in {0, -6, -8, -9}
BY DEF TypeOK, DecoderType, SegmentType

LEMMA TypePartsNext ==
    TypeOK' <=>
        /\ pc' \in {"idle", "window", "temperature", "sample", "decode", "rank", "output"}
        /\ call' \in Calls /\ seek' \in Nat /\ past' \in Nat
        /\ it' \in 1 .. Temperatures /\ i' \in 0 .. NMax /\ prompt' \in Nat
        /\ best' \in Decoders /\ silent' \in BOOLEAN
        /\ dec' \in [Decoders -> DecoderType]
        /\ \A j \in Decoders : dec'[j].result_len <= Len(dec'[j].tokens)
        /\ kv_n_dec' \in 1 .. MaxDecoders
        /\ result_all' \in Seq(SegmentType)
        /\ rc' \in {0, -6, -8, -9}
BY DEF TypeOK, DecoderType, SegmentType

LEMMA CacheIsType ==
    ASSUME TypeOK, Packed
    PROVE  /\ kv \in CacheType /\ kv.size = CacheSize(kv_n_dec) /\ kv_n_dec \in 1 .. MaxDecoders
           /\ Clear(kv) \in CacheType /\ Clear(kv).size = CacheSize(kv_n_dec)
           /\ Clear(kv).head = 0 /\ Cells(Clear(kv)) = {}
<1>1. kv \in CacheType /\ kv.size = CacheSize(kv_n_dec) /\ kv_n_dec \in 1 .. MaxDecoders
  BY TypeParts DEF Packed
<1> QED
  BY <1>1, EmptyCaches

-----------------------------------------------------------------------------
LEMMA InvInit == Init => Inv
<1> SUFFICES ASSUME Init PROVE Inv
  OBVIOUS
<1>1. dec \in [Decoders -> DecoderType] /\ \A j \in Decoders : dec[j] = Fresh
  BY FreshDecoder DEF Init
<1>2. /\ it \in 1 .. Temperatures /\ i \in 0 .. NMax /\ best \in Decoders
      /\ kv_n_dec \in 1 .. MaxDecoders /\ result_all \in Seq(SegmentType)
  BY Sizes, WhisperFullAssumption, SMTT(60) DEF Init, Decoders
<1>3. TypeOK
  <2>1. \A j \in Decoders : dec[j].result_len <= Len(dec[j].tokens)
    BY <1>1, FreshDecoder
  <2>2. /\ pc = "idle" /\ call \in Calls /\ seek \in Nat /\ past \in Nat
        /\ prompt \in Nat /\ silent \in BOOLEAN /\ rc = 0
    BY DEF Init
  <2> QED
    BY <1>1, <1>2, <2>1, <2>2, TypeParts
<1>4. Timely
  BY <1>1, FreshDecoder DEF Timely
<1>5. ~Sampling /\ prompt = 0 /\ i = 0 /\ kv_n_dec = 1
  BY DEF Init, Sampling
<1>6. CacheSize(1) \in Nat /\ kv = NewCache(CacheSize(1))
  BY Sizes, CacheSizes DEF Init
<1>7. kv \in CacheType /\ kv.size = CacheSize(kv_n_dec) /\ kv.head = 0 /\ Cells(kv) = {}
  BY <1>5, <1>6, EmptyCaches
<1>8. Packed /\ Contexts
  <2>1. 0 <= InitLen + MaxPrompt /\ 0 * 1 = 0
    BY Sizes
  <2> QED
    BY <1>5, <1>7, <2>1 DEF Packed, Contexts, Edge
<1>9. Written
  <2>1. DOMAIN <<>> = {}
    OBVIOUS
  <2> QED
    BY <2>1 DEF Init, Written, Ordered
<1> QED
  BY <1>3, <1>4, <1>8, <1>9 DEF Inv

(* A step that changes nothing, or nothing but what the call is asked for. *)
LEMMA InvIdle ==
    ASSUME Inv, UNCHANGED vars
    PROVE  Inv'
<1>1. /\ UNCHANGED <<pc, call, seek, past, result_all, it, i, prompt, dec, best, silent>>
      /\ UNCHANGED <<kv, kv_n_dec, rc>>
  BY DEF vars, window, attempt, memory
<1>2. TypeOK'
  BY <1>1 DEF Inv, TypeOK
<1>3. Live' = Live /\ NDecoders' = NDecoders
  BY <1>1 DEF Live, Current, NDecoders
<1>4. Packed'
  BY <1>1, <1>3 DEF Inv, Packed, Sampling, Edge, Cells
<1>5. Contexts'
  BY <1>1, <1>3 DEF Inv, Contexts, Sampling, Seen, IsOf, Context, Cells
<1>6. Timely' /\ Written'
  BY <1>1 DEF Inv, Timely, Written, Behind, Ordered
<1> QED
  BY <1>2, <1>4, <1>5, <1>6 DEF Inv

LEMMA InvFull ==
    ASSUME Inv, NEW c \in Calls, Full(c)
    PROVE  Inv'
<1>1. /\ call' = c /\ seek' = 0 /\ result_all' = <<>> /\ rc' = 0
      /\ pc' \in {"idle", "window"} /\ UNCHANGED <<attempt, memory>>
  BY DEF Full
<1>2. past' \in Nat
  BY TypeParts DEF Inv, Full
<1>3. TypeOK'
  <2>1. result_all' \in Seq(SegmentType)
    BY <1>1
  <2> QED
    BY <1>1, <1>2, <2>1, TypeParts, TypePartsNext DEF Inv, attempt, memory
<1>4. ~Sampling' /\ ~Sampling'
  BY <1>1 DEF Sampling
<1>5. Packed'
  BY <1>1, <1>4 DEF Inv, Packed, attempt, memory, Edge, Cells
<1>6. Contexts' /\ Timely'
  BY <1>1, <1>4 DEF Inv, Contexts, Timely, attempt
<1>7. Written'
  <2>1. DOMAIN result_all' = {}
    BY <1>1
  <2> QED
    BY <1>1, <2>1 DEF Written, Ordered, Behind
<1> QED
  BY <1>3, <1>5, <1>6, <1>7 DEF Inv

LEMMA InvReturn ==
    ASSUME Inv, NEW code \in {0, -6, -8, -9}, Return(code)
    PROVE  Inv'
<1>1. /\ pc' = "idle" /\ rc' = code /\ NoAttempt /\ kv' = Clear(kv)
      /\ UNCHANGED <<call, window, kv_n_dec>>
  BY DEF Return
<1>2. TypeOK' /\ Timely'
  BY <1>1, AllFresh, TypeParts, TypePartsNext DEF Inv, window
<1>3. ~Sampling'
  BY <1>1 DEF Sampling
<1>4. Packed' /\ Contexts'
  <2>1. /\ kv' \in CacheType /\ Cells(kv') = {} /\ kv'.head = 0
        /\ kv'.size = CacheSize(kv_n_dec') /\ kv_n_dec' \in 1 .. MaxDecoders
    BY <1>1, CacheIsType DEF Inv
  <2>2. prompt' \in Nat /\ i' \in Nat /\ prompt' <= InitLen + MaxPrompt
    BY <1>1, AllFresh, Sizes
  <2> QED
    BY <1>3, <2>1, <2>2, NothingPacked
<1>5. Written'
  BY <1>1 DEF Inv, Written, Ordered, window
<1> QED
  BY <1>2, <1>4, <1>5 DEF Inv

LEMMA InvEncode ==
    ASSUME Inv, Encode
    PROVE  Inv'
<1>1. CASE Return(-6)
  BY <1>1, InvReturn
<1>2. CASE ~Return(-6)
  <2>1. /\ pc = "window" /\ seek + DeltaMin < call.seek_end /\ pc' = "temperature"
        /\ past' \in {0, past} /\ best' = 0 /\ it' = 1
        /\ UNCHANGED <<call, seek, result_all, i, prompt, dec, silent, memory, rc>>
    BY <1>2 DEF Encode
  <2>2. best' \in Decoders /\ it' \in 1 .. Temperatures
    BY <2>1, Sizes, WhisperFullAssumption DEF Decoders
  <2>3. TypeOK' /\ Timely'
    BY <2>1, <2>2, TypeParts, TypePartsNext DEF Inv, memory, Timely
  <2>4. ~Sampling'
    BY <2>1 DEF Sampling
  <2>5. Packed' /\ Contexts'
    BY <2>1, <2>4 DEF Inv, Packed, Contexts, memory, Edge, Cells
  <2>6. Written'
    <3>1. seek < call.seek_end /\ ~(call.seek_end <= seek)
      <4>1. seek \in Nat /\ call.seek_end \in Nat /\ DeltaMin \in Nat
        BY TypeParts, CallType, WhisperFullAssumption DEF Inv
      <4> QED
        BY <2>1, <4>1
    <3>2. Behind
      BY <2>1, <3>1 DEF Inv, Written
    <3> QED
      BY <2>1, <3>1, <3>2 DEF Inv, Written, Ordered, Behind
  <2> QED
    BY <2>3, <2>5, <2>6 DEF Inv
<1> QED
  BY <1>1, <1>2

(* Every decoder starts with the prompt as its context.                    *)
LEMMA InvStartTemperature ==
    ASSUME Inv, StartTemperature
    PROVE  Inv'
<1> DEFINE grows == kv_n_dec < NDecoders
           empty == IF grows THEN NewCache(CacheSize(NDecoders)) ELSE Clear(kv)
<1>1. pc = "temperature" /\ kv_n_dec' = IF grows THEN NDecoders ELSE kv_n_dec
  BY DEF StartTemperature
<1>2. kv_n_dec \in 1 .. MaxDecoders /\ NDecoders \in 1 .. MaxDecoders /\ kv_n_dec' \in 1 .. MaxDecoders
  BY <1>1, CallType, TypeParts DEF Inv
<1>3. CacheSize(kv_n_dec') \in Nat /\ InitLen + MaxPrompt <= CacheSize(kv_n_dec')
  BY <1>2, CacheSizes
<1>4. /\ empty \in CacheType /\ Cells(empty) = {} /\ empty.head = 0
      /\ empty.size = CacheSize(kv_n_dec')
  <2>1. CASE grows
    BY <1>1, <1>3, <2>1, EmptyCaches
  <2>2. CASE ~grows
    BY <1>1, <2>2, CacheIsType DEF Inv
  <2> QED
    BY <2>1, <2>2
<1>5. NDecoders <= kv_n_dec'
  <2>1. NDecoders \in Int /\ kv_n_dec \in Int
    BY <1>2
  <2> QED
    BY <1>1, <2>1
<1> HIDE DEF grows, empty
<1>6. CASE pc' = "idle"
  <2>1. rc' = -8 /\ NoAttempt /\ kv' = empty /\ UNCHANGED <<call, window>>
    BY <1>6 DEF StartTemperature, empty, grows
  <2>2. TypeOK' /\ Timely' /\ prompt' = 0 /\ i' = 0
    BY <1>2, <1>6, <2>1, AllFresh, TypeParts, TypePartsNext DEF Inv, window
  <2>3. Packed' /\ Contexts'
    <3>1. prompt' \in Nat /\ i' \in Nat /\ prompt' <= InitLen + MaxPrompt /\ ~Sampling'
      BY <1>6, <2>2, Sizes DEF Sampling
    <3> QED
      BY <1>2, <1>4, <2>1, <3>1, NothingPacked
  <2>4. Written'
    BY <1>6, <2>1 DEF Inv, Written, Ordered, window
  <2> QED
    BY <2>2, <2>3, <2>4 DEF Inv
<1>7. CASE pc' # "idle"
  <2>1. /\ pc' = "sample" /\ i' = 0
        /\ dec' = [j \in Decoders |-> IF j \in Current THEN Fresh ELSE dec[j]]
        /\ prompt' = PromptLen /\ kv' = Prompted(empty, PromptLen)
        /\ UNCHANGED <<call, window, it, best, silent, rc>>
    BY <1>7 DEF StartTemperature, empty, grows
  <2>2. /\ PromptLen \in Nat /\ PromptLen <= InitLen + MaxPrompt /\ PromptLen <= empty.size
    <3>1. PromptLen \in Nat /\ PromptLen <= InitLen + MaxPrompt
      BY PromptFits DEF Inv
    <3> QED
      BY <1>3, <1>4, <3>1, Sizes
  <2>3. /\ kv' \in CacheType /\ kv'.size = CacheSize(kv_n_dec') /\ kv'.head = 0
        /\ Cells(kv') = 0 .. PromptLen - 1
        /\ \A d \in 0 .. PromptLen - 1 :
              /\ kv'.cells[d].pos = d /\ kv'.cells[d].seq_id = Current
              /\ kv'.cells[d].tokens = <<>>
    BY <1>4, <2>1, <2>2, PromptedCells DEF Inv
  <2>4. Current' = Current /\ NDecoders' = NDecoders /\ Current \subseteq Decoders
    BY <2>1, CallType DEF Current, NDecoders, Inv
  <2>5. \A j \in Decoders : dec'[j] = IF j \in Current THEN Fresh ELSE dec[j]
    BY <2>1
  <2>6. /\ dec' \in [Decoders -> DecoderType] /\ Timely'
        /\ \A j \in Decoders : dec'[j].result_len <= Len(dec'[j].tokens)
    <3>1. /\ dec \in [Decoders -> DecoderType]
          /\ \A j \in Decoders : dec[j].result_len <= Len(dec[j].tokens)
      BY TypeParts DEF Inv
    <3>2. dec' \in [Decoders -> DecoderType]
      BY <2>1, <3>1, FreshDecoder
    <3>3. \A j \in Decoders : dec'[j].result_len <= Len(dec'[j].tokens)
      BY <2>5, <3>1, FreshDecoder
    <3>4. Timely'
      BY <2>5, FreshDecoder DEF Inv, Timely
    <3> QED
      BY <3>2, <3>3, <3>4
  <2>7. TypeOK'
    <3>1. i' \in 0 .. NMax
      BY <2>1, Sizes
    <3> QED
      BY <1>2, <2>1, <2>2, <2>6, <3>1, TypeParts, TypePartsNext DEF Inv, window
  <2>8. Packed'
    <3>1. Edge' = PromptLen
      <4>1. kv_n_dec' \in Nat /\ \A b \in Nat : 0 * b = 0
        BY <1>2, Sizes
      <4>2. 0 * kv_n_dec' = 0
        BY <4>1
      <4> QED
        BY <2>1, <2>2, <4>2 DEF Edge
    <3>2. \A c \in Cells(kv)' : c < Edge' /\ kv'.cells[c].pos < prompt' + i'
      BY <2>1, <2>2, <2>3, <3>1 DEF Cells
    <3>3. 0 < NMax /\ kv'.head <= Edge' /\ prompt' <= InitLen + MaxPrompt
      BY <2>1, <2>2, <2>3, <3>1, Sizes
    <3> QED
      BY <1>5, <2>1, <2>3, <2>4, <3>2, <3>3 DEF Packed
  <2>9. Contexts'
    <3>1. Live' \subseteq Current /\ \A j \in Live' : dec'[j].tokens = <<>>
      BY <2>4, <2>5, FreshDecoder DEF Live
    <3>2. \A c \in Cells(kv)' : kv'.cells[c].seq_id \subseteq Decoders
      BY <2>3, <2>4 DEF Cells
    <3>3. prompt' + i' - 1 = PromptLen - 1
      BY <2>1, <2>2
    <3>4. ASSUME NEW j \in Live', NEW p \in 0 .. prompt' + i' - 1
          PROVE  \E c : Seen(j, p, c)' /\ \A e : IsOf(j, p, e)' => e = c
      <4>1. p \in 0 .. PromptLen - 1 /\ j \in Current /\ p < prompt' /\ p \in Cells(kv)'
        BY <2>1, <2>2, <2>3, <3>1, <3>3 DEF Cells
      <4>2. Context(j, p)' = <<>>
        BY <3>1, <4>1 DEF Context
      <4>3. Seen(j, p, p)'
        BY <2>3, <4>1, <4>2 DEF Seen, IsOf
      <4>4. \A e : IsOf(j, p, e)' => e = p
        BY <2>3 DEF IsOf, Cells
      <4> QED
        BY <4>3, <4>4
    <3> QED
      BY <2>1, <3>1, <3>2, <3>4, FreshDecoder DEF Contexts
  <2>10. Written'
    BY <1>1, <2>1 DEF Inv, Written, Ordered, Behind, window
  <2> QED
    BY <2>6, <2>7, <2>8, <2>9, <2>10 DEF Inv
<1> QED
  BY <1>6, <1>7

(* Tokens for the decoders that are not done, each for the one it goes on  *)
(* from.                                                                   *)
LEMMA SampledHolds ==
    ASSUME Inv, pc = "sample", NEW from \in [Live -> Live], NEW pick,
           \A j \in Live : pick[j] \in Allowed(dec[from[j]]),
           Sampled([j \in Live |-> [dec[from[j]] EXCEPT !.tokens = Append(@, pick[j])]]),
           UNCHANGED <<call, window, it, i, prompt, best, silent, kv_n_dec, rc>>
    PROVE  /\ TypeOK' /\ Timely' /\ Written' /\ pc' \in {"decode", "rank"}
           /\ Live' \subseteq Live /\ NDecoders' = NDecoders
           /\ \A j \in Live :
                 /\ Len(dec'[j].tokens) = i + 1
                 /\ \A m \in 0 .. i : SubSeq(dec'[j].tokens, 1, m)
                                          = SubSeq(dec[from[j]].tokens, 1, m)
<1> DEFINE new == [j \in Live |-> [dec[from[j]] EXCEPT !.tokens = Append(@, pick[j])]]
<1>1. /\ Live \subseteq Decoders /\ dec \in [Decoders -> DecoderType]
      /\ \A j \in Decoders : dec[j].result_len <= Len(dec[j].tokens)
      /\ \A j \in Decoders : InTime(dec[j].tokens, dec[j].has_ts, dec[j].seek_delta)
      /\ \A j \in Live : Len(dec[j].tokens) = i
  BY TypeParts, CallType, SMTT(60) DEF Inv, Timely, Contexts, Sampling
<1>2. ASSUME NEW j \in Live
      PROVE  LET u == Updated(new[j])
             IN  /\ u \in DecoderType /\ u.result_len <= Len(u.tokens) /\ Len(u.tokens) = i + 1
                 /\ \A m \in 0 .. i : SubSeq(u.tokens, 1, m) = SubSeq(dec[from[j]].tokens, 1, m)
                 /\ InTime(u.tokens, u.has_ts, u.seek_delta)
  <2> DEFINE d == dec[from[j]]
             u == Updated(new[j])
  <2>1. from[j] \in Live
    OBVIOUS
  <2>2. /\ d \in DecoderType /\ d.result_len <= Len(d.tokens) /\ Len(d.tokens) = i
        /\ InTime(d.tokens, d.has_ts, d.seek_delta) /\ pick[j] \in Allowed(d)
    BY <1>1, <2>1
  <2>3. new[j] = Extended(d, pick[j])
    BY DEF Extended
  <2> HIDE DEF d, new
  <2>4. /\ u \in DecoderType /\ u.tokens = Append(d.tokens, pick[j])
        /\ u.result_len <= Len(u.tokens) /\ Len(u.tokens) = Len(d.tokens) + 1
        /\ \A m \in 0 .. Len(d.tokens) : SubSeq(u.tokens, 1, m) = SubSeq(d.tokens, 1, m)
        /\ InTime(u.tokens, u.has_ts, u.seek_delta)
    BY <2>2, <2>3, SampledDecoder, ZenonT(60)
  <2> QED
    BY <2>2, <2>4, SMTT(60) DEF d
<1>3. /\ dec' = [j \in Decoders |-> IF j \in Live THEN Updated(new[j]) ELSE dec[j]]
      /\ pc' \in {"decode", "rank"}
  BY DEF Sampled
<1> HIDE DEF new
<1>4. \A j \in Decoders : dec'[j] = IF j \in Live THEN Updated(new[j]) ELSE dec[j]
  BY <1>3
<1>5. /\ dec' \in [Decoders -> DecoderType]
      /\ \A j \in Decoders : dec'[j].result_len <= Len(dec'[j].tokens)
  <2>1. \A j \in Decoders : dec'[j] \in DecoderType /\ dec'[j].result_len <= Len(dec'[j].tokens)
    BY <1>1, <1>2, <1>4
  <2>2. DOMAIN dec' = Decoders /\ dec' = [j \in Decoders |-> dec'[j]]
    BY <1>3
  <2> QED
    BY <2>1, <2>2
<1>6. Timely'
  BY <1>1, <1>2, <1>4 DEF Timely
<1>7. TypeOK'
  BY <1>3, <1>5, TypeParts, TypePartsNext DEF Inv, window
<1>8. Current' = Current /\ NDecoders' = NDecoders /\ Current \subseteq Decoders
  BY CallType DEF Current, NDecoders, Inv
<1>9. Live' \subseteq Live
  <2>1. ASSUME NEW j \in Live' PROVE j \in Live
    <3>1. j \in Current /\ j \in Decoders /\ IsLive(dec'[j])
      BY <1>8 DEF Live
    <3>2. CASE j \notin Live
      BY <1>4, <3>1, <3>2 DEF Live
    <3> QED
      BY <3>2
  <2> QED
    BY <2>1
<1>10. Written'
  BY <1>3 DEF Inv, Written, Ordered, Behind, window
<1>11. \A j \in Live : dec'[j] = Updated(new[j])
  BY <1>1, <1>4
<1>12. ASSUME NEW j \in Live
       PROVE  /\ Len(dec'[j].tokens) = i + 1
              /\ \A m \in 0 .. i : SubSeq(dec'[j].tokens, 1, m)
                                       = SubSeq(dec[from[j]].tokens, 1, m)
  BY <1>2, <1>11
<1> QED
  BY <1>3, <1>6, <1>7, <1>8, <1>9, <1>10, <1>12

LEMMA InvSampleGreedy ==
    ASSUME Inv, SampleGreedy
    PROVE  Inv'
<1> DEFINE from == [j \in Live |-> j]
<1>1. PICK pick \in [Live -> Tokens] :
         /\ \A j \in Live : pick[j] \in Allowed(dec[j])
         /\ Sampled([j \in Live |-> [dec[j] EXCEPT !.tokens = Append(@, pick[j])]])
  BY DEF SampleGreedy
<1>2. pc = "sample" /\ UNCHANGED <<call, window, it, i, prompt, best, silent, memory, rc>>
  BY DEF SampleGreedy
<1>3. from \in [Live -> Live] /\ \A j \in Live : from[j] = j
  OBVIOUS
<1>4. [j \in Live |-> [dec[j] EXCEPT !.tokens = Append(@, pick[j])]]
        = [j \in Live |-> [dec[from[j]] EXCEPT !.tokens = Append(@, pick[j])]]
  BY <1>3
<1> HIDE DEF from
<1>5. /\ TypeOK' /\ Timely' /\ Written' /\ pc' \in {"decode", "rank"}
      /\ Live' \subseteq Live /\ NDecoders' = NDecoders
      /\ \A j \in Live :
            /\ Len(dec'[j].tokens) = i + 1
            /\ \A m \in 0 .. i : SubSeq(dec'[j].tokens, 1, m) = SubSeq(dec[from[j]].tokens, 1, m)
  <2>1. \A j \in Live : pick[j] \in Allowed(dec[from[j]])
    BY <1>1, <1>3
  <2>2. Sampled([j \in Live |-> [dec[from[j]] EXCEPT !.tokens = Append(@, pick[j])]])
    BY <1>1, <1>4
  <2>3. UNCHANGED <<call, window, it, i, prompt, best, silent, kv_n_dec, rc>>
    BY <1>2 DEF memory
  <2> QED
    BY <1>2, <1>3, <2>1, <2>2, <2>3, SampledHolds
<1>6. Packed'
  BY <1>2, <1>5 DEF Inv, Packed, Sampling, Edge, Cells, memory
<1>7. Contexts'
  <2>1. \A c \in Cells(kv)' : kv'.cells[c].seq_id \subseteq Decoders
    BY <1>2 DEF Inv, Contexts, Sampling, Cells, memory
  <2>2. ASSUME NEW j \in Live', NEW p \in 0 .. prompt' + i' - 1
        PROVE  \E c : Seen(j, p, c)' /\ \A e : IsOf(j, p, e)' => e = c
    <3>1. j \in Live /\ p \in 0 .. prompt + i - 1
      BY <1>2, <1>5
    <3>2. PICK c : Seen(j, p, c) /\ \A e : IsOf(j, p, e) => e = c
      BY <1>2, <3>1 DEF Inv, Contexts, Sampling
    <3>3. \A e : IsOf(j, p, e)' <=> IsOf(j, p, e)
      BY <1>2 DEF IsOf, Cells, memory
    <3>4. Context(j, p)' = Context(j, p)
      <4>1. (IF p < prompt THEN 0 ELSE p - prompt + 1) \in 0 .. i /\ prompt' = prompt
        BY <1>2, <3>1, TypeParts, Sizes, SMTT(60) DEF Inv
      <4> QED
        BY <1>3, <1>5, <3>1, <4>1 DEF Context
    <3>5. Seen(j, p, c)'
      BY <1>2, <3>2, <3>3, <3>4 DEF Seen, memory
    <3> QED
      BY <3>2, <3>3, <3>5
  <2>3. \A j \in Live' : Len(dec'[j].tokens) = i' + 1
    BY <1>2, <1>5
  <2> QED
    BY <1>5, <2>1, <2>2, <2>3 DEF Contexts, Sampling
<1> QED
  BY <1>5, <1>6, <1>7 DEF Inv

LEMMA InvSampleBeam ==
    ASSUME Inv, SampleBeam
    PROVE  Inv'
<1>1. PICK from \in [Live -> Live] :
         /\ kv' = Moved(from)
         /\ \E pick \in [Live -> Tokens] :
               /\ \A j \in Live : pick[j] \in Allowed(dec[from[j]])
               /\ Sampled([j \in Live |-> [dec[from[j]] EXCEPT !.tokens = Append(@, pick[j])]])
  BY DEF SampleBeam
<1>2. pc = "sample" /\ UNCHANGED <<call, window, it, i, prompt, best, silent, kv_n_dec, rc>>
  BY DEF SampleBeam
<1>3. /\ TypeOK' /\ Timely' /\ Written' /\ pc' \in {"decode", "rank"}
      /\ Live' \subseteq Live /\ NDecoders' = NDecoders
      /\ \A j \in Live :
            /\ Len(dec'[j].tokens) = i + 1
            /\ \A m \in 0 .. i : SubSeq(dec'[j].tokens, 1, m) = SubSeq(dec[from[j]].tokens, 1, m)
  BY <1>1, <1>2, SampledHolds
<1>4. /\ kv' \in CacheType /\ kv'.size = kv.size /\ kv'.head = 0
      /\ Cells(kv') \subseteq Cells(kv)
      /\ \A c \in Cells(kv') : /\ kv'.cells[c].pos = kv.cells[c].pos
                               /\ kv'.cells[c].tokens = kv.cells[c].tokens
                               /\ kv'.cells[c].seq_id \subseteq Decoders
      /\ \A j \in Live, c \in Cells(kv) :
            from[j] \in kv.cells[c].seq_id <=> c \in Cells(kv') /\ j \in kv'.cells[c].seq_id
  <2>1. TypeOK /\ kv \in CacheType /\ \A c \in Cells(kv) : kv.cells[c].seq_id \subseteq Decoders
    BY <1>2 DEF Inv, Packed, Contexts, Sampling
  <2> QED
    BY <1>1, <2>1, MovedCells
<1>5. Packed'
  <2>1. kv'.head <= Edge'
    <3>1. kv_n_dec \in Nat /\ i \in Nat /\ prompt \in Nat
      BY TypeParts, Sizes DEF Inv
    <3>2. \A a, b, c \in Nat : 0 <= a + b * c
      OBVIOUS
    <3> QED
      BY <1>2, <1>4, <3>1, <3>2 DEF Edge
  <2>2. Cells(kv)' = Cells(kv') /\ Edge' = Edge /\ prompt' + i' = prompt + i
    BY <1>2 DEF Cells, Edge
  <2>3. \A c \in Cells(kv)' : c < Edge' /\ kv'.cells[c].pos < prompt' + i'
    BY <1>4, <2>2 DEF Inv, Packed
  <2> QED
    BY <1>2, <1>3, <1>4, <2>1, <2>3 DEF Inv, Packed, Sampling
<1>6. Contexts'
  <2>1. Cells(kv)' = Cells(kv')
    BY DEF Cells
  <2>2. ASSUME NEW j \in Live', NEW p \in 0 .. prompt' + i' - 1
        PROVE  \E c : Seen(j, p, c)' /\ \A e : IsOf(j, p, e)' => e = c
    <3>1. j \in Live /\ from[j] \in Live /\ p \in 0 .. prompt + i - 1
      BY <1>2, <1>3
    <3>2. PICK c : Seen(from[j], p, c) /\ \A e : IsOf(from[j], p, e) => e = c
      BY <1>2, <3>1 DEF Inv, Contexts, Sampling
    <3>3. \A e : IsOf(j, p, e)' <=> IsOf(from[j], p, e)
      BY <1>4, <2>1, <3>1 DEF IsOf
    <3>4. Context(j, p)' = Context(from[j], p)
      <4>1. (IF p < prompt THEN 0 ELSE p - prompt + 1) \in 0 .. i /\ prompt' = prompt
        BY <1>2, <3>1, TypeParts, Sizes, SMTT(60) DEF Inv
      <4> QED
        BY <1>3, <3>1, <4>1 DEF Context
    <3>5. Seen(j, p, c)'
      <4>1. IsOf(j, p, c)' /\ kv.cells[c].tokens = Context(from[j], p)
        BY <3>2, <3>3 DEF Seen
      <4>2. kv'.cells[c].tokens = kv.cells[c].tokens
        BY <1>4, <2>1, <4>1 DEF IsOf
      <4> QED
        BY <3>4, <4>1, <4>2 DEF Seen
    <3> QED
      BY <3>2, <3>3, <3>5
  <2>3. \A j \in Live' : Len(dec'[j].tokens) = i' + 1
    BY <1>2, <1>3
  <2>4. \A c \in Cells(kv)' : kv'.cells[c].seq_id \subseteq Decoders
    BY <1>4, <2>1
  <2> QED
    BY <1>3, <2>2, <2>3, <2>4 DEF Contexts, Sampling
<1> QED
  BY <1>3, <1>5, <1>6 DEF Inv

(* The cache has a slot for a batch with a token of each decoder.          *)
LEMMA RoomForBatch ==
    ASSUME Inv, Sampling
    PROVE  /\ HasSlot(kv, Cardinality(Live)) /\ FindSlot(kv, Cardinality(Live)) <= Edge
           /\ Edge \in Nat /\ Cardinality(Live) \in Nat
           /\ Edge + Cardinality(Live) <= prompt + (i + 1) * kv_n_dec
           /\ prompt + (i + 1) * kv_n_dec \in Nat
<1> DEFINE n == Cardinality(Live)
           k == kv_n_dec
<1>1. /\ k \in 1 .. MaxDecoders /\ k \in Nat /\ i \in Nat /\ prompt \in Nat /\ i < NMax
      /\ NDecoders <= k /\ NDecoders \in Nat /\ prompt <= InitLen + MaxPrompt
  BY TypeParts, CallType, Sizes, SMTT(60) DEF Inv, Packed
<1>2. n \in Nat /\ n <= k
  BY <1>1, CallType DEF Inv
<1>3. CacheSize(k) \in Nat /\ InitLen + MaxPrompt + i * k + k <= CacheSize(k)
  BY <1>1, CacheSizes
<1>4. i * k \in Nat /\ (i + 1) * k = i * k + k
  BY <1>1
<1>5. kv \in CacheType /\ kv.size = CacheSize(k) /\ kv.head <= Edge /\ \A c \in Cells(kv) : c < Edge
  BY DEF Inv, Packed
<1> HIDE DEF n, k
<1>6. Edge = prompt + i * k
  BY DEF Edge, k
<1>7. /\ Edge \in Nat /\ Edge + n <= CacheSize(k) /\ Edge + n <= prompt + (i + 1) * k
      /\ prompt + (i + 1) * k \in Nat
  BY <1>1, <1>2, <1>3, <1>4, <1>6, Sizes
<1>8. HasSlot(kv, n) /\ FindSlot(kv, n) <= Edge
  BY <1>2, <1>5, <1>7, SlotAtFront
<1> QED
  BY <1>2, <1>7, <1>8 DEF n, k

LEMMA InvDecode ==
    ASSUME Inv, Decode
    PROVE  Inv'
<1>1. CASE Return(-9)
  BY <1>1, InvReturn
<1>2. CASE ~Return(-9)
  <2> DEFINE n == Cardinality(Live)
             h == FindSlot(kv, n)
  <2>1. /\ pc = "decode" /\ kv' = Put(kv, Batch) /\ i' = i + 1
        /\ pc' = IF i + 1 < NMax THEN "sample" ELSE "rank"
        /\ UNCHANGED <<call, window, it, prompt, dec, best, silent, kv_n_dec, rc>>
    BY <1>2 DEF Decode
  <2>2. /\ HasSlot(kv, n) /\ h <= Edge /\ Edge \in Nat /\ n \in Nat
        /\ Edge + n <= prompt + (i + 1) * kv_n_dec /\ prompt + (i + 1) * kv_n_dec \in Nat
    BY <2>1, RoomForBatch DEF Sampling
  <2>3. /\ TypeOK /\ i \in Nat /\ prompt \in Nat /\ i < NMax /\ i \in 0 .. NMax /\ kv \in CacheType
    BY <2>1, TypeParts, Sizes DEF Inv, Packed, Sampling
  <2>4. /\ Batch \in Seq(CellType) /\ Len(Batch) = n
        /\ \A b \in 1 .. n :
              /\ InOrder(Live)[b] \in Live /\ Batch[b].pos = prompt + i
              /\ Batch[b].seq_id = {InOrder(Live)[b]}
              /\ Batch[b].tokens = dec[InOrder(Live)[b]].tokens
    BY <2>3, BatchCells
  <2>5. h \in Nat
    <3>1. h \in 0 .. kv.size - n
      BY <2>2, <2>3, SlotFound
    <3> QED
      BY <3>1
  <2>6. /\ kv' \in CacheType /\ kv'.size = kv.size /\ kv'.head = h
        /\ Cells(kv') = Cells(kv) \cup h .. h + n - 1
        /\ \A d \in Cells(kv) : d \notin h .. h + n - 1 /\ kv'.cells[d] = kv.cells[d]
        /\ \A b \in 1 .. n : h + b - 1 \in Cells(kv') /\ kv'.cells[h + b - 1] = Batch[b]
        /\ \A d \in Cells(kv') : d \in Cells(kv) \/ d - h + 1 \in 1 .. n
    BY <2>1, <2>2, <2>3, <2>4, PutCells, SMTT(60)
  <2> HIDE DEF h, n
  <2>7. Cells(kv)' = Cells(kv') /\ Live' = Live /\ NDecoders' = NDecoders
    BY <2>1 DEF Cells, Live, Current, NDecoders
  <2>8. \A d \in Cells(kv') : d \in Cells(kv) \/ \E b \in 1 .. n : d = h + b - 1
    <3>1. ASSUME NEW d \in Cells(kv'), d - h + 1 \in 1 .. n PROVE \E b \in 1 .. n : d = h + b - 1
      <4>1. d \in Nat
        BY <2>6, CacheParts
      <4>2. d = h + (d - h + 1) - 1
        BY <2>5, <4>1
      <4> QED
        BY <3>1, <4>2
    <3> QED
      BY <2>6, <3>1
  <2>9. TypeOK'
    <3>1. i' \in 0 .. NMax
      BY <2>1, <2>3, Sizes
    <3> QED
      BY <2>1, <2>3, <3>1, TypeParts, TypePartsNext DEF window
  <2>10. Timely' /\ Written'
    BY <2>1 DEF Inv, Timely, Written, Ordered, Behind, window
  <2>11. Packed'
    <3>1. Edge' = prompt + (i + 1) * kv_n_dec
      BY <2>1 DEF Edge
    <3>2. ASSUME NEW c \in Cells(kv') PROVE c < Edge' /\ kv'.cells[c].pos < prompt' + i'
      <4>1. CASE c \in Cells(kv)
        <5>1. c < Edge /\ kv.cells[c].pos < prompt + i /\ kv'.cells[c] = kv.cells[c] /\ c \in Nat
          BY <2>3, <2>6, <4>1, CacheParts DEF Inv, Packed
        <5>2. kv.cells[c].pos \in Nat
          BY <2>3, <4>1, CacheParts DEF CellType
        <5>3. c < Edge'
          BY <2>2, <3>1, <5>1
        <5> QED
          BY <2>1, <2>3, <5>1, <5>2, <5>3
      <4>2. CASE \E b \in 1 .. n : c = h + b - 1
        <5>1. PICK b \in 1 .. n : c = h + b - 1
          BY <4>2
        <5>2. kv'.cells[c].pos = prompt + i
          BY <2>4, <2>6, <5>1
        <5>3. c < Edge'
          BY <2>2, <2>5, <3>1, <5>1
        <5> QED
          BY <2>1, <2>3, <5>2, <5>3
      <4> QED
        BY <2>8, <4>1, <4>2
    <3>3. kv'.head <= Edge'
      BY <2>2, <2>5, <2>6, <3>1
    <3> QED
      BY <2>1, <2>6, <2>7, <3>2, <3>3 DEF Inv, Packed, Sampling
  <2>12. Contexts'
    <3>1. /\ \A c \in Cells(kv) : kv.cells[c].seq_id \subseteq Decoders
          /\ \A j \in Live : Len(dec[j].tokens) = i + 1
          /\ \A j \in Live : \A p \in 0 .. prompt + i - 1 :
                \E c : Seen(j, p, c) /\ \A e : IsOf(j, p, e) => e = c
      BY <2>1 DEF Inv, Contexts, Sampling
    <3>2. \A c \in Cells(kv') : kv'.cells[c].seq_id \subseteq Decoders
      <4>1. Live \subseteq Decoders
        BY <2>3, CallType
      <4> QED
        BY <2>4, <2>6, <2>8, <3>1, <4>1
    <3>3. ASSUME NEW j \in Live', NEW p \in 0 .. prompt' + i' - 1
          PROVE  \E c : Seen(j, p, c)' /\ \A e : IsOf(j, p, e)' => e = c
      <4>1. j \in Live /\ Context(j, p)' = Context(j, p)
        BY <2>1, <2>7 DEF Context
      <4>2. p \in 0 .. prompt + i - 1 \/ p = prompt + i
        BY <2>1, <2>3
      <4>3. CASE p \in 0 .. prompt + i - 1
        <5>1. PICK c : Seen(j, p, c) /\ \A e : IsOf(j, p, e) => e = c
          BY <3>1, <4>1, <4>3
        <5>2. \A e : IsOf(j, p, e)' <=> IsOf(j, p, e)
          <6>1. ASSUME NEW e, IsOf(j, p, e) PROVE IsOf(j, p, e)'
            BY <2>6, <2>7, <6>1 DEF IsOf
          <6>2. ASSUME NEW e, IsOf(j, p, e)' PROVE IsOf(j, p, e)
            <7>1. e \in Cells(kv') /\ j \in kv'.cells[e].seq_id /\ kv'.cells[e].pos = p
              BY <2>7, <6>2 DEF IsOf
            <7>2. e \in Cells(kv)
              <8>1. ASSUME NEW b \in 1 .. n, e = h + b - 1 PROVE FALSE
                <9>1. kv'.cells[e].pos = prompt + i
                  BY <2>4, <2>6, <8>1
                <9> QED
                  BY <2>3, <4>3, <7>1, <9>1
              <8> QED
                BY <2>8, <7>1, <8>1
            <7> QED
              BY <2>6, <7>1, <7>2 DEF IsOf
          <6> QED
            BY <6>1, <6>2
        <5>3. Seen(j, p, c)'
          <6>1. IsOf(j, p, c)' /\ c \in Cells(kv) /\ kv.cells[c].tokens = Context(j, p)
            BY <5>1, <5>2 DEF Seen, IsOf
          <6> QED
            BY <2>6, <4>1, <6>1 DEF Seen
        <5> QED
          BY <5>1, <5>2, <5>3
      <4>4. CASE p = prompt + i
        <5>1. /\ IsFiniteSet(Live) /\ Live \in SUBSET Nat
          BY <2>3, CallType
        <5>2. PICK b \in 1 .. n :
                 InOrder(Live)[b] = j /\ \A a \in 1 .. n : InOrder(Live)[a] = j => a = b
          BY <4>1, <5>1, Listed DEF n
        <5>3. PICK c : c = h + b - 1 /\ c \in Cells(kv') /\ kv'.cells[c] = Batch[b]
          BY <2>6
        <5>4. IsOf(j, p, c)'
          BY <2>4, <2>7, <4>4, <5>2, <5>3 DEF IsOf
        <5>5. Context(j, p) = dec[j].tokens
          <6>1. j \in Decoders /\ dec[j].tokens \in Seq(Tokens)
            BY <2>3, <4>1, CallType, TypeParts DEF DecoderType
          <6>2. Len(dec[j].tokens) = i + 1 /\ ~(p < prompt) /\ p - prompt + 1 = i + 1
            BY <2>3, <3>1, <4>1, <4>4
          <6>3. Context(j, p) = SubSeq(dec[j].tokens, 1, Len(dec[j].tokens))
            BY <6>2 DEF Context
          <6> QED
            BY <6>1, <6>3, SubSeqFull
        <5>6. Seen(j, p, c)'
          BY <2>4, <4>1, <5>2, <5>3, <5>4, <5>5 DEF Seen
        <5>7. ASSUME NEW e, IsOf(j, p, e)' PROVE e = c
          <6>1. e \in Cells(kv') /\ j \in kv'.cells[e].seq_id /\ kv'.cells[e].pos = prompt + i
            BY <2>7, <4>4, <5>7 DEF IsOf
          <6>2. e \notin Cells(kv)
            <7>1. ASSUME e \in Cells(kv) PROVE FALSE
              <8>1. kv'.cells[e] = kv.cells[e] /\ kv.cells[e].pos < prompt + i
                BY <2>6, <7>1 DEF Inv, Packed
              <8>2. kv.cells[e].pos \in Nat
                BY <2>3, <7>1, CacheParts DEF CellType
              <8> QED
                BY <2>3, <6>1, <8>1, <8>2
            <7> QED
              BY <7>1
          <6>3. PICK a \in 1 .. n : e = h + a - 1
            BY <2>8, <6>1, <6>2
          <6>4. InOrder(Live)[a] = j
            BY <2>4, <2>6, <6>1, <6>3
          <6> QED
            BY <5>2, <5>3, <6>3, <6>4
        <5> QED
          BY <5>6, <5>7
      <4> QED
        BY <4>2, <4>3, <4>4
    <3>4. \A j \in Live' : Len(dec'[j].tokens) = i'
      BY <2>1, <2>7, <3>1
    <3>5. pc' # "decode"
      BY <2>1
    <3> QED
      BY <2>7, <3>2, <3>3, <3>4, <3>5 DEF Contexts
  <2> QED
    BY <2>9, <2>10, <2>11, <2>12 DEF Inv
<1> QED
  BY <1>1, <1>2

LEMMA TruncatedDecoder ==
    ASSUME NEW d \in DecoderType, d.result_len <= Len(d.tokens),
           InTime(d.tokens, d.has_ts, d.seek_delta), NEW f \in BOOLEAN,
           NEW e, e = [Truncated(d) EXCEPT !.failed = f]
    PROVE  e \in DecoderType /\ e.result_len <= Len(e.tokens)
           /\ InTime(e.tokens, e.has_ts, e.seek_delta)
<1> DEFINE s == SubSeq(d.tokens, 1, d.result_len)
<1>1. d.tokens \in Seq(Tokens) /\ d.result_len \in Nat /\ DOMAIN d.tokens = 1 .. Len(d.tokens)
  BY DEF DecoderType
<1>2. /\ s \in Seq(Tokens) /\ Len(s) = d.result_len /\ DOMAIN s = 1 .. d.result_len
      /\ \A a \in 1 .. d.result_len : s[a] = d.tokens[a] /\ a \in DOMAIN d.tokens
  BY <1>1
<1>3. Truncated(d) = [d EXCEPT !.tokens = s]
  BY DEF Truncated
<1> HIDE DEF s
<1>4. /\ Truncated(d) \in DecoderType /\ Truncated(d).tokens = s
      /\ Truncated(d).result_len = d.result_len /\ Truncated(d).has_ts = d.has_ts
      /\ Truncated(d).seek_delta = d.seek_delta
  BY <1>2, <1>3 DEF DecoderType
<1>5. /\ e \in DecoderType /\ e.tokens = s /\ e.result_len = d.result_len
      /\ e.has_ts = d.has_ts /\ e.seek_delta = d.seek_delta
  BY <1>4 DEF DecoderType
<1>6. InTime(s, d.has_ts, d.seek_delta)
  BY <1>2 DEF InTime
<1> QED
  BY <1>1, <1>2, <1>5, <1>6

LEMMA InvRank ==
    ASSUME Inv, Rank
    PROVE  Inv'
<1> DEFINE scored == {j \in Current : ~dec[j].failed}
           long == {j \in scored : dec[j].result_len > EntropyLen}
<1>1. pc = "rank" /\ UNCHANGED <<call, window, i, prompt, memory, rc>>
  BY DEF Rank
<1> DEFINE Chosen(b, fails, low, quiet) ==
        /\ dec' = [j \in Decoders |->
                     IF j \in scored
                     THEN [Truncated(dec[j]) EXCEPT !.failed = j \in fails]
                     ELSE dec[j]]
        /\ best' = b
        /\ \/ it < Temperatures /\ pc' = "temperature" /\ it' = it + 1 /\ UNCHANGED silent
           \/ pc' = "output" /\ silent' = (low /\ quiet) /\ UNCHANGED it
<1>2. PICK fails \in SUBSET long, low \in BOOLEAN, quiet \in BOOLEAN :
         \E x \in IF scored = fails THEN {best} ELSE scored \ fails :
             Chosen(x, fails, low, quiet)
  <2> DEFINE As(x, fails, low, quiet) ==
        LET failed == dec[x].failed \/ x \in fails
        IN  /\ dec[x].failed => low
            /\ dec' = [j \in Decoders |->
                         IF j \in scored
                         THEN [Truncated(dec[j]) EXCEPT !.failed = j \in fails]
                         ELSE dec[j]]
            /\ best' = x
            /\ IF it < Temperatures /\ (failed \/ (low /\ ~quiet))
               THEN pc' = "temperature" /\ it' = it + 1 /\ UNCHANGED silent
               ELSE pc' = "output" /\ silent' = (low /\ quiet) /\ UNCHANGED it
  <2>1. \E fails \in SUBSET long, low \in BOOLEAN, quiet \in BOOLEAN :
           \E x \in IF scored = fails THEN {best} ELSE scored \ fails :
               As(x, fails, low, quiet)
    BY Zenon DEF Rank
  <2>2. ASSUME NEW fails, NEW low, NEW quiet, NEW x, As(x, fails, low, quiet)
        PROVE  Chosen(x, fails, low, quiet)
    BY <2>2
  <2> HIDE DEF Chosen, As
  <2> QED
    BY <2>1, <2>2
<1>3. PICK b \in IF scored = fails THEN {best} ELSE scored \ fails :
         Chosen(b, fails, low, quiet)
  BY <1>2
<1>4. /\ dec \in [Decoders -> DecoderType] /\ best \in Decoders /\ Current \subseteq Decoders
      /\ \A j \in Decoders : dec[j].result_len <= Len(dec[j].tokens)
      /\ \A j \in Decoders : InTime(dec[j].tokens, dec[j].has_ts, dec[j].seek_delta)
  BY TypeParts, CallType DEF Inv, Timely
<1>5. \A j \in Decoders : /\ dec'[j] \in DecoderType
                          /\ dec'[j].result_len <= Len(dec'[j].tokens)
                          /\ InTime(dec'[j].tokens, dec'[j].has_ts, dec'[j].seek_delta)
  <2>1. ASSUME NEW j \in Decoders, j \in scored
        PROVE  /\ dec'[j] \in DecoderType
               /\ dec'[j].result_len <= Len(dec'[j].tokens)
               /\ InTime(dec'[j].tokens, dec'[j].has_ts, dec'[j].seek_delta)
    <3>1. dec'[j] = [Truncated(dec[j]) EXCEPT !.failed = j \in fails] /\ (j \in fails) \in BOOLEAN
      BY <1>3, <2>1
    <3> QED
      BY <1>4, <3>1, TruncatedDecoder
  <2>2. \A j \in Decoders : j \notin scored => dec'[j] = dec[j]
    BY <1>3
  <2> HIDE DEF scored
  <2> QED
    BY <1>4, <2>1, <2>2
<1>6. dec' \in [Decoders -> DecoderType]
  <2>1. DOMAIN dec' = Decoders /\ dec' = [j \in Decoders |-> dec'[j]]
    BY <1>3
  <2> QED
    BY <1>5, <2>1
<1>7. /\ best' \in Decoders /\ pc' \in {"temperature", "output"}
      /\ it' \in 1 .. Temperatures /\ silent' \in BOOLEAN
  <2>1. b \in Decoders
    <3>1. scored \subseteq Decoders
      BY <1>4
    <3> HIDE DEF scored, long
    <3> QED
      BY <1>4, <3>1
  <2>2. it \in 1 .. Temperatures /\ silent \in BOOLEAN /\ Temperatures \in Nat
    BY TypeParts, WhisperFullAssumption DEF Inv
  <2> HIDE DEF scored, long
  <2> QED
    BY <1>3, <2>1, <2>2
<1>8. TypeOK'
  BY <1>1, <1>5, <1>6, <1>7, TypeParts, TypePartsNext DEF Inv, window, memory
<1>9. ~Sampling'
  BY <1>7 DEF Sampling
<1>10. Packed' /\ Contexts' /\ Timely'
  BY <1>1, <1>5, <1>9 DEF Inv, Packed, Contexts, Timely, memory, Edge, Cells
<1>11. Written'
  BY <1>1, <1>7 DEF Inv, Written, Ordered, Behind, window
<1> QED
  BY <1>8, <1>10, <1>11 DEF Inv

LEMMA OrderedConcat ==
    ASSUME NEW s \in Seq(SegmentType), NEW t \in Seq(SegmentType), Ordered(s), Ordered(t),
           NEW m \in Nat, \A a \in DOMAIN s : s[a].end <= m, \A a \in DOMAIN t : m <= t[a].end
    PROVE  Ordered(s \o t)
<1> DEFINE u == s \o t
           n == Len(s)
<1>1. /\ n \in Nat /\ Len(t) \in Nat /\ DOMAIN s = 1 .. n /\ DOMAIN t = 1 .. Len(t)
      /\ DOMAIN u = 1 .. n + Len(t)
      /\ \A a \in 1 .. n : u[a] = s[a]
      /\ \A a \in n + 1 .. n + Len(t) : u[a] = t[a - n] /\ a - n \in 1 .. Len(t)
      /\ \A a \in 1 .. n : s[a] \in SegmentType
      /\ \A a \in 1 .. Len(t) : t[a] \in SegmentType
  OBVIOUS
<1> HIDE DEF u, n
<1>2. ASSUME NEW a \in DOMAIN u, NEW b \in DOMAIN u, a < b
      PROVE  u[a].end <= u[b].end
  <2>1. CASE b \in 1 .. n
    <3>1. a \in 1 .. n
      BY <1>1, <1>2, <2>1
    <3> QED
      BY <1>1, <1>2, <2>1, <3>1 DEF Ordered
  <2>2. CASE a \in n + 1 .. n + Len(t)
    <3>1. b \in n + 1 .. n + Len(t) /\ a - n < b - n
      BY <1>1, <1>2, <2>2
    <3>2. a - n \in DOMAIN t /\ b - n \in DOMAIN t
      BY <1>1, <2>2, <3>1
    <3>3. t[a - n].end <= t[b - n].end
      BY <3>1, <3>2 DEF Ordered
    <3> QED
      BY <1>1, <2>2, <3>1, <3>3
  <2>3. CASE a \in 1 .. n /\ b \in n + 1 .. n + Len(t)
    <3>1. s[a].end <= m /\ m <= t[b - n].end /\ u[a] = s[a] /\ u[b] = t[b - n]
      BY <1>1, <2>3
    <3>2. s[a].end \in Nat /\ t[b - n].end \in Nat
      BY <1>1, <2>3 DEF SegmentType
    <3> QED
      BY <3>1, <3>2, SMTT(60)
  <2> QED
    BY <1>1, <1>2, <2>1, <2>2, <2>3
<1> QED
  BY <1>2 DEF Ordered, u

(* What is written out, and how far the call moves on.                     *)
LEMMA OutputHolds ==
    ASSUME Inv, Output
    PROVE  LET d == dec[best]
               new == IF silent THEN <<>> ELSE Segments(d)
           IN  /\ result_all' = result_all \o new /\ new \in Seq(SegmentType)
               /\ Words(new) = (IF silent THEN 0 ELSE TextLen(d.tokens))
               /\ Ordered(result_all') /\ seek' \in Nat
               /\ Behind' \/ call.seek_end <= seek'
<1> DEFINE d == dec[best]
           new == IF silent THEN <<>> ELSE Segments(d)
<1>1. /\ d \in DecoderType /\ InTime(d.tokens, d.has_ts, d.seek_delta) /\ seek \in Nat
      /\ result_all \in Seq(SegmentType) /\ call.seek_end \in Nat
      /\ d.seek_delta \in 1 .. Chunk /\ Chunk \in Nat
  BY TypeParts, CallType, Sizes DEF Inv, Timely, DecoderType
<1>2. /\ pc = "output" /\ seek' = seek + Step(d)
      /\ result_all' = IF silent THEN result_all ELSE result_all \o Segments(d)
  BY DEF Output
<1>3. Ordered(result_all) /\ Behind /\ seek < call.seek_end
  BY <1>2 DEF Inv, Written
<1>4. /\ Segments(d) \in Seq(SegmentType) /\ Ordered(Segments(d))
      /\ \A a \in DOMAIN Segments(d) :
            seek <= Segments(d)[a].end /\ Segments(d)[a].end <= seek + d.seek_delta
      /\ Words(Segments(d)) = TextLen(d.tokens)
  BY <1>1, SegmentsHold
<1> HIDE DEF d
<1>5. Words(<<>>) = 0
  <2>1. <<>> \in Seq(SegmentType) /\ Len(<<>>) = 0
    OBVIOUS
  <2> QED
    BY <2>1, Adder
<1>6. /\ new \in Seq(SegmentType) /\ Ordered(new)
      /\ \A a \in DOMAIN new : seek <= new[a].end /\ new[a].end <= seek + d.seek_delta
      /\ Words(new) = (IF silent THEN 0 ELSE TextLen(d.tokens))
  <2>1. CASE silent
    <3>1. <<>> \in Seq(SegmentType) /\ DOMAIN <<>> = {}
      OBVIOUS
    <3> QED
      BY <1>5, <2>1, <3>1 DEF Ordered
  <2>2. CASE ~silent
    BY <1>4, <2>2
  <2> QED
    BY <2>1, <2>2
<1>7. result_all' = result_all \o new
  <2>1. result_all \o <<>> = result_all
    BY <1>1
  <2> QED
    BY <1>2, <2>1
<1> HIDE DEF new
<1>8. Ordered(result_all')
  <2>1. \A a \in DOMAIN result_all : result_all[a].end <= seek
    BY <1>3 DEF Behind
  <2> QED
    BY <1>1, <1>3, <1>6, <1>7, <2>1, OrderedConcat
<1>9. /\ Step(d) \in Nat /\ (seek + d.seek_delta <= seek' \/ call.seek_end <= seek')
      /\ seek' \in Nat /\ seek <= seek'
  <2>1. CASE SingleTimestampEnding(d.tokens)
    <3> DEFINE r == call.seek_end - seek
    <3>1. r \in Int /\ r > 0
      BY <1>1, <1>3
    <3>2. Step(d) = IF r <= Chunk THEN r ELSE Chunk
      BY <1>1, <2>1, <3>1, SmallerOf, SMTT(60) DEF Step
    <3> QED
      BY <1>1, <1>2, <1>3, <3>1, <3>2, SMTT(60)
  <2>2. CASE ~SingleTimestampEnding(d.tokens)
    <3>1. Step(d) = d.seek_delta
      BY <2>2 DEF Step
    <3> QED
      BY <1>1, <1>2, <3>1, SMTT(60)
  <2> QED
    BY <2>1, <2>2
<1>10. Behind' \/ call.seek_end <= seek'
  <2>1. ASSUME seek + d.seek_delta <= seek' PROVE Behind'
    <3>1. ASSUME NEW a \in DOMAIN result_all' PROVE result_all'[a].end <= seek'
      <4>1. CASE a \in DOMAIN result_all
        <5>1. result_all'[a] = result_all[a] /\ result_all[a] \in SegmentType
          BY <1>1, <1>6, <1>7, <4>1
        <5>2. result_all[a].end <= seek /\ result_all[a].end \in Nat
          BY <1>3, <4>1, <5>1 DEF Behind, SegmentType
        <5> QED
          BY <1>1, <1>9, <5>1, <5>2
      <4>2. CASE a \notin DOMAIN result_all
        <5>1. PICK b \in DOMAIN new : result_all'[a] = new[b]
          <6>1. /\ a \in Len(result_all) + 1 .. Len(result_all) + Len(new)
                /\ Len(result_all) \in Nat /\ Len(new) \in Nat
            BY <1>1, <1>6, <1>7, <3>1, <4>2
          <6>2. a - Len(result_all) \in DOMAIN new /\ result_all'[a] = new[a - Len(result_all)]
            BY <1>1, <1>6, <1>7, <6>1
          <6> QED
            BY <6>2
        <5>2. new[b].end <= seek + d.seek_delta /\ new[b].end \in Nat
          <6>1. new[b] \in SegmentType
            BY <1>6
          <6> QED
            BY <1>6, <6>1 DEF SegmentType
        <5> QED
          BY <1>1, <1>9, <2>1, <5>1, <5>2
      <4> QED
        BY <4>1, <4>2
    <3> QED
      BY <3>1 DEF Behind
  <2> QED
    BY <1>9, <2>1
<1> QED
  BY <1>6, <1>7, <1>8, <1>9, <1>10 DEF new, d

LEMMA InvOutput ==
    ASSUME Inv, Output
    PROVE  Inv'
<1>1. /\ pc = "output" /\ pc' = "window" /\ NoAttempt /\ kv' = Clear(kv)
      /\ UNCHANGED <<call, kv_n_dec, rc>>
  BY DEF Output
<1>2. past' \in Nat
  <2>1. /\ prompt \in Nat /\ InitLen \in Nat /\ dec[best].result_len \in Nat
    BY TypeParts, Sizes DEF Inv, DecoderType
  <2>2. past' = (IF prompt > InitLen THEN prompt - InitLen - 1 ELSE 0)
                + (IF silent THEN 0 ELSE dec[best].result_len)
    BY DEF Output
  <2> QED
    BY <2>1, <2>2
<1>3. /\ Ordered(result_all') /\ seek' \in Nat /\ result_all' \in Seq(SegmentType)
      /\ Behind' \/ call.seek_end <= seek'
  <2> DEFINE new == IF silent THEN <<>> ELSE Segments(dec[best])
  <2>1. /\ result_all' = result_all \o new /\ new \in Seq(SegmentType)
        /\ Ordered(result_all') /\ seek' \in Nat
        /\ Behind' \/ call.seek_end <= seek'
    BY OutputHolds
  <2>2. result_all \in Seq(SegmentType)
    BY TypeParts DEF Inv
  <2> HIDE DEF new
  <2> QED
    BY <2>1, <2>2
<1>4. TypeOK' /\ Timely'
  BY <1>1, <1>2, <1>3, AllFresh, TypeParts, TypePartsNext DEF Inv
<1>5. Packed' /\ Contexts'
  <2>1. /\ kv' \in CacheType /\ Cells(kv') = {} /\ kv'.head = 0
        /\ kv'.size = CacheSize(kv_n_dec') /\ kv_n_dec' \in 1 .. MaxDecoders
    BY <1>1, CacheIsType DEF Inv
  <2>2. prompt' \in Nat /\ i' \in Nat /\ prompt' <= InitLen + MaxPrompt /\ ~Sampling'
    BY <1>1, AllFresh, Sizes DEF Sampling
  <2> QED
    BY <2>1, <2>2, NothingPacked
<1>6. Written'
  <2>1. Ordered(result_all)'
    BY <1>3 DEF Ordered
  <2> QED
    BY <1>1, <1>3, <2>1 DEF Written
<1> QED
  BY <1>4, <1>5, <1>6 DEF Inv

LEMMA InvNext == Inv /\ [Next]_vars => Inv'
<1> SUFFICES ASSUME Inv, [Next]_vars PROVE Inv'
  OBVIOUS
<1>1. CASE UNCHANGED vars
  BY <1>1, InvIdle
<1>2. CASE EndOfAudio
  BY <1>2, InvReturn DEF EndOfAudio
<1>3. ASSUME NEW c \in Calls, Full(c) PROVE Inv'
  BY <1>3, InvFull
<1> QED
  BY <1>1, <1>2, <1>3, InvEncode, InvStartTemperature, InvSampleGreedy, InvSampleBeam,
     InvDecode, InvRank, InvOutput DEF Next, Work

-----------------------------------------------------------------------------
(* The theorems.                                                           *)

(* All that is said above of the call, its decoders and its cache.         *)
THEOREM Invariance == Spec => []Inv
BY InvInit, InvNext, PTL DEF Spec

(* The variables keep their types, and no decoder's result is longer than  *)
(* what it has sampled.                                                    *)
THEOREM TypeCorrect == Spec => []TypeOK
<1>1. Inv => TypeOK
  BY DEF Inv
<1> QED
  BY <1>1, Invariance, PTL

(* A decoder attends to its own context: the prompt and its own tokens,    *)
(* one cell for each position, however often beam search has moved the     *)
(* decoders' parts of the cache about.                                     *)
THEOREM ContextIsOwn == Spec => []OwnContext
<1>1. ASSUME Inv PROVE OwnContext
  <2> SUFFICES ASSUME pc = "sample", NEW j \in Live, NEW p \in 0 .. prompt + i - 1
               PROVE  LET seen == Visible(kv, j, prompt + i - 1)
                          At == {c \in seen : kv.cells[c].pos = p}
                      IN  /\ Cardinality(At) = 1
                          /\ \A c \in At : kv.cells[c].tokens
                                 = SubSeq(dec[j].tokens, 1, IF p < prompt THEN 0 ELSE p - prompt + 1)
    BY DEF OwnContext
  <2> DEFINE At == {c \in Visible(kv, j, prompt + i - 1) : kv.cells[c].pos = p}
  <2>1. PICK c : Seen(j, p, c) /\ \A e : IsOf(j, p, e) => e = c
    BY <1>1 DEF Inv, Contexts, Sampling
  <2>2. p <= prompt + i - 1
    BY <1>1, TypeParts, Sizes DEF Inv
  <2>3. \A e : e \in At <=> IsOf(j, p, e)
    BY <2>2 DEF Visible, IsOf
  <2>4. At = {c}
    <3> HIDE DEF At
    <3> QED
      BY <2>1, <2>3 DEF Seen
  <2>5. kv.cells[c].tokens = SubSeq(dec[j].tokens, 1, IF p < prompt THEN 0 ELSE p - prompt + 1)
    BY <2>1 DEF Seen, Context
  <2> HIDE DEF At
  <2>6. Cardinality(At) = 1
    BY <2>4, FS_Singleton
  <2> QED
    BY <2>4, <2>5, <2>6 DEF At
<1> QED
  BY <1>1, Invariance, PTL

(* The cache always has room for the next tokens, and no position is       *)
(* beyond the model's.                                                     *)
THEOREM CacheHasRoom == Spec => []CacheRoom
<1>1. ASSUME Inv PROVE CacheRoom
  <2>1. pc = "decode" => HasSlot(kv, Cardinality(Live))
    BY <1>1, RoomForBatch DEF Sampling
  <2>2. pc = "temperature" => HasSlot(Clear(kv), PromptLen)
    <3>1. /\ Clear(kv) \in CacheType /\ Clear(kv).size = CacheSize(kv_n_dec)
          /\ Clear(kv).head = 0 /\ Cells(Clear(kv)) = {} /\ kv_n_dec \in 1 .. MaxDecoders
      BY <1>1, CacheIsType DEF Inv
    <3>2. /\ PromptLen \in Nat /\ 0 + PromptLen <= CacheSize(kv_n_dec)
      <4>1. PromptLen \in Nat /\ PromptLen <= InitLen + MaxPrompt
        BY <1>1, PromptFits DEF Inv
      <4>2. CacheSize(kv_n_dec) \in Nat /\ InitLen + MaxPrompt <= CacheSize(kv_n_dec)
        BY <3>1, CacheSizes
      <4> QED
        BY <4>1, <4>2, Sizes
    <3> QED
      BY <3>1, <3>2, SlotAtFront
  <2>3. ASSUME NEW cell \in InUse(kv) PROVE cell.pos < TextCtx
    <3>1. PICK c \in Cells(kv) : cell = kv.cells[c]
      BY DEF InUse
    <3>2. cell.pos < prompt + i /\ prompt <= InitLen + MaxPrompt
      BY <1>1, <3>1 DEF Inv, Packed
    <3>3. cell.pos \in Nat
      BY <1>1, <3>1, CacheParts DEF Inv, Packed, CellType
    <3>4. i \in Nat /\ i <= NMax /\ prompt \in Nat
      BY <1>1, TypeParts, Sizes DEF Inv
    <3> QED
      BY <3>2, <3>3, <3>4, Sizes
  <2> QED
    BY <2>1, <2>2, <2>3 DEF CacheRoom
<1> QED
  BY <1>1, Invariance, PTL

(* Nothing of a result is lost, and the segments of a call are in order of *)
(* time.                                                                   *)
THEOREM TranscriptOnlyGrows == Spec => TranscriptGrows
<1> DEFINE Grows ==
        pc = "output" =>
          /\ IsPrefix(result_all, result_all')
          /\ \A a, b \in DOMAIN result_all' :
                 a < b => result_all'[a].end <= result_all'[b].end
          /\ Words(result_all') = Words(result_all)
                 + (IF silent THEN 0 ELSE TextLen(dec[best].tokens))
<1>1. ASSUME Inv, Next, pc = "output" PROVE Grows
  <2>1. Output
    BY <1>1 DEF Next, Work, Full, EndOfAudio, Encode, StartTemperature, SampleGreedy,
                SampleBeam, Decode, Rank
  <2> DEFINE new == IF silent THEN <<>> ELSE Segments(dec[best])
  <2>2. /\ result_all' = result_all \o new /\ new \in Seq(SegmentType)
        /\ Words(new) = (IF silent THEN 0 ELSE TextLen(dec[best].tokens))
        /\ Ordered(result_all')
    BY <1>1, <2>1, OutputHolds
  <2>3. result_all \in Seq(SegmentType)
    BY <1>1, TypeParts DEF Inv
  <2> HIDE DEF new
  <2>4. Words(result_all') = Words(result_all)
            + (IF silent THEN 0 ELSE TextLen(dec[best].tokens))
    BY <2>2, <2>3, WordsConcat
  <2>5. IsPrefix(result_all, result_all')
    <3>1. Len(result_all) \in Nat /\ Len(result_all) <= Len(result_all')
      BY <2>2, <2>3
    <3>2. SubSeq(result_all', 1, Len(result_all)) = SubSeq(result_all, 1, Len(result_all))
      BY <2>2, <2>3
    <3> QED
      BY <3>1, <3>2 DEF IsPrefix
  <2> QED
    BY <2>2, <2>4, <2>5, SMTT(60) DEF Ordered
<1>2. Inv /\ [Next]_vars => [Grows]_vars
  BY <1>1
<1> QED
  BY <1>2, Invariance, PTL DEF Spec, TranscriptGrows
=============================================================================
