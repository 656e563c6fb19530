------------------------- MODULE IntakeNotesProofs -------------------------
(***************************************************************************)
(* Proofs about the notes: for texts, answers, checklists and cases of any *)
(* size. What the sequences hold is proved by induction, which the library *)
(* offers for operators only; here it is over the sets of natural numbers. *)
(***************************************************************************)
EXTENDS IntakeNotes, FiniteSetTheorems, SequenceTheorems, WellFoundedInduction, TLAPS

-----------------------------------------------------------------------------
(* The invariant.                                                          *)

(* A record without notes is blank, the screen shows the notes of the      *)
(* record, and whoever has notes has words enough for the next ones.       *)
RecordsAgree ==
    /\ \A c \in Consultations : saved[c].kind = "NULL" => saved[c] = NoResult
    /\ saved[current] = NotesOrNull(result)
    /\ \A c \in Consultations : HasNotes(saved[c]) => ~Insufficient(c)

(* What a record lists as missing is what the last usable pass left.       *)
Left(marks) == Mapped(LAMBDA item : item.label,
                      Where(checklist, LAMBDA item : ~Covered(item, marks)))

CoverageAgrees ==
    \A c \in Consultations :
        IF HasNotes(saved[c]) /\ coverage[c].reported
          THEN saved[c].missing = Left(coverage[c].marks)
          ELSE coverage[c] = NoCoverage

CoverageType ==
    coverage \in [Consultations -> [reported : BOOLEAN, marks : SUBSET Texts]]

Inv == TypeOK /\ CoverageType /\ RecordsAgree /\ VerifiedIsSpoken /\ CoverageAgrees

-----------------------------------------------------------------------------
(* Induction. A set of numbers has a least one, as the intervals that end  *)
(* in them have one that contains no other.                                *)
LEMMA LeastNumber ==
    ASSUME NEW T \in SUBSET Nat, T # {}
    PROVE  \E x \in T : \A y \in T : x <= y
<1> DEFINE Intervals == {0 .. x : x \in T}
<1>1. Intervals \subseteq FiniteSubsetsOf(Nat) /\ Intervals # {}
  <2>1. \A x \in T : IsFiniteSet(0 .. x) /\ 0 .. x \subseteq Nat
    BY FS_Interval
  <2> QED
    BY <2>1 DEF FiniteSubsetsOf
<1>2. IsWellFoundedOn(StrictSubsetOrdering(Nat), FiniteSubsetsOf(Nat))
  BY FS_StrictSubsetOrderingWellFounded
<1>3. PICK X \in Intervals : \A Y \in Intervals : ~(<<Y, X>> \in StrictSubsetOrdering(Nat))
  <2> HIDE DEF Intervals
  <2> QED
    BY <1>1, <1>2, WFMin
<1>4. PICK x \in T : X = 0 .. x
  OBVIOUS
<1>5. ASSUME NEW y \in T PROVE x <= y
  <2>1. ~(<<0 .. y, 0 .. x>> \in StrictSubsetOrdering(Nat))
    BY <1>3, <1>4
  <2>2. ~(0 .. y \subseteq 0 .. x /\ 0 .. y # 0 .. x)
    BY <2>1 DEF StrictSubsetOrdering
  <2> QED
    BY <2>2
<1> QED
  BY <1>5

LEMMA Induction ==
    ASSUME NEW S \in SUBSET Nat, 0 \in S, \A n \in S : n + 1 \in S
    PROVE  S = Nat
<1> SUFFICES ASSUME Nat \ S # {} PROVE FALSE
  OBVIOUS
<1>1. PICK x \in Nat \ S : \A y \in Nat \ S : x <= y
  BY LeastNumber
<1>2. x - 1 \in S
  BY <1>1
<1> QED
  BY <1>1, <1>2

-----------------------------------------------------------------------------
(* The elements at some positions of a sequence.                           *)

Picks(f, s, I) ==
    f = [n \in 0 .. Len(s) |->
            IF n = 0 THEN <<>>
            ELSE IF n \in I THEN Append(f[n - 1], s[n]) ELSE f[n - 1]]

LEMMA PicksStep ==
    ASSUME NEW s, NEW I, NEW f, Picks(f, s, I), Len(s) \in Nat
    PROVE  /\ f[0] = <<>>
           /\ \A n \in Nat : n < Len(s) =>
                  f[n + 1] = IF n + 1 \in I THEN Append(f[n], s[n + 1]) ELSE f[n]
<1>1. \A m \in 0 .. Len(s) : f[m] = IF m = 0 THEN <<>>
                                    ELSE IF m \in I THEN Append(f[m - 1], s[m]) ELSE f[m - 1]
  BY DEF Picks
<1>2. ASSUME NEW n \in Nat, n < Len(s)
      PROVE  f[n + 1] = IF n + 1 \in I THEN Append(f[n], s[n + 1]) ELSE f[n]
  <2>1. n + 1 \in 0 .. Len(s) /\ n + 1 # 0 /\ (n + 1) - 1 = n
    BY <1>2
  <2> QED
    BY <1>1, <2>1
<1> QED
  BY <1>1, <1>2

LEMMA PickerExists ==
    ASSUME NEW S, NEW s \in Seq(S), NEW I
    PROVE  \E f : Picks(f, s, I)
<1> DEFINE Partial(f, m) ==
        f = [n \in 0 .. m |-> IF n = 0 THEN <<>>
                              ELSE IF n \in I THEN Append(f[n - 1], s[n]) ELSE f[n - 1]]
           Good == {m \in Nat : \E f : Partial(f, m)}
<1>1. 0 \in Good
  <2>1. Partial([n \in 0 .. 0 |-> <<>>], 0)
    OBVIOUS
  <2> QED
    BY <2>1
<1>2. ASSUME NEW m \in Good PROVE m + 1 \in Good
  <2>1. PICK f : Partial(f, m)
    OBVIOUS
  <2> DEFINE next == IF m + 1 \in I THEN Append(f[m], s[m + 1]) ELSE f[m]
             g == [n \in 0 .. m + 1 |-> IF n = m + 1 THEN next ELSE f[n]]
  <2>2. Partial(g, m + 1)
    <3>1. \A n \in 0 .. m + 1 : g[n] = IF n = m + 1 THEN next ELSE f[n]
      OBVIOUS
    <3>2. \A n \in 0 .. m : f[n] = IF n = 0 THEN <<>>
                                   ELSE IF n \in I THEN Append(f[n - 1], s[n]) ELSE f[n - 1]
      BY <2>1
    <3>3. \A n \in 0 .. m + 1 : n # 0 => g[n - 1] = f[n - 1]
      BY <3>1
    <3>4. \A n \in 0 .. m + 1 : g[n] = IF n = 0 THEN <<>>
                                       ELSE IF n \in I THEN Append(g[n - 1], s[n]) ELSE g[n - 1]
      BY <3>1, <3>2, <3>3
    <3> QED
      BY <3>4
  <2> HIDE DEF g, Partial
  <2> QED
    BY <2>2
<1>3. Good = Nat
  <2> HIDE DEF Good
  <2> QED
    <3>1. Good \subseteq Nat
      BY DEF Good
    <3> QED
      BY <1>1, <1>2, <3>1, Induction
<1>4. Len(s) \in Nat
  OBVIOUS
<1>5. PICK f : Partial(f, Len(s))
  <2> HIDE DEF Partial
  <2> QED
    BY <1>3, <1>4
<1> QED
  BY <1>5 DEF Picks

LEMMA Picker ==
    ASSUME NEW S, NEW s \in Seq(S), NEW I
    PROVE  \E f : Picks(f, s, I) /\ Picked(s, I) = f[Len(s)]
<1> DEFINE f == CHOOSE f : Picks(f, s, I)
<1>1. Picks(f, s, I)
  BY PickerExists
<1>2. Picked(s, I) = f[Len(s)]
  BY DEF Picked, Picks
<1> QED
  BY <1>1, <1>2

(* What the recursion has picked does not depend on what is to come.       *)
LEMMA PicksAgree ==
    ASSUME NEW s, NEW I, NEW f, NEW t, NEW J, NEW g,
           Len(s) \in Nat, Len(t) \in Nat,
           Picks(f, s, I), Picks(g, t, J), NEW m \in Nat, m <= Len(s), m <= Len(t),
           \A i \in 1 .. m : s[i] = t[i] /\ (i \in I <=> i \in J)
    PROVE  f[m] = g[m]
<1> DEFINE Same == {n \in Nat : n <= m => f[n] = g[n]}
<1>1. 0 \in Same
  BY DEF Picks
<1>2. ASSUME NEW n \in Same PROVE n + 1 \in Same
  <2>1. CASE n + 1 <= m
    <3>1. f[n] = g[n] /\ s[n + 1] = t[n + 1] /\ (n + 1 \in I <=> n + 1 \in J)
      BY <2>1
    <3>2. f[n + 1] = IF n + 1 \in I THEN Append(f[n], s[n + 1]) ELSE f[n]
      BY <2>1, PicksStep
    <3>3. g[n + 1] = IF n + 1 \in J THEN Append(g[n], t[n + 1]) ELSE g[n]
      BY <2>1, PicksStep
    <3> QED
      BY <3>1, <3>2, <3>3
  <2> QED
    BY <2>1
<1>3. Same = Nat
  <2>1. Same \subseteq Nat
    OBVIOUS
  <2> HIDE DEF Same
  <2> QED
    BY <1>1, <1>2, <2>1, Induction
<1> QED
  BY <1>3

LEMMA PickedEmpty ==
    ASSUME NEW I
    PROVE  Picked(<<>>, I) = <<>>
<1>1. <<>> \in Seq({}) /\ Len(<<>>) = 0
  OBVIOUS
<1>2. PICK f : Picks(f, <<>>, I) /\ Picked(<<>>, I) = f[Len(<<>>)]
  BY <1>1, Picker
<1> QED
  BY <1>1, <1>2 DEF Picks

LEMMA PickedAppend ==
    ASSUME NEW S, NEW s \in Seq(S), NEW x \in S, NEW I, NEW J,
           \A i \in DOMAIN s : i \in I <=> i \in J
    PROVE  Picked(Append(s, x), I) =
               IF Len(s) + 1 \in I THEN Append(Picked(s, J), x) ELSE Picked(s, J)
<1> DEFINE t == Append(s, x)
<1>1. /\ t \in Seq(S) /\ Len(t) = Len(s) + 1 /\ t[Len(s) + 1] = x
      /\ Len(s) \in Nat /\ DOMAIN s = 1 .. Len(s)
      /\ \A i \in 1 .. Len(s) : t[i] = s[i]
  OBVIOUS
<1>2. PICK f : Picks(f, t, I) /\ Picked(t, I) = f[Len(t)]
  BY <1>1, Picker
<1>3. PICK g : Picks(g, s, J) /\ Picked(s, J) = g[Len(s)]
  BY Picker
<1> HIDE DEF t
<1>4. f[Len(s)] = g[Len(s)]
  BY <1>1, <1>2, <1>3, PicksAgree
<1>5. f[Len(s) + 1] = IF Len(s) + 1 \in I THEN Append(f[Len(s)], t[Len(s) + 1]) ELSE f[Len(s)]
  BY <1>1, <1>2, PicksStep
<1> QED
  BY <1>1, <1>2, <1>3, <1>4, <1>5 DEF t

(* Each element of what is picked comes from a position of its own, in the *)
(* order of the positions, and each position is taken.                     *)
ComesFrom(t, s, J) ==
    \E p \in [1 .. Len(t) -> J] :
        /\ \A k \in 1 .. Len(t) : t[k] = s[p[k]]
        /\ \A k, l \in 1 .. Len(t) : k < l => p[k] < p[l]
        /\ \A j \in J : \E k \in 1 .. Len(t) : p[k] = j

LEMMA PickedComesFrom ==
    ASSUME NEW S, NEW s \in Seq(S), NEW I
    PROVE  /\ Picked(s, I) \in Seq(S)
           /\ ComesFrom(Picked(s, I), s, I \cap DOMAIN s)
<1>1. PICK f : Picks(f, s, I) /\ Picked(s, I) = f[Len(s)]
  BY Picker
<1>2. Len(s) \in Nat /\ DOMAIN s = 1 .. Len(s)
  OBVIOUS
<1> DEFINE Fine == {n \in Nat : n <= Len(s) =>
                       f[n] \in Seq(S) /\ ComesFrom(f[n], s, I \cap 1 .. n)}
<1>3. 0 \in Fine
  <2>1. f[0] = <<>> /\ <<>> \in Seq(S) /\ Len(<<>>) = 0 /\ I \cap 1 .. 0 = {}
    BY <1>1, <1>2 DEF Picks
  <2>2. ComesFrom(<<>>, s, {})
    <3>1. [k \in {} |-> k] \in [1 .. 0 -> {}]
      OBVIOUS
    <3> QED
      BY <2>1, <3>1 DEF ComesFrom
  <2> QED
    BY <2>1, <2>2
<1>4. ASSUME NEW n \in Fine PROVE n + 1 \in Fine
  <2> SUFFICES ASSUME n + 1 <= Len(s)
               PROVE  f[n + 1] \in Seq(S) /\ ComesFrom(f[n + 1], s, I \cap 1 .. n + 1)
    OBVIOUS
  <2>1. n \in Nat /\ f[n] \in Seq(S) /\ ComesFrom(f[n], s, I \cap 1 .. n) /\ s[n + 1] \in S
    BY <1>2
  <2>2. f[n + 1] = IF n + 1 \in I THEN Append(f[n], s[n + 1]) ELSE f[n]
    BY <1>1, <1>2, <2>1, PicksStep
  <2>3. CASE n + 1 \notin I
    <3>1. I \cap 1 .. n + 1 = I \cap 1 .. n
      BY <2>1, <2>3
    <3> QED
      BY <2>1, <2>2, <2>3, <3>1
  <2>4. CASE n + 1 \in I
    <3> DEFINE t == f[n]
               u == Append(t, s[n + 1])
    <3>1. /\ u \in Seq(S) /\ Len(u) = Len(t) + 1 /\ u[Len(t) + 1] = s[n + 1] /\ Len(t) \in Nat
          /\ \A k \in 1 .. Len(t) : u[k] = t[k]
      BY <2>1
    <3>2. PICK p \in [1 .. Len(t) -> I \cap 1 .. n] :
              /\ \A k \in 1 .. Len(t) : t[k] = s[p[k]]
              /\ \A k, l \in 1 .. Len(t) : k < l => p[k] < p[l]
              /\ \A j \in I \cap 1 .. n : \E k \in 1 .. Len(t) : p[k] = j
      BY <2>1 DEF ComesFrom
    <3> HIDE DEF t, u
    <3> DEFINE q == [k \in 1 .. Len(u) |-> IF k = Len(u) THEN n + 1 ELSE p[k]]
    <3>3. /\ q[Len(u)] = n + 1
          /\ \A k \in 1 .. Len(t) : q[k] = p[k] /\ p[k] \in I /\ p[k] \in 1 .. n
          /\ \A k \in 1 .. Len(u) : k = Len(u) \/ k \in 1 .. Len(t)
      <4>1. /\ Len(u) \in 1 .. Len(u)
            /\ \A k \in 1 .. Len(t) : k \in 1 .. Len(u) /\ k # Len(u)
            /\ \A k \in 1 .. Len(u) : k = Len(u) \/ k \in 1 .. Len(t)
        BY <3>1
      <4>2. \A k \in 1 .. Len(t) : p[k] \in I /\ p[k] \in 1 .. n
        OBVIOUS
      <4> QED
        BY <4>1, <4>2
    <3>4. q \in [1 .. Len(u) -> I \cap 1 .. n + 1]
      BY <2>1, <2>4, <3>1, <3>3
    <3> HIDE DEF q
    <3>5. \A k \in 1 .. Len(u) : u[k] = s[q[k]]
      BY <3>1, <3>2, <3>3
    <3>6. ASSUME NEW k \in 1 .. Len(u), NEW l \in 1 .. Len(u), k < l
          PROVE  q[k] < q[l]
      <4>1. k \in 1 .. Len(t)
        BY <3>1, <3>6
      <4>2. CASE l = Len(u)
        BY <2>1, <3>3, <4>1, <4>2
      <4>3. CASE l \in 1 .. Len(t)
        BY <3>2, <3>3, <3>6, <4>1, <4>3, SMTT(60)
      <4> QED
        BY <3>3, <4>2, <4>3
    <3>7. \A j \in I \cap 1 .. n + 1 : \E k \in 1 .. Len(u) : q[k] = j
      <4>1. ASSUME NEW j \in I \cap 1 .. n + 1, j # n + 1
            PROVE  \E k \in 1 .. Len(u) : q[k] = j
        <5>1. j \in I \cap 1 .. n
          BY <2>1, <4>1
        <5>2. PICK k \in 1 .. Len(t) : p[k] = j
          BY <3>2, <5>1
        <5>3. k \in 1 .. Len(u) /\ q[k] = j
          BY <3>1, <3>3, <5>2
        <5> QED
          BY <5>3
      <4>2. Len(u) \in 1 .. Len(u)
        BY <3>1
      <4> QED
        BY <3>3, <4>1, <4>2
    <3>8. ComesFrom(u, s, I \cap 1 .. n + 1)
      BY <3>4, <3>5, <3>6, <3>7 DEF ComesFrom
    <3> QED
      BY <2>2, <2>4, <3>1, <3>8 DEF t, u
  <2> QED
    BY <2>3, <2>4
<1>5. Fine = Nat
  <2>1. Fine \subseteq Nat
    OBVIOUS
  <2> HIDE DEF Fine
  <2> QED
    BY <1>3, <1>4, <2>1, Induction
<1>6. Len(s) \in Fine
  BY <1>2, <1>5
<1> QED
  BY <1>1, <1>2, <1>6

-----------------------------------------------------------------------------
(* A sequence of sequences, one after the other.                           *)

Flattens(f, ss) ==
    f = [i \in 1 .. Len(ss) |-> IF i = 1 THEN ss[i] ELSE f[i - 1] \o ss[i]]

LEMMA FlattensStep ==
    ASSUME NEW ss, NEW f, Flattens(f, ss), Len(ss) \in Nat
    PROVE  /\ Len(ss) # 0 => f[1] = ss[1]
           /\ \A n \in Nat \ {0} : n < Len(ss) => f[n + 1] = f[n] \o ss[n + 1]
<1>1. \A m \in 1 .. Len(ss) : f[m] = IF m = 1 THEN ss[m] ELSE f[m - 1] \o ss[m]
  BY DEF Flattens
<1>2. ASSUME NEW n \in Nat \ {0}, n < Len(ss)
      PROVE  f[n + 1] = f[n] \o ss[n + 1]
  <2>1. n + 1 \in 1 .. Len(ss) /\ n + 1 # 1 /\ (n + 1) - 1 = n
    BY <1>2
  <2> QED
    BY <1>1, <2>1
<1>3. ASSUME Len(ss) # 0 PROVE f[1] = ss[1]
  BY <1>1, <1>3
<1> QED
  BY <1>2, <1>3

LEMMA FlattenerExists ==
    ASSUME NEW ss, Len(ss) \in Nat
    PROVE  \E f : Flattens(f, ss)
<1> DEFINE Partial(f, m) ==
        f = [i \in 1 .. m |-> IF i = 1 THEN ss[i] ELSE f[i - 1] \o ss[i]]
           Good == {m \in Nat : \E f : Partial(f, m)}
<1>1. 0 \in Good
  <2>1. Partial([i \in 1 .. 0 |-> <<>>], 0)
    OBVIOUS
  <2> QED
    BY <2>1
<1>2. ASSUME NEW m \in Good PROVE m + 1 \in Good
  <2>1. PICK f : Partial(f, m)
    OBVIOUS
  <2> DEFINE next == IF m = 0 THEN ss[1] ELSE f[m] \o ss[m + 1]
             g == [i \in 1 .. m + 1 |-> IF i = m + 1 THEN next ELSE f[i]]
  <2>2. Partial(g, m + 1)
    <3>1. \A i \in 1 .. m + 1 : g[i] = IF i = m + 1 THEN next ELSE f[i]
      OBVIOUS
    <3>2. \A i \in 1 .. m : f[i] = IF i = 1 THEN ss[i] ELSE f[i - 1] \o ss[i]
      BY <2>1
    <3>3. \A i \in 1 .. m + 1 : i # 1 => g[i - 1] = f[i - 1]
      BY <3>1
    <3>4. \A i \in 1 .. m + 1 : g[i] = IF i = 1 THEN ss[i] ELSE g[i - 1] \o ss[i]
      BY <3>1, <3>2, <3>3
    <3> QED
      BY <3>4, ZenonT(60)
  <2> HIDE DEF g, Partial
  <2> QED
    BY <2>2
<1>3. Good = Nat
  <2> HIDE DEF Good
  <2> QED
    <3>1. Good \subseteq Nat
      BY DEF Good
    <3> QED
      BY <1>1, <1>2, <3>1, Induction
<1>4. PICK f : Partial(f, Len(ss))
  <2> HIDE DEF Partial
  <2> QED
    BY <1>3
<1> QED
  BY <1>4 DEF Flattens

LEMMA Flattener ==
    ASSUME NEW ss, Len(ss) \in Nat \ {0}
    PROVE  \E f : Flattens(f, ss) /\ FlattenSeq(ss) = f[Len(ss)]
<1> DEFINE f == CHOOSE f : Flattens(f, ss)
<1>1. Flattens(f, ss)
  BY FlattenerExists
<1>2. FlattenSeq(ss) = f[Len(ss)]
  BY DEF FlattenSeq, Flattens
<1> QED
  BY <1>1, <1>2

LEMMA FlattensAgree ==
    ASSUME NEW ss, NEW tt, NEW f, NEW g, Flattens(f, ss), Flattens(g, tt),
           Len(ss) \in Nat, Len(tt) \in Nat,
           NEW m \in Nat \ {0}, m <= Len(ss), m <= Len(tt), \A i \in 1 .. m : ss[i] = tt[i]
    PROVE  f[m] = g[m]
<1> DEFINE Same == {n \in Nat : n + 1 <= m => f[n + 1] = g[n + 1]}
<1>1. 0 \in Same
  <2>1. Len(ss) # 0 /\ Len(tt) # 0 /\ 1 \in 1 .. m
    OBVIOUS
  <2>2. f[1] = ss[1]
    BY <2>1, FlattensStep
  <2>3. g[1] = tt[1]
    BY <2>1, FlattensStep
  <2> QED
    BY <2>1, <2>2, <2>3
<1>2. ASSUME NEW n \in Same PROVE n + 1 \in Same
  <2> SUFFICES ASSUME (n + 1) + 1 <= m PROVE f[(n + 1) + 1] = g[(n + 1) + 1]
    OBVIOUS
  <2>1. n + 1 \in Nat \ {0} /\ (n + 1) + 1 \in 1 .. m /\ n + 1 < Len(ss) /\ n + 1 < Len(tt)
    OBVIOUS
  <2>2. f[(n + 1) + 1] = f[n + 1] \o ss[(n + 1) + 1]
    BY <2>1, FlattensStep, ZenonT(60)
  <2>3. g[(n + 1) + 1] = g[n + 1] \o tt[(n + 1) + 1]
    BY <2>1, FlattensStep, ZenonT(60)
  <2>4. f[n + 1] = g[n + 1]
    BY <2>1
  <2> QED
    BY <2>1, <2>2, <2>3, <2>4
<1>3. Same = Nat
  <2>1. Same \subseteq Nat
    OBVIOUS
  <2> HIDE DEF Same
  <2> QED
    BY <1>1, <1>2, <2>1, Induction
<1>4. m - 1 \in Same
  <2> HIDE DEF Same
  <2> QED
    BY <1>3
<1> QED
  BY <1>4

LEMMA FlattenAppend ==
    ASSUME NEW S, NEW ss \in Seq(Seq(S)), NEW x \in Seq(S)
    PROVE  FlattenSeq(Append(ss, x)) = FlattenSeq(ss) \o x
<1> DEFINE tt == Append(ss, x)
<1>1. /\ Len(tt) = Len(ss) + 1 /\ tt[Len(ss) + 1] = x
      /\ Len(ss) \in Nat /\ \A i \in 1 .. Len(ss) : tt[i] = ss[i]
  OBVIOUS
<1> HIDE DEF tt
<1>2. PICK f : Flattens(f, tt) /\ FlattenSeq(tt) = f[Len(tt)]
  BY <1>1, Flattener
<1>3. CASE Len(ss) = 0
  <2>1. FlattenSeq(ss) = <<>>
    BY <1>3 DEF FlattenSeq
  <2>2. FlattenSeq(tt) = x
    <3>1. Len(tt) = 1 /\ Len(tt) \in Nat /\ Len(tt) # 0 /\ tt[1] = x
      BY <1>1, <1>3
    <3>2. f[1] = tt[1]
      BY <1>2, <3>1, FlattensStep
    <3> QED
      BY <1>2, <3>1, <3>2
  <2> QED
    BY <2>1, <2>2 DEF tt
<1>4. CASE Len(ss) # 0
  <2>1. PICK g : Flattens(g, ss) /\ FlattenSeq(ss) = g[Len(ss)]
    BY <1>1, <1>4, Flattener
  <2>2. Len(ss) \in Nat \ {0} /\ Len(tt) \in Nat /\ Len(ss) <= Len(ss) /\ Len(ss) < Len(tt)
        /\ Len(ss) <= Len(tt)
    BY <1>1, <1>4
  <2>3. f[Len(ss)] = g[Len(ss)]
    <3> HIDE <1>1
    <3>1. \A i \in 1 .. Len(ss) : tt[i] = ss[i]
      BY <1>1
    <3> QED
      BY <1>2, <2>1, <2>2, <3>1, FlattensAgree
  <2>4. f[Len(ss) + 1] = f[Len(ss)] \o tt[Len(ss) + 1]
    BY <1>2, <2>2, FlattensStep
  <2> QED
    BY <1>1, <1>2, <2>1, <2>3, <2>4 DEF tt
<1> QED
  BY <1>3, <1>4

LEMMA ConcatHolds ==
    ASSUME NEW S, NEW s \in Seq(S), NEW t \in Seq(S), NEW x
    PROVE  x \in ToSet(s \o t) <=> x \in ToSet(s) \/ x \in ToSet(t)
<1> DEFINE u == s \o t
<1>1. /\ Len(u) = Len(s) + Len(t) /\ Len(s) \in Nat /\ Len(t) \in Nat
      /\ DOMAIN s = 1 .. Len(s) /\ DOMAIN t = 1 .. Len(t) /\ DOMAIN u = 1 .. Len(u)
      /\ \A i \in 1 .. Len(u) : u[i] = IF i <= Len(s) THEN s[i] ELSE t[i - Len(s)]
  OBVIOUS
<1> HIDE DEF u
<1>2. ASSUME x \in ToSet(u) PROVE x \in ToSet(s) \/ x \in ToSet(t)
  <2>1. PICK i \in 1 .. Len(u) : x = u[i]
    BY <1>1, <1>2 DEF ToSet
  <2>2. i <= Len(s) => i \in 1 .. Len(s)
    OBVIOUS
  <2>3. ~(i <= Len(s)) => i - Len(s) \in 1 .. Len(t)
    BY <1>1
  <2> QED
    BY <1>1, <2>1, <2>2, <2>3 DEF ToSet
<1>3. ASSUME x \in ToSet(s) PROVE x \in ToSet(u)
  <2>1. PICK i \in 1 .. Len(s) : x = s[i]
    BY <1>1, <1>3 DEF ToSet
  <2>2. i \in 1 .. Len(u) /\ u[i] = s[i]
    BY <1>1
  <2> QED
    BY <1>1, <2>1, <2>2 DEF ToSet
<1>4. ASSUME x \in ToSet(t) PROVE x \in ToSet(u)
  <2>1. PICK i \in 1 .. Len(t) : x = t[i]
    BY <1>1, <1>4 DEF ToSet
  <2>2. i + Len(s) \in 1 .. Len(u) /\ u[i + Len(s)] = t[i]
    BY <1>1, SMTT(60)
  <2> QED
    BY <1>1, <2>1, <2>2 DEF ToSet
<1> QED
  BY <1>2, <1>3, <1>4 DEF u

(* It holds what the sequences hold, each in its order.                    *)
LEMMA FlattenHolds ==
    ASSUME NEW S, NEW ss \in Seq(Seq(S))
    PROVE  /\ FlattenSeq(ss) \in Seq(S)
           /\ \A x : x \in ToSet(FlattenSeq(ss)) <=> \E i \in 1 .. Len(ss) : x \in ToSet(ss[i])
<1> DEFINE Held(tt) ==
        /\ FlattenSeq(tt) \in Seq(S)
        /\ \A x : x \in ToSet(FlattenSeq(tt)) <=> \E i \in 1 .. Len(tt) : x \in ToSet(tt[i])
           Fine == {n \in Nat : \A tt \in Seq(Seq(S)) : Len(tt) = n => Held(tt)}
<1>1. 0 \in Fine
  <2> SUFFICES ASSUME NEW tt \in Seq(Seq(S)), Len(tt) = 0
               PROVE  Held(tt)
    OBVIOUS
  <2>1. FlattenSeq(tt) = <<>> /\ <<>> \in Seq(S) /\ 1 .. Len(tt) = {}
    BY DEF FlattenSeq
  <2>2. ToSet(<<>>) = {}
    BY DEF ToSet
  <2> QED
    BY <2>1, <2>2
<1>2. ASSUME NEW n \in Fine PROVE n + 1 \in Fine
  <2> SUFFICES ASSUME NEW tt \in Seq(Seq(S)), Len(tt) = n + 1
               PROVE  Held(tt)
    OBVIOUS
  <2>1. PICK uu \in Seq(Seq(S)), y \in Seq(S) : tt = Append(uu, y)
    <3>1. tt # <<>>
      OBVIOUS
    <3> QED
      BY <3>1, SequenceEmptyOrAppend
  <2>2. /\ Len(uu) = n /\ n \in Nat /\ tt[n + 1] = y /\ \A i \in 1 .. n : tt[i] = uu[i]
    BY <2>1
  <2>3. Held(uu)
    BY <2>1, <2>2
  <2>4. FlattenSeq(tt) = FlattenSeq(uu) \o y
    BY <2>1, FlattenAppend
  <2>5. \A x : x \in ToSet(FlattenSeq(uu) \o y) <=> x \in ToSet(FlattenSeq(uu)) \/ x \in ToSet(y)
    BY <2>1, <2>3, ConcatHolds
  <2>6. \A x : (\E i \in 1 .. n + 1 : x \in ToSet(tt[i]))
                  <=> (\E i \in 1 .. n : x \in ToSet(uu[i])) \/ x \in ToSet(y)
    BY <2>2
  <2>7. FlattenSeq(uu) \o y \in Seq(S)
    BY <2>3
  <2> QED
    BY <2>2, <2>3, <2>4, <2>5, <2>6, <2>7
<1>3. Fine = Nat
  <2>1. Fine \subseteq Nat
    OBVIOUS
  <2> HIDE DEF Fine
  <2> QED
    BY <1>1, <1>2, <2>1, Induction
<1>4. Len(ss) \in Fine
  <2> HIDE DEF Fine
  <2> QED
    BY <1>3
<1> QED
  BY <1>4

-----------------------------------------------------------------------------
(* Sequences of the model.                                                 *)

LEMMA ListOf ==
    ASSUME NEW S, NEW n \in Nat, NEW f \in [1 .. n -> S]
    PROVE  /\ f \in Seq(S) /\ Len(f) = n
           /\ \A x : x \in ToSet(f) <=> \E i \in 1 .. n : x = f[i]
<1>1. f \in Seq(S)
  BY SeqDef
<1> QED
  BY <1>1 DEF ToSet

LEMMA PickedHolds ==
    ASSUME NEW S, NEW s \in Seq(S), NEW I
    PROVE  /\ Picked(s, I) \in Seq(S)
           /\ \A x : x \in ToSet(Picked(s, I)) <=> \E i \in I \cap DOMAIN s : x = s[i]
<1> DEFINE t == Picked(s, I)
<1>1. t \in Seq(S) /\ ComesFrom(t, s, I \cap DOMAIN s)
  BY PickedComesFrom
<1> HIDE DEF t
<1>2. PICK p \in [1 .. Len(t) -> I \cap DOMAIN s] :
          /\ \A k \in 1 .. Len(t) : t[k] = s[p[k]]
          /\ \A j \in I \cap DOMAIN s : \E k \in 1 .. Len(t) : p[k] = j
  BY <1>1 DEF ComesFrom
<1>3. \A x : x \in ToSet(t) <=> \E k \in 1 .. Len(t) : x = t[k]
  BY <1>1 DEF ToSet
<1>4. \A x : (\E k \in 1 .. Len(t) : x = t[k]) <=> \E i \in I \cap DOMAIN s : x = s[i]
  BY <1>2, SMTT(60)
<1> QED
  BY <1>1, <1>3, <1>4, ZenonT(60) DEF t

(* Of the elements with one key DistinctBy keeps one.                      *)
LEMMA FirstsHold ==
    ASSUME NEW n \in Nat, NEW keys
    PROVE  \A i \in 1 .. n : \E k \in 1 .. n :
               keys[k] = keys[i] /\ \A j \in 1 .. k - 1 : keys[j] # keys[k]
<1> SUFFICES ASSUME NEW i \in 1 .. n
             PROVE  \E k \in 1 .. n :
                        keys[k] = keys[i] /\ \A j \in 1 .. k - 1 : keys[j] # keys[k]
  OBVIOUS
<1> DEFINE Same == {j \in 1 .. n : keys[j] = keys[i]}
<1>1. PICK k \in Same : \A j \in Same : k <= j
  <2>1. Same \subseteq Nat /\ Same # {}
    OBVIOUS
  <2> HIDE DEF Same
  <2> QED
    BY <2>1, LeastNumber
<1> QED
  BY <1>1

-----------------------------------------------------------------------------
(* Texts.                                                                  *)

LEMMA Lowercased ==
    ASSUME NEW t \in Texts
    PROVE  /\ Lowercase(t) \in Texts /\ Len(Lowercase(t)) = Len(t)
           /\ DOMAIN Lowercase(t) = 1 .. Len(t)
           /\ \A i \in 1 .. Len(t) : Lowercase(t)[i] = Lower[t[i]]
<1>1. DOMAIN t = 1 .. Len(t) /\ Len(t) \in Nat /\ \A i \in 1 .. Len(t) : t[i] \in DOMAIN Lower
  BY DEF Texts
<1>2. Lowercase(t) \in [1 .. Len(t) -> DOMAIN Lower]
  BY <1>1, IntakeNotesAssumption DEF Lowercase
<1> QED
  BY <1>1, <1>2, ListOf DEF Lowercase, Texts

LEMMA NormalText ==
    ASSUME NEW t \in Texts
    PROVE  Normalize(t) \in Texts
BY Lowercased, PickedHolds DEF Normalize, Where, Texts

LEMMA NormalizeAppend ==
    ASSUME NEW t \in Texts, NEW a \in DOMAIN Lower
    PROVE  Normalize(Append(t, a)) =
               IF Lower[a] = Punct THEN Normalize(t) ELSE Append(Normalize(t), Lower[a])
<1> DEFINE u == Append(t, a)
           I == {i \in DOMAIN Lowercase(u) : Lowercase(u)[i] # Punct}
           J == {i \in DOMAIN Lowercase(t) : Lowercase(t)[i] # Punct}
<1>1. /\ u \in Texts /\ Len(u) = Len(t) + 1 /\ u[Len(t) + 1] = a /\ Len(t) \in Nat
      /\ \A i \in 1 .. Len(t) : u[i] = t[i]
  BY DEF Texts
<1> HIDE DEF u
<1>2. /\ Lowercase(t) \in Texts /\ Len(Lowercase(t)) = Len(t)
      /\ DOMAIN Lowercase(t) = 1 .. Len(t)
      /\ \A i \in 1 .. Len(t) : Lowercase(t)[i] = Lower[t[i]]
  BY Lowercased
<1>3. /\ Lowercase(u) \in Texts /\ Len(Lowercase(u)) = Len(t) + 1
      /\ DOMAIN Lowercase(u) = 1 .. Len(t) + 1
      /\ \A i \in 1 .. Len(t) + 1 : Lowercase(u)[i] = Lower[u[i]]
  BY <1>1, Lowercased
<1>4. Lower[a] \in DOMAIN Lower
  BY IntakeNotesAssumption
<1>5. Lowercase(u) = Append(Lowercase(t), Lower[a])
  <2>1. Append(Lowercase(t), Lower[a]) \in Seq(DOMAIN Lower)
    BY <1>2, <1>4 DEF Texts
  <2>2. /\ Len(Append(Lowercase(t), Lower[a])) = Len(t) + 1
        /\ \A i \in 1 .. Len(t) + 1 : Append(Lowercase(t), Lower[a])[i] = Lowercase(u)[i]
    BY <1>1, <1>2, <1>3, <1>4 DEF Texts
  <2> QED
    BY <1>3, <2>1, <2>2, SeqEqual DEF Texts
<1>6. \A i \in DOMAIN Lowercase(t) : i \in I <=> i \in J
  BY <1>1, <1>2, <1>3
<1>7. Len(t) + 1 \in I <=> Lower[a] # Punct
  BY <1>1, <1>3
<1>8. Picked(Append(Lowercase(t), Lower[a]), I) =
          IF Len(t) + 1 \in I THEN Append(Picked(Lowercase(t), J), Lower[a])
          ELSE Picked(Lowercase(t), J)
  <2> HIDE DEF I, J
  <2> QED
    BY <1>2, <1>4, <1>6, PickedAppend, SMTT(60) DEF Texts
<1> QED
  BY <1>5, <1>7, <1>8 DEF Normalize, Where, u

LEMMA ConcatAppend ==
    ASSUME NEW S, NEW s \in Seq(S), NEW t \in Seq(S), NEW x \in S
    PROVE  s \o Append(t, x) = Append(s \o t, x)
<1>1. <<x>> \in Seq(S)
  OBVIOUS
<1>2. Append(t, x) = t \o <<x>> /\ Append(s \o t, x) = (s \o t) \o <<x>>
  BY AppendIsConcat
<1> QED
  BY <1>1, <1>2, ConcatAssociative

LEMMA NormalizeConcat ==
    ASSUME NEW s \in Texts, NEW t \in Texts
    PROVE  Normalize(s \o t) = Normalize(s) \o Normalize(t)
<1> DEFINE Fine == {n \in Nat : \A u \in Texts : Len(u) = n =>
                       Normalize(s \o u) = Normalize(s) \o Normalize(u)}
<1>1. 0 \in Fine
  <2>1. \A u \in Texts : Len(u) = 0 => u = <<>>
    BY DEF Texts
  <2>2. s \o <<>> = s /\ Normalize(s) \o <<>> = Normalize(s)
    BY NormalText, ConcatEmptySeq DEF Texts
  <2>3. Normalize(<<>>) = <<>>
    <3>1. Lowercase(<<>>) = <<>>
      BY DEF Lowercase
    <3> QED
      BY <3>1, PickedEmpty DEF Normalize, Where
  <2> QED
    BY <2>1, <2>2, <2>3
<1>2. ASSUME NEW n \in Fine PROVE n + 1 \in Fine
  <2> SUFFICES ASSUME NEW u \in Texts, Len(u) = n + 1
               PROVE  Normalize(s \o u) = Normalize(s) \o Normalize(u)
    OBVIOUS
  <2>1. PICK v \in Texts, a \in DOMAIN Lower : u = Append(v, a)
    <3>1. u # <<>>
      OBVIOUS
    <3> QED
      BY <3>1, SequenceEmptyOrAppend DEF Texts
  <2>2. Len(v) = n
    BY <2>1 DEF Texts
  <2>3. Normalize(s \o v) = Normalize(s) \o Normalize(v)
    BY <2>1, <2>2
  <2>4. s \o u = Append(s \o v, a) /\ s \o v \in Texts
    BY <2>1, SMTT(60) DEF Texts
  <2>5. /\ Normalize(s) \in Seq(DOMAIN Lower) /\ Normalize(v) \in Seq(DOMAIN Lower)
        /\ Lower[a] \in DOMAIN Lower
    BY <2>1, NormalText, IntakeNotesAssumption DEF Texts
  <2>6. \A p, q \in Seq(DOMAIN Lower), x \in DOMAIN Lower : p \o Append(q, x) = Append(p \o q, x)
    BY ConcatAppend, SMTT(60)
  <2>7. Normalize(s) \o Append(Normalize(v), Lower[a]) = Append(Normalize(s) \o Normalize(v), Lower[a])
    BY <2>5, <2>6, Zenon
  <2> QED
    BY <2>1, <2>3, <2>4, <2>7, NormalizeAppend
<1>3. Fine = Nat
  <2>1. Fine \subseteq Nat
    OBVIOUS
  <2> HIDE DEF Fine
  <2> QED
    BY <1>1, <1>2, <2>1, Induction
<1>4. Len(t) \in Fine
  <2>1. Len(t) \in Nat
    BY DEF Texts
  <2> HIDE DEF Fine
  <2> QED
    BY <1>3, <2>1
<1> QED
  BY <1>4

(* What occurs in a text still does when the text goes on.                 *)
LEMMA OccursBefore ==
    ASSUME NEW t \in Texts, NEW u \in Texts, NEW v \in Texts, Occurs(t, u)
    PROVE  Occurs(t, u \o v)
<1>1. PICK i \in 0 .. Len(u) - Len(t) : SubSeq(u, i + 1, i + Len(t)) = t
  BY DEF Occurs
<1>2. /\ Len(u) \in Nat /\ Len(v) \in Nat /\ Len(t) \in Nat /\ i \in Nat
      /\ Len(u \o v) = Len(u) + Len(v)
  BY DEF Texts
<1>3. i \in 0 .. Len(u \o v) - Len(t)
  BY <1>2
<1>4. SubSeq(u \o v, i + 1, i + Len(t)) = SubSeq(u, i + 1, i + Len(t))
  BY <1>2, SubSeqOfConcat1 DEF Texts
<1> QED
  BY <1>1, <1>3, <1>4 DEF Occurs

LEMMA PlainTextGrows ==
    ASSUME NEW ss \in Seq(Lines), NEW line \in Lines
    PROVE  /\ FlattenSeq(ss) \in Texts /\ line \in Texts
           /\ Normalize(FlattenSeq(Append(ss, line)))
                  = Normalize(FlattenSeq(ss)) \o Normalize(line)
<1>1. ss \in Seq(Seq(DOMAIN Lower)) /\ line \in Seq(DOMAIN Lower)
  BY IntakeNotesAssumption, SeqMonotonic DEF Texts
<1>2. FlattenSeq(ss) \in Seq(DOMAIN Lower)
  BY <1>1, FlattenHolds
<1>3. FlattenSeq(Append(ss, line)) = FlattenSeq(ss) \o line
  BY <1>1, FlattenAppend
<1> QED
  BY <1>1, <1>2, <1>3, NormalizeConcat DEF Texts

-----------------------------------------------------------------------------
(* What the fields of an answer hold.                                      *)

LEMMA Stripped ==
    ASSUME NEW t \in Texts
    PROVE  StripSpeakerLabel(t) \in Texts
<1>1. t # <<>> => Tail(t) \in Texts
  BY HeadTailProperties DEF Texts
<1> QED
  BY <1>1 DEF StripSpeakerLabel

LEMMA FactsDecoded ==
    ASSUME NEW field \in Facts
    PROVE  DecodeFactList(field) \in Seq(Notes)
<1> DEFINE Element == [object : BOOLEAN, statement : Texts, quote : Texts]
           I == {i \in DOMAIN field.elements :
                    field.elements[i].object /\ field.elements[i].statement # <<>>}
           picked == Picked(field.elements, I)
           decoded == [i \in DOMAIN picked |-> [statement |-> picked[i].statement,
                                                quote |-> picked[i].quote, verified |-> TRUE]]
<1>1. field.elements \in Seq(Element)
  BY DEF Facts, Fields
<1>2. picked \in Seq(Element)
  <2> HIDE DEF I, Element
  <2> QED
    BY <1>1, PickedHolds
<1>3. DecodeFactList(field) = decoded
  BY DEF DecodeFactList, Where, Mapped
<1> HIDE DEF picked
<1>4. DOMAIN picked = 1 .. Len(picked) /\ Len(picked) \in Nat
  BY <1>2
<1>5. decoded \in [1 .. Len(picked) -> Notes]
  <2>1. \A i \in 1 .. Len(picked) : picked[i] \in Element
    <3> HIDE DEF Element
    <3> QED
      BY <1>2, <1>4
  <2>2. \A i \in 1 .. Len(picked) : picked[i].statement \in Texts /\ picked[i].quote \in Texts
    BY <2>1
  <2> HIDE DEF Element
  <2> QED
    BY <1>4, <2>2 DEF Notes
<1> HIDE DEF decoded
<1> QED
  BY <1>3, <1>4, <1>5, ListOf

LEMMA StringsDecoded ==
    ASSUME NEW field \in Strings
    PROVE  DecodeStringList(field) \in Seq(Texts)
<1> DEFINE Element == [primitive : BOOLEAN, text : Texts]
           I == {i \in DOMAIN field.elements : field.elements[i].primitive}
           picked == Picked(field.elements, I)
           texts == [i \in DOMAIN picked |-> picked[i].text]
           J == {i \in DOMAIN texts : texts[i] # <<>>}
<1>1. field.elements \in Seq(Element)
  BY DEF Strings, Fields
<1>2. picked \in Seq(Element)
  <2> HIDE DEF I, Element
  <2> QED
    BY <1>1, PickedHolds
<1>3. DecodeStringList(field) = Picked(texts, J)
  BY DEF DecodeStringList, NonBlank, Where, Mapped
<1> HIDE DEF picked
<1>4. DOMAIN picked = 1 .. Len(picked) /\ Len(picked) \in Nat
  BY <1>2
<1>5. texts \in [1 .. Len(picked) -> Texts]
  <2>1. \A i \in 1 .. Len(picked) : picked[i] \in Element
    <3> HIDE DEF Element
    <3> QED
      BY <1>2, <1>4
  <2>2. \A i \in 1 .. Len(picked) : picked[i].text \in Texts
    BY <2>1
  <2> HIDE DEF Element
  <2> QED
    BY <1>4, <2>2
<1> HIDE DEF texts, J
<1>6. texts \in Seq(Texts)
  BY <1>4, <1>5, ListOf
<1> QED
  BY <1>3, <1>6, PickedHolds

LEMMA MarksType ==
    ASSUME NEW field \in Strings
    PROVE  Marks(field) \subseteq Texts
<1>1. \A t \in ToSet(DecodeStringList(field)) : t \in Texts
  BY StringsDecoded DEF ToSet
<1> QED
  BY <1>1, NormalText DEF Marks

LEMMA ListedMissing ==
    ASSUME checklist \in Checklists, NEW marks
    PROVE  /\ Left(marks) \in Seq(Texts)
           /\ \A t : t \in ToSet(Left(marks)) <=>
                  \E i \in DOMAIN checklist :
                      ~Covered(checklist[i], marks) /\ t = checklist[i].label
<1> DEFINE Item == [id : Texts, label : Texts]
           I == {i \in DOMAIN checklist : ~Covered(checklist[i], marks)}
           picked == Picked(checklist, I)
           labels == [i \in DOMAIN picked |-> picked[i].label]
<1>1. checklist \in Seq(Item)
  BY IntakeNotesAssumption
<1>2. /\ picked \in Seq(Item)
      /\ \A x : x \in ToSet(picked) <=> \E i \in I \cap DOMAIN checklist : x = checklist[i]
  <2> HIDE DEF I, Item
  <2> QED
    BY <1>1, PickedHolds
<1>3. Left(marks) = labels
  BY DEF Left, Where, Mapped
<1> HIDE DEF picked
<1>4. DOMAIN picked = 1 .. Len(picked) /\ Len(picked) \in Nat
  BY <1>2
<1>5. labels \in [1 .. Len(picked) -> Texts]
  <2>1. \A i \in 1 .. Len(picked) : picked[i] \in Item
    <3> HIDE DEF Item
    <3> QED
      BY <1>2, <1>4
  <2>2. \A i \in 1 .. Len(picked) : picked[i].label \in Texts
    BY <2>1
  <2> HIDE DEF Item
  <2> QED
    BY <1>4, <2>2
<1>6. DOMAIN labels = 1 .. Len(picked) /\ \A i \in 1 .. Len(picked) : labels[i] = picked[i].label
  BY <1>4
<1> HIDE DEF labels
<1>7. labels \in Seq(Texts)
  BY <1>4, <1>5, ListOf
<1>11. \A t : t \in ToSet(labels) <=> \E i \in 1 .. Len(picked) : t = labels[i]
  BY <1>6 DEF ToSet
<1>8. \A x : x \in ToSet(picked) <=> \E i \in 1 .. Len(picked) : x = picked[i]
  BY <1>4 DEF ToSet
<1>9. \A t : (\E i \in 1 .. Len(picked) : t = picked[i].label) <=>
                  \E x \in ToSet(picked) : t = x.label
  BY <1>8
<1>10. \A t : (\E x \in ToSet(picked) : t = x.label) <=>
                  \E i \in DOMAIN checklist : ~Covered(checklist[i], marks) /\ t = checklist[i].label
  BY <1>2
<1>12. ASSUME NEW t
       PROVE  t \in ToSet(labels) <=>
                  \E i \in DOMAIN checklist :
                      ~Covered(checklist[i], marks) /\ t = checklist[i].label
  <2>1. t \in ToSet(labels) <=> \E i \in 1 .. Len(picked) : t = picked[i].label
    BY <1>6, <1>11
  <2>2. t \in ToSet(labels) <=> \E x \in ToSet(picked) : t = x.label
    BY <1>9, <2>1
  <2> QED
    BY <1>10, <2>2
<1> QED
  BY <1>3, <1>7, <1>12

(* DistinctBy keeps one fact of each key.                                  *)
LEMMA DistinctFacts ==
    ASSUME NEW s \in Seq(Notes)
    PROVE  LET d == DistinctBy(Key, s)
           IN  /\ d \in Seq(Notes)
               /\ \A f \in ToSet(d) : f \in ToSet(s)
               /\ \A f \in ToSet(s) : \E g \in ToSet(d) : Key(g) = Key(f)
               /\ \A i, j \in DOMAIN d : Key(d[i]) = Key(d[j]) => i = j
<1> DEFINE keys == [i \in DOMAIN s |-> Key(s[i])]
           I == {i \in DOMAIN s : \A j \in 1 .. i - 1 : keys[j] # keys[i]}
           d == Picked(s, I)
<1>1. DOMAIN s = 1 .. Len(s) /\ Len(s) \in Nat
  OBVIOUS
<1>3. \A i \in DOMAIN s : keys[i] = Key(s[i])
  OBVIOUS
<1>2. DistinctBy(Key, s) = d
  <2>1. \A i \in DOMAIN s : \A j \in 1 .. i - 1 : j \in DOMAIN s
    BY <1>1
  <2>2. I = {i \in DOMAIN s : \A j \in 1 .. i - 1 : Key(s[j]) # Key(s[i])}
    <3> HIDE DEF keys
    <3> QED
      BY <1>3, <2>1
  <2> QED
    BY <2>2 DEF DistinctBy
<1> HIDE DEF keys
<1>4. \A i \in DOMAIN s : \E k \in I : keys[k] = keys[i]
  <2>1. \A i \in 1 .. Len(s) : \E k \in 1 .. Len(s) :
            keys[k] = keys[i] /\ \A j \in 1 .. k - 1 : keys[j] # keys[k]
    <3>1. \A n \in Nat : \A i \in 1 .. n : \E k \in 1 .. n :
              keys[k] = keys[i] /\ \A j \in 1 .. k - 1 : keys[j] # keys[k]
      BY FirstsHold, SMTT(60)
    <3> QED
      BY <1>1, <3>1
  <2> QED
    BY <1>1, <2>1
<1>5. I \subseteq DOMAIN s /\ I \cap DOMAIN s = I
  OBVIOUS
<1>6. \A i, j \in I : i < j => keys[i] # keys[j]
  BY <1>1
<1> HIDE DEF I
<1>7. d \in Seq(Notes) /\ ComesFrom(d, s, I)
  BY <1>5, PickedComesFrom
<1> HIDE DEF d
<1>8. PICK p \in [1 .. Len(d) -> I] :
          /\ \A k \in 1 .. Len(d) : d[k] = s[p[k]]
          /\ \A k, l \in 1 .. Len(d) : k < l => p[k] < p[l]
          /\ \A j \in I : \E k \in 1 .. Len(d) : p[k] = j
  BY <1>7 DEF ComesFrom
<1>9. DOMAIN d = 1 .. Len(d) /\ Len(d) \in Nat
  BY <1>7
<1>10. \A f \in ToSet(d) : f \in ToSet(s)
  BY <1>5, <1>8, <1>9 DEF ToSet
<1>11. ASSUME NEW f \in ToSet(s) PROVE \E g \in ToSet(d) : Key(g) = Key(f)
  <2>1. PICK i \in DOMAIN s : f = s[i]
    BY <1>11 DEF ToSet
  <2>2. PICK k \in I : keys[k] = keys[i]
    BY <1>4
  <2>3. PICK n \in 1 .. Len(d) : p[n] = k
    BY <1>8, <2>2
  <2>4. d[n] \in ToSet(d) /\ d[n] = s[k]
    BY <1>8, <1>9, <2>3 DEF ToSet
  <2>5. Key(s[k]) = Key(s[i])
    BY <1>3, <1>5, <2>2
  <2> QED
    BY <2>1, <2>4, <2>5
<1>12. ASSUME NEW i \in 1 .. Len(d), NEW j \in 1 .. Len(d), Key(d[i]) = Key(d[j])
       PROVE  i = j
  <2>1. keys[p[i]] = keys[p[j]] /\ p[i] \in I /\ p[j] \in I
    BY <1>3, <1>5, <1>8, <1>12, SMTT(60)
  <2>2. ~(i < j)
    BY <1>6, <1>8, <2>1
  <2>3. ~(j < i)
    BY <1>6, <1>8, <2>1
  <2> QED
    BY <2>2, <2>3
<1> QED
  BY <1>2, <1>7, <1>9, <1>10, <1>11, <1>12

LEMMA DistinctTexts ==
    ASSUME NEW s \in Seq(Texts)
    PROVE  DistinctBy(LAMBDA t : t, s) \in Seq(Texts)
BY PickedHolds DEF DistinctBy

-----------------------------------------------------------------------------
(* What an answer becomes: parsed, checked against the text and merged.    *)

LEMMA NoNotes ==
    /\ NoResult \in Results /\ ToSet(NoResult.facts) = {}
    /\ \A kind \in {"FAILED", "INSUFFICIENT"} :
           Empty(kind) \in Results /\ Empty(kind).kind = kind
<1>1. \A S : <<>> \in Seq(S)
  OBVIOUS
<1>2. ToSet(<<>>) = {}
  BY DEF ToSet
<1>3. NoResult \in Results /\ ToSet(NoResult.facts) = {}
  BY <1>1, <1>2 DEF NoResult, Results
<1>4. ASSUME NEW kind \in {"FAILED", "INSUFFICIENT"}
      PROVE  Empty(kind) \in Results /\ Empty(kind).kind = kind
  BY <1>1 DEF Empty, NoResult, Results
<1> QED
  BY <1>3, <1>4

LEMMA Parsed ==
    ASSUME checklist \in Checklists, NEW raw, NEW object \in Objects
    PROVE  LET r == Parse(raw, object)
           IN  /\ r \in Results /\ r.kind \in {"FAILED", "PARSED", "PARTIAL"}
               /\ HasNotes(r) /\ ReportsCoverage(object) =>
                      r.missing = Left(Marks(object.covered))
<1> DEFINE r == Parse(raw, object)
           missing == IF ReportsCoverage(object) THEN object.covered ELSE object.missing
           listed == IF ReportsCoverage(object) THEN MissingFromCoverage(missing)
                                                ELSE DecodeStringList(missing)
           kind == IF \E f \in {object.facts, object.prompts, missing} : IsError(f)
                     THEN "PARTIAL" ELSE "PARSED"
<1>1. /\ object.facts \in Facts /\ object.covered \in Strings
      /\ object.missing \in Strings /\ object.prompts \in Strings
  BY IntakeNotesAssumption
<1>2. MissingFromCoverage(object.covered) = Left(Marks(object.covered))
  BY DEF MissingFromCoverage, Left
<1>3. /\ DecodeFactList(object.facts) \in Seq(Notes)
      /\ DecodeStringList(object.prompts) \in Seq(Texts)
      /\ DecodeStringList(object.missing) \in Seq(Texts)
  BY <1>1, FactsDecoded, StringsDecoded
<1>4. Left(Marks(object.covered)) \in Seq(Texts)
  BY ListedMissing
<1>5. listed \in Seq(Texts)
  BY <1>2, <1>3, <1>4
<1>6. CASE ExtractJsonObject(raw) = NoObject \/ ~object.valid
  <2>1. r = Empty("FAILED")
    BY <1>6 DEF Parse
  <2> QED
    BY <2>1, NoNotes DEF HasNotes
<1>7. CASE ~(ExtractJsonObject(raw) = NoObject \/ ~object.valid)
  <2>1. r = [kind |-> kind, facts |-> DecodeFactList(object.facts), missing |-> listed,
             prompts |-> DecodeStringList(object.prompts)]
    BY <1>7 DEF Parse
  <2>2. kind \in {"PARSED", "PARTIAL"}
    OBVIOUS
  <2> HIDE DEF kind, listed, r
  <2>3. r \in Results
    BY <1>3, <1>5, <2>1, <2>2 DEF Results
  <2>4. ReportsCoverage(object) => listed = Left(Marks(object.covered))
    BY <1>2 DEF listed
  <2> QED
    BY <2>1, <2>2, <2>3, <2>4 DEF r
<1> QED
  BY <1>6, <1>7

(* A fact that was checked is verified only if the text says its quote.    *)
LEMMA QuotesVerified ==
    ASSUME NEW r \in Results, NEW text \in Texts
    PROVE  LET v == VerifyQuotes(r, text)
           IN  /\ v \in Results /\ v.missing = r.missing
               /\ HasNotes(v) <=> HasNotes(r)
               /\ ~HasNotes(r) => v = r
               /\ HasNotes(r) => \A f \in ToSet(v.facts) :
                      f.verified => Occurs(Normalize(f.quote), Normalize(text))
<1> DEFINE haystack == Normalize(text)
           facts == [i \in DOMAIN r.facts |-> Checked(r.facts[i], haystack)]
           kind == IF \E f \in ToSet(facts) : ~f.verified THEN "PARTIAL" ELSE r.kind
<1>1. CASE ~HasNotes(r)
  BY <1>1 DEF VerifyQuotes
<1>2. CASE HasNotes(r)
  <2>1. VerifyQuotes(r, text) = [r EXCEPT !.facts = facts, !.kind = kind]
    BY <1>2 DEF VerifyQuotes, Mapped
  <2>2. r.facts \in Seq(Notes) /\ r.kind \in {"PARSED", "PARTIAL"}
    BY <1>2 DEF Results, HasNotes
  <2>3. DOMAIN r.facts = 1 .. Len(r.facts) /\ Len(r.facts) \in Nat
        /\ \A i \in 1 .. Len(r.facts) : r.facts[i] \in Notes
    BY <2>2
  <2>4. \A f \in Notes : /\ Checked(f, haystack) \in Notes
                         /\ Checked(f, haystack).verified =>
                                Occurs(Normalize(Checked(f, haystack).quote), haystack)
    <3>1. \A f \in Notes : StripSpeakerLabel(f.statement) \in Texts /\ StripSpeakerLabel(f.quote) \in Texts
      BY Stripped DEF Notes
    <3>2. \A t \in Texts : Occurs(t, haystack) \in BOOLEAN
      BY DEF Occurs
    <3> HIDE DEF haystack
    <3> QED
      BY <3>1, <3>2 DEF Checked, Notes
  <2>5. \A i \in 1 .. Len(r.facts) : facts[i] = Checked(r.facts[i], haystack)
    BY <2>3
  <2>6. facts \in [1 .. Len(r.facts) -> Notes]
    <3> HIDE DEF haystack
    <3> QED
      BY <2>3, <2>4
  <2> HIDE DEF facts, haystack
  <2>7. facts \in Seq(Notes)
    BY <2>3, <2>6, ListOf
  <2>8. ASSUME NEW f \in ToSet(facts), f.verified
        PROVE  Occurs(Normalize(f.quote), haystack)
    <3>1. PICK i \in 1 .. Len(r.facts) : f = facts[i]
      BY <2>6, <2>8 DEF ToSet
    <3> QED
      BY <2>3, <2>4, <2>5, <2>8, <3>1
  <2>9. kind \in {"PARSED", "PARTIAL"}
    BY <2>2
  <2> HIDE DEF kind
  <2>10. r = [kind |-> r.kind, facts |-> r.facts, missing |-> r.missing, prompts |-> r.prompts]
         /\ r.missing \in Seq(Texts) /\ r.prompts \in Seq(Texts)
    BY DEF Results
  <2>11. VerifyQuotes(r, text) = [kind |-> kind, facts |-> facts,
                                  missing |-> r.missing, prompts |-> r.prompts]
    BY <2>1, <2>10
  <2> QED
    BY <1>2, <2>7, <2>8, <2>9, <2>10, <2>11 DEF Results, HasNotes, haystack
<1> QED
  BY <1>1, <1>2

LEMMA ConcatNotes ==
    ASSUME NEW S, NEW s \in Seq(S), NEW t \in Seq(S)
    PROVE  s \o t \in Seq(S)
OBVIOUS

LEMMA Merged ==
    ASSUME NEW prior \in Results, NEW r \in Results, HasNotes(r)
    PROVE  LET m == MergeWithPrior(prior, r)
           IN  /\ m \in Results /\ m.kind = r.kind /\ m.missing = r.missing
               /\ \A f \in ToSet(m.facts) : f \in ToSet(prior.facts) \/ f \in ToSet(r.facts)
               /\ \A f \in ToSet(prior.facts) : \E g \in ToSet(m.facts) : Key(g) = Key(f)
<1> DEFINE facts == DistinctBy(Key, prior.facts \o r.facts)
           prompts == DistinctBy(LAMBDA t : t, prior.prompts \o r.prompts)
<1>1. /\ prior.facts \in Seq(Notes) /\ r.facts \in Seq(Notes)
      /\ prior.prompts \in Seq(Texts) /\ r.prompts \in Seq(Texts)
      /\ r.missing \in Seq(Texts) /\ r.kind \in {"PARSED", "PARTIAL"}
  BY DEF Results, HasNotes
<1>2. r = [kind |-> r.kind, facts |-> r.facts, missing |-> r.missing, prompts |-> r.prompts]
  BY DEF Results
<1>3. prior.facts \o r.facts \in Seq(Notes) /\ prior.prompts \o r.prompts \in Seq(Texts)
  BY <1>1, ConcatNotes
<1>4. prompts \in Seq(Texts)
  BY <1>3, DistinctTexts
<1>5. /\ facts \in Seq(Notes)
      /\ \A f \in ToSet(facts) : f \in ToSet(prior.facts \o r.facts)
      /\ \A f \in ToSet(prior.facts \o r.facts) : \E g \in ToSet(facts) : Key(g) = Key(f)
  BY <1>3, DistinctFacts
<1>6. \A f : f \in ToSet(prior.facts \o r.facts) <=> f \in ToSet(prior.facts) \/ f \in ToSet(r.facts)
  BY <1>1, ConcatHolds
<1>7. MergeWithPrior(prior, r) = [r EXCEPT !.facts = facts, !.prompts = prompts]
  BY DEF MergeWithPrior
<1> HIDE DEF facts, prompts
<1>8. MergeWithPrior(prior, r) = [kind |-> r.kind, facts |-> facts, missing |-> r.missing,
                                  prompts |-> prompts]
  BY <1>2, <1>7
<1>9. MergeWithPrior(prior, r) \in Results
  BY <1>1, <1>4, <1>5, <1>8 DEF Results
<1>10. /\ \A f \in ToSet(facts) : f \in ToSet(prior.facts) \/ f \in ToSet(r.facts)
       /\ \A f \in ToSet(prior.facts) : \E g \in ToSet(facts) : Key(g) = Key(f)
  BY <1>5, <1>6
<1> QED
  BY <1>8, <1>9, <1>10

-----------------------------------------------------------------------------
(* The invariant holds.                                                    *)

LEMMA Noted ==
    ASSUME NEW r \in Results
    PROVE  /\ NotesOrNull(r) \in Results /\ NotesOrNull(r).kind \in {"NULL", "PARSED"}
           /\ NotesOrNull(r).kind = "NULL" => NotesOrNull(r) = NoResult
           /\ HasNotes(NotesOrNull(r)) <=> HasNotes(r)
           /\ HasNotes(r) => /\ NotesOrNull(r).facts = r.facts
                             /\ NotesOrNull(r).missing = r.missing
           /\ r.kind = "PARSED" => NotesOrNull(r) = r
<1>1. r = [kind |-> r.kind, facts |-> r.facts, missing |-> r.missing, prompts |-> r.prompts]
  BY DEF Results
<1>2. CASE HasNotes(r)
  <2>1. NotesOrNull(r) = [kind |-> "PARSED", facts |-> r.facts, missing |-> r.missing,
                          prompts |-> r.prompts]
    BY <1>1, <1>2 DEF NotesOrNull, HasNotes
  <2> QED
    BY <1>1, <1>2, <2>1 DEF Results, HasNotes
<1>3. CASE ~HasNotes(r)
  <2>1. NotesOrNull(r) = NoResult /\ r.kind # "PARSED"
    BY <1>3 DEF NotesOrNull, HasNotes
  <2> QED
    BY <1>3, <2>1, NoNotes DEF NoResult, HasNotes
<1> QED
  BY <1>2, <1>3

LEMMA InvInit == Init => Inv
<1> SUFFICES ASSUME Init PROVE Inv
  OBVIOUS
<1> USE DEF Init
<1>1. \A S : <<>> \in Seq(S)
  OBVIOUS
<1>2. current \in Consultations /\ passes \in 0 .. MaxPasses
  BY IntakeNotesAssumption DEF Consultations
<1>3. TypeOK
  <2>1. NoResult.kind = "NULL"
    BY DEF NoResult
  <2> QED
    BY <1>1, <1>2, <2>1, NoNotes DEF TypeOK, NoCoverage
<1>4. \A c \in Consultations : saved[c] = NoResult /\ ~HasNotes(saved[c])
  BY DEF HasNotes, NoResult
<1>5. RecordsAgree
  <2>1. NotesOrNull(result) = NoResult
    BY DEF NotesOrNull, NoResult
  <2> QED
    BY <1>2, <1>4, <2>1 DEF RecordsAgree
<1>6. VerifiedIsSpoken
  BY <1>4, NoNotes DEF VerifiedIsSpoken
<1>7. CoverageAgrees /\ CoverageType
  BY <1>4 DEF CoverageAgrees, CoverageType, NoCoverage
<1> QED
  BY <1>3, <1>5, <1>6, <1>7 DEF Inv

(* Who leaves the records and their marks alone leaves them in agreement.  *)
LEMMA CoverageKept ==
    ASSUME CoverageAgrees, UNCHANGED <<checklist, saved, coverage>>
    PROVE  CoverageAgrees'
<1>1. \A c \in Consultations : Left(coverage[c].marks)' = Left(coverage[c].marks)
  BY DEF Left, Mapped, Where, Picked
<1>2. \A c \in Consultations : HasNotes(saved[c])' <=> HasNotes(saved[c])
  BY DEF HasNotes
<1>3. saved' = saved /\ coverage' = coverage
  OBVIOUS
<1> QED
  BY <1>1, <1>2, <1>3 DEF CoverageAgrees

(* A line more leaves what was verified spoken, and only adds words.       *)
LEMMA InvHear ==
    ASSUME Inv, NEW line \in Lines, Hear(line)
    PROVE  Inv'
<1> USE DEF Hear
<1>1. TypeOK
  BY DEF Inv
<1>2. current \in Consultations /\ segments \in [Consultations -> Seq(Lines)]
  BY <1>1 DEF TypeOK
<1>3. /\ segments' \in [Consultations -> Seq(Lines)]
      /\ segments'[current] = Append(segments[current], line)
      /\ \A c \in Consultations : c # current => segments'[c] = segments[c]
  BY <1>2
<1>4. TypeOK' /\ CoverageType'
  BY <1>3 DEF Inv, TypeOK, CoverageType
<1>5. ASSUME NEW c \in Consultations
      PROVE  /\ Normalize(PlainText(c)) \in Texts
             /\ \E v \in Texts : Normalize(PlainText(c))' = Normalize(PlainText(c)) \o v
  <2>1. segments[c] \in Seq(Lines)
    BY <1>2
  <2>2. FlattenSeq(segments[c]) \in Texts /\ line \in Texts
        /\ Normalize(FlattenSeq(Append(segments[c], line)))
               = Normalize(FlattenSeq(segments[c])) \o Normalize(line)
    BY <2>1, PlainTextGrows
  <2>3. Normalize(FlattenSeq(segments[c])) \in Texts /\ Normalize(line) \in Texts
    BY <2>2, NormalText
  <2>4. <<>> \in Texts /\ Normalize(FlattenSeq(segments[c])) \o <<>> = Normalize(FlattenSeq(segments[c]))
    BY <2>3, ConcatEmptySeq DEF Texts
  <2>5. (Normalize(PlainText(c)))' = Normalize(FlattenSeq(segments'[c]))
    BY DEF PlainText, Normalize, Where, Picked, Lowercase
  <2>6. segments'[c] = Append(segments[c], line) \/ segments'[c] = segments[c]
    BY <1>3
  <2> QED
    BY <2>2, <2>3, <2>4, <2>5, <2>6 DEF PlainText
<1>6. RecordsAgree'
  <2>1. ASSUME NEW c \in Consultations, HasNotes(saved[c])
        PROVE  ~Insufficient(c)'
    <3>1. PICK v \in Texts : Normalize(PlainText(c))' = Normalize(PlainText(c)) \o v
      BY <1>5, SMTT(60)
    <3>2. ~Insufficient(c) /\ Normalize(PlainText(c)) \in Texts
      BY <1>5, <2>1 DEF Inv, RecordsAgree
    <3>3. \A u \in Texts : Len(u) \in Nat /\ Len(u \o v) = Len(u) + Len(v) /\ Len(v) \in Nat
      BY DEF Texts
    <3>4. MinWords \in Nat
      BY IntakeNotesAssumption
    <3> QED
      BY <3>1, <3>2, <3>3, <3>4 DEF Insufficient
  <2> QED
    BY <2>1 DEF Inv, RecordsAgree, NotesOrNull, HasNotes
<1>7. VerifiedIsSpoken'
  <2> SUFFICES ASSUME NEW c \in Consultations, NEW f \in ToSet(saved[c].facts), f.verified
               PROVE  Occurs(Normalize(f.quote), Normalize(PlainText(c))')
    BY DEF VerifiedIsSpoken
  <2>1. PICK v \in Texts : Normalize(PlainText(c))' = Normalize(PlainText(c)) \o v
    BY <1>5
  <2>2. Occurs(Normalize(f.quote), Normalize(PlainText(c))) /\ Normalize(PlainText(c)) \in Texts
    BY <1>5 DEF Inv, VerifiedIsSpoken
  <2>3. Normalize(f.quote) \in Texts
    <3>1. saved[c] \in Results
      BY <1>1 DEF TypeOK
    <3>2. f \in Notes
      BY <3>1 DEF Results, ToSet
    <3> QED
      BY <3>2, NormalText DEF Notes
  <2> QED
    BY <2>1, <2>2, <2>3, OccursBefore
<1>8. CoverageAgrees'
  BY CoverageKept DEF Inv
<1> QED
  BY <1>4, <1>6, <1>7, <1>8 DEF Inv

(* Too few words for notes: there were none, so none are lost.             *)
LEMMA InvTooThin ==
    ASSUME Inv, TooThin
    PROVE  Inv'
<1> USE DEF TooThin
<1>1. TypeOK' /\ CoverageType'
  BY NoNotes DEF Inv, TypeOK, CoverageType
<1>2. RecordsAgree'
  <2>1. current \in Consultations /\ saved[current].kind \in {"NULL", "PARSED"}
    BY DEF Inv, TypeOK
  <2>2. saved[current] = NoResult
    BY <2>1 DEF Inv, RecordsAgree, HasNotes
  <2>3. NotesOrNull(result') = NoResult
    BY NoNotes DEF NotesOrNull
  <2>4. \A c \in Consultations : Insufficient(c)' <=> Insufficient(c)
    BY DEF Insufficient, PlainText
  <2> QED
    BY <2>2, <2>3, <2>4 DEF Inv, RecordsAgree, NotesOrNull
<1>3. VerifiedIsSpoken'
  BY DEF Inv, VerifiedIsSpoken, PlainText
<1>4. CoverageAgrees'
  BY CoverageKept DEF Inv
<1> QED
  BY <1>1, <1>2, <1>3, <1>4 DEF Inv

LEMMA InvOpen ==
    ASSUME Inv, NEW d \in Consultations, Open(d)
    PROVE  Inv'
<1> USE DEF Open
<1>1. TypeOK' /\ CoverageType'
  BY DEF Inv, TypeOK, CoverageType
<1>2. RecordsAgree'
  <2>1. saved[d] \in Results /\ saved[d].kind \in {"NULL", "PARSED"}
        /\ (saved[d].kind = "NULL" => saved[d] = NoResult)
    BY DEF Inv, TypeOK, RecordsAgree
  <2>2. NotesOrNull(saved[d]) = saved[d]
    BY <2>1, Noted DEF NotesOrNull, NoResult
  <2>3. NotesOrNull(result)' = saved[d]
    BY <2>2 DEF NotesOrNull
  <2>4. \A c \in Consultations : Insufficient(c)' <=> Insufficient(c)
    BY DEF Insufficient, PlainText
  <2> QED
    BY <2>3, <2>4 DEF Inv, RecordsAgree
<1>3. VerifiedIsSpoken'
  BY DEF Inv, VerifiedIsSpoken, PlainText
<1>4. CoverageAgrees'
  BY CoverageKept DEF Inv
<1> QED
  BY <1>1, <1>2, <1>3, <1>4 DEF Inv

(* What a pass of the engine makes of the record on the screen.            *)
Fresh(raw, object) == VerifyQuotes(Parse(raw, object), PlainText(current))

Final(raw, object) ==
    IF HasNotes(result) THEN MergeWithPrior(NotesOrNull(result), Fresh(raw, object))
                        ELSE Fresh(raw, object)

LEMMA PassMakes ==
    ASSUME Inv, NEW raw, NEW object \in Objects
    PROVE  LET fresh == Fresh(raw, object)
               final == Final(raw, object)
               before == saved[current]
           IN  /\ final \in Results /\ PlainText(current) \in Texts
               /\ ~HasNotes(fresh) => NotesOrNull(final) = before
               /\ HasNotes(fresh) => HasNotes(final)
               /\ HasNotes(fresh) /\ ReportsCoverage(object) =>
                      final.missing = Left(Marks(object.covered))
               /\ \A f \in ToSet(NotesOrNull(final).facts) :
                      f \in ToSet(before.facts) \/
                      (f.verified => Occurs(Normalize(f.quote), Normalize(PlainText(current))))
               /\ \A f \in ToSet(before.facts) :
                      \E g \in ToSet(NotesOrNull(final).facts) : Key(g) = Key(f)
<1> DEFINE parsed == Parse(raw, object)
           text == PlainText(current)
           fresh == Fresh(raw, object)
           final == Final(raw, object)
           before == saved[current]
<1>1. /\ checklist \in Checklists /\ result \in Results /\ before = NotesOrNull(result)
      /\ segments[current] \in Seq(Lines)
  BY DEF Inv, TypeOK, RecordsAgree
<1>2. text \in Texts
  <2>1. segments[current] \in Seq(Seq(DOMAIN Lower))
    BY <1>1, IntakeNotesAssumption, SeqMonotonic DEF Texts
  <2> QED
    BY <2>1, FlattenHolds DEF PlainText, Texts
<1>3. /\ parsed \in Results /\ parsed.kind \in {"FAILED", "PARSED", "PARTIAL"}
      /\ HasNotes(parsed) /\ ReportsCoverage(object) => parsed.missing = Left(Marks(object.covered))
  BY <1>1, Parsed
<1> HIDE DEF parsed, text
<1>4. /\ fresh \in Results /\ fresh.missing = parsed.missing
      /\ HasNotes(fresh) <=> HasNotes(parsed)
      /\ ~HasNotes(parsed) => fresh = parsed
      /\ HasNotes(parsed) => \A f \in ToSet(fresh.facts) :
             f.verified => Occurs(Normalize(f.quote), Normalize(text))
  <2>1. fresh = VerifyQuotes(parsed, text)
    BY DEF Fresh, parsed, text
  <2> QED
    BY <1>2, <1>3, <2>1, QuotesVerified
<1>5. final = IF HasNotes(result) THEN MergeWithPrior(NotesOrNull(result), fresh) ELSE fresh
  BY DEF Final
<1> HIDE DEF fresh, final, before
<1>6. CASE ~HasNotes(fresh)
  <2>1. final = IF HasNotes(result) THEN before ELSE fresh
    BY <1>1, <1>5, <1>6 DEF MergeWithPrior
  <2>2. before \in Results /\ NotesOrNull(before) = before
    BY <1>1, Noted DEF NotesOrNull, NoResult
  <2>3. final \in Results /\ NotesOrNull(final) = before
    <3>1. CASE HasNotes(result)
      BY <2>1, <2>2, <3>1
    <3>2. CASE ~HasNotes(result)
      BY <1>1, <1>4, <1>6, <2>1, <3>2 DEF NotesOrNull, HasNotes
    <3> QED
      BY <3>1, <3>2
  <2> QED
    BY <1>2, <1>6, <2>3 DEF fresh, final, before, text
<1>7. CASE HasNotes(fresh) /\ ~HasNotes(result)
  <2>1. final = fresh /\ before = NoResult
    BY <1>1, <1>5, <1>7 DEF NotesOrNull, HasNotes
  <2>2. NotesOrNull(final).facts = fresh.facts
    BY <1>4, <1>7, <2>1, Noted
  <2>3. ToSet(before.facts) = {}
    BY <2>1, NoNotes
  <2> QED
    BY <1>2, <1>3, <1>4, <1>7, <2>1, <2>2, <2>3 DEF fresh, final, before, text
<1>8. CASE HasNotes(fresh) /\ HasNotes(result)
  <2>1. before \in Results /\ final = MergeWithPrior(before, fresh)
    BY <1>1, <1>5, <1>8, Noted
  <2>2. /\ final \in Results /\ final.kind = fresh.kind /\ final.missing = fresh.missing
        /\ \A f \in ToSet(final.facts) : f \in ToSet(before.facts) \/ f \in ToSet(fresh.facts)
        /\ \A f \in ToSet(before.facts) : \E g \in ToSet(final.facts) : Key(g) = Key(f)
    BY <1>4, <1>8, <2>1, Merged, SMTT(60)
  <2>3. HasNotes(final) /\ NotesOrNull(final).facts = final.facts
    BY <1>8, <2>2, Noted DEF HasNotes
  <2> QED
    BY <1>2, <1>3, <1>4, <1>8, <2>2, <2>3 DEF fresh, final, before, text
<1> QED
  BY <1>6, <1>7, <1>8

LEMMA InvGenerateNotes ==
    ASSUME Inv, NEW raw, NEW object \in Objects, GenerateNotes(raw, object)
    PROVE  Inv'
<1> DEFINE fresh == Fresh(raw, object)
           final == Final(raw, object)
           noted == NotesOrNull(final)
           reported == [reported |-> TRUE, marks |-> Marks(object.covered)]
<1>1. /\ ~Insufficient(current) /\ passes < MaxPasses /\ passes' = passes + 1
      /\ result' = final /\ saved' = [saved EXCEPT ![current] = noted]
      /\ coverage' = IF ~HasNotes(fresh) THEN coverage
                     ELSE [coverage EXCEPT ![current] =
                              IF ReportsCoverage(object) THEN reported ELSE NoCoverage]
      /\ UNCHANGED <<checklist, current, segments>>
  BY DEF GenerateNotes, Fresh, Final
<1>2. /\ final \in Results /\ PlainText(current) \in Texts
      /\ ~HasNotes(fresh) => noted = saved[current]
      /\ HasNotes(fresh) => HasNotes(final)
      /\ HasNotes(fresh) /\ ReportsCoverage(object) => final.missing = Left(Marks(object.covered))
      /\ \A f \in ToSet(noted.facts) :
             f \in ToSet(saved[current].facts) \/
             (f.verified => Occurs(Normalize(f.quote), Normalize(PlainText(current))))
  BY PassMakes
<1>3. /\ noted \in Results /\ noted.kind \in {"NULL", "PARSED"}
      /\ noted.kind = "NULL" => noted = NoResult
      /\ HasNotes(noted) <=> HasNotes(final)
      /\ HasNotes(final) => noted.missing = final.missing
  BY <1>2, Noted
<1> HIDE DEF fresh, final
<1>4. TypeOK /\ CoverageType /\ RecordsAgree /\ VerifiedIsSpoken /\ CoverageAgrees
  BY DEF Inv
<1>5. /\ current \in Consultations /\ saved \in [Consultations -> Results]
      /\ saved' \in [Consultations -> Results] /\ saved'[current] = noted
      /\ \A c \in Consultations : c # current => saved'[c] = saved[c]
  BY <1>1, <1>3, <1>4 DEF TypeOK
<1>6. coverage \in [Consultations -> [reported : BOOLEAN, marks : SUBSET Texts]]
  BY <1>4 DEF CoverageType
<1>7. reported \in [reported : BOOLEAN, marks : SUBSET Texts]
      /\ NoCoverage \in [reported : BOOLEAN, marks : SUBSET Texts]
  <2>1. object.covered \in Strings
    BY IntakeNotesAssumption
  <2> QED
    BY <2>1, MarksType DEF NoCoverage
<1> HIDE DEF noted, reported
<1>8. CoverageType'
  BY <1>1, <1>6, <1>7 DEF CoverageType
<1>9. TypeOK'
  <2>1. passes' \in 0 .. MaxPasses
    BY <1>1, <1>4, IntakeNotesAssumption, SMTT(60) DEF TypeOK
  <2>2. \A c \in Consultations : saved'[c].kind \in {"NULL", "PARSED"}
    BY <1>3, <1>4, <1>5 DEF TypeOK
  <2>3. \A c \in Consultations : coverage'[c].marks \subseteq Texts
    BY <1>8 DEF CoverageType
  <2>4. result' \in Results
    BY <1>1, <1>2
  <2> QED
    BY <1>1, <1>4, <1>5, <2>1, <2>2, <2>3, <2>4 DEF TypeOK
<1>10. RecordsAgree'
  <2>1. NotesOrNull(result)' = noted
    BY <1>1 DEF noted, NotesOrNull
  <2>2. \A c \in Consultations : Insufficient(c)' <=> Insufficient(c)
    BY <1>1 DEF Insufficient, PlainText
  <2>3. \A c \in Consultations : HasNotes(saved[c])' => ~Insufficient(c)
    BY <1>1, <1>4, <1>5 DEF RecordsAgree, HasNotes
  <2>4. \A c \in Consultations : saved'[c].kind = "NULL" => saved'[c] = NoResult
    BY <1>3, <1>4, <1>5 DEF RecordsAgree
  <2> QED
    BY <1>1, <1>5, <2>1, <2>2, <2>3, <2>4 DEF RecordsAgree
<1>11. VerifiedIsSpoken'
  <2>1. ASSUME NEW c \in Consultations, NEW f \in ToSet(saved'[c].facts), f.verified
        PROVE  Occurs(Normalize(f.quote), Normalize(PlainText(c)))
    BY <1>2, <1>4, <1>5, <2>1 DEF VerifiedIsSpoken
  <2>2. \A c \in Consultations : PlainText(c)' = PlainText(c)
    BY <1>1 DEF PlainText
  <2> QED
    BY <2>1, <2>2 DEF VerifiedIsSpoken
<1>12. CoverageAgrees'
  <2> SUFFICES ASSUME NEW c \in Consultations
               PROVE  IF HasNotes(saved'[c]) /\ coverage'[c].reported
                        THEN saved'[c].missing = Left(coverage'[c].marks)
                        ELSE coverage'[c] = NoCoverage
    <3>1. \A c \in Consultations : HasNotes(saved[c])' <=> HasNotes(saved'[c])
      BY SMTT(60) DEF HasNotes
    <3>2. \A c \in Consultations : Left(coverage[c].marks)' = Left(coverage'[c].marks)
      <4>1. checklist' = checklist
        BY <1>1
      <4> QED
        BY ONLY <4>1, SMTT(60) DEF Left, Mapped, Where, Picked
    <3> QED
      BY <3>1, <3>2 DEF CoverageAgrees
  <2>1. IF HasNotes(saved[c]) /\ coverage[c].reported
          THEN saved[c].missing = Left(coverage[c].marks)
          ELSE coverage[c] = NoCoverage
    BY <1>4 DEF CoverageAgrees
  <2>2. CASE c # current
    <3>1. saved'[c] = saved[c] /\ coverage'[c] = coverage[c]
      BY <1>1, <1>5, <1>6, <2>2
    <3> QED
      BY <2>1, <3>1
  <2>3. CASE c = current /\ ~HasNotes(fresh)
    <3>1. saved'[c] = saved[c] /\ coverage'[c] = coverage[c]
      BY <1>1, <1>2, <1>5, <2>3
    <3> QED
      BY <2>1, <3>1
  <2>4. CASE c = current /\ HasNotes(fresh)
    <3>1. coverage'[c] = IF ReportsCoverage(object) THEN reported ELSE NoCoverage
      BY <1>1, <1>6, <2>4
    <3>2. HasNotes(saved'[c]) /\ saved'[c].missing = final.missing
      BY <1>2, <1>3, <1>5, <2>4
    <3>3. ReportsCoverage(object) => saved'[c].missing = Left(Marks(object.covered))
      BY <1>2, <2>4, <3>2
    <3> QED
      BY <3>1, <3>2, <3>3 DEF reported, NoCoverage
  <2> QED
    BY <2>2, <2>3, <2>4
<1> QED
  BY <1>8, <1>9, <1>10, <1>11, <1>12 DEF Inv

LEMMA InvNext == Inv /\ [Next]_vars => Inv'
<1> SUFFICES ASSUME Inv, [Next]_vars PROVE Inv'
  OBVIOUS
<1>1. CASE UNCHANGED vars
  <2>5. UNCHANGED <<checklist, current, segments, result, saved, passes, coverage>>
    BY <1>1 DEF vars
  <2> USE <2>5
  <2>1. TypeOK' /\ CoverageType'
    BY DEF Inv, TypeOK, CoverageType
  <2>2. RecordsAgree'
    BY DEF Inv, RecordsAgree, NotesOrNull, HasNotes, Insufficient, PlainText
  <2>3. VerifiedIsSpoken'
    BY DEF Inv, VerifiedIsSpoken, PlainText
  <2>4. CoverageAgrees'
    BY CoverageKept DEF Inv
  <2> QED
    BY <2>1, <2>2, <2>3, <2>4 DEF Inv
<1>2. ASSUME NEW line \in Lines, Hear(line) PROVE Inv'
  BY <1>2, InvHear
<1>3. CASE TooThin
  BY <1>3, InvTooThin
<1>4. ASSUME NEW raw \in Outputs, NEW object \in Objects, GenerateNotes(raw, object) PROVE Inv'
  BY <1>4, InvGenerateNotes
<1>5. ASSUME NEW c \in Consultations, Open(c) PROVE Inv'
  BY <1>5, InvOpen
<1> QED
  BY <1>1, <1>2, <1>3, <1>4, <1>5 DEF Next

(* Every record, screen and coverage stays in agreement.                   *)
THEOREM Invariance == Spec => []Inv
BY InvInit, InvNext, PTL DEF Spec

-----------------------------------------------------------------------------
(* NotesSound: whatever is spoken and whatever the model answers, a record *)
(* holds notes of their type, and a fact shown as verified quotes words    *)
(* that were spoken in its own consultation.                               *)
THEOREM NotesAreSound == Spec => []NotesSound
<1>1. Inv => NotesSound
  BY DEF Inv, NotesSound
<1> QED
  BY <1>1, Invariance, PTL

(* FactsNeverLost: a pass that fails keeps what was noted, and one that    *)
(* does not is merged with it, fact by fact.                               *)
THEOREM NoFactIsLost == Spec => FactsNeverLost
<1> DEFINE Kept == \A c \in Consultations :
                       {Key(f) : f \in ToSet(saved[c].facts)}
                         \subseteq {Key(f) : f \in ToSet(saved'[c].facts)}
<1>1. Inv /\ [Next]_vars => [Kept]_vars
  <2> SUFFICES ASSUME Inv, Next PROVE Kept
    OBVIOUS
  <2>1. CASE saved' = saved
    BY <2>1
  <2>2. ASSUME NEW raw \in Outputs, NEW object \in Objects, GenerateNotes(raw, object)
        PROVE  Kept
    <3>1. saved' = [saved EXCEPT ![current] = NotesOrNull(Final(raw, object))]
      BY <2>2 DEF GenerateNotes, Fresh, Final
    <3>2. \A f \in ToSet(saved[current].facts) :
              \E g \in ToSet(NotesOrNull(Final(raw, object)).facts) : Key(g) = Key(f)
      BY PassMakes
    <3>3. saved \in [Consultations -> Results]
      BY DEF Inv, TypeOK
    <3>4. \A c \in Consultations : saved'[c] = IF c = current THEN NotesOrNull(Final(raw, object))
                                                              ELSE saved[c]
      BY <3>1, <3>3
    <3> QED
      BY <3>2, <3>4
  <2> QED
    BY <2>1, <2>2 DEF Next, Hear, TooThin, Open
<1> QED
  BY <1>1, Invariance, PTL DEF Spec, FactsNeverLost

-----------------------------------------------------------------------------
(* The case report.                                                        *)

LEMMA NotesListed ==
    ASSUME TypeOK
    PROVE  /\ NotesList \in Seq(Results)
           /\ \A x : x \in ToSet(NotesList) <=>
                  \E c \in Consultations : HasNotes(saved[c]) /\ x = saved[c]
<1> DEFINE I == {c \in DOMAIN saved : HasNotes(saved[c])}
<1>1. DOMAIN saved = Consultations /\ saved \in [1 .. MaxConsultations -> Results]
      /\ MaxConsultations \in Nat
  BY IntakeNotesAssumption DEF TypeOK, Consultations
<1>2. saved \in Seq(Results)
  BY <1>1, ListOf
<1>3. NotesList = Picked(saved, I)
  BY DEF NotesList, Where
<1>4. I \cap DOMAIN saved = I
  OBVIOUS
<1>5. \A x : x \in ToSet(Picked(saved, I)) <=> \E i \in I : x = saved[i]
  <2> HIDE DEF I
  <2> QED
    BY <1>2, <1>4, PickedHolds
<1>6. NotesList \in Seq(Results)
  <2> HIDE DEF I
  <2> QED
    BY <1>2, <1>3, PickedHolds
<1> QED
  BY <1>1, <1>3, <1>5, <1>6

LEMMA FactsListed ==
    ASSUME NEW list \in Seq(Results)
    PROVE  LET facts == ReportFacts(list)
           IN  /\ facts \in Seq(Notes)
               /\ \A n \in ToSet(list) : \A f \in ToSet(n.facts) :
                      \E g \in ToSet(facts) : Key(g) = Key(f)
               /\ \A i, j \in DOMAIN facts : Key(facts[i]) = Key(facts[j]) => i = j
<1> DEFINE ss == [i \in DOMAIN list |-> list[i].facts]
           all == FlattenSeq(ss)
<1>1. DOMAIN list = 1 .. Len(list) /\ Len(list) \in Nat
      /\ \A i \in 1 .. Len(list) : list[i] \in Results
  OBVIOUS
<1>2. ss \in [1 .. Len(list) -> Seq(Notes)]
  BY <1>1 DEF Results
<1>3. \A i \in 1 .. Len(list) : ss[i] = list[i].facts
  BY <1>1
<1>4. ReportFacts(list) = DistinctBy(Key, all)
  BY DEF ReportFacts, Mapped
<1> HIDE DEF ss
<1>5. ss \in Seq(Seq(Notes)) /\ Len(ss) = Len(list)
  BY <1>1, <1>2, ListOf
<1>6. /\ all \in Seq(Notes)
      /\ \A x : x \in ToSet(all) <=> \E i \in 1 .. Len(ss) : x \in ToSet(ss[i])
  BY <1>5, FlattenHolds
<1> HIDE DEF all
<1>7. LET d == DistinctBy(Key, all)
      IN  /\ d \in Seq(Notes)
          /\ \A f \in ToSet(all) : \E g \in ToSet(d) : Key(g) = Key(f)
          /\ \A i, j \in DOMAIN d : Key(d[i]) = Key(d[j]) => i = j
  BY <1>6, DistinctFacts
<1>8. ASSUME NEW n \in ToSet(list), NEW f \in ToSet(n.facts) PROVE f \in ToSet(all)
  <2>1. PICK i \in 1 .. Len(list) : n = list[i]
    BY <1>1, <1>8 DEF ToSet
  <2>2. f \in ToSet(ss[i])
    BY <1>3, <1>8, <2>1
  <2> QED
    BY <1>5, <1>6, <2>2
<1> QED
  BY <1>4, <1>7, <1>8

LEMMA MissingListed ==
    ASSUME NEW list \in Seq(Results)
    PROVE  \A t : t \in ToSet(ReportMissing(list)) <=>
                      list # <<>> /\ \A n \in ToSet(list) : t \in ToSet(n.missing)
<1>1. DOMAIN list = 1 .. Len(list) /\ Len(list) \in Nat
      /\ \A i \in 1 .. Len(list) : list[i] \in Results
  OBVIOUS
<1>2. \A t : (\A i \in DOMAIN list : t \in ToSet(list[i].missing))
                 <=> \A n \in ToSet(list) : t \in ToSet(n.missing)
  BY DEF ToSet
<1>3. CASE list = <<>>
  <2>1. ToSet(<<>>) = {}
    BY DEF ToSet
  <2> QED
    BY <1>3, <2>1 DEF ReportMissing
<1>4. CASE list # <<>>
  <2> DEFINE last == list[Len(list)].missing
             I == {k \in DOMAIN last : \A i \in DOMAIN list : last[k] \in ToSet(list[i].missing)}
  <2>1. Len(list) \in 1 .. Len(list) /\ last \in Seq(Texts)
    <3>1. Len(list) # 0
      BY <1>1, <1>4, EmptySeq
    <3> QED
      BY <1>1, <3>1, SMTT(60) DEF Results
  <2>2. ReportMissing(list) = Picked(last, I)
    BY <1>4 DEF ReportMissing, Where
  <2>3. \A x : x \in ToSet(Picked(last, I)) <=> \E k \in I \cap DOMAIN last : x = last[k]
    <3> HIDE DEF I, last
    <3> QED
      BY <2>1, PickedHolds
  <2>4. \A x : (\E k \in I \cap DOMAIN last : x = last[k])
                   <=> \A i \in DOMAIN list : x \in ToSet(list[i].missing)
    <3>1. ASSUME NEW x, \A i \in DOMAIN list : x \in ToSet(list[i].missing)
          PROVE  \E k \in I : x = last[k]
      <4>1. x \in ToSet(last)
        BY <1>1, <2>1, <3>1
      <4>2. PICK k \in DOMAIN last : x = last[k]
        BY <4>1 DEF ToSet
      <4> QED
        BY <3>1, <4>2
    <3> QED
      BY <3>1
  <2> HIDE DEF I, last
  <2> QED
    BY <1>2, <1>4, <2>2, <2>3, <2>4
<1> QED
  BY <1>3, <1>4

LEMMA Outstanding ==
    ASSUME TypeOK
    PROVE  \A t : t \in ToSet(BuildCaseReport.missing) <=>
                      /\ \E c \in Consultations : HasNotes(saved[c])
                      /\ \A c \in Consultations :
                             HasNotes(saved[c]) => t \in ToSet(saved[c].missing)
<1>1. /\ NotesList \in Seq(Results)
      /\ \A x : x \in ToSet(NotesList) <=>
             \E c \in Consultations : HasNotes(saved[c]) /\ x = saved[c]
  BY NotesListed
<1>2. BuildCaseReport.missing = ReportMissing(NotesList)
  BY DEF BuildCaseReport
<1>3. NotesList # <<>> <=> \E n : n \in ToSet(NotesList)
  <2>1. DOMAIN NotesList = 1 .. Len(NotesList) /\ Len(NotesList) \in Nat
    BY <1>1
  <2>2. NotesList # <<>> => Len(NotesList) \in 1 .. Len(NotesList)
    BY <1>1, <2>1, EmptySeq
  <2>3. ToSet(<<>>) = {}
    BY DEF ToSet
  <2>4. NotesList # <<>> => NotesList[Len(NotesList)] \in ToSet(NotesList)
    BY <2>1, <2>2 DEF ToSet
  <2> QED
    BY <2>3, <2>4
<1>4. \A t : t \in ToSet(ReportMissing(NotesList)) <=>
                 NotesList # <<>> /\ \A n \in ToSet(NotesList) : t \in ToSet(n.missing)
  BY <1>1, MissingListed
<1> QED
  BY <1>1, <1>2, <1>3, <1>4

LEMMA HoldsFactsOnce == Inv => ReportHoldsFactsOnce
<1> SUFFICES ASSUME Inv PROVE ReportHoldsFactsOnce
  OBVIOUS
<1> DEFINE facts == ReportFacts(NotesList)
<1>1. /\ NotesList \in Seq(Results)
      /\ \A x : x \in ToSet(NotesList) <=>
             \E c \in Consultations : HasNotes(saved[c]) /\ x = saved[c]
  BY NotesListed DEF Inv
<1>2. BuildCaseReport.facts = facts
  BY DEF BuildCaseReport
<1>3. /\ \A n \in ToSet(NotesList) : \A f \in ToSet(n.facts) :
             \E g \in ToSet(facts) : Key(g) = Key(f)
      /\ \A i, j \in DOMAIN facts : Key(facts[i]) = Key(facts[j]) => i = j
  BY <1>1, FactsListed
<1> HIDE DEF facts
<1>4. ASSUME NEW c \in Consultations, NEW f \in ToSet(saved[c].facts)
      PROVE  \E i \in DOMAIN facts : Key(facts[i]) = Key(f)
  <2>1. HasNotes(saved[c])
    <3>1. saved[c].kind \in {"NULL", "PARSED"} /\ (saved[c].kind = "NULL" => saved[c] = NoResult)
      BY DEF Inv, TypeOK, RecordsAgree
    <3> QED
      BY <1>4, <3>1, NoNotes DEF HasNotes
  <2>2. saved[c] \in ToSet(NotesList)
    BY <1>1, <2>1
  <2>3. PICK g \in ToSet(facts) : Key(g) = Key(f)
    BY <1>3, <1>4, <2>2
  <2> QED
    BY <2>3 DEF ToSet
<1> QED
  BY <1>2, <1>3, <1>4 DEF ReportHoldsFactsOnce

(* What was marked is covered, so it is not what is left.                  *)
LEMMA MarkedIsCovered ==
    ASSUME NEW item, NEW c, Marked(item, c)
    PROVE  Covered(item, coverage[c].marks) /\ coverage[c] # NoCoverage
BY DEF Marked, Covered, NoCoverage

LEMMA NeverMarked == Inv => OutstandingNeverMarked
<1> SUFFICES ASSUME Inv, NEW item \in ToSet(checklist), NEW c \in Consultations, Marked(item, c),
                    item.label \in ToSet(BuildCaseReport.missing)
             PROVE  FALSE
  BY DEF OutstandingNeverMarked
<1>1. checklist \in Checklists /\ TypeOK
  BY DEF Inv, TypeOK
<1>2. HasNotes(saved[c]) /\ saved[c].missing = Left(coverage[c].marks)
  BY MarkedIsCovered DEF Inv, CoverageAgrees
<1>3. item.label \in ToSet(saved[c].missing)
  BY <1>1, <1>2, Outstanding
<1>4. PICK i \in DOMAIN checklist : /\ ~Covered(checklist[i], coverage[c].marks)
                                    /\ item.label = checklist[i].label
  BY <1>1, <1>2, <1>3, ListedMissing
<1>5. PICK j \in DOMAIN checklist : item = checklist[j]
  BY DEF ToSet
<1>6. i = j
  BY <1>1, <1>4, <1>5, ChecklistAssumption
<1> QED
  BY <1>4, <1>5, <1>6, MarkedIsCovered

LEMMA IsSetDifference == Inv => ReportIsSetDifference
<1> DEFINE noted == {c \in Consultations : HasNotes(saved[c])}
           names == {Normalize(t) : t \in UNION {{i.id, i.label} : i \in ToSet(checklist)}}
           missing == ToSet(BuildCaseReport.missing)
           unmarked == {item.label : item \in {i \in ToSet(checklist) :
                                                   \A c \in noted : ~Marked(i, c)}}
<1> SUFFICES ASSUME Inv, noted # {}, AliasFree,
                    \A c \in noted : coverage[c].reported /\ coverage[c].marks \subseteq names
             PROVE  missing = unmarked
  BY DEF ReportIsSetDifference
<1>1. checklist \in Checklists /\ TypeOK
  BY DEF Inv, TypeOK
<1>2. \A t : t \in missing <=> \A c \in noted : t \in ToSet(saved[c].missing)
  BY <1>1, Outstanding
<1>3. \A c \in noted : \A t : t \in ToSet(saved[c].missing) <=>
          \E i \in DOMAIN checklist :
              ~Covered(checklist[i], coverage[c].marks) /\ t = checklist[i].label
  <2>1. \A c \in noted : saved[c].missing = Left(coverage[c].marks)
    BY DEF Inv, CoverageAgrees
  <2> QED
    BY <1>1, <2>1, ListedMissing
<1>4. ASSUME NEW item \in ToSet(checklist), NEW c \in noted
      PROVE  Marked(item, c) <=> Covered(item, coverage[c].marks)
  <2>1. ASSUME Covered(item, coverage[c].marks) PROVE Marked(item, c)
    <3>1. PICK m \in coverage[c].marks : Covered(item, {m})
      BY <2>1 DEF Covered
    <3>2. PICK i \in ToSet(checklist) : \E t \in {i.id, i.label} : m = Normalize(t)
      OBVIOUS
    <3>3. i = item
      BY <3>1, <3>2 DEF AliasFree
    <3> QED
      BY <3>2, <3>3 DEF Marked
  <2> QED
    BY <2>1, MarkedIsCovered
<1> HIDE DEF noted, names, missing
<1>5. ASSUME NEW t \in missing PROVE t \in unmarked
  <2>1. PICK c \in noted : TRUE
    OBVIOUS
  <2>2. PICK i \in DOMAIN checklist : t = checklist[i].label
    BY <1>2, <1>3, <1>5, <2>1
  <2>3. checklist[i] \in ToSet(checklist)
    BY DEF ToSet
  <2>4. ASSUME NEW d \in noted PROVE ~Marked(checklist[i], d)
    <3>1. PICK j \in DOMAIN checklist : /\ ~Covered(checklist[j], coverage[d].marks)
                                        /\ t = checklist[j].label
      BY <1>2, <1>3, <1>5
    <3>2. i = j
      BY <1>1, <2>2, <3>1, ChecklistAssumption
    <3> QED
      BY <1>4, <2>3, <3>1, <3>2
  <2> QED
    BY <2>2, <2>3, <2>4
<1>6. ASSUME NEW t \in unmarked PROVE t \in missing
  <2>1. PICK item \in ToSet(checklist) : t = item.label /\ \A c \in noted : ~Marked(item, c)
    BY <1>6
  <2>2. PICK i \in DOMAIN checklist : item = checklist[i]
    BY DEF ToSet
  <2>3. \A c \in noted : ~Covered(checklist[i], coverage[c].marks)
    BY <1>4, <2>1, <2>2
  <2>4. \A c \in noted : t \in ToSet(saved[c].missing)
    BY <1>3, <2>1, <2>2, <2>3
  <2> QED
    BY <1>2, <2>4
<1> QED
  BY <1>5, <1>6

(* ReportExact: the report of a case holds every fact of every             *)
(* consultation once, lists as outstanding nothing a consultation marked,  *)
(* and is the set difference on a checklist whose items do not alias.      *)
THEOREM ReportIsExact == Spec => []ReportExact
<1>1. Inv => ReportExact
  BY HoldsFactsOnce, NeverMarked, IsSetDifference DEF ReportExact
<1> QED
  BY <1>1, Invariance, PTL

-----------------------------------------------------------------------------
(* The scan for the JSON object, turn by turn.                             *)

Scans(f, text) ==
    f = [n \in 0 .. Len(text) |-> IF n = 0 THEN Start ELSE Scan(f[n - 1], text[n])]

LEMMA ScannerExists ==
    ASSUME NEW text, Len(text) \in Nat
    PROVE  \E f : Scans(f, text)
<1> DEFINE Partial(f, m) ==
        f = [n \in 0 .. m |-> IF n = 0 THEN Start ELSE Scan(f[n - 1], text[n])]
           Good == {m \in Nat : \E f : Partial(f, m)}
<1>1. 0 \in Good
  <2>1. Partial([n \in 0 .. 0 |-> Start], 0)
    OBVIOUS
  <2> QED
    BY <2>1
<1>2. ASSUME NEW m \in Good PROVE m + 1 \in Good
  <2>1. PICK f : Partial(f, m)
    OBVIOUS
  <2> DEFINE g == [n \in 0 .. m + 1 |-> IF n = m + 1 THEN Scan(f[m], text[m + 1]) ELSE f[n]]
  <2>2. Partial(g, m + 1)
    <3>1. \A n \in 0 .. m + 1 : g[n] = IF n = m + 1 THEN Scan(f[m], text[m + 1]) ELSE f[n]
      OBVIOUS
    <3>2. \A n \in 0 .. m : f[n] = IF n = 0 THEN Start ELSE Scan(f[n - 1], text[n])
      BY <2>1
    <3>3. \A n \in 0 .. m + 1 : n # 0 => g[n - 1] = f[n - 1]
      BY <3>1
    <3>4. \A n \in 0 .. m + 1 : g[n] = IF n = 0 THEN Start ELSE Scan(g[n - 1], text[n])
      BY <3>1, <3>2, <3>3
    <3> QED
      BY <3>4
  <2> HIDE DEF g, Partial
  <2> QED
    BY <2>2
<1>3. Good = Nat
  <2>1. Good \subseteq Nat
    OBVIOUS
  <2> HIDE DEF Good
  <2> QED
    BY <1>1, <1>2, <2>1, Induction
<1>4. PICK f : Partial(f, Len(text))
  <2> HIDE DEF Partial
  <2> QED
    BY <1>3
<1> QED
  BY <1>4 DEF Scans

LEMMA Scanner ==
    ASSUME NEW text, Len(text) \in Nat
    PROVE  \E f : /\ Scanned(text) = f[Len(text)] /\ f[0] = Start
                  /\ \A n \in Nat : n < Len(text) => f[n + 1] = Scan(f[n], text[n + 1])
<1> DEFINE f == CHOOSE f : Scans(f, text)
<1>1. Scans(f, text)
  BY ScannerExists
<1>2. Scanned(text) = f[Len(text)]
  BY DEF Scanned, Scans
<1> HIDE DEF f
<1>3. \A m \in 0 .. Len(text) : f[m] = IF m = 0 THEN Start ELSE Scan(f[m - 1], text[m])
  BY <1>1 DEF Scans
<1>4. ASSUME NEW n \in Nat, n < Len(text) PROVE f[n + 1] = Scan(f[n], text[n + 1])
  <2>1. n + 1 \in 0 .. Len(text) /\ n + 1 # 0 /\ (n + 1) - 1 = n
    BY <1>4
  <2> QED
    BY <1>3, <2>1
<1> QED
  BY <1>2, <1>3, <1>4

-----------------------------------------------------------------------------
(* The grammar, length by length.                                          *)

Plain == {<<"{">>, <<"}">>, <<"x">>}
Escapes == {<<"escape", c>> : c \in Chars \ {"fence"}}

LiteralStep(L, k) ==
    L[k - 1] \cup Concat(L[k - 1], Plain)
             \cup IF k = 1 THEN {} ELSE Concat(L[k - 2], Escapes)

Bracket(q, t, r) == <<q>> \o t \o <<r>>
Quoted(T) == {Bracket("quote", t, "quote") : t \in T}
Braced(T) == {Bracket("{", t, "}") : t \in T}

BodyStep(B, k) ==
    B[k - 1] \cup Concat(B[k - 1], {<<"escape">>, <<"x">>})
             \cup UNION {Concat(B[k - 2 - m], Quoted(Literals(m)) \cup Braced(B[m]))
                         : m \in IF k = 1 THEN {} ELSE 0 .. k - 2}

Grows(L, n) == L = [k \in 0 .. n |-> IF k = 0 THEN {<<>>} ELSE LiteralStep(L, k)]
Builds(B, n) == B = [k \in 0 .. n |-> IF k = 0 THEN {<<>>} ELSE BodyStep(B, k)]

LEMMA LiteralStepLocal ==
    ASSUME NEW k \in Nat \ {0}, NEW L, NEW M, \A j \in 0 .. k - 1 : L[j] = M[j]
    PROVE  LiteralStep(L, k) = LiteralStep(M, k)
<1>1. L[k - 1] = M[k - 1] /\ (k # 1 => L[k - 2] = M[k - 2])
  OBVIOUS
<1> QED
  BY <1>1 DEF LiteralStep

LEMMA BodyStepLocal ==
    ASSUME NEW k \in Nat \ {0}, NEW B, NEW M, \A j \in 0 .. k - 1 : B[j] = M[j]
    PROVE  BodyStep(B, k) = BodyStep(M, k)
<1>1. B[k - 1] = M[k - 1]
  OBVIOUS
<1> DEFINE I == IF k = 1 THEN {} ELSE 0 .. k - 2
           In(f, m) == Concat(f[k - 2 - m], Quoted(Literals(m)) \cup Braced(f[m]))
<1>2. ASSUME NEW m \in I PROVE In(B, m) = In(M, m)
  <2>1. B[k - 2 - m] = M[k - 2 - m] /\ B[m] = M[m]
    OBVIOUS
  <2> QED
    BY <2>1
<1>3. \A f : BodyStep(f, k) = f[k - 1] \cup Concat(f[k - 1], {<<"escape">>, <<"x">>})
                                        \cup UNION {In(f, m) : m \in I}
  BY DEF BodyStep
<1> HIDE DEF In, I
<1>4. {In(B, m) : m \in I} = {In(M, m) : m \in I}
  BY <1>2
<1> QED
  BY <1>1, <1>3, <1>4

LEMMA GrowthExists ==
    ASSUME NEW n \in Nat
    PROVE  \E L : Grows(L, n)
<1> DEFINE Good == {m \in Nat : \E L : Grows(L, m)}
<1>1. 0 \in Good
  <2>1. Grows([k \in 0 .. 0 |-> {<<>>}], 0)
    BY DEF Grows
  <2> QED
    BY <2>1
<1>2. ASSUME NEW m \in Good PROVE m + 1 \in Good
  <2>1. PICK L : Grows(L, m)
    OBVIOUS
  <2> DEFINE M == [k \in 0 .. m + 1 |-> IF k = m + 1 THEN LiteralStep(L, m + 1) ELSE L[k]]
  <2>2. Grows(M, m + 1)
    <3>1. \A k \in 0 .. m + 1 : M[k] = IF k = m + 1 THEN LiteralStep(L, m + 1) ELSE L[k]
      OBVIOUS
    <3>2. \A k \in 0 .. m : L[k] = IF k = 0 THEN {<<>>} ELSE LiteralStep(L, k)
      BY <2>1 DEF Grows
    <3> HIDE DEF M
    <3>3. \A k \in 1 .. m + 1 : LiteralStep(L, k) = LiteralStep(M, k)
      <4>1. \A k \in 1 .. m + 1 : \A j \in 0 .. k - 1 : L[j] = M[j]
        BY <3>1
      <4> QED
        BY <4>1, LiteralStepLocal
    <3>4. \A k \in 0 .. m + 1 : M[k] = IF k = 0 THEN {<<>>} ELSE LiteralStep(M, k)
      BY <3>1, <3>2, <3>3
    <3> QED
      BY <3>4 DEF Grows, M
  <2> HIDE DEF M
  <2> QED
    BY <2>2
<1>3. Good = Nat
  <2>1. Good \subseteq Nat
    OBVIOUS
  <2> HIDE DEF Good
  <2> QED
    BY <1>1, <1>2, <2>1, Induction
<1> QED
  BY <1>3

LEMMA GrowthAgrees ==
    ASSUME NEW n \in Nat, NEW m \in Nat, NEW L, NEW M, Grows(L, n), Grows(M, m),
           NEW k \in Nat, k <= n, k <= m
    PROVE  L[k] = M[k]
<1> DEFINE Same == {i \in Nat : \A j \in 0 .. i : j <= n /\ j <= m => L[j] = M[j]}
<1>1. /\ \A j \in 0 .. n : L[j] = IF j = 0 THEN {<<>>} ELSE LiteralStep(L, j)
      /\ \A j \in 0 .. m : M[j] = IF j = 0 THEN {<<>>} ELSE LiteralStep(M, j)
  BY DEF Grows
<1>2. 0 \in Same
  BY <1>1
<1>3. ASSUME NEW i \in Same PROVE i + 1 \in Same
  <2> SUFFICES ASSUME i + 1 <= n, i + 1 <= m PROVE L[i + 1] = M[i + 1]
    OBVIOUS
  <2>1. \A j \in 0 .. (i + 1) - 1 : L[j] = M[j]
    OBVIOUS
  <2>2. LiteralStep(L, i + 1) = LiteralStep(M, i + 1)
    BY <2>1, LiteralStepLocal
  <2> QED
    BY <1>1, <2>2
<1>4. Same = Nat
  <2>1. Same \subseteq Nat
    OBVIOUS
  <2> HIDE DEF Same
  <2> QED
    BY <1>2, <1>3, <2>1, Induction
<1>5. k \in Same
  <2> HIDE DEF Same
  <2> QED
    BY <1>4
<1> QED
  BY <1>5

LEMMA LiteralsStep ==
    /\ Literals(0) = {<<>>}
    /\ \A n \in Nat : Literals(n + 1) =
           Literals(n) \cup Concat(Literals(n), Plain)
                       \cup IF n = 0 THEN {} ELSE Concat(Literals(n - 1), Escapes)
<1> DEFINE Of(n) == CHOOSE L : Grows(L, n)
<1>1. \A n \in Nat : Grows(Of(n), n)
  BY GrowthExists
<1>2. \A n \in Nat : Literals(n) = Of(n)[n]
  BY DEF Literals, Grows, LiteralStep, Plain, Escapes
<1> HIDE DEF Of
<1>3. \A n \in Nat : \A k \in 0 .. n : Of(n)[k] = Literals(k)
  BY <1>1, <1>2, GrowthAgrees
<1>4. \A n \in Nat : \A k \in 0 .. n : Of(n)[k] = IF k = 0 THEN {<<>>} ELSE LiteralStep(Of(n), k)
  BY <1>1 DEF Grows
<1>5. Literals(0) = {<<>>}
  BY <1>2, <1>4
<1>6. ASSUME NEW n \in Nat
      PROVE  Literals(n + 1) =
                 Literals(n) \cup Concat(Literals(n), Plain)
                             \cup IF n = 0 THEN {} ELSE Concat(Literals(n - 1), Escapes)
  <2>1. Literals(n + 1) = LiteralStep(Of(n + 1), n + 1)
    BY <1>2, <1>4
  <2>2. Of(n + 1)[(n + 1) - 1] = Literals(n) /\ (n # 0 => Of(n + 1)[(n + 1) - 2] = Literals(n - 1))
    BY <1>3
  <2> QED
    BY <2>1, <2>2 DEF LiteralStep
<1> QED
  BY <1>5, <1>6

LEMMA BuildExists ==
    ASSUME NEW n \in Nat
    PROVE  \E B : Builds(B, n)
<1> DEFINE Good == {m \in Nat : \E B : Builds(B, m)}
<1>1. 0 \in Good
  <2>1. Builds([k \in 0 .. 0 |-> {<<>>}], 0)
    BY DEF Builds
  <2> QED
    BY <2>1
<1>2. ASSUME NEW m \in Good PROVE m + 1 \in Good
  <2>1. PICK B : Builds(B, m)
    OBVIOUS
  <2> DEFINE M == [k \in 0 .. m + 1 |-> IF k = m + 1 THEN BodyStep(B, m + 1) ELSE B[k]]
  <2>2. Builds(M, m + 1)
    <3>1. \A k \in 0 .. m + 1 : M[k] = IF k = m + 1 THEN BodyStep(B, m + 1) ELSE B[k]
      OBVIOUS
    <3>2. \A k \in 0 .. m : B[k] = IF k = 0 THEN {<<>>} ELSE BodyStep(B, k)
      BY <2>1 DEF Builds
    <3> HIDE DEF M
    <3>3. \A k \in 1 .. m + 1 : BodyStep(B, k) = BodyStep(M, k)
      <4>1. \A k \in 1 .. m + 1 : \A j \in 0 .. k - 1 : B[j] = M[j]
        BY <3>1
      <4> QED
        BY <4>1, BodyStepLocal
    <3>4. \A k \in 0 .. m + 1 : M[k] = IF k = 0 THEN {<<>>} ELSE BodyStep(M, k)
      BY <3>1, <3>2, <3>3
    <3> QED
      BY <3>4 DEF Builds, M
  <2> HIDE DEF M
  <2> QED
    BY <2>2
<1>3. Good = Nat
  <2>1. Good \subseteq Nat
    OBVIOUS
  <2> HIDE DEF Good
  <2> QED
    BY <1>1, <1>2, <2>1, Induction
<1> QED
  BY <1>3

LEMMA BuildsAgree ==
    ASSUME NEW n \in Nat, NEW m \in Nat, NEW B, NEW M, Builds(B, n), Builds(M, m),
           NEW k \in Nat, k <= n, k <= m
    PROVE  B[k] = M[k]
<1> DEFINE Same == {i \in Nat : \A j \in 0 .. i : j <= n /\ j <= m => B[j] = M[j]}
<1>1. /\ \A j \in 0 .. n : B[j] = IF j = 0 THEN {<<>>} ELSE BodyStep(B, j)
      /\ \A j \in 0 .. m : M[j] = IF j = 0 THEN {<<>>} ELSE BodyStep(M, j)
  BY DEF Builds
<1>2. 0 \in Same
  BY <1>1
<1>3. ASSUME NEW i \in Same PROVE i + 1 \in Same
  <2> SUFFICES ASSUME i + 1 <= n, i + 1 <= m PROVE B[i + 1] = M[i + 1]
    OBVIOUS
  <2>1. \A j \in 0 .. (i + 1) - 1 : B[j] = M[j]
    OBVIOUS
  <2>2. BodyStep(B, i + 1) = BodyStep(M, i + 1)
    BY <2>1, BodyStepLocal
  <2> QED
    BY <1>1, <2>2
<1>4. Same = Nat
  <2>1. Same \subseteq Nat
    OBVIOUS
  <2> HIDE DEF Same
  <2> QED
    BY <1>2, <1>3, <2>1, Induction
<1>5. k \in Same
  <2> HIDE DEF Same
  <2> QED
    BY <1>4
<1> QED
  BY <1>5

LEMMA BodiesStep ==
    /\ Bodies(0) = {<<>>}
    /\ \A n \in Nat : Bodies(n + 1) =
           Bodies(n) \cup Concat(Bodies(n), {<<"escape">>, <<"x">>})
                     \cup UNION {Concat(Bodies(n - 1 - m),
                                        Quoted(Literals(m)) \cup Braced(Bodies(m)))
                                 : m \in IF n = 0 THEN {} ELSE 0 .. n - 1}
<1> DEFINE Of(n) == CHOOSE B : Builds(B, n)
<1>1. \A n \in Nat : Builds(Of(n), n)
  BY BuildExists
<1>2. \A n \in Nat : Bodies(n) = Of(n)[n]
  BY DEF Bodies, Builds, BodyStep, Quoted, Braced, Bracket
<1> HIDE DEF Of
<1>3. \A n \in Nat : \A k \in 0 .. n : Of(n)[k] = Bodies(k)
  BY <1>1, <1>2, BuildsAgree
<1>4. \A n \in Nat : \A k \in 0 .. n : Of(n)[k] = IF k = 0 THEN {<<>>} ELSE BodyStep(Of(n), k)
  BY <1>1 DEF Builds
<1>5. Bodies(0) = {<<>>}
  BY <1>2, <1>4
<1>6. ASSUME NEW n \in Nat
      PROVE  Bodies(n + 1) =
           Bodies(n) \cup Concat(Bodies(n), {<<"escape">>, <<"x">>})
                     \cup UNION {Concat(Bodies(n - 1 - m),
                                        Quoted(Literals(m)) \cup Braced(Bodies(m)))
                                 : m \in IF n = 0 THEN {} ELSE 0 .. n - 1}
  <2>1. Bodies(n + 1) = BodyStep(Of(n + 1), n + 1)
    BY <1>2, <1>4
  <2>2. Of(n + 1)[(n + 1) - 1] = Bodies(n)
    BY <1>3
  <2> DEFINE I == IF n = 0 THEN {} ELSE 0 .. n - 1
             J == IF n + 1 = 1 THEN {} ELSE 0 .. (n + 1) - 2
             Built(m) == Concat(Of(n + 1)[(n + 1) - 2 - m],
                                Quoted(Literals(m)) \cup Braced(Of(n + 1)[m]))
             Body(m) == Concat(Bodies(n - 1 - m), Quoted(Literals(m)) \cup Braced(Bodies(m)))
  <2>3. ASSUME NEW m \in I PROVE Built(m) = Body(m)
    <3>1. /\ Of(n + 1)[(n + 1) - 2 - m] = Bodies(n - 1 - m)
          /\ Of(n + 1)[m] = Bodies(m)
      <4>1. m \in 0 .. n + 1 /\ (n + 1) - 2 - m = n - 1 - m /\ n - 1 - m \in 0 .. n + 1
        OBVIOUS
      <4> QED
        BY <1>3, <4>1
    <3> QED
      BY <3>1
  <2>4. I = J
    OBVIOUS
  <2>5. BodyStep(Of(n + 1), n + 1) =
            Of(n + 1)[(n + 1) - 1] \cup Concat(Of(n + 1)[(n + 1) - 1], {<<"escape">>, <<"x">>})
                \cup UNION {Built(m) : m \in J}
    BY DEF BodyStep
  <2> HIDE DEF I, J, Built, Body
  <2>6. {Built(m) : m \in J} = {Body(m) : m \in I}
    BY <2>3, <2>4
  <2>7. Bodies(n + 1) = Bodies(n) \cup Concat(Bodies(n), {<<"escape">>, <<"x">>})
                                  \cup UNION {Body(m) : m \in I}
    BY <2>1, <2>2, <2>5, <2>6
  <2> QED
    BY <2>7 DEF I, Body
<1> QED
  BY <1>5, <1>6

IsLiteral(t) == t \in Literals(Len(t))
IsBody(t) == t \in Bodies(Len(t))

LEMMA ConcatWith ==
    ASSUME NEW S, NEW T, NEW s \in S, NEW t \in T
    PROVE  s \o t \in Concat(S, T)
BY DEF Concat

LEMMA Bracketed ==
    ASSUME NEW q \in Chars, NEW r \in Chars, NEW t \in Seq(Chars)
    PROVE  Bracket(q, t, r) \in Seq(Chars) /\ Len(Bracket(q, t, r)) = Len(t) + 2
<1>1. /\ <<q>> \in Seq(Chars) /\ Len(<<q>>) = 1 /\ <<r>> \in Seq(Chars) /\ Len(<<r>>) = 1
  OBVIOUS
<1>2. <<q>> \o t \in Seq(Chars) /\ Len(<<q>> \o t) = 1 + Len(t)
  BY <1>1
<1> QED
  BY <1>1, <1>2 DEF Bracket

LEMMA PiecesType ==
    /\ <<>> \in Seq(Chars) /\ Plain \subseteq Seq(Chars) /\ Escapes \subseteq Seq(Chars)
    /\ <<"quote">> \in Seq(Chars) /\ <<"{">> \in Seq(Chars) /\ <<"}">> \in Seq(Chars)
    /\ <<"escape">> \in Seq(Chars) /\ <<"x">> \in Seq(Chars)
    /\ \A S, T \in SUBSET Seq(Chars) : Concat(S, T) \subseteq Seq(Chars)
    /\ \A T \in SUBSET Seq(Chars) : /\ Quoted(T) \subseteq Seq(Chars)
                                    /\ Braced(T) \subseteq Seq(Chars)
<1>1. /\ <<>> \in Seq(Chars) /\ Plain \subseteq Seq(Chars) /\ Escapes \subseteq Seq(Chars)
      /\ <<"quote">> \in Seq(Chars) /\ <<"{">> \in Seq(Chars) /\ <<"}">> \in Seq(Chars)
      /\ <<"escape">> \in Seq(Chars) /\ <<"x">> \in Seq(Chars)
  <2>1. {"{", "}", "quote", "escape", "x"} \subseteq Chars
    BY DEF Chars
  <2>2. <<>> \in Seq(Chars)
    OBVIOUS
  <2>3. \A c \in Chars : <<c>> \in Seq(Chars)
    OBVIOUS
  <2>4. \A c, d \in Chars : <<c, d>> \in Seq(Chars)
    OBVIOUS
  <2>5. Plain \subseteq Seq(Chars)
    BY <2>1, <2>3 DEF Plain
  <2>6. Escapes \subseteq Seq(Chars)
    BY <2>1, <2>4 DEF Escapes
  <2> QED
    BY <2>1, <2>2, <2>3, <2>5, <2>6
<1>2. ASSUME NEW S \in SUBSET Seq(Chars), NEW T \in SUBSET Seq(Chars)
      PROVE  Concat(S, T) \subseteq Seq(Chars)
  <2> SUFFICES ASSUME NEW w \in Concat(S, T) PROVE w \in Seq(Chars)
    OBVIOUS
  <2>1. PICK s \in S, t \in T : w = s \o t
    BY DEF Concat
  <2>2. s \in Seq(Chars) /\ t \in Seq(Chars)
    OBVIOUS
  <2> QED
    BY <2>1, <2>2
<1>3. \A q, r \in Chars, t \in Seq(Chars) : Bracket(q, t, r) \in Seq(Chars)
  BY Bracketed
<1>4. ASSUME NEW T \in SUBSET Seq(Chars)
      PROVE  Quoted(T) \subseteq Seq(Chars) /\ Braced(T) \subseteq Seq(Chars)
  <2>1. ASSUME NEW w \in Quoted(T) PROVE w \in Seq(Chars)
    <3>1. PICK t \in T : w = Bracket("quote", t, "quote")
      BY DEF Quoted
    <3>2. "quote" \in Chars /\ t \in Seq(Chars)
      BY DEF Chars
    <3> QED
      BY <1>3, <3>1, <3>2
  <2>2. ASSUME NEW w \in Braced(T) PROVE w \in Seq(Chars)
    <3>1. PICK t \in T : w = Bracket("{", t, "}")
      BY DEF Braced
    <3>2. "{" \in Chars /\ "}" \in Chars /\ t \in Seq(Chars)
      BY DEF Chars
    <3> QED
      BY <1>3, <3>1, <3>2
  <2> QED
    BY <2>1, <2>2
<1> QED
  BY <1>1, <1>2, <1>4

LEMMA LiteralsType == \A n \in Nat : Literals(n) \subseteq Seq(Chars)
<1> DEFINE Fine == {n \in Nat : \A k \in 0 .. n : Literals(k) \in SUBSET Seq(Chars)}
<1>1. 0 \in Fine
  <2>1. Literals(0) \in SUBSET Seq(Chars)
    BY LiteralsStep, PiecesType
  <2> QED
    BY <2>1
<1>2. ASSUME NEW n \in Fine PROVE n + 1 \in Fine
  <2>1. Literals(n) \in SUBSET Seq(Chars) /\ (n # 0 => Literals(n - 1) \in SUBSET Seq(Chars))
    OBVIOUS
  <2>2. Concat(Literals(n), Plain) \in SUBSET Seq(Chars)
    BY <2>1, PiecesType
  <2>3. n # 0 => Concat(Literals(n - 1), Escapes) \in SUBSET Seq(Chars)
    BY <2>1, PiecesType
  <2>4. Literals(n + 1) \in SUBSET Seq(Chars)
    BY <2>1, <2>2, <2>3, LiteralsStep
  <2> QED
    BY <2>4
<1>3. Fine = Nat
  <2>1. Fine \subseteq Nat
    OBVIOUS
  <2> HIDE DEF Fine
  <2> QED
    BY <1>1, <1>2, <2>1, Induction
<1>4. \A n \in Nat : n \in Fine /\ n \in 0 .. n
  <2> HIDE DEF Fine
  <2> QED
    BY <1>3
<1> QED
  BY <1>4

LEMMA BodiesType == \A n \in Nat : Bodies(n) \subseteq Seq(Chars)
<1> DEFINE Fine == {n \in Nat : \A k \in 0 .. n : Bodies(k) \in SUBSET Seq(Chars)}
<1>1. 0 \in Fine
  <2>1. Bodies(0) \in SUBSET Seq(Chars)
    BY BodiesStep, PiecesType
  <2> QED
    BY <2>1
<1>2. ASSUME NEW n \in Fine PROVE n + 1 \in Fine
  <2> DEFINE I == IF n = 0 THEN {} ELSE 0 .. n - 1
             Pieces(m) == Quoted(Literals(m)) \cup Braced(Bodies(m))
             Body(m) == Concat(Bodies(n - 1 - m), Pieces(m))
  <2>1. \A k \in 0 .. n : Bodies(k) \in SUBSET Seq(Chars)
    OBVIOUS
  <2>2. ASSUME NEW m \in I PROVE Body(m) \in SUBSET Seq(Chars)
    <3>1. m \in 0 .. n /\ n - 1 - m \in 0 .. n
      OBVIOUS
    <3>2. /\ Bodies(m) \in SUBSET Seq(Chars) /\ Bodies(n - 1 - m) \in SUBSET Seq(Chars)
          /\ Literals(m) \in SUBSET Seq(Chars)
      BY <2>1, <3>1, LiteralsType
    <3>3. Pieces(m) \in SUBSET Seq(Chars)
      BY <3>2, PiecesType
    <3> HIDE DEF Pieces
    <3> QED
      BY <3>2, <3>3, PiecesType
  <2>3. Concat(Bodies(n), {<<"escape">>, <<"x">>}) \in SUBSET Seq(Chars)
    <3>1. {<<"escape">>, <<"x">>} \in SUBSET Seq(Chars)
      BY PiecesType
    <3>2. Bodies(n) \in SUBSET Seq(Chars)
      BY <2>1
    <3> QED
      BY <3>1, <3>2, PiecesType
  <2>4. Bodies(n + 1) = Bodies(n) \cup Concat(Bodies(n), {<<"escape">>, <<"x">>})
                                  \cup UNION {Body(m) : m \in I}
    BY BodiesStep
  <2> HIDE DEF I, Body
  <2>5. UNION {Body(m) : m \in I} \in SUBSET Seq(Chars)
    BY <2>2
  <2>6. Bodies(n + 1) \in SUBSET Seq(Chars)
    BY <2>1, <2>3, <2>4, <2>5
  <2> QED
    BY <2>6
<1>3. Fine = Nat
  <2>1. Fine \subseteq Nat
    OBVIOUS
  <2> HIDE DEF Fine
  <2> QED
    BY <1>1, <1>2, <2>1, Induction
<1>4. \A n \in Nat : n \in Fine /\ n \in 0 .. n
  <2> HIDE DEF Fine
  <2> QED
    BY <1>3
<1> QED
  BY <1>4

LEMMA BodiesGrow ==
    ASSUME NEW k \in Nat, NEW n \in Nat, k <= n
    PROVE  Bodies(k) \subseteq Bodies(n)
<1> DEFINE Fine == {j \in Nat : Bodies(k) \subseteq Bodies(k + j)}
<1>1. 0 \in Fine
  OBVIOUS
<1>2. ASSUME NEW j \in Fine PROVE j + 1 \in Fine
  <2>1. Bodies(k + j) \subseteq Bodies((k + j) + 1) /\ (k + j) + 1 = k + (j + 1)
    BY BodiesStep
  <2> QED
    BY <2>1
<1>3. Fine = Nat
  <2>1. Fine \subseteq Nat
    OBVIOUS
  <2> HIDE DEF Fine
  <2> QED
    BY <1>1, <1>2, <2>1, Induction
<1>4. n - k \in Fine /\ k + (n - k) = n
  <2> HIDE DEF Fine
  <2> QED
    BY <1>3
<1> QED
  BY <1>4

(* Literals and bodies go on.                                              *)
LEMMA LiteralGoesOn ==
    ASSUME NEW t \in Seq(Chars), IsLiteral(t)
    PROVE  /\ \A c \in {"{", "}", "x"} : IsLiteral(t \o <<c>>)
           /\ \A c \in Chars \ {"fence"} : IsLiteral(t \o <<"escape", c>>)
<1>1. Len(t) \in Nat
  OBVIOUS
<1>2. ASSUME NEW c \in {"{", "}", "x"} PROVE IsLiteral(t \o <<c>>)
  <2>1. <<c>> \in Plain
    BY DEF Plain
  <2>4. Len(t \o <<c>>) = Len(t) + 1
    <3>1. <<c>> \in Seq(Chars)
      BY <2>1, PiecesType
    <3>2. \A u \in Seq(Chars) : Len(t \o u) = Len(t) + Len(u)
      BY ConcatProperties
    <3>3. Len(<<c>>) = 1
      OBVIOUS
    <3> QED
      BY <3>1, <3>2, <3>3
  <2>2. t \o <<c>> \in Concat(Literals(Len(t)), Plain)
    BY <2>1, ConcatWith DEF IsLiteral
  <2> QED
    BY <1>1, <2>2, <2>4, LiteralsStep DEF IsLiteral
<1>3. ASSUME NEW c \in Chars \ {"fence"} PROVE IsLiteral(t \o <<"escape", c>>)
  <2>5. <<"escape", c>> \in Escapes
    BY DEF Escapes
  <2>1. Len(t \o <<"escape", c>>) = Len(t) + 2
    <3>1. <<"escape", c>> \in Seq(Chars) /\ Len(<<"escape", c>>) = 2
      BY <2>5, PiecesType
    <3> QED
      BY <3>1
  <2>2. t \o <<"escape", c>> \in Concat(Literals(Len(t)), Escapes)
    BY <2>5, ConcatWith DEF IsLiteral
  <2>3. /\ Len(t) + 1 \in Nat /\ Len(t) + 1 # 0 /\ (Len(t) + 1) - 1 = Len(t)
        /\ (Len(t) + 1) + 1 = Len(t) + 2
    BY <1>1
  <2>4. Concat(Literals(Len(t)), Escapes) \subseteq Literals((Len(t) + 1) + 1)
    <3> HIDE <1>1
    <3>1. \A n \in Nat : n # 0 => Concat(Literals(n - 1), Escapes) \subseteq Literals(n + 1)
      BY LiteralsStep
    <3> QED
      BY <2>3, <3>1
  <2> QED
    BY <2>1, <2>2, <2>3, <2>4 DEF IsLiteral
<1> QED
  BY <1>2, <1>3

LEMMA BodyGoesOn ==
    ASSUME NEW b \in Seq(Chars), IsBody(b)
    PROVE  /\ \A c \in {"escape", "x"} : IsBody(b \o <<c>>)
           /\ \A t \in Seq(Chars) : IsLiteral(t) => IsBody(b \o Bracket("quote", t, "quote"))
           /\ \A t \in Seq(Chars) : IsBody(t) => IsBody(b \o Bracket("{", t, "}"))
<1>1. Len(b) \in Nat
  OBVIOUS
<1>2. ASSUME NEW c \in {"escape", "x"} PROVE IsBody(b \o <<c>>)
  <2>1. Len(b \o <<c>>) = Len(b) + 1
    BY <1>1
  <2>2. b \o <<c>> \in Concat(Bodies(Len(b)), {<<"escape">>, <<"x">>})
    BY DEF Concat, IsBody
  <2> QED
    BY <1>1, <2>1, <2>2, BodiesStep DEF IsBody
<1>3. ASSUME NEW t \in Seq(Chars), NEW u \in Quoted(Literals(Len(t))) \cup Braced(Bodies(Len(t))),
             Len(b \o u) = Len(b) + Len(t) + 2
      PROVE  IsBody(b \o u)
  <2> DEFINE n == Len(b) + Len(t) + 1
  <2>1. n \in Nat /\ n # 0 /\ Len(t) \in 0 .. n - 1 /\ n - 1 - Len(t) = Len(b)
        /\ n + 1 = Len(b \o u)
    BY <1>1, <1>3
  <2>2. b \o u \in Concat(Bodies(n - 1 - Len(t)), Quoted(Literals(Len(t))) \cup Braced(Bodies(Len(t))))
    BY <1>3, <2>1, SMTT(60) DEF Concat, IsBody
  <2> HIDE DEF n
  <2>3. b \o u \in UNION {Concat(Bodies(n - 1 - m), Quoted(Literals(m)) \cup Braced(Bodies(m)))
                          : m \in 0 .. n - 1}
    BY <2>1, <2>2
  <2>4. b \o u \in Bodies(n + 1)
    BY <2>1, <2>3, BodiesStep
  <2> QED
    BY <2>1, <2>4 DEF IsBody
<1>4. ASSUME NEW t \in Seq(Chars), NEW q \in Chars, NEW r \in Chars
      PROVE  Len(b \o Bracket(q, t, r)) = Len(b) + Len(t) + 2
  <2>1. Bracket(q, t, r) \in Seq(Chars) /\ Len(Bracket(q, t, r)) = Len(t) + 2
    BY Bracketed
  <2> QED
    BY <2>1, SMTT(60)
<1>5. {"{", "}", "quote"} \subseteq Chars
  BY DEF Chars
<1> QED
  <2>1. ASSUME NEW t \in Seq(Chars), IsLiteral(t)
        PROVE  IsBody(b \o Bracket("quote", t, "quote"))
    <3>1. Bracket("quote", t, "quote") \in Quoted(Literals(Len(t)))
      BY <2>1 DEF Quoted, IsLiteral
    <3> QED
      BY <1>3, <1>4, <1>5, <3>1
  <2>2. ASSUME NEW t \in Seq(Chars), IsBody(t)
        PROVE  IsBody(b \o Bracket("{", t, "}"))
    <3>1. Bracket("{", t, "}") \in Braced(Bodies(Len(t)))
      BY <2>2 DEF Braced, IsBody
    <3> QED
      BY <1>3, <1>4, <1>5, <3>1
  <2> QED
    BY <1>2, <2>1, <2>2

-----------------------------------------------------------------------------
(* What the grammar generates the scan accepts.                            *)

State(depth, inString, escaped, length) ==
    [depth |-> depth, inString |-> inString, escaped |-> escaped, length |-> length, done |-> FALSE]
Between(depth, length) == State(depth, FALSE, FALSE, length)
InLiteral(depth, length) == State(depth, TRUE, FALSE, length)
AfterEscape(depth, length) == State(depth, TRUE, TRUE, length)

LEMMA TurnsBetween ==
    ASSUME NEW d \in Nat, NEW n \in Nat
    PROVE  /\ Scan(Between(d, n), "{") = Between(d + 1, n + 1)
           /\ d # 1 => Scan(Between(d, n), "}") = Between(d - 1, n + 1)
           /\ Scan(Between(d, n), "quote") = InLiteral(d, n + 1)
           /\ \A c \in {"escape", "x"} : Scan(Between(d, n), c) = Between(d, n + 1)
<1> USE DEF State, Between, InLiteral
<1>1. /\ Scan(Between(d, n), "{") = Between(d + 1, n + 1)
      /\ Scan(Between(d, n), "quote") = InLiteral(d, n + 1)
  BY DEF Scan
<1>2. d # 1 => Scan(Between(d, n), "}") = Between(d - 1, n + 1)
  BY DEF Scan
<1>3. \A c \in {"escape", "x"} : Scan(Between(d, n), c) = Between(d, n + 1)
  BY ZenonT(60) DEF Scan
<1> QED
  BY <1>1, <1>2, <1>3

LEMMA TurnAtEnd ==
    ASSUME NEW n \in Nat
    PROVE  Scan(Between(1, n), "}").done /\ Scan(Between(1, n), "}").length = n + 1
BY DEF Scan, State, Between

LEMMA TurnsInLiteral ==
    ASSUME NEW d \in Nat, NEW n \in Nat
    PROVE  /\ Scan(InLiteral(d, n), "quote") = Between(d, n + 1)
           /\ Scan(InLiteral(d, n), "escape") = AfterEscape(d, n + 1)
           /\ \A c \in {"{", "}", "x"} : Scan(InLiteral(d, n), c) = InLiteral(d, n + 1)
<1> USE DEF State, Between, InLiteral, AfterEscape
<1>1. /\ Scan(InLiteral(d, n), "quote") = Between(d, n + 1)
      /\ Scan(InLiteral(d, n), "escape") = AfterEscape(d, n + 1)
  BY DEF Scan
<1>2. \A c \in {"{", "}", "x"} : Scan(InLiteral(d, n), c) = InLiteral(d, n + 1)
  BY ZenonT(60) DEF Scan
<1> QED
  BY <1>1, <1>2

LEMMA TurnAfterEscape ==
    ASSUME NEW d \in Nat, NEW n \in Nat, NEW c
    PROVE  Scan(AfterEscape(d, n), c) = InLiteral(d, n + 1)
BY DEF Scan, State, InLiteral, AfterEscape

(* f is what the scan of the text has come to after each of its turns.     *)
Follows(f, text) ==
    /\ text \in Seq(Chars \ {"fence"}) /\ f[0] = Start
    /\ \A n \in Nat : n < Len(text) => f[n + 1] = Scan(f[n], text[n + 1])

(* t stands in the text behind its first i characters.                     *)
At(text, i, t) == i + Len(t) <= Len(text) /\ \A j \in 1 .. Len(t) : text[i + j] = t[j]

LEMMA AtConcat ==
    ASSUME NEW text, Len(text) \in Nat, NEW s \in Seq(Chars), NEW t \in Seq(Chars),
           NEW i \in Nat, At(text, i, s \o t)
    PROVE  /\ At(text, i, s) /\ At(text, i + Len(s), t)
           /\ i + Len(s) \in Nat /\ (i + Len(s)) + Len(t) = i + Len(s \o t)
<1>1. /\ Len(s) \in Nat /\ Len(t) \in Nat /\ Len(s \o t) = Len(s) + Len(t)
      /\ \A j \in 1 .. Len(s) + Len(t) : (s \o t)[j] = IF j <= Len(s) THEN s[j] ELSE t[j - Len(s)]
  BY ConcatProperties
<1>2. i + Len(s \o t) <= Len(text) /\ \A j \in 1 .. Len(s) + Len(t) : text[i + j] = (s \o t)[j]
  BY <1>1 DEF At
<1>3. \A j \in 1 .. Len(s) : text[i + j] = s[j]
  BY <1>1, <1>2, SMTT(60)
<1>4. ASSUME NEW j \in 1 .. Len(t) PROVE text[(i + Len(s)) + j] = t[j]
  <2>1. Len(s) + j \in 1 .. Len(s) + Len(t) /\ ~(Len(s) + j <= Len(s)) /\ (Len(s) + j) - Len(s) = j
        /\ i + (Len(s) + j) = (i + Len(s)) + j
    BY <1>1
  <2> QED
    BY <1>1, <1>2, <2>1
<1> QED
  BY <1>1, <1>2, <1>3, <1>4 DEF At

(* A character.                                                            *)
AtChar(text, i, c) == i + 1 <= Len(text) /\ text[i + 1] = c

LEMMA AtOne ==
    ASSUME NEW text, NEW i \in Nat, NEW c, At(text, i, <<c>>)
    PROVE  AtChar(text, i, c) /\ Len(<<c>>) = 1
<1>1. Len(<<c>>) = 1 /\ <<c>>[1] = c
  OBVIOUS
<1> QED
  BY <1>1 DEF At, AtChar

LEMMA AtThree ==
    ASSUME NEW text, Len(text) \in Nat, NEW a \in Seq(Chars), NEW t \in Seq(Chars),
           NEW z \in Seq(Chars), NEW i \in Nat, At(text, i, (a \o t) \o z),
           Len(a) = 1, Len(z) = 1
    PROVE  /\ At(text, i, a) /\ At(text, i + 1, t) /\ At(text, i + 1 + Len(t), z)
           /\ i + 1 \in Nat /\ i + 1 + Len(t) \in Nat
           /\ i + Len((a \o t) \o z) = (i + 1 + Len(t)) + 1
<1>1. a \o t \in Seq(Chars) /\ Len(a \o t) = 1 + Len(t) /\ Len(t) \in Nat
  BY ConcatProperties, SMTT(60)
<1>2. /\ At(text, i, a \o t) /\ At(text, i + Len(a \o t), z)
      /\ (i + Len(a \o t)) + Len(z) = i + Len((a \o t) \o z)
  <2>1. \A s, u \in Seq(Chars) : At(text, i, s \o u) =>
          At(text, i, s) /\ At(text, i + Len(s), u) /\ (i + Len(s)) + Len(u) = i + Len(s \o u)
    BY AtConcat
  <2>2. a \o t \in Seq(Chars)
    BY <1>1
  <2> QED
    BY <2>1, <2>2, Zenon
<1>3. At(text, i, a) /\ At(text, i + Len(a), t)
  BY <1>2, AtConcat
<1>4. i + (1 + Len(t)) = i + 1 + Len(t) /\ i + 1 \in Nat /\ i + 1 + Len(t) \in Nat
  BY <1>1
<1> QED
  BY <1>1, <1>2, <1>3, <1>4

(* A piece of text between two brackets.                                   *)
LEMMA AtBracketed ==
    ASSUME NEW text, Len(text) \in Nat, NEW t \in Seq(Chars), NEW i \in Nat,
           NEW q \in Chars, NEW r \in Chars, At(text, i, Bracket(q, t, r))
    PROVE  /\ AtChar(text, i, q) /\ At(text, i + 1, t) /\ AtChar(text, i + 1 + Len(t), r)
           /\ i + 1 \in Nat /\ i + 1 + Len(t) \in Nat
           /\ i + Len(Bracket(q, t, r)) = (i + 1 + Len(t)) + 1
<1>1. /\ <<q>> \in Seq(Chars) /\ Len(<<q>>) = 1 /\ <<r>> \in Seq(Chars) /\ Len(<<r>>) = 1
  OBVIOUS
<1>2. Bracket(q, t, r) = (<<q>> \o t) \o <<r>>
  BY DEF Bracket
<1>3. \A a, z \in Seq(Chars) :
        At(text, i, (a \o t) \o z) /\ Len(a) = 1 /\ Len(z) = 1 =>
          /\ At(text, i, a) /\ At(text, i + 1, t) /\ At(text, i + 1 + Len(t), z)
          /\ i + 1 \in Nat /\ i + 1 + Len(t) \in Nat
          /\ i + Len((a \o t) \o z) = (i + 1 + Len(t)) + 1
  BY AtThree
<1>4. /\ At(text, i, <<q>>) /\ At(text, i + 1, t) /\ At(text, i + 1 + Len(t), <<r>>)
      /\ i + 1 \in Nat /\ i + 1 + Len(t) \in Nat
      /\ i + Len((<<q>> \o t) \o <<r>>) = (i + 1 + Len(t)) + 1
  <2>1. At(text, i, (<<q>> \o t) \o <<r>>)
    BY <1>2
  <2> QED
    BY <1>1, <1>3, <2>1
<1>5. AtChar(text, i, q) /\ AtChar(text, i + 1 + Len(t), r)
  BY <1>4, AtOne
<1> QED
  BY <1>2, <1>4, <1>5

LEMMA TextTyped ==
    ASSUME NEW f, NEW text, Follows(f, text)
    PROVE  Len(text) \in Nat /\ text \in Seq(Chars) /\ \A n \in 1 .. Len(text) : text[n] \in Chars \ {"fence"}
BY DEF Follows

LEMMA Turn ==
    ASSUME NEW f, NEW text, Follows(f, text), NEW i \in Nat, NEW c, AtChar(text, i, c)
    PROVE  f[i + 1] = Scan(f[i], c)
<1>1. i + 1 <= Len(text) /\ text[i + 1] = c
  BY DEF AtChar
<1>2. i < Len(text)
  BY <1>1, TextTyped
<1> QED
  BY <1>1, <1>2 DEF Follows

LEMMA Turns ==
    ASSUME NEW f, NEW text, Follows(f, text)
    PROVE  /\ \A i \in Nat, c \in Chars : AtChar(text, i, c) => f[i + 1] = Scan(f[i], c)
           /\ \A i \in Nat, q, r \in Chars, t \in Seq(Chars) :
                 At(text, i, Bracket(q, t, r)) =>
                   /\ AtChar(text, i, q) /\ At(text, i + 1, t) /\ AtChar(text, i + 1 + Len(t), r)
                   /\ i + 1 \in Nat /\ i + 1 + Len(t) \in Nat
                   /\ i + Len(Bracket(q, t, r)) = (i + 1 + Len(t)) + 1
BY Turn, AtBracketed, TextTyped

(* What stands in a string is scanned to its end, and what stands between  *)
(* braces is.                                                              *)
LiteralRead(f, text, t) ==
    \A i, d \in Nat : At(text, i, t) /\ f[i] = InLiteral(d, i)
                          => f[i + Len(t)] = InLiteral(d, i + Len(t))
BodyRead(f, text, t) ==
    \A i \in Nat, d \in Nat \ {0} :
        At(text, i, t) /\ f[i] = Between(d, i)
            => f[i + Len(t)] = Between(d, i + Len(t))

LEMMA LiteralReadOn ==
    ASSUME NEW f, NEW text, Follows(f, text), NEW u \in Seq(Chars), LiteralRead(f, text, u)
    PROVE  /\ \A v \in Plain : LiteralRead(f, text, u \o v)
           /\ \A v \in Escapes : LiteralRead(f, text, u \o v)
<1>1. Len(text) \in Nat
  BY TextTyped
<1>2. ASSUME NEW v \in Plain, NEW i \in Nat, NEW d \in Nat, At(text, i, u \o v),
             f[i] = InLiteral(d, i)
      PROVE  f[i + Len(u \o v)] = InLiteral(d, i + Len(u \o v))
  <2> DEFINE j == i + Len(u)
  <2>1. v \in Seq(Chars)
    BY PiecesType
  <2>2. At(text, i, u) /\ At(text, j, v) /\ j \in Nat /\ j + Len(v) = i + Len(u \o v)
    BY <1>1, <1>2, <2>1, AtConcat
  <2>3. f[j] = InLiteral(d, j)
    BY <1>2, <2>2 DEF LiteralRead
  <2> HIDE DEF j
  <2>4. PICK c \in {"{", "}", "x"} : v = <<c>>
    BY DEF Plain
  <2>5. f[j + 1] = Scan(f[j], c) /\ Len(v) = 1
    BY <2>2, <2>4, AtOne, Turn, ZenonT(120)
  <2>6. Scan(f[j], c) = InLiteral(d, j + 1)
    BY <2>2, <2>3, TurnsInLiteral, ZenonT(120)
  <2> QED
    BY <2>2, <2>5, <2>6
<1>3. ASSUME NEW v \in Escapes, NEW i \in Nat, NEW d \in Nat, At(text, i, u \o v),
             f[i] = InLiteral(d, i)
      PROVE  f[i + Len(u \o v)] = InLiteral(d, i + Len(u \o v))
  <2> DEFINE j == i + Len(u)
  <2>1. v \in Seq(Chars)
    BY PiecesType
  <2>2. At(text, i, u) /\ At(text, j, v) /\ j \in Nat /\ j + Len(v) = i + Len(u \o v)
    BY <1>1, <1>3, <2>1, AtConcat
  <2>3. f[j] = InLiteral(d, j)
    BY <1>3, <2>2 DEF LiteralRead
  <2> HIDE DEF j
  <2>4. PICK c \in Chars : v = <<"escape", c>>
    BY DEF Escapes
  <2>5. /\ j + 2 <= Len(text) /\ text[j + 1] = "escape" /\ text[(j + 1) + 1] = c /\ Len(v) = 2
        /\ j + 1 \in Nat /\ (j + 1) + 1 = j + 2
    <3>1. Len(v) = 2 /\ v[1] = "escape" /\ v[2] = c
      BY <2>4
    <3>2. j + Len(v) <= Len(text) /\ \A k \in 1 .. Len(v) : text[j + k] = v[k]
      BY <2>2 DEF At
    <3>3. text[j + 1] = v[1] /\ text[j + 2] = v[2]
      BY <3>1, <3>2
    <3>4. j + 1 \in Nat /\ (j + 1) + 1 = j + 2
      BY <2>2
    <3> QED
      BY <3>1, <3>2, <3>3, <3>4
  <2>6. f[j + 1] = Scan(f[j], "escape") /\ f[(j + 1) + 1] = Scan(f[j + 1], c)
    <3>1. j < Len(text) /\ j + 1 < Len(text)
      BY <1>1, <2>2, <2>5
    <3> QED
      BY <2>2, <2>5, <3>1 DEF Follows
  <2>7. f[j + 1] = AfterEscape(d, j + 1)
    BY <2>2, <2>3, <2>6, TurnsInLiteral
  <2>8. f[(j + 1) + 1] = InLiteral(d, (j + 1) + 1)
    BY <2>5, <2>6, <2>7, TurnAfterEscape
  <2> QED
    BY <2>2, <2>5, <2>8
<1> QED
  BY <1>2, <1>3 DEF LiteralRead

LEMMA LiteralsRead ==
    ASSUME NEW f, NEW text, Follows(f, text)
    PROVE  \A n \in Nat : \A t \in Literals(n) : LiteralRead(f, text, t)
<1> DEFINE Fine == {n \in Nat : \A k \in 0 .. n : \A t \in Literals(k) : LiteralRead(f, text, t)}
<1>1. 0 \in Fine
  <2>1. \A t \in Literals(0) : t = <<>>
    BY LiteralsStep
  <2>2. LiteralRead(f, text, <<>>)
    <3>1. \A i \in Nat : i + Len(<<>>) = i
      OBVIOUS
    <3> QED
      BY <3>1 DEF LiteralRead
  <2> QED
    BY <2>1, <2>2
<1>2. ASSUME NEW n \in Fine PROVE n + 1 \in Fine
  <2>1. \A k \in 0 .. n : \A t \in Literals(k) : LiteralRead(f, text, t)
    OBVIOUS
  <2>2. ASSUME NEW k \in 0 .. n, NEW t \in Concat(Literals(k), Plain) PROVE LiteralRead(f, text, t)
    <3>1. PICK u \in Literals(k), v \in Plain : t = u \o v
      BY DEF Concat
    <3>2. u \in Seq(Chars)
      BY LiteralsType
    <3> QED
      BY <2>1, <3>1, <3>2, LiteralReadOn
  <2>3. ASSUME NEW k \in 0 .. n, NEW t \in Concat(Literals(k), Escapes) PROVE LiteralRead(f, text, t)
    <3>1. PICK u \in Literals(k), v \in Escapes : t = u \o v
      BY DEF Concat
    <3>2. u \in Seq(Chars)
      BY LiteralsType
    <3> QED
      BY <2>1, <3>1, <3>2, LiteralReadOn
  <2>4. \A t \in Literals(n + 1) : LiteralRead(f, text, t)
    <3>1. n \in 0 .. n /\ (n # 0 => n - 1 \in 0 .. n)
      OBVIOUS
    <3> QED
      BY <2>1, <2>2, <2>3, <3>1, LiteralsStep
  <2> QED
    BY <2>1, <2>4
<1>3. Fine = Nat
  <2>1. Fine \subseteq Nat
    OBVIOUS
  <2> HIDE DEF Fine
  <2> QED
    BY <1>1, <1>2, <2>1, Induction
<1>4. \A n \in Nat : n \in Fine /\ n \in 0 .. n
  <2> HIDE DEF Fine
  <2> QED
    BY <1>3
<1> QED
  BY <1>4

LEMMA BodyReadOn ==
    ASSUME NEW f, NEW text, Follows(f, text), NEW b \in Seq(Chars), BodyRead(f, text, b)
    PROVE  /\ \A v \in {<<"escape">>, <<"x">>} : BodyRead(f, text, b \o v)
           /\ \A t \in Seq(Chars) : LiteralRead(f, text, t) =>
                  BodyRead(f, text, b \o Bracket("quote", t, "quote"))
           /\ \A t \in Seq(Chars) : BodyRead(f, text, t) =>
                  BodyRead(f, text, b \o Bracket("{", t, "}"))
<1>0. "{" \in Chars /\ "}" \in Chars /\ "quote" \in Chars
  BY DEF Chars
<1>1. Len(text) \in Nat
  BY TextTyped
<1>t. /\ \A i \in Nat, c \in Chars : AtChar(text, i, c) => f[i + 1] = Scan(f[i], c)
      /\ \A i \in Nat, q, r \in Chars, t \in Seq(Chars) :
            At(text, i, Bracket(q, t, r)) =>
              /\ AtChar(text, i, q) /\ At(text, i + 1, t) /\ AtChar(text, i + 1 + Len(t), r)
              /\ i + 1 \in Nat /\ i + 1 + Len(t) \in Nat
              /\ i + Len(Bracket(q, t, r)) = (i + 1 + Len(t)) + 1
  BY Turns
<1>2. ASSUME NEW v \in Seq(Chars), NEW i \in Nat, NEW d \in Nat \ {0}, At(text, i, b \o v),
             f[i] = Between(d, i)
      PROVE  LET j == i + Len(b)
             IN  /\ At(text, j, v) /\ j \in Nat /\ j + Len(v) = i + Len(b \o v)
                 /\ f[j] = Between(d, j)
  <2>1. /\ At(text, i, b) /\ At(text, i + Len(b), v) /\ i + Len(b) \in Nat
        /\ (i + Len(b)) + Len(v) = i + Len(b \o v)
    BY <1>1, <1>2, AtConcat
  <2> QED
    BY <1>2, <2>1 DEF BodyRead
<1>3. ASSUME NEW v \in {<<"escape">>, <<"x">>}, NEW i \in Nat, NEW d \in Nat \ {0},
             At(text, i, b \o v), f[i] = Between(d, i)
      PROVE  f[i + Len(b \o v)] = Between(d, i + Len(b \o v))
  <2> DEFINE j == i + Len(b)
  <2>1. v \in Seq(Chars)
    BY PiecesType
  <2>2. At(text, j, v) /\ j \in Nat /\ j + Len(v) = i + Len(b \o v) /\ f[j] = Between(d, j)
    BY <1>2, <1>3, <2>1
  <2> HIDE DEF j
  <2>3. PICK c \in {"escape", "x"} : v = <<c>>
    OBVIOUS
  <2>4. f[j + 1] = Scan(f[j], c) /\ Len(v) = 1
    BY <2>2, <2>3, AtOne, Turn
  <2>5. Scan(f[j], c) = Between(d, j + 1)
    <3>1. d \in Nat /\ j \in Nat
      BY <2>2
    <3>2. Scan(Between(d, j), c) = Between(d, j + 1)
      BY <3>1, TurnsBetween
    <3> QED
      BY <2>2, <3>2
  <2> QED
    BY <2>2, <2>4, <2>5
<1>4. ASSUME NEW t \in Seq(Chars), LiteralRead(f, text, t), NEW i \in Nat, NEW d \in Nat \ {0},
             At(text, i, b \o Bracket("quote", t, "quote")), f[i] = Between(d, i)
      PROVE  f[i + Len(b \o Bracket("quote", t, "quote"))]
                 = Between(d, i + Len(b \o Bracket("quote", t, "quote")))
  <2> DEFINE v == Bracket("quote", t, "quote")
             j == i + Len(b)
             k == j + 1 + Len(t)
  <2>1. v \in Seq(Chars)
    BY <1>0, Bracketed
  <2>2. At(text, j, v) /\ j \in Nat /\ j + Len(v) = i + Len(b \o v) /\ f[j] = Between(d, j)
    BY <1>2, <1>4, <2>1
  <2> HIDE DEF j
  <2> HIDE DEF v
  <2>3. /\ AtChar(text, j, "quote") /\ At(text, j + 1, t) /\ AtChar(text, k, "quote")
        /\ j + 1 \in Nat /\ k \in Nat /\ j + Len(v) = k + 1
    <3>1. At(text, j, Bracket("quote", t, "quote")) /\ j \in Nat
      BY <2>2 DEF v
    <3> HIDE DEF k
    <3>2. /\ AtChar(text, j, "quote") /\ At(text, j + 1, t) /\ AtChar(text, j + 1 + Len(t), "quote")
          /\ j + 1 \in Nat /\ j + 1 + Len(t) \in Nat
          /\ j + Len(Bracket("quote", t, "quote")) = (j + 1 + Len(t)) + 1
      BY <1>0, <1>1, <3>1, <1>t, ZenonT(120)
    <3> QED
      BY <3>2 DEF v, k
  <2>4. f[j + 1] = InLiteral(d, j + 1)
    <3>1. d \in Nat
      OBVIOUS
    <3>2. Scan(Between(d, j), "quote") = InLiteral(d, j + 1)
      BY <2>2, <3>1, TurnsBetween
    <3>3. f[j + 1] = Scan(f[j], "quote")
      BY <2>2, <2>3, <1>0, <1>t
    <3> QED
      BY <2>2, <3>2, <3>3
  <2>5. f[k] = InLiteral(d, k)
    BY <1>4, <2>3, <2>4 DEF LiteralRead
  <2> HIDE DEF k
  <2>6. f[k + 1] = Between(d, k + 1)
    <3>1. d \in Nat
      OBVIOUS
    <3>2. Scan(InLiteral(d, k), "quote") = Between(d, k + 1)
      BY <2>3, <3>1, TurnsInLiteral
    <3> QED
      BY <1>0, <2>3, <2>5, <3>2, <1>t
  <2>7. f[j + Len(v)] = Between(d, j + Len(v))
    BY <2>3, <2>6
  <2> QED
    BY <2>2, <2>7 DEF v
<1>5. ASSUME NEW t \in Seq(Chars), BodyRead(f, text, t), NEW i \in Nat, NEW d \in Nat \ {0},
             At(text, i, b \o Bracket("{", t, "}")), f[i] = Between(d, i)
      PROVE  f[i + Len(b \o Bracket("{", t, "}"))]
                 = Between(d, i + Len(b \o Bracket("{", t, "}")))
  <2> DEFINE v == Bracket("{", t, "}")
             j == i + Len(b)
             k == j + 1 + Len(t)
  <2>1. v \in Seq(Chars)
    BY <1>0, Bracketed
  <2>2. At(text, j, v) /\ j \in Nat /\ j + Len(v) = i + Len(b \o v) /\ f[j] = Between(d, j)
    BY <1>2, <1>5, <2>1
  <2> HIDE DEF j
  <2> HIDE DEF v
  <2>3. /\ AtChar(text, j, "{") /\ At(text, j + 1, t) /\ AtChar(text, k, "}")
        /\ j + 1 \in Nat /\ k \in Nat /\ j + Len(v) = k + 1
    <3>1. At(text, j, Bracket("{", t, "}")) /\ j \in Nat
      BY <2>2 DEF v
    <3> HIDE DEF k
    <3>2. /\ AtChar(text, j, "{") /\ At(text, j + 1, t) /\ AtChar(text, j + 1 + Len(t), "}")
          /\ j + 1 \in Nat /\ j + 1 + Len(t) \in Nat
          /\ j + Len(Bracket("{", t, "}")) = (j + 1 + Len(t)) + 1
      BY <1>0, <1>1, <3>1, <1>t, ZenonT(120)
    <3> QED
      BY <3>2 DEF v, k
  <2>4. f[j + 1] = Between(d + 1, j + 1)
    <3>1. d \in Nat
      OBVIOUS
    <3>2. Scan(Between(d, j), "{") = Between(d + 1, j + 1)
      BY <2>2, <3>1, TurnsBetween
    <3>3. f[j + 1] = Scan(f[j], "{")
      BY <2>2, <2>3, <1>0, <1>t
    <3> QED
      BY <2>2, <3>2, <3>3
  <2>5. d + 1 \in Nat \ {0} /\ d + 1 \in Nat /\ d + 1 # 1 /\ (d + 1) - 1 = d
    OBVIOUS
  <2>6. f[k] = Between(d + 1, k)
    BY <1>5, <2>3, <2>4, <2>5 DEF BodyRead
  <2> HIDE DEF k
  <2>7. f[k + 1] = Scan(Between(d + 1, k), "}")
    BY <2>3, <2>6, <1>0, <1>t
  <2>8. Scan(Between(d + 1, k), "}") = Between(d, k + 1)
    <3>1. \A e, n \in Nat : e # 1 => Scan(Between(e, n), "}") = Between(e - 1, n + 1)
      BY TurnsBetween
    <3>2. Scan(Between(d + 1, k), "}") = Between((d + 1) - 1, k + 1)
      BY <2>3, <2>5, <3>1
    <3> QED
      BY <2>5, <3>2
  <2>9. f[j + Len(v)] = Between(d, j + Len(v))
    BY <2>3, <2>7, <2>8
  <2> QED
    BY <2>2, <2>9 DEF v
<1> QED
  BY <1>3, <1>4, <1>5, ZenonT(60) DEF BodyRead

LEMMA BodiesRead ==
    ASSUME NEW f, NEW text, Follows(f, text)
    PROVE  \A n \in Nat : \A t \in Bodies(n) : BodyRead(f, text, t)
<1> DEFINE Fine == {n \in Nat : \A k \in 0 .. n : \A t \in Bodies(k) : BodyRead(f, text, t)}
<1>1. 0 \in Fine
  <2>1. \A t \in Bodies(0) : t = <<>>
    BY BodiesStep
  <2>2. BodyRead(f, text, <<>>)
    <3>1. \A i \in Nat : i + Len(<<>>) = i
      OBVIOUS
    <3> QED
      BY <3>1 DEF BodyRead
  <2> QED
    BY <2>1, <2>2
<1>2. ASSUME NEW n \in Fine PROVE n + 1 \in Fine
  <2>1. \A k \in 0 .. n : \A t \in Bodies(k) : BodyRead(f, text, t) /\ t \in Seq(Chars)
    BY BodiesType
  <2>2. ASSUME NEW t \in Concat(Bodies(n), {<<"escape">>, <<"x">>}) PROVE BodyRead(f, text, t)
    <3>1. PICK u \in Bodies(n), v \in {<<"escape">>, <<"x">>} : t = u \o v
      BY DEF Concat
    <3>2. BodyRead(f, text, u) /\ u \in Seq(Chars)
      BY <2>1
    <3> QED
      BY <3>1, <3>2, BodyReadOn
  <2>3. ASSUME NEW m \in 0 .. n - 1,
               NEW t \in Concat(Bodies(n - 1 - m), Quoted(Literals(m)) \cup Braced(Bodies(m)))
        PROVE  BodyRead(f, text, t)
    <3>1. PICK u \in Bodies(n - 1 - m), v \in Quoted(Literals(m)) \cup Braced(Bodies(m)) : t = u \o v
      BY DEF Concat
    <3>2. m \in 0 .. n /\ n - 1 - m \in 0 .. n
      OBVIOUS
    <3>3. BodyRead(f, text, u) /\ u \in Seq(Chars)
      BY <2>1, <3>2
    <3>4. CASE v \in Quoted(Literals(m))
      <4>1. PICK l \in Literals(m) : v = Bracket("quote", l, "quote")
        BY <3>4 DEF Quoted
      <4>2. LiteralRead(f, text, l) /\ l \in Seq(Chars)
        BY <3>2, LiteralsRead, LiteralsType
      <4> QED
        BY <3>1, <3>3, <4>1, <4>2, BodyReadOn
    <3>5. CASE v \in Braced(Bodies(m))
      <4>1. PICK l \in Bodies(m) : v = Bracket("{", l, "}")
        BY <3>5 DEF Braced
      <4>2. BodyRead(f, text, l) /\ l \in Seq(Chars)
        BY <2>1, <3>2
      <4> QED
        BY <3>1, <3>3, <4>1, <4>2, BodyReadOn
    <3> QED
      BY <3>4, <3>5
  <2>4. ASSUME NEW t \in Bodies(n + 1) PROVE BodyRead(f, text, t)
    <3>1. \/ t \in Bodies(n) \/ t \in Concat(Bodies(n), {<<"escape">>, <<"x">>})
          \/ \E m \in 0 .. n - 1 :
                 t \in Concat(Bodies(n - 1 - m), Quoted(Literals(m)) \cup Braced(Bodies(m)))
      <4> DEFINE Part(m) == Concat(Bodies(n - 1 - m), Quoted(Literals(m)) \cup Braced(Bodies(m)))
                 I == IF n = 0 THEN {} ELSE 0 .. n - 1
      <4>1. Bodies(n + 1) = Bodies(n) \cup Concat(Bodies(n), {<<"escape">>, <<"x">>})
                                      \cup UNION {Part(m) : m \in I}
        BY BodiesStep
      <4>2. I \subseteq 0 .. n - 1
        OBVIOUS
      <4> HIDE DEF Part, I
      <4>3. \/ t \in Bodies(n) \/ t \in Concat(Bodies(n), {<<"escape">>, <<"x">>})
            \/ \E m \in 0 .. n - 1 : t \in Part(m)
        BY <4>1, <4>2
      <4> QED
        BY <4>3 DEF Part
    <3>2. n \in 0 .. n
      OBVIOUS
    <3> QED
      BY <2>1, <2>2, <2>3, <3>1, <3>2
  <2> QED
    BY <2>1, <2>4
<1>3. Fine = Nat
  <2>1. Fine \subseteq Nat
    OBVIOUS
  <2> HIDE DEF Fine
  <2> QED
    BY <1>1, <1>2, <2>1, Induction
<1>4. \A n \in Nat : n \in Fine /\ n \in 0 .. n
  <2> HIDE DEF Fine
  <2> QED
    BY <1>3
<1> QED
  BY <1>4

(* A block at the start of the text is where the scan ends.                *)
LEMMA BlockRead ==
    ASSUME NEW f, NEW text, Follows(f, text), NEW n \in Nat, NEW b \in Braced(Bodies(n)),
           At(text, 0, b)
    PROVE  f[Len(b)].done /\ f[Len(b)].length = Len(b)
<1>1. Len(text) \in Nat /\ "{" \in Chars /\ "}" \in Chars
  BY TextTyped DEF Chars
<1>t. /\ \A i \in Nat, c \in Chars : AtChar(text, i, c) => f[i + 1] = Scan(f[i], c)
      /\ \A i \in Nat, q, r \in Chars, t \in Seq(Chars) :
            At(text, i, Bracket(q, t, r)) =>
              /\ AtChar(text, i, q) /\ At(text, i + 1, t) /\ AtChar(text, i + 1 + Len(t), r)
              /\ i + 1 \in Nat /\ i + 1 + Len(t) \in Nat
              /\ i + Len(Bracket(q, t, r)) = (i + 1 + Len(t)) + 1
  BY Turns
<1>2. PICK t \in Bodies(n) : b = Bracket("{", t, "}")
  BY DEF Braced
<1>3. t \in Seq(Chars) /\ BodyRead(f, text, t)
  BY BodiesType, BodiesRead
<1> DEFINE k == 1 + Len(t)
<1>4. /\ AtChar(text, 0, "{") /\ At(text, 1, t) /\ AtChar(text, k, "}")
      /\ k \in Nat /\ Len(b) = k + 1
  <2>1. At(text, 0, Bracket("{", t, "}")) /\ 0 \in Nat
    BY <1>2
  <2>2. AtChar(text, 0, "{") /\ At(text, 0 + 1, t) /\ AtChar(text, 0 + 1 + Len(t), "}")
    BY <1>1, <1>3, <2>1, <1>t
  <2>3. Len(b) = Len(t) + 2 /\ Len(t) \in Nat
    <3>1. Len(b) = Len(t) + 2
      BY <1>1, <1>2, <1>3, Bracketed, Zenon
    <3> QED
      BY <1>3, <3>1
  <2>4. 0 + 1 = 1
    OBVIOUS
  <2>5. k \in Nat /\ Len(b) = k + 1
    BY <2>3
  <2> QED
    BY <2>2, <2>4, <2>5, Zenon
<1>5. f[0] = Between(0, 0)
  BY DEF Follows, Between, State, Start
<1>6. f[1] = Between(1, 1)
  <2>1. f[0 + 1] = Scan(f[0], "{")
    <3>1. 0 \in Nat
      OBVIOUS
    <3> QED
      BY <1>1, <1>4, <3>1, <1>t
  <2>2. Scan(Between(0, 0), "{") = Between(0 + 1, 0 + 1)
    BY TurnsBetween
  <2>3. 0 + 1 = 1
    OBVIOUS
  <2> QED
    BY <1>5, <2>1, <2>2, <2>3
<1>7. f[k] = Between(1, k)
  <2>1. 1 \in Nat \ {0} /\ 1 \in Nat
    OBVIOUS
  <2> QED
    BY <1>3, <1>4, <1>6, <2>1 DEF BodyRead
<1> HIDE DEF k
<1>8. f[k + 1] = Scan(Between(1, k), "}")
  BY <1>1, <1>4, <1>7, <1>t
<1> QED
  BY <1>4, <1>8, TurnAtEnd

(* A scan that is done stays as it is.                                     *)
LEMMA DoneStays ==
    ASSUME NEW f, NEW text, Follows(f, text), NEW k \in Nat, f[k].done
    PROVE  \A j \in Nat : k <= j /\ j <= Len(text) => f[j] = f[k]
<1> DEFINE Fine == {n \in Nat : k + n <= Len(text) => f[k + n] = f[k]}
<1>1. 0 \in Fine
  OBVIOUS
<1>2. ASSUME NEW n \in Fine PROVE n + 1 \in Fine
  <2> SUFFICES ASSUME k + (n + 1) <= Len(text) PROVE f[k + (n + 1)] = f[k]
    OBVIOUS
  <2>1. Len(text) \in Nat
    BY TextTyped
  <2>2. k + n \in Nat /\ k + n < Len(text) /\ k + n <= Len(text) /\ k + (n + 1) = (k + n) + 1
    BY <2>1
  <2>3. f[(k + n) + 1] = Scan(f[k + n], text[(k + n) + 1])
    BY <2>2 DEF Follows
  <2>4. f[k + n] = f[k]
    BY <2>2
  <2>5. \A c : Scan(f[k], c) = f[k]
    BY DEF Scan
  <2> QED
    BY <2>2, <2>3, <2>4, <2>5
<1>3. Fine = Nat
  <2>1. Fine \subseteq Nat
    OBVIOUS
  <2> HIDE DEF Fine
  <2> QED
    BY <1>1, <1>2, <2>1, Induction
<1>4. ASSUME NEW j \in Nat, k <= j, j <= Len(text) PROVE f[j] = f[k]
  <2>1. j - k \in Nat /\ k + (j - k) = j
    BY <1>4
  <2>2. j - k \in Fine
    <3> HIDE DEF Fine
    <3> QED
      BY <1>3, <2>1
  <2> QED
    BY <1>4, <2>1, <2>2
<1> QED
  BY <1>4

(* Stretches of the text, by the positions of their ends.                  *)
LiteralIn(text, a, b) == IsLiteral(SubSeq(text, a, b))
BodyIn(text, a, b) == IsBody(SubSeq(text, a, b))

LEMMA Stretch ==
    ASSUME NEW text \in Seq(Chars \ {"fence"}), NEW a \in Nat \ {0}, NEW b \in Nat,
           a <= b + 1, b <= Len(text)
    PROVE  /\ SubSeq(text, a, b) \in Seq(Chars) /\ Len(SubSeq(text, a, b)) = (b + 1) - a
           /\ b + 1 <= Len(text) => SubSeq(text, a, b + 1) = SubSeq(text, a, b) \o <<text[b + 1]>>
           /\ \A c \in Nat : b <= c /\ c <= Len(text) =>
                 SubSeq(text, a, c) = SubSeq(text, a, b) \o SubSeq(text, b + 1, c)
<1>1. Len(text) \in Nat /\ text \in Seq(Chars)
  OBVIOUS
<1>2. \A i \in a .. b : text[i] \in Chars
  BY <1>1
<1>3. SubSeq(text, a, b) \in Seq(Chars) /\ Len(SubSeq(text, a, b)) = (b + 1) - a
  <2>1. /\ SubSeq(text, a, b) \in Seq(Chars)
        /\ Len(SubSeq(text, a, b)) = IF a <= b THEN b - a + 1 ELSE 0
    BY <1>2, SubSeqProperties
  <2> QED
    BY <2>1
<1>4. ASSUME NEW c \in Nat, b <= c, c <= Len(text)
      PROVE  SubSeq(text, a, c) = SubSeq(text, a, b) \o SubSeq(text, b + 1, c)
  <2>1. a \in 1 .. Len(text) + 1 /\ b \in a - 1 .. Len(text) /\ c \in b .. Len(text)
    BY <1>1, <1>4
  <2> QED
    BY <1>1, <2>1, ConcatAdjacentSubSeq
<1>5. ASSUME b + 1 <= Len(text)
      PROVE  SubSeq(text, a, b + 1) = SubSeq(text, a, b) \o <<text[b + 1]>>
  <2>1. a \in 1 .. Len(text) /\ b + 1 \in a .. Len(text) /\ (b + 1) - 1 = b
    BY <1>1, <1>5
  <2> QED
    BY <1>1, <2>1, SubSeqRecursiveSecond
<1> QED
  BY <1>3, <1>4, <1>5, SMTT(60)

LEMMA EmptyStretch ==
    ASSUME NEW text, NEW a \in Nat
    PROVE  LiteralIn(text, a + 1, a) /\ BodyIn(text, a + 1, a)
<1>1. SubSeq(text, a + 1, a) = <<>>
  BY SubSeqEmpty
<1>2. Len(<<>>) = 0 /\ <<>> \in Literals(0) /\ <<>> \in Bodies(0)
  BY LiteralsStep, BodiesStep
<1> QED
  BY <1>1, <1>2 DEF LiteralIn, BodyIn, IsLiteral, IsBody

LEMMA OneThenOne ==
    ASSUME NEW x, NEW y
    PROVE  <<x>> \o <<y>> = <<x, y>>
<1> DEFINE S == {x, y}
           s == <<x>>
           t == <<y>>
           w == <<x, y>>
<1>1. /\ s \in Seq(S) /\ t \in Seq(S) /\ Len(s) = 1 /\ Len(t) = 1 /\ s[1] = x /\ t[1] = y
  OBVIOUS
<1>2. w \in Seq(S) /\ Len(w) = 2 /\ w[1] = x /\ w[2] = y
  OBVIOUS
<1> HIDE DEF S, s, t, w
<1>3. /\ s \o t \in Seq(S) /\ Len(s \o t) = Len(s) + Len(t)
      /\ \A i \in 1 .. Len(s) + Len(t) : (s \o t)[i] = IF i <= Len(s) THEN s[i] ELSE t[i - Len(s)]
  BY <1>1, ConcatProperties
<1>4. Len(s \o t) = 2 /\ (s \o t)[1] = x /\ (s \o t)[2] = y
  BY <1>1, <1>3
<1>5. \A i \in 1 .. 2 : i = 1 \/ i = 2
  OBVIOUS
<1>6. s \o t = w
  BY <1>2, <1>3, <1>4, <1>5, SeqEqual
<1> QED
  BY <1>6 DEF s, t, w

LEMMA LiteralStretch ==
    ASSUME NEW text \in Seq(Chars \ {"fence"}), NEW a \in Nat \ {0}, NEW b \in Nat,
           a <= b + 1, b + 1 <= Len(text), LiteralIn(text, a, b)
    PROVE  /\ text[b + 1] \in {"{", "}", "x"} => LiteralIn(text, a, b + 1)
           /\ text[b + 1] = "escape" /\ b + 2 <= Len(text) => LiteralIn(text, a, b + 2)
<1> DEFINE t == SubSeq(text, a, b)
<1>1. Len(text) \in Nat /\ b <= Len(text)
  OBVIOUS
<1>2. t \in Seq(Chars) /\ IsLiteral(t) /\ SubSeq(text, a, b + 1) = t \o <<text[b + 1]>>
  BY <1>1, Stretch DEF LiteralIn
<1>3. ASSUME text[b + 1] = "escape", b + 2 <= Len(text) PROVE LiteralIn(text, a, b + 2)
  <2>1. text[b + 2] \in Chars \ {"fence"}
    BY <1>1, <1>3
  <2>2. SubSeq(text, a, b + 2) = t \o SubSeq(text, b + 1, b + 2)
    <3>1. b + 2 \in Nat /\ b <= b + 2
      OBVIOUS
    <3> QED
      BY <1>1, <1>3, <3>1, Stretch
  <2>3. SubSeq(text, b + 1, b + 2) = <<text[b + 1], text[b + 2]>>
    <3>1. /\ b + 1 \in 1 .. Len(text) /\ b + 2 \in b + 1 .. Len(text)
          /\ (b + 2) - 1 = b + 1
      BY <1>1, <1>3
    <3>2. SubSeq(text, b + 1, b + 2) = SubSeq(text, b + 1, b + 1) \o <<text[b + 2]>>
      BY <3>1, SubSeqRecursiveSecond
    <3>3. b + 1 \in b + 1 .. Len(text) /\ (b + 1) - 1 = b
      BY <1>1
    <3>4. SubSeq(text, b + 1, b + 1) = SubSeq(text, b + 1, b) \o <<text[b + 1]>>
      BY <3>1, <3>3, SubSeqRecursiveSecond
    <3>5. SubSeq(text, b + 1, b) = <<>>
      BY SubSeqEmpty
    <3>6. \A x, y \in Chars : (<<>> \o <<x>>) \o <<y>> = <<x, y>>
      <4>1. \A x \in Chars : <<>> \o <<x>> = <<x>>
        OBVIOUS
      <4>2. \A x, y \in Chars : <<x>> \o <<y>> = <<x, y>>
        BY OneThenOne
      <4> QED
        BY <4>1, <4>2
    <3>7. text[b + 1] \in Chars /\ text[b + 2] \in Chars
      BY <1>1, <1>3
    <3> QED
      BY <3>2, <3>4, <3>5, <3>6, <3>7
  <2>4. IsLiteral(t \o <<"escape", text[b + 2]>>)
    <3> HIDE DEF t
    <3> QED
      BY <1>2, <2>1, LiteralGoesOn
  <2> QED
    BY <1>3, <2>2, <2>3, <2>4 DEF LiteralIn
<1>4. ASSUME text[b + 1] \in {"{", "}", "x"} PROVE LiteralIn(text, a, b + 1)
  <2>1. IsLiteral(t \o <<text[b + 1]>>)
    <3> HIDE DEF t
    <3> QED
      BY <1>2, <1>4, LiteralGoesOn
  <2> QED
    BY <1>2, <2>1 DEF LiteralIn
<1> QED
  BY <1>3, <1>4

LEMMA BracketStretch ==
    ASSUME NEW text \in Seq(Chars \ {"fence"}), NEW q \in Nat \ {0}, NEW b \in Nat,
           q <= b, b + 1 <= Len(text)
    PROVE  SubSeq(text, q, b + 1) = Bracket(text[q], SubSeq(text, q + 1, b), text[b + 1])
<1>1. Len(text) \in Nat /\ q \in 1 .. Len(text) /\ b \in q .. Len(text)
  OBVIOUS
<1>2. SubSeq(text, q, b) = <<text[q]>> \o SubSeq(text, q + 1, b)
  BY <1>1, SubSeqRecursiveFirst
<1>3. SubSeq(text, q, b + 1) = SubSeq(text, q, b) \o <<text[b + 1]>>
  BY Stretch
<1> QED
  BY <1>2, <1>3 DEF Bracket

LEMMA BodyStretch ==
    ASSUME NEW text \in Seq(Chars \ {"fence"}), NEW a \in Nat \ {0}, NEW b \in Nat,
           a <= b + 1, b + 1 <= Len(text)
    PROVE  /\ BodyIn(text, a, b) /\ text[b + 1] \in {"escape", "x"} => BodyIn(text, a, b + 1)
           /\ \A q \in a .. b :
                BodyIn(text, a, q - 1) =>
                  /\ text[q] = "quote" /\ LiteralIn(text, q + 1, b) /\ text[b + 1] = "quote"
                        => BodyIn(text, a, b + 1)
                  /\ text[q] = "{" /\ BodyIn(text, q + 1, b) /\ text[b + 1] = "}"
                        => BodyIn(text, a, b + 1)
<1>1. Len(text) \in Nat /\ b <= Len(text)
  OBVIOUS
<1>2. ASSUME BodyIn(text, a, b), text[b + 1] \in {"escape", "x"} PROVE BodyIn(text, a, b + 1)
  <2> DEFINE t == SubSeq(text, a, b)
  <2>1. t \in Seq(Chars) /\ IsBody(t) /\ SubSeq(text, a, b + 1) = t \o <<text[b + 1]>>
    BY <1>1, <1>2, Stretch DEF BodyIn
  <2>2. IsBody(t \o <<text[b + 1]>>)
    <3> HIDE DEF t
    <3> QED
      BY <1>2, <2>1, BodyGoesOn
  <2> QED
    BY <2>1, <2>2 DEF BodyIn
<1>3. ASSUME NEW q \in a .. b, BodyIn(text, a, q - 1)
      PROVE  /\ text[q] = "quote" /\ LiteralIn(text, q + 1, b) /\ text[b + 1] = "quote"
                    => BodyIn(text, a, b + 1)
             /\ text[q] = "{" /\ BodyIn(text, q + 1, b) /\ text[b + 1] = "}"
                    => BodyIn(text, a, b + 1)
  <2> DEFINE s == SubSeq(text, a, q - 1)
             t == SubSeq(text, q + 1, b)
  <2>1. /\ q \in Nat \ {0} /\ q - 1 \in Nat /\ a <= (q - 1) + 1 /\ (q - 1) + 1 = q
        /\ q - 1 <= Len(text) /\ q <= b /\ q + 1 \in Nat \ {0} /\ q + 1 <= b + 1
        /\ b + 1 \in Nat /\ q - 1 <= b + 1
    BY <1>1
  <2>2. s \in Seq(Chars) /\ IsBody(s)
    BY <1>3, <2>1, Stretch DEF BodyIn
  <2>3. t \in Seq(Chars)
    BY <1>1, <2>1, Stretch
  <2>4. SubSeq(text, a, b + 1) = s \o SubSeq(text, (q - 1) + 1, b + 1)
    <3>1. \A c \in Nat : q - 1 <= c /\ c <= Len(text) =>
             SubSeq(text, a, c) = SubSeq(text, a, q - 1) \o SubSeq(text, (q - 1) + 1, c)
      BY <2>1, Stretch
    <3> QED
      BY <2>1, <3>1
  <2>5. SubSeq(text, q, b + 1) = Bracket(text[q], t, text[b + 1])
    BY <2>1, BracketStretch, SMTT(60)
  <2>6. SubSeq(text, a, b + 1) = s \o Bracket(text[q], t, text[b + 1])
    BY <2>1, <2>4, <2>5
  <2>7. /\ LiteralIn(text, q + 1, b) => IsLiteral(t)
        /\ BodyIn(text, q + 1, b) => IsBody(t)
    BY DEF LiteralIn, BodyIn
  <2> HIDE DEF s, t
  <2>8. /\ IsLiteral(t) => IsBody(s \o Bracket("quote", t, "quote"))
        /\ IsBody(t) => IsBody(s \o Bracket("{", t, "}"))
    BY <2>2, <2>3, BodyGoesOn
  <2> QED
    BY <2>6, <2>7, <2>8 DEF BodyIn
<1> QED
  BY <1>2, <1>3

-----------------------------------------------------------------------------
(* What the scan has accepted the grammar generates.                       *)

(* The braces still open behind p characters, and what stands between.     *)
Nested(text, pos, d, p) ==
    /\ d \in Nat \ {0} /\ pos \in [1 .. d -> 1 .. p] /\ pos[1] = 1
    /\ \A j \in 1 .. d : text[pos[j]] = "{"
    /\ \A j \in 1 .. d - 1 : pos[j] < pos[j + 1] /\ BodyIn(text, pos[j] + 1, pos[j + 1] - 1)

(* Since the last of them: a body, perhaps with a literal that has begun.  *)
InBody(f, text, a, d, p) == f[p] = Between(d, p) /\ BodyIn(text, a + 1, p)

InString(f, text, a, d, p) ==
    \E q \in a + 1 .. p :
        /\ text[q] = "quote" /\ BodyIn(text, a + 1, q - 1)
        /\ \/ f[p] = InLiteral(d, p) /\ LiteralIn(text, q + 1, p)
           \/ /\ f[p] = AfterEscape(d, p)
              /\ q < p /\ text[p] = "escape" /\ LiteralIn(text, q + 1, p - 1)

StillOpen(f, text, p) ==
    \E d \in Nat : \E pos : /\ Nested(text, pos, d, p)
                            /\ InBody(f, text, pos[d], d, p) \/ InString(f, text, pos[d], d, p)

Closed(f, text, p) ==
    /\ f[p].done
    /\ \E k \in 2 .. p : f[p].length = k /\ SubSeq(text, 1, k) \in Braced(Bodies(k - 2))

LEMMA NestedLater ==
    ASSUME NEW text, NEW pos, NEW d, NEW p \in Nat, Nested(text, pos, d, p)
    PROVE  Nested(text, pos, d, p + 1)
<1>1. pos \in [1 .. d -> 1 .. p + 1]
  <2>1. 1 .. p \subseteq 1 .. p + 1
    OBVIOUS
  <2>2. pos \in [1 .. d -> 1 .. p]
    BY DEF Nested
  <2> QED
    BY <2>1, <2>2
<1> QED
  BY <1>1 DEF Nested

LEMMA UpToNext ==
    \A n \in Nat :
        /\ n # 0 => 1 \in 1 .. n /\ n \in 1 .. n
        /\ n + 1 \in Nat \ {0}
        /\ n + 1 \in 1 .. n + 1 /\ 1 .. n \subseteq 1 .. n + 1 /\ (n + 1) - 1 = n
        /\ \A j \in 1 .. n : j # n + 1 /\ j < n + 1 /\ j \in Nat
        /\ \A j \in 1 .. n + 1 : j # n + 1 => j \in 1 .. n
        /\ \A j \in 1 .. n : j # n => j \in 1 .. n - 1 /\ j + 1 \in 1 .. n
OBVIOUS

LEMMA NestedDeeper ==
    ASSUME NEW text, NEW pos, NEW d \in Nat, NEW p \in Nat, Nested(text, pos, d, p),
           BodyIn(text, pos[d] + 1, p), text[p + 1] = "{"
    PROVE  \E new : Nested(text, new, d + 1, p + 1) /\ new[d + 1] = p + 1
<1> DEFINE new == [j \in 1 .. d + 1 |-> IF j = d + 1 THEN p + 1 ELSE pos[j]]
<1>1. /\ d \in Nat \ {0} /\ pos \in [1 .. d -> 1 .. p] /\ pos[1] = 1
      /\ \A j \in 1 .. d : text[pos[j]] = "{"
      /\ \A j \in 1 .. d - 1 : pos[j] < pos[j + 1] /\ BodyIn(text, pos[j] + 1, pos[j + 1] - 1)
  BY DEF Nested
<1>2. /\ d \in 1 .. d /\ d + 1 \in 1 .. d + 1 /\ 1 \in 1 .. d /\ d + 1 \in Nat \ {0} /\ 1 # d + 1
      /\ \A j \in 1 .. d : j \in 1 .. d + 1 /\ j # d + 1
      /\ \A j \in 1 .. d + 1 : j # d + 1 => j \in 1 .. d
      /\ \A j \in 1 .. (d + 1) - 1 : j \in 1 .. d /\ (j # d => j \in 1 .. d - 1 /\ j + 1 \in 1 .. d)
  <2>1. d \in Nat \ {0}
    BY DEF Nested
  <2>2. d + 1 \in Nat \ {0} /\ 1 \in 1 .. d /\ d \in 1 .. d
    BY <2>1, UpToNext
  <2>3. /\ d + 1 \in 1 .. d + 1 /\ 1 .. d \subseteq 1 .. d + 1 /\ (d + 1) - 1 = d
        /\ \A j \in 1 .. d : j # d + 1
        /\ \A j \in 1 .. d + 1 : j # d + 1 => j \in 1 .. d
        /\ \A j \in 1 .. d : j # d => j \in 1 .. d - 1 /\ j + 1 \in 1 .. d
    BY <2>1, UpToNext
  <2> QED
    BY <2>2, <2>3
<1>3. new[d + 1] = p + 1 /\ \A j \in 1 .. d : new[j] = pos[j]
  BY <1>2
<1>4. new \in [1 .. d + 1 -> 1 .. p + 1]
  <2>1. p + 1 \in 1 .. p + 1 /\ 1 .. p \subseteq 1 .. p + 1
    BY UpToNext
  <2>2. \A j \in 1 .. d + 1 : j # d + 1 => pos[j] \in 1 .. p
    BY <1>1, <1>2
  <2>3. \A j \in 1 .. d + 1 : (IF j = d + 1 THEN p + 1 ELSE pos[j]) \in 1 .. p + 1
    BY <2>1, <2>2
  <2> QED
    BY <2>3
<1> HIDE DEF new
<1>5. \A j \in 1 .. d + 1 : text[new[j]] = "{"
  BY <1>1, <1>2, <1>3, ZenonT(60)
<1>6. ASSUME NEW j \in 1 .. (d + 1) - 1
      PROVE  new[j] < new[j + 1] /\ BodyIn(text, new[j] + 1, new[j + 1] - 1)
  <2>1. CASE j = d
    <3>1. pos[d] \in 1 .. p
      BY <1>1, <1>2
    <3>2. new[j] = pos[d] /\ new[j + 1] = p + 1
      BY <1>2, <1>3, <2>1
    <3>3. (p + 1) - 1 = p /\ pos[d] < p + 1
      BY <3>1, UpToNext
    <3> QED
      BY <3>2, <3>3
  <2>2. CASE j # d
    <3>1. j \in 1 .. d - 1 /\ new[j] = pos[j] /\ new[j + 1] = pos[j + 1]
      BY <1>2, <1>3, <2>2
    <3> QED
      BY <1>1, <3>1
  <2> QED
    BY <2>1, <2>2
<1>7. Nested(text, new, d + 1, p + 1)
  BY <1>1, <1>2, <1>3, <1>4, <1>5, <1>6 DEF Nested
<1> QED
  BY <1>3, <1>7

Under(text, b, a, p) ==
    b < a /\ b \in 1 .. p /\ a \in 1 .. p /\ BodyIn(text, b + 1, a - 1) /\ text[a] = "{"

LEMMA NestedLess ==
    ASSUME NEW text, NEW pos, NEW d \in Nat, NEW p \in Nat, Nested(text, pos, d, p), d # 1
    PROVE  \E new : Nested(text, new, d - 1, p) /\ Under(text, new[d - 1], pos[d], p)
<1> DEFINE new == [j \in 1 .. d - 1 |-> pos[j]]
<1>1. /\ d \in Nat \ {0} /\ pos \in [1 .. d -> 1 .. p] /\ pos[1] = 1
      /\ \A j \in 1 .. d : text[pos[j]] = "{"
      /\ \A j \in 1 .. d - 1 : pos[j] < pos[j + 1] /\ BodyIn(text, pos[j] + 1, pos[j + 1] - 1)
  BY DEF Nested
<1>2. /\ d \in 1 .. d /\ d - 1 \in 1 .. d - 1 /\ 1 \in 1 .. d - 1 /\ d - 1 \in Nat \ {0}
      /\ (d - 1) + 1 = d
      /\ \A j \in 1 .. d - 1 : j \in 1 .. d
      /\ \A j \in 1 .. (d - 1) - 1 : j \in 1 .. d - 1 /\ j + 1 \in 1 .. d - 1
  <2>1. d \in Nat \ {0}
    BY DEF Nested
  <2>2. \A j \in 1 .. (d - 1) - 1 : j \in 1 .. d - 1 /\ j + 1 \in 1 .. d - 1
    BY <2>1
  <2> QED
    BY <2>1, <2>2
<1>3. \A j \in 1 .. d - 1 : new[j] = pos[j]
  OBVIOUS
<1>4. new \in [1 .. d - 1 -> 1 .. p]
  BY <1>1, <1>2
<1> HIDE DEF new
<1>5. Nested(text, new, d - 1, p)
  BY <1>1, <1>2, <1>3, <1>4 DEF Nested
<1>6. /\ pos[d - 1] < pos[d] /\ BodyIn(text, pos[d - 1] + 1, pos[d] - 1) /\ text[pos[d]] = "{"
  BY <1>1, <1>2
<1>7. new[d - 1] = pos[d - 1] /\ pos[d - 1] \in 1 .. p /\ pos[d] \in 1 .. p
  BY <1>1, <1>2, <1>3
<1>8. Under(text, new[d - 1], pos[d], p)
  BY <1>6, <1>7 DEF Under
<1> QED
  BY <1>5, <1>8

(* A turn of the scan behind its first character.                          *)
LEMMA NextTurn ==
    ASSUME NEW f, NEW text, Follows(f, text), NEW p \in Nat \ {0}, p + 1 <= Len(text)
    PROVE  /\ f[p + 1] = Scan(f[p], text[p + 1]) /\ text[p + 1] \in Chars \ {"fence"}
           /\ text \in Seq(Chars \ {"fence"}) /\ Len(text) \in Nat /\ p \in Nat /\ p + 1 \in Nat
<1>1. Len(text) \in Nat /\ text \in Seq(Chars \ {"fence"})
  BY DEF Follows
<1>2. p < Len(text) /\ p \in Nat /\ p + 1 \in 1 .. Len(text)
  BY <1>1
<1> QED
  BY <1>1, <1>2 DEF Follows

LEMMA Innermost ==
    ASSUME NEW text, NEW pos, NEW d, NEW p \in Nat, Nested(text, pos, d, p)
    PROVE  d \in Nat \ {0} /\ pos[d] \in 1 .. p
<1>1. d \in Nat \ {0} /\ pos \in [1 .. d -> 1 .. p]
  BY DEF Nested
<1>2. d \in 1 .. d
  BY <1>1, UpToNext
<1> QED
  BY <1>1, <1>2

LEMMA TurnInBody ==
    ASSUME NEW f, NEW text, Follows(f, text), NEW p \in Nat \ {0}, p + 1 <= Len(text),
           NEW pos, NEW d \in Nat, Nested(text, pos, d, p), InBody(f, text, pos[d], d, p)
    PROVE  StillOpen(f, text, p + 1) \/ Closed(f, text, p + 1)
<1> DEFINE c == text[p + 1]
           a == pos[d]
<1>1. /\ f[p + 1] = Scan(f[p], c) /\ c \in Chars \ {"fence"}
      /\ text \in Seq(Chars \ {"fence"}) /\ Len(text) \in Nat /\ p \in Nat /\ p + 1 \in Nat
  BY NextTurn
<1>2. /\ d \in Nat /\ d # 0 /\ a \in 1 .. p
      /\ f[p] = Between(d, p) /\ BodyIn(text, a + 1, p)
  BY <1>1, Innermost DEF InBody
<1>3. a \in Nat /\ a + 1 \in Nat \ {0} /\ a + 1 <= p + 1
  BY <1>1, <1>2
<1>4. Nested(text, pos, d, p + 1)
  BY <1>1, NestedLater
<1>5. c \in {"{", "}", "quote", "escape", "x"}
  BY <1>1 DEF Chars
<1>6. f[p + 1] = Scan(Between(d, p), c)
  BY <1>1, <1>2
<1>0. d \in Nat /\ d # 0 /\ p \in Nat
  BY <1>1, <1>2
<1>t. /\ Scan(Between(d, p), "{") = Between(d + 1, p + 1)
      /\ d # 1 => Scan(Between(d, p), "}") = Between(d - 1, p + 1)
      /\ Scan(Between(d, p), "quote") = InLiteral(d, p + 1)
  BY <1>0, TurnsBetween
<1>7. CASE c = "{"
  <2>1. f[p + 1] = Between(d + 1, p + 1)
    BY <1>6, <1>7, <1>t, Zenon
  <2>2. PICK new : Nested(text, new, d + 1, p + 1) /\ new[d + 1] = p + 1
    <3>1. BodyIn(text, pos[d] + 1, p) /\ text[p + 1] = "{"
      BY <1>2, <1>7
    <3> QED
      BY <1>0, <3>1, NestedDeeper, ZenonT(60)
  <2>3. BodyIn(text, (p + 1) + 1, p + 1)
    BY <1>1, EmptyStretch
  <2>4. InBody(f, text, new[d + 1], d + 1, p + 1)
    BY <2>1, <2>2, <2>3 DEF InBody
  <2>5. d + 1 \in Nat
    BY <1>2
  <2> QED
    BY <2>2, <2>4, <2>5 DEF StillOpen
<1>8. CASE c = "}" /\ d # 1
  <2>1. f[p + 1] = Between(d - 1, p + 1)
    BY <1>6, <1>8, <1>t, Zenon
  <2>2. PICK new : Nested(text, new, d - 1, p) /\ Under(text, new[d - 1], pos[d], p)
    <3>1. d # 1
      BY <1>8
    <3> QED
      BY <3>1, NestedLess
  <2> DEFINE b == new[d - 1]
  <2>3. b + 1 \in Nat \ {0} /\ a \in b + 1 .. p /\ b + 1 <= p + 1
    <3> HIDE DEF a, b
    <3>1. b \in 1 .. p /\ a \in 1 .. p /\ b < a
      BY <2>2 DEF a, b, Under
    <3> QED
      BY <1>0, <3>1
  <2>4. BodyIn(text, b + 1, p + 1)
    <3> HIDE DEF a, b
    <3>1. BodyIn(text, b + 1, a - 1) /\ text[a] = "{"
      BY <2>2 DEF a, b, Under
    <3> QED
      BY <1>1, <1>2, <1>8, <2>3, <3>1, BodyStretch
  <2>5. Nested(text, new, d - 1, p + 1)
    BY <1>1, <2>2, NestedLater
  <2>6. InBody(f, text, new[d - 1], d - 1, p + 1)
    BY <2>1, <2>2, <2>4 DEF InBody
  <2>7. d - 1 \in Nat
    BY <1>0
  <2> QED
    BY <2>5, <2>6, <2>7 DEF StillOpen
<1>9. CASE c = "}" /\ d = 1
  <2>1. f[p + 1].done /\ f[p + 1].length = p + 1
    BY <1>1, <1>6, <1>9, TurnAtEnd
  <2>2. a = 1 /\ text[1] = "{"
    <3>1. 1 \in 1 .. d
      BY <1>0, UpToNext
    <3> QED
      BY <1>9, <3>1 DEF Nested
  <2>3. SubSeq(text, 1, p + 1) = Bracket("{", SubSeq(text, 1 + 1, p), "}")
    <3>1. 1 \in Nat \ {0} /\ 1 <= p
      OBVIOUS
    <3>2. SubSeq(text, 1, p + 1) = Bracket(text[1], SubSeq(text, 1 + 1, p), text[p + 1])
      BY <1>1, <3>1, BracketStretch
    <3> QED
      BY <1>9, <2>2, <3>2
  <2>4. SubSeq(text, 1 + 1, p) \in Bodies((p + 1) - 2)
    <3>1. 1 + 1 \in Nat \ {0} /\ 1 + 1 <= p + 1 /\ p <= Len(text) /\ (p + 1) - (1 + 1) = (p + 1) - 2
      BY <1>1
    <3>2. Len(SubSeq(text, 1 + 1, p)) = (p + 1) - (1 + 1)
      BY <1>1, <3>1, Stretch
    <3>3. IsBody(SubSeq(text, 1 + 1, p))
      BY <1>2, <2>2 DEF BodyIn
    <3> QED
      BY <3>1, <3>2, <3>3 DEF IsBody
  <2>5. SubSeq(text, 1, p + 1) \in Braced(Bodies((p + 1) - 2))
    BY <2>3, <2>4 DEF Braced
  <2>6. p + 1 \in 2 .. p + 1
    OBVIOUS
  <2> QED
    BY <2>1, <2>5, <2>6 DEF Closed
<1>10. CASE c = "quote"
  <2>1. f[p + 1] = InLiteral(d, p + 1)
    BY <1>6, <1>10, <1>t, Zenon
  <2>2. LiteralIn(text, (p + 1) + 1, p + 1)
    BY <1>1, EmptyStretch
  <2>3. p + 1 \in a + 1 .. p + 1 /\ (p + 1) - 1 = p
    BY <1>1, <1>3
  <2>4. InString(f, text, a, d, p + 1)
    BY <1>2, <1>10, <2>1, <2>2, <2>3 DEF InString
  <2> QED
    BY <1>2, <1>4, <2>4 DEF StillOpen
<1>11. CASE c \in {"escape", "x"}
  <2>1. f[p + 1] = Between(d, p + 1)
    BY <1>1, <1>2, <1>6, <1>11, TurnsBetween, ZenonT(60)
  <2>2. BodyIn(text, a + 1, p + 1)
    BY <1>1, <1>2, <1>3, <1>11, BodyStretch
  <2>3. InBody(f, text, a, d, p + 1)
    BY <2>1, <2>2 DEF InBody
  <2> QED
    BY <1>2, <1>4, <2>3 DEF StillOpen
<1> QED
  BY <1>5, <1>7, <1>8, <1>9, <1>10, <1>11

LEMMA TurnInString ==
    ASSUME NEW f, NEW text, Follows(f, text), NEW p \in Nat \ {0}, p + 1 <= Len(text),
           NEW pos, NEW d \in Nat, Nested(text, pos, d, p), InString(f, text, pos[d], d, p)
    PROVE  StillOpen(f, text, p + 1)
<1> DEFINE c == text[p + 1]
           a == pos[d]
<1>1. /\ f[p + 1] = Scan(f[p], c) /\ c \in Chars \ {"fence"}
      /\ text \in Seq(Chars \ {"fence"}) /\ Len(text) \in Nat /\ p \in Nat /\ p + 1 \in Nat
  BY NextTurn
<1>2. d # 0 /\ a \in 1 .. p /\ Nested(text, pos, d, p + 1)
  BY <1>1, Innermost, NestedLater
<1>3. a \in Nat /\ a + 1 \in Nat \ {0} /\ a + 1 <= p + 1
  BY <1>1, <1>2
<1>4. c \in {"{", "}", "quote", "escape", "x"}
  BY <1>1 DEF Chars
<1>5. PICK q \in a + 1 .. p :
        /\ text[q] = "quote" /\ BodyIn(text, a + 1, q - 1)
        /\ \/ f[p] = InLiteral(d, p) /\ LiteralIn(text, q + 1, p)
           \/ /\ f[p] = AfterEscape(d, p)
              /\ q < p /\ text[p] = "escape" /\ LiteralIn(text, q + 1, p - 1)
  BY DEF InString
<1>6. /\ q \in a + 1 .. p + 1 /\ q < p + 1 /\ q + 1 \in Nat \ {0} /\ q + 1 <= p + 1
      /\ (p + 1) - 1 = p /\ p <= Len(text)
  BY <1>1, <1>3
<1>7. InString(f, text, a, d, p + 1) \/ InBody(f, text, a, d, p + 1)
  <2>t. /\ Scan(InLiteral(d, p), "quote") = Between(d, p + 1)
        /\ Scan(InLiteral(d, p), "escape") = AfterEscape(d, p + 1)
        /\ \A x \in {"{", "}", "x"} : Scan(InLiteral(d, p), x) = InLiteral(d, p + 1)
        /\ \A x : Scan(AfterEscape(d, p), x) = InLiteral(d, p + 1)
    BY <1>1, TurnsInLiteral, TurnAfterEscape
  <2>1. CASE f[p] = AfterEscape(d, p) /\ q < p /\ text[p] = "escape" /\ LiteralIn(text, q + 1, p - 1)
    <3>1. f[p + 1] = InLiteral(d, p + 1)
      BY <1>1, <2>1, <2>t, Zenon
    <3>2. /\ p - 1 \in Nat /\ q + 1 <= (p - 1) + 1 /\ (p - 1) + 1 = p /\ (p - 1) + 2 = p + 1
      BY <1>1, <1>6, <2>1
    <3>3. LiteralIn(text, q + 1, p + 1)
      <4>1. \A b \in Nat : q + 1 <= b + 1 /\ b + 1 <= Len(text) /\ LiteralIn(text, q + 1, b) =>
              (text[b + 1] = "escape" /\ b + 2 <= Len(text) => LiteralIn(text, q + 1, b + 2))
        BY <1>1, <1>6, LiteralStretch
      <4> QED
        BY <1>6, <2>1, <3>2, <4>1
    <3> QED
      BY <1>5, <1>6, <3>1, <3>3, SMTT(60) DEF InString
  <2>2. CASE f[p] = InLiteral(d, p) /\ LiteralIn(text, q + 1, p) /\ c = "quote"
    <3>1. f[p + 1] = Between(d, p + 1)
      BY <1>1, <2>2, <2>t, Zenon
    <3>2. BodyIn(text, a + 1, p + 1)
      <4> HIDE DEF a
      <4> QED
        BY <1>1, <1>3, <1>5, <2>2, BodyStretch
    <3> QED
      BY <3>1, <3>2 DEF InBody
  <2>3. CASE f[p] = InLiteral(d, p) /\ LiteralIn(text, q + 1, p) /\ c = "escape"
    <3>1. f[p + 1] = AfterEscape(d, p + 1)
      BY <1>1, <2>3, <2>t, Zenon
    <3> QED
      BY <1>5, <1>6, <2>3, <3>1 DEF InString
  <2>4. CASE f[p] = InLiteral(d, p) /\ LiteralIn(text, q + 1, p) /\ c \in {"{", "}", "x"}
    <3>1. f[p + 1] = InLiteral(d, p + 1)
      BY <1>1, <2>4, <2>t, Zenon
    <3>2. LiteralIn(text, q + 1, p + 1)
      BY <1>1, <1>6, <2>4, LiteralStretch
    <3> QED
      BY <1>5, <1>6, <3>1, <3>2 DEF InString
  <2> QED
    BY <1>4, <1>5, <2>1, <2>2, <2>3, <2>4
<1> QED
  BY <1>2, <1>7 DEF StillOpen

Opens(text) == AtChar(text, 0, "{")

LEMMA ReadSoFar ==
    ASSUME NEW f, NEW text, Follows(f, text), Opens(text)
    PROVE  \A p \in 1 .. Len(text) : StillOpen(f, text, p) \/ Closed(f, text, p)
<1> DEFINE Fine == {n \in Nat : n + 1 <= Len(text) =>
                       StillOpen(f, text, n + 1) \/ Closed(f, text, n + 1)}
<1>1. Len(text) \in Nat
  BY TextTyped
<1>2. 0 \in Fine
  <2> SUFFICES ASSUME 0 + 1 <= Len(text) PROVE StillOpen(f, text, 0 + 1)
    OBVIOUS
  <2>1. f[0] = Between(0, 0)
    BY DEF Follows, Between, State, Start
  <2>0. text[1] = "{"
    <3>1. text[0 + 1] = "{"
      BY DEF AtChar, Opens
    <3>2. 0 + 1 = 1
      OBVIOUS
    <3> QED
      BY <3>1, <3>2
  <2>2. 0 < Len(text) /\ 0 \in Nat /\ 0 + 1 = 1 /\ 1 \in Nat
    BY <1>1
  <2>3. f[1] = Between(1, 1)
    <3>1. f[0 + 1] = Scan(f[0], text[0 + 1])
      BY <2>2 DEF Follows
    <3>2. Scan(Between(0, 0), "{") = Between(0 + 1, 0 + 1)
      BY TurnsBetween
    <3> QED
      BY <2>0, <2>1, <2>2, <3>1, <3>2, Zenon
  <2> DEFINE pos == [j \in 1 .. 1 |-> 1]
  <2>4. pos[1] = 1 /\ pos \in [1 .. 1 -> 1 .. 1]
    OBVIOUS
  <2>5. BodyIn(text, 1 + 1, 1)
    BY <2>2, EmptyStretch
  <2> HIDE DEF pos
  <2>6. Nested(text, pos, 1, 1)
    <3>1. \A j \in 1 .. 1 : text[pos[j]] = "{"
      <4>1. \A j \in 1 .. 1 : j = 1
        OBVIOUS
      <4> QED
        BY <2>0, <2>4, <4>1, Zenon
    <3>2. \A j \in 1 .. 1 - 1 : pos[j] < pos[j + 1] /\ BodyIn(text, pos[j] + 1, pos[j + 1] - 1)
      <4>1. \A j \in 1 .. 1 - 1 : FALSE
        OBVIOUS
      <4> QED
        BY <4>1, Zenon
    <3>3. 1 \in Nat \ {0}
      OBVIOUS
    <3> QED
      BY <2>4, <3>1, <3>2, <3>3, Zenon DEF Nested
  <2>7. InBody(f, text, pos[1], 1, 1)
    BY <2>3, <2>4, <2>5 DEF InBody
  <2> QED
    BY <2>2, <2>6, <2>7 DEF StillOpen
<1>3. ASSUME NEW n \in Fine PROVE n + 1 \in Fine
  <2> SUFFICES ASSUME (n + 1) + 1 <= Len(text)
               PROVE  StillOpen(f, text, (n + 1) + 1) \/ Closed(f, text, (n + 1) + 1)
    OBVIOUS
  <2> DEFINE p == n + 1
  <2>1. p \in Nat \ {0} /\ p \in Nat /\ p + 1 <= Len(text) /\ p <= Len(text) /\ p < Len(text)
        /\ p + 1 \in Nat /\ p <= p + 1
    BY <1>1
  <2>2. StillOpen(f, text, p) \/ Closed(f, text, p)
    BY <2>1
  <2> HIDE DEF p
  <2>3. CASE StillOpen(f, text, p)
    <3>1. PICK d \in Nat :
            \E pos : /\ Nested(text, pos, d, p)
                     /\ \/ InBody(f, text, pos[d], d, p)
                        \/ InString(f, text, pos[d], d, p)
      BY <2>3 DEF StillOpen
    <3>2. PICK pos :
            /\ Nested(text, pos, d, p)
            /\ \/ InBody(f, text, pos[d], d, p)
               \/ InString(f, text, pos[d], d, p)
      BY <3>1
    <3>3. StillOpen(f, text, p + 1) \/ Closed(f, text, p + 1)
      BY <2>1, <3>2, TurnInBody, TurnInString
    <3> QED
      BY <3>3 DEF p
  <2>4. CASE Closed(f, text, p)
    <3>1. f[p + 1] = f[p]
      BY <2>1, <2>4, DoneStays DEF Closed
    <3>2. \A k \in 2 .. p : k \in 2 .. p + 1
      BY <2>1
    <3> QED
      BY <2>4, <3>1, <3>2 DEF Closed, p
  <2> QED
    BY <2>2, <2>3, <2>4
<1>4. Fine = Nat
  <2>1. Fine \subseteq Nat
    OBVIOUS
  <2> HIDE DEF Fine
  <2> QED
    BY <1>2, <1>3, <2>1, Induction
<1>5. ASSUME NEW p \in 1 .. Len(text) PROVE StillOpen(f, text, p) \/ Closed(f, text, p)
  <2>1. p - 1 \in Nat /\ (p - 1) + 1 = p /\ p <= Len(text)
    BY <1>1
  <2>2. p - 1 \in Fine
    <3> HIDE DEF Fine
    <3> QED
      BY <1>4, <2>1
  <2> QED
    BY <2>1, <2>2
<1> QED
  BY <1>5

-----------------------------------------------------------------------------
(* The text that is scanned.                                               *)

LEMMA PickedShort ==
    ASSUME NEW S, NEW s \in Seq(S), NEW I
    PROVE  Len(Picked(s, I)) <= Len(s)
<1>1. PICK f : Picks(f, s, I) /\ Picked(s, I) = f[Len(s)]
  BY Picker
<1>2. Len(s) \in Nat
  OBVIOUS
<1> DEFINE Fine == {n \in Nat : n <= Len(s) => f[n] \in Seq(S) /\ Len(f[n]) <= n}
<1>3. 0 \in Fine
  <2>1. f[0] = <<>> /\ <<>> \in Seq(S) /\ Len(<<>>) <= 0
    BY <1>1, <1>2, PicksStep
  <2> QED
    BY <2>1
<1>4. ASSUME NEW n \in Fine PROVE n + 1 \in Fine
  <2> SUFFICES ASSUME n + 1 <= Len(s) PROVE f[n + 1] \in Seq(S) /\ Len(f[n + 1]) <= n + 1
    OBVIOUS
  <2>1. n \in Nat /\ f[n] \in Seq(S) /\ Len(f[n]) <= n /\ s[n + 1] \in S
    BY <1>2
  <2>2. f[n + 1] = IF n + 1 \in I THEN Append(f[n], s[n + 1]) ELSE f[n]
    BY <1>1, <1>2, <2>1, PicksStep
  <2> QED
    BY <2>1, <2>2
<1>5. Fine = Nat
  <2>1. Fine \subseteq Nat
    OBVIOUS
  <2> HIDE DEF Fine
  <2> QED
    BY <1>3, <1>4, <2>1, Induction
<1>6. Len(s) \in Fine
  <2> HIDE DEF Fine
  <2> QED
    BY <1>2, <1>5
<1> QED
  BY <1>1, <1>2, <1>6

LEMMA NoFences ==
    ASSUME NEW raw \in Seq(Chars)
    PROVE  Defenced(raw) \in Seq(Chars \ {"fence"}) /\ Len(Defenced(raw)) <= Len(raw)
<1> DEFINE I == {i \in DOMAIN raw : raw[i] # "fence"}
           t == Picked(raw, I)
<1>1. Defenced(raw) = t
  BY DEF Defenced, Where
<1>2. t \in Seq(Chars) /\ ComesFrom(t, raw, I \cap DOMAIN raw)
  BY PickedComesFrom
<1>3. Len(t) <= Len(raw)
  BY PickedShort
<1> HIDE DEF t
<1>4. \A k \in 1 .. Len(t) : t[k] \in Chars \ {"fence"}
  <2>1. PICK p \in [1 .. Len(t) -> I \cap DOMAIN raw] : \A k \in 1 .. Len(t) : t[k] = raw[p[k]]
    BY <1>2 DEF ComesFrom
  <2> TAKE k \in 1 .. Len(t)
  <2>2. p[k] \in I
    BY <2>1
  <2>3. t[k] = raw[p[k]] /\ raw[p[k]] # "fence" /\ t[k] \in Chars
    BY <1>2, <2>1, <2>2
  <2> QED
    BY <2>3
<1>5. t \in Seq(Chars \ {"fence"})
  <2>1. Len(t) \in Nat /\ t = [k \in 1 .. Len(t) |-> t[k]]
    BY <1>2
  <2>2. [k \in 1 .. Len(t) |-> t[k]] \in Seq(Chars \ {"fence"})
    BY <1>4, <2>1, IsASeq
  <2> QED
    BY <2>1, <2>2
<1> QED
  BY <1>1, <1>3, <1>5

LEMMA FromHere ==
    \A n \in Nat : \A m \in 1 .. n :
        /\ m \in Int /\ n \in Int /\ m <= n /\ m # 0
        /\ 1 \in 1 .. n - m + 1 /\ m + 1 - 1 = m /\ n - m + 1 <= n /\ 1 <= n - m + 1
        /\ \A i \in m .. n : i \in 1 .. n
OBVIOUS

LEMMA FirstBrace ==
    ASSUME NEW S, NEW t \in Seq(S)
    PROVE  /\ FromFirstBrace(t) \in Seq(S)
           /\ Len(FromFirstBrace(t)) <= Len(t)
           /\ FromFirstBrace(t) # <<>> => Opens(FromFirstBrace(t))
<1> DEFINE n == Len(t)
           I == {i \in 1 .. n : t[i] = "{"}
           start == SelectInSeq(t, LAMBDA c : c = "{")
           rest == SubSeq(t, start, n)
<1>1. n \in Nat /\ \A i \in 1 .. n : t[i] \in S
  OBVIOUS
<1>2. start = IF I # {} THEN Min(I) ELSE 0
  BY DEF SelectInSeq
<1>3. FromFirstBrace(t) = IF start = 0 THEN <<>> ELSE rest
  BY DEF FromFirstBrace
<1> HIDE DEF start, n
<1>7. \A i \in I : i \in 1 .. n /\ t[i] = "{"
  OBVIOUS
<1> HIDE DEF I
<1>8. I \in SUBSET Nat
  <2>1. \A i \in I : i \in 1 .. n
    BY <1>7, Zenon
  <2>2. \A i \in 1 .. n : i \in Nat
    BY <1>1
  <2> QED
    BY <2>1, <2>2, Zenon
<1>4. start = 0 \/ (start \in 1 .. n /\ t[start] = "{")
  <2>1. CASE I # {}
    <3>1. \E x \in I : \A y \in I : x <= y
      BY <1>8, <2>1, LeastNumber
    <3>2. start \in I
      BY <1>2, <2>1, <3>1 DEF Min
    <3> QED
      BY <1>7, <3>2, Zenon
  <2> QED
    BY <1>2, <2>1, Zenon
<1>5. CASE start = 0
  <2>1. FromFirstBrace(t) = <<>>
    BY <1>3, <1>5
  <2>2. <<>> \in Seq(S) /\ Len(<<>>) <= n
    BY <1>1
  <2> QED
    BY <2>1, <2>2 DEF n
<1>6. CASE start # 0
  <2>1. start \in 1 .. n /\ t[start] = "{"
    BY <1>4, <1>6
  <2>2. start \in Int /\ n \in Int /\ start <= n /\ 1 <= n - start + 1
        /\ n - start + 1 <= n /\ \A i \in start .. n : i \in 1 .. n
    BY <1>1, <2>1, FromHere
  <2>3. /\ rest \in Seq(S)
        /\ Len(rest) = n - start + 1
        /\ \A i \in 1 .. n - start + 1 : rest[i] = t[start + i - 1]
    <3>1. \A i \in start .. n : t[i] \in S
      BY <1>1, <2>2
    <3>2. Len(rest) = IF start <= n THEN n - start + 1 ELSE 0
      BY <2>2, <3>1, SubSeqProperties
    <3>3. /\ rest \in Seq(S)
          /\ \A i \in 1 .. n - start + 1 : rest[i] = t[start + i - 1]
      BY <2>2, <3>1, SubSeqProperties
    <3> QED
      BY <2>2, <3>2, <3>3
  <2> HIDE DEF rest
  <2>4. rest[1] = t[start]
    <3>1. 1 \in 1 .. n - start + 1 /\ start + 1 - 1 = start
      BY <1>1, <2>1, FromHere
    <3> QED
      BY <2>3, <3>1
  <2>5. Len(rest) <= n /\ 1 <= Len(rest)
    BY <2>2, <2>3
  <2>6. Opens(rest)
    <3>1. rest[1] = "{"
      BY <2>1, <2>4, Zenon
    <3>2. 0 + 1 = 1
      BY FromHere
    <3> QED
      BY <2>5, <3>1, <3>2, Zenon DEF Opens, AtChar
  <2> QED
    BY <1>3, <1>6, <2>3, <2>5, <2>6 DEF n
<1> QED
  BY <1>5, <1>6

-----------------------------------------------------------------------------
(* The scan and the grammar agree.                                         *)

LEMMA EndOfBlock ==
    ASSUME NEW f, NEW text, Follows(f, text), NEW n \in Nat, NEW k \in 1 .. Len(text),
           SubSeq(text, 1, k) \in Braced(Bodies(n))
    PROVE  f[Len(text)].done /\ f[Len(text)].length = k
<1> DEFINE b == SubSeq(text, 1, k)
<1>1. Len(text) \in Nat /\ text \in Seq(Chars \ {"fence"}) /\ k \in Nat /\ k <= Len(text)
  BY TextTyped
<1>2. Len(b) = k /\ \A j \in 1 .. k : b[j] = text[0 + j]
  <2>1. \A i \in 1 .. k : text[i] \in Chars
    BY <1>1
  <2>2. /\ Len(b) = IF 1 <= k THEN k - 1 + 1 ELSE 0
        /\ \A i \in 1 .. k - 1 + 1 : b[i] = text[1 + i - 1]
    BY <1>1, <2>1, SubSeqProperties
  <2>3. k - 1 + 1 = k /\ \A i \in 1 .. k : 1 + i - 1 = 0 + i
    BY <1>1
  <2> QED
    BY <1>1, <2>2, <2>3
<1> HIDE DEF b
<1>3. At(text, 0, b)
  BY <1>1, <1>2 DEF At
<1>4. f[Len(b)].done /\ f[Len(b)].length = Len(b)
  BY <1>3, BlockRead DEF b
<1>5. f[Len(text)] = f[k]
  BY <1>1, <1>2, <1>4, DoneStays
<1> QED
  BY <1>2, <1>4, <1>5

LEMMA Exact ==
    ASSUME NEW raw \in Seq(Chars), Len(raw) <= MaxRaw
    PROVE  LET rest == FromFirstBrace(Defenced(raw))
               ends == {k \in 1 .. Len(rest) : SubSeq(rest, 1, k) \in Blocks(MaxRaw)}
           IN  ExtractJsonObject(raw) = IF ends = {} THEN NoObject
                                        ELSE SubSeq(rest, 1, CHOOSE k \in ends : TRUE)
<1> DEFINE rest == FromFirstBrace(Defenced(raw))
           ends == {k \in 1 .. Len(rest) : SubSeq(rest, 1, k) \in Blocks(MaxRaw)}
<1>1. /\ rest \in Seq(Chars \ {"fence"}) /\ Len(rest) <= Len(raw)
      /\ rest # <<>> => Opens(rest)
  <2> DEFINE t == Defenced(raw)
  <2>1. t \in Seq(Chars \ {"fence"}) /\ Len(t) <= Len(raw)
    BY NoFences
  <2> HIDE DEF t
  <2>2. /\ FromFirstBrace(t) \in Seq(Chars \ {"fence"})
        /\ Len(FromFirstBrace(t)) <= Len(t)
        /\ FromFirstBrace(t) # <<>> => Opens(FromFirstBrace(t))
    BY <2>1, FirstBrace
  <2>3. Len(FromFirstBrace(t)) <= Len(raw)
    BY <2>1, <2>2
  <2> QED
    BY <2>2, <2>3 DEF t
<1>2. Len(rest) \in Nat /\ MaxRaw \in Nat /\ MaxRaw - 2 \in Nat /\ Len(rest) <= MaxRaw
  <2>1. MaxRaw \in Nat \ {0, 1}
    BY IntakeNotesAssumption
  <2>2. Len(rest) \in Nat /\ Len(raw) \in Nat
    BY <1>1
  <2> QED
    BY <1>1, <2>1, <2>2
<1>3. ExtractJsonObject(raw) = IF Scanned(rest).done THEN SubSeq(rest, 1, Scanned(rest).length)
                                                     ELSE NoObject
  BY DEF ExtractJsonObject
<1>4. Blocks(MaxRaw) = Braced(Bodies(MaxRaw - 2))
  BY DEF Blocks, Braced, Bracket
<1> HIDE DEF rest
<1>5. PICK f : /\ Scanned(rest) = f[Len(rest)] /\ f[0] = Start
               /\ \A n \in Nat : n < Len(rest) => f[n + 1] = Scan(f[n], rest[n + 1])
  BY <1>2, Scanner
<1>6. Follows(f, rest)
  BY <1>1, <1>5 DEF Follows
<1>7. \A k \in ends : Scanned(rest).done /\ Scanned(rest).length = k
  BY <1>2, <1>4, <1>5, <1>6, EndOfBlock
<1>8. ASSUME Scanned(rest).done PROVE Scanned(rest).length \in ends
  <2>1. rest # <<>>
    <3>1. rest = <<>> => Scanned(rest) = Start
      BY <1>5
    <3> QED
      BY <1>8, <3>1 DEF Start
  <2>2. Len(rest) \in 1 .. Len(rest)
    <3>1. Len(rest) # 0
      BY <1>1, <2>1, EmptySeq
    <3> QED
      BY <1>2, <3>1, UpToNext
  <2>3. StillOpen(f, rest, Len(rest)) \/ Closed(f, rest, Len(rest))
    BY <1>1, <1>6, <2>1, <2>2, ReadSoFar
  <2>4. ~StillOpen(f, rest, Len(rest))
    <3>1. ASSUME NEW d \in Nat, NEW pos, InBody(f, rest, pos[d], d, Len(rest)) PROVE FALSE
      <4>1. f[Len(rest)] = Between(d, Len(rest))
        BY <3>1 DEF InBody
      <4> QED
        BY <1>5, <1>8, <4>1 DEF Between, State
    <3>2. ASSUME NEW d \in Nat, NEW pos, InString(f, rest, pos[d], d, Len(rest)) PROVE FALSE
      <4>1. \/ f[Len(rest)] = InLiteral(d, Len(rest))
            \/ f[Len(rest)] = AfterEscape(d, Len(rest))
        BY <3>2, Zenon DEF InString
      <4> QED
        BY <1>5, <1>8, <4>1 DEF InLiteral, AfterEscape, State
    <3> QED
      BY <3>1, <3>2, Zenon DEF StillOpen
  <2>5. PICK k \in 2 .. Len(rest) :
          Scanned(rest).length = k /\ SubSeq(rest, 1, k) \in Braced(Bodies(k - 2))
    BY <1>5, <2>3, <2>4 DEF Closed
  <2>6. k \in 1 .. Len(rest) /\ k - 2 \in Nat /\ k - 2 <= MaxRaw - 2
    BY <1>2
  <2>7. Bodies(k - 2) \subseteq Bodies(MaxRaw - 2)
    BY <1>2, <2>6, BodiesGrow
  <2>8. SubSeq(rest, 1, k) \in Blocks(MaxRaw)
    BY <1>4, <2>5, <2>7 DEF Braced
  <2> QED
    BY <2>5, <2>6, <2>8
<1>9. ExtractJsonObject(raw) = IF ends = {} THEN NoObject
                               ELSE SubSeq(rest, 1, CHOOSE k \in ends : TRUE)
  <2> HIDE DEF ends
  <2>1. CASE ends = {}
    BY <1>3, <1>8, <2>1
  <2>2. CASE ends # {}
    <3>1. (CHOOSE k \in ends : TRUE) \in ends
      BY <2>2
    <3> QED
      BY <1>3, <1>7, <2>2, <3>1
  <2> QED
    BY <2>1, <2>2
<1> QED
  BY <1>9 DEF rest

(* ExtractionExact: whatever the model wraps its answer in, up to any      *)
(* length, extractJsonObject returns the first balanced block as the       *)
(* grammar of braces, string literals and escapes defines it, and nothing  *)
(* when there is none.                                                     *)
THEOREM ExtractionIsExact == Spec => []ExtractionExact
<1>1. ExtractionExact
  <2>1. ASSUME NEW raw \in BoundedSeq(Chars, MaxRaw) PROVE raw \in Seq(Chars) /\ Len(raw) <= MaxRaw
    <3>1. PICK m \in 0 .. MaxRaw : raw \in [1 .. m -> Chars]
      BY DEF BoundedSeq, SeqOf
    <3>2. MaxRaw \in Nat /\ m \in Nat /\ m <= MaxRaw
      BY IntakeNotesAssumption
    <3>3. raw = [k \in 1 .. m |-> raw[k]] /\ \A k \in 1 .. m : raw[k] \in Chars
      BY <3>1
    <3>4. /\ [k \in 1 .. m |-> raw[k]] \in Seq(Chars)
          /\ Len([k \in 1 .. m |-> raw[k]]) = m
      BY <3>2, <3>3
    <3> QED
      BY <3>2, <3>3, <3>4
  <2> QED
    BY <2>1, Exact DEF ExtractionExact
<1> QED
  BY <1>1, PTL
=============================================================================
