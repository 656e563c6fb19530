--------------------------- MODULE RecordsProofs ---------------------------
(***************************************************************************)
(* Proofs about Records for any number of clients, cases, sessions and     *)
(* documents, wherever the process dies.                                   *)
(***************************************************************************)
EXTENDS Records, SequenceTheorems, TLAPS

FileOps == [op : {"tear", "fill", "delete", "cascade"}, of : SUBSET Items]

Tear(i) == [op |-> "tear", of |-> {i}]
Fill(i) == [op |-> "fill", of |-> {i}]

(* The lists that cache what a store can read.                             *)
Caches == {"clients", "cases", "sessions"}
Stored(l) == CASE l = "clients" -> Clients [] l = "cases" -> Cases [] l = "sessions" -> Sessions
Cached(l) == lists[l] = Readable(Stored(l))

(* What an item belongs to is on disk.                                     *)
Owned(i) ==
    /\ i \in Cases => parent[i] \in Clients /\ Exists(parent[i])
    /\ i \in Sessions \cup Documents => parent[i] \in Cases /\ Exists(parent[i])

AllOwned ==
    /\ parent[DemoCase] = DemoClient
    /\ \A i \in Readable(Cases \cup Sessions) : Owned(i)
    /\ \A d \in Documents : Exists(d) => Owned(d)

(* What a cascade still has to do: sessions, documents and cases that are  *)
(* being deleted, cases that have yet to be, and the client.               *)
Plan(S, D, K, Ks, C) ==
    Do("delete", S) \o (Do("delete", D) \o (Do("delete", K) \o (Do("cascade", Ks) \o Do("delete", C))))

(* A handler that deletes takes with every item all that belongs to it,    *)
(* and goes to a screen that shows none of them.                           *)
Deleting(S, D, K, Ks, C) ==
    /\ todo = Plan(S, D, K, Ks, C)
    /\ \A k \in K : Of(Readable(Sessions), k) \subseteq S /\ Directory(k) \subseteq D
    /\ \A c \in C : Of(Readable(Cases), c) \subseteq K \cup Ks
    /\ Ks # {} => Readable(Sessions) \subseteq lists["sessions"]
    /\ after.to.client \notin C
    /\ K \cup Ks # {} => after.to.phase # "CASE_PROFILE"
    /\ after.to.phase = "NEW_CLIENT" => after.to.editing \notin C
    /\ D # {} /\ after.to.phase = "CASE_PROFILE" => "documents" \in after.refresh
    /\ S # {} => "sessions" \in after.refresh
    /\ K \cup Ks # {} => {"cases", "sessions"} \subseteq after.refresh
    /\ C # {} => "clients" \in after.refresh

(* A handler that writes an item, and the one at launch, which writes two. *)
Writing(i) ==
    /\ todo = <<Tear(i), Fill(i)>> \/ (todo = <<Fill(i)>> /\ Exists(i))
    /\ Owned(i)
    /\ i \in Documents /\ after.to.phase = "CASE_PROFILE" => "documents" \in after.refresh
    /\ \A l \in Caches : i \in Stored(l) => l \in after.refresh

Seeding ==
    /\ after = Launched
    /\ \/ todo = <<Tear(DemoClient), Fill(DemoClient), Tear(DemoCase), Fill(DemoCase)>>
       \/ Exists(DemoClient) /\ todo = <<Fill(DemoClient), Tear(DemoCase), Fill(DemoCase)>>

Work ==
    \/ \E i \in Items : Writing(i)
    \/ Seeding
    \/ \E S \in SUBSET Sessions, D \in SUBSET Documents, K, Ks \in SUBSET Cases, C \in SUBSET Clients :
           Deleting(S, D, K, Ks, C)

(* A screen that can be shown: what is on it exists, or is just being      *)
(* written.                                                                *)
Stays(i) == Exists(i) \/ todo = <<Tear(i), Fill(i)>>

Showable(u) ==
    /\ u.phase \in {"CLIENT_PROFILE", "NEW_CASE", "CASE_PROFILE"} => u.client # None
    /\ u.phase = "CASE_PROFILE" <=> u.case # None
    /\ u.client # None => Stays(u.client)
    /\ u.case # None => Stays(u.case) /\ parent[u.case] = u.client
    /\ u.phase = "NEW_CLIENT" /\ u.editing # None => Exists(u.editing)

(* Between handlers, and while one runs.                                   *)
Settled ==
    /\ \A l \in Caches : Cached(l)
    /\ Showable(ui)
    /\ ui.phase = "CASE_PROFILE" => lists["documents"] = Directory(ui.case)

Handling ==
    /\ Work
    /\ Showable(after.to)
    /\ \A l \in Caches \ after.refresh : Cached(l)
    /\ after.to.phase = "CASE_PROFILE" /\ "documents" \notin after.refresh =>
           lists["documents"] = Directory(after.to.case)

(* TypeOK without what it says of the screen.                              *)
Typed ==
    /\ file \in [Items -> {"NONE", "TORN", "OK"}]
    /\ parent \in [Items -> Items \cup {None}]
    /\ lists \in [Lists -> SUBSET Items]
    /\ lists["cases"] \subseteq Cases /\ lists["sessions"] \subseteq Sessions
    /\ ui \in Screens
    /\ todo \in Seq(FileOps)
    /\ after = None \/ after \in [to : Screens, refresh : SUBSET Lists]
    /\ ui.phase \in {"CLIENT_PROFILE", "NEW_CASE", "CASE_PROFILE"} => ui.client # None
    /\ ui.phase = "CASE_PROFILE" => ui.case # None

RecordsInv ==
    /\ Typed /\ AllOwned
    /\ after = None => todo = <<>> /\ Settled
    /\ after # None => Handling

-----------------------------------------------------------------------------
(* Sequences of file operations.                                           *)

ItemSets == SUBSET Items

(* An operation on some items before others.                               *)
LEMMA DoThen ==
    ASSUME NEW op \in {"tear", "fill", "delete", "cascade"}, NEW S \in ItemSets,
           NEW r \in Seq(FileOps)
    PROVE  /\ Do(op, S) \in Seq(FileOps) /\ Do(op, S) \o r \in Seq(FileOps)
           /\ S = {} => Do(op, S) \o r = r
           /\ S # {} => /\ Do(op, S) \o r # <<>>
                        /\ Head(Do(op, S) \o r) = [op |-> op, of |-> S]
                        /\ Tail(Do(op, S) \o r) = r
<1>1. CASE S = {}
  BY <1>1, EmptySeq, ConcatEmptySeq DEF Do
<1>2. CASE S # {}
  <2> DEFINE e == [op |-> op, of |-> S]
             s == <<e>> \o r
  <2>1. Do(op, S) = <<e>> /\ e \in FileOps
    BY <1>2 DEF Do, FileOps, ItemSets
  <2> HIDE DEF e
  <2>2. <<e>> \in Seq(FileOps) /\ Len(<<e>>) = 1 /\ <<e>>[1] = e
    BY <2>1
  <2>3. /\ s \in Seq(FileOps) /\ Len(s) = 1 + Len(r) /\ Len(r) \in Nat
        /\ \A j \in 1 .. 1 + Len(r) : s[j] = IF j <= 1 THEN <<e>>[j] ELSE r[j - 1]
    BY <2>2, ConcatProperties, LenProperties
  <2>4. s # <<>>
    BY <2>3, EmptySeq
  <2>5. Head(s) = e
    BY <2>2, <2>3, <2>4
  <2>6. Tail(s) \in Seq(FileOps) /\ Len(Tail(s)) = Len(r)
        /\ \A j \in 1 .. Len(Tail(s)) : Tail(s)[j] = s[j + 1]
    BY <2>3, <2>4, HeadTailProperties
  <2>7. \A j \in 1 .. Len(r) : Tail(s)[j] = r[j]
    BY <2>3, <2>6
  <2>8. Tail(s) = r
    BY <2>6, <2>7, SeqEqual
  <2> QED
    BY <1>2, <2>1, <2>2, <2>3, <2>4, <2>5, <2>8, ZenonT(60) DEF e
<1> QED
  BY <1>1, <1>2, SMTT(60)

(* The plan is a sequence of operations, and so are its ends.              *)
Plan2(Ks, C) == Do("cascade", Ks) \o Do("delete", C)
Plan3(K, Ks, C) == Do("delete", K) \o Plan2(Ks, C)
Plan4(D, K, Ks, C) == Do("delete", D) \o Plan3(K, Ks, C)

LEMMA PlanType ==
    /\ \A C \in ItemSets : Do("delete", C) \in Seq(FileOps)
    /\ \A Ks, C \in ItemSets : Plan2(Ks, C) \in Seq(FileOps)
    /\ \A K, Ks, C \in ItemSets : Plan3(K, Ks, C) \in Seq(FileOps)
    /\ \A D, K, Ks, C \in ItemSets : Plan4(D, K, Ks, C) \in Seq(FileOps)
    /\ \A S, D, K, Ks, C \in ItemSets : Plan(S, D, K, Ks, C) \in Seq(FileOps)
<1>1. \A C \in ItemSets : Do("delete", C) \in Seq(FileOps)
  BY DoThen, EmptySeq
<1>2. \A Ks, C \in ItemSets : Plan2(Ks, C) \in Seq(FileOps)
  BY <1>1, DoThen DEF Plan2
<1>3. \A K, Ks, C \in ItemSets : Plan3(K, Ks, C) \in Seq(FileOps)
  BY <1>2, DoThen DEF Plan3
<1>4. \A D, K, Ks, C \in ItemSets : Plan4(D, K, Ks, C) \in Seq(FileOps)
  BY <1>3, DoThen, SMTT(60) DEF Plan4
<1>5. ASSUME NEW S \in ItemSets, NEW D \in ItemSets, NEW K \in ItemSets,
             NEW Ks \in ItemSets, NEW C \in ItemSets
      PROVE  Plan(S, D, K, Ks, C) \in Seq(FileOps)
  <2> DEFINE r == Plan4(D, K, Ks, C)
  <2>1. Plan(S, D, K, Ks, C) = Do("delete", S) \o r
    BY DEF Plan, Plan4, Plan3, Plan2
  <2>2. r \in Seq(FileOps)
    BY <1>4
  <2> HIDE DEF r
  <2> QED
    BY <2>1, <2>2, DoThen
<1> QED
  BY <1>1, <1>2, <1>3, <1>4, <1>5

(* Operations on nothing are no operations.                                *)
LEMMA Nothing ==
    ASSUME NEW op, NEW E, E = {}, NEW r \in Seq(FileOps)
    PROVE  Do(op, E) \o r = r
BY ConcatEmptySeq DEF Do

(* The items a plan deletes next.                                          *)
Ripe(i, S, D, K, Ks, C) ==
    \/ i \in S
    \/ S = {} /\ i \in D
    \/ S = {} /\ D = {} /\ i \in K
    \/ S = {} /\ D = {} /\ K = {} /\ Ks = {} /\ i \in C

(* It begins with such an item, or with a case to cascade to.              *)
Begins(p, i, S, D, K, Ks, C) ==
    \/ /\ Head(p).op = "delete"
       /\ Ripe(i, S, D, K, Ks, C)
       /\ Do("delete", Head(p).of \ {i}) \o Tail(p)
              = Plan(S \ {i}, D \ {i}, K \ {i}, Ks, C \ {i})
    \/ /\ Head(p).op = "cascade" /\ S = {} /\ D = {} /\ K = {} /\ i \in Ks
       /\ Do("cascade", Head(p).of \ {i}) \o Tail(p) = Plan2(Ks \ {i}, C)

(* The first operation of a plan, and the plan that is left of it: one     *)
(* item fewer to delete, or a cascade spelled out for one case.            *)
LEMMA PlanHead ==
    ASSUME NEW S \in SUBSET Sessions, NEW D \in SUBSET Documents, NEW K \in SUBSET Cases,
           NEW Ks \in SUBSET Cases, NEW C \in SUBSET Clients,
           NEW p, p = Plan(S, D, K, Ks, C), p # <<>>, NEW i \in Head(p).of
    PROVE  Begins(p, i, S, D, K, Ks, C)
<1> DEFINE q == Plan(S \ {i}, D \ {i}, K \ {i}, Ks, C \ {i})
           p1 == Do("delete", C)
           p2 == Plan2(Ks, C)
           p3 == Plan3(K, Ks, C)
           p4 == Plan4(D, K, Ks, C)
           Starts(s, op, T, r) == Head(s) = [op |-> op, of |-> T] /\ Tail(s) = r
<1>1. S \in ItemSets /\ D \in ItemSets /\ K \in ItemSets /\ Ks \in ItemSets /\ C \in ItemSets
  BY DEF Items, ItemSets
<1>2. \A T \in ItemSets : T \ {i} \in ItemSets
  BY DEF ItemSets
<1>3. /\ i \in S => i \notin D /\ i \notin K /\ i \notin C
      /\ i \in D => i \notin K /\ i \notin C
      /\ i \in K => i \notin C
  BY RecordsAssumption
<1>4. p1 \in Seq(FileOps) /\ p2 \in Seq(FileOps) /\ p3 \in Seq(FileOps) /\ p4 \in Seq(FileOps)
  BY <1>1, PlanType
<1>5. /\ p = Do("delete", S) \o p4 /\ p4 = Do("delete", D) \o p3
      /\ p3 = Do("delete", K) \o p2 /\ p2 = Do("cascade", Ks) \o p1
  BY DEF Plan, Plan4, Plan3, Plan2
<1>6. /\ S = {} => p = p4
      /\ D = {} => p4 = p3
      /\ K = {} => p3 = p2
      /\ Ks = {} => p2 = p1
      /\ C = {} => p1 = <<>>
  <2> HIDE DEF p1, p2, p3, p4
  <2>1. /\ S = {} => Do("delete", S) = <<>>
        /\ D = {} => Do("delete", D) = <<>>
        /\ K = {} => Do("delete", K) = <<>>
        /\ Ks = {} => Do("cascade", Ks) = <<>>
    BY DEF Do
  <2>2. <<>> \o p4 = p4 /\ <<>> \o p3 = p3 /\ <<>> \o p2 = p2 /\ <<>> \o p1 = p1
    BY <1>4, ConcatEmptySeq
  <2>3. C = {} => p1 = <<>>
    BY DEF p1, Do
  <2> QED
    BY <1>5, <2>1, <2>2, <2>3, Zenon
<1>7. /\ S # {} => Starts(p, "delete", S, p4)
      /\ D # {} => Starts(p4, "delete", D, p3)
      /\ K # {} => Starts(p3, "delete", K, p2)
      /\ Ks # {} => Starts(p2, "cascade", Ks, p1)
  <2> HIDE DEF p1, p2, p3, p4
  <2>1. S # {} => Starts(p, "delete", S, p4)
    <3>1. S # {} => Starts(Do("delete", S) \o p4, "delete", S, p4)
      BY <1>1, <1>4, DoThen
    <3> QED
      BY <1>5, <3>1, Zenon
  <2>2. D # {} => Starts(p4, "delete", D, p3)
    <3>1. D # {} => Starts(Do("delete", D) \o p3, "delete", D, p3)
      BY <1>1, <1>4, DoThen
    <3> QED
      BY <1>5, <3>1, Zenon
  <2>3. K # {} => Starts(p3, "delete", K, p2)
    <3>1. K # {} => Starts(Do("delete", K) \o p2, "delete", K, p2)
      BY <1>1, <1>4, DoThen
    <3> QED
      BY <1>5, <3>1, Zenon
  <2>4. Ks # {} => Starts(p2, "cascade", Ks, p1)
    <3>1. Ks # {} => Starts(Do("cascade", Ks) \o p1, "cascade", Ks, p1)
      BY <1>1, <1>4, DoThen
    <3> QED
      BY <1>5, <3>1, Zenon
  <2> QED
    BY <2>1, <2>2, <2>3, <2>4
<1>8. C # {} => Starts(p1, "delete", C, <<>>)
  <2>1. p1 = Do("delete", C) \o <<>> /\ <<>> \in Seq(FileOps)
    BY <1>4, ConcatEmptySeq, EmptySeq
  <2> HIDE DEF p1
  <2> QED
    BY <1>1, <2>1, DoThen, ZenonT(60)
<1>9. CASE S # {}
  <2>1. Head(p).op = "delete" /\ Head(p).of = S /\ Tail(p) = p4
    BY <1>7, <1>9
  <2>2. i \in S /\ D \ {i} = D /\ K \ {i} = K /\ C \ {i} = C
    BY <1>3, <2>1
  <2>3. q = Do("delete", S \ {i}) \o p4
    <3>1. q = Plan(S \ {i}, D, K, Ks, C)
      BY <2>2
    <3> QED
      BY <3>1 DEF Plan, Plan4, Plan3, Plan2
  <2> QED
    BY <2>1, <2>2, <2>3, Zenon DEF Begins, Ripe
<1>10. CASE S = {} /\ D # {}
  <2>1. Head(p).op = "delete" /\ Head(p).of = D /\ Tail(p) = p3
    BY <1>6, <1>7, <1>10
  <2>2. i \in D /\ S \ {i} = S /\ K \ {i} = K /\ C \ {i} = C /\ D \ {i} \in ItemSets
    BY <1>1, <1>2, <1>3, <1>10, <2>1
  <2>3. q = Do("delete", D \ {i}) \o p3
    <3> DEFINE r == Do("delete", D \ {i}) \o p3
    <3>1. q = Do("delete", S) \o r
      <4>1. q = Plan(S, D \ {i}, K, Ks, C)
        BY <2>2
      <4> QED
        BY <4>1 DEF Plan, Plan3, Plan2
    <3>2. r \in Seq(FileOps)
      BY <1>4, <2>2, DoThen
    <3> HIDE DEF q, r
    <3> QED
      BY <1>10, <3>1, <3>2, Nothing DEF r
  <2> QED
    BY <1>10, <2>1, <2>2, <2>3, Zenon DEF Begins, Ripe
<1>11. CASE S = {} /\ D = {} /\ K # {}
  <2>1. Head(p).op = "delete" /\ Head(p).of = K /\ Tail(p) = p2
    BY <1>6, <1>7, <1>11
  <2>2. i \in K /\ S \ {i} = S /\ D \ {i} = D /\ C \ {i} = C /\ K \ {i} \in ItemSets
    BY <1>1, <1>2, <1>3, <1>11, <2>1
  <2>3. q = Do("delete", K \ {i}) \o p2
    <3> DEFINE r == Do("delete", K \ {i}) \o p2
    <3>1. q = Do("delete", S) \o (Do("delete", D) \o r)
      <4>1. q = Plan(S, D, K \ {i}, Ks, C)
        BY <2>2
      <4> QED
        BY <4>1 DEF Plan, Plan2
    <3>2. r \in Seq(FileOps)
      BY <1>4, <2>2, DoThen
    <3> HIDE DEF q, r
    <3>3. q = r
      BY <1>11, <3>1, <3>2, Nothing, SMTT(60)
    <3> QED
      BY <3>3 DEF r
  <2> QED
    BY <1>11, <2>1, <2>2, <2>3, Zenon DEF Begins, Ripe
<1>12. CASE S = {} /\ D = {} /\ K = {} /\ Ks # {}
  <2>1. Head(p).op = "cascade" /\ Head(p).of = Ks /\ Tail(p) = p1
    BY <1>6, <1>7, <1>12
  <2> QED
    BY <1>12, <2>1, Zenon DEF Begins, Plan2
<1>13. CASE S = {} /\ D = {} /\ K = {} /\ Ks = {}
  <2>1. p = p1 /\ C # {}
    BY <1>6, <1>13
  <2>2. Head(p).op = "delete" /\ Head(p).of = C /\ Tail(p) = <<>>
    BY <1>8, <2>1
  <2>3. i \in C /\ S \ {i} = S /\ D \ {i} = D /\ K \ {i} = K /\ C \ {i} \in ItemSets
    BY <1>1, <1>2, <1>13, <2>2
  <2>4. q = Do("delete", C \ {i}) \o <<>>
    <3> DEFINE r == Do("delete", C \ {i})
    <3>1. q = Do("delete", S) \o (Do("delete", D) \o (Do("delete", K) \o (Do("cascade", Ks) \o r)))
      <4>1. q = Plan(S, D, K, Ks, C \ {i})
        BY <2>3
      <4> QED
        BY <4>1 DEF Plan
    <3>2. r \in Seq(FileOps) /\ r \o <<>> = r
      BY <2>3, PlanType, ConcatEmptySeq
    <3> HIDE DEF q, r
    <3>3. q = r
      BY <1>13, <3>1, <3>2, Nothing, SMTT(60)
    <3> QED
      BY <3>2, <3>3 DEF r
  <2> QED
    BY <1>13, <2>2, <2>3, <2>4, Zenon DEF Begins, Ripe
<1> QED
  BY <1>9, <1>10, <1>11, <1>12, <1>13, Zenon

(* The cascade of one case, before the rest of a plan, and by itself.      *)
CascadeOps(S, D, K) == Do("delete", S) \o Do("delete", D) \o Do("delete", K)
CascadeThen(S, D, K, Ks, C) == CascadeOps(S, D, K) \o Plan2(Ks, C)

LEMMA CascadeOfCase ==
    ASSUME NEW A \in ItemSets, NEW B \in ItemSets, NEW E \in ItemSets,
           NEW Ks \in ItemSets, NEW C \in ItemSets
    PROVE  CascadeThen(A, B, E, Ks, C) = Plan(A, B, E, Ks, C)
<1> DEFINE a == Do("delete", A)
           b == Do("delete", B)
           e == Do("delete", E)
           r == Plan2(Ks, C)
<1>1. a \in Seq(FileOps) /\ b \in Seq(FileOps) /\ e \in Seq(FileOps) /\ r \in Seq(FileOps)
  <2>1. \A T \in ItemSets : Do("delete", T) \in Seq(FileOps)
    BY DoThen, EmptySeq
  <2>2. r \in Seq(FileOps)
    BY <2>1, DoThen DEF Plan2
  <2> QED
    BY <2>1, <2>2
<1>2. Plan(A, B, E, Ks, C) = a \o (b \o (e \o r))
  BY DEF Plan, Plan2
<1> HIDE DEF a, b, e, r
<1>4. a \o b \in Seq(FileOps) /\ e \o r \in Seq(FileOps)
  BY <1>1, ConcatProperties
<1>5. ((a \o b) \o e) \o r = (a \o b) \o (e \o r)
  <2> DEFINE h == a \o b
  <2>1. h \in Seq(FileOps)
    BY <1>4
  <2> HIDE DEF h
  <2>2. (h \o e) \o r = h \o (e \o r)
    BY <1>1, <2>1, ConcatAssociative, SMTT(60)
  <2> QED
    BY <2>2 DEF h
<1>6. (a \o b) \o (e \o r) = a \o (b \o (e \o r))
  <2> DEFINE f == e \o r
  <2>1. f \in Seq(FileOps)
    BY <1>4
  <2> HIDE DEF f
  <2>2. (a \o b) \o f = a \o (b \o f)
    BY <1>1, <2>1, ConcatAssociative, SMTT(60)
  <2> QED
    BY <2>2 DEF f
<1> QED
  BY <1>2, <1>5, <1>6 DEF a, b, e, r, CascadeOps, CascadeThen

-----------------------------------------------------------------------------
(* The steps of a handler that deletes.                                    *)

LEMMA CascadeAlone ==
    ASSUME NEW A \in ItemSets, NEW B \in ItemSets, NEW K \in ItemSets, NEW E, E = {}
    PROVE  CascadeOps(A, B, K) = Plan(A, B, K, E, E)
<1> DEFINE a == Do("delete", A)
           b == Do("delete", B)
           k == Do("delete", K)
<1>1. a \in Seq(FileOps) /\ b \in Seq(FileOps) /\ k \in Seq(FileOps)
  BY PlanType
<1>2. Plan(A, B, K, E, E) = a \o (b \o k)
  <2>1. Do("cascade", E) \o Do("delete", E) = <<>>
    BY ConcatEmptySeq, EmptySeq DEF Do
  <2>2. k \o <<>> = k
    BY <1>1, ConcatEmptySeq
  <2> QED
    BY <2>1, <2>2 DEF Plan
<1> HIDE DEF a, b, k
<1>3. (a \o b) \o k = a \o (b \o k)
  BY <1>1, ConcatAssociative, SMTT(60)
<1> QED
  BY <1>2, <1>3 DEF a, b, k, CascadeOps

(* What is stored where.                                                   *)
LEMMA StoredKinds ==
    /\ Caches \subseteq Lists
    /\ \A l \in Caches : Stored(l) \in {Clients, Cases, Sessions}
    /\ \A i \in Clients : \A l \in Caches : i \in Stored(l) => l = "clients"
    /\ \A i \in Cases : \A l \in Caches : i \in Stored(l) => l = "cases"
    /\ \A i \in Sessions : \A l \in Caches : i \in Stored(l) => l = "sessions"
    /\ \A i \in Documents : \A l \in Caches : i \notin Stored(l)
    /\ Stored("clients") = Clients /\ Stored("cases") = Cases /\ Stored("sessions") = Sessions
BY RecordsAssumption DEF Caches, Lists, Stored

(* An item is deleted after all that belongs to it.                        *)
LEMMA DeleteOne ==
    ASSUME RecordsInv, after # None,
           NEW S \in SUBSET Sessions, NEW D \in SUBSET Documents, NEW K \in SUBSET Cases,
           NEW Ks \in SUBSET Cases, NEW C \in SUBSET Clients, Deleting(S, D, K, Ks, C),
           \A j : todo # <<Tear(j), Fill(j)>>,
           NEW i, Ripe(i, S, D, K, Ks, C),
           file' = [file EXCEPT ![i] = "NONE"],
           todo' = Plan(S \ {i}, D \ {i}, K \ {i}, Ks, C \ {i}),
           UNCHANGED <<parent, lists, ui, after>>
    PROVE  RecordsInv'
<1> DEFINE u == after.to
<1>1. /\ Typed /\ AllOwned /\ Showable(u)
      /\ u \in Screens /\ file \in [Items -> {"NONE", "TORN", "OK"}]
      /\ parent' = parent /\ lists' = lists /\ after' = after /\ ui' = ui
  BY DEF RecordsInv, Handling, Typed
<1>2. /\ i \in Items
      /\ i \in Sessions => i \in S
      /\ i \in Documents => i \in D /\ S = {}
      /\ i \in Cases => i \in K /\ S = {} /\ D = {}
      /\ i \in Clients => i \in C /\ S = {} /\ D = {} /\ K = {} /\ Ks = {}
  BY RecordsAssumption DEF Items, Ripe
<1>3. /\ file' \in [Items -> {"NONE", "TORN", "OK"}]
      /\ \A j \in Items : j # i => file'[j] = file[j]
      /\ file'[i] = "NONE"
  BY <1>1, <1>2
<1>4. /\ \A j \in Items : Exists(j)' <=> Exists(j) /\ j # i
      /\ \A T \in SUBSET Items : Readable(T)' = Readable(T) \ {i}
      /\ \A T \in SUBSET Items : i \notin T => Readable(T)' = Readable(T)
  BY <1>3 DEF Exists, Readable
<1>5. \A j \in Cases \cup Sessions \cup Documents :
          (j \in Documents /\ Exists(j)) \/ (j \in Cases \cup Sessions /\ file[j] = "OK")
              => Owned(j) /\ parent[j] # i
  <2> SUFFICES ASSUME NEW j \in Cases \cup Sessions \cup Documents,
                      (j \in Documents /\ Exists(j)) \/ (j \in Cases \cup Sessions /\ file[j] = "OK")
               PROVE  Owned(j) /\ parent[j] # i
    OBVIOUS
  <2>1. Owned(j)
    BY <1>1 DEF AllOwned, Readable
  <2>2. CASE j \in Cases
    <3>1. i = parent[j] => i \in C /\ K = {} /\ Ks = {} /\ j \in Of(Readable(Cases), i)
      BY <1>2, <2>1, <2>2, RecordsAssumption DEF Owned, Of, Readable
    <3> QED
      BY <2>1, <3>1 DEF Deleting
  <2>3. CASE j \in Sessions
    <3>1. i = parent[j] => i \in K /\ S = {} /\ j \in Of(Readable(Sessions), i)
      BY <1>2, <2>1, <2>3, RecordsAssumption DEF Owned, Of, Readable
    <3> QED
      BY <2>1, <3>1 DEF Deleting
  <2>4. CASE j \in Documents
    <3>1. i = parent[j] => i \in K /\ D = {} /\ j \in Directory(i)
      BY <1>2, <2>1, <2>4, RecordsAssumption DEF Owned, Directory
    <3> QED
      BY <2>1, <3>1 DEF Deleting
  <2> QED
    BY <2>2, <2>3, <2>4
<1>6. AllOwned'
  <2>1. ASSUME NEW j \in Cases \cup Sessions, j \in Readable(Cases \cup Sessions)' PROVE Owned(j)'
    <3>1. j # i /\ file[j] = "OK" /\ j \in Items
      BY <1>3, <2>1 DEF Readable, Items
    <3>2. Owned(j) /\ parent[j] # i
      BY <1>5, <3>1
    <3> QED
      BY <1>1, <1>4, <3>2 DEF Owned, Items
  <2>2. ASSUME NEW d \in Documents, Exists(d)' PROVE Owned(d)'
    <3>1. Exists(d)
      BY <1>4, <2>2 DEF Items
    <3>2. Owned(d) /\ parent[d] # i
      BY <1>5, <3>1
    <3> QED
      BY <1>1, <1>4, <3>2 DEF Owned, Items
  <2> QED
    BY <1>1, <2>1, <2>2 DEF AllOwned, Readable
<1>7. Deleting(S \ {i}, D \ {i}, K \ {i}, Ks, C \ {i})'
  <2>1. \A T \in SUBSET Items : \A k : Of(Readable(T), k)' = Of(Readable(T), k) \ {i}
    BY <1>1, <1>4 DEF Of
  <2>2. \A k : Directory(k)' = Directory(k) \ {i}
    BY <1>1, <1>4 DEF Directory, Items
  <2>3. Readable(Sessions)' \subseteq Readable(Sessions)
    BY <1>4 DEF Items
  <2>4. \A k \in K \ {i} : Of(Readable(Sessions), k)' \subseteq S \ {i} /\ Directory(k)' \subseteq D \ {i}
    BY <2>1, <2>2 DEF Deleting, Items
  <2>5. \A c \in C \ {i} : Of(Readable(Cases), c)' \subseteq (K \ {i}) \cup Ks
    BY <2>1 DEF Deleting, Items
  <2> QED
    BY <1>1, <2>3, <2>4, <2>5 DEF Deleting
<1>8. Showable(u)'
  <2>1. ASSUME u.client # None PROVE Exists(u.client)'
    <3>1. Exists(u.client) /\ u.client \in Clients /\ u.client \notin C
      BY <1>1, <2>1 DEF Showable, Stays, Screens, Deleting
    <3> QED
      BY <1>2, <1>4, <3>1 DEF Items
  <2>2. ASSUME u.case # None PROVE Exists(u.case)'
    <3>1. Exists(u.case) /\ u.case \in Cases /\ K = {}
      BY <1>1, <2>2 DEF Showable, Stays, Screens, Deleting
    <3> QED
      BY <1>2, <1>4, <3>1 DEF Items
  <2>3. ASSUME u.phase = "NEW_CLIENT", u.editing # None PROVE Exists(u.editing)'
    <3>1. Exists(u.editing) /\ u.editing \in Clients /\ u.editing \notin C
      BY <1>1, <2>3 DEF Showable, Screens, Deleting
    <3> QED
      BY <1>2, <1>4, <3>1 DEF Items
  <2> QED
    BY <1>1, <2>1, <2>2, <2>3 DEF Showable, Stays
<1>9. \A l \in Caches \ after.refresh : Cached(l)'
  <2> SUFFICES ASSUME NEW l \in Caches \ after.refresh PROVE Cached(l)'
    OBVIOUS
  <2>1. i \notin Stored(l)
    BY <1>2, StoredKinds DEF Deleting, Items
  <2>2. Stored(l) \in SUBSET Items
    BY StoredKinds DEF Items
  <2>3. Cached(l)
    BY DEF RecordsInv, Handling
  <2> QED
    BY <1>1, <1>4, <2>1, <2>2, <2>3 DEF Cached
<1>10. u.phase = "CASE_PROFILE" /\ "documents" \notin after.refresh =>
           lists["documents"] = Directory(u.case)'
  <2> SUFFICES ASSUME u.phase = "CASE_PROFILE", "documents" \notin after.refresh
               PROVE  lists["documents"] = Directory(u.case)'
    OBVIOUS
  <2>1. i \notin Documents
    BY <1>2 DEF Deleting
  <2> QED
    BY <1>1, <1>4, <2>1 DEF RecordsInv, Handling, Directory, Items
<1>11. Handling'
  <2>1. Work'
    BY <1>7 DEF Work
  <2> QED
    BY <1>1, <1>8, <1>9, <1>10, <2>1 DEF Handling
<1>12. Typed'
  <2>1. todo' \in Seq(FileOps)
    <3>1. /\ S \ {i} \in ItemSets /\ D \ {i} \in ItemSets /\ K \ {i} \in ItemSets
          /\ Ks \in ItemSets /\ C \ {i} \in ItemSets
      BY DEF Items, ItemSets
    <3> QED
      BY <3>1, PlanType
  <2> QED
    BY <1>1, <1>3, <2>1 DEF Typed
<1> QED
  BY <1>1, <1>6, <1>11, <1>12 DEF RecordsInv

(* The cascade of a client comes to one of its cases.                      *)
LEMMA CascadeOne ==
    ASSUME RecordsInv, after # None,
           NEW Ks \in SUBSET Cases, NEW C \in SUBSET Clients, Deleting({}, {}, {}, Ks, C),
           \A j : todo # <<Tear(j), Fill(j)>>,
           NEW i \in Ks,
           todo' = Plan(Of(lists["sessions"], i), Directory(i), {i}, Ks \ {i}, C),
           UNCHANGED <<file, parent, lists, ui, after>>
    PROVE  RecordsInv'
<1>1. /\ Typed /\ AllOwned /\ Showable(after.to)
      /\ file' = file /\ parent' = parent /\ lists' = lists /\ after' = after /\ ui' = ui
  BY DEF RecordsInv, Handling
<1>2. PICK S \in SUBSET Sessions : S = Of(lists["sessions"], i)
  BY <1>1 DEF Typed, Of
<1>3. PICK D \in SUBSET Documents : D = Directory(i)
  BY DEF Directory
<1>4. PICK K \in SUBSET Cases : K = {i}
  OBVIOUS
<1>5. PICK R \in SUBSET Cases : R = Ks \ {i}
  OBVIOUS
<1>6. AllOwned'
  BY <1>1 DEF AllOwned, Readable, Owned, Exists
<1>7. /\ Readable(Sessions)' = Readable(Sessions) /\ Readable(Cases)' = Readable(Cases)
      /\ Directory(i)' = Directory(i)
  BY <1>1 DEF Readable, Directory, Exists
<1>8. todo' = Plan(S, D, K, R, C)
  BY <1>2, <1>3, <1>4, <1>5, Zenon
<1>9. Deleting(S, D, K, R, C)'
  <2>1. Of(Readable(Sessions), i)' \subseteq S /\ Directory(i)' \subseteq D
    BY <1>1, <1>2, <1>3, <1>7 DEF Deleting, Of
  <2>2. \A k \in K : Of(Readable(Sessions), k)' \subseteq S /\ Directory(k)' \subseteq D
    BY <1>4, <2>1
  <2>3. \A c \in C : Of(Readable(Cases), c)' \subseteq K \cup R
    <3>1. \A c \in C : Of(Readable(Cases), c) \subseteq Ks
      BY DEF Deleting
    <3>2. Ks = K \cup R
      BY <1>4, <1>5
    <3>3. \A c : Of(Readable(Cases), c)' = Of(Readable(Cases), c)
      BY <1>1, <1>7 DEF Of
    <3> QED
      BY <3>1, <3>2, <3>3, Zenon
  <2>4. Readable(Sessions)' \subseteq lists'["sessions"]
    BY <1>1, <1>7 DEF Deleting
  <2>5. /\ after.to.client \notin C /\ after.to.phase # "CASE_PROFILE"
        /\ after.to.phase = "NEW_CLIENT" => after.to.editing \notin C
        /\ {"cases", "sessions"} \subseteq after.refresh
        /\ C # {} => "clients" \in after.refresh
    BY DEF Deleting
  <2> QED
    BY <1>1, <1>8, <2>2, <2>3, <2>4, <2>5, Zenon DEF Deleting
<1>10. Handling'
  <2>1. Work'
    BY <1>9 DEF Work
  <2>2. Showable(after.to)'
    BY <1>1 DEF Showable, Stays, Exists
  <2>3. \A l \in Caches \ after.refresh : Cached(l)'
    BY <1>1 DEF RecordsInv, Handling, Cached, Readable
  <2>4. after.to.phase # "CASE_PROFILE"
    BY DEF Deleting
  <2> QED
    BY <1>1, <2>1, <2>2, <2>3, <2>4 DEF Handling
<1>11. Typed'
  <2>1. todo' \in Seq(FileOps)
    <3>1. S \in ItemSets /\ D \in ItemSets /\ K \in ItemSets /\ R \in ItemSets /\ C \in ItemSets
      BY DEF Items, ItemSets
    <3> QED
      BY <1>8, <3>1, PlanType, ZenonT(120)
  <2> QED
    BY <1>1, <2>1 DEF Typed
<1> QED
  BY <1>1, <1>6, <1>10, <1>11 DEF RecordsInv

-----------------------------------------------------------------------------
(* The steps of a handler that writes.                                     *)

(* The plans with one or two kinds of work in them.                        *)
LEMMA ShortPlans ==
    ASSUME NEW A \in ItemSets, NEW B \in ItemSets, NEW E \in ItemSets, E = {}
    PROVE  /\ Plan(E, E, E, E, E) = <<>>
           /\ Plan(A, E, E, E, E) = Do("delete", A)
           /\ Plan(E, A, E, E, E) = Do("delete", A)
           /\ Plan(E, E, E, A, B) = Do("cascade", A) \o Do("delete", B)
<1> DEFINE a == Do("delete", A)
           ab == Do("cascade", A) \o Do("delete", B)
           none == Do("cascade", E) \o Do("delete", E)
<1>1. a \in Seq(FileOps) /\ a \o <<>> = a
  BY PlanType, ConcatEmptySeq
<1>2. ab \in Seq(FileOps)
  BY PlanType DEF Plan2
<1>3. none = <<>> /\ Do("delete", E) = <<>> /\ Do("cascade", E) = <<>> /\ <<>> \in Seq(FileOps)
  BY ConcatEmptySeq, EmptySeq DEF Do
<1>4. \A r \in Seq(FileOps) : Do("delete", E) \o r = r
  BY <1>3, ConcatEmptySeq
<1>5. Plan(E, E, E, E, E) = <<>>
  BY <1>3, <1>4, ZenonT(60) DEF Plan
<1>6. Plan(A, E, E, E, E) = a
  BY <1>1, <1>3, <1>4, ZenonT(60) DEF Plan
<1>7. Plan(E, A, E, E, E) = a
  <2>1. Plan(E, A, E, E, E) = Do("delete", E) \o (a \o (Do("delete", E) \o none))
    BY DEF Plan
  <2> HIDE DEF a, none
  <2>2. Do("delete", E) \o none = <<>>
    BY <1>3, <1>4
  <2>3. Plan(E, A, E, E, E) = Do("delete", E) \o a
    BY <1>1, <2>1, <2>2, Zenon
  <2> QED
    BY <1>1, <1>4, <2>3
<1>8. Plan(E, E, E, A, B) = ab
  BY <1>2, <1>4, Zenon DEF Plan
<1> QED
  BY <1>5, <1>6, <1>7, <1>8

(* A handler that has nothing left to do has done its work.                *)
LEMMA WorkDone ==
    ASSUME todo' = <<>>
    PROVE  Work'
<1>1. PICK E \in ItemSets : E = {}
  BY DEF ItemSets
<1>2. E \in SUBSET Sessions /\ E \in SUBSET Documents /\ E \in SUBSET Cases /\ E \in SUBSET Clients
  BY <1>1
<1>3. todo' = Plan(E, E, E, E, E)
  BY <1>1, ShortPlans, Zenon
<1>4. Deleting(E, E, E, E, E)'
  BY <1>1, <1>3 DEF Deleting
<1> QED
  BY <1>2, <1>4 DEF Work

(* Short sequences put together.                                           *)
LEMMA Joined ==
    ASSUME NEW a, NEW b, NEW c, NEW d
    PROVE  /\ <<a>> \o <<b>> = <<a, b>>
           /\ <<a, b>> \o <<c, d>> = <<a, b, c, d>>
<1> DEFINE T == {a, b, c, d}
           s == <<a, b>> \o <<c, d>>
           r == <<a>> \o <<b>>
<1>1. <<a>> \in Seq(T) /\ <<b>> \in Seq(T) /\ Len(<<a>>) = 1 /\ Len(<<b>>) = 1
  OBVIOUS
<1>2. <<a, b>> \in Seq(T) /\ <<c, d>> \in Seq(T) /\ Len(<<a, b>>) = 2 /\ Len(<<c, d>>) = 2
  OBVIOUS
<1>3. /\ r \in Seq(T) /\ Len(r) = 2
      /\ \A j \in 1 .. 2 : r[j] = IF j <= 1 THEN <<a>>[j] ELSE <<b>>[j - 1]
  BY <1>1, ConcatProperties
<1>4. /\ s \in Seq(T) /\ Len(s) = 4
      /\ \A j \in 1 .. 4 : s[j] = IF j <= 2 THEN <<a, b>>[j] ELSE <<c, d>>[j - 2]
  BY <1>2, ConcatProperties
<1>5. r = <<a, b>>
  <2>1. \A j \in 1 .. 2 : r[j] = <<a, b>>[j]
    BY <1>3
  <2> QED
    BY <1>2, <1>3, <2>1, SeqEqual
<1>6. s = <<a, b, c, d>>
  <2>1. \A j \in 1 .. 4 : s[j] = <<a, b, c, d>>[j]
    BY <1>4
  <2>2. <<a, b, c, d>> \in Seq(T) /\ Len(<<a, b, c, d>>) = 4
    OBVIOUS
  <2> QED
    BY <1>4, <2>1, <2>2, SeqEqual
<1> QED
  BY <1>5, <1>6

(* The operations that write an item.                                      *)
LEMMA WriteOps ==
    /\ \A i : Write(i) = <<Tear(i), Fill(i)>>
    /\ Seed = <<Tear(DemoClient), Fill(DemoClient), Tear(DemoCase), Fill(DemoCase)>>
    /\ \A i \in Items : Tear(i) \in FileOps /\ Fill(i) \in FileOps
    /\ DemoClient \in Items /\ DemoCase \in Items
<1>1. ASSUME NEW i PROVE Write(i) = <<Tear(i), Fill(i)>>
  <2>1. Do("tear", {i}) = <<Tear(i)>> /\ Do("fill", {i}) = <<Fill(i)>>
    BY DEF Do, Tear, Fill
  <2>2. <<Tear(i)>> \o <<Fill(i)>> = <<Tear(i), Fill(i)>>
    BY Joined, Zenon
  <2> QED
    BY <2>1, <2>2 DEF Write
<1>2. Seed = <<Tear(DemoClient), Fill(DemoClient), Tear(DemoCase), Fill(DemoCase)>>
  <2>1. Seed = <<Tear(DemoClient), Fill(DemoClient)>> \o <<Tear(DemoCase), Fill(DemoCase)>>
    BY <1>1, Zenon DEF Seed
  <2> QED
    BY <2>1, Joined, ZenonT(60)
<1>3. \A i \in Items : Tear(i) \in FileOps /\ Fill(i) \in FileOps
  BY DEF Tear, Fill, FileOps
<1>4. DemoClient \in Items /\ DemoCase \in Items
  BY RecordsAssumption DEF Items
<1> QED
  BY <1>1, <1>2, <1>3, <1>4

(* A write disturbs nothing that belongs to, shows or lists anything else. *)
LEMMA WriteOne ==
    ASSUME RecordsInv, after # None, NEW i \in Items, NEW f \in {"TORN", "OK"}, Owned(i),
           i \in Documents /\ after.to.phase = "CASE_PROFILE" => "documents" \in after.refresh,
           \A l \in Caches : i \in Stored(l) => l \in after.refresh,
           \A j : todo = <<Tear(j), Fill(j)>> => j = i,
           file' = [file EXCEPT ![i] = f], todo' \in Seq(FileOps), Work',
           UNCHANGED <<parent, lists, ui, after>>
    PROVE  RecordsInv'
<1> DEFINE u == after.to
<1>1. /\ Typed /\ AllOwned /\ Showable(u)
      /\ u \in Screens /\ file \in [Items -> {"NONE", "TORN", "OK"}]
      /\ parent' = parent /\ lists' = lists /\ after' = after /\ ui' = ui
  BY DEF RecordsInv, Handling, Typed
<1>2. /\ file' \in [Items -> {"NONE", "TORN", "OK"}]
      /\ \A j \in Items : j # i => file'[j] = file[j]
      /\ file'[i] # "NONE"
  BY <1>1
<1>3. \A j \in Items : Exists(j)' <=> Exists(j) \/ j = i
  BY <1>2 DEF Exists
<1>4. \A j \in Items : Owned(j) => Owned(j)'
  BY <1>1, <1>3 DEF Owned, Items
<1>5. AllOwned'
  <2>1. \A j \in Items : j \in Readable(Cases \cup Sessions)' => j = i \/ j \in Readable(Cases \cup Sessions)
    BY <1>2 DEF Readable
  <2>2. \A j \in Cases \cup Sessions \cup Documents : j \in Items
    BY DEF Items
  <2>3. \A j \in Readable(Cases \cup Sessions)' : Owned(j)'
    BY <1>1, <1>4, <2>1, <2>2 DEF AllOwned, Readable
  <2>4. \A d \in Documents : Exists(d)' => Owned(d)'
    BY <1>1, <1>3, <1>4, <2>2 DEF AllOwned
  <2> QED
    BY <1>1, <2>3, <2>4 DEF AllOwned
<1>6. Showable(u)'
  <2>1. u.client # None => u.client \in Items /\ Stays(u.client)
    BY <1>1 DEF Showable, Screens, Items
  <2>2. u.case # None => u.case \in Items /\ Stays(u.case)
    BY <1>1 DEF Showable, Screens, Items
  <2>3. u.editing # None => u.editing \in Items
    BY <1>1 DEF Screens, Items
  <2>4. \A j \in Items : Stays(j) => Stays(j)'
    BY <1>3 DEF Stays
  <2>5. \A j \in Items : Exists(j) => Exists(j)'
    BY <1>3
  <2> QED
    BY <1>1, <2>1, <2>2, <2>3, <2>4, <2>5 DEF Showable
<1>7. \A l \in Caches \ after.refresh : Cached(l)'
  <2> SUFFICES ASSUME NEW l \in Caches \ after.refresh PROVE Cached(l)'
    OBVIOUS
  <2>1. i \notin Stored(l) /\ Stored(l) \in SUBSET Items
    BY StoredKinds DEF Items
  <2>2. Readable(Stored(l))' = Readable(Stored(l))
    BY <1>2, <2>1 DEF Readable
  <2>3. Cached(l)
    BY DEF RecordsInv, Handling
  <2> QED
    BY <1>1, <2>2, <2>3 DEF Cached
<1>8. u.phase = "CASE_PROFILE" /\ "documents" \notin after.refresh =>
          lists["documents"] = Directory(u.case)'
  <2> SUFFICES ASSUME u.phase = "CASE_PROFILE", "documents" \notin after.refresh
               PROVE  lists["documents"] = Directory(u.case)'
    OBVIOUS
  <2>1. i \notin Documents
    OBVIOUS
  <2>2. Directory(u.case)' = Directory(u.case)
    BY <1>1, <1>3, <2>1 DEF Directory, Items
  <2> QED
    BY <2>2 DEF RecordsInv, Handling
<1>9. Handling'
  BY <1>1, <1>6, <1>7, <1>8 DEF Handling
<1>10. Typed'
  BY <1>1, <1>2 DEF Typed
<1> QED
  BY <1>1, <1>5, <1>9, <1>10 DEF RecordsInv

(* What a write leaves to do: the second half of it, the next write of the *)
(* handler at launch, or nothing.                                          *)
LEMMA WriteStep ==
    ASSUME RecordsInv, after # None, NEW w \in Items, Writing(w), FileStep
    PROVE  RecordsInv'
<1>1. /\ Owned(w) /\ Typed /\ todo # <<>>
      /\ w \in Documents /\ after.to.phase = "CASE_PROFILE" => "documents" \in after.refresh
      /\ \A l \in Caches : w \in Stored(l) => l \in after.refresh
      /\ UNCHANGED <<parent, lists, ui, after>>
      /\ file \in [Items -> {"NONE", "TORN", "OK"}]
  BY DEF Writing, RecordsInv, FileStep, Typed
<1>2. PICK i \in Head(todo).of :
          LET op == Head(todo).op
              rest == Do(op, Head(todo).of \ {i}) \o Tail(todo)
          IN  IF op = "cascade"
                THEN todo' = CaseCascade(i) \o rest /\ UNCHANGED file
                ELSE /\ todo' = rest
                     /\ \E f \in Outcomes(op, i) : file' = [file EXCEPT ![i] = f]
  BY DEF FileStep
<1>3. \A j : todo = <<Tear(j), Fill(j)>> => j = w
  <2>1. SUFFICES ASSUME NEW j, todo = <<Tear(j), Fill(j)>> PROVE j = w
    OBVIOUS
  <2>2. todo = <<Tear(w), Fill(w)>>
    <3>1. Len(<<Tear(j), Fill(j)>>) = 2 /\ Len(<<Fill(w)>>) = 1
      OBVIOUS
    <3> QED
      BY <2>1, <3>1 DEF Writing
  <2>3. <<Tear(j), Fill(j)>>[1] = <<Tear(w), Fill(w)>>[1]
    BY <2>1, <2>2
  <2> QED
    BY <2>3 DEF Tear
<1>4. CASE todo = <<Tear(w), Fill(w)>>
  <2>1. Head(todo) = Tear(w) /\ Tail(todo) = <<Fill(w)>>
    BY <1>4
  <2>2. Head(todo).op = "tear" /\ Head(todo).of = {w} /\ i = w
    BY <1>2, <2>1 DEF Tear
  <2>3. {w} \ {i} = {} /\ <<Fill(w)>> \in Seq(FileOps)
    BY <2>2, WriteOps
  <2>4. todo' = <<Fill(w)>>
    <3>1. todo' = Do("tear", {w} \ {i}) \o <<Fill(w)>>
      BY <1>2, <2>1, <2>2
    <3> QED
      BY <2>3, <3>1, Nothing
  <2>5. file' = [file EXCEPT ![w] = "TORN"]
    BY <1>2, <2>2 DEF Outcomes
  <2>6. Writing(w)'
    BY <1>1, <2>4, <2>5 DEF Writing, Owned, Exists, Items
  <2> QED
    BY <1>1, <1>3, <2>3, <2>4, <2>5, <2>6, WriteOne DEF Work
<1>5. CASE todo = <<Fill(w)>>
  <2>1. Head(todo) = Fill(w) /\ Tail(todo) = <<>>
    BY <1>5
  <2>2. Head(todo).op = "fill" /\ Head(todo).of = {w} /\ i = w
    BY <1>2, <2>1 DEF Fill
  <2>3. {w} \ {i} = {} /\ <<>> \in Seq(FileOps)
    BY <2>2, EmptySeq
  <2>4. todo' = <<>>
    <3>1. todo' = Do("fill", {w} \ {i}) \o <<>>
      BY <1>2, <2>1, <2>2
    <3> QED
      BY <2>3, <3>1, Nothing
  <2>5. PICK f \in {"TORN", "OK"} : file' = [file EXCEPT ![w] = f]
    BY <1>2, <2>2 DEF Outcomes
  <2> QED
    BY <1>1, <1>3, <2>3, <2>4, <2>5, WorkDone, WriteOne
<1> QED
  BY <1>4, <1>5 DEF Writing

(* The handler at launch writes the demo client before the demo case.      *)
LEMMA SeedStep ==
    ASSUME RecordsInv, after # None, Seeding, FileStep
    PROVE  RecordsInv'
<1> DEFINE c == DemoClient
           k == DemoCase
           last == <<Tear(k), Fill(k)>>
<1>1. /\ Typed /\ AllOwned /\ todo # <<>> /\ after = Launched
      /\ UNCHANGED <<parent, lists, ui, after>>
      /\ file \in [Items -> {"NONE", "TORN", "OK"}]
  BY DEF Seeding, RecordsInv, FileStep, Typed
<1>2. PICK i \in Head(todo).of :
          LET op == Head(todo).op
              rest == Do(op, Head(todo).of \ {i}) \o Tail(todo)
          IN  IF op = "cascade"
                THEN todo' = CaseCascade(i) \o rest /\ UNCHANGED file
                ELSE /\ todo' = rest
                     /\ \E f \in Outcomes(op, i) : file' = [file EXCEPT ![i] = f]
  BY DEF FileStep
<1>3. \A j : todo = <<Tear(j), Fill(j)>> => j = c
  BY DEF Seeding
<1>4. /\ c \in Items /\ c \in Clients /\ k \in Items /\ k \in Cases /\ c # k
      /\ Owned(c) /\ c \notin Documents /\ c \notin Sessions
      /\ \A l \in Caches : l \in after.refresh
      /\ after.to.phase = "HOME"
  BY <1>1, WriteOps, RecordsAssumption DEF Owned, Caches, Launched, Home
<1>5. /\ Tear(k) \in FileOps /\ Fill(k) \in FileOps /\ Fill(c) \in FileOps
  BY WriteOps
<1>6. CASE todo = <<Tear(c), Fill(c), Tear(k), Fill(k)>>
  <2>1. Head(todo) = Tear(c) /\ Tail(todo) = <<Fill(c), Tear(k), Fill(k)>>
    BY <1>6
  <2>2. Head(todo).op = "tear" /\ Head(todo).of = {c} /\ i = c
    BY <1>2, <2>1 DEF Tear
  <2>3. {c} \ {i} = {} /\ <<Fill(c), Tear(k), Fill(k)>> \in Seq(FileOps)
    BY <1>5, <2>2
  <2>4. todo' = <<Fill(c), Tear(k), Fill(k)>>
    <3>1. todo' = Do("tear", {c} \ {i}) \o <<Fill(c), Tear(k), Fill(k)>>
      BY <1>2, <2>1, <2>2
    <3> QED
      BY <2>3, <3>1, Nothing
  <2>5. file' = [file EXCEPT ![c] = "TORN"]
    BY <1>2, <2>2 DEF Outcomes
  <2>6. Seeding'
    <3>1. Exists(c)'
      BY <1>1, <1>4, <2>5 DEF Exists
    <3>2. after' = Launched'
      BY <1>1 DEF Launched, Home
    <3> QED
      BY <2>4, <3>1, <3>2 DEF Seeding
  <2>7. todo' \in Seq(FileOps) /\ Work'
    BY <2>3, <2>4, <2>6 DEF Work
  <2> QED
    BY <1>1, <1>3, <1>4, <2>5, <2>7, WriteOne
<1>7. CASE Exists(c) /\ todo = <<Fill(c), Tear(k), Fill(k)>>
  <2>1. Head(todo) = Fill(c) /\ Tail(todo) = last
    BY <1>7
  <2>2. Head(todo).op = "fill" /\ Head(todo).of = {c} /\ i = c
    BY <1>2, <2>1 DEF Fill
  <2>3. {c} \ {i} = {} /\ last \in Seq(FileOps)
    BY <1>5, <2>2
  <2>4. todo' = last
    <3>1. todo' = Do("fill", {c} \ {i}) \o last
      BY <1>2, <2>1, <2>2
    <3> HIDE DEF last
    <3> QED
      BY <2>3, <3>1, Nothing
  <2>5. file' = [file EXCEPT ![c] = "OK"]
    BY <1>2, <1>4, <2>2 DEF Outcomes
  <2>6. Writing(k)'
    <3>1. Owned(k)'
      <4>1. parent'[k] = c /\ file'[c] = "OK" /\ k \notin Sessions \cup Documents
        BY <1>1, <1>4, <2>5, RecordsAssumption DEF AllOwned
      <4> QED
        BY <1>4, <4>1 DEF Owned, Exists
    <3>2. k \notin Documents
      BY RecordsAssumption
    <3> QED
      BY <1>1, <1>4, <2>4, <3>1, <3>2 DEF Writing
  <2>7. todo' \in Seq(FileOps) /\ Work'
    BY <1>4, <2>3, <2>4, <2>6 DEF Work
  <2> QED
    BY <1>1, <1>3, <1>4, <2>5, <2>7, WriteOne
<1> QED
  BY <1>6, <1>7 DEF Seeding

(* One file operation, of whatever handler.                                *)
LEMMA FileStepInv ==
    ASSUME RecordsInv, FileStep
    PROVE  RecordsInv'
<1>1. todo # <<>> /\ after # None /\ Work
  BY DEF FileStep, RecordsInv, Handling
<1>2. CASE \E i \in Items : Writing(i)
  BY <1>1, <1>2, WriteStep
<1>3. CASE Seeding
  BY <1>1, <1>3, SeedStep
<1>4. ASSUME NEW S \in SUBSET Sessions, NEW D \in SUBSET Documents, NEW K \in SUBSET Cases,
             NEW Ks \in SUBSET Cases, NEW C \in SUBSET Clients, Deleting(S, D, K, Ks, C)
      PROVE  RecordsInv'
  <2>1. todo = Plan(S, D, K, Ks, C) /\ UNCHANGED <<parent, lists, ui, after>>
    BY <1>4 DEF Deleting, FileStep
  <2>2. PICK i \in Head(todo).of :
            LET op == Head(todo).op
                rest == Do(op, Head(todo).of \ {i}) \o Tail(todo)
            IN  IF op = "cascade"
                  THEN todo' = CaseCascade(i) \o rest /\ UNCHANGED file
                  ELSE /\ todo' = rest
                       /\ \E f \in Outcomes(op, i) : file' = [file EXCEPT ![i] = f]
    BY DEF FileStep
  <2>3. \/ /\ Head(todo).op = "delete"
           /\ Ripe(i, S, D, K, Ks, C)
           /\ Do("delete", Head(todo).of \ {i}) \o Tail(todo)
                  = Plan(S \ {i}, D \ {i}, K \ {i}, Ks, C \ {i})
        \/ /\ Head(todo).op = "cascade" /\ S = {} /\ D = {} /\ K = {} /\ i \in Ks
           /\ Do("cascade", Head(todo).of \ {i}) \o Tail(todo) = Plan2(Ks \ {i}, C)
    <3>1. PICK p : p = todo
      OBVIOUS
    <3>2. p = Plan(S, D, K, Ks, C) /\ p # <<>> /\ i \in Head(p).of
      BY <1>1, <2>1, <3>1
    <3>3. Begins(p, i, S, D, K, Ks, C)
      BY <3>2, PlanHead
    <3> QED
      BY <3>1, <3>3, Zenon DEF Begins
  <2>4. \A j : todo # <<Tear(j), Fill(j)>>
    <3>1. \A j : Head(<<Tear(j), Fill(j)>>).op = "tear"
      BY DEF Tear
    <3> QED
      BY <2>3, <3>1
  <2>5. CASE Head(todo).op = "delete"
    <3>1. /\ Ripe(i, S, D, K, Ks, C)
          /\ todo' = Plan(S \ {i}, D \ {i}, K \ {i}, Ks, C \ {i})
      BY <2>2, <2>3, <2>5
    <3>2. file' = [file EXCEPT ![i] = "NONE"]
      BY <2>2, <2>5 DEF Outcomes
    <3> QED
      BY <1>1, <1>4, <2>1, <2>4, <3>1, <3>2, DeleteOne
  <2>6. CASE Head(todo).op = "cascade"
    <3>1. /\ S = {} /\ D = {} /\ K = {} /\ i \in Ks /\ UNCHANGED file
          /\ todo' = CaseCascade(i) \o Plan2(Ks \ {i}, C)
      BY <2>2, <2>3, <2>6
    <3>2. PICK A \in ItemSets : A = Of(lists["sessions"], i)
      BY DEF RecordsInv, Typed, Of, ItemSets, Items
    <3>3. PICK B \in ItemSets : B = Directory(i)
      BY DEF Directory, ItemSets, Items
    <3>4. PICK E \in ItemSets : E = {i}
      BY <3>1 DEF ItemSets, Items
    <3>5. PICK R \in ItemSets : R = Ks \ {i}
      BY DEF ItemSets, Items
    <3>6. C \in ItemSets
      BY DEF ItemSets, Items
    <3>7. CaseCascade(i) = CascadeOps(A, B, E)
      BY <3>2, <3>3, <3>4, Zenon DEF CaseCascade, DeleteAll, CascadeOps
    <3>8. todo' = Plan(A, B, E, R, C)
      <4>1. todo' = CascadeThen(A, B, E, R, C)
        BY <3>1, <3>5, <3>7, Zenon DEF CascadeThen
      <4>2. A \in ItemSets /\ B \in ItemSets /\ E \in ItemSets /\ R \in ItemSets /\ C \in ItemSets
        BY <3>2, <3>3, <3>4, <3>5, <3>6
      <4>3. CascadeThen(A, B, E, R, C) = Plan(A, B, E, R, C)
        BY <4>2, CascadeOfCase
      <4> QED
        BY <4>1, <4>3
    <3>9. todo' = Plan(Of(lists["sessions"], i), Directory(i), {i}, Ks \ {i}, C)
      BY <3>2, <3>3, <3>4, <3>5, <3>8, Zenon
    <3>10. Deleting({}, {}, {}, Ks, C)
      BY <1>4, <3>1, Zenon
    <3> QED
      BY <1>1, <2>1, <2>4, <3>1, <3>9, <3>10, CascadeOne
  <2> QED
    BY <2>3, <2>5, <2>6
<1> QED
  BY <1>1, <1>2, <1>3, <1>4 DEF Work

-----------------------------------------------------------------------------
(* The end of a handler, the death of the process, and the start of a      *)
(* handler.                                                                *)

(* A handler that ends leaves lists and a screen that tell the truth.      *)
LEMMA FinishInv ==
    ASSUME RecordsInv, Finish
    PROVE  RecordsInv'
<1> DEFINE u == after.to
<1>1. /\ Typed /\ AllOwned /\ Handling /\ Showable(u)
      /\ after \in [to : Screens, refresh : SUBSET Lists]
      /\ todo = <<>> /\ todo' = <<>> /\ after' = None /\ ui' = u
      /\ file' = file /\ parent' = parent
      /\ lists' = [l \in Lists |-> IF l \in after.refresh THEN OnDisk(l, u) ELSE lists[l]]
  BY DEF RecordsInv, Handling, Finish, Typed
<1>2. AllOwned'
  BY <1>1 DEF AllOwned, Readable, Owned, Exists
<1>3. \A l \in Caches : l \in Lists /\ OnDisk(l, u) = Readable(Stored(l))
  BY DEF OnDisk, Caches, Lists, Stored
<1>4. \A l \in Caches : Cached(l)'
  <2> SUFFICES ASSUME NEW l \in Caches PROVE Cached(l)'
    OBVIOUS
  <2>1. Readable(Stored(l))' = Readable(Stored(l))
    BY <1>1 DEF Readable, Stored
  <2>2. l \notin after.refresh => lists[l] = Readable(Stored(l))
    BY <1>1 DEF Handling, Cached
  <2>3. lists'[l] = Readable(Stored(l))
    BY <1>1, <1>3, <2>2
  <2> QED
    BY <2>1, <2>3 DEF Cached
<1>5. Showable(ui)'
  BY <1>1 DEF Showable, Stays, Exists
<1>6. (ui.phase = "CASE_PROFILE" => lists["documents"] = Directory(ui.case))'
  <2> SUFFICES ASSUME u.phase = "CASE_PROFILE" PROVE lists'["documents"] = Directory(ui.case)'
    BY <1>1
  <2>1. Directory(ui.case)' = Directory(u.case)
    BY <1>1 DEF Directory, Exists
  <2>2. OnDisk("documents", u) = Directory(u.case)
    BY <1>1 DEF OnDisk, Showable
  <2>3. "documents" \in Lists
    BY DEF Lists
  <2> QED
    BY <1>1, <2>1, <2>2, <2>3 DEF Handling
<1>7. Typed'
  <2>1. \A l \in Lists : OnDisk(l, u) \in SUBSET Items /\ lists[l] \in SUBSET Items
    <3> SUFFICES ASSUME NEW l \in Lists PROVE OnDisk(l, u) \in SUBSET Items
      BY <1>1 DEF Typed
    <3> QED
      BY DEF OnDisk, Lists, Readable, Directory, Items
  <2>2. lists' \in [Lists -> SUBSET Items]
    BY <1>1, <2>1
  <2>3. lists'["cases"] \subseteq Cases /\ lists'["sessions"] \subseteq Sessions
    BY <1>1 DEF Typed, OnDisk, Lists, Readable
  <2>4. u \in Screens /\ todo' \in Seq(FileOps)
    BY <1>1 DEF Typed
  <2>5. /\ u.phase \in {"CLIENT_PROFILE", "NEW_CASE", "CASE_PROFILE"} => u.client # None
        /\ u.phase = "CASE_PROFILE" => u.case # None
    BY <1>1 DEF Showable
  <2> QED
    BY <1>1, <2>2, <2>3, <2>4, <2>5 DEF Typed
<1> QED
  BY <1>1, <1>2, <1>4, <1>5, <1>6, <1>7 DEF RecordsInv, Settled

(* The screen at launch, and what the process does there.                  *)
LEMMA LaunchedType ==
    /\ Home \in Screens /\ Launched \in [to : Screens, refresh : SUBSET Lists]
    /\ Launched # None /\ Launched.to = Home /\ Launched.refresh = Caches
    /\ Seed \in Seq(FileOps) /\ Seed # <<>>
    /\ NoLists \in [Lists -> SUBSET Items] /\ NoLists["cases"] = {} /\ NoLists["sessions"] = {}
<1>1. Home \in Screens
  BY DEF Home, Screens, Phases
<1>2. Launched \in [to : Screens, refresh : SUBSET Lists]
  BY <1>1 DEF Launched, Lists
<1>3. Launched # None
  BY <1>2, NothingAssumption
<1>4. Seed \in Seq(FileOps) /\ Seed # <<>>
  <2>1. /\ Tear(DemoClient) \in FileOps /\ Fill(DemoClient) \in FileOps
        /\ Tear(DemoCase) \in FileOps /\ Fill(DemoCase) \in FileOps
    BY WriteOps
  <2>2. Seed = <<Tear(DemoClient), Fill(DemoClient), Tear(DemoCase), Fill(DemoCase)>>
    BY WriteOps
  <2> QED
    BY <2>1, <2>2
<1>5. Launched.to = Home /\ Launched.refresh = Caches
  BY DEF Launched, Caches
<1>6. NoLists \in [Lists -> SUBSET Items] /\ NoLists["cases"] = {} /\ NoLists["sessions"] = {}
  BY DEF NoLists, Lists
<1> QED
  BY <1>1, <1>2, <1>3, <1>4, <1>5, <1>6

(* The handler at launch can always begin.                                 *)
LEMMA LaunchHandling == todo = Seed /\ after = Launched => Handling
<1> SUFFICES ASSUME todo = Seed, after = Launched PROVE Handling
  OBVIOUS
<1>1. Work
  BY WriteOps DEF Work, Seeding
<1>2. Showable(after.to)
  BY LaunchedType DEF Showable, Home
<1>3. \A l \in Caches \ after.refresh : Cached(l)
  BY LaunchedType
<1>4. after.to.phase # "CASE_PROFILE"
  BY LaunchedType DEF Home
<1> QED
  BY <1>1, <1>2, <1>3, <1>4 DEF Handling

LEMMA RestartInv ==
    ASSUME RecordsInv, Restart
    PROVE  RecordsInv'
<1>1. /\ Typed /\ AllOwned
      /\ ui' = Home /\ lists' = NoLists /\ todo' = Seed /\ after' = Launched /\ file' = file
      /\ parent' = [parent EXCEPT ![DemoCase] = DemoClient]
  BY DEF RecordsInv, Restart
<1>2. parent' = parent
  <2>1. parent[DemoCase] = DemoClient /\ parent \in [Items -> Items \cup {None}]
    BY <1>1 DEF AllOwned, Typed
  <2> QED
    BY <1>1, <2>1
<1>3. AllOwned'
  BY <1>1, <1>2 DEF AllOwned, Readable, Owned, Exists
<1>4. Handling'
  <2>1. (todo = Seed /\ after = Launched)'
    BY <1>1 DEF Seed, Write, Do, Launched, Home
  <2> QED
    BY <2>1, LaunchHandling, PTL
<1>5. Typed'
  BY <1>1, <1>2, LaunchedType DEF Typed, Home
<1> QED
  BY <1>1, <1>3, <1>4, <1>5, LaunchedType DEF RecordsInv

LEMMA InitInv ==
    ASSUME Init
    PROVE  RecordsInv
<1>1. AllOwned
  BY WriteOps DEF Init, AllOwned, Readable, Exists, Items
<1>2. Handling
  BY LaunchHandling DEF Init
<1>3. Typed
  <2>1. parent \in [Items -> Items \cup {None}]
    BY WriteOps DEF Init
  <2> QED
    BY <2>1, LaunchedType DEF Init, Typed, Home
<1> QED
  BY <1>1, <1>2, <1>3, LaunchedType DEF RecordsInv, Init

(* A handler starts from lists that match the disk, so all there is to     *)
(* show is its work and the screen it goes to.                             *)
LEMMA Handled ==
    ASSUME RecordsInv, Idle, UNCHANGED <<file, lists, ui>>,
           todo' \in Seq(FileOps), after' \in [to : Screens, refresh : SUBSET Lists],
           parent' \in [Items -> Items \cup {None}], AllOwned', Work', Showable(after.to)',
           (after.to.phase = "CASE_PROFILE" /\ "documents" \notin after.refresh =>
                lists["documents"] = Directory(after.to.case))'
    PROVE  RecordsInv'
<1>1. Typed /\ Settled /\ file' = file /\ lists' = lists /\ ui' = ui
  BY DEF RecordsInv, Idle
<1>2. \A l \in Caches : Cached(l)'
  BY <1>1 DEF Settled, Cached, Readable
<1>3. Handling'
  BY <1>2 DEF Handling
<1>4. Typed'
  BY <1>1 DEF Typed
<1>5. after' # None
  BY NothingAssumption
<1> QED
  BY <1>3, <1>4, <1>5 DEF RecordsInv

-----------------------------------------------------------------------------
(* The handlers.                                                           *)

(* What holds of the screen while no handler runs.                         *)
LEMMA OnScreen ==
    ASSUME RecordsInv, Idle
    PROVE  /\ Typed /\ AllOwned /\ ui \in Screens /\ todo = <<>>
           /\ \A l \in Caches : lists[l] = Readable(Stored(l))
           /\ file \in [Items -> {"NONE", "TORN", "OK"}]
           /\ parent \in [Items -> Items \cup {None}]
           /\ ui.phase \in {"CLIENT_PROFILE", "NEW_CASE", "CASE_PROFILE"} => ui.client # None
           /\ ui.phase = "CASE_PROFILE" <=> ui.case # None
           /\ ui.client # None => ui.client \in Clients /\ Exists(ui.client)
           /\ ui.case # None => ui.case \in Cases /\ Exists(ui.case) /\ parent[ui.case] = ui.client
           /\ ui.phase = "NEW_CLIENT" /\ ui.editing # None =>
                  ui.editing \in Clients /\ Exists(ui.editing)
           /\ ui.phase = "CASE_PROFILE" => lists["documents"] = Directory(ui.case)
<1>1. Typed /\ AllOwned /\ Settled /\ todo = <<>> /\ ui \in Screens
  BY DEF RecordsInv, Idle, Typed
<1>2. \A j : Stays(j) => Exists(j)
  <2>1. \A j : todo # <<Tear(j), Fill(j)>>
    BY <1>1
  <2> QED
    BY <2>1 DEF Stays
<1>3. /\ ui.client \in Clients \cup {None} /\ ui.case \in Cases \cup {None}
      /\ ui.editing \in Clients \cup {None}
  BY <1>1, SMTT(60) DEF Screens
<1> QED
  BY <1>1, <1>2, <1>3 DEF Settled, Showable, Cached, Typed

(* The screens that handlers go to.                                        *)
LEMMA ScreenTypes ==
    ASSUME ui \in Screens
    PROVE  /\ ShowHome \in Screens
           /\ \A c \in Clients \cup {None} : ShowClient(c) \in Screens
           /\ \A k \in Cases \cup {None} : ShowCase(k) \in Screens
           /\ \A c \in Clients \cup {None} :
                  [ui EXCEPT !.phase = "NEW_CLIENT", !.editing = c] \in Screens
           /\ \A c \in Clients \cup {None} :
                  [ui EXCEPT !.phase = "CLIENT_PROFILE", !.client = c, !.editing = None] \in Screens
           /\ [ui EXCEPT !.phase = "NEW_CASE"] \in Screens
BY DEF Screens, Phases, ShowHome, ShowClient, ShowCase

(* A handler that only changes the screen.                                 *)
LEMMA Moves ==
    ASSUME RecordsInv, Idle, UNCHANGED <<file, lists, ui, parent>>, todo' = <<>>,
           after' \in [to : Screens, refresh : SUBSET Lists],
           NEW u, after'.to = u,
           u.phase \in {"CLIENT_PROFILE", "NEW_CASE", "CASE_PROFILE"} => u.client # None,
           u.phase = "CASE_PROFILE" <=> u.case # None,
           u.client # None => Exists(u.client),
           u.case # None => Exists(u.case) /\ parent[u.case] = u.client,
           u.phase = "NEW_CLIENT" /\ u.editing # None => Exists(u.editing),
           u.phase = "CASE_PROFILE" => "documents" \in after'.refresh
    PROVE  RecordsInv'
<1>1. AllOwned /\ file' = file /\ parent' = parent /\ parent \in [Items -> Items \cup {None}]
  BY OnScreen
<1>2. AllOwned'
  BY <1>1 DEF AllOwned, Readable, Owned, Exists
<1>3. \A j : Exists(j) => Stays(j)'
  BY <1>1 DEF Stays, Exists
<1>4. \A j : Exists(j) => Exists(j)'
  BY <1>1 DEF Exists
<1>5. Showable(after.to)'
  BY <1>1, <1>3, <1>4 DEF Showable
<1> QED
  BY <1>1, <1>2, <1>5, Handled, WorkDone, EmptySeq

LEMMA MovesInv ==
    ASSUME RecordsInv,
           \/ GoHome \/ StartNewClient \/ StartEditClient \/ NewCase
           \/ \E c \in Clients : OpenClient(c)
           \/ \E k \in Cases : OpenCase(k)
    PROVE  RecordsInv'
<1>1. CASE GoHome
  <2>1. PICK u : u = ShowHome
    OBVIOUS
  <2>2. /\ Idle /\ UNCHANGED <<file, lists, ui, parent>> /\ todo' = <<>>
        /\ after' = [to |-> u, refresh |-> {"clients", "cases", "sessions"}]
    BY <1>1, <2>1 DEF GoHome, Handle
  <2>3. u \in Screens /\ u.phase = "HOME" /\ u.client = None /\ u.case = None
    BY <2>1, <2>2, OnScreen, ScreenTypes, ZenonT(60) DEF ShowHome, Screens
  <2> QED
    BY <2>2, <2>3, Moves DEF Lists
<1>2. CASE StartNewClient
  <2>1. PICK u : u = [ui EXCEPT !.phase = "NEW_CLIENT", !.editing = None]
    OBVIOUS
  <2>2. /\ Idle /\ UNCHANGED <<file, lists, ui, parent>> /\ todo' = <<>>
        /\ after' = [to |-> u, refresh |-> {}] /\ ui.phase = "HOME"
    BY <1>2, <2>1 DEF StartNewClient, Handle, OnHome
  <2>3. u \in Screens /\ u.phase = "NEW_CLIENT" /\ u.client = ui.client /\ u.case = None
        /\ u.editing = None
    BY <2>1, <2>2, OnScreen, ScreenTypes, ZenonT(60) DEF Screens
  <2>4. u.client # None => Exists(u.client)
    BY <2>2, <2>3, OnScreen
  <2> QED
    BY <2>2, <2>3, <2>4, Moves DEF Lists
<1>3. CASE StartEditClient
  <2>1. PICK u : u = [ui EXCEPT !.phase = "NEW_CLIENT", !.editing = ui.client]
    OBVIOUS
  <2>2. /\ Idle /\ UNCHANGED <<file, lists, ui, parent>> /\ todo' = <<>>
        /\ after' = [to |-> u, refresh |-> {}] /\ ui.phase = "CLIENT_PROFILE"
    BY <1>3, <2>1 DEF StartEditClient, Handle, OnClientProfile
  <2>3. ui.client \in Clients /\ Exists(ui.client) /\ ui.case = None
    BY <2>2, OnScreen
  <2>4. u \in Screens /\ u.phase = "NEW_CLIENT" /\ u.client = ui.client /\ u.case = None
        /\ u.editing = ui.client
    BY <2>1, <2>2, <2>3, OnScreen, ScreenTypes, ZenonT(120) DEF Screens
  <2> QED
    BY <2>2, <2>3, <2>4, Moves DEF Lists
<1>4. CASE NewCase
  <2>1. PICK u : u = [ui EXCEPT !.phase = "NEW_CASE"]
    OBVIOUS
  <2>2. /\ Idle /\ UNCHANGED <<file, lists, ui, parent>> /\ todo' = <<>>
        /\ after' = [to |-> u, refresh |-> {}] /\ ui.phase = "CLIENT_PROFILE"
    BY <1>4, <2>1 DEF NewCase, Handle, OnClientProfile
  <2>3. ui.client \in Clients /\ ui.client # None /\ Exists(ui.client) /\ ui.case = None
    BY <2>2, OnScreen
  <2>4. u \in Screens /\ u.phase = "NEW_CASE" /\ u.client = ui.client /\ u.case = None
    BY <2>1, <2>2, <2>3, OnScreen, ScreenTypes, ZenonT(60) DEF Screens
  <2> QED
    BY <2>2, <2>3, <2>4, Moves DEF Lists
<1>5. ASSUME NEW c \in Clients, OpenClient(c) PROVE RecordsInv'
  <2>1. PICK u : u = ShowClient(c)
    OBVIOUS
  <2>2. /\ Idle /\ UNCHANGED <<file, lists, ui, parent>> /\ todo' = <<>>
        /\ after' = [to |-> u, refresh |-> {"cases", "sessions"}]
    BY <1>5, <2>1 DEF OpenClient, Handle, OnHome, OnClientForm, OnMatterTypes, OnCaseProfile
  <2>3. u \in Screens /\ u.phase = "CLIENT_PROFILE" /\ u.client = c /\ u.case = None
    BY <2>1, <2>2, OnScreen, ScreenTypes, ZenonT(60) DEF ShowClient, Screens
  <2>4. Exists(c) /\ c # None
    <3>1. c # None
      BY RecordsAssumption DEF Items
    <3>2. lists["clients"] = Readable(Clients)
      BY <2>2, OnScreen, StoredKinds DEF Caches
    <3>3. \/ c \in lists["clients"]
          \/ ui.phase = "NEW_CLIENT" /\ c = ui.editing
          \/ c = ui.client
      BY <1>5 DEF OpenClient, OnClientForm
    <3> QED
      BY <2>2, <3>1, <3>2, <3>3, OnScreen DEF Readable, Exists
  <2> QED
    BY <2>2, <2>3, <2>4, Moves DEF Lists
<1>6. ASSUME NEW k \in Cases, OpenCase(k) PROVE RecordsInv'
  <2>1. PICK u : u = ShowCase(k)
    OBVIOUS
  <2>2. /\ Idle /\ UNCHANGED <<file, lists, ui, parent>> /\ todo' = <<>>
        /\ after' = [to |-> u, refresh |-> CaseLists] /\ ui.phase = "CLIENT_PROFILE"
        /\ k \in Of(lists["cases"], ui.client)
    BY <1>6, <2>1 DEF OpenCase, Handle, OnClientProfile
  <2>3. u \in Screens /\ u.phase = "CASE_PROFILE" /\ u.client = ui.client /\ u.case = k
    BY <2>1, <2>2, OnScreen, ScreenTypes, ZenonT(60) DEF ShowCase, Screens
  <2>4. k # None
    BY RecordsAssumption DEF Items
  <2>5. ui.client # None /\ Exists(ui.client)
    BY <2>2, OnScreen
  <2>6. Exists(k) /\ parent[k] = ui.client
    <3>1. lists["cases"] = Readable(Cases)
      BY <2>2, OnScreen, StoredKinds DEF Caches
    <3> QED
      BY <2>2, <3>1 DEF Of, Readable, Exists
  <2> QED
    BY <2>2, <2>3, <2>4, <2>5, <2>6, Moves DEF Lists, CaseLists
<1> QED
  BY <1>1, <1>2, <1>3, <1>4, <1>5, <1>6

(* An item that comes to belong to something that exists.                  *)
LEMMA Belongs ==
    ASSUME RecordsInv, Idle, UNCHANGED file, NEW i \in Items, NEW p \in Items,
           parent' = [parent EXCEPT ![i] = p],
           i \in Cases => p \in Clients /\ Exists(p) /\ i # DemoCase,
           i \in Sessions \cup Documents => p \in Cases /\ Exists(p)
    PROVE  /\ parent' \in [Items -> Items \cup {None}] /\ parent'[i] = p
           /\ \A j \in Items : j # i => parent'[j] = parent[j]
           /\ AllOwned' /\ Owned(i)'
<1>1. AllOwned /\ file' = file /\ parent \in [Items -> Items \cup {None}]
  BY OnScreen
<1>2. /\ parent' \in [Items -> Items \cup {None}] /\ parent'[i] = p
      /\ \A j \in Items : j # i => parent'[j] = parent[j]
  BY <1>1
<1>3. \A j : Exists(j)' <=> Exists(j)
  BY <1>1 DEF Exists
<1>4. Owned(i)'
  BY <1>2, <1>3 DEF Owned
<1>5. \A j \in Items : Owned(j) => Owned(j)'
  <2> SUFFICES ASSUME NEW j \in Items, Owned(j) PROVE Owned(j)'
    OBVIOUS
  <2>1. CASE j = i
    BY <1>4, <2>1
  <2>2. CASE j # i
    BY <1>2, <1>3, <2>2 DEF Owned
  <2> QED
    BY <2>1, <2>2
<1>6. AllOwned'
  <2>1. parent'[DemoCase] = DemoClient
    <3>1. DemoCase = i => DemoCase \in Cases
      BY RecordsAssumption
    <3> QED
      BY <1>1, <1>2, <3>1, WriteOps DEF AllOwned
  <2>2. \A j \in Cases \cup Sessions \cup Documents : j \in Items
    BY DEF Items
  <2>3. Readable(Cases \cup Sessions)' = Readable(Cases \cup Sessions)
    BY <1>1 DEF Readable
  <2>4. \A j \in Readable(Cases \cup Sessions)' : Owned(j)'
    BY <1>1, <1>5, <2>2, <2>3 DEF AllOwned, Readable
  <2>5. \A d \in Documents : Exists(d)' => Owned(d)'
    BY <1>1, <1>3, <1>5, <2>2 DEF AllOwned
  <2> QED
    BY <2>1, <2>4, <2>5, SMTT(60) DEF AllOwned
<1> QED
  BY <1>2, <1>4, <1>6

(* A handler that writes an item, or fails to.                             *)
LEMMA Writes ==
    ASSUME RecordsInv, Idle, UNCHANGED <<file, lists, ui>>, NEW i \in Items,
           todo' = Write(i) \/ todo' = <<>>,
           parent' \in [Items -> Items \cup {None}], AllOwned', Owned(i)',
           after' \in [to : Screens, refresh : SUBSET Lists],
           \A l \in Caches : i \in Stored(l) => l \in after'.refresh,
           after'.to.phase = "CASE_PROFILE" => "documents" \in after'.refresh,
           Showable(after.to)'
    PROVE  RecordsInv'
<1>1. Write(i) = <<Tear(i), Fill(i)>> /\ Write(i) \in Seq(FileOps)
  <2>1. Write(i) = <<Tear(i), Fill(i)>> /\ Tear(i) \in FileOps /\ Fill(i) \in FileOps
    BY WriteOps
  <2> QED
    BY <2>1
<1>2. Work'
  <2>1. CASE todo' = <<>>
    BY <2>1, WorkDone
  <2>2. CASE todo' = Write(i)
    <3>1. todo' = <<Tear(i), Fill(i)>>
      BY <1>1, <2>2
    <3>2. (\A l \in Caches : i \in Stored(l) => l \in after.refresh)'
      BY DEF Caches, Stored
    <3>3. Writing(i)'
      BY <3>1, <3>2 DEF Writing
    <3> QED
      BY <3>3 DEF Work
  <2> QED
    BY <2>1, <2>2
<1>3. todo' \in Seq(FileOps)
  BY <1>1, EmptySeq
<1> QED
  BY <1>2, <1>3, Handled

LEMMA CreateClientInv ==
    ASSUME RecordsInv, NEW c \in Clients, CreateClient(c)
    PROVE  RecordsInv'
<1>1. PICK u : u = ShowClient(c)
  OBVIOUS
<1>2. /\ Idle /\ UNCHANGED <<file, lists, ui, parent>> /\ todo' = Write(c)
      /\ after' = [to |-> u, refresh |-> {"clients", "cases", "sessions"}]
  BY <1>1 DEF CreateClient, Handle, OnClientForm
<1>3. u \in Screens /\ u.phase = "CLIENT_PROFILE" /\ u.client = c /\ u.case = None
  BY <1>1, <1>2, OnScreen, ScreenTypes, ZenonT(60) DEF ShowClient, Screens
<1>4. c \in Items /\ c # None
  BY RecordsAssumption DEF Items
<1>5. AllOwned' /\ Owned(c)' /\ parent' \in [Items -> Items \cup {None}]
  <2>1. AllOwned /\ parent \in [Items -> Items \cup {None}]
    BY <1>2, OnScreen
  <2>2. c \notin Cases \cup Sessions \cup Documents
    BY RecordsAssumption
  <2> QED
    BY <1>2, <2>1, <2>2 DEF AllOwned, Readable, Owned, Exists
<1>6. Showable(after.to)'
  <2>1. Stays(c)'
    BY <1>2, WriteOps DEF Stays
  <2> QED
    BY <1>2, <1>3, <1>4, <2>1 DEF Showable
<1>7. \A l \in Caches : l \in after'.refresh
  BY <1>2 DEF Caches
<1> QED
  BY <1>2, <1>3, <1>4, <1>5, <1>6, <1>7, Writes DEF Lists

LEMMA UpdateClientInv ==
    ASSUME RecordsInv, UpdateClient
    PROVE  RecordsInv'
<1>1. PICK c : c = ui.editing
  OBVIOUS
<1>2. PICK u : u = [ui EXCEPT !.phase = "CLIENT_PROFILE", !.client = c, !.editing = None]
  OBVIOUS
<1>3. /\ Idle /\ UNCHANGED <<file, lists, ui, parent>> /\ todo' = Write(c)
      /\ after' = [to |-> u, refresh |-> {"clients"}]
      /\ ui.phase = "NEW_CLIENT" /\ c # None
  BY <1>1, <1>2 DEF UpdateClient, Handle, OnClientForm
<1>4. c \in Clients /\ c \in Items /\ ui.case = None /\ Exists(c)
  BY <1>1, <1>3, OnScreen DEF Items
<1>5. u \in Screens /\ u.phase = "CLIENT_PROFILE" /\ u.client = c /\ u.case = None
  BY <1>2, <1>3, <1>4, OnScreen, ScreenTypes, ZenonT(60) DEF Screens
<1>6. AllOwned' /\ Owned(c)' /\ parent' \in [Items -> Items \cup {None}]
  <2>1. AllOwned /\ parent \in [Items -> Items \cup {None}]
    BY <1>3, OnScreen
  <2>2. c \notin Cases \cup Sessions \cup Documents
    BY <1>4, RecordsAssumption
  <2> QED
    BY <1>3, <2>1, <2>2 DEF AllOwned, Readable, Owned, Exists
<1>7. Showable(after.to)'
  <2>1. Stays(c)'
    BY <1>3, <1>4 DEF Stays, Exists
  <2> QED
    BY <1>3, <1>5, <2>1 DEF Showable
<1>8. \A l \in Caches : c \in Stored(l) => l \in after'.refresh
  BY <1>3, <1>4, StoredKinds
<1> QED
  BY <1>3, <1>4, <1>5, <1>6, <1>7, <1>8, Writes DEF Lists

LEMMA CreateCaseInv ==
    ASSUME RecordsInv, NEW k \in Cases, CreateCase(k)
    PROVE  RecordsInv'
<1>1. PICK u : u = ShowCase(k)
  OBVIOUS
<1>2. PICK c : c = ui.client
  OBVIOUS
<1>3. /\ Idle /\ UNCHANGED <<file, lists, ui>> /\ todo' = Write(k)
      /\ after' = [to |-> u, refresh |-> {"cases"} \cup CaseLists]
      /\ ui.phase = "NEW_CASE" /\ k # DemoCase
      /\ parent' = [parent EXCEPT ![k] = c]
  BY <1>1, <1>2 DEF CreateCase, Handle, OnMatterTypes
<1>4. c # None /\ c \in Clients /\ Exists(c)
  BY <1>2, <1>3, OnScreen
<1>5. u \in Screens /\ u.phase = "CASE_PROFILE" /\ u.client = c /\ u.case = k
  BY <1>1, <1>2, <1>3, OnScreen, ScreenTypes, ZenonT(60) DEF ShowCase, Screens
<1>6. k \in Items /\ c \in Items /\ k # None /\ k \notin Sessions \cup Documents
  BY <1>4, RecordsAssumption DEF Items
<1>7. /\ parent' \in [Items -> Items \cup {None}] /\ parent'[k] = c
      /\ AllOwned' /\ Owned(k)'
  BY <1>3, <1>4, <1>6, Belongs
<1>8. Showable(after.to)'
  <2>1. Stays(k)' /\ Stays(c)'
    BY <1>3, <1>4, WriteOps DEF Stays, Exists
  <2> QED
    BY <1>3, <1>4, <1>5, <1>6, <1>7, <2>1 DEF Showable
<1>9. \A l \in Caches : k \in Stored(l) => l \in after'.refresh
  BY <1>3, StoredKinds
<1>10. after' \in [to : Screens, refresh : SUBSET Lists] /\ "documents" \in after'.refresh
  BY <1>3, <1>5 DEF Lists, CaseLists
<1> QED
  BY <1>3, <1>6, <1>7, <1>8, <1>9, <1>10, Writes

(* On the profile of a case, which a handler for its sessions or documents *)
(* does not leave.                                                         *)
LEMMA StaysShowable ==
    ASSUME RecordsInv, OnCaseProfile, after'.to = ui, UNCHANGED <<file, ui>>,
           parent'[ui.case] = parent[ui.case]
    PROVE  Showable(after.to)'
<1> DEFINE Known(u, f, p) ==
               /\ u.client # None /\ u.case # None /\ u.phase = "CASE_PROFILE"
               /\ f[u.client] # "NONE" /\ f[u.case] # "NONE" /\ p[u.case] = u.client
<1>1. Known(ui, file, parent)
  BY OnScreen DEF OnCaseProfile, Exists
<1>2. Known(after'.to, file', parent')
  BY <1>1
<1> QED
  BY <1>2 DEF Showable, Stays, Exists

LEMMA SaveSessionInv ==
    ASSUME RecordsInv, NEW s \in Sessions, SaveSession(s)
    PROVE  RecordsInv'
<1>1. PICK k : k = ui.case
  OBVIOUS
<1>2. /\ Idle /\ OnCaseProfile /\ UNCHANGED <<file, lists, ui>>
      /\ todo' = Write(s) \/ todo' = <<>>
      /\ after' = [to |-> ui, refresh |-> CaseLists]
      /\ parent' = [parent EXCEPT ![s] = k]
  BY <1>1 DEF SaveSession, Handle, OnCaseProfile
<1>3. k \in Cases /\ Exists(k) /\ ui \in Screens
  BY <1>1, <1>2, OnScreen DEF OnCaseProfile
<1>4. s \in Items /\ k \in Items /\ k # s /\ s \notin Cases
  BY <1>3, RecordsAssumption DEF Items
<1>5. /\ parent' \in [Items -> Items \cup {None}] /\ parent'[k] = parent[k]
      /\ AllOwned' /\ Owned(s)'
  BY <1>2, <1>3, <1>4, Belongs
<1>6. Showable(after.to)'
  BY <1>1, <1>2, <1>5, StaysShowable
<1>7. \A l \in Caches : s \in Stored(l) => l \in after'.refresh
  BY <1>2, StoredKinds DEF CaseLists
<1>8. after' \in [to : Screens, refresh : SUBSET Lists] /\ "documents" \in after'.refresh
  BY <1>2, <1>3 DEF Lists, CaseLists
<1> QED
  BY <1>2, <1>4, <1>5, <1>6, <1>7, <1>8, Writes

LEMMA AttachDocumentInv ==
    ASSUME RecordsInv, NEW d \in Documents, AttachDocument(d)
    PROVE  RecordsInv'
<1>1. PICK k : k = ui.case
  OBVIOUS
<1>2. /\ Idle /\ OnCaseProfile /\ UNCHANGED <<file, lists, ui>>
      /\ todo' = Write(d) \/ todo' = <<>>
      /\ after' = [to |-> ui, refresh |-> {"documents"}]
      /\ parent' = [parent EXCEPT ![d] = k]
  BY <1>1 DEF AttachDocument, Add, Handle, OnCaseProfile
<1>3. k \in Cases /\ Exists(k) /\ ui \in Screens
  BY <1>1, <1>2, OnScreen DEF OnCaseProfile
<1>4. d \in Items /\ k \in Items /\ k # d /\ d \notin Cases
  BY <1>3, RecordsAssumption DEF Items
<1>5. /\ parent' \in [Items -> Items \cup {None}] /\ parent'[k] = parent[k]
      /\ AllOwned' /\ Owned(d)'
  BY <1>2, <1>3, <1>4, Belongs
<1>6. Showable(after.to)'
  BY <1>1, <1>2, <1>5, StaysShowable
<1>7. \A l \in Caches : d \notin Stored(l)
  BY StoredKinds
<1>8. after' \in [to : Screens, refresh : SUBSET Lists] /\ "documents" \in after'.refresh
  BY <1>2, <1>3 DEF Lists
<1> QED
  BY <1>2, <1>4, <1>5, <1>6, <1>7, <1>8, Writes

(* A handler that deletes.                                                 *)
LEMMA Deletes ==
    ASSUME RecordsInv, Idle, UNCHANGED <<file, lists, ui, parent>>,
           NEW S \in SUBSET Sessions, NEW D \in SUBSET Documents, NEW K \in SUBSET Cases,
           NEW Ks \in SUBSET Cases, NEW C \in SUBSET Clients,
           Deleting(S, D, K, Ks, C)',
           after' \in [to : Screens, refresh : SUBSET Lists], Showable(after.to)',
           (after.to.phase = "CASE_PROFILE" /\ "documents" \notin after.refresh =>
                lists["documents"] = Directory(after.to.case))'
    PROVE  RecordsInv'
<1>1. AllOwned /\ file' = file /\ parent' = parent /\ parent \in [Items -> Items \cup {None}]
  BY OnScreen
<1>2. AllOwned'
  BY <1>1 DEF AllOwned, Readable, Owned, Exists
<1>3. Work'
  BY DEF Work
<1>4. todo' \in Seq(FileOps)
  <2>1. todo' = Plan(S, D, K, Ks, C)
    BY DEF Deleting
  <2>2. S \in ItemSets /\ D \in ItemSets /\ K \in ItemSets /\ Ks \in ItemSets /\ C \in ItemSets
    BY DEF Items, ItemSets
  <2> QED
    BY <2>1, <2>2, PlanType
<1> QED
  BY <1>1, <1>2, <1>3, <1>4, Handled

LEMMA DeleteDocumentInv ==
    ASSUME RecordsInv, NEW d \in Documents, DeleteDocument(d)
    PROVE  RecordsInv'
<1>1. PICK D \in SUBSET Documents : D = {d}
  OBVIOUS
<1>2. PICK E : E = {}
  OBVIOUS
<1>3. /\ Idle /\ OnCaseProfile /\ UNCHANGED <<file, lists, ui, parent>>
      /\ todo' = Do("delete", D)
      /\ after' = [to |-> ui, refresh |-> {"documents"}]
  BY <1>1 DEF DeleteDocument, Handle, OnCaseProfile
<1>4. /\ E \in SUBSET Sessions /\ E \in SUBSET Cases /\ E \in SUBSET Clients
      /\ D \in ItemSets /\ E \in ItemSets
  BY <1>1, <1>2 DEF Items, ItemSets
<1>5. todo' = Plan(E, D, E, E, E)
  BY <1>2, <1>3, <1>4, ShortPlans
<1>6. after' \in [to : Screens, refresh : SUBSET Lists] /\ "documents" \in after'.refresh
  BY <1>3, OnScreen DEF Lists
<1>7. Deleting(E, D, E, E, E)'
  BY <1>2, <1>5, <1>6 DEF Deleting
<1>8. Showable(after.to)'
  BY <1>3, StaysShowable
<1> QED
  BY <1>3, <1>4, <1>6, <1>7, <1>8, Deletes

LEMMA DeleteSessionInv ==
    ASSUME RecordsInv, NEW s \in Sessions, DeleteSession(s)
    PROVE  RecordsInv'
<1>1. PICK S \in SUBSET Sessions : S = {s}
  OBVIOUS
<1>2. PICK E : E = {}
  OBVIOUS
<1>3. /\ Idle /\ OnCaseProfile /\ UNCHANGED <<file, lists, ui, parent>>
      /\ todo' = Do("delete", S)
      /\ after' = [to |-> ui, refresh |-> {"sessions"}] /\ ui.phase = "CASE_PROFILE"
  BY <1>1 DEF DeleteSession, Handle, OnCaseProfile
<1>4. /\ E \in SUBSET Documents /\ E \in SUBSET Cases /\ E \in SUBSET Clients
      /\ S \in ItemSets /\ E \in ItemSets
  BY <1>1, <1>2 DEF Items, ItemSets
<1>5. todo' = Plan(S, E, E, E, E)
  BY <1>2, <1>3, <1>4, ShortPlans
<1>6. after' \in [to : Screens, refresh : SUBSET Lists] /\ "sessions" \in after'.refresh
  BY <1>3, OnScreen DEF Lists
<1>7. Deleting(S, E, E, E, E)'
  BY <1>2, <1>5, <1>6 DEF Deleting
<1>8. Showable(after.to)'
  BY <1>3, StaysShowable
<1>9. (lists["documents"] = Directory(after.to.case))'
  <2>1. lists["documents"] = Directory(ui.case)
    BY <1>3, OnScreen
  <2>2. lists'["documents"] = lists["documents"] /\ Directory(after.to.case)' = Directory(ui.case)
    BY <1>3 DEF Directory, Exists
  <2> QED
    BY <2>1, <2>2
<1> QED
  BY <1>3, <1>4, <1>6, <1>7, <1>8, <1>9, Deletes

LEMMA DeleteCaseInv ==
    ASSUME RecordsInv, DeleteCase
    PROVE  RecordsInv'
<1>1. PICK k : k = ui.case
  OBVIOUS
<1>2. PICK c : c = ui.client
  OBVIOUS
<1>3. PICK u : u = ShowClient(c)
  OBVIOUS
<1>4. /\ Idle /\ UNCHANGED <<file, lists, ui, parent>> /\ todo' = CaseCascade(k)
      /\ after' = [to |-> u, refresh |-> {"cases", "sessions"}]
      /\ ui.phase = "CASE_PROFILE"
  BY <1>1, <1>2, <1>3 DEF DeleteCase, Handle, OnCaseProfile
<1>5. /\ k \in Cases /\ c \in Clients /\ c # None /\ Exists(c)
      /\ lists["sessions"] = Readable(Sessions)
  BY <1>1, <1>2, <1>4, OnScreen, StoredKinds DEF Caches
<1>6. u \in Screens /\ u.phase = "CLIENT_PROFILE" /\ u.client = c /\ u.case = None
  BY <1>3, <1>4, <1>5, OnScreen, ScreenTypes, ZenonT(60) DEF ShowClient, Screens
<1>7. PICK S \in SUBSET Sessions : S = Of(lists["sessions"], k)
  BY <1>5 DEF Of, Readable
<1>8. PICK D \in SUBSET Documents : D = Directory(k)
  BY DEF Directory
<1>9. PICK K \in SUBSET Cases : K = {k}
  BY <1>5
<1>10. PICK E : E = {}
  OBVIOUS
<1>11. /\ E \in SUBSET Cases /\ E \in SUBSET Clients
       /\ S \in ItemSets /\ D \in ItemSets /\ K \in ItemSets
  BY <1>10 DEF Items, ItemSets
<1>12. todo' = Plan(S, D, K, E, E)
  <2>1. todo' = CascadeOps(S, D, K)
    BY <1>4, <1>7, <1>8, <1>9, Zenon DEF CaseCascade, DeleteAll, CascadeOps
  <2>2. CascadeOps(S, D, K) = Plan(S, D, K, E, E)
    BY <1>10, <1>11, CascadeAlone
  <2> QED
    BY <2>1, <2>2, Zenon
<1>13. Deleting(S, D, K, E, E)'
  <2>1. Of(Readable(Sessions), k)' \subseteq S /\ Directory(k)' \subseteq D
    BY <1>4, <1>5, <1>7, <1>8 DEF Of, Readable, Directory, Exists
  <2> QED
    BY <1>4, <1>6, <1>9, <1>10, <1>12, <2>1 DEF Deleting
<1>14. Showable(after.to)'
  BY <1>4, <1>5, <1>6 DEF Showable, Stays, Exists
<1>15. after' \in [to : Screens, refresh : SUBSET Lists] /\ after'.to.phase = "CLIENT_PROFILE"
  BY <1>4, <1>6 DEF Lists
<1> QED
  BY <1>4, <1>11, <1>13, <1>14, <1>15, Deletes

LEMMA DeleteClientInv ==
    ASSUME RecordsInv, DeleteClient
    PROVE  RecordsInv'
<1>1. PICK c : c = ui.client
  OBVIOUS
<1>2. PICK u : u = ShowHome
  OBVIOUS
<1>3. /\ Idle /\ UNCHANGED <<file, lists, ui, parent>>
      /\ todo' = Do("cascade", Of(lists["cases"], c)) \o Do("delete", {c})
      /\ after' = [to |-> u, refresh |-> {"clients", "cases", "sessions"}]
      /\ ui.phase = "CLIENT_PROFILE"
  BY <1>1, <1>2 DEF DeleteClient, Handle, OnClientProfile
<1>4. /\ c \in Clients /\ c # None
      /\ lists["sessions"] = Readable(Sessions) /\ lists["cases"] = Readable(Cases)
  BY <1>1, <1>3, OnScreen, StoredKinds DEF Caches
<1>5. u \in Screens /\ u.phase = "HOME" /\ u.client = None /\ u.case = None
  BY <1>2, <1>3, OnScreen, ScreenTypes, ZenonT(60) DEF ShowHome, Screens
<1>6. PICK Ks \in SUBSET Cases : Ks = Of(lists["cases"], c)
  BY <1>4 DEF Of, Readable
<1>7. PICK C \in SUBSET Clients : C = {c}
  BY <1>4
<1>8. PICK E : E = {}
  OBVIOUS
<1>9. /\ E \in SUBSET Sessions /\ E \in SUBSET Documents /\ E \in SUBSET Cases
      /\ E \in ItemSets /\ Ks \in ItemSets /\ C \in ItemSets
  BY <1>8 DEF Items, ItemSets
<1>10. todo' = Plan(E, E, E, Ks, C)
  <2>1. todo' = Do("cascade", Ks) \o Do("delete", C)
    BY <1>3, <1>6, <1>7, Zenon
  <2>2. Plan(E, E, E, Ks, C) = Do("cascade", Ks) \o Do("delete", C)
    BY <1>8, <1>9, ShortPlans, SMTT(60)
  <2> QED
    BY <2>1, <2>2, Zenon
<1>11. Deleting(E, E, E, Ks, C)'
  <2>1. Of(Readable(Cases), c)' \subseteq Ks /\ Readable(Sessions)' \subseteq lists'["sessions"]
    BY <1>3, <1>4, <1>6 DEF Of, Readable
  <2> QED
    BY <1>3, <1>4, <1>5, <1>7, <1>8, <1>10, <2>1 DEF Deleting
<1>12. Showable(after.to)'
  BY <1>3, <1>5 DEF Showable
<1>13. after' \in [to : Screens, refresh : SUBSET Lists] /\ after'.to.phase = "HOME"
  BY <1>3, <1>5 DEF Lists
<1> QED
  BY <1>3, <1>9, <1>11, <1>12, <1>13, Deletes

(* Every step keeps the invariant.                                         *)
LEMMA NextInv ==
    ASSUME RecordsInv, Next
    PROVE  RecordsInv'
<1>1. CASE FileStep
  BY <1>1, FileStepInv
<1>2. CASE Finish
  BY <1>2, FinishInv
<1>3. CASE Restart
  BY <1>3, RestartInv
<1>4. CASE \/ GoHome \/ StartNewClient \/ StartEditClient \/ NewCase
           \/ (\E c \in Clients : OpenClient(c)) \/ (\E k \in Cases : OpenCase(k))
  BY <1>4, MovesInv
<1>5. CASE UpdateClient \/ \E c \in Clients : CreateClient(c)
  BY <1>5, UpdateClientInv, CreateClientInv
<1>6. CASE \E k \in Cases : CreateCase(k)
  BY <1>6, CreateCaseInv
<1>7. CASE \E s \in Sessions : SaveSession(s)
  BY <1>7, SaveSessionInv
<1>8. CASE \E s \in Sessions : DeleteSession(s)
  BY <1>8, DeleteSessionInv
<1>9. CASE \E d \in Documents : AttachDocument(d)
  BY <1>9, AttachDocumentInv
<1>10. CASE \E d \in Documents : DeleteDocument(d)
  BY <1>10, DeleteDocumentInv
<1>11. CASE DeleteCase
  BY <1>11, DeleteCaseInv
<1>12. CASE DeleteClient
  BY <1>12, DeleteClientInv
<1> QED
  BY <1>1, <1>2, <1>3, <1>4, <1>5, <1>6, <1>7, <1>8, <1>9, <1>10, <1>11, <1>12 DEF Next

-----------------------------------------------------------------------------
(* The theorems.                                                           *)

(* Whatever is on disk belongs to something on disk, a running handler     *)
(* still has in todo all that it must do to keep that, and between         *)
(* handlers the lists and the screen are true.                             *)
THEOREM Invariance == Spec => []RecordsInv
<1>1. Init => RecordsInv
  BY InitInv
<1>2. RecordsInv /\ [Next]_vars => RecordsInv'
  <2> SUFFICES ASSUME RecordsInv, [Next]_vars PROVE RecordsInv'
    OBVIOUS
  <2>1. CASE Next
    BY <2>1, NextInv, SMTT(60)
  <2>2. CASE UNCHANGED vars
    BY <2>2 DEF vars, RecordsInv, Typed, AllOwned, Owned, Settled, Handling, Work, Writing,
        Seeding, Deleting, Showable, Stays, Cached, Readable, Exists, Directory, Of,
        Launched, Home
  <2> QED
    BY <2>1, <2>2
<1> QED
  BY <1>1, <1>2, PTL DEF Spec

(* No readable session or case, and no document, outlives what it belongs  *)
(* to, whenever the process dies.                                          *)
THEOREM NothingIsOrphaned == Spec => []NoOrphans
<1>1. RecordsInv => NoOrphans
  <2> SUFFICES ASSUME RecordsInv PROVE NoOrphans
    OBVIOUS
  <2>1. AllOwned
    BY DEF RecordsInv
  <2> QED
    BY <2>1 DEF NoOrphans, AllOwned, Owned, Readable
<1> QED
  BY <1>1, Invariance, PTL

(* Between handlers the cached lists are what the disk holds.              *)
THEOREM ListsStayTrue == Spec => []ListsMatchDisk
<1>1. RecordsInv => ListsMatchDisk
  BY OnScreen, StoredKinds DEF ListsMatchDisk, OnDisk, Caches
<1> QED
  BY <1>1, Invariance, PTL

(* The screen is one the app has, and nothing on it or in the form it      *)
(* shows has been deleted.                                                 *)
THEOREM ScreenStaysSound == Spec => []ScreenSound
<1>1. RecordsInv => ScreenSound
  <2> SUFFICES ASSUME RecordsInv PROVE ScreenSound
    OBVIOUS
  <2>1. TypeOK
    BY DEF RecordsInv, Typed, TypeOK, FileOps
  <2>2. Idle => DocumentsOfCase /\ EditNeverResurrects /\ ScreenIsLive
    BY OnScreen DEF DocumentsOfCase, EditNeverResurrects, ScreenIsLive, OnDisk
  <2> QED
    BY <2>1, <2>2 DEF ScreenSound, DocumentsOfCase, EditNeverResurrects, ScreenIsLive
<1> QED
  BY <1>1, Invariance, PTL
=============================================================================
