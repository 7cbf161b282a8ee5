----------------------------- MODULE Heap_proofs ----------------------------
(***************************************************************************)
(* For every number of pages, classes and chunks: the theorems about Heap, *)
(* from one inductive invariant that relates the free list, the zones, the *)
(* regions and the usage array.                                            *)
(***************************************************************************)
EXTENDS Heap, FiniteSetTheorems, WellFoundedInduction, NaturalsInduction, TLAPS

(* Leaves that name no prover are Zenon's; those that reason about numbers, *)
(* records or updates of functions name the SMT solver.                     *)
USE ZenonT(60)

ExtentRec == [at : Nat, n : Nat]
UseRec == [use : {"free", "zone", "page"}, k : Nat]
ZoneRec == [class : Classes \cup {"none"}, nfree : 0 .. NMax, uindex : 0 .. NMax,
            freechunk : Seq(0 .. NMax - 1)]
Types ==
  /\ list \in Seq(ExtentRec) /\ regions \in SUBSET ExtentRec
  /\ usage \in [Pages -> UseRec] /\ zone \in [Pages -> ZoneRec]
  /\ array \in [Classes -> Seq(Pages)] /\ spare \in Seq(Pages)
  /\ Len(spare) <= FreeLimit
  /\ chunks \in SUBSET (Pages \X (0 .. NMax - 1))

(* Areas that hold pages, of the heap and not the array's, and share none. *)
Inside(A) == \A a \in A : a[2].n > 0 /\ PagesOf(a[2]) \subseteq 1 .. NPages - 1
Apart(A) == \A a, b \in A : a # b => PagesOf(a[2]) \cap PagesOf(b[2]) = {}

(* The pages of a zone are marked with their distance from its head, and   *)
(* the first one of a region with its length.                              *)
ZonePagesOf(z) == z .. z + ZonePages - 1
ZonesMarked ==
  \A z \in Zones : \A pg \in ZonePagesOf(z) : usage[pg] = [use |-> "zone", k |-> pg - z]
RegionsMarked == \A x \in regions : usage[x.at] = [use |-> "page", k |-> x.n]

ZonesTouched == \A z \in Zones : zone[z].class \in Classes /\ zone[z].uindex > 0
ChunksInZones == \A chunk \in chunks : chunk[1] \in Zones
SpareInZones == Range(spare) \subseteq Zones

HeapInv ==
  /\ Types /\ IsInjective(list) /\ Inside(Areas) /\ Apart(Areas)
  /\ ZonesMarked /\ RegionsMarked /\ ZonesTouched /\ ChunksInZones /\ SpareInZones
  /\ ChunksOnce /\ ListsExact
-----------------------------------------------------------------------------
(* The least of some numbers, which Min chooses.                           *)
LEMMA LeastNumber ==
  ASSUME NEW S \in SUBSET Nat, S # {}
  PROVE  Min(S) \in S /\ \A y \in S : Min(S) <= y
<1>1. PICK x \in S : \A y \in S : ~ (<<y, x>> \in OpToRel(<, Nat))
  BY NatLessThanWellFounded, WFMin
<1>2. \A y \in Nat : y < x => <<y, x>> \in OpToRel(<, Nat)
  BY DEF OpToRel
<1>3. \A y \in S : ~(y < x)
  BY <1>1, <1>2
<1>4. \A y \in S : x <= y
  BY <1>3, SMTT(40)
<1> QED
  BY <1>4 DEF Min

(* What the operations on lists do to their nodes.                         *)
LEMMA UnlinkFacts ==
  ASSUME NEW S, NEW s \in Seq(S), IsInjective(s), NEW i \in DOMAIN s
  PROVE  /\ Unlink(s, i) \in Seq(S) /\ IsInjective(Unlink(s, i))
         /\ Range(Unlink(s, i)) = Range(s) \ {s[i]}
         /\ Len(Unlink(s, i)) = Len(s) - 1
<1> DEFINE n == Len(s)
           r == Unlink(s, i)
<1>1. n \in Nat /\ DOMAIN s = 1 .. n /\ i \in 1 .. n /\ \A j \in 1 .. n : s[j] \in S
  BY SMTT(40)
<1>2. /\ r = [j \in 1 .. n - 1 |-> IF j < i THEN s[j] ELSE s[j + 1]]
      /\ DOMAIN r = 1 .. n - 1
  BY DEF Unlink
<1>3. \A j \in 1 .. n - 1 : j \in 1 .. n /\ j + 1 \in 1 .. n
  BY <1>1, SMTT(40)
<1>4. r \in Seq(S) /\ Len(r) = n - 1
  <2>1. n - 1 \in Nat
    BY <1>1, SMTT(40)
  <2>2. \A j \in 1 .. n - 1 : r[j] \in S
    BY <1>1, <1>2, <1>3
  <2>3. r \in [1 .. n - 1 -> S]
    BY <1>2, <2>2
  <2>4. QED BY <2>1, <2>3, <1>2, SMTT(40)
<1>5. /\ \A j \in 1 .. n - 1 : r[j] = s[IF j < i THEN j ELSE j + 1]
      /\ \A j \in 1 .. n - 1 : (IF j < i THEN j ELSE j + 1) \in 1 .. n \ {i}
  BY <1>1, <1>2, SMTT(40)
<1>6. \A j, k \in 1 .. n - 1 : j # k => (IF j < i THEN j ELSE j + 1) # (IF k < i THEN k ELSE k + 1)
  BY <1>1, SMTT(40)
<1>7. \A j \in 1 .. n : j # i => \E k \in 1 .. n - 1 : j = IF k < i THEN k ELSE k + 1
  <2>1. ASSUME NEW j \in 1 .. n, j < i PROVE j \in 1 .. n - 1
    BY <1>1, <2>1, SMTT(40)
  <2>2. ASSUME NEW j \in 1 .. n, i < j PROVE j - 1 \in 1 .. n - 1 /\ ~(j - 1 < i) /\ j = (j - 1) + 1
    BY <1>1, <2>2, SMTT(40)
  <2>3. \A j \in 1 .. n : j # i => j < i \/ i < j
    BY <1>1, SMTT(40)
  <2>4. QED BY <2>1, <2>2, <2>3
<1> HIDE DEF n, r
<1>8. IsInjective(r)
  <2>a. DOMAIN r = 1 .. n - 1
    BY <1>2
  <2> SUFFICES ASSUME NEW j \in 1 .. n - 1, NEW k \in 1 .. n - 1, j # k, r[j] = r[k] PROVE FALSE
    BY <2>a DEF IsInjective
  <2> DEFINE a == IF j < i THEN j ELSE j + 1
             b == IF k < i THEN k ELSE k + 1
  <2>1. a \in 1 .. n /\ b \in 1 .. n /\ a # b /\ s[a] = s[b]
    BY <1>5, <1>6
  <2> HIDE DEF a, b
  <2>2. QED BY <1>1, <2>1 DEF IsInjective
<1>9. Range(r) \subseteq Range(s) \ {s[i]}
  BY <1>1, <1>2, <1>5, SMTT(40) DEF IsInjective, Range
<1>10. Range(s) \ {s[i]} \subseteq Range(r)
  <2>1. ASSUME NEW j \in 1 .. n, j # i PROVE s[j] \in Range(r)
    BY <1>2, <1>5, <1>7, <2>1 DEF Range
  <2>2. QED BY <1>1, <2>1 DEF Range
<1>11. QED BY <1>4, <1>8, <1>9, <1>10 DEF n, r

(* page_free links a new node before the one it stopped at.                *)
LEMMA LinkFacts ==
  ASSUME NEW S, NEW s \in Seq(S), IsInjective(s), NEW i \in DOMAIN s,
         NEW e \in S, e \notin Range(s)
  PROVE  /\ Link(s, i, e) \in Seq(S) /\ IsInjective(Link(s, i, e))
         /\ Range(Link(s, i, e)) = Range(s) \cup {e}
<1> DEFINE n == Len(s)
           r == Link(s, i, e)
<1>1. n \in Nat /\ DOMAIN s = 1 .. n /\ i \in 1 .. n /\ \A j \in 1 .. n : s[j] \in S
  BY SMTT(40)
<1>2. /\ r = [j \in 1 .. n + 1 |-> IF j < i THEN s[j] ELSE IF j = i THEN e ELSE s[j - 1]]
      /\ DOMAIN r = 1 .. n + 1
  BY DEF Link
<1>3. /\ \A j \in 1 .. n + 1 : j # i => (IF j < i THEN j ELSE j - 1) \in 1 .. n
      /\ i \in 1 .. n + 1 /\ r[i] = e
      /\ \A j \in 1 .. n + 1 : j # i => r[j] = s[IF j < i THEN j ELSE j - 1]
  BY <1>1, <1>2, SMTT(40)
<1>4. r \in Seq(S)
  <2>1. n + 1 \in Nat
    BY <1>1, SMTT(40)
  <2>2. \A j \in 1 .. n + 1 : r[j] \in S
    BY <1>1, <1>3
  <2>3. r \in [1 .. n + 1 -> S]
    BY <1>2, <2>2
  <2>4. QED BY <2>1, <2>3, SMTT(40)
<1>5. \A j, k \in 1 .. n + 1 : j # i /\ k # i /\ j # k
        => (IF j < i THEN j ELSE j - 1) # (IF k < i THEN k ELSE k - 1)
  BY <1>1, SMTT(40)
<1>6. \A j \in 1 .. n : \E k \in 1 .. n + 1 : k # i /\ j = IF k < i THEN k ELSE k - 1
  <2>1. ASSUME NEW j \in 1 .. n, j < i PROVE j \in 1 .. n + 1 /\ j # i
    BY <1>1, <2>1, SMTT(40)
  <2>2. ASSUME NEW j \in 1 .. n, ~(j < i)
        PROVE j + 1 \in 1 .. n + 1 /\ j + 1 # i /\ ~(j + 1 < i) /\ j = (j + 1) - 1
    BY <1>1, <2>2, SMTT(40)
  <2>3. QED BY <2>1, <2>2
<1> HIDE DEF n, r
<1>7. IsInjective(r)
  <2>a. DOMAIN r = 1 .. n + 1
    BY <1>2
  <2> SUFFICES ASSUME NEW j \in 1 .. n + 1, NEW k \in 1 .. n + 1, j # k, r[j] = r[k] PROVE FALSE
    BY <2>a DEF IsInjective
  <2>1. CASE j = i
    BY <1>1, <1>3, <2>1 DEF Range
  <2>2. CASE k = i
    BY <1>1, <1>3, <2>2 DEF Range
  <2>3. CASE j # i /\ k # i
    BY <1>1, <1>3, <1>5, <2>3 DEF IsInjective
  <2>4. QED BY <2>1, <2>2, <2>3
<1>8. Range(r) \subseteq Range(s) \cup {e}
  BY <1>1, <1>2, <1>3 DEF Range
<1>9. Range(s) \cup {e} \subseteq Range(r)
  <2>1. ASSUME NEW j \in 1 .. n PROVE s[j] \in Range(r)
    BY <1>2, <1>3, <1>6, <2>1 DEF Range
  <2>2. QED BY <1>1, <1>2, <1>3, <2>1 DEF Range
<1>10. QED BY <1>4, <1>7, <1>8, <1>9 DEF r

(* page_alloc and page_free change a node in its place.                    *)
Put(s, i, e) == [s EXCEPT ![i] = e]
(* The list is as it was but for that node.                                *)
LEMMA PutFacts ==
  ASSUME NEW S, NEW s \in Seq(S), IsInjective(s), NEW i \in DOMAIN s,
         NEW e \in S, e \notin Range(s) \ {s[i]}
  PROVE  /\ Put(s, i, e) \in Seq(S) /\ IsInjective(Put(s, i, e))
         /\ Range(Put(s, i, e)) = (Range(s) \ {s[i]}) \cup {e}
         /\ Len(Put(s, i, e)) = Len(s)
<1> DEFINE r == Put(s, i, e)
<1>1. /\ r \in Seq(S) /\ Len(r) = Len(s) /\ DOMAIN r = DOMAIN s /\ r[i] = e
      /\ \A j \in DOMAIN s : j # i => r[j] = s[j]
  BY SMTT(40) DEF Put
<1> HIDE DEF r
<1>2. IsInjective(r)
  BY <1>1 DEF IsInjective, Range
<1>3. Range(r) = (Range(s) \ {s[i]}) \cup {e}
  BY <1>1, SMTT(40) DEF IsInjective, Range
<1>4. QED BY <1>1, <1>2, <1>3 DEF r

(* push_front and pop_front.                                               *)
LEMMA PushFacts ==
  ASSUME NEW S, NEW s \in Seq(S), IsInjective(s), NEW e \in S, e \notin Range(s)
  PROVE  /\ <<e>> \o s \in Seq(S) /\ IsInjective(<<e>> \o s)
         /\ Range(<<e>> \o s) = Range(s) \cup {e} /\ Len(<<e>> \o s) = Len(s) + 1
<1> DEFINE r == <<e>> \o s
           n == Len(s)
<1>1. n \in Nat /\ DOMAIN s = 1 .. n
  BY SMTT(40)
<1>2. /\ r \in Seq(S) /\ Len(r) = n + 1 /\ DOMAIN r = 1 .. n + 1 /\ r[1] = e
      /\ \A j \in 1 .. n + 1 : j # 1 => r[j] = s[j - 1]
  BY <1>1, SMTT(40)
<1>3. /\ \A j \in 1 .. n + 1 : j # 1 => j - 1 \in 1 .. n
      /\ \A j \in 1 .. n : j + 1 \in 1 .. n + 1 /\ j + 1 # 1 /\ (j + 1) - 1 = j
      /\ 1 \in 1 .. n + 1
      /\ \A j, k \in 1 .. n + 1 : j # k => j - 1 # k - 1
  BY <1>1, SMTT(40)
<1> HIDE DEF r, n
<1>4. IsInjective(r)
  <2>a. DOMAIN r = 1 .. n + 1
    BY <1>2
  <2> SUFFICES ASSUME NEW j \in 1 .. n + 1, NEW k \in 1 .. n + 1, j # k, r[j] = r[k] PROVE FALSE
    BY <2>a DEF IsInjective
  <2>1. \A l \in 1 .. n + 1 : l # 1 => r[l] \in Range(s)
    <3> TAKE l \in 1 .. n + 1
    <3> HAVE l # 1
    <3>1. l - 1 \in DOMAIN s /\ r[l] = s[l - 1]
      BY <1>1, <1>2, <1>3
    <3>2. QED BY <3>1 DEF Range
  <2>2. CASE j = 1 \/ k = 1
    BY <1>2, <2>1, <2>2
  <2>3. CASE j # 1 /\ k # 1
    <3>1. /\ j - 1 \in DOMAIN s /\ k - 1 \in DOMAIN s /\ j - 1 # k - 1
          /\ s[j - 1] = s[k - 1]
      BY <1>1, <1>2, <1>3, <2>3
    <3>2. QED BY <3>1 DEF IsInjective
  <2>4. QED BY <2>2, <2>3
<1>5. Range(r) \subseteq Range(s) \cup {e}
  <2>1. ASSUME NEW j \in 1 .. n + 1, j # 1 PROVE r[j] \in Range(s)
    <3>1. j - 1 \in DOMAIN s /\ r[j] = s[j - 1]
      BY <1>1, <1>2, <1>3, <2>1
    <3>2. QED BY <3>1 DEF Range
  <2>2. \A x \in Range(r) : \E j \in 1 .. n + 1 : x = r[j]
    BY <1>2 DEF Range
  <2>3. QED BY <1>2, <2>1, <2>2
<1>6. Range(s) \cup {e} \subseteq Range(r)
  <2>1. ASSUME NEW j \in 1 .. n PROVE s[j] \in Range(r)
    <3>1. r[j + 1] = s[j] /\ j + 1 \in DOMAIN r
      BY <1>2, <1>3, <2>1
    <3>2. QED BY <3>1 DEF Range
  <2>2. QED BY <1>1, <1>2, <1>3, <2>1, SMTT(40) DEF Range
<1>7. QED BY <1>2, <1>4, <1>5, <1>6 DEF r, n

(* malloc takes the first node of a list.                                  *)
LEMMA PopFacts ==
  ASSUME NEW S, NEW s \in Seq(S), IsInjective(s), s # <<>>
  PROVE  /\ Head(s) \in S /\ Head(s) \in Range(s)
         /\ Tail(s) \in Seq(S) /\ IsInjective(Tail(s))
         /\ Range(Tail(s)) = Range(s) \ {Head(s)} /\ Len(Tail(s)) = Len(s) - 1
<1> DEFINE r == Tail(s)
           n == Len(s)
<1>1. n \in Nat /\ n > 0 /\ DOMAIN s = 1 .. n /\ 1 \in 1 .. n /\ Head(s) = s[1] /\ s[1] \in S
  BY SMTT(40)
<1>2. /\ r \in Seq(S) /\ Len(r) = n - 1 /\ DOMAIN r = 1 .. n - 1
      /\ \A j \in 1 .. n - 1 : r[j] = s[j + 1]
  BY <1>1, SMTT(40)
<1>3. /\ \A j \in 1 .. n - 1 : j + 1 \in 1 .. n /\ j + 1 # 1
      /\ \A j \in 1 .. n : j # 1 => j - 1 \in 1 .. n - 1 /\ (j - 1) + 1 = j
      /\ \A j, k \in 1 .. n - 1 : j # k => j + 1 # k + 1
  BY <1>1, SMTT(40)
<1> HIDE DEF r, n
<1>4. IsInjective(r)
  <2>a. DOMAIN r = 1 .. n - 1
    BY <1>2
  <2> SUFFICES ASSUME NEW j \in 1 .. n - 1, NEW k \in 1 .. n - 1, j # k, r[j] = r[k] PROVE FALSE
    BY <2>a DEF IsInjective
  <2>1. /\ j + 1 \in DOMAIN s /\ k + 1 \in DOMAIN s /\ j + 1 # k + 1
        /\ s[j + 1] = s[k + 1]
    BY <1>1, <1>2, <1>3
  <2>2. QED BY <2>1 DEF IsInjective
<1>5. Range(r) \subseteq Range(s) \ {s[1]}
  BY <1>1, <1>2, <1>3, SMTT(40) DEF Range, IsInjective
<1>6. Range(s) \ {s[1]} \subseteq Range(r)
  <2>1. ASSUME NEW j \in 1 .. n, j # 1 PROVE s[j] \in Range(r)
    <3>1. r[j - 1] = s[j] /\ j - 1 \in DOMAIN r
      BY <1>2, <1>3, <2>1
    <3>2. QED BY <3>1 DEF Range
  <2>2. QED BY <1>1, <2>1 DEF Range
<1>7. QED BY <1>1, <1>2, <1>4, <1>5, <1>6 DEF r, n, Range

(* remove takes the node it finds out of the list.                         *)
LEMMA RemoveFacts ==
  ASSUME NEW S, NEW s \in Seq(S), IsInjective(s), NEW e \in Range(s)
  PROVE  /\ RemoveNode(s, e) \in Seq(S) /\ IsInjective(RemoveNode(s, e))
         /\ Range(RemoveNode(s, e)) = Range(s) \ {e}
<1> DEFINE places == {j \in DOMAIN s : s[j] = e}
<1>1. places # {}
  BY DEF Range
<1>2. places \in SUBSET Nat
  BY SMTT(40)
<1>3. Min(places) \in places
  BY <1>1, <1>2, LeastNumber
<1>4. RemoveNode(s, e) = Unlink(s, Min(places))
  BY <1>1 DEF RemoveNode
<1> HIDE DEF places
<1>5. PICK i \in DOMAIN s : i = Min(places) /\ s[i] = e
  BY <1>3 DEF places
<1>6. /\ Unlink(s, i) \in Seq(S) /\ IsInjective(Unlink(s, i))
      /\ Range(Unlink(s, i)) = Range(s) \ {s[i]}
      /\ Len(Unlink(s, i)) = Len(s) - 1
  BY UnlinkFacts
<1>7. QED BY <1>4, <1>5, <1>6
-----------------------------------------------------------------------------
(* Areas are regrouped: those of R give way to those of N, which have only *)
(* pages that R had.                                                       *)
Within(N, R) ==
  \A a \in N : a[2].n > 0 /\ \A pg \in PagesOf(a[2]) : \E r \in R : pg \in PagesOf(r[2])
(* Then the new areas share no page either.                                *)
LEMMA Regroup ==
  ASSUME NEW A, NEW B, NEW R, NEW N, R \subseteq A, Apart(A), Inside(A), Apart(N),
         Within(N, R), B \subseteq (A \ R) \cup N
  PROVE  Apart(B) /\ Inside(B)
<1>1. ASSUME NEW a \in A \ R, NEW b \in N PROVE PagesOf(a[2]) \cap PagesOf(b[2]) = {}
  <2> SUFFICES ASSUME NEW pg, pg \in PagesOf(a[2]), pg \in PagesOf(b[2]) PROVE FALSE
    OBVIOUS
  <2>1. PICK r \in R : pg \in PagesOf(r[2])
    BY DEF Within
  <2>2. QED BY <2>1 DEF Apart
<1>2. Apart(B)
  <2> SUFFICES ASSUME NEW a \in B, NEW b \in B, a # b PROVE PagesOf(a[2]) \cap PagesOf(b[2]) = {}
    BY DEF Apart
  <2>1. CASE a \in A \ R /\ b \in A \ R
    BY <2>1 DEF Apart
  <2>2. CASE a \in N /\ b \in N
    BY <2>2 DEF Apart
  <2>3. CASE a \in A \ R /\ b \in N
    BY <2>3, <1>1
  <2>4. CASE a \in N /\ b \in A \ R
    BY <2>4, <1>1
  <2>5. QED BY <2>1, <2>2, <2>3, <2>4
<1>3. Inside(B)
  <2> SUFFICES ASSUME NEW a \in B PROVE a[2].n > 0 /\ PagesOf(a[2]) \subseteq 1 .. NPages - 1
    BY DEF Inside
  <2>1. CASE a \in A
    BY <2>1 DEF Inside
  <2>2. CASE a \in N
    <3>1. ASSUME NEW pg \in PagesOf(a[2]) PROVE pg \in 1 .. NPages - 1
      <4>1. PICK r \in R : pg \in PagesOf(r[2])
        BY <2>2 DEF Within
      <4>2. QED BY <4>1 DEF Inside
    <3>2. QED BY <2>2, <3>1 DEF Within
  <2>3. QED BY <2>1, <2>2
<1>4. QED BY <1>2, <1>3

(* The free list: extents of the heap, each once, that share no page.      *)
FreeListOK ==
  /\ list \in Seq(ExtentRec) /\ IsInjective(list)
  /\ \A x \in Range(list) : x.n > 0 /\ PagesOf(x) \subseteq 1 .. NPages - 1
  /\ \A x, y \in Range(list) : x # y => PagesOf(x) \cap PagesOf(y) = {}

(* page_alloc takes the pages from the front of an extent.                 *)
Rest(x, n) == IF x.n > n THEN {Extent(x.at + n, x.n - n)} ELSE {}
(* The extent page_alloc chooses, and the list it leaves.                  *)
LEMMA AllocFacts ==
  ASSUME FreeListOK, NEW n \in Nat, n > 0, Fits(n) # {}
  PROVE  \E x \in Range(list) :
           /\ x.n >= n /\ PageAlloc(n).at = x.at
           /\ PageAlloc(n).list \in Seq(ExtentRec) /\ IsInjective(PageAlloc(n).list)
           /\ Range(PageAlloc(n).list) = (Range(list) \ {x}) \cup Rest(x, n)
<1>1. Fits(n) \in SUBSET Nat
  BY SMTT(40) DEF Fits, FreeListOK
<1>2. Min(Fits(n)) \in Fits(n)
  BY <1>1, LeastNumber
<1>3. PICK i \in DOMAIN list : i = Min(Fits(n)) /\ list[i].n >= n
  BY <1>2 DEF Fits
<1>4. PICK x \in Range(list) : x = list[i]
  BY DEF Range
<1>5. x \in ExtentRec /\ x.n >= n
  BY <1>3, <1>4, SMTT(40) DEF FreeListOK
<1>6. PageAlloc(n).at = x.at
  BY <1>3, <1>4 DEF PageAlloc
<1>7. PageAlloc(n).list = IF x.n > n THEN [list EXCEPT ![i] = Extent(x.at + n, x.n - n)]
                          ELSE Unlink(list, i)
  BY <1>3, <1>4 DEF PageAlloc
<1>8. CASE x.n > n
  <2>a. x.at + n \in Nat /\ x.n - n \in Nat
    BY <1>5, <1>8, SMTT(40) DEF ExtentRec
  <2>b. Extent(x.at + n, x.n - n) \in ExtentRec
    BY <2>a DEF ExtentRec, Extent
  <2>1. PICK e \in ExtentRec : e = Extent(x.at + n, x.n - n)
    BY <2>b
  <2>2. e.at \in PagesOf(e) /\ e.at \in PagesOf(x)
    BY <1>5, <1>8, <2>1, SMTT(40) DEF ExtentRec, Extent, PagesOf
  <2>3. e \notin Range(list) \ {x}
    BY <2>2 DEF FreeListOK
  <2>4. PageAlloc(n).list = Put(list, i, e) /\ Rest(x, n) = {e}
    BY <1>7, <1>8, <2>1 DEF Rest, Put
  <2>5. e \notin Range(list) \ {list[i]}
    BY <2>3, <1>4
  <2>6. /\ Put(list, i, e) \in Seq(ExtentRec) /\ IsInjective(Put(list, i, e))
        /\ Range(Put(list, i, e)) = (Range(list) \ {list[i]}) \cup {e}
        /\ Len(Put(list, i, e)) = Len(list)
    BY <2>5, PutFacts, SMTT(40) DEF FreeListOK
  <2>7. QED BY <1>4, <1>5, <1>6, <2>4, <2>6
<1>9. CASE ~(x.n > n)
  <2>1. PageAlloc(n).list = Unlink(list, i) /\ Rest(x, n) = {}
    BY <1>7, <1>9 DEF Rest
  <2>2. /\ Unlink(list, i) \in Seq(ExtentRec) /\ IsInjective(Unlink(list, i))
        /\ Range(Unlink(list, i)) = Range(list) \ {list[i]}
        /\ Len(Unlink(list, i)) = Len(list) - 1
    BY UnlinkFacts DEF FreeListOK
  <2>3. QED BY <1>4, <1>5, <1>6, <2>1, <2>2
<1>10. QED BY <1>8, <1>9

(* page_free: the pages become part of one extent, which takes the place   *)
(* of those it is joined with; or no extent ends where they begin, and the *)
(* list is as it was.                                                      *)
Joins(l, R, new, x) ==
  /\ R \subseteq Range(list) /\ new \in ExtentRec /\ new.n > 0
  /\ l \in Seq(ExtentRec) /\ IsInjective(l) /\ Range(l) = (Range(list) \ R) \cup {new}
  /\ \A pg \in Int : pg \in PagesOf(new) <=> pg \in PagesOf(x) \/ \E r \in R : pg \in PagesOf(r)
Lost(l, x) == l = list /\ \A y \in Range(list) : y.at + y.n # x.at

(* An extent that has a page of one in the list can take its place.        *)
LEMMA PutExtent ==
  ASSUME FreeListOK, NEW i \in DOMAIN list, NEW new \in ExtentRec,
         \E pg : pg \in PagesOf(list[i]) /\ pg \in PagesOf(new)
  PROVE  /\ Put(list, i, new) \in Seq(ExtentRec) /\ IsInjective(Put(list, i, new))
         /\ Range(Put(list, i, new)) = (Range(list) \ {list[i]}) \cup {new}
         /\ Len(Put(list, i, new)) = Len(list)
<1>1. list[i] \in Range(list)
  BY DEF Range
<1>2. new \notin Range(list) \ {list[i]}
  BY <1>1 DEF FreeListOK
<1>3. QED BY <1>2, PutFacts, SMTT(40) DEF FreeListOK

(* page_free does one or the other, whatever the word it compares with, if *)
(* that does not make it take an extent for the right neighbour that is    *)
(* not.                                                                    *)
LEMMA FreeFacts ==
  ASSUME FreeListOK, NEW x \in ExtentRec, x.n > 0, PagesOf(x) \subseteq 1 .. NPages - 1,
         \A y \in Range(list) : PagesOf(x) \cap PagesOf(y) = {},
         NEW word, ~Misleads(x.at, x.n, word)
  PROVE  \/ Lost(PageFree(x.at, x.n, word), x)
         \/ \E R, new : Joins(PageFree(x.at, x.n, word), R, new, x)
<1> DEFINE found == Found(x.at, word)
           l == PageFree(x.at, x.n, word)
<1>1. CASE found = {}
  <2>1. l = list
    BY <1>1 DEF PageFree
  <2>2. \A y \in Range(list) : y.at + y.n # x.at
    BY <1>1 DEF Range, Found
  <2>3. QED BY <2>1, <2>2 DEF Lost
<1>2. CASE found # {}
  <2>1. found \in SUBSET Nat
    <3>1. DOMAIN list \subseteq Nat
      BY SMTT(40) DEF FreeListOK
    <3>2. QED BY <3>1 DEF Found
  <2>2. Min(found) \in found
    BY <1>2, <2>1, LeastNumber
  <2>3. PICK i \in DOMAIN list : i = Min(found)
    BY <2>2 DEF Found
  <2>4. PICK y \in Range(list) : y = list[i]
    BY DEF Range
  <2>5. y \in ExtentRec /\ y.n > 0 /\ PagesOf(y) \subseteq 1 .. NPages - 1
    BY <2>4, SMTT(40) DEF FreeListOK
  <2>6. l = IF y.at + y.n = x.at
            THEN IF i < Len(list) /\ y.at + y.n + x.n = list[i + 1].at
                 THEN Unlink(Put(list, i, Extent(y.at, y.n + x.n + list[i + 1].n)), i + 1)
                 ELSE Put(list, i, Extent(y.at, y.n + x.n))
            ELSE IF x.at + word = y.at THEN Put(list, i, Extent(x.at, y.n + x.n))
            ELSE Link(list, i, Extent(x.at, x.n))
    BY <1>2, <2>3, <2>4 DEF PageFree, Put
  <2>7. x.at \in Nat /\ x.n \in Nat /\ y.at \in Nat /\ y.n \in Nat
    BY <2>5 DEF ExtentRec
  <2>13. y.at + y.n # x.at /\ x.at + word = y.at => word = x.n
    BY <1>2, <2>3, <2>4 DEF Misleads
  <2> HIDE DEF found, l
  <2>8. CASE y.at + y.n = x.at /\ i < Len(list) /\ y.at + y.n + x.n = list[i + 1].at
    <3>1. i + 1 \in DOMAIN list /\ i + 1 # i /\ i + 1 \in 1 .. Len(list)
      BY <2>8, SMTT(40) DEF FreeListOK
    <3>2. PICK r \in Range(list) : r = list[i + 1]
      BY <3>1 DEF Range
    <3>3. r \in ExtentRec /\ r.n > 0 /\ r # y
      BY <2>4, <3>1, <3>2, SMTT(40) DEF FreeListOK, IsInjective
    <3>4. r.at \in Nat /\ r.n \in Nat /\ r.at = x.at + x.n
      BY <2>8, <3>2, <3>3, SMTT(40) DEF ExtentRec
    <3>5. y.n + x.n + r.n \in Nat
      BY <2>7, <3>4, SMTT(40)
    <3>6. Extent(y.at, y.n + x.n + r.n) \in ExtentRec
      BY <2>7, <3>5 DEF Extent, ExtentRec
    <3>7. PICK new \in ExtentRec : new = Extent(y.at, y.n + x.n + r.n)
      BY <3>6
    <3>8. new.at = y.at /\ new.n = y.n + x.n + r.n /\ new.n > 0
      BY <2>7, <2>5, <3>4, <3>7, SMTT(40) DEF Extent
    <3>9. \A pg \in Int : pg \in PagesOf(new) <=>
            pg \in PagesOf(x) \/ pg \in PagesOf(y) \/ pg \in PagesOf(r)
      <4>1. x.n > 0 /\ y.n > 0 /\ r.n > 0 /\ y.at + y.n = x.at
        BY <2>5, <2>8, <3>3
      <4>2. QED BY ONLY <4>1, <2>7, <3>4, <3>8, SMTT(40) DEF PagesOf
    <3>10. y.at \in PagesOf(y) /\ y.at \in PagesOf(new)
      BY <2>5, <2>7, <3>4, <3>8, SMTT(40) DEF PagesOf
    <3>11. PICK p : p = Put(list, i, new)
      OBVIOUS
    <3>12. /\ p \in Seq(ExtentRec) /\ IsInjective(p)
           /\ Range(p) = (Range(list) \ {list[i]}) \cup {new}
           /\ Len(p) = Len(list)
      BY <2>4, <3>10, <3>11, PutExtent
    <3>13. i + 1 \in DOMAIN p /\ p[i + 1] = r
      BY <3>1, <3>2, <3>11, <3>12, SMTT(40) DEF Put, FreeListOK
    <3>14. /\ Unlink(p, i + 1) \in Seq(ExtentRec) /\ IsInjective(Unlink(p, i + 1))
           /\ Range(Unlink(p, i + 1)) = Range(p) \ {p[i + 1]}
           /\ Len(Unlink(p, i + 1)) = Len(p) - 1
      BY <3>12, <3>13, UnlinkFacts
    <3>15. l = Unlink(p, i + 1)
      BY <2>6, <2>8, <3>2, <3>7, <3>11
    <3>16. new # r
      BY <2>5, <2>7, <2>8, <3>4, <3>8, SMTT(40)
    <3>17. Range(l) = (Range(list) \ {y, r}) \cup {new}
      BY <2>4, <3>12, <3>13, <3>14, <3>15, <3>16
    <3>18. Joins(l, {y, r}, new, x)
      BY <3>2, <3>8, <3>9, <3>14, <3>15, <3>17 DEF Joins
    <3>19. QED BY <3>18 DEF l
  <2>9. CASE y.at + y.n = x.at /\ ~(i < Len(list) /\ y.at + y.n + x.n = list[i + 1].at)
    <3>1. y.n + x.n \in Nat
      BY <2>7, SMTT(40)
    <3>2. Extent(y.at, y.n + x.n) \in ExtentRec
      BY <2>7, <3>1 DEF Extent, ExtentRec
    <3>3. PICK new \in ExtentRec : new = Extent(y.at, y.n + x.n)
      BY <3>2
    <3>4. new.at = y.at /\ new.n = y.n + x.n /\ new.n > 0
      BY <2>7, <2>5, <3>3, SMTT(40) DEF Extent
    <3>5. \A pg \in Int : pg \in PagesOf(new) <=> pg \in PagesOf(x) \/ pg \in PagesOf(y)
      <4>1. x.n > 0 /\ y.n > 0 /\ y.at + y.n = x.at
        BY <2>5, <2>9
      <4>2. QED BY ONLY <4>1, <2>7, <3>4, SMTT(40) DEF PagesOf
    <3>6. y.at \in PagesOf(y) /\ y.at \in PagesOf(new)
      BY <2>5, <2>7, <3>4, SMTT(40) DEF PagesOf
    <3>7. l = Put(list, i, new)
      BY <2>6, <2>9, <3>3
    <3>8. /\ l \in Seq(ExtentRec) /\ IsInjective(l)
          /\ Range(l) = (Range(list) \ {y}) \cup {new}
      BY <2>4, <3>6, <3>7, PutExtent
    <3>9. Joins(l, {y}, new, x)
      BY <3>4, <3>5, <3>8 DEF Joins
    <3>10. QED BY <3>9 DEF l
  <2>10. CASE y.at + y.n # x.at /\ x.at + word = y.at
    <3>1. x.at \in PagesOf(x) /\ y.at \in PagesOf(y)
      BY <2>5, <2>7, SMTT(40) DEF PagesOf
    <3>4. word = x.n
      BY <2>10, <2>13
    <3>5. y.n + x.n \in Nat
      BY <2>7, SMTT(40)
    <3>6. Extent(x.at, y.n + x.n) \in ExtentRec
      BY <2>7, <3>5 DEF Extent, ExtentRec
    <3>7. PICK new \in ExtentRec : new = Extent(x.at, y.n + x.n)
      BY <3>6
    <3>8. new.at = x.at /\ new.n = y.n + x.n /\ new.n > 0
      BY <2>7, <2>5, <3>7, SMTT(40) DEF Extent
    <3>9. \A pg \in Int : pg \in PagesOf(new) <=> pg \in PagesOf(x) \/ pg \in PagesOf(y)
      BY <2>5, <2>7, <2>10, <3>4, <3>8, SMTT(40) DEF PagesOf
    <3>10. y.at \in PagesOf(y) /\ y.at \in PagesOf(new)
      BY <2>7, <3>1, <3>9, SMTT(40)
    <3>11. l = Put(list, i, new)
      BY <2>6, <2>10, <3>7
    <3>12. /\ l \in Seq(ExtentRec) /\ IsInjective(l)
           /\ Range(l) = (Range(list) \ {y}) \cup {new}
      BY <2>4, <3>10, <3>11, PutExtent
    <3>13. Joins(l, {y}, new, x)
      BY <3>8, <3>9, <3>12 DEF Joins
    <3>14. QED BY <3>13 DEF l
  <2>11. CASE y.at + y.n # x.at /\ x.at + word # y.at
    <3>1. Extent(x.at, x.n) = x
      BY SMTT(40) DEF Extent, ExtentRec
    <3>2. l = Link(list, i, x)
      BY <2>6, <2>11, <3>1
    <3>3. x.at \in PagesOf(x)
      BY <2>7, SMTT(40) DEF PagesOf
    <3>4. x \notin Range(list)
      BY <3>3
    <3>5. /\ Link(list, i, x) \in Seq(ExtentRec) /\ IsInjective(Link(list, i, x))
          /\ Range(Link(list, i, x)) = Range(list) \cup {x}
      BY <3>4, LinkFacts, SMTT(40) DEF FreeListOK
    <3>6. Joins(l, {}, x, x)
      BY <3>2, <3>5 DEF Joins
    <3>7. QED BY <3>6 DEF l
  <2>12. QED BY <2>8, <2>9, <2>10, <2>11
<1>3. QED BY <1>1, <1>2
-----------------------------------------------------------------------------
(* ChunksOnce of one zone: r its record, U the chunks in use.              *)
Chunks == 0 .. NMax - 1
Used(z) == {k \in Chunks : <<z, k>> \in chunks}
Sound(r, U) ==
  /\ U \cap Range(r.freechunk) = {} /\ U \cup Range(r.freechunk) = 0 .. r.uindex - 1
  /\ IsInjective(r.freechunk) /\ r.nfree = NMax - Cardinality(U)

(* The chunks of a zone are finitely many, at most NMax.                   *)
LEMMA UsedCount ==
  ASSUME NEW U \in SUBSET Chunks
  PROVE  /\ IsFiniteSet(U) /\ Cardinality(U) \in Nat /\ Cardinality(U) <= NMax
         /\ Cardinality(U) = 0 <=> U = {}
<1>1. 0 \in Int /\ NMax - 1 \in Int /\ NMax \in Nat /\ ~(0 > NMax - 1)
  BY HeapAssumption, SMTT(40)
<1>2. /\ IsFiniteSet(0 .. NMax - 1)
      /\ Cardinality(0 .. NMax - 1) = IF 0 > NMax - 1 THEN 0 ELSE NMax - 1 - 0 + 1
  BY <1>1, FS_Interval
<1>3. IsFiniteSet(Chunks) /\ Cardinality(Chunks) = NMax
  BY <1>1, <1>2, SMTT(40) DEF Chunks
<1>4. IsFiniteSet(U) /\ Cardinality(U) <= Cardinality(Chunks)
  BY <1>3, FS_Subset
<1>5. Cardinality(U) \in Nat
  BY <1>4, FS_CardinalityType
<1>6. Cardinality(U) = 0 <=> U = {}
  BY <1>4, FS_EmptySet
<1>7. QED BY <1>3, <1>4, <1>5, <1>6

(* malloc: the next chunk was not in use.                                  *)
LEMMA TakeFacts ==
  ASSUME NEW r \in ZoneRec, NEW U \in SUBSET Chunks, Sound(r, U), r.nfree > 0, r.uindex > 0
  PROVE  /\ NextChunk(r) \in Chunks \ U /\ Take(r) \in ZoneRec
         /\ Take(r).class = r.class /\ Take(r).nfree = r.nfree - 1 /\ Take(r).uindex > 0
         /\ Sound(Take(r), U \cup {NextChunk(r)})
<1>1. /\ r.nfree \in 0 .. NMax /\ r.uindex \in 0 .. NMax /\ r.freechunk \in Seq(0 .. NMax - 1)
      /\ r.class \in Classes \cup {"none"} /\ NMax \in Nat
  BY HeapAssumption DEF ZoneRec
<1>2. IsFiniteSet(U) /\ Cardinality(U) \in Nat
  BY UsedCount
<1>3. CASE r.uindex # NMax
  <2>1. Take(r) = [r EXCEPT !.nfree = @ - 1, !.uindex = @ + 1] /\ NextChunk(r) = r.uindex
    BY <1>3 DEF Take, NextChunk
  <2>2. /\ Take(r).class = r.class /\ Take(r).nfree = r.nfree - 1
        /\ Take(r).uindex = r.uindex + 1 /\ Take(r).freechunk = r.freechunk
    BY <2>1, SMTT(40) DEF ZoneRec
  <2>3. r.nfree - 1 \in 0 .. NMax /\ r.uindex + 1 \in 0 .. NMax /\ r.uindex \in 0 .. NMax - 1
    BY <1>1, <1>3, SMTT(40)
  <2>4. Take(r) \in ZoneRec
    BY <1>1, <2>1, <2>3 DEF ZoneRec
  <2>5. r.uindex \notin 0 .. r.uindex - 1
    BY <1>1, SMTT(40)
  <2>6. r.uindex \notin U /\ r.uindex \notin Range(r.freechunk)
    BY <2>5 DEF Sound
  <2>7. 0 .. (r.uindex + 1) - 1 = (0 .. r.uindex - 1) \cup {r.uindex}
    BY <1>1, SMTT(40)
  <2>8. Cardinality(U \cup {r.uindex}) = Cardinality(U) + 1
    BY <1>2, <2>6, FS_AddElement
  <2>9. r.nfree - 1 = NMax - (Cardinality(U) + 1)
    BY <1>1, <1>2, SMTT(40) DEF Sound
  <2>10. (U \cup {r.uindex}) \cap Range(r.freechunk) = {}
    BY <2>6 DEF Sound
  <2>11. (U \cup {r.uindex}) \cup Range(r.freechunk) = (0 .. r.uindex - 1) \cup {r.uindex}
    BY DEF Sound
  <2>12. Sound(Take(r), U \cup {r.uindex})
    BY <2>2, <2>7, <2>8, <2>9, <2>10, <2>11 DEF Sound
  <2>13. Take(r).uindex > 0
    BY <1>1, <2>2, SMTT(40)
  <2>14. QED BY <2>1, <2>2, <2>3, <2>4, <2>6, <2>12, <2>13 DEF Chunks
<1>4. CASE r.uindex = NMax
  <2>1. Take(r) = [r EXCEPT !.nfree = @ - 1, !.freechunk = Tail(@)]
        /\ NextChunk(r) = Head(r.freechunk)
    BY <1>4 DEF Take, NextChunk
  <2>2. /\ Take(r).class = r.class /\ Take(r).nfree = r.nfree - 1
        /\ Take(r).uindex = r.uindex /\ Take(r).freechunk = Tail(r.freechunk)
    BY <2>1, SMTT(40) DEF ZoneRec
  <2>3. r.freechunk # <<>>
    <3> SUFFICES ASSUME r.freechunk = <<>> PROVE FALSE
      OBVIOUS
    <3>1. Range(r.freechunk) = {}
      <4>1. DOMAIN r.freechunk = {}
        BY SMTT(40)
      <4>2. QED BY <4>1 DEF Range
    <3>2. U = 0 .. NMax - 1
      BY <1>4, <3>1 DEF Sound
    <3>3. 0 \in Int /\ NMax - 1 \in Int /\ ~(0 > NMax - 1)
      BY HeapAssumption, SMTT(40)
    <3>4. Cardinality(0 .. NMax - 1) = IF 0 > NMax - 1 THEN 0 ELSE NMax - 1 - 0 + 1
      BY <3>3, FS_Interval
    <3>5. r.nfree = NMax - (NMax - 1 - 0 + 1)
      BY <3>2, <3>3, <3>4 DEF Sound
    <3>6. QED BY <1>1, <3>5, SMTT(40)
  <2>4. PICK f \in Seq(0 .. NMax - 1) : f = r.freechunk
    BY <1>1
  <2>5. /\ Head(f) \in 0 .. NMax - 1 /\ Head(f) \in Range(f)
        /\ Tail(f) \in Seq(0 .. NMax - 1) /\ IsInjective(Tail(f))
        /\ Range(Tail(f)) = Range(f) \ {Head(f)} /\ Len(Tail(f)) = Len(f) - 1
    BY <2>3, <2>4, PopFacts DEF Sound
  <2>6. r.nfree - 1 \in 0 .. NMax
    BY <1>1, SMTT(40)
  <2>7. Take(r) \in ZoneRec
    BY <1>1, <2>1, <2>4, <2>5, <2>6 DEF ZoneRec
  <2>8. Head(f) \notin U
    BY <2>4, <2>5 DEF Sound
  <2>9. Cardinality(U \cup {Head(f)}) = Cardinality(U) + 1
    BY <1>2, <2>8, FS_AddElement
  <2>10. r.nfree - 1 = NMax - (Cardinality(U) + 1)
    BY <1>1, <1>2, SMTT(40) DEF Sound
  <2>11. /\ (U \cup {Head(f)}) \cap Range(Tail(f)) = {}
         /\ (U \cup {Head(f)}) \cup Range(Tail(f)) = 0 .. r.uindex - 1
    BY <2>4, <2>5 DEF Sound
  <2>12. Sound(Take(r), U \cup {Head(f)})
    BY <2>2, <2>4, <2>5, <2>9, <2>10, <2>11 DEF Sound
  <2>13. QED BY <2>1, <2>2, <2>4, <2>5, <2>7, <2>8, <2>12 DEF Chunks
<1>5. QED BY <1>3, <1>4

(* free: the zone had a chunk in use, and has one less.                    *)
LEMMA GiveFacts ==
  ASSUME NEW r \in ZoneRec, NEW U \in SUBSET Chunks, Sound(r, U), NEW k \in U, r.uindex > 0
  PROVE  /\ r.nfree < NMax /\ Give(r, k) \in ZoneRec
         /\ Give(r, k).class = r.class /\ Give(r, k).nfree = r.nfree + 1
         /\ Give(r, k).uindex > 0 /\ Sound(Give(r, k), U \ {k})
         /\ r.nfree + 1 = NMax => U \ {k} = {}
<1>1. /\ r.nfree \in 0 .. NMax /\ r.uindex \in 0 .. NMax /\ r.freechunk \in Seq(0 .. NMax - 1)
      /\ r.class \in Classes \cup {"none"} /\ NMax \in Nat
  BY HeapAssumption DEF ZoneRec
<1>2. IsFiniteSet(U) /\ Cardinality(U) \in Nat /\ Cardinality(U) # 0
  BY UsedCount
<1>3. /\ Give(r, k).class = r.class /\ Give(r, k).nfree = r.nfree + 1
      /\ Give(r, k).uindex = r.uindex /\ Give(r, k).freechunk = <<k>> \o r.freechunk
  BY SMTT(40) DEF ZoneRec, Give
<1>4. r.nfree < NMax /\ r.nfree + 1 \in 0 .. NMax
  BY <1>1, <1>2, SMTT(40) DEF Sound
<1>5. PICK f \in Seq(0 .. NMax - 1) : f = r.freechunk
  BY <1>1
<1>6. k \in 0 .. NMax - 1 /\ k \notin Range(f)
  BY <1>5 DEF Sound, Chunks
<1>7. /\ <<k>> \o f \in Seq(0 .. NMax - 1) /\ IsInjective(<<k>> \o f)
      /\ Range(<<k>> \o f) = Range(f) \cup {k} /\ Len(<<k>> \o f) = Len(f) + 1
  <2>1. PICK S : S = 0 .. NMax - 1
    OBVIOUS
  <2>2. f \in Seq(S) /\ k \in S /\ k \notin Range(f) /\ IsInjective(f)
    BY <1>5, <1>6, <2>1 DEF Sound
  <2>3. /\ <<k>> \o f \in Seq(S) /\ IsInjective(<<k>> \o f)
        /\ Range(<<k>> \o f) = Range(f) \cup {k} /\ Len(<<k>> \o f) = Len(f) + 1
    BY ONLY <2>2, PushFacts, ZenonT(60)
  <2>4. QED BY <2>1, <2>3
<1>8. Give(r, k) \in ZoneRec
  <2>1. PICK m \in 0 .. NMax : m = r.nfree + 1
    BY <1>4
  <2>2. PICK g \in Seq(0 .. NMax - 1) : g = <<k>> \o f
    BY <1>7
  <2>3. Give(r, k) = [r EXCEPT !.nfree = m, !.freechunk = g]
    BY <1>5, <2>1, <2>2 DEF Give
  <2>4. QED BY <2>1, <2>2, <2>3 DEF ZoneRec
<1>9. Cardinality(U \ {k}) = Cardinality(U) - 1 /\ IsFiniteSet(U \ {k})
  BY <1>2, FS_RemoveElement
<1>10. r.nfree + 1 = NMax - (Cardinality(U) - 1)
  BY <1>1, <1>2, SMTT(40) DEF Sound
<1>11. /\ (U \ {k}) \cap (Range(f) \cup {k}) = {}
       /\ (U \ {k}) \cup (Range(f) \cup {k}) = 0 .. r.uindex - 1
  BY <1>5, <1>6 DEF Sound
<1>12. Sound(Give(r, k), U \ {k})
  BY <1>3, <1>5, <1>7, <1>9, <1>10, <1>11 DEF Sound
<1>13. ASSUME r.nfree + 1 = NMax PROVE U \ {k} = {}
  <2>1. Cardinality(U) - 1 = 0
    BY <1>1, <1>2, <1>10, <1>13, SMTT(40)
  <2>2. QED BY <1>9, <2>1, FS_EmptySet
<1>14. QED BY <1>3, <1>4, <1>8, <1>12, <1>13

(* A zone that is set up has its first chunk in use.                       *)
LEMMA NewFacts ==
  ASSUME NEW c \in Classes
  PROVE  /\ NewZone(c) \in ZoneRec /\ NewZone(c).class = c /\ NewZone(c).nfree = NMax - 1
         /\ NewZone(c).uindex > 0 /\ NMax - 1 > 0 /\ NMax - 1 < NMax
         /\ Sound(NewZone(c), {0}) /\ 0 \in Chunks
<1>1. /\ NewZone(c).class = c /\ NewZone(c).nfree = NMax - 1 /\ NewZone(c).uindex = 1
      /\ NewZone(c).freechunk = <<>>
  BY DEF NewZone
<1>2. NMax - 1 \in 0 .. NMax /\ 1 \in 0 .. NMax /\ <<>> \in Seq(0 .. NMax - 1) /\ NMax - 1 > 0
      /\ 0 \in 0 .. NMax - 1 /\ 1 > 0 /\ NMax - 1 < NMax
  BY HeapAssumption, SMTT(40)
<1>3. NewZone(c) \in ZoneRec
  BY <1>2 DEF ZoneRec, NewZone
<1>4. Range(<<>>) = {} /\ IsInjective(<<>>)
  <2>1. DOMAIN <<>> = {}
    BY SMTT(40)
  <2>2. QED BY <2>1 DEF Range, IsInjective
<1>5. {0} = 0 .. 1 - 1
  BY SMTT(40)
<1>6. Cardinality({0}) = 1
  BY FS_Singleton
<1>7. Sound(NewZone(c), {0})
  BY <1>1, <1>4, <1>5, <1>6 DEF Sound
<1>8. QED BY <1>1, <1>2, <1>3, <1>7 DEF Chunks
-----------------------------------------------------------------------------
(* The page of a chunk is a page of its zone.                              *)
LEMMA PageOfChunk ==
  ASSUME NEW z \in Pages, NEW k \in Chunks
  PROVE  PageOf(<<z, k>>) \in ZonePagesOf(z)
<1>1. z \in Nat /\ k \in Nat /\ k < NMax /\ NMax \in Nat /\ NMax > 0 /\ ZonePages \in Nat /\ ZonePages > 0
  BY HeapAssumption, SMTT(40) DEF Pages, Chunks
<1>2. (k * ZonePages) \div NMax \in Nat /\ (k * ZonePages) \div NMax < ZonePages
  <2>1. PICK m \in Nat : m = k * ZonePages
    BY <1>1, Z3T(40)
  <2>2. m < NMax * ZonePages
    BY <1>1, <2>1, Z3T(40)
  <2>3. m \div NMax \in Nat /\ NMax * (m \div NMax) <= m
    BY <1>1, Z3T(40)
  <2>4. PICK q \in Nat : q = m \div NMax
    BY <2>3
  <2>5. NMax * q < NMax * ZonePages
    BY <1>1, <2>2, <2>3, <2>4, Z3T(40)
  <2>6. q < ZonePages
    BY <1>1, <2>5, Z3T(40)
  <2>7. QED BY <2>1, <2>4, <2>6
<1>3. PICK d \in Nat : d = (k * ZonePages) \div NMax
  BY <1>2
<1>4. PageOf(<<z, k>>) = z + d
  BY <1>3 DEF PageOf
<1>5. d < ZonePages
  BY <1>2, <1>3
<1>6. QED BY <1>1, <1>4, <1>5, SMTT(40) DEF ZonePagesOf

(* A pair determines its parts.                                            *)
LEMMA Tags ==
  /\ "free" # "page" /\ "free" # "zone" /\ "page" # "zone"
  /\ \A s, t, x, y : <<s, x>> = <<t, y>> => s = t /\ x = y
  /\ \A s, x : <<s, x>>[1] = s /\ <<s, x>>[2] = x
OBVIOUS

(* The pages of an extent that gives its first n pages away.               *)
LEMMA SplitFacts ==
  ASSUME NEW x \in ExtentRec, NEW n \in Nat, n > 0, n <= x.n
  PROVE  /\ Extent(x.at, n) \in ExtentRec /\ Extent(x.at, n).n > 0
         /\ PagesOf(Extent(x.at, n)) \subseteq PagesOf(x)
         /\ \A r \in Rest(x, n) :
              /\ r \in ExtentRec /\ r.n > 0 /\ PagesOf(r) \subseteq PagesOf(x)
              /\ PagesOf(Extent(x.at, n)) \cap PagesOf(r) = {}
         /\ \A r, s \in Rest(x, n) : r = s
         /\ \A pg \in PagesOf(x) : pg \in PagesOf(Extent(x.at, n)) \/ \E r \in Rest(x, n) : pg \in PagesOf(r)
<1>1. x.at \in Nat /\ x.n \in Nat
  BY DEF ExtentRec
<1>2. Extent(x.at, n).at = x.at /\ Extent(x.at, n).n = n
  BY DEF Extent
<1>3. Extent(x.at, n) \in ExtentRec
  BY <1>1 DEF Extent, ExtentRec
<1>4. PagesOf(Extent(x.at, n)) = x.at .. x.at + n - 1 /\ PagesOf(x) = x.at .. x.at + x.n - 1
  BY <1>2 DEF PagesOf
<1>5. x.at .. x.at + n - 1 \subseteq x.at .. x.at + x.n - 1
  BY <1>1, SMTT(40)
<1>6. CASE x.n > n
  <2>1. x.at + n \in Nat /\ x.n - n \in Nat /\ x.n - n > 0
    BY <1>1, <1>6, SMTT(40)
  <2>2. PICK r : r = Extent(x.at + n, x.n - n)
    OBVIOUS
  <2>3. r \in ExtentRec /\ r.n = x.n - n /\ r.at = x.at + n
    BY <2>1, <2>2 DEF Extent, ExtentRec
  <2>4. PagesOf(r) = (x.at + n) .. (x.at + n) + (x.n - n) - 1
    BY <2>3 DEF PagesOf
  <2>5. /\ (x.at + n) .. (x.at + n) + (x.n - n) - 1 \subseteq x.at .. x.at + x.n - 1
        /\ (x.at .. x.at + n - 1) \cap ((x.at + n) .. (x.at + n) + (x.n - n) - 1) = {}
        /\ \A pg \in x.at .. x.at + x.n - 1 :
             pg \in x.at .. x.at + n - 1 \/ pg \in (x.at + n) .. (x.at + n) + (x.n - n) - 1
    BY <1>1, <1>6, SMTT(40)
  <2>6. Rest(x, n) = {r}
    BY <1>6, <2>2 DEF Rest
  <2>7. QED BY <1>2, <1>3, <1>4, <1>5, <2>1, <2>3, <2>4, <2>5, <2>6
<1>7. CASE ~(x.n > n)
  <2>1. x.n = n /\ Rest(x, n) = {}
    <3>1. x.n = n
      BY <1>1, <1>7, SMTT(40)
    <3>2. QED BY <1>7, <3>1 DEF Rest
  <2>2. QED BY <1>2, <1>3, <1>4, <1>5, <2>1
<1>8. QED BY <1>6, <1>7

PagesIn(A) == UNION {PagesOf(a[2]) : a \in A}

(* An extent gives its first n pages to a region or a zone.                *)
LEMMA TakeAreas ==
  ASSUME NEW A, NEW B, Apart(A), Inside(A), NEW x \in ExtentRec, <<"free", x>> \in A,
         NEW n \in Nat, n > 0, n <= x.n, NEW t \in {"page", "zone"},
         B = (A \ {<<"free", x>>}) \cup ({<<t, Extent(x.at, n)>>} \cup {<<"free", r>> : r \in Rest(x, n)})
  PROVE  Apart(B) /\ Inside(B) /\ PagesIn(A) \subseteq PagesIn(B)
<1> DEFINE e == Extent(x.at, n)
           N == {<<t, e>>} \cup {<<"free", r>> : r \in Rest(x, n)}
<1>1. /\ e \in ExtentRec /\ e.n > 0 /\ PagesOf(e) \subseteq PagesOf(x)
      /\ \A r \in Rest(x, n) : /\ r \in ExtentRec /\ r.n > 0 /\ PagesOf(r) \subseteq PagesOf(x)
                               /\ PagesOf(e) \cap PagesOf(r) = {}
      /\ \A r, s \in Rest(x, n) : r = s
      /\ \A pg \in PagesOf(x) : pg \in PagesOf(e) \/ \E r \in Rest(x, n) : pg \in PagesOf(r)
  BY SplitFacts
<1> HIDE DEF e
<1>2. Apart(N)
  <2> SUFFICES ASSUME NEW a \in N, NEW b \in N, a # b PROVE PagesOf(a[2]) \cap PagesOf(b[2]) = {}
    BY DEF Apart
  <2>1. \A c \in N : c = <<t, e>> \/ \E r \in Rest(x, n) : c = <<"free", r>>
    OBVIOUS
  <2>2. <<t, e>>[2] = e /\ \A r : <<"free", r>>[2] = r
    BY Tags
  <2>3. CASE a = <<t, e>>
    <3>1. PICK r \in Rest(x, n) : b = <<"free", r>>
      BY <2>1, <2>3
    <3>2. a[2] = e /\ b[2] = r
      BY <2>2, <2>3, <3>1
    <3>3. QED BY <1>1, <3>2
  <2>4. CASE b = <<t, e>>
    <3>1. PICK r \in Rest(x, n) : a = <<"free", r>>
      BY <2>1, <2>4
    <3>2. a[2] = r /\ b[2] = e
      BY <2>2, <2>4, <3>1
    <3>3. PagesOf(e) \cap PagesOf(r) = {}
      BY <1>1
    <3>4. QED BY <3>2, <3>3
  <2>5. CASE a # <<t, e>> /\ b # <<t, e>>
    <3>1. PICK r \in Rest(x, n) : a = <<"free", r>>
      BY <2>1, <2>5
    <3>2. PICK s \in Rest(x, n) : b = <<"free", s>>
      BY <2>1, <2>5
    <3>3. QED BY <1>1, <3>1, <3>2
  <2>6. QED BY <2>3, <2>4, <2>5
<1>3. \A a \in N : a[2].n > 0 /\ PagesOf(a[2]) \subseteq PagesOf(x)
  <2> TAKE a \in N
  <2>a. a = <<t, e>> \/ \E r \in Rest(x, n) : a = <<"free", r>>
    OBVIOUS
  <2>b. <<t, e>>[2] = e /\ \A r : <<"free", r>>[2] = r
    BY Tags
  <2>1. a[2] = e \/ a[2] \in Rest(x, n)
    BY <2>a, <2>b
  <2>2. QED BY <1>1, <2>1
<1>4. Within(N, {<<"free", x>>})
  BY <1>3, Tags DEF Within
<1>5. B \subseteq (A \ {<<"free", x>>}) \cup N
  BY DEF e
<1>6. Apart(B) /\ Inside(B)
  <2> HIDE DEF N
  <2>1. {<<"free", x>>} \subseteq A
    OBVIOUS
  <2>2. QED BY <1>2, <1>4, <1>5, <2>1, Regroup
<1>7. ASSUME NEW a \in A, NEW pg \in PagesOf(a[2]) PROVE \E b \in B : pg \in PagesOf(b[2])
  <2>1. CASE a = <<"free", x>>
    <3>1. pg \in PagesOf(x)
      BY <2>1, Tags
    <3>2. <<t, e>> \in B /\ \A r \in Rest(x, n) : <<"free", r>> \in B
      BY DEF e
    <3>3. <<t, e>>[2] = e /\ \A r : <<"free", r>>[2] = r
      BY Tags
    <3>4. CASE pg \in PagesOf(e)
      BY <3>2, <3>3, <3>4
    <3>5. CASE \E r \in Rest(x, n) : pg \in PagesOf(r)
      BY <3>2, <3>3, <3>5
    <3>6. QED BY <1>1, <3>1, <3>4, <3>5
  <2>2. CASE a # <<"free", x>>
    BY <2>2
  <2>3. QED BY <2>1, <2>2
<1>8. PagesIn(A) \subseteq PagesIn(B)
  <2>1. \A pg \in PagesIn(A) : \E a \in A : pg \in PagesOf(a[2])
    BY DEF PagesIn
  <2>2. \A pg, b : b \in B /\ pg \in PagesOf(b[2]) => pg \in PagesIn(B)
    BY DEF PagesIn
  <2>3. QED BY <1>7, <2>1, <2>2
<1>9. QED BY <1>6, <1>8

(* The pages of a region or a zone become part of an extent.               *)
Gone(t, x, R) == {<<t, x>>} \cup {<<"free", r>> : r \in R}
(* What page_free leaves of the areas when it joins pages or links them.   *)
LEMMA JoinAreas ==
  ASSUME NEW A, NEW B, Apart(A), Inside(A), NEW x \in ExtentRec, NEW t \in {"page", "zone"},
         <<t, x>> \in A, NEW l, NEW R, NEW new, Joins(l, R, new, x),
         Gone(t, x, R) \subseteq A, B = (A \ Gone(t, x, R)) \cup {<<"free", new>>}
  PROVE  Apart(B) /\ Inside(B) /\ PagesIn(A) \subseteq PagesIn(B)
<1> DEFINE G == Gone(t, x, R)
           N == {<<"free", new>>}
<1>1. Apart(N)
  BY DEF Apart
<1>2. Within(N, G)
  <2>1. <<"free", new>>[2] = new /\ new.n > 0 /\ new \in ExtentRec
    BY Tags DEF Joins
  <2>2. \A pg \in PagesOf(new) : pg \in Int
    BY <2>1, SMTT(40) DEF PagesOf, ExtentRec
  <2>3. ASSUME NEW pg \in PagesOf(new) PROVE \E g \in G : pg \in PagesOf(g[2])
    <3>1. pg \in PagesOf(x) \/ \E r \in R : pg \in PagesOf(r)
      BY <2>2 DEF Joins
    <3>2. <<t, x>>[2] = x /\ \A r : <<"free", r>>[2] = r
      BY Tags
    <3>3. QED BY <3>1, <3>2 DEF Gone
  <2>4. QED BY <2>1, <2>3 DEF Within
<1>3. G \subseteq A /\ B \subseteq (A \ G) \cup N
  OBVIOUS
<1>4. Apart(B) /\ Inside(B)
  <2> HIDE DEF G, N
  <2>1. QED BY <1>1, <1>2, <1>3, Regroup
<1>5. ASSUME NEW a \in A, NEW pg \in PagesOf(a[2]) PROVE \E b \in B : pg \in PagesOf(b[2])
  <2>1. CASE a \in G
    <3>a. a = <<t, x>> \/ \E r \in R : a = <<"free", r>>
      BY <2>1 DEF Gone
    <3>b. <<t, x>>[2] = x /\ \A r : <<"free", r>>[2] = r
      BY Tags
    <3>1. a[2] = x \/ a[2] \in R
      BY <3>a, <3>b
    <3>2. pg \in Int
      BY <1>5, SMTT(40) DEF Inside
    <3>3. pg \in PagesOf(new)
      BY <3>1, <3>2 DEF Joins
    <3>4. <<"free", new>> \in B /\ <<"free", new>>[2] = new
      BY Tags
    <3>5. QED BY <3>3, <3>4
  <2>2. CASE a \notin G
    BY <2>2
  <2>3. QED BY <2>1, <2>2
<1>6. PagesIn(A) \subseteq PagesIn(B)
  <2>1. \A pg \in PagesIn(A) : \E a \in A : pg \in PagesOf(a[2])
    BY DEF PagesIn
  <2>2. \A pg, b : b \in B /\ pg \in PagesOf(b[2]) => pg \in PagesIn(B)
    BY DEF PagesIn
  <2>3. QED BY <1>5, <2>1, <2>2
<1>7. QED BY <1>4, <1>6
-----------------------------------------------------------------------------
(* An area is free, a region or a zone.                                    *)
LEMMA AreaIs ==
  \A a : a \in Areas <=> \/ \E x \in Range(list) : a = <<"free", x>>
                         \/ \E x \in regions : a = <<"page", x>>
                         \/ \E z \in Zones : a = <<"zone", Extent(z, ZonePages)>>
BY DEF Areas

(* What the invariant says of the free list, of a zone and of a region.    *)
LEMMA InvFree ==
  ASSUME HeapInv
  PROVE  FreeListOK /\ \A x \in Range(list) : x \in ExtentRec
<1>1. list \in Seq(ExtentRec) /\ IsInjective(list)
  BY DEF HeapInv, Types
<1>2. \A x \in Range(list) : x \in ExtentRec
  BY <1>1, SMTT(40) DEF Range
<1>3. \A x : <<"free", x>>[2] = x
  BY Tags
<1>4. \A x \in Range(list) : <<"free", x>> \in Areas
  BY AreaIs
<1>5. \A x \in Range(list) : x.n > 0 /\ PagesOf(x) \subseteq 1 .. NPages - 1
  BY <1>3, <1>4 DEF HeapInv, Inside
<1>6. ASSUME NEW x \in Range(list), NEW y \in Range(list), x # y
      PROVE PagesOf(x) \cap PagesOf(y) = {}
  <2>1. <<"free", x>> # <<"free", y>>
    BY <1>6, Tags
  <2>2. PagesOf(<<"free", x>>[2]) \cap PagesOf(<<"free", y>>[2]) = {}
    BY <1>4, <2>1 DEF HeapInv, Apart
  <2>3. QED BY <1>3, <2>2
<1>7. QED BY <1>1, <1>2, <1>5, <1>6 DEF FreeListOK

(* A zone lies in the heap and is one of the areas.                        *)
LEMMA InvZone ==
  ASSUME HeapInv, NEW z \in Zones
  PROVE  /\ z \in Pages /\ Extent(z, ZonePages) \in ExtentRec
         /\ <<"zone", Extent(z, ZonePages)>> \in Areas
         /\ PagesOf(Extent(z, ZonePages)) = ZonePagesOf(z)
         /\ z \in ZonePagesOf(z) /\ ZonePagesOf(z) \subseteq Pages
<1>1. z \in Pages
  BY DEF Zones
<1>2. ZonePages \in Nat /\ ZonePages > 0 /\ z \in Nat
  BY <1>1, HeapAssumption, SMTT(40) DEF Pages
<1>3. Extent(z, ZonePages) \in ExtentRec
  BY <1>2 DEF Extent, ExtentRec
<1>4. PagesOf(Extent(z, ZonePages)) = ZonePagesOf(z)
  BY DEF PagesOf, Extent, ZonePagesOf
<1>5. <<"zone", Extent(z, ZonePages)>> \in Areas
  BY AreaIs
<1>6. ZonePagesOf(z) \subseteq 1 .. NPages - 1
  <2>1. <<"zone", Extent(z, ZonePages)>>[2] = Extent(z, ZonePages)
    BY Tags
  <2>2. QED BY <1>4, <1>5, <2>1 DEF HeapInv, Inside
<1>7. 1 .. NPages - 1 \subseteq Pages
  BY HeapAssumption, SMTT(40) DEF Pages
<1>8. z \in ZonePagesOf(z)
  BY <1>2, SMTT(40) DEF ZonePagesOf
<1>9. QED BY <1>1, <1>3, <1>4, <1>5, <1>6, <1>7, <1>8

(* So does a region, and so is it.                                         *)
LEMMA InvRegion ==
  ASSUME HeapInv, NEW x \in regions
  PROVE  /\ x \in ExtentRec /\ x.n > 0 /\ <<"page", x>> \in Areas
         /\ x.at \in PagesOf(x) /\ PagesOf(x) \subseteq 1 .. NPages - 1 /\ x.at \in Pages
<1>1. x \in ExtentRec
  BY DEF HeapInv, Types
<1>2. <<"page", x>> \in Areas /\ <<"page", x>>[2] = x
  BY AreaIs, Tags
<1>3. x.n > 0 /\ PagesOf(x) \subseteq 1 .. NPages - 1
  BY <1>2 DEF HeapInv, Inside
<1>4. x.at \in PagesOf(x)
  BY <1>1, <1>3, SMTT(40) DEF PagesOf, ExtentRec
<1>5. 1 .. NPages - 1 \subseteq Pages
  BY HeapAssumption, SMTT(40) DEF Pages
<1>6. QED BY <1>1, <1>2, <1>3, <1>4, <1>5

(* Areas of different use share no page.                                   *)
LEMMA InvApart ==
  ASSUME HeapInv, NEW s, NEW t, NEW x, NEW y, <<s, x>> \in Areas, <<t, y>> \in Areas,
         s # t \/ x # y
  PROVE  PagesOf(x) \cap PagesOf(y) = {}
<1>1. <<s, x>> # <<t, y>> /\ <<s, x>>[2] = x /\ <<t, y>>[2] = y
  BY Tags
<1>2. QED BY <1>1 DEF HeapInv, Apart

(* A zone without chunks in use, which malloc sets up anew.                *)
LEMMA UnusedZone ==
  ASSUME HeapInv, NEW z \in Pages, z \in Zones => z \in Range(spare)
  PROVE  Used(z) = {}
<1>1. CASE z \in Zones
  <2>1. zone[z].nfree = NMax
    BY <1>1 DEF HeapInv, ListsExact
  <2>2. zone[z].nfree = NMax - Cardinality(Used(z))
    BY <1>1 DEF HeapInv, ChunksOnce, Used, Chunks
  <2>3. Used(z) \in SUBSET Chunks
    BY DEF Used
  <2>4. Cardinality(Used(z)) \in Nat /\ (Cardinality(Used(z)) = 0 <=> Used(z) = {})
    BY <2>3, UsedCount
  <2>5. Cardinality(Used(z)) = 0
    BY <2>1, <2>2, <2>4, HeapAssumption, SMTT(40)
  <2>6. QED BY <2>4, <2>5
<1>2. CASE z \notin Zones
  <2>1. \A k : <<z, k>>[1] = z
    BY Tags
  <2>2. QED BY <1>2, <2>1 DEF HeapInv, ChunksInZones, Used
<1>3. QED BY <1>1, <1>2

(* One zone gets a new record.                                             *)
LEMMA ZoneSet ==
  ASSUME zone \in [Pages -> ZoneRec], NEW z \in Pages, NEW r \in ZoneRec, r.uindex > 0,
         zone' = [zone EXCEPT ![z] = r]
  PROVE  /\ zone' \in [Pages -> ZoneRec] /\ Zones' = Zones \cup {z} /\ zone'[z] = r
         /\ \A y \in Pages : y # z => zone'[y] = zone[y]
<1>1. /\ zone' \in [Pages -> ZoneRec] /\ zone'[z] = r
      /\ \A y \in Pages : y # z => zone'[y] = zone[y]
  OBVIOUS
<1>2. r # NoZone
  <2>1. NoZone.uindex = 0 /\ ~(0 > 0)
    BY SMTT(40) DEF NoZone
  <2>2. QED BY <2>1
<1>3. Zones' = Zones \cup {z}
  <2>1. Zones' = {pg \in Pages : zone'[pg] # NoZone}
    BY DEF Zones
  <2>2. QED BY <1>1, <1>2, <2>1 DEF Zones
<1>4. QED BY <1>1, <1>3

(* What malloc and free change of the zones: the conjuncts of the          *)
(* invariant that do not speak of pages.                                   *)
ZonesOK ==
  /\ zone \in [Pages -> ZoneRec] /\ array \in [Classes -> Seq(Pages)] /\ spare \in Seq(Pages)
  /\ Len(spare) <= FreeLimit /\ chunks \in SUBSET (Pages \X (0 .. NMax - 1))
  /\ ZonesTouched /\ ChunksInZones /\ SpareInZones /\ ChunksOnce /\ ListsExact

(* ChunksOnce, zone by zone.                                               *)
LEMMA OnceIs ==
  ChunksOnce <=> \A z \in Zones : Sound(zone[z], Used(z))
BY DEF ChunksOnce, Used, Sound, Chunks

(* A zone of ZONE_FREE or of new pages is set up for a class.              *)
LEMMA UseZoneKeeps ==
  ASSUME HeapInv, NEW z \in Pages, NEW c \in Classes, array[c] = <<>>, UseZone(z, c),
         z \in Zones => z \in Range(spare),
         spare' \in Seq(Pages), Len(spare') <= FreeLimit, IsInjective(spare'),
         Range(spare') = Range(spare) \ {z}
  PROVE  ZonesOK' /\ Zones' = Zones \cup {z}
<1>1. /\ NewZone(c) \in ZoneRec /\ NewZone(c).class = c /\ NewZone(c).nfree = NMax - 1
      /\ NewZone(c).uindex > 0 /\ NMax - 1 > 0 /\ NMax - 1 < NMax
      /\ Sound(NewZone(c), {0}) /\ 0 \in Chunks
  BY NewFacts
<1>2. /\ zone \in [Pages -> ZoneRec] /\ array \in [Classes -> Seq(Pages)]
      /\ chunks \in SUBSET (Pages \X (0 .. NMax - 1))
  BY DEF HeapInv, Types
<1>3. /\ zone' = [zone EXCEPT ![z] = NewZone(c)] /\ array' = [array EXCEPT ![c] = <<z>>]
      /\ chunks' = chunks \cup {<<z, 0>>}
  BY DEF UseZone
<1>4. /\ zone' \in [Pages -> ZoneRec] /\ Zones' = Zones \cup {z} /\ zone'[z] = NewZone(c)
      /\ \A y \in Pages : y # z => zone'[y] = zone[y]
  BY <1>1, <1>2, <1>3, ZoneSet
<1>5. \A y \in Zones' : y \in Pages
  BY <1>4 DEF Zones
<1>6. /\ array' \in [Classes -> Seq(Pages)] /\ array'[c] = <<z>>
      /\ \A d \in Classes : d # c => array'[d] = array[d]
  <2>1. <<z>> \in Seq(Pages)
    BY SMTT(40)
  <2>2. QED BY <1>2, <1>3, <2>1
<1>7. chunks' \in SUBSET (Pages \X (0 .. NMax - 1))
  <2>1. <<z, 0>> \in Pages \X (0 .. NMax - 1)
    BY <1>1, SMTT(40) DEF Chunks
  <2>2. QED BY <1>2, <1>3, <2>1
<1>8. ZonesTouched'
  <2> SUFFICES ASSUME NEW y \in Zones' PROVE zone'[y].class \in Classes /\ zone'[y].uindex > 0
    BY DEF ZonesTouched
  <2>1. CASE y = z
    BY <1>1, <1>4, <2>1
  <2>2. CASE y # z
    BY <1>4, <1>5, <2>2 DEF HeapInv, ZonesTouched
  <2>3. QED BY <2>1, <2>2
<1>9. ChunksInZones'
  <2> SUFFICES ASSUME NEW h \in chunks' PROVE h[1] \in Zones'
    BY DEF ChunksInZones
  <2>1. <<z, 0>>[1] = z
    BY Tags
  <2>2. QED BY <1>3, <1>4, <2>1 DEF HeapInv, ChunksInZones
<1>10. SpareInZones'
  BY <1>4 DEF HeapInv, SpareInZones
<1>11. ChunksOnce'
  <2> SUFFICES ASSUME NEW y \in Zones' PROVE Sound(zone'[y], Used(y)')
    BY DEF ChunksOnce, Used, Sound, Chunks
  <2>1. Used(y)' = {k \in Chunks : <<y, k>> \in chunks \cup {<<z, 0>>}}
    BY <1>3 DEF Used, Chunks
  <2>2. CASE y = z
    <3>1. Used(z) = {}
      BY UnusedZone
    <3>2. \A k : <<z, k>> = <<z, 0>> <=> k = 0
      BY Tags
    <3>3. Used(y)' = {0}
      BY <1>1, <2>1, <2>2, <3>1, <3>2 DEF Used
    <3>4. QED BY <1>1, <1>4, <2>2, <3>3
  <2>3. CASE y # z
    <3>1. \A k : <<y, k>> # <<z, 0>>
      BY <2>3, Tags
    <3>2. Used(y)' = Used(y)
      BY <2>1, <3>1 DEF Used
    <3>3. y \in Zones /\ zone'[y] = zone[y]
      BY <1>4, <1>5, <2>3
    <3>4. QED BY <3>2, <3>3, OnceIs DEF HeapInv
  <2>4. QED BY <2>2, <2>3
<1>12. ListsExact'
  <2>1. \A y \in Range(spare') : zone'[y].nfree = NMax
    BY <1>4 DEF HeapInv, ListsExact, SpareInZones, Zones
  <2>2. ASSUME NEW d \in Classes
        PROVE /\ IsInjective(array'[d])
              /\ Range(array'[d]) = {y \in Zones' \ Range(spare') : zone'[y].class = d /\ zone'[y].nfree > 0}
    <3>1. CASE d = c
      <4>1. Range(<<z>>) = {z} /\ IsInjective(<<z>>)
        <5>1. DOMAIN <<z>> = {1} /\ <<z>>[1] = z
          BY SMTT(40)
        <5>2. QED BY <5>1 DEF Range, IsInjective
      <4>2. Range(array[c]) = {}
        <5>1. DOMAIN <<>> = {}
          BY SMTT(40)
        <5>2. QED BY <5>1 DEF Range
      <4>3. ASSUME NEW y \in Zones' \ Range(spare'), y # z, zone'[y].class = c, zone'[y].nfree > 0
            PROVE FALSE
        <5>1. y \in Zones \ Range(spare) /\ zone'[y] = zone[y]
          BY <1>4, <1>5, <4>3
        <5>2. y \in Range(array[c])
          BY <4>3, <5>1 DEF HeapInv, ListsExact
        <5>3. QED BY <4>2, <5>2
      <4>4. z \in Zones' \ Range(spare') /\ zone'[z].class = c /\ zone'[z].nfree > 0
        BY <1>1, <1>4
      <4>5. QED BY <1>6, <3>1, <4>1, <4>3, <4>4
    <3>2. CASE d # c
      <4>1. /\ array'[d] = array[d] /\ IsInjective(array[d])
            /\ Range(array[d]) = {y \in Zones \ Range(spare) : zone[y].class = d /\ zone[y].nfree > 0}
        BY <1>6, <3>2 DEF HeapInv, ListsExact
      <4>2. z \notin Range(array[d])
        BY <4>1
      <4>3. zone'[z].class # d
        BY <1>1, <1>4, <3>2
      <4>4. ASSUME NEW y, y # z
            PROVE /\ y \in Zones \ Range(spare) <=> y \in Zones' \ Range(spare')
                  /\ y \in Zones' => zone'[y] = zone[y]
        BY <1>4, <1>5, <4>4
      <4>5. ASSUME NEW y
            PROVE y \in Range(array[d]) <=>
                    y \in {v \in Zones' \ Range(spare') : zone'[v].class = d /\ zone'[v].nfree > 0}
        <5>1. CASE y = z
          BY <4>2, <4>3, <5>1
        <5>2. CASE y # z
          BY <4>1, <4>4, <5>2
        <5>3. QED BY <5>1, <5>2
      <4>6. QED BY <4>1, <4>5
    <3>3. QED BY <3>1, <3>2
  <2>3. QED BY <2>1, <2>2 DEF ListsExact
<1>13. QED BY <1>4, <1>6, <1>7, <1>8, <1>9, <1>10, <1>11, <1>12 DEF ZonesOK

(* malloc from a zone of the list.                                         *)
LEMMA MallocChunkKeeps ==
  ASSUME HeapInv, NEW c \in Classes, MallocChunk(c)
  PROVE  ZonesOK' /\ Zones' = Zones
<1>1. /\ zone \in [Pages -> ZoneRec] /\ array \in [Classes -> Seq(Pages)]
      /\ chunks \in SUBSET (Pages \X (0 .. NMax - 1)) /\ spare \in Seq(Pages)
      /\ Len(spare) <= FreeLimit /\ array[c] \in Seq(Pages)
  BY DEF HeapInv, Types
<1>2. /\ IsInjective(array[c])
      /\ Range(array[c]) = {z \in Zones \ Range(spare) : zone[z].class = c /\ zone[z].nfree > 0}
  BY DEF HeapInv, ListsExact
<1>3. PICK s \in Seq(Pages) : s = array[c]
  BY <1>1
<1>4. s # <<>> /\ IsInjective(s)
  BY <1>2, <1>3 DEF MallocChunk
<1>5. /\ Head(s) \in Pages /\ Head(s) \in Range(s)
      /\ Tail(s) \in Seq(Pages) /\ IsInjective(Tail(s))
      /\ Range(Tail(s)) = Range(s) \ {Head(s)} /\ Len(Tail(s)) = Len(s) - 1
  BY <1>4, PopFacts
<1>6. PICK z \in Pages : z = Head(s)
  BY <1>5
<1>7. z \in Zones /\ z \notin Range(spare) /\ zone[z].class = c /\ zone[z].nfree > 0
  BY <1>2, <1>3, <1>5, <1>6
<1>8. PICK r \in ZoneRec : r = zone[z]
  BY <1>1
<1>9. r.uindex > 0 /\ r.class = c /\ r.nfree > 0
  BY <1>7, <1>8 DEF HeapInv, ZonesTouched
<1>10. PICK U \in SUBSET Chunks : U = Used(z)
  BY DEF Used
<1>11. Sound(r, U)
  BY <1>7, <1>8, <1>10, OnceIs DEF HeapInv
<1>12. /\ NextChunk(r) \in Chunks \ U /\ Take(r) \in ZoneRec
       /\ Take(r).class = r.class /\ Take(r).nfree = r.nfree - 1 /\ Take(r).uindex > 0
       /\ Sound(Take(r), U \cup {NextChunk(r)})
  BY <1>9, <1>11, TakeFacts
<1>13. /\ zone' = [zone EXCEPT ![z] = Take(r)]
       /\ array' = [array EXCEPT ![c] = IF r.nfree = 1 THEN Tail(s) ELSE s]
       /\ chunks' = chunks \cup {<<z, NextChunk(r)>>} /\ spare' = spare
  BY <1>3, <1>6, <1>8 DEF MallocChunk
<1>14. /\ zone' \in [Pages -> ZoneRec] /\ Zones' = Zones \cup {z} /\ zone'[z] = Take(r)
       /\ \A y \in Pages : y # z => zone'[y] = zone[y]
  BY <1>1, <1>12, <1>13, ZoneSet
<1>15. Zones' = Zones /\ \A y \in Zones : y \in Pages
  BY <1>7, <1>14 DEF Zones
<1>16. /\ array' \in [Classes -> Seq(Pages)] /\ array'[c] = IF r.nfree = 1 THEN Tail(s) ELSE s
       /\ \A d \in Classes : d # c => array'[d] = array[d]
  BY <1>1, <1>5, <1>13
<1>17. chunks' \in SUBSET (Pages \X (0 .. NMax - 1))
  <2>1. <<z, NextChunk(r)>> \in Pages \X (0 .. NMax - 1)
    BY <1>12, SMTT(40) DEF Chunks
  <2>2. QED BY <1>1, <1>13, <2>1
<1>18. ZonesTouched'
  <2> SUFFICES ASSUME NEW y \in Zones' PROVE zone'[y].class \in Classes /\ zone'[y].uindex > 0
    BY DEF ZonesTouched
  <2>1. CASE y = z
    BY <1>9, <1>12, <1>14, <2>1
  <2>2. CASE y # z
    BY <1>14, <1>15, <2>2 DEF HeapInv, ZonesTouched
  <2>3. QED BY <2>1, <2>2
<1>19. ChunksInZones'
  <2> SUFFICES ASSUME NEW h \in chunks' PROVE h[1] \in Zones'
    BY DEF ChunksInZones
  <2>1. <<z, NextChunk(r)>>[1] = z
    BY Tags
  <2>2. QED BY <1>13, <1>14, <2>1 DEF HeapInv, ChunksInZones
<1>20. SpareInZones'
  BY <1>13, <1>15 DEF HeapInv, SpareInZones
<1>21. ChunksOnce'
  <2> SUFFICES ASSUME NEW y \in Zones' PROVE Sound(zone'[y], Used(y)')
    BY DEF ChunksOnce, Used, Sound, Chunks
  <2>1. Used(y)' = {k \in Chunks : <<y, k>> \in chunks \cup {<<z, NextChunk(r)>>}}
    BY <1>13 DEF Used, Chunks
  <2>2. CASE y = z
    <3>1. \A k : <<z, k>> = <<z, NextChunk(r)>> <=> k = NextChunk(r)
      BY Tags
    <3>2. Used(y)' = U \cup {NextChunk(r)}
      BY <1>10, <1>12, <2>1, <2>2, <3>1 DEF Used
    <3>3. QED BY <1>12, <1>14, <2>2, <3>2
  <2>3. CASE y # z
    <3>1. \A k : <<y, k>> # <<z, NextChunk(r)>>
      BY <2>3, Tags
    <3>2. Used(y)' = Used(y)
      BY <2>1, <3>1 DEF Used
    <3>3. y \in Zones /\ zone'[y] = zone[y]
      BY <1>14, <1>15, <2>3
    <3>4. QED BY <3>2, <3>3, OnceIs DEF HeapInv
  <2>4. QED BY <2>2, <2>3
<1>22. ListsExact'
  <2>1. IsInjective(spare') /\ \A y \in Range(spare') : zone'[y].nfree = NMax
    BY <1>7, <1>13, <1>14 DEF HeapInv, ListsExact, SpareInZones, Zones
  <2>2. ASSUME NEW d \in Classes
        PROVE /\ IsInjective(array'[d])
              /\ Range(array'[d]) = {y \in Zones' \ Range(spare') : zone'[y].class = d /\ zone'[y].nfree > 0}
    <3>1. \A y \in Zones : y # z => zone'[y] = zone[y]
      BY <1>14, <1>15
    <3>2. CASE d = c /\ r.nfree = 1
      <4>1. ~(zone'[z].nfree > 0)
        BY <1>12, <1>14, <3>2, SMTT(40)
      <4>2. array'[d] = Tail(s) /\ Range(array'[d]) = Range(array[c]) \ {z}
        BY <1>3, <1>5, <1>6, <1>16, <3>2
      <4>3. ASSUME NEW y
            PROVE y \in Range(array[c]) \ {z} <=>
                    y \in {v \in Zones' \ Range(spare') : zone'[v].class = d /\ zone'[v].nfree > 0}
        <5>1. CASE y = z
          BY <4>1, <5>1
        <5>2. CASE y # z
          BY <1>2, <1>13, <1>15, <3>1, <3>2, <5>2
        <5>3. QED BY <5>1, <5>2
      <4>4. QED BY <1>5, <4>2, <4>3
    <3>3. CASE d = c /\ r.nfree # 1
      <4>1. zone'[z].nfree > 0 /\ zone'[z].class = c
        <5>1. r.nfree \in 0 .. NMax
          BY DEF ZoneRec
        <5>2. r.nfree - 1 > 0
          BY <1>9, <3>3, <5>1, HeapAssumption, SMTT(40)
        <5>3. QED BY <1>9, <1>12, <1>14, <5>2
      <4>2. array'[d] = array[c]
        BY <1>3, <1>16, <3>3
      <4>3. ASSUME NEW y
            PROVE y \in Range(array[c]) <=>
                    y \in {v \in Zones' \ Range(spare') : zone'[v].class = d /\ zone'[v].nfree > 0}
        <5>1. CASE y = z
          BY <1>2, <1>7, <1>13, <1>15, <3>3, <4>1, <5>1
        <5>2. CASE y # z
          BY <1>2, <1>13, <1>15, <3>1, <3>3, <5>2
        <5>3. QED BY <5>1, <5>2
      <4>4. QED BY <1>2, <4>2, <4>3
    <3>4. CASE d # c
      <4>1. /\ array'[d] = array[d] /\ IsInjective(array[d])
            /\ Range(array[d]) = {y \in Zones \ Range(spare) : zone[y].class = d /\ zone[y].nfree > 0}
        BY <1>16, <3>4 DEF HeapInv, ListsExact
      <4>2. zone'[z].class # d /\ zone[z].class # d
        BY <1>7, <1>9, <1>12, <1>14, <3>4
      <4>3. QED BY <1>13, <1>15, <3>1, <4>1, <4>2
    <3>5. QED BY <3>2, <3>3, <3>4
  <2>3. QED BY <2>1, <2>2 DEF ListsExact
<1>23. QED
  BY <1>1, <1>13, <1>14, <1>15, <1>16, <1>17, <1>18, <1>19, <1>20, <1>21, <1>22 DEF ZonesOK

(* What free knows of a chunk in use: its zone.                            *)
LEMMA ChunkHome ==
  ASSUME ZonesOK, ZonesMarked, NEW chunk \in chunks
  PROVE  \E z \in Zones, k \in Chunks :
           /\ chunk = <<z, k>> /\ chunk[1] = z /\ chunk[2] = k /\ k \in Used(z)
           /\ usage[PageOf(chunk)].use = "zone" /\ PageOf(chunk) - usage[PageOf(chunk)].k = z
<1>1. chunk \in Pages \X Chunks
  BY DEF ZonesOK, Chunks
<1>2. PICK z \in Pages, k \in Chunks : chunk = <<z, k>>
  BY <1>1, SMTT(40)
<1>3. chunk[1] = z /\ chunk[2] = k
  BY <1>2, Tags
<1>4. z \in Zones
  BY <1>3 DEF ZonesOK, ChunksInZones
<1>5. PICK pg \in ZonePagesOf(z) : pg = PageOf(chunk)
  BY <1>2, PageOfChunk
<1>6. usage[pg] = [use |-> "zone", k |-> pg - z]
  BY <1>4 DEF ZonesMarked
<1>7. usage[pg].use = "zone" /\ usage[pg].k = pg - z
  BY <1>6, SMTT(40)
<1>8. pg - (pg - z) = z
  <2>1. z \in Int /\ ZonePages \in Int
    BY HeapAssumption, SMTT(40) DEF Pages
  <2>2. pg \in Int
    BY <2>1, SMTT(40) DEF ZonePagesOf
  <2>3. QED BY <2>1, <2>2, SMTT(40)
<1>9. k \in Used(z)
  BY <1>2 DEF Used
<1>10. QED BY <1>2, <1>3, <1>4, <1>5, <1>7, <1>8, <1>9

(* free of the chunk k of the zone z, with the class c and the record r; E *)
(* tells whether the zone leaves its list.                                 *)
Freed(z, k, c, r, E, word) ==
  /\ chunks' = chunks \ {<<z, k>>}
  /\ array' = [array EXCEPT ![c] = IF r.nfree + 1 = 1 THEN <<z>> \o array[c]
                                   ELSE IF E THEN RemoveNode(array[c], z) ELSE array[c]]
  /\ spare' = IF E /\ Keep THEN <<z>> \o spare ELSE spare
  /\ zone' = [zone EXCEPT ![z] = IF E /\ ~Keep THEN NoZone ELSE Give(r, k)]
  /\ regions' = regions
  /\ IF E /\ ~Keep
     THEN /\ list' = PageFree(z, ZonePages, word) /\ misled' = Misleads(z, ZonePages, word)
          /\ usage' = [pg \in Pages |-> IF pg \in ZonePagesOf(z) THEN FreePage ELSE usage[pg]]
     ELSE list' = list /\ usage' = usage

(* The zone that free computes from the usage array is the chunk's own.    *)
LEMMA FreeChunkIs ==
  ASSUME HeapInv, NEW chunk \in chunks, NEW word, FreeChunk(chunk, word)
  PROVE  \E z \in Zones, k \in Chunks, E \in BOOLEAN :
           /\ k \in Used(z) /\ Freed(z, k, zone[z].class, zone[z], E, word)
           /\ E => zone[z].nfree + 1 # 1 /\ zone[z].nfree + 1 = NMax
<1>1. PICK z \in Zones, k \in Chunks :
           /\ chunk = <<z, k>> /\ chunk[1] = z /\ chunk[2] = k /\ k \in Used(z)
           /\ usage[PageOf(chunk)].use = "zone" /\ PageOf(chunk) - usage[PageOf(chunk)].k = z
  BY ChunkHome DEF HeapInv, Types, ZonesOK
<1>2. zone[z] \in ZoneRec
  BY DEF HeapInv, Types, Zones
<1>3. Give(zone[z], k).nfree = zone[z].nfree + 1
  BY <1>2, SMTT(40) DEF ZoneRec, Give
<1>4. PICK E \in BOOLEAN : E = (/\ zone[z].nfree + 1 # 1 /\ zone[z].nfree + 1 = NMax
                                /\ Len(array[zone[z].class]) > 1)
  OBVIOUS
<1>5. Freed(z, k, zone[z].class, zone[z], E, word)
  BY <1>1, <1>3, <1>4 DEF FreeChunk, Freed, ZonePagesOf
<1>6. QED BY <1>1, <1>4, <1>5

(* What the lists say of a zone with a chunk in use.                       *)
LEMMA BusyZone ==
  ASSUME HeapInv, NEW z \in Zones, NEW k \in Used(z)
  PROVE  /\ z \in Pages /\ zone[z] \in ZoneRec /\ zone[z].class \in Classes /\ z \notin Range(spare)
         /\ Used(z) \in SUBSET Chunks /\ array[zone[z].class] \in Seq(Pages)
         /\ IsInjective(array[zone[z].class])
         /\ z \in Range(array[zone[z].class]) <=> zone[z].nfree > 0
         /\ zone[z].nfree \in 0 .. NMax /\ zone[z].nfree < NMax /\ Give(zone[z], k) \in ZoneRec
         /\ Give(zone[z], k).class = zone[z].class /\ Give(zone[z], k).nfree = zone[z].nfree + 1
         /\ Give(zone[z], k).uindex > 0 /\ Sound(Give(zone[z], k), Used(z) \ {k})
         /\ zone[z].nfree + 1 = NMax => Used(z) \ {k} = {}
<1>1. z \in Pages /\ zone[z] \in ZoneRec /\ zone[z].class \in Classes /\ zone[z].uindex > 0
  BY DEF HeapInv, Types, Zones, ZonesTouched
<1>2. PICK r \in ZoneRec : r = zone[z]
  BY <1>1
<1>3. PICK U \in SUBSET Chunks : U = Used(z)
  BY DEF Used
<1>4. Sound(r, U) /\ k \in U /\ r.uindex > 0
  BY <1>1, <1>2, <1>3, OnceIs DEF HeapInv
<1>5. /\ r.nfree < NMax /\ Give(r, k) \in ZoneRec
      /\ Give(r, k).class = r.class /\ Give(r, k).nfree = r.nfree + 1
      /\ Give(r, k).uindex > 0 /\ Sound(Give(r, k), U \ {k})
      /\ r.nfree + 1 = NMax => U \ {k} = {}
  BY <1>4, GiveFacts
<1>6. r.nfree \in 0 .. NMax
  BY DEF ZoneRec
<1>7. zone[z].nfree # NMax
  BY <1>2, <1>5, <1>6, HeapAssumption, SMTT(40)
<1>8. z \notin Range(spare)
  BY <1>7 DEF HeapInv, ListsExact
<1>9. PICK c \in Classes : c = zone[z].class
  BY <1>1
<1>10. array[c] \in Seq(Pages) /\ IsInjective(array[c])
       /\ (z \in Range(array[c]) <=> zone[z].nfree > 0)
  BY <1>8, <1>9 DEF HeapInv, Types, ListsExact
<1>11. QED BY <1>1, <1>2, <1>3, <1>5, <1>6, <1>8, <1>9, <1>10

(* free changes the chunks in use of one zone only.                        *)
LEMMA UsedAfter ==
  ASSUME NEW z, NEW k, chunks' = chunks \ {<<z, k>>}
  PROVE  Used(z)' = Used(z) \ {k} /\ \A y : y # z => Used(y)' = Used(y)
<1>1. \A y : Used(y)' = {j \in Chunks : <<y, j>> \in chunks \ {<<z, k>>}}
  BY DEF Used, Chunks
<1>2. \A y, j : <<y, j>> = <<z, k>> <=> y = z /\ j = k
  BY Tags
<1>3. Used(z)' = Used(z) \ {k}
  BY <1>1, <1>2 DEF Used
<1>4. ASSUME NEW y, y # z PROVE Used(y)' = Used(y)
  BY <1>1, <1>2, <1>4 DEF Used
<1>5. QED BY <1>3, <1>4

(* The zone stays.                                                         *)
LEMMA FreedStays ==
  ASSUME HeapInv, NEW z \in Zones, NEW k \in Used(z), NEW E \in BOOLEAN, NEW word,
         Freed(z, k, zone[z].class, zone[z], E, word), ~(E /\ ~Keep),
         E => zone[z].nfree + 1 # 1 /\ zone[z].nfree + 1 = NMax
  PROVE  ZonesOK' /\ Zones' = Zones
<1>1. /\ z \in Pages /\ zone[z] \in ZoneRec /\ zone[z].class \in Classes /\ z \notin Range(spare)
      /\ Used(z) \in SUBSET Chunks /\ array[zone[z].class] \in Seq(Pages)
      /\ IsInjective(array[zone[z].class])
      /\ z \in Range(array[zone[z].class]) <=> zone[z].nfree > 0
      /\ zone[z].nfree \in 0 .. NMax /\ zone[z].nfree < NMax /\ Give(zone[z], k) \in ZoneRec
      /\ Give(zone[z], k).class = zone[z].class /\ Give(zone[z], k).nfree = zone[z].nfree + 1
      /\ Give(zone[z], k).uindex > 0 /\ Sound(Give(zone[z], k), Used(z) \ {k})
      /\ zone[z].nfree + 1 = NMax => Used(z) \ {k} = {}
  BY BusyZone
<1>2. PICK c \in Classes : c = zone[z].class
  BY <1>1
<1>3. PICK s \in Seq(Pages) : s = array[c]
  BY <1>1, <1>2
<1>4. PICK r \in ZoneRec : r = Give(zone[z], k)
  BY <1>1
<1>5. /\ zone \in [Pages -> ZoneRec] /\ array \in [Classes -> Seq(Pages)]
      /\ chunks \in SUBSET (Pages \X (0 .. NMax - 1)) /\ spare \in Seq(Pages)
      /\ Len(spare) <= FreeLimit /\ IsInjective(spare)
  BY DEF HeapInv, Types, ListsExact
<1>6. /\ chunks' = chunks \ {<<z, k>>} /\ zone' = [zone EXCEPT ![z] = r]
      /\ array' = [array EXCEPT ![c] = IF zone[z].nfree + 1 = 1 THEN <<z>> \o s
                                       ELSE IF E THEN RemoveNode(s, z) ELSE s]
      /\ spare' = IF E THEN <<z>> \o spare ELSE spare
  BY <1>2, <1>3, <1>4 DEF Freed
<1>7. /\ zone' \in [Pages -> ZoneRec] /\ Zones' = Zones \cup {z} /\ zone'[z] = r
      /\ \A y \in Pages : y # z => zone'[y] = zone[y]
  BY <1>1, <1>4, <1>5, <1>6, ZoneSet
<1>8. Zones' = Zones /\ \A y \in Zones : y \in Pages
  BY <1>7 DEF Zones
<1>9. /\ IsInjective(s) /\ (z \in Range(s) <=> zone[z].nfree > 0)
  BY <1>1, <1>2, <1>3
<1>10. /\ array' \in [Classes -> Seq(Pages)] /\ \A d \in Classes : d # c => array'[d] = array[d]
       /\ IsInjective(array'[c]) /\ Range(array'[c]) \ {z} = Range(s) \ {z}
       /\ spare' \in Seq(Pages) /\ Len(spare') <= FreeLimit /\ IsInjective(spare')
       /\ Range(spare') \ {z} = Range(spare) /\ (z \in Range(spare') => r.nfree = NMax)
       /\ z \in Range(array'[c]) <=> z \notin Range(spare') /\ r.nfree > 0
  <2>1. CASE zone[z].nfree = 0
    <3>1. ~E /\ z \notin Range(s) /\ r.nfree > 0 /\ zone[z].nfree + 1 = 1
      BY <1>1, <1>4, <1>9, <2>1, SMTT(40)
    <3>2. /\ <<z>> \o s \in Seq(Pages) /\ IsInjective(<<z>> \o s)
          /\ Range(<<z>> \o s) = Range(s) \cup {z} /\ Len(<<z>> \o s) = Len(s) + 1
      BY <1>1, <1>9, <3>1, PushFacts
    <3>3. /\ array' \in [Classes -> Seq(Pages)] /\ array'[c] = <<z>> \o s /\ spare' = spare
          /\ \A d \in Classes : d # c => array'[d] = array[d]
      BY <1>5, <1>6, <3>1, <3>2
    <3>4. QED BY <1>1, <1>5, <3>1, <3>2, <3>3
  <2>2. CASE zone[z].nfree # 0 /\ ~E
    <3>1. z \in Range(s) /\ r.nfree > 0 /\ zone[z].nfree + 1 # 1
      BY <1>1, <1>4, <1>9, <2>2, SMTT(40)
    <3>2. /\ array' \in [Classes -> Seq(Pages)] /\ array'[c] = s /\ spare' = spare
          /\ \A d \in Classes : d # c => array'[d] = array[d]
      BY <1>5, <1>6, <2>2, <3>1
    <3>3. QED BY <1>1, <1>5, <1>9, <3>1, <3>2
  <2>3. CASE zone[z].nfree # 0 /\ E
    <3>1. /\ z \in Range(s) /\ r.nfree = NMax /\ zone[z].nfree + 1 # 1 /\ Len(spare) < FreeLimit
      BY <1>1, <1>4, <1>9, <2>3, SMTT(40) DEF Keep
    <3>2. /\ RemoveNode(s, z) \in Seq(Pages) /\ IsInjective(RemoveNode(s, z))
          /\ Range(RemoveNode(s, z)) = Range(s) \ {z}
      BY <1>9, <3>1, RemoveFacts
    <3>3. /\ <<z>> \o spare \in Seq(Pages) /\ IsInjective(<<z>> \o spare)
          /\ Range(<<z>> \o spare) = Range(spare) \cup {z} /\ Len(<<z>> \o spare) = Len(spare) + 1
      BY <1>1, <1>5, PushFacts
    <3>4. /\ array' \in [Classes -> Seq(Pages)] /\ array'[c] = RemoveNode(s, z)
          /\ spare' = <<z>> \o spare /\ \A d \in Classes : d # c => array'[d] = array[d]
      BY <1>5, <1>6, <2>3, <3>1, <3>2
    <3>5. Len(spare) + 1 <= FreeLimit
      BY <1>5, <3>1, HeapAssumption, SMTT(40)
    <3>6. QED BY <1>1, <3>1, <3>2, <3>3, <3>4, <3>5
  <2>4. QED BY <2>1, <2>2, <2>3
<1>11. chunks' \in SUBSET (Pages \X (0 .. NMax - 1))
  BY <1>5, <1>6
<1>12. ZonesTouched'
  <2> SUFFICES ASSUME NEW y \in Zones' PROVE zone'[y].class \in Classes /\ zone'[y].uindex > 0
    BY DEF ZonesTouched
  <2>1. CASE y = z
    BY <1>1, <1>4, <1>7, <2>1
  <2>2. CASE y # z
    BY <1>7, <1>8, <2>2 DEF HeapInv, ZonesTouched
  <2>3. QED BY <2>1, <2>2
<1>13. ChunksInZones' /\ SpareInZones'
  BY <1>6, <1>8, <1>10 DEF HeapInv, ChunksInZones, SpareInZones
<1>14. ChunksOnce'
  <2> SUFFICES ASSUME NEW y \in Zones' PROVE Sound(zone'[y], Used(y)')
    BY DEF ChunksOnce, Used, Sound, Chunks
  <2>1. Used(z)' = Used(z) \ {k} /\ \A v : v # z => Used(v)' = Used(v)
    BY <1>6, UsedAfter
  <2>2. CASE y = z
    BY <1>1, <1>4, <1>7, <2>1, <2>2
  <2>3. CASE y # z
    <3>1. y \in Zones /\ zone'[y] = zone[y] /\ Used(y)' = Used(y)
      BY <1>7, <1>8, <2>1, <2>3
    <3>2. QED BY <3>1, OnceIs DEF HeapInv
  <2>4. QED BY <2>2, <2>3
<1>15. ListsExact'
  <2>1. \A y \in Zones : y # z => zone'[y] = zone[y]
    BY <1>7, <1>8
  <2>2. \A y \in Range(spare') : zone'[y].nfree = NMax
    <3> TAKE y \in Range(spare')
    <3>1. CASE y = z
      BY <1>7, <1>10, <3>1
    <3>2. CASE y # z
      <4>1. y \in Range(spare) /\ y \in Zones
        BY <1>10, <3>2 DEF HeapInv, SpareInZones
      <4>2. QED BY <2>1, <3>2, <4>1 DEF HeapInv, ListsExact
    <3>3. QED BY <3>1, <3>2
  <2>3. ASSUME NEW d \in Classes
        PROVE /\ IsInjective(array'[d])
              /\ Range(array'[d]) = {y \in Zones' \ Range(spare') : zone'[y].class = d /\ zone'[y].nfree > 0}
    <3>1. /\ IsInjective(array[d])
          /\ Range(array[d]) = {y \in Zones \ Range(spare) : zone[y].class = d /\ zone[y].nfree > 0}
      BY DEF HeapInv, ListsExact
    <3>2. IsInjective(array'[d])
      BY <1>10, <3>1
    <3>3. ASSUME NEW y, y # z
          PROVE y \in Range(array'[d]) <=>
                  y \in {v \in Zones' \ Range(spare') : zone'[v].class = d /\ zone'[v].nfree > 0}
      <4>1. y \in Range(array'[d]) <=> y \in Range(array[d])
        BY <1>3, <1>10, <3>3
      <4>2. y \in Range(spare') <=> y \in Range(spare)
        BY <1>10, <3>3
      <4>3. QED BY <1>8, <2>1, <3>1, <3>3, <4>1, <4>2
    <3>4. z \in Range(array'[d]) <=>
            z \in {v \in Zones' \ Range(spare') : zone'[v].class = d /\ zone'[v].nfree > 0}
      <4>1. zone'[z] = r /\ r.class = c /\ z \in Zones'
        BY <1>1, <1>2, <1>4, <1>7
      <4>2. CASE d = c
        BY <1>10, <4>1, <4>2
      <4>3. CASE d # c
        BY <1>2, <1>10, <3>1, <4>1, <4>3
      <4>4. QED BY <4>2, <4>3
    <3>5. QED BY <3>2, <3>3, <3>4
  <2>4. QED BY <1>10, <2>2, <2>3 DEF ListsExact
<1>16. QED
  BY <1>7, <1>8, <1>10, <1>11, <1>12, <1>13, <1>14, <1>15 DEF ZonesOK

(* The zone is given back.                                                 *)
LEMMA FreedReleases ==
  ASSUME HeapInv, NEW z \in Zones, NEW k \in Used(z), NEW E \in BOOLEAN, NEW word,
         Freed(z, k, zone[z].class, zone[z], E, word), E, ~Keep,
         zone[z].nfree + 1 # 1, zone[z].nfree + 1 = NMax
  PROVE  ZonesOK' /\ Zones' = Zones \ {z}
<1>1. /\ z \in Pages /\ zone[z] \in ZoneRec /\ zone[z].class \in Classes /\ z \notin Range(spare)
      /\ Used(z) \in SUBSET Chunks /\ array[zone[z].class] \in Seq(Pages)
      /\ IsInjective(array[zone[z].class])
      /\ z \in Range(array[zone[z].class]) <=> zone[z].nfree > 0
      /\ zone[z].nfree \in 0 .. NMax /\ zone[z].nfree < NMax /\ Give(zone[z], k) \in ZoneRec
      /\ Give(zone[z], k).class = zone[z].class /\ Give(zone[z], k).nfree = zone[z].nfree + 1
      /\ Give(zone[z], k).uindex > 0 /\ Sound(Give(zone[z], k), Used(z) \ {k})
      /\ zone[z].nfree + 1 = NMax => Used(z) \ {k} = {}
  BY BusyZone
<1>2. PICK c \in Classes : c = zone[z].class
  BY <1>1
<1>3. PICK s \in Seq(Pages) : s = array[c]
  BY <1>1, <1>2
<1>4. IsInjective(s) /\ z \in Range(s)
  <2>1. zone[z].nfree > 0
    BY <1>1, HeapAssumption, SMTT(40)
  <2>2. QED BY <1>1, <1>2, <1>3, <2>1
<1>5. /\ zone \in [Pages -> ZoneRec] /\ array \in [Classes -> Seq(Pages)]
      /\ chunks \in SUBSET (Pages \X (0 .. NMax - 1)) /\ spare \in Seq(Pages)
      /\ Len(spare) <= FreeLimit
  BY DEF HeapInv, Types
<1>6. /\ chunks' = chunks \ {<<z, k>>} /\ zone' = [zone EXCEPT ![z] = NoZone]
      /\ array' = [array EXCEPT ![c] = RemoveNode(s, z)] /\ spare' = spare
  BY <1>2, <1>3 DEF Freed
<1>7. /\ zone' \in [Pages -> ZoneRec] /\ zone'[z] = NoZone
      /\ \A y \in Pages : y # z => zone'[y] = zone[y]
  <2>1. 0 \in 0 .. NMax /\ <<>> \in Seq(0 .. NMax - 1)
    BY HeapAssumption, SMTT(40)
  <2>2. NoZone \in ZoneRec
    BY <2>1 DEF NoZone, ZoneRec
  <2>3. PICK v \in ZoneRec : v = NoZone
    BY <2>2
  <2>4. zone' = [zone EXCEPT ![z] = v]
    BY <1>6, <2>3
  <2>5. /\ zone' \in [Pages -> ZoneRec] /\ zone'[z] = v
        /\ \A y \in Pages : y # z => zone'[y] = zone[y]
    BY <1>1, <1>5, <2>4
  <2>6. QED BY <2>3, <2>5
<1>8. Zones' = Zones \ {z} /\ \A y \in Zones : y \in Pages
  <2>1. Zones' = {pg \in Pages : zone'[pg] # NoZone}
    BY DEF Zones
  <2>2. QED BY <1>7, <2>1 DEF Zones
<1>9. /\ RemoveNode(s, z) \in Seq(Pages) /\ IsInjective(RemoveNode(s, z))
      /\ Range(RemoveNode(s, z)) = Range(s) \ {z}
  BY <1>4, RemoveFacts
<1>10. /\ array' \in [Classes -> Seq(Pages)] /\ array'[c] = RemoveNode(s, z)
       /\ \A d \in Classes : d # c => array'[d] = array[d]
  BY <1>5, <1>6, <1>9
<1>11. \A y \in Zones' : y # z /\ y \in Zones /\ zone'[y] = zone[y]
  BY <1>7, <1>8
<1>12. Used(z)' = {} /\ \A v : v # z => Used(v)' = Used(v)
  BY <1>1, <1>6, UsedAfter
<1>13. ChunksInZones'
  <2> SUFFICES ASSUME NEW h \in chunks' PROVE h[1] \in Zones'
    BY DEF ChunksInZones
  <2>1. h \in Pages \X Chunks
    BY <1>5, <1>6 DEF Chunks
  <2>2. PICK y \in Pages, j \in Chunks : h = <<y, j>>
    BY <2>1, SMTT(40)
  <2>3. h[1] = y
    BY <2>2, Tags
  <2>4. y # z
    BY <1>12, <2>2 DEF Used, Chunks
  <2>5. h \in chunks
    BY <1>6
  <2>6. QED BY <1>8, <2>3, <2>4, <2>5 DEF HeapInv, ChunksInZones
<1>14. chunks' \in SUBSET (Pages \X (0 .. NMax - 1)) /\ SpareInZones' /\ ZonesTouched'
  <2>1. SpareInZones'
    BY <1>1, <1>6, <1>8 DEF HeapInv, SpareInZones
  <2>2. ZonesTouched'
    BY <1>11 DEF HeapInv, ZonesTouched
  <2>3. QED BY <1>5, <1>6, <2>1, <2>2
<1>15. ChunksOnce'
  <2> SUFFICES ASSUME NEW y \in Zones' PROVE Sound(zone'[y], Used(y)')
    BY DEF ChunksOnce, Used, Sound, Chunks
  <2>1. y \in Zones /\ zone'[y] = zone[y] /\ Used(y)' = Used(y)
    BY <1>11, <1>12
  <2>2. QED BY <2>1, OnceIs DEF HeapInv
<1>16. ListsExact'
  <2>1. IsInjective(spare') /\ \A y \in Range(spare') : zone'[y].nfree = NMax
    BY <1>6, <1>11, <1>14 DEF HeapInv, ListsExact, SpareInZones
  <2>2. ASSUME NEW d \in Classes
        PROVE /\ IsInjective(array'[d])
              /\ Range(array'[d]) = {y \in Zones' \ Range(spare') : zone'[y].class = d /\ zone'[y].nfree > 0}
    <3>1. /\ IsInjective(array[d])
          /\ Range(array[d]) = {y \in Zones \ Range(spare) : zone[y].class = d /\ zone[y].nfree > 0}
      BY DEF HeapInv, ListsExact
    <3>2. IsInjective(array'[d]) /\ Range(array'[d]) = Range(array[d]) \ {z}
      <4>1. CASE d = c
        BY <1>3, <1>9, <1>10, <4>1
      <4>2. CASE d # c
        BY <1>2, <1>10, <3>1, <4>2
      <4>3. QED BY <4>1, <4>2
    <3>3. ASSUME NEW y
          PROVE y \in Range(array[d]) \ {z} <=>
                  y \in {v \in Zones' \ Range(spare') : zone'[v].class = d /\ zone'[v].nfree > 0}
      <4>1. y \in Zones' <=> y \in Zones /\ y # z
        BY <1>8
      <4>2. CASE y \in Zones'
        BY <1>6, <1>11, <3>1, <4>1, <4>2
      <4>3. CASE y \notin Zones'
        BY <3>1, <4>1, <4>3
      <4>4. QED BY <4>2, <4>3
    <3>4. QED BY <3>2, <3>3
  <2>3. QED BY <2>1, <2>2 DEF ListsExact
<1>17. QED
  BY <1>5, <1>6, <1>7, <1>8, <1>10, <1>13, <1>14, <1>15, <1>16 DEF ZonesOK
-----------------------------------------------------------------------------
(* The conjuncts of the invariant that speak of pages.                     *)
PagesOK ==
  /\ list \in Seq(ExtentRec) /\ regions \in SUBSET ExtentRec /\ usage \in [Pages -> UseRec]
  /\ IsInjective(list) /\ Inside(Areas) /\ Apart(Areas) /\ ZonesMarked /\ RegionsMarked

(* Those that hold also after page_free was misled.                        *)
MarksOK ==
  /\ regions \in SUBSET ExtentRec /\ usage \in [Pages -> UseRec] /\ ZonesMarked /\ RegionsMarked

(* The pages the heap has are those of its areas.                          *)
LEMMA HeldIs == Held = PagesIn(Areas)
BY DEF Held, PagesIn

(* A step that changes no pages.                                           *)
LEMMA PagesSame ==
  ASSUME HeapInv, list' = list, usage' = usage, regions' = regions, Zones' = Zones
  PROVE  PagesOK' /\ Held' = Held
<1>1. Areas' = Areas
  BY DEF Areas
<1>2. Held' = Held
  BY <1>1 DEF Held
<1>3. Inside(Areas)' /\ Apart(Areas)'
  BY <1>1 DEF HeapInv, Inside, Apart
<1>4. ZonesMarked' /\ RegionsMarked'
  BY DEF HeapInv, ZonesMarked, RegionsMarked, ZonePagesOf
<1>5. QED BY <1>2, <1>3, <1>4 DEF HeapInv, Types, PagesOK

(* A step that changes no zones.                                           *)
LEMMA ZonesSame ==
  ASSUME HeapInv, zone' = zone, array' = array, spare' = spare, chunks' = chunks
  PROVE  ZonesOK' /\ Zones' = Zones
<1>1. Zones' = Zones
  BY DEF Zones
<1>2. ZonesTouched' /\ ChunksInZones' /\ SpareInZones'
  BY <1>1 DEF HeapInv, ZonesTouched, ChunksInZones, SpareInZones
<1>3. ChunksOnce'
  BY <1>1 DEF HeapInv, ChunksOnce
<1>4. ListsExact'
  BY <1>1 DEF HeapInv, ListsExact
<1>5. QED BY <1>1, <1>2, <1>3, <1>4 DEF HeapInv, Types, ZonesOK

(* The areas after page_alloc.                                             *)
LEMMA AllocAreas ==
  ASSUME HeapInv, NEW n \in Nat, n > 0, NEW x \in Range(list), x.n >= n,
         Range(list') = (Range(list) \ {x}) \cup Rest(x, n), NEW t \in {"page", "zone"},
         \/ t = "page" /\ regions' = regions \cup {Extent(x.at, n)} /\ Zones' = Zones
         \/ t = "zone" /\ n = ZonePages /\ regions' = regions /\ Zones' = Zones \cup {x.at}
  PROVE  Apart(Areas)' /\ Inside(Areas)' /\ Held \subseteq Held'
<1> DEFINE New == {<<t, Extent(x.at, n)>>} \cup {<<"free", r>> : r \in Rest(x, n)}
<1>1. x \in ExtentRec /\ n <= x.n
  BY InvFree, SMTT(40) DEF ExtentRec
<1>2. <<"free", x>> \in Areas
  BY AreaIs
<1>3. \A a : a \in Areas' <=> \/ \E y \in Range(list') : a = <<"free", y>>
                              \/ \E y \in regions' : a = <<"page", y>>
                              \/ \E z \in Zones' : a = <<"zone", Extent(z, ZonePages)>>
  BY DEF Areas
<1>4. \A y : <<"page", y>> # <<"free", x>> /\ <<"zone", y>> # <<"free", x>>
             /\ (<<"free", y>> = <<"free", x>> <=> y = x)
  BY Tags
<1>5. ASSUME NEW a \in Areas' PROVE a \in (Areas \ {<<"free", x>>}) \cup New
  <2>1. CASE \E y \in Range(list') : a = <<"free", y>>
    BY <1>4, <2>1, AreaIs
  <2>2. CASE \E y \in regions' : a = <<"page", y>>
    BY <1>4, <2>2, AreaIs
  <2>3. CASE \E z \in Zones' : a = <<"zone", Extent(z, ZonePages)>>
    BY <1>4, <2>3, AreaIs
  <2>4. QED BY <1>3, <1>5, <2>1, <2>2, <2>3
<1>6. ASSUME NEW a \in (Areas \ {<<"free", x>>}) \cup New PROVE a \in Areas'
  <2>1. CASE a \in New
    <3>1. CASE a = <<t, Extent(x.at, n)>>
      BY <1>3, <3>1
    <3>2. CASE \E r \in Rest(x, n) : a = <<"free", r>>
      BY <1>3, <3>2
    <3>3. QED BY <2>1, <3>1, <3>2
  <2>2. CASE a \in Areas /\ a # <<"free", x>>
    <3>1. CASE \E y \in Range(list) : a = <<"free", y>>
      BY <1>3, <2>2, <3>1
    <3>2. CASE \E y \in regions : a = <<"page", y>>
      BY <1>3, <3>2
    <3>3. CASE \E z \in Zones : a = <<"zone", Extent(z, ZonePages)>>
      BY <1>3, <3>3
    <3>4. QED BY <2>2, <3>1, <3>2, <3>3, AreaIs
  <2>3. QED BY <1>6, <2>1, <2>2
<1>7. Areas' = (Areas \ {<<"free", x>>}) \cup New
  BY <1>5, <1>6
<1>8. Apart(Areas) /\ Inside(Areas)
  BY DEF HeapInv
<1>9. Apart(Areas') /\ Inside(Areas') /\ PagesIn(Areas) \subseteq PagesIn(Areas')
  <2>1. PICK A, B : A = Areas /\ B = Areas'
    OBVIOUS
  <2>2. /\ Apart(A) /\ Inside(A) /\ x \in ExtentRec /\ <<"free", x>> \in A /\ n \in Nat /\ n > 0 /\ n <= x.n
        /\ t \in {"page", "zone"}
        /\ B = (A \ {<<"free", x>>}) \cup ({<<t, Extent(x.at, n)>>} \cup {<<"free", r>> : r \in Rest(x, n)})
    BY <1>1, <1>2, <1>7, <1>8, <2>1
  <2>3. Apart(B) /\ Inside(B) /\ PagesIn(A) \subseteq PagesIn(B)
    BY ONLY <2>2, TakeAreas, ZenonT(60)
  <2>4. QED BY <2>1, <2>3
<1>10. Held' = PagesIn(Areas')
  BY DEF Held, PagesIn
<1>11. Apart(Areas)' /\ Inside(Areas)'
  BY <1>9 DEF Apart, Inside, PagesOf
<1>12. QED BY <1>9, <1>10, <1>11, HeldIs

(* An extent of the free list has no page of a zone or a region.           *)
LEMMA FreeApart ==
  ASSUME HeapInv, NEW x \in Range(list)
  PROVE  /\ x \in ExtentRec /\ x.n > 0 /\ x.at \in PagesOf(x) /\ x.at \in Pages
         /\ PagesOf(x) \subseteq Pages
         /\ \A z \in Zones : ZonePagesOf(z) \cap PagesOf(x) = {}
         /\ \A y \in regions : y.at \notin PagesOf(x)
         /\ x.at \notin Zones
<1>1. x \in ExtentRec /\ x.n > 0 /\ PagesOf(x) \subseteq 1 .. NPages - 1
  BY InvFree DEF FreeListOK
<1>2. x.at \in PagesOf(x)
  BY <1>1, SMTT(40) DEF PagesOf, ExtentRec
<1>3. 1 .. NPages - 1 \subseteq Pages
  BY HeapAssumption, SMTT(40) DEF Pages
<1>4. <<"free", x>> \in Areas
  BY AreaIs
<1>5. ASSUME NEW z \in Zones PROVE ZonePagesOf(z) \cap PagesOf(x) = {} /\ z \in ZonePagesOf(z)
  <2>1. /\ <<"zone", Extent(z, ZonePages)>> \in Areas /\ z \in ZonePagesOf(z)
        /\ PagesOf(Extent(z, ZonePages)) = ZonePagesOf(z)
    BY InvZone
  <2>2. PagesOf(Extent(z, ZonePages)) \cap PagesOf(x) = {}
    BY <1>4, <2>1, Tags, InvApart
  <2>3. QED BY <2>1, <2>2
<1>6. ASSUME NEW y \in regions PROVE y.at \notin PagesOf(x)
  <2>1. <<"page", y>> \in Areas /\ y.at \in PagesOf(y)
    BY InvRegion
  <2>2. PagesOf(y) \cap PagesOf(x) = {}
    BY <1>4, <2>1, Tags, InvApart
  <2>3. QED BY <2>1, <2>2
<1>7. QED BY <1>1, <1>2, <1>3, <1>5, <1>6

(* malloc of whole pages.                                                  *)
LEMMA MallocPagesStep ==
  ASSUME HeapInv, NEW n \in 1 .. MaxRegion, MallocPages(n)
  PROVE  HeapInv' /\ Held \subseteq Held'
<1>1. n \in Nat /\ n > 0 /\ Fits(n) # {}
  BY HeapAssumption, SMTT(40) DEF MallocPages
<1>2. PICK x \in Range(list) :
           /\ x.n >= n /\ PageAlloc(n).at = x.at
           /\ PageAlloc(n).list \in Seq(ExtentRec) /\ IsInjective(PageAlloc(n).list)
           /\ Range(PageAlloc(n).list) = (Range(list) \ {x}) \cup Rest(x, n)
  BY <1>1, InvFree, AllocFacts
<1>3. /\ list' = PageAlloc(n).list /\ usage' = [usage EXCEPT ![x.at] = [use |-> "page", k |-> n]]
      /\ regions' = regions \cup {Extent(x.at, n)}
      /\ zone' = zone /\ array' = array /\ spare' = spare /\ chunks' = chunks
  BY <1>2 DEF MallocPages
<1>4. /\ x \in ExtentRec /\ x.n > 0 /\ x.at \in PagesOf(x) /\ x.at \in Pages
      /\ PagesOf(x) \subseteq Pages
      /\ \A z \in Zones : ZonePagesOf(z) \cap PagesOf(x) = {}
      /\ \A y \in regions : y.at \notin PagesOf(x)
      /\ x.at \notin Zones
  BY FreeApart
<1>5. ZonesOK' /\ Zones' = Zones
  BY <1>3, ZonesSame
<1>6. Apart(Areas)' /\ Inside(Areas)' /\ Held \subseteq Held'
  <2>1. Range(list') = (Range(list) \ {x}) \cup Rest(x, n)
    BY <1>2, <1>3
  <2>2. PICK t \in {"page", "zone"} : t = "page"
    OBVIOUS
  <2>3. t = "page" /\ regions' = regions \cup {Extent(x.at, n)} /\ Zones' = Zones
    BY <1>3, <1>5, <2>2
  <2>4. QED BY <1>1, <1>2, <2>1, <2>3, AllocAreas
<1>7. usage \in [Pages -> UseRec] /\ regions \in SUBSET ExtentRec
  BY DEF HeapInv, Types
<1>8. PICK u \in UseRec : u = [use |-> "page", k |-> n]
  BY <1>1 DEF UseRec
<1>9. /\ usage' \in [Pages -> UseRec] /\ usage'[x.at] = u
      /\ \A pg \in Pages : pg # x.at => usage'[pg] = usage[pg]
  BY <1>3, <1>4, <1>7, <1>8
<1>10. Extent(x.at, n) \in ExtentRec /\ Extent(x.at, n).at = x.at /\ Extent(x.at, n).n = n
  BY <1>1, <1>4 DEF Extent, ExtentRec
<1>11. ZonesMarked'
  <2> SUFFICES ASSUME NEW z \in Zones, NEW pg \in ZonePagesOf(z)
               PROVE usage'[pg] = [use |-> "zone", k |-> pg - z]
    BY <1>5 DEF ZonesMarked, ZonePagesOf
  <2>1. pg # x.at /\ pg \in Pages
    BY <1>4, InvZone
  <2>2. QED BY <1>9, <2>1 DEF HeapInv, ZonesMarked
<1>12. RegionsMarked'
  <2> SUFFICES ASSUME NEW y \in regions' PROVE usage'[y.at] = [use |-> "page", k |-> y.n]
    BY DEF RegionsMarked
  <2>1. CASE y \in regions
    <3>1. y.at # x.at /\ y.at \in Pages
      BY <1>4, <2>1, InvRegion
    <3>2. QED BY <1>9, <2>1, <3>1 DEF HeapInv, RegionsMarked
  <2>2. CASE y = Extent(x.at, n)
    BY <1>8, <1>9, <1>10, <2>2
  <2>3. QED BY <1>3, <2>1, <2>2
<1>13. PagesOK'
  BY <1>2, <1>3, <1>6, <1>7, <1>9, <1>10, <1>11, <1>12 DEF PagesOK
<1>14. HeapInv'
  BY <1>5, <1>13 DEF HeapInv, Types, PagesOK, ZonesOK
<1>15. QED BY <1>6, <1>14

(* malloc with new pages for a zone.                                       *)
LEMMA MallocNewZoneStep ==
  ASSUME HeapInv, NEW c \in Classes, MallocNewZone(c)
  PROVE  HeapInv' /\ Held \subseteq Held'
<1>1. ZonePages \in Nat /\ ZonePages > 0 /\ Fits(ZonePages) # {}
  BY HeapAssumption, SMTT(40) DEF MallocNewZone
<1>2. PICK n \in Nat : n = ZonePages
  BY <1>1
<1>3. PICK x \in Range(list) :
           /\ x.n >= n /\ PageAlloc(n).at = x.at
           /\ PageAlloc(n).list \in Seq(ExtentRec) /\ IsInjective(PageAlloc(n).list)
           /\ Range(PageAlloc(n).list) = (Range(list) \ {x}) \cup Rest(x, n)
  BY <1>1, <1>2, InvFree, AllocFacts
<1>4. /\ list' = PageAlloc(n).list /\ UseZone(x.at, c) /\ spare' = spare /\ regions' = regions
      /\ usage' = [pg \in Pages |-> IF pg \in ZonePagesOf(x.at)
                                    THEN [use |-> "zone", k |-> pg - x.at] ELSE usage[pg]]
      /\ array[c] = <<>>
  BY <1>2, <1>3 DEF MallocNewZone, UseZone, ZonePagesOf
<1>5. /\ x \in ExtentRec /\ x.n > 0 /\ x.at \in PagesOf(x) /\ x.at \in Pages
      /\ PagesOf(x) \subseteq Pages
      /\ \A z \in Zones : ZonePagesOf(z) \cap PagesOf(x) = {}
      /\ \A y \in regions : y.at \notin PagesOf(x)
      /\ x.at \notin Zones
  BY FreeApart
<1>6. PICK a \in Pages : a = x.at
  BY <1>5
<1>7. ZonesOK' /\ Zones' = Zones \cup {x.at}
  <2>1. a \notin Range(spare)
    BY <1>5, <1>6 DEF HeapInv, SpareInZones
  <2>2. /\ spare' \in Seq(Pages) /\ Len(spare') <= FreeLimit /\ IsInjective(spare')
        /\ Range(spare') = Range(spare) \ {a}
    BY <1>4, <2>1 DEF HeapInv, Types, ListsExact
  <2>3. UseZone(a, c) /\ (a \in Zones => a \in Range(spare)) /\ array[c] = <<>>
    BY <1>4, <1>5, <1>6
  <2>4. ZonesOK' /\ Zones' = Zones \cup {a}
    BY <2>2, <2>3, UseZoneKeeps
  <2>5. QED BY <1>6, <2>4
<1>8. Apart(Areas)' /\ Inside(Areas)' /\ Held \subseteq Held'
  <2>1. Range(list') = (Range(list) \ {x}) \cup Rest(x, n)
    BY <1>3, <1>4
  <2>2. PICK t \in {"page", "zone"} : t = "zone"
    OBVIOUS
  <2>3. t = "zone" /\ n = ZonePages /\ regions' = regions /\ Zones' = Zones \cup {x.at}
    BY <1>2, <1>4, <1>7, <2>2
  <2>4. QED BY <1>1, <1>2, <1>3, <2>1, <2>3, AllocAreas
<1>9. /\ ZonePagesOf(a) \subseteq PagesOf(x) /\ \A pg \in ZonePagesOf(a) : pg - a \in Nat
  <2>1. x.n \in Nat /\ x.at \in Nat /\ a = x.at /\ ZonePages <= x.n
    BY <1>1, <1>2, <1>3, <1>5, <1>6, SMTT(40) DEF ExtentRec
  <2>2. QED BY <1>1, <2>1, SMTT(40) DEF PagesOf, ZonePagesOf
<1>10. /\ usage' \in [Pages -> UseRec]
       /\ \A pg \in ZonePagesOf(a) : usage'[pg] = [use |-> "zone", k |-> pg - a]
       /\ \A pg \in Pages : pg \notin PagesOf(x) => usage'[pg] = usage[pg]
  <2>1. usage \in [Pages -> UseRec]
    BY DEF HeapInv, Types
  <2>2. \A pg \in ZonePagesOf(a) : [use |-> "zone", k |-> pg - a] \in UseRec /\ pg \in Pages
    BY <1>5, <1>9 DEF UseRec
  <2>3. usage' = [pg \in Pages |-> IF pg \in ZonePagesOf(a)
                                   THEN [use |-> "zone", k |-> pg - a] ELSE usage[pg]]
    BY <1>4, <1>6
  <2>4. \A pg \in Pages : usage'[pg] \in UseRec
    BY <2>1, <2>2, <2>3
  <2>5. QED BY <1>9, <2>2, <2>3, <2>4
<1>11. ZonesMarked'
  <2> SUFFICES ASSUME NEW z \in Zones', NEW pg \in ZonePagesOf(z)
               PROVE usage'[pg] = [use |-> "zone", k |-> pg - z]
    BY DEF ZonesMarked, ZonePagesOf
  <2>1. CASE z = a
    BY <1>10, <2>1
  <2>2. CASE z \in Zones
    <3>1. pg \notin PagesOf(x) /\ pg \in Pages
      BY <1>5, <2>2, InvZone
    <3>2. QED BY <1>10, <2>2, <3>1 DEF HeapInv, ZonesMarked
  <2>3. QED BY <1>6, <1>7, <2>1, <2>2
<1>12. RegionsMarked'
  <2> SUFFICES ASSUME NEW y \in regions PROVE usage'[y.at] = [use |-> "page", k |-> y.n]
    BY <1>4 DEF RegionsMarked
  <2>1. y.at \notin PagesOf(x) /\ y.at \in Pages
    BY <1>5, InvRegion
  <2>2. QED BY <1>10, <2>1 DEF HeapInv, RegionsMarked
<1>13. PagesOK'
  BY <1>3, <1>4, <1>8, <1>10, <1>11, <1>12 DEF PagesOK, HeapInv, Types
<1>14. HeapInv'
  BY <1>7, <1>13 DEF HeapInv, Types, PagesOK, ZonesOK
<1>15. QED BY <1>8, <1>14

(* malloc with a zone of ZONE_FREE.                                        *)
LEMMA MallocSpareZoneStep ==
  ASSUME HeapInv, NEW c \in Classes, MallocSpareZone(c)
  PROVE  HeapInv' /\ Held \subseteq Held'
<1>1. /\ spare # <<>> /\ UseZone(Head(spare), c) /\ spare' = Tail(spare) /\ array[c] = <<>>
      /\ list' = list /\ usage' = usage /\ regions' = regions
  BY DEF MallocSpareZone, UseZone
<1>2. spare \in Seq(Pages) /\ IsInjective(spare) /\ Len(spare) <= FreeLimit
  BY DEF HeapInv, Types, ListsExact
<1>3. /\ Head(spare) \in Pages /\ Head(spare) \in Range(spare)
      /\ Tail(spare) \in Seq(Pages) /\ IsInjective(Tail(spare))
      /\ Range(Tail(spare)) = Range(spare) \ {Head(spare)} /\ Len(Tail(spare)) = Len(spare) - 1
  BY <1>1, <1>2, PopFacts
<1>4. PICK z \in Pages : z = Head(spare)
  BY <1>3
<1>5. Len(spare) - 1 <= FreeLimit
  BY <1>2, HeapAssumption, SMTT(40)
<1>6. /\ spare' \in Seq(Pages) /\ Len(spare') <= FreeLimit /\ IsInjective(spare')
      /\ Range(spare') = Range(spare) \ {z} /\ UseZone(z, c) /\ z \in Range(spare)
  BY <1>1, <1>3, <1>4, <1>5
<1>7. ZonesOK' /\ Zones' = Zones \cup {z}
  BY <1>1, <1>6, UseZoneKeeps
<1>8. Zones' = Zones
  BY <1>6, <1>7 DEF HeapInv, SpareInZones
<1>9. PagesOK' /\ Held' = Held
  BY <1>1, <1>8, PagesSame
<1>10. HeapInv'
  BY <1>7, <1>9 DEF HeapInv, Types, PagesOK, ZonesOK
<1>11. QED BY <1>9, <1>10

(* malloc from the first zone of the list.                                 *)
LEMMA MallocChunkStep ==
  ASSUME HeapInv, NEW c \in Classes, MallocChunk(c)
  PROVE  HeapInv' /\ Held \subseteq Held'
<1>1. ZonesOK' /\ Zones' = Zones
  BY MallocChunkKeeps
<1>2. PagesOK' /\ Held' = Held
  BY <1>1, PagesSame DEF MallocChunk
<1>3. HeapInv'
  BY <1>1, <1>2 DEF HeapInv, Types, PagesOK, ZonesOK
<1>4. QED BY <1>2, <1>3
-----------------------------------------------------------------------------
(* Pages leave the heap only when no extent ends where they begin, and     *)
(* then just these pages.                                                  *)
LostBeside(t, x) ==
  Areas' = Areas \ {<<t, x>>} /\ \A y \in Range(list) : y.at + y.n # x.at

(* The areas after page_free.                                              *)
LEMMA FreeAreas ==
  ASSUME HeapInv, NEW t \in {"page", "zone"}, NEW x \in ExtentRec, <<t, x>> \in Areas,
         NEW word, ~Misleads(x.at, x.n, word), list' = PageFree(x.at, x.n, word),
         \A a : a \in Areas' <=> \/ \E y \in Range(list') : a = <<"free", y>>
                                 \/ a \in Areas /\ a # <<t, x>> /\ \A y : a # <<"free", y>>
  PROVE  /\ list' \in Seq(ExtentRec) /\ IsInjective(list') /\ Apart(Areas)' /\ Inside(Areas)'
         /\ Held \subseteq Held' \/ LostBeside(t, x)
<1>1. Apart(Areas) /\ Inside(Areas) /\ FreeListOK
  BY InvFree DEF HeapInv
<1>2. <<t, x>>[2] = x
  BY Tags
<1>3. x.n > 0 /\ PagesOf(x) \subseteq 1 .. NPages - 1
  BY <1>1, <1>2 DEF Inside
<1>4. \A y : <<t, x>> # <<"free", y>>
  BY Tags
<1>5. \A y : y \in Range(list) <=> <<"free", y>> \in Areas
  <2>1. ASSUME NEW y, <<"free", y>> \in Areas PROVE y \in Range(list)
    <3>1. \A v : <<"free", y>> # <<"page", v>> /\ <<"free", y>> # <<"zone", v>>
                 /\ (<<"free", y>> = <<"free", v>> => y = v)
      BY Tags
    <3>2. QED BY <2>1, <3>1, AreaIs
  <2>2. QED BY <2>1, AreaIs
<1>6. \A y \in Range(list) : PagesOf(x) \cap PagesOf(y) = {}
  BY <1>5, Tags, InvApart
<1>7. \/ Lost(list', x)
      \/ \E R, new : Joins(list', R, new, x)
  BY <1>1, <1>3, <1>6, FreeFacts
<1>8. CASE Lost(list', x)
  <2>1. list' = list /\ \A y \in Range(list) : y.at + y.n # x.at
    BY <1>8 DEF Lost
  <2>2. Areas' = Areas \ {<<t, x>>}
    <3>1. ASSUME NEW a PROVE a \in Areas' <=> a \in Areas \ {<<t, x>>}
      <4>1. CASE \E y : a = <<"free", y>>
        <5>1. PICK y : a = <<"free", y>>
          BY <4>1
        <5>2. a # <<t, x>> /\ (a \in Areas <=> y \in Range(list))
          BY <1>4, <1>5, <5>1
        <5>3. a \in Areas' <=> \E v \in Range(list) : <<"free", y>> = <<"free", v>>
          BY <2>1, <5>1
        <5>4. \A v : <<"free", y>> = <<"free", v>> <=> y = v
          BY Tags
        <5>5. QED BY <5>2, <5>3, <5>4
      <4>2. CASE ~ \E y : a = <<"free", y>>
        BY <4>2
      <4>3. QED BY <4>1, <4>2
    <3>2. QED BY <3>1
  <2>3. Apart(Areas)' /\ Inside(Areas)'
    <3>1. Apart(Areas') /\ Inside(Areas')
      BY <1>1, <2>2 DEF Apart, Inside
    <3>2. QED BY <3>1 DEF Apart, Inside, PagesOf
  <2>4. QED BY <1>1, <2>1, <2>2, <2>3 DEF LostBeside, FreeListOK
<1>9. ASSUME NEW R, NEW new, Joins(list', R, new, x)
      PROVE  /\ list' \in Seq(ExtentRec) /\ IsInjective(list') /\ Apart(Areas)' /\ Inside(Areas)'
             /\ Held \subseteq Held'
  <2> DEFINE G == Gone(t, x, R)
  <2>1. /\ R \subseteq Range(list) /\ Range(list') = (Range(list) \ R) \cup {new}
        /\ list' \in Seq(ExtentRec) /\ IsInjective(list')
    BY <1>9 DEF Joins
  <2>2. G \subseteq Areas
    BY <1>5, <2>1 DEF Gone
  <2>3. ASSUME NEW a PROVE a \in Areas' <=> a \in (Areas \ G) \cup {<<"free", new>>}
    <3>1. CASE \E y : a = <<"free", y>>
      <4>1. PICK y : a = <<"free", y>>
        BY <3>1
      <4>2. \A v : <<"free", y>> = <<"free", v>> <=> y = v
        BY Tags
      <4>3. a \in Areas' <=> y \in Range(list')
        BY <4>1, <4>2
      <4>4. (a \in Areas <=> y \in Range(list)) /\ (a \in G <=> y \in R) /\ (a = <<"free", new>> <=> y = new)
        BY <1>4, <1>5, <4>1, <4>2 DEF Gone
      <4>5. QED BY <2>1, <4>3, <4>4
    <3>2. CASE ~ \E y : a = <<"free", y>>
      BY <3>2 DEF Gone
    <3>3. QED BY <3>1, <3>2
  <2>4. Areas' = (Areas \ G) \cup {<<"free", new>>}
    BY <2>3
  <2>5. Apart(Areas') /\ Inside(Areas') /\ PagesIn(Areas) \subseteq PagesIn(Areas')
    <3>1. PICK A, B, l : A = Areas /\ B = Areas' /\ l = list'
      OBVIOUS
    <3>2. /\ Apart(A) /\ Inside(A) /\ <<t, x>> \in A /\ Joins(l, R, new, x)
          /\ Gone(t, x, R) \subseteq A /\ B = (A \ Gone(t, x, R)) \cup {<<"free", new>>}
      BY <1>1, <1>9, <2>2, <2>4, <3>1
    <3>3. Apart(B) /\ Inside(B) /\ PagesIn(A) \subseteq PagesIn(B)
      BY ONLY <3>2, x \in ExtentRec, t \in {"page", "zone"}, JoinAreas, ZenonT(60)
    <3>4. QED BY <3>1, <3>3
  <2>6. Held' = PagesIn(Areas')
    BY DEF Held, PagesIn
  <2>7. Apart(Areas)' /\ Inside(Areas)'
    BY <2>5 DEF Apart, Inside, PagesOf
  <2>8. QED BY <2>1, <2>5, <2>6, <2>7, HeldIs
<1>10. QED BY <1>7, <1>8, <1>9

(* What a step may do with the pages that leave the heap.                  *)
Joined ==
  \A pg \in Held \ Held' :
    pg - 1 \in Held \ Held' \/ \A x \in Range(list) : x.at + x.n # pg

(* Pages that are lost are those of x, from its first one on.              *)
LEMMA LostJoined ==
  ASSUME HeapInv, NEW t \in {"page", "zone"}, NEW x \in ExtentRec, <<t, x>> \in Areas, LostBeside(t, x)
  PROVE  Joined
<1> SUFFICES ASSUME NEW pg \in Held \ Held', \E y \in Range(list) : y.at + y.n = pg
             PROVE  pg - 1 \in Held \ Held'
  BY DEF Joined
<1>1. Areas' = Areas \ {<<t, x>>} /\ pg # x.at /\ <<t, x>>[2] = x
  BY Tags DEF LostBeside
<1>2. Held' = UNION {PagesOf(a[2]) : a \in Areas'}
  BY DEF Held
<1>3. PICK a \in Areas : pg \in PagesOf(a[2])
  BY DEF Held
<1>4. a = <<t, x>>
  BY <1>1, <1>2, <1>3
<1>5. pg \in PagesOf(x)
  BY <1>1, <1>3, <1>4
<1>6. pg - 1 \in PagesOf(x)
  BY <1>1, <1>5, SMTT(40) DEF PagesOf, ExtentRec
<1>7. pg - 1 \in Held
  BY <1>1, <1>6 DEF Held
<1>8. ASSUME NEW b \in Areas', pg - 1 \in PagesOf(b[2]) PROVE FALSE
  <2>1. b \in Areas /\ b # <<t, x>>
    BY <1>1
  <2>2. PagesOf(b[2]) \cap PagesOf(<<t, x>>[2]) = {}
    BY <2>1 DEF HeapInv, Apart
  <2>3. QED BY <1>1, <1>6, <1>8, <2>2
<1>9. pg - 1 \notin Held'
  BY <1>2, <1>8
<1>10. QED BY <1>7, <1>9

(* free of whole pages.                                                    *)
LEMMA FreePagesStep ==
  ASSUME HeapInv, NEW x \in regions, NEW word, FreePages(x, word)
  PROVE  ZonesOK' /\ MarksOK' /\ (~misled' => HeapInv' /\ Joined)
<1>1. /\ list' = PageFree(x.at, x.n, word) /\ usage' = [usage EXCEPT ![x.at] = FreePage]
      /\ regions' = regions \ {x} /\ misled' = Misleads(x.at, x.n, word)
      /\ zone' = zone /\ array' = array /\ spare' = spare /\ chunks' = chunks
  BY DEF FreePages
<1>2. /\ x \in ExtentRec /\ x.n > 0 /\ <<"page", x>> \in Areas
      /\ x.at \in PagesOf(x) /\ PagesOf(x) \subseteq 1 .. NPages - 1 /\ x.at \in Pages
  BY InvRegion
<1>3. ZonesOK' /\ Zones' = Zones
  BY <1>1, ZonesSame
<1>4. PICK t \in {"page", "zone"} : t = "page"
  OBVIOUS
<1>5. \A a : a \in Areas' <=> \/ \E y \in Range(list') : a = <<"free", y>>
                              \/ \E y \in regions' : a = <<"page", y>>
                              \/ \E z \in Zones' : a = <<"zone", Extent(z, ZonePages)>>
  BY DEF Areas
<1>6. \A a : a \in Areas' <=> \/ \E y \in Range(list') : a = <<"free", y>>
                              \/ a \in Areas /\ a # <<t, x>> /\ \A y : a # <<"free", y>>
  <2>1. ASSUME NEW y PROVE /\ \A v : <<"page", y>> # <<"free", v>> /\ <<"zone", y>> # <<"free", v>>
                           /\ <<"page", y>> = <<t, x>> <=> y = x
                           /\ <<"zone", y>> # <<t, x>>
    BY <1>4, Tags
  <2>2. ASSUME NEW a PROVE (\E y \in regions' : a = <<"page", y>>)
                            <=> (\E y \in regions : a = <<"page", y>>) /\ a # <<t, x>>
    BY <1>1, <2>1
  <2>3. ASSUME NEW a PROVE (\E z \in Zones : a = <<"zone", Extent(z, ZonePages)>>)
                           => a # <<t, x>> /\ \A y : a # <<"free", y>>
    BY <2>1
  <2>4. ASSUME NEW a PROVE (\E y \in regions : a = <<"page", y>>) => \A y : a # <<"free", y>>
    BY <2>1
  <2>5. ASSUME NEW a
        PROVE  a \in Areas /\ a # <<t, x>> /\ (\A y : a # <<"free", y>>)
                 <=> \/ \E y \in regions' : a = <<"page", y>>
                     \/ \E z \in Zones : a = <<"zone", Extent(z, ZonePages)>>
    BY <2>2, <2>3, <2>4, AreaIs
  <2>6. QED BY <1>3, <1>5, <2>5
<1>7. ASSUME ~misled'
      PROVE  /\ list' \in Seq(ExtentRec) /\ IsInjective(list') /\ Apart(Areas)' /\ Inside(Areas)'
             /\ Held \subseteq Held' \/ LostBeside(t, x)
  BY <1>1, <1>2, <1>4, <1>6, <1>7, FreeAreas
<1>8. ASSUME ~misled' PROVE Joined
  <2>1. CASE Held \subseteq Held'
    BY <2>1 DEF Joined
  <2>2. CASE LostBeside(t, x)
    BY <1>2, <1>4, <2>2, LostJoined
  <2>3. QED BY <1>7, <1>8, <2>1, <2>2
<1>9. usage \in [Pages -> UseRec] /\ regions \in SUBSET ExtentRec /\ FreePage \in UseRec
  BY DEF HeapInv, Types, FreePage, UseRec
<1>10. /\ usage' \in [Pages -> UseRec]
       /\ \A pg \in Pages : pg # x.at => usage'[pg] = usage[pg]
  BY <1>1, <1>2, <1>9
<1>11. ZonesMarked'
  <2> SUFFICES ASSUME NEW z \in Zones, NEW pg \in ZonePagesOf(z)
               PROVE usage'[pg] = [use |-> "zone", k |-> pg - z]
    BY <1>3 DEF ZonesMarked, ZonePagesOf
  <2>1. /\ <<"zone", Extent(z, ZonePages)>> \in Areas /\ pg \in Pages
        /\ PagesOf(Extent(z, ZonePages)) = ZonePagesOf(z)
    BY InvZone
  <2>2. PagesOf(Extent(z, ZonePages)) \cap PagesOf(x) = {}
    BY <1>2, <2>1, Tags, InvApart
  <2>3. pg # x.at
    BY <1>2, <2>1, <2>2
  <2>4. QED BY <1>10, <2>1, <2>3 DEF HeapInv, ZonesMarked
<1>12. RegionsMarked'
  <2> SUFFICES ASSUME NEW y \in regions, y # x PROVE usage'[y.at] = [use |-> "page", k |-> y.n]
    BY <1>1 DEF RegionsMarked
  <2>1. y.at \in PagesOf(y) /\ y.at \in Pages /\ <<"page", y>> \in Areas
    BY InvRegion
  <2>2. PagesOf(y) \cap PagesOf(x) = {}
    BY <1>2, <2>1, InvApart
  <2>3. y.at # x.at
    BY <1>2, <2>1, <2>2
  <2>4. QED BY <1>10, <2>1, <2>3 DEF HeapInv, RegionsMarked
<1>13. MarksOK'
  BY <1>1, <1>9, <1>10, <1>11, <1>12 DEF MarksOK
<1>14. ASSUME ~misled' PROVE HeapInv'
  <2>1. PagesOK'
    BY <1>7, <1>13, <1>14 DEF PagesOK, MarksOK
  <2>2. QED BY <1>3, <2>1 DEF HeapInv, Types, PagesOK, ZonesOK
<1>15. QED BY <1>3, <1>8, <1>13, <1>14

(* free of a chunk: the zone stays, or its pages go back to the list.      *)
LEMMA FreeChunkStep ==
  ASSUME HeapInv, NEW chunk \in chunks, NEW word, FreeChunk(chunk, word)
  PROVE  ZonesOK' /\ MarksOK' /\ (~misled' => HeapInv' /\ Joined)
<1>1. PICK z \in Zones, k \in Chunks, E \in BOOLEAN :
           /\ k \in Used(z) /\ Freed(z, k, zone[z].class, zone[z], E, word)
           /\ E => zone[z].nfree + 1 # 1 /\ zone[z].nfree + 1 = NMax
  BY FreeChunkIs
<1>2. CASE ~(E /\ ~Keep)
  <2>1. ZonesOK' /\ Zones' = Zones
    BY <1>1, <1>2, FreedStays
  <2>2. list' = list /\ usage' = usage /\ regions' = regions
    BY <1>1, <1>2 DEF Freed
  <2>3. PagesOK' /\ Held' = Held
    BY <2>1, <2>2, PagesSame
  <2>4. HeapInv'
    BY <2>1, <2>3 DEF HeapInv, Types, PagesOK, ZonesOK
  <2>5. QED BY <2>1, <2>3, <2>4 DEF Joined, PagesOK, MarksOK
<1>3. CASE E /\ ~Keep
  <2>1. ZonesOK' /\ Zones' = Zones \ {z}
    BY <1>1, <1>3, FreedReleases
  <2>2. /\ list' = PageFree(z, ZonePages, word) /\ regions' = regions
        /\ misled' = Misleads(z, ZonePages, word)
        /\ usage' = [pg \in Pages |-> IF pg \in ZonePagesOf(z) THEN FreePage ELSE usage[pg]]
    BY <1>1, <1>3 DEF Freed
  <2>3. PICK x \in ExtentRec :
             /\ x = Extent(z, ZonePages) /\ <<"zone", x>> \in Areas /\ PagesOf(x) = ZonePagesOf(z)
    BY InvZone
  <2>4. x.at = z /\ x.n = ZonePages
    BY <2>3, SMTT(40) DEF Extent
  <2>5. PICK t \in {"page", "zone"} : t = "zone"
    OBVIOUS
  <2>6. \A a : a \in Areas' <=> \/ \E y \in Range(list') : a = <<"free", y>>
                                \/ \E y \in regions' : a = <<"page", y>>
                                \/ \E y \in Zones' : a = <<"zone", Extent(y, ZonePages)>>
    BY DEF Areas
  <2>7. \A a : a \in Areas' <=> \/ \E y \in Range(list') : a = <<"free", y>>
                                \/ a \in Areas /\ a # <<t, x>> /\ \A y : a # <<"free", y>>
    <3>1. ASSUME NEW y PROVE /\ \A v : <<"page", y>> # <<"free", v>> /\ <<"zone", y>> # <<"free", v>>
                             /\ <<"zone", y>> = <<t, x>> <=> y = x
                             /\ <<"page", y>> # <<t, x>>
      BY <2>5, Tags
    <3>2. \A y : Extent(y, ZonePages) = x <=> y = z
      <4>1. \A y : Extent(y, ZonePages).at = y
        BY DEF Extent
      <4>2. ASSUME NEW y, Extent(y, ZonePages) = x PROVE y = z
        BY <2>4, <4>1, <4>2
      <4>3. QED BY <2>3, <4>2
    <3>3. ASSUME NEW a PROVE (\E y \in Zones' : a = <<"zone", Extent(y, ZonePages)>>)
                        <=> (\E y \in Zones : a = <<"zone", Extent(y, ZonePages)>>) /\ a # <<t, x>>
      BY <2>1, <3>1, <3>2
    <3>4. ASSUME NEW a PROVE (\E y \in regions : a = <<"page", y>>)
                             => a # <<t, x>> /\ \A y : a # <<"free", y>>
      BY <3>1
    <3>5. ASSUME NEW a PROVE (\E y \in Zones : a = <<"zone", Extent(y, ZonePages)>>)
                             => \A y : a # <<"free", y>>
      BY <3>1
    <3>6. ASSUME NEW a
          PROVE  a \in Areas /\ a # <<t, x>> /\ (\A y : a # <<"free", y>>)
                   <=> \/ \E y \in regions : a = <<"page", y>>
                       \/ \E y \in Zones' : a = <<"zone", Extent(y, ZonePages)>>
      BY <3>3, <3>4, <3>5, AreaIs
    <3>7. QED BY <2>2, <2>6, <3>6
  <2>8. ASSUME ~misled'
        PROVE  /\ list' \in Seq(ExtentRec) /\ IsInjective(list') /\ Apart(Areas)' /\ Inside(Areas)'
               /\ Held \subseteq Held' \/ LostBeside(t, x)
    <3>1. list' = PageFree(x.at, x.n, word) /\ <<t, x>> \in Areas /\ ~Misleads(x.at, x.n, word)
      BY <2>2, <2>3, <2>4, <2>5, <2>8
    <3>2. QED BY <2>7, <3>1, FreeAreas
  <2>9. ASSUME ~misled' PROVE Joined
    <3>1. CASE Held \subseteq Held'
      BY <3>1 DEF Joined
    <3>2. CASE LostBeside(t, x)
      BY <2>3, <2>5, <3>2, LostJoined
    <3>3. QED BY <2>8, <2>9, <3>1, <3>2
  <2>10. usage \in [Pages -> UseRec] /\ FreePage \in UseRec
    BY DEF HeapInv, Types, FreePage, UseRec
  <2>11. /\ usage' \in [Pages -> UseRec]
         /\ \A pg \in Pages : pg \notin PagesOf(x) => usage'[pg] = usage[pg]
    BY <2>2, <2>3, <2>10
  <2>12. ZonesMarked'
    <3> SUFFICES ASSUME NEW y \in Zones, y # z, NEW pg \in ZonePagesOf(y)
                 PROVE usage'[pg] = [use |-> "zone", k |-> pg - y]
      BY <2>1 DEF ZonesMarked, ZonePagesOf
    <3>1. /\ <<"zone", Extent(y, ZonePages)>> \in Areas /\ pg \in Pages
          /\ PagesOf(Extent(y, ZonePages)) = ZonePagesOf(y)
      BY InvZone
    <3>2. Extent(y, ZonePages) # x
      <4>1. Extent(y, ZonePages).at = y
        BY DEF Extent
      <4>2. QED BY <2>4, <4>1
    <3>3. PagesOf(Extent(y, ZonePages)) \cap PagesOf(x) = {}
      BY <2>3, <3>1, <3>2, InvApart
    <3>4. pg \notin PagesOf(x)
      BY <3>1, <3>3
    <3>5. QED BY <2>11, <3>1, <3>4 DEF HeapInv, ZonesMarked
  <2>13. RegionsMarked'
    <3> SUFFICES ASSUME NEW y \in regions PROVE usage'[y.at] = [use |-> "page", k |-> y.n]
      BY <2>2 DEF RegionsMarked
    <3>1. y.at \in PagesOf(y) /\ y.at \in Pages /\ <<"page", y>> \in Areas
      BY InvRegion
    <3>2. PagesOf(y) \cap PagesOf(x) = {}
      BY <2>3, <3>1, Tags, InvApart
    <3>3. y.at \notin PagesOf(x)
      BY <3>1, <3>2
    <3>4. QED BY <2>11, <3>1, <3>3 DEF HeapInv, RegionsMarked
  <2>14. MarksOK'
    BY <2>2, <2>11, <2>12, <2>13 DEF MarksOK, HeapInv, Types
  <2>15. ASSUME ~misled' PROVE HeapInv'
    <3>1. PagesOK'
      BY <2>8, <2>14, <2>15 DEF PagesOK, MarksOK
    <3>2. QED BY <2>1, <3>1 DEF HeapInv, Types, PagesOK, ZonesOK
  <2>16. QED BY <2>1, <2>9, <2>14, <2>15
<1>4. QED BY <1>2, <1>3
-----------------------------------------------------------------------------
(* After init the free list has one extent, of all pages but the array's.  *)
LEMMA InitInv ==
  ASSUME Init
  PROVE  HeapInv
<1>1. PICK x : x = Extent(1, NPages - 1)
  OBVIOUS
<1>2. /\ x \in ExtentRec /\ x.n > 0 /\ PagesOf(x) = 1 .. NPages - 1
  BY <1>1, HeapAssumption, SMTT(40) DEF ExtentRec, Extent, PagesOf
<1>3. list = <<x>> /\ list \in Seq(ExtentRec) /\ Range(list) = {x} /\ IsInjective(list)
  <2>1. list = <<x>> /\ list \in Seq(ExtentRec) /\ DOMAIN list = {1} /\ list[1] = x
    BY <1>1, <1>2, SMTT(40) DEF Init
  <2>2. QED BY <2>1 DEF Range, IsInjective
<1>4. Zones = {}
  BY DEF Init, Zones
<1>5. Areas = {<<"free", x>>} /\ <<"free", x>>[2] = x
  <2>1. regions = {}
    BY DEF Init
  <2>2. \A a : a \in Areas <=> a = <<"free", x>>
    BY <1>3, <1>4, <2>1, AreaIs
  <2>3. QED BY <2>2, Tags
<1>6. Inside(Areas) /\ Apart(Areas)
  BY <1>2, <1>5 DEF Inside, Apart
<1>7. \A S : <<>> \in Seq(S)
  BY SMTT(40)
<1>8. FreePage \in UseRec /\ NoZone \in ZoneRec
  <2>1. 0 \in Nat /\ 0 \in 0 .. NMax
    BY HeapAssumption, SMTT(40)
  <2>2. QED BY <1>7, <2>1 DEF FreePage, UseRec, NoZone, ZoneRec
<1>9. usage \in [Pages -> UseRec] /\ zone \in [Pages -> ZoneRec] /\ array \in [Classes -> Seq(Pages)]
  BY <1>7, <1>8 DEF Init
<1>10. Len(spare) <= FreeLimit /\ spare \in Seq(Pages)
  <2>1. spare = <<>>
    BY DEF Init
  <2>2. QED BY <2>1, HeapAssumption, SMTT(40)
<1>11. Types
  BY <1>3, <1>9, <1>10 DEF Init, Types
<1>12. Range(<<>>) = {} /\ IsInjective(<<>>)
  <2>1. DOMAIN <<>> = {}
    BY SMTT(40)
  <2>2. QED BY <2>1 DEF Range, IsInjective
<1>13. ZonesMarked /\ RegionsMarked /\ ZonesTouched /\ ChunksInZones /\ SpareInZones /\ ChunksOnce
  BY <1>4, <1>12 DEF Init, ZonesMarked, RegionsMarked, ZonesTouched, ChunksInZones, SpareInZones,
     ChunksOnce
<1>14. ListsExact
  BY <1>4, <1>12 DEF Init, ListsExact
<1>15. QED BY <1>3, <1>6, <1>11, <1>13, <1>14 DEF HeapInv

(* What holds in every state: all of the invariant as long as page_free    *)
(* was not misled, and of the zones and the usage array even then.         *)
IInv == ZonesOK /\ MarksOK /\ (~misled => HeapInv)

(* The parts of the invariant.                                             *)
LEMMA Parts ==
  ASSUME HeapInv
  PROVE  ZonesOK /\ MarksOK
BY DEF HeapInv, Types, ZonesOK, MarksOK

(* A step is taken only before page_free was misled.                       *)
LEMMA NotMisled ==
  ASSUME Next
  PROVE  ~misled
BY DEF Next, Mallocs, MallocPages, MallocChunk, MallocSpareZone, MallocNewZone, FreePages, FreeChunk

(* Every step keeps the invariant, and joins on the left or is misled.     *)
LEMMA NextInv ==
  ASSUME IInv, Next
  PROVE  IInv' /\ (~misled' => Joined)
<1>1. HeapInv
  BY NotMisled DEF IInv
<1>2. ASSUME HeapInv', Held \subseteq Held' PROVE IInv' /\ Joined
  <2>1. ZonesOK' /\ MarksOK'
    BY <1>2 DEF HeapInv, Types, ZonesOK, MarksOK
  <2>2. QED BY <1>2, <2>1 DEF IInv, Joined
<1>3. CASE \E n \in 1 .. MaxRegion : MallocPages(n)
  BY <1>1, <1>2, <1>3, MallocPagesStep
<1>4. CASE \E c \in Classes : MallocChunk(c)
  BY <1>1, <1>2, <1>4, MallocChunkStep
<1>5. CASE \E c \in Classes : MallocSpareZone(c)
  BY <1>1, <1>2, <1>5, MallocSpareZoneStep
<1>6. CASE \E c \in Classes : MallocNewZone(c)
  BY <1>1, <1>2, <1>6, MallocNewZoneStep
<1>7. CASE \E x \in regions : \E word \in {left[x.at]} \cup Words : FreePages(x, word)
  BY <1>1, <1>7, FreePagesStep DEF IInv
<1>8. CASE \E chunk \in chunks, word \in Words : FreeChunk(chunk, word)
  BY <1>1, <1>8, FreeChunkStep DEF IInv
<1>9. QED BY <1>3, <1>4, <1>5, <1>6, <1>7, <1>8 DEF Next, Mallocs

(* A step that changes no variable keeps the invariant.                    *)
LEMMA StutterInv ==
  ASSUME IInv, UNCHANGED vars
  PROVE  IInv'
<1>1. /\ list' = list /\ usage' = usage /\ zone' = zone /\ array' = array /\ spare' = spare
      /\ chunks' = chunks /\ regions' = regions /\ misled' = misled
  BY DEF vars
<1>2. Zones' = Zones /\ Areas' = Areas
  BY <1>1 DEF Zones, Areas
<1>3. ZonesOK'
  BY <1>1, <1>2 DEF IInv, ZonesOK, ZonesTouched, ChunksInZones, SpareInZones, ChunksOnce, ListsExact
<1>4. MarksOK'
  BY <1>1, <1>2 DEF IInv, MarksOK, ZonesMarked, RegionsMarked, ZonePagesOf
<1>5. ASSUME ~misled' PROVE HeapInv'
  <2>1. HeapInv
    BY <1>1, <1>5 DEF IInv
  <2>2. Types'
    BY <1>1, <2>1 DEF HeapInv, Types
  <2>3. IsInjective(list)' /\ Inside(Areas)' /\ Apart(Areas)'
    BY <1>1, <1>2, <2>1 DEF HeapInv, Inside, Apart
  <2>4. QED BY <1>3, <1>4, <2>2, <2>3 DEF HeapInv, ZonesOK, MarksOK
<1>6. QED BY <1>3, <1>4, <1>5 DEF IInv

(* The invariant holds in every state.                                     *)
THEOREM HeapHolds == Spec => []IInv
<1>1. Init => IInv
  BY InitInv, Parts DEF IInv
<1>2. IInv /\ [Next]_vars => IInv'
  BY NextInv, StutterInv
<1>3. QED BY <1>1, <1>2, PTL DEF Spec

(* Extents, regions and zones lie in the heap, the lists have zones, and   *)
(* the counters of a zone stay between zero and NMax: z_nfree, which is    *)
(* unsigned, never wraps.                                                  *)
THEOREM HeapTypes == Spec => []HeapTypeOK
<1>1. ASSUME IInv PROVE HeapTypeOK
  <2>1. ASSUME ~misled, NEW x \in Range(list) \cup regions
        PROVE  PagesOf(x) # {} /\ PagesOf(x) \subseteq Pages
    <3>0. HeapInv
      BY <1>1, <2>1 DEF IInv
    <3>1. CASE x \in Range(list)
      BY <3>0, <3>1, FreeApart
    <3>2. CASE x \in regions
      <4>1. x.at \in PagesOf(x) /\ PagesOf(x) \subseteq 1 .. NPages - 1
        BY <3>0, <3>2, InvRegion
      <4>2. 1 .. NPages - 1 \subseteq Pages
        BY HeapAssumption, SMTT(40) DEF Pages
      <4>3. QED BY <4>1, <4>2
    <3>3. QED BY <2>1, <3>1, <3>2
  <2>2. /\ usage \in [Pages -> UseRec] /\ zone \in [Pages -> ZoneRec]
        /\ array \in [Classes -> Seq(Pages)] /\ spare \in Seq(Pages) /\ Len(spare) <= FreeLimit
    BY <1>1 DEF IInv, ZonesOK, MarksOK
  <2>3. ASSUME NEW pg \in Pages
        PROVE  /\ usage[pg].use \in {"free", "zone", "page"} /\ usage[pg].k \in Nat
               /\ zone[pg].nfree \in 0 .. NMax /\ zone[pg].uindex \in 0 .. NMax
    <3>1. usage[pg] \in UseRec /\ zone[pg] \in ZoneRec
      BY <2>2
    <3>2. QED BY <3>1, SMTT(40) DEF UseRec, ZoneRec
  <2>4. \A s \in Seq(Pages) : Range(s) \subseteq Pages
    BY SMTT(40) DEF Range
  <2>5. \A c \in Classes : Range(array[c]) \subseteq Pages
    BY <2>2, <2>4
  <2>6. QED BY <2>1, <2>2, <2>3, <2>4, <2>5 DEF HeapTypeOK
<1>2. QED BY <1>1, HeapHolds, PTL

(* No page belongs to two of the free extents, the regions and the zones,  *)
(* whatever words page_free finds in the pages it is given, unless one of  *)
(* them made it join an extent that is not beside them: there is no other  *)
(* way in which two owners come to share memory.                           *)
THEOREM HeapPagesApart == Spec => []PagesApart
<1>1. ASSUME IInv PROVE PagesApart
  <2> SUFFICES ASSUME ~misled PROVE OneOwner
    BY DEF PagesApart
  <2>1. 0 \notin 1 .. NPages - 1
    BY HeapAssumption, SMTT(40)
  <2>2. IsInjective(list) /\ Apart(Areas) /\ \A a \in Areas : 0 \notin PagesOf(a[2])
    BY <1>1, <2>1 DEF IInv, HeapInv, Inside
  <2>3. QED BY <2>2 DEF OneOwner, Apart
<1>2. QED BY <1>1, HeapHolds, PTL

(* The chunks of a zone in use, freed and untouched make up all of it,     *)
(* each once, and z_nfree counts those not in use.                         *)
THEOREM HeapChunksOnce == Spec => []ChunksOnce
<1>1. IInv => ChunksOnce
  BY DEF IInv, ZonesOK
<1>2. QED BY <1>1, HeapHolds, PTL

(* The list of a class has exactly its zones with free chunks, each once,  *)
(* and the zones of ZONE_FREE have no chunk in use.                        *)
THEOREM HeapListsExact == Spec => []ListsExact
<1>1. IInv => ListsExact
  BY DEF IInv, ZonesOK
<1>2. QED BY <1>1, HeapHolds, PTL

(* free finds the zone or the region an address was given out of.          *)
THEOREM HeapUsageLeadsHome == Spec => []UsageLeadsHome
<1>1. ASSUME IInv PROVE UsageLeadsHome
  <2>1. ASSUME NEW chunk \in chunks
        PROVE  /\ usage[PageOf(chunk)].use = "zone"
               /\ PageOf(chunk) - usage[PageOf(chunk)].k = chunk[1]
    <3>1. ZonesOK /\ ZonesMarked
      BY <1>1 DEF IInv, MarksOK
    <3>2. QED BY <3>1, ChunkHome
  <2>2. \A x \in regions : usage[x.at] = [use |-> "page", k |-> x.n]
    BY <1>1 DEF IInv, MarksOK, RegionsMarked
  <2>3. QED BY <2>1, <2>2 DEF UsageLeadsHome
<1>2. QED BY <1>1, HeapHolds, PTL

(* page_free, unless it is misled, loses pages only when no free extent    *)
(* ends where they begin.                                                  *)
THEOREM HeapJoinedOnTheLeft == Spec => JoinedOnTheLeft
<1>1. IInv /\ [Next]_vars => [~misled' => Joined]_vars
  BY NextInv
<1>2. QED BY <1>1, HeapHolds, PTL DEF Spec, JoinedOnTheLeft, Joined
=============================================================================
