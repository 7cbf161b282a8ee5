---------------------------- MODULE Volume_chains ---------------------------
(***************************************************************************)
(* A FAT volume stays sound through any sequence of operations and power   *)
(* cuts, for any number of names and clusters and any sizes.               *)
(*                                                                         *)
(* What a cut leaves is an earlier state of the volume, so everything that *)
(* mounting it again relies on is an invariant of the volume alone         *)
(* (Solid), in each step of each operation; the rest of the invariant      *)
(* relates the objects in memory to it.                                    *)
(***************************************************************************)
EXTENDS Volume, FiniteSetTheorems, WellFoundedInduction, TLAPS

(* Leaves that name no prover are Zenon's; those that reason about numbers, *)
(* records or updates of functions name the SMT solver.                     *)
USE ZenonT(60)

Cell == Clusters \cup {None}
Counts == (0 .. Total) \cup {Unknown}
Entry == [first : Cell, size : 0 .. MaxSize, dir : BOOLEAN]
Fat == [Clusters -> {Free, End} \cup Clusters]
Image == [fat : Fat, dir : [Names -> Entry \cup {NoEntry}], data : [Clusters -> Names \cup {Blank}],
          flag : BOOLEAN, free : Counts]
FsRec == [up : BOOLEAN, free : Counts, dirty : BOOLEAN, flag0 : BOOLEAN, flag : BOOLEAN]
FileRec == [first : Cell, cur : Cell, off : 0 .. MaxSize, size : 0 .. MaxSize, dirty : BOOLEAN]
Ops == {"none", "sync", "drop", "unmount", "close", "create", "alloc", "link", "data",
        "mkdir", "zero", "dirent", "dots", "free", "freed", "unlist"}
JobRec == [op : Ops, name : Names \cup {Blank}, c : Cell, count : Nat, mark : BOOLEAN]

Types ==
  /\ vol \in Image /\ saved \in Image
  /\ fs \in FsRec
  /\ file \in [Names -> FileRec \cup {Closed}]
  /\ job \in JobRec

(* Without a FileSystem there is nothing in memory.                        *)
DownIs == ~fs.up => fs = Down /\ job = Idle /\ saved = vol /\ \A n \in Names : ~Open(n)

(* Chains that start at the heads h: no cluster is the first of two files, *)
(* or has two predecessors, or both, and none that has one is free.        *)
Apart(fat, h) ==
  /\ \A m, n \in Names : m # n /\ h[m] # None => h[m] # h[n]
  /\ \A n \in Names, c \in Clusters : h[n] # None => fat[c] # h[n]
  /\ \A c, d \in Clusters : c # d /\ fat[c] \in Clusters => fat[c] # fat[d]
  /\ \A c \in Clusters : fat[c] \in Clusters => fat[fat[c]] # Free
DirHeads(v) == [n \in Names |-> v.dir[n].first]
HeadsOf(v, f) == [n \in Names |-> IF f[n] # Closed THEN f[n].first ELSE v.dir[n].first]

(* The chain from first holds size bytes, which were written for n.        *)
Bytes(v, first, size, n) ==
  \A i \in 0 .. ClustersFromBytes(size) - 1 :
    Nth(v, first, i) # None /\ v.data[Nth(v, first, i)] = n
ShownAt(v, n) ==
  Listed(v, n) /\ ~v.dir[n].dir /\ ~Dangling(v, n) => Bytes(v, v.dir[n].first, v.dir[n].size, n)

(* Whatever is in memory, the volume and what a cut leaves of it.          *)
Solid(v) == Apart(v.fat, DirHeads(v)) /\ \A n \in Names : ShownAt(v, n)

(* An open file r, its chain and its entry.                                *)
Laid(v, r, n) ==
  /\ r.first # None => v.fat[r.first] # Free
  /\ r.off <= r.size
  /\ Bytes(v, r.first, r.size, n)
  /\ r.cur = IF r.off = 0 THEN None ELSE Nth(v, r.first, ClustersFromBytes(r.off) - 1)
Fits(v, r, n) ==
  /\ Listed(v, n) /\ ~v.dir[n].dir
  /\ v.dir[n].first \in {None, r.first}
  /\ r.dirty \/ v.dir[n].first = r.first
  /\ Laid(v, r, n)

Chained ==
  /\ Solid(saved)
  /\ Apart(vol.fat, HeadsOf(vol, file))
  /\ \A n \in Names : ShownAt(vol, n) /\ (Open(n) => Fits(vol, file[n], n))

(* Entries lead to free clusters only while they are removed.              *)
Removals ==
  fs.up => \A n \in Names :
    /\ Dangling(vol, n) => Removing(n)
    /\ Dangling(saved, n) => Removing(n) \/ (vol.dir[n] = NoEntry /\ job.op = "sync")

(* A cluster in use that no chain has: nobody's next and, n aside, nobody's *)
(* first.                                                                  *)
Loose(fat, h, c, n) ==
  /\ c \in Clusters /\ fat[c] # Free
  /\ \A d \in Clusters : fat[d] # c
  /\ \A m \in Names \ {n} : h[m] # c

(* What the operation in progress can count on.                            *)
OnName ==
  /\ job.op \in {"create", "mkdir", "zero", "dirent"} =>
       job.name \in Names /\ ~Open(job.name) /\ vol.dir[job.name] = NoEntry
  /\ job.op \in {"link", "zero", "dirent"} =>
       Loose(vol.fat, HeadsOf(vol, file), job.c, Blank) /\ vol.fat[job.c] = End
  /\ job.op = "dots" =>
       /\ job.name \in Names /\ ~Open(job.name)
       /\ vol.dir[job.name].dir /\ vol.dir[job.name].first = job.c /\ job.c # None
OnFile ==
  /\ job.op = "drop" => job.name \in Names /\ Open(job.name) /\ ~file[job.name].dirty
  /\ job.op \in {"alloc", "link", "data"} =>
       /\ job.name \in Names /\ Open(job.name)
       /\ job.count > 0 /\ job.count <= ClusterSize - (file[job.name].off % ClusterSize)
       /\ file[job.name].off + job.count <= MaxSize
       /\ AtOffset(job.name) = IF job.op = "data" THEN job.c ELSE None
       /\ job.op = "data" => job.c # None
OnRemoval ==
  job.op \in {"free", "freed", "unlist"} =>
    /\ job.name \in Names /\ ~Open(job.name) /\ Listed(vol, job.name)
    /\ job.op = "free" => Loose(vol.fat, HeadsOf(vol, file), job.c, job.name)
    /\ \/ Dangling(vol, job.name)
       \/ job.op = "free" /\ vol.dir[job.name].first = job.c
       \/ job.op = "unlist" /\ vol.dir[job.name].first = None
Jobs ==
  /\ job.op = "none" => job = Idle
  /\ job.mark => job.op \in {"create", "alloc", "data", "link", "zero", "free", "freed", "unlist"}
  /\ job.op \in {"unmount", "close"} => ~fs.dirty /\ \A n \in Names : ~Open(n)
  /\ OnName /\ OnFile /\ OnRemoval

(* The flag and the count on the disk, and what the FileSystem knows.      *)
Flags ==
  fs.up =>
    /\ job.op # "close" => fs.flag = vol.flag
    /\ fs.flag0 => vol.flag
    /\ ~fs.flag0 /\ ~fs.dirty => vol.free = fs.free
    /\ Miscounted(vol) => job.mark

VolumeInv ==
  Types /\ DownIs /\ Chained /\ Removals /\ Jobs /\ Flags /\ CountExact /\ FlagCoversCount
-----------------------------------------------------------------------------
(* A set of numbers has a least one.                                       *)
LEMMA LeastNumber ==
  ASSUME NEW S \in SUBSET Nat, S # {}
  PROVE  \E x \in S : \A y \in S : x <= y
<1>1. PICK x \in S : \A y \in S : ~ (<<y, x>> \in OpToRel(<, Nat))
  BY NatLessThanWellFounded, WFMin
<1>2. \A y \in Nat : y < x => <<y, x>> \in OpToRel(<, Nat)
  BY DEF OpToRel
<1>3. \A y \in S : ~(y < x)
  BY <1>1, <1>2
<1> QED
  BY <1>3, SMTT(40)

(* Which clusters b bytes reach.                                           *)
LEMMA Reaches ==
  ASSUME NEW b \in Nat
  PROVE  /\ ClustersFromBytes(b) \in Nat
         /\ \A i \in Nat : i < ClustersFromBytes(b) <=> i * ClusterSize < b
<1> DEFINE q == ClustersFromBytes(b)
<1>1. ClusterSize \in Nat /\ ClusterSize > 0
  BY VolumeAssumption, SMTT(40)
<1>2. /\ q \in Nat /\ ClusterSize * q <= b + ClusterSize - 1
      /\ b + ClusterSize - 1 < ClusterSize * q + ClusterSize
  BY <1>1, Z3T(40) DEF ClustersFromBytes
<1> HIDE DEF q
<1>3. ASSUME NEW i \in Nat PROVE i < q <=> i * ClusterSize < b
  <2>1. ASSUME i < q PROVE i * ClusterSize < b
    <3>1. ClusterSize * (i + 1) <= ClusterSize * q
      BY <1>1, <1>2, <2>1, Z3T(40)
    <3>2. ClusterSize * (i + 1) = i * ClusterSize + ClusterSize /\ i * ClusterSize \in Nat
      BY <1>1, Z3T(40)
    <3>3. QED BY <1>1, <1>2, <3>1, <3>2, SMTT(40)
  <2>2. ASSUME ~(i < q) PROVE ~(i * ClusterSize < b)
    <3>1. ClusterSize * q <= i * ClusterSize /\ i * ClusterSize \in Nat /\ ClusterSize * q \in Nat
      BY <1>1, <1>2, <2>2, Z3T(40)
    <3>2. QED BY <1>1, <1>2, <3>1, SMTT(40)
  <2>3. QED BY <2>1, <2>2
<1>4. QED BY <1>2, <1>3 DEF q

(* The cluster a position is in, if the position is not before its start   *)
(* and not after its end.                                                  *)
LEMMA Within ==
  ASSUME NEW o \in Nat, NEW k \in Nat, k * ClusterSize < o, o <= k * ClusterSize + ClusterSize
  PROVE  ClustersFromBytes(o) - 1 = k
<1>1. ClusterSize \in Nat /\ ClustersFromBytes(o) \in Nat
  BY VolumeAssumption, Reaches
<1>2. (k + 1) * ClusterSize = k * ClusterSize + ClusterSize /\ k * ClusterSize \in Nat
  BY <1>1, Z3T(40)
<1>3. k < ClustersFromBytes(o) /\ ~(k + 1 < ClustersFromBytes(o))
  BY <1>1, <1>2, Reaches, SMTT(40)
<1>4. QED BY <1>1, <1>3, SMTT(40)

(* A position within a size.                                               *)
LEMMA InSize ==
  ASSUME NEW o \in Nat, NEW size \in Nat, o # 0, o <= size
  PROVE  ClustersFromBytes(o) - 1 \in 0 .. ClustersFromBytes(size) - 1
<1>1. /\ ClustersFromBytes(o) \in Nat /\ ClustersFromBytes(size) \in Nat
      /\ \A i \in Nat : i < ClustersFromBytes(o) <=> i * ClusterSize < o
      /\ \A i \in Nat : i < ClustersFromBytes(size) <=> i * ClusterSize < size
  BY Reaches
<1>2. 0 < ClustersFromBytes(o)
  BY <1>1, VolumeAssumption, SMTT(40)
<1>3. PICK i \in Nat : i = ClustersFromBytes(o) - 1
  BY <1>1, <1>2, SMTT(40)
<1>4. i * ClusterSize < o /\ i * ClusterSize \in Nat
  BY <1>1, <1>3, VolumeAssumption, SMTT(40)
<1>5. i * ClusterSize < size
  BY <1>4, SMTT(40)
<1>6. i < ClustersFromBytes(size)
  BY <1>1, <1>5
<1>7. QED BY <1>1, <1>3, <1>6, SMTT(40)

(* Positions and clusters.                                                 *)
LEMMA Offsets ==
  ASSUME NEW o \in Nat
  PROVE  /\ o \div ClusterSize \in Nat /\ o % ClusterSize \in Nat /\ o % ClusterSize < ClusterSize
         /\ (o \div ClusterSize) * ClusterSize \in Nat
         /\ o = (o \div ClusterSize) * ClusterSize + (o % ClusterSize)
BY VolumeAssumption, Z3T(40)
-----------------------------------------------------------------------------
(* The i-th cluster of a chain.                                            *)
Follow(v, c) == IF c = None THEN None ELSE NextCluster(v, c)
Walk(v, first, i, f) == f = [k \in 0 .. i |-> IF k = 0 THEN first ELSE Follow(v, f[k - 1])]

(* The recursive function of Nth exists.                                   *)
LEMMA WalkExists ==
  ASSUME NEW v, NEW first, NEW i \in Nat
  PROVE  \E f : Walk(v, first, i, f)
<1> DEFINE S == {j \in Nat : ~\E f : Walk(v, first, j, f)}
<1>1. SUFFICES ASSUME S # {} PROVE FALSE
  OBVIOUS
<1>2. PICK j \in S : \A y \in S : j <= y
  BY <1>1, LeastNumber
<1>3. CASE j = 0
  <2>1. Walk(v, first, 0, [k \in 0 .. 0 |-> first])
    <3>1. \A k \in 0 .. 0 : k = 0
      BY SMTT(40)
    <3>2. QED BY <3>1 DEF Walk
  <2>2. QED BY <1>2, <1>3, <2>1
<1>4. CASE j # 0
  <2>1. j - 1 \in Nat /\ ~(j <= j - 1)
    BY <1>2, <1>4, SMTT(40)
  <2>2. PICK f : Walk(v, first, j - 1, f)
    BY <1>2, <2>1
  <2> DEFINE g == [k \in 0 .. j |-> IF k = 0 THEN first ELSE Follow(v, f[k - 1])]
  <2>3. \A k \in 0 .. j : k # 0 => k - 1 \in 0 .. j - 1 /\ k - 1 \in 0 .. j
    BY <1>2, SMTT(40)
  <2>4. \A k \in 0 .. j - 1 : k \in 0 .. j
    BY <1>2, SMTT(40)
  <2>5. \A k \in 0 .. j - 1 : f[k] = IF k = 0 THEN first ELSE Follow(v, f[k - 1])
    BY <2>2 DEF Walk
  <2>6. \A k \in 0 .. j - 1 : g[k] = f[k]
    BY <2>4, <2>5
  <2>7. g = [k \in 0 .. j |-> IF k = 0 THEN first ELSE Follow(v, g[k - 1])]
    BY <2>3, <2>6
  <2>8. QED BY <1>2, <2>7 DEF Walk
<1>5. QED BY <1>3, <1>4

(* Two walks from one cluster agree as far as both go.                     *)
LEMMA WalksAgree ==
  ASSUME NEW v, NEW first, NEW i \in Nat, NEW j \in Nat, NEW f, NEW g,
         Walk(v, first, i, f), Walk(v, first, j, g), NEW k \in Nat, k <= i, k <= j
  PROVE  f[k] = g[k]
<1> DEFINE S == {l \in Nat : l <= i /\ l <= j /\ f[l] # g[l]}
<1>1. SUFFICES ASSUME S # {} PROVE FALSE
  OBVIOUS
<1>2. PICK l \in S : \A y \in S : l <= y
  BY <1>1, LeastNumber
<1>3. l \in 0 .. i /\ l \in 0 .. j
  BY <1>2, SMTT(40)
<1>4. /\ f[l] = IF l = 0 THEN first ELSE Follow(v, f[l - 1])
      /\ g[l] = IF l = 0 THEN first ELSE Follow(v, g[l - 1])
  BY <1>3 DEF Walk
<1>5. l # 0
  BY <1>2, <1>4
<1>6. l - 1 \in Nat /\ l - 1 <= i /\ l - 1 <= j /\ ~(l <= l - 1)
  BY <1>2, <1>5, SMTT(40)
<1>7. f[l - 1] = g[l - 1]
  BY <1>2, <1>6
<1>8. QED BY <1>2, <1>4, <1>7

(* What Nth computes.                                                      *)
LEMMA NthWalk ==
  ASSUME NEW v, NEW first, NEW i \in Nat
  PROVE  \E f : Walk(v, first, i, f) /\ Nth(v, first, i) = f[i]
<1> DEFINE P(f) == f = [k \in 0 .. i |-> IF k = 0 THEN first
                         ELSE IF f[k - 1] = None THEN None ELSE NextCluster(v, f[k - 1])]
           g == CHOOSE f : P(f)
<1>1. \E f : P(f)
  <2>1. PICK f : Walk(v, first, i, f)
    BY WalkExists
  <2>2. P(f)
    BY <2>1 DEF Walk, Follow
  <2>3. QED BY <2>2
<1>2. P(g)
  BY <1>1
<1>3. Nth(v, first, i) = g[i]
  BY DEF Nth
<1>4. Walk(v, first, i, g)
  BY <1>2 DEF Walk, Follow
<1>5. QED BY <1>3, <1>4

(* The equations of Nth: its first cluster.                                *)
LEMMA NthFirst ==
  ASSUME NEW v, NEW first
  PROVE  Nth(v, first, 0) = first
<1>1. PICK f : Walk(v, first, 0, f) /\ Nth(v, first, 0) = f[0]
  BY NthWalk
<1>2. 0 \in 0 .. 0
  BY SMTT(40)
<1>3. QED BY <1>1, <1>2 DEF Walk

(* The one after a cluster.                                                *)
LEMMA NthNext ==
  ASSUME NEW v, NEW first, NEW i \in Nat
  PROVE  Nth(v, first, i + 1) = Follow(v, Nth(v, first, i))
<1>0. /\ i + 1 \in Nat /\ i + 1 \in 0 .. i + 1 /\ i + 1 # 0 /\ (i + 1) - 1 = i
      /\ i <= i /\ i <= i + 1
  BY SMTT(40)
<1>1. PICK f : Walk(v, first, i, f) /\ Nth(v, first, i) = f[i]
  BY NthWalk
<1>2. PICK g : Walk(v, first, i + 1, g) /\ Nth(v, first, i + 1) = g[i + 1]
  BY <1>0, NthWalk
<1>3. f[i] = g[i]
  <2>1. /\ i \in Nat /\ i + 1 \in Nat /\ i <= i /\ i <= i + 1
        /\ Walk(v, first, i, f) /\ Walk(v, first, i + 1, g)
    BY <1>0, <1>1, <1>2
  <2>2. QED BY ONLY <2>1, WalksAgree, SMTT(40)
<1>4. g[i + 1] = Follow(v, g[(i + 1) - 1])
  BY <1>0, <1>2 DEF Walk
<1>5. QED BY <1>0, <1>1, <1>2, <1>3, <1>4

(* A chain consists of clusters, and ends once.                            *)
LEMMA NthCell ==
  ASSUME NEW v, NEW first \in Cell, NEW i \in Nat
  PROVE  /\ Nth(v, first, i) \in Cell
         /\ Nth(v, first, i + 1) # None => Nth(v, first, i) # None
<1>0. \A c : Follow(v, c) \in Cell
  BY DEF Follow, NextCluster, Linked, Cell
<1>1. Nth(v, first, i + 1) # None => Nth(v, first, i) # None
  BY NthNext DEF Follow
<1>2. CASE i = 0
  BY <1>1, <1>2, NthFirst
<1>3. CASE i # 0
  <2>1. i - 1 \in Nat /\ (i - 1) + 1 = i
    BY <1>3, SMTT(40)
  <2>2. Nth(v, first, (i - 1) + 1) = Follow(v, Nth(v, first, i - 1))
    BY <2>1, NthNext
  <2>3. QED BY <1>0, <1>1, <2>1, <2>2
<1>4. QED BY <1>2, <1>3

(* A cluster of a chain that is not its first follows another.             *)
LEMMA NthPrevious ==
  ASSUME NEW v, NEW first \in Cell, NEW i \in Nat, i # 0, Nth(v, first, i) # None
  PROVE  /\ i - 1 \in Nat /\ Nth(v, first, i - 1) \in Clusters
         /\ Linked(v, Nth(v, first, i - 1))
         /\ Nth(v, first, i) = v.fat[Nth(v, first, i - 1)]
<1>1. i - 1 \in Nat /\ (i - 1) + 1 = i
  BY SMTT(40)
<1>2. Nth(v, first, (i - 1) + 1) = Follow(v, Nth(v, first, i - 1))
  BY <1>1, NthNext
<1>3. Nth(v, first, i - 1) \in Cell
  BY <1>1, NthCell
<1>4. QED BY <1>1, <1>2, <1>3 DEF Follow, NextCluster, Cell

(* A change of the table that leaves the links of a chain leaves the       *)
(* chain.                                                                  *)
LEMMA NthKept ==
  ASSUME NEW v, NEW w, NEW first \in Cell,
         \A j \in Nat : LET c == Nth(v, first, j) IN
           c \in Clusters /\ Linked(v, c) => w.fat[c] = v.fat[c],
         NEW i \in Nat, Nth(v, first, i) # None
  PROVE  Nth(w, first, i) = Nth(v, first, i)
<1> DEFINE S == {j \in Nat : Nth(v, first, j) # None /\ Nth(w, first, j) # Nth(v, first, j)}
<1>1. SUFFICES ASSUME S # {} PROVE FALSE
  OBVIOUS
<1>2. PICK j \in S : \A y \in S : j <= y
  BY <1>1, LeastNumber
<1>3. j # 0
  BY <1>2, NthFirst
<1>4. /\ j - 1 \in Nat /\ Nth(v, first, j - 1) \in Clusters
      /\ Linked(v, Nth(v, first, j - 1))
      /\ Nth(v, first, j) = v.fat[Nth(v, first, j - 1)]
  BY <1>2, <1>3, NthPrevious
<1>5. ~(j <= j - 1) /\ (j - 1) + 1 = j
  BY <1>2, SMTT(40)
<1>6. None \notin Clusters
  BY VolumeAssumption DEF None
<1>7. Nth(w, first, j - 1) = Nth(v, first, j - 1)
  BY <1>2, <1>4, <1>5, <1>6
<1>8. Nth(w, first, (j - 1) + 1) = Follow(w, Nth(w, first, j - 1))
  BY <1>4, NthNext
<1>9. QED BY <1>2, <1>4, <1>5, <1>6, <1>7, <1>8 DEF Follow, NextCluster, Linked

(* A cluster without predecessor is on no chain but its own.               *)
LEMMA NthAvoids ==
  ASSUME NEW v, NEW first \in Cell, NEW d \in Clusters, d # first,
         \A c \in Clusters : v.fat[c] # d, NEW i \in Nat
  PROVE  Nth(v, first, i) # d
<1>1. None \notin Clusters
  BY VolumeAssumption DEF None
<1>2. CASE i = 0
  BY <1>2, NthFirst
<1>3. CASE i # 0
  <2>1. ASSUME Nth(v, first, i) # None PROVE Nth(v, first, i) # d
    <3>1. /\ Nth(v, first, i - 1) \in Clusters
          /\ Nth(v, first, i) = v.fat[Nth(v, first, i - 1)]
      BY <1>3, <2>1, NthPrevious
    <3>2. QED BY <3>1
  <2>2. QED BY <1>1, <2>1
<1>4. QED BY <1>2, <1>3

(* Clusters of a chain are in use.                                         *)
LEMMA NthUsed ==
  ASSUME NEW v, NEW first \in Cell, first # None => v.fat[first] # Free,
         \A c \in Clusters : v.fat[c] \in Clusters => v.fat[v.fat[c]] # Free,
         NEW i \in Nat, Nth(v, first, i) # None
  PROVE  v.fat[Nth(v, first, i)] # Free
<1>1. CASE i = 0
  BY <1>1, NthFirst
<1>2. CASE i # 0
  <2>1. /\ Nth(v, first, i - 1) \in Clusters /\ Linked(v, Nth(v, first, i - 1))
        /\ Nth(v, first, i) = v.fat[Nth(v, first, i - 1)]
    BY <1>2, NthPrevious
  <2>2. QED BY <2>1 DEF Linked
<1>3. QED BY <1>1, <1>2

(* Chains from different heads have no cluster in common.                  *)
LEMMA ChainsDisjoint ==
  ASSUME NEW v, NEW h \in [Names -> Cell], Apart(v.fat, h), NEW m \in Names, NEW n \in Names, m # n,
         NEW i \in Nat, NEW j \in Nat, Nth(v, h[m], i) # None
  PROVE  Nth(v, h[m], i) # Nth(v, h[n], j)
<1> DEFINE S == {k \in Nat : Nth(v, h[m], k) # None
                             /\ \E l \in Nat : Nth(v, h[m], k) = Nth(v, h[n], l)}
<1>1. SUFFICES ASSUME S # {} PROVE FALSE
  OBVIOUS
<1>2. PICK k \in S : \A y \in S : k <= y
  BY <1>1, LeastNumber
<1>3. PICK l \in Nat : Nth(v, h[m], k) = Nth(v, h[n], l)
  BY <1>2
<1>4. h[m] \in Cell /\ h[n] \in Cell /\ None \notin Clusters
  BY VolumeAssumption DEF None
<1>5. ASSUME k # 0
      PROVE  /\ k - 1 \in Nat /\ Nth(v, h[m], k - 1) \in Clusters
             /\ Linked(v, Nth(v, h[m], k - 1))
             /\ Nth(v, h[m], k) = v.fat[Nth(v, h[m], k - 1)]
  BY <1>2, <1>4, <1>5, NthPrevious
<1>6. ASSUME l # 0
      PROVE  /\ l - 1 \in Nat /\ Nth(v, h[n], l - 1) \in Clusters
             /\ Linked(v, Nth(v, h[n], l - 1))
             /\ Nth(v, h[n], l) = v.fat[Nth(v, h[n], l - 1)]
  BY <1>2, <1>3, <1>4, <1>6, NthPrevious
<1>7. CASE k = 0
  <2>1. Nth(v, h[m], k) = h[m] /\ h[m] # None
    BY <1>2, <1>7, NthFirst
  <2>2. CASE l = 0
    <3>1. Nth(v, h[n], l) = h[n]
      BY <2>2, NthFirst
    <3>2. QED BY <1>3, <2>1, <3>1 DEF Apart
  <2>3. CASE l # 0
    BY <1>3, <1>6, <2>1, <2>3 DEF Apart
  <2>4. QED BY <2>2, <2>3
<1>8. CASE k # 0
  <2>1. CASE l = 0
    <3>1. Nth(v, h[n], l) = h[n]
      BY <2>1, NthFirst
    <3>2. QED BY <1>2, <1>3, <1>5, <1>8, <3>1 DEF Apart
  <2>2. CASE l # 0
    <3>1. Nth(v, h[m], k - 1) = Nth(v, h[n], l - 1)
      BY <1>3, <1>5, <1>6, <1>8, <2>2 DEF Apart, Linked
    <3>2. ~(k <= k - 1)
      BY <1>2, SMTT(40)
    <3>3. QED BY <1>2, <1>4, <1>5, <1>6, <1>8, <2>2, <3>1, <3>2
  <2>3. QED BY <2>1, <2>2
<1>9. QED BY <1>7, <1>8
-----------------------------------------------------------------------------
(* What the types say of the parts.                                        *)
LEMMA Parts ==
  ASSUME NEW v \in Image
  PROVE  /\ v.fat \in Fat /\ v.flag \in BOOLEAN /\ v.free \in Counts
         /\ v.data \in [Clusters -> Names \cup {Blank}]
         /\ v.dir \in [Names -> Entry \cup {NoEntry}]
         /\ \A n \in Names : /\ v.dir[n].first \in Cell /\ v.dir[n].dir \in BOOLEAN
                             /\ v.dir[n].first # None => v.dir[n] # NoEntry
                             /\ v.dir[n] # NoEntry => v.dir[n] \in Entry /\ v.dir[n].size \in Nat
<1>1. /\ v.fat \in Fat /\ v.flag \in BOOLEAN /\ v.free \in Counts
      /\ v.data \in [Clusters -> Names \cup {Blank}]
      /\ v.dir \in [Names -> Entry \cup {NoEntry}]
  BY SMTT(40) DEF Image
<1>2. ASSUME NEW e \in Entry PROVE e.first \in Cell /\ e.dir \in BOOLEAN /\ e.size \in 0 .. MaxSize
  BY SMTT(40) DEF Entry
<1>3. NoEntry.first = None /\ NoEntry.dir \in BOOLEAN /\ None \in Cell
  BY SMTT(40) DEF NoEntry, Cell
<1>4. 0 .. MaxSize \subseteq Nat
  BY VolumeAssumption, SMTT(40)
<1>5. ASSUME NEW n \in Names
      PROVE  /\ v.dir[n].first \in Cell /\ v.dir[n].dir \in BOOLEAN
             /\ v.dir[n].first # None => v.dir[n] # NoEntry
             /\ v.dir[n] # NoEntry => v.dir[n] \in Entry /\ v.dir[n].size \in Nat
  <2>1. v.dir[n] \in Entry \/ v.dir[n] = NoEntry
    BY <1>1
  <2>2. QED BY <1>2, <1>3, <1>4, <2>1
<1>6. QED BY <1>1, <1>5

(* A closed file is no file.                                               *)
LEMMA ClosedIsNone == Closed \notin FileRec
<1>1. \A r \in FileRec : r.size \in 0 .. MaxSize
  BY SMTT(40) DEF FileRec
<1>2. Closed.size = -1 /\ -1 \notin 0 .. MaxSize
  BY SMTT(40) DEF Closed
<1>3. QED BY <1>1, <1>2

(* An open file.                                                           *)
LEMMA FileParts ==
  ASSUME Types, NEW n \in Names
  PROVE  /\ file[n].first \in Cell /\ file[n].cur \in Cell /\ file[n].dirty \in BOOLEAN
         /\ file[n].off \in Nat
         /\ Open(n) <=> file[n] \in FileRec
         /\ Open(n) => /\ file[n].size \in Nat /\ file[n].size <= MaxSize
                       /\ file[n].off \in 0 .. MaxSize /\ file[n].size \in 0 .. MaxSize
<1>1. file[n] \in FileRec \/ file[n] = Closed
  BY DEF Types
<1>2. ASSUME NEW r \in FileRec
      PROVE  /\ r.first \in Cell /\ r.cur \in Cell /\ r.dirty \in BOOLEAN /\ r.off \in 0 .. MaxSize
             /\ r.size \in 0 .. MaxSize
  BY SMTT(40) DEF FileRec
<1>3. /\ Closed.first = None /\ Closed.cur = None /\ Closed.dirty = FALSE /\ Closed.off = 0
      /\ Closed.size = -1 /\ None \in Cell
  BY SMTT(40) DEF Closed, Cell
<1>4. 0 .. MaxSize \subseteq Nat /\ 0 \in Nat /\ -1 \notin 0 .. MaxSize /\ \A x \in 0 .. MaxSize : x <= MaxSize
  BY VolumeAssumption, SMTT(40)
<1>5. QED BY <1>1, <1>2, <1>3, <1>4, ClosedIsNone DEF Open

(* The heads of chains.                                                    *)
LEMMA HeadTypes ==
  ASSUME Types
  PROVE  /\ HeadsOf(vol, file) \in [Names -> Cell]
         /\ \A n \in Names : /\ Open(n) => HeadsOf(vol, file)[n] = file[n].first
                             /\ ~Open(n) => HeadsOf(vol, file)[n] = vol.dir[n].first
         /\ \A v : \A n \in Names : DirHeads(v)[n] = v.dir[n].first
<1>1. \A n \in Names : file[n].first \in Cell /\ vol.dir[n].first \in Cell
  BY FileParts, Parts DEF Types
<1>2. QED BY <1>1 DEF HeadsOf, DirHeads, Open
-----------------------------------------------------------------------------
(* A change from v to w leaves the chain from first and the bytes n has in *)
(* it.                                                                     *)
Keeps(v, w, first, n) ==
  \A j \in Nat : LET c == Nth(v, first, j) IN
    c \in Clusters => /\ Linked(v, c) => w.fat[c] = v.fat[c]
                      /\ v.fat[c] = Free <=> w.fat[c] = Free
                      /\ v.data[c] = n => w.data[c] = n

(* The clusters of the bytes.                                              *)
LEMMA PlacesKept ==
  ASSUME NEW v, NEW w, NEW first \in Cell, NEW size \in Nat, NEW n,
         first = None \/ Keeps(v, w, first, n), Bytes(v, first, size, n),
         NEW i \in 0 .. ClustersFromBytes(size) - 1
  PROVE  /\ Nth(w, first, i) = Nth(v, first, i) /\ Nth(w, first, i) # None
         /\ w.data[Nth(w, first, i)] = n
<1>0. ClustersFromBytes(size) \in Nat
  BY Reaches
<1>1. i \in Nat /\ 0 \in 0 .. ClustersFromBytes(size) - 1
  BY <1>0, SMTT(40)
<1>2. Nth(v, first, i) # None /\ v.data[Nth(v, first, i)] = n /\ Nth(v, first, 0) # None
  BY <1>1 DEF Bytes
<1>3. first # None
  BY <1>2, NthFirst
<1>4. Keeps(v, w, first, n)
  BY <1>3
<1>5. \A j \in Nat : LET c == Nth(v, first, j) IN
        c \in Clusters /\ Linked(v, c) => w.fat[c] = v.fat[c]
  BY <1>4 DEF Keeps
<1>6. Nth(w, first, i) = Nth(v, first, i)
  BY <1>1, <1>2, <1>5, NthKept
<1>7. Nth(v, first, i) \in Clusters
  BY <1>1, <1>2, NthCell DEF Cell
<1>8. QED BY <1>1, <1>2, <1>4, <1>6, <1>7 DEF Keeps

(* The bytes.                                                              *)
LEMMA BytesKept ==
  ASSUME NEW v, NEW w, NEW first \in Cell, NEW size \in Nat, NEW n,
         first = None \/ Keeps(v, w, first, n), Bytes(v, first, size, n)
  PROVE  Bytes(w, first, size, n)
<1>1. ASSUME NEW i \in 0 .. ClustersFromBytes(size) - 1
      PROVE  Nth(w, first, i) # None /\ w.data[Nth(w, first, i)] = n
  BY ONLY first \in Cell, size \in Nat, first = None \/ Keeps(v, w, first, n),
          Bytes(v, first, size, n), i \in 0 .. ClustersFromBytes(size) - 1, PlacesKept, SMTT(40)
<1>2. QED BY <1>1 DEF Bytes

(* The first cluster of a chain.                                           *)
LEMMA FirstKept ==
  ASSUME NEW v, NEW w, NEW first \in Clusters, NEW n, Keeps(v, w, first, n)
  PROVE  v.fat[first] = Free <=> w.fat[first] = Free
<1>1. 0 \in Nat /\ Nth(v, first, 0) = first
  BY NthFirst, SMTT(40)
<1>2. QED BY <1>1 DEF Keeps

(* An entry.                                                               *)
LEMMA ShownKept ==
  ASSUME NEW v \in Image, NEW w, NEW n \in Names, w.dir[n] = v.dir[n],
         v.dir[n].first = None \/ Keeps(v, w, v.dir[n].first, n), ShownAt(v, n)
  PROVE  ShownAt(w, n) /\ (Dangling(w, n) <=> Dangling(v, n))
<1>1. v.dir[n].first \in Cell /\ (v.dir[n] # NoEntry => v.dir[n].size \in Nat)
  BY Parts
<1>2. ASSUME v.dir[n].first # None
      PROVE  v.fat[v.dir[n].first] = Free <=> w.fat[v.dir[n].first] = Free
  BY <1>1, <1>2, FirstKept DEF Cell
<1>3. Dangling(w, n) <=> Dangling(v, n)
  BY <1>2 DEF Dangling, Listed
<1>4. ASSUME Listed(w, n), ~w.dir[n].dir, ~Dangling(w, n)
      PROVE  Bytes(w, w.dir[n].first, w.dir[n].size, n)
  <2>1. Bytes(v, v.dir[n].first, v.dir[n].size, n) /\ v.dir[n].size \in Nat
    BY <1>1, <1>3, <1>4 DEF ShownAt, Listed
  <2>2. Bytes(w, v.dir[n].first, v.dir[n].size, n)
    <3>1. /\ v.dir[n].first = None \/ Keeps(v, w, v.dir[n].first, n)
          /\ v.dir[n].first \in Cell /\ v.dir[n].size \in Nat
      BY <1>1, <2>1
    <3>2. QED BY ONLY <2>1, <3>1, BytesKept, SMTT(40)
  <2>3. QED BY <2>2
<1>5. QED BY <1>3, <1>4 DEF ShownAt

(* An open file.                                                           *)
LEMMA LaidKept ==
  ASSUME NEW v, NEW w, NEW n \in Names, NEW r \in FileRec,
         r.first = None \/ Keeps(v, w, r.first, n), Laid(v, r, n)
  PROVE  Laid(w, r, n)
<1>1. /\ r.first \in Cell /\ r.off \in 0 .. MaxSize /\ r.size \in 0 .. MaxSize
      /\ 0 .. MaxSize \subseteq Nat
  BY VolumeAssumption, SMTT(40) DEF FileRec
<1>2. Bytes(v, r.first, r.size, n) /\ r.off <= r.size
  BY DEF Laid
<1>3. /\ Bytes(w, r.first, r.size, n)
      /\ \A i \in 0 .. ClustersFromBytes(r.size) - 1 : Nth(w, r.first, i) = Nth(v, r.first, i)
  <2>1. /\ r.first = None \/ Keeps(v, w, r.first, n)
        /\ r.first \in Cell /\ r.size \in Nat
    BY <1>1
  <2>2. Bytes(w, r.first, r.size, n)
    BY ONLY <1>2, <2>1, BytesKept, ZenonT(60)
  <2>3. ASSUME NEW i \in 0 .. ClustersFromBytes(r.size) - 1
        PROVE  Nth(w, r.first, i) = Nth(v, r.first, i)
    BY ONLY <1>2, <2>1, i \in 0 .. ClustersFromBytes(r.size) - 1, PlacesKept, ZenonT(60)
  <2>4. QED BY <2>2, <2>3
<1>4. ASSUME r.off # 0
      PROVE  ClustersFromBytes(r.off) - 1 \in 0 .. ClustersFromBytes(r.size) - 1
  BY <1>1, <1>2, <1>4, InSize
<1>5. ASSUME r.first # None PROVE w.fat[r.first] # Free
  <2>1. r.first \in Clusters /\ v.fat[r.first] # Free
    BY <1>1, <1>5 DEF Laid, Cell
  <2>2. QED BY <1>5, <2>1, FirstKept
<1>6. r.cur = IF r.off = 0 THEN None ELSE Nth(w, r.first, ClustersFromBytes(r.off) - 1)
  BY <1>3, <1>4 DEF Laid
<1>7. QED BY <1>2, <1>3, <1>5, <1>6 DEF Laid

(* With its entry.                                                         *)
LEMMA FitsKept ==
  ASSUME NEW v, NEW w, NEW n \in Names, w.dir[n] = v.dir[n], NEW r \in FileRec,
         r.first = None \/ Keeps(v, w, r.first, n), Fits(v, r, n)
  PROVE  Fits(w, r, n)
<1>1. Laid(w, r, n)
  <2>1. Laid(v, r, n)
    BY DEF Fits
  <2>2. QED BY <2>1, LaidKept
<1>2. QED BY <1>1 DEF Fits, Listed
-----------------------------------------------------------------------------
(* A value that is no cluster.                                             *)
LEMMA Distinct ==
  /\ None \notin Clusters /\ Free \notin Clusters /\ End \notin Clusters
  /\ Free # End /\ Free # None /\ End # None
  /\ BootBlock \notin Clusters /\ FatBlock \notin Clusters /\ DirBlock \notin Clusters
  /\ Blank \notin Names
BY VolumeAssumption DEF None, Free, End, BootBlock, FatBlock, DirBlock

(* A write to the table: a cluster is freed that none leads to, or a link  *)
(* to a cluster in use that is in no chain.                                *)
LEMMA ApartTable ==
  ASSUME NEW fat \in Fat, NEW h, Apart(fat, h),
         NEW x \in Clusters, NEW y \in {Free, End} \cup Clusters,
         y = Free => \A c \in Clusters : fat[c] # x,
         y \in Clusters => /\ fat[y] # Free /\ \A c \in Clusters : fat[c] # y
                           /\ \A n \in Names : h[n] # y,
         \A n \in Names : h[n] \in Cell
  PROVE  Apart([fat EXCEPT ![x] = y], h)
<1> DEFINE g == [fat EXCEPT ![x] = y]
<1>1. \A c \in Clusters : g[c] = IF c = x THEN y ELSE fat[c]
  BY DEF Fat
<1> HIDE DEF g
<1>2. \A m, n \in Names : m # n /\ h[m] # None => h[m] # h[n]
  BY DEF Apart
<1>3. ASSUME NEW n \in Names, NEW c \in Clusters, h[n] # None PROVE g[c] # h[n]
  <2>1. fat[c] # h[n] /\ h[n] \in Clusters
    BY <1>3 DEF Apart, Cell
  <2>2. y # h[n]
    BY <2>1
  <2>3. QED BY <1>1, <2>1, <2>2
<1>4. ASSUME NEW c \in Clusters, NEW d \in Clusters, c # d, g[c] \in Clusters PROVE g[c] # g[d]
  <2>1. CASE c = x
    BY <1>1, <1>4, <2>1
  <2>2. CASE d = x
    <3>1. g[c] = fat[c] /\ g[d] = y
      BY <1>1, <1>4, <2>2
    <3>2. QED BY <1>4, <3>1
  <2>3. CASE c # x /\ d # x
    BY <1>1, <1>4, <2>3 DEF Apart
  <2>4. QED BY <2>1, <2>2, <2>3
<1>5. ASSUME NEW c \in Clusters, g[c] \in Clusters PROVE g[g[c]] # Free
  <2>1. CASE c = x
    <3>1. g[c] = y /\ y \in Clusters /\ fat[y] # Free
      BY <1>1, <1>5, <2>1
    <3>2. QED BY <1>1, <3>1, Distinct
  <2>2. CASE c # x
    <3>1. g[c] = fat[c] /\ fat[fat[c]] # Free /\ fat[c] \in Clusters
      BY <1>1, <1>5, <2>2 DEF Apart
    <3>2. QED BY <1>1, <3>1
  <2>3. QED BY <2>1, <2>2
<1>6. Apart(g, h)
  BY <1>2, <1>3, <1>4, <1>5 DEF Apart
<1>7. QED BY <1>6 DEF g

(* A change of one head: it goes, or it is a cluster that is in no chain.  *)
LEMMA ApartHead ==
  ASSUME NEW fat, NEW h, NEW g, Apart(fat, h), NEW n \in Names, \A m \in Names \ {n} : g[m] = h[m],
         \/ g[n] \in {None, h[n]}
         \/ (\A m \in Names \ {n} : h[m] # g[n]) /\ \A c \in Clusters : fat[c] # g[n]
  PROVE  Apart(fat, g)
<1>1. ASSUME NEW m \in Names, NEW k \in Names, m # k, g[m] # None PROVE g[m] # g[k]
  <2>1. CASE m # n /\ k # n
    BY <1>1, <2>1 DEF Apart
  <2>2. CASE m = n
    <3>1. g[k] = h[k] /\ (g[m] = h[m] \/ h[k] # g[m])
      BY <1>1, <2>2
    <3>2. g[m] = h[m] => h[m] # h[k]
      BY <1>1 DEF Apart
    <3>3. QED BY <3>1, <3>2
  <2>3. CASE k = n
    <3>1. g[m] = h[m] /\ (g[k] \in {None, h[k]} \/ h[m] # g[k])
      BY <1>1, <2>3
    <3>2. h[m] # h[k]
      BY <1>1, <3>1 DEF Apart
    <3>3. QED BY <1>1, <3>1, <3>2
  <2>4. QED BY <2>1, <2>2, <2>3
<1>2. ASSUME NEW m \in Names, NEW c \in Clusters, g[m] # None PROVE fat[c] # g[m]
  <2>1. CASE m # n
    BY <1>2, <2>1 DEF Apart
  <2>2. CASE m = n
    BY <1>2, <2>2 DEF Apart
  <2>3. QED BY <2>1, <2>2
<1>3. QED BY <1>1, <1>2 DEF Apart

(* With every file closed, as after a cut, the entries are the heads.      *)
LEMMA VolumeSolid ==
  ASSUME VolumeInv
  PROVE  Solid(vol)
<1> DEFINE h == HeadsOf(vol, file)
           g == DirHeads(vol)
<1>1. Types /\ Apart(vol.fat, h) /\ \A n \in Names : ShownAt(vol, n) /\ (Open(n) => Fits(vol, file[n], n))
  BY DEF VolumeInv, Chained
<1>2. \A n \in Names : g[n] = vol.dir[n].first /\ h[n] \in Cell
  BY <1>1, HeadTypes
<1>3. \A n \in Names : g[n] # None => g[n] = h[n]
  <2>1. ASSUME NEW n \in Names, Open(n), g[n] # None PROVE g[n] = h[n]
    <3>1. vol.dir[n].first \in {None, file[n].first}
      BY <1>1, <2>1 DEF Fits, Laid
    <3>2. h[n] = file[n].first
      BY <1>1, <2>1, HeadTypes
    <3>3. QED BY <1>2, <2>1, <3>1, <3>2
  <2>2. ASSUME NEW n \in Names, ~Open(n) PROVE g[n] = h[n]
    BY <1>1, <1>2, <2>2, HeadTypes
  <2>3. QED BY <2>1, <2>2
<1> HIDE DEF h, g
<1>4. Apart(vol.fat, g)
  <2>1. ASSUME NEW m \in Names, NEW n \in Names, m # n, g[m] # None PROVE g[m] # g[n]
    <3>1. h[m] # h[n] /\ g[m] = h[m]
      BY <1>1, <1>3, <2>1 DEF Apart
    <3>2. QED BY <1>3, <2>1, <3>1
  <2>2. ASSUME NEW n \in Names, NEW c \in Clusters, g[n] # None PROVE vol.fat[c] # g[n]
    BY <1>1, <1>3, <2>2 DEF Apart
  <2>3. QED BY <1>1, <2>1, <2>2 DEF Apart
<1>5. QED BY <1>1, <1>4 DEF Solid, g
-----------------------------------------------------------------------------
(* The invariant on the volume, the saved one and the open files after a   *)
(* step: it is to be shown only of the names the step is about, and of the *)
(* heads.                                                                  *)
LEMMA ChainedStep ==
  ASSUME VolumeInv, Types', saved' \in {saved, vol},
         Apart(vol.fat, HeadsOf(vol, file))',
         \A n \in Names :
           \/ /\ vol'.dir[n] = vol.dir[n] /\ file'[n] = file[n]
              /\ HeadsOf(vol, file)[n] = None \/ Keeps(vol, vol', HeadsOf(vol, file)[n], n)
           \/ ShownAt(vol', n) /\ (Open(n)' => Fits(vol', file'[n], n))
  PROVE  Chained'
<1>1. Solid(saved')
  BY VolumeSolid DEF VolumeInv, Chained
<1>2. ASSUME NEW n \in Names
      PROVE  ShownAt(vol', n) /\ (Open(n)' => Fits(vol', file'[n], n))
  <2>1. CASE /\ vol'.dir[n] = vol.dir[n] /\ file'[n] = file[n]
             /\ HeadsOf(vol, file)[n] = None \/ Keeps(vol, vol', HeadsOf(vol, file)[n], n)
    <3>1. Types /\ vol \in Image /\ ShownAt(vol, n) /\ (Open(n) => Fits(vol, file[n], n))
      BY DEF VolumeInv, Chained, Types
    <3>2. /\ Open(n) => HeadsOf(vol, file)[n] = file[n].first
          /\ ~Open(n) => HeadsOf(vol, file)[n] = vol.dir[n].first
          /\ Open(n) => file[n] \in FileRec
      BY <3>1, HeadTypes, FileParts
    <3>3. Open(n) => vol.dir[n].first \in {None, file[n].first}
      BY <3>1 DEF Fits, Laid
    <3>4. vol.dir[n].first = None \/ Keeps(vol, vol', vol.dir[n].first, n)
      BY <2>1, <3>2, <3>3
    <3>5. ShownAt(vol', n)
      BY <2>1, <3>1, <3>4, ShownKept
    <3>6. ASSUME Open(n)' PROVE Fits(vol', file'[n], n)
      <4>1. Open(n)
        BY <2>1, <3>6 DEF Open
      <4>2. /\ vol'.dir[n] = vol.dir[n] /\ file[n] \in FileRec /\ Fits(vol, file[n], n)
            /\ file[n].first = None \/ Keeps(vol, vol', file[n].first, n)
        BY <2>1, <3>1, <3>2, <4>1
      <4>3. Fits(vol', file[n], n)
        BY ONLY n \in Names, <4>2, FitsKept, ZenonT(60)
      <4>4. QED BY <2>1, <4>3
    <3>7. QED BY <3>5, <3>6
  <2>2. QED BY <2>1
<1>3. QED BY <1>1, <1>2 DEF Chained

(* Entries that lead to free clusters.                                     *)
LEMMA RemovalsStep ==
  ASSUME VolumeInv, fs.up, saved' \in {saved, vol},
         \A n \in Names : Dangling(vol', n) => Removing(n)',
         \A n \in Names : Removing(n) => Removing(n)' \/ (vol'.dir[n] = NoEntry /\ job'.op = "sync"),
         job.op = "sync" => saved' = vol
  PROVE  Removals'
<1>1. ASSUME NEW n \in Names, Dangling(saved', n)
      PROVE  Removing(n)' \/ (vol'.dir[n] = NoEntry /\ job'.op = "sync")
  <2>1. Removing(n)
    <3>1. CASE saved' = vol
      BY <1>1, <3>1 DEF VolumeInv, Removals
    <3>2. CASE saved' = saved /\ job.op # "sync"
      BY <1>1, <3>2 DEF VolumeInv, Removals
    <3>3. QED BY <3>1, <3>2
  <2>2. QED BY <2>1
<1>2. QED BY <1>1 DEF Removals

(* The flag on the medium.                                                 *)
LEMMA FlagStep ==
  ASSUME VolumeInv, fs.up, Untouched \/ Searched \/ (\E b, v : Put(b, v)),
         ~job.mark \/ block' = BootBlock
  PROVE  FlagCoversCount' /\ saved' \in {saved, vol}
<1>1. saved' \in {saved, vol}
  BY DEF Untouched, Searched, Put
<1>2. ASSUME ~job.mark, Miscounted(saved') PROVE block' = BootBlock
  <2>1. ~Miscounted(vol)
    BY <1>2 DEF VolumeInv, Flags
  <2>2. saved' # vol
    BY <1>2, <2>1
  <2>3. saved' = saved /\ block = BootBlock
    BY <1>1, <1>2, <2>2 DEF VolumeInv, FlagCoversCount
  <2>4. BootBlock # None
    BY DEF BootBlock, None
  <2>5. CASE Untouched
    BY <2>3, <2>5 DEF Untouched
  <2>6. CASE \E b, v : Put(b, v)
    BY <2>2, <2>3, <2>4, <2>6 DEF Put
  <2>7. QED BY <2>2, <2>5, <2>6 DEF Searched
<1>3. QED BY <1>1, <1>2 DEF FlagCoversCount

(* In an operation, and between two.                                       *)
LEMMA DoingUp ==
  ASSUME VolumeInv, job.op # "none"
  PROVE  fs.up
<1>1. Idle.op = "none"
  BY DEF Idle
<1>2. QED BY <1>1 DEF VolumeInv, DownIs, Types

(* Outside a removal no entry leads to a free cluster.                     *)
LEMMA NoDanglers ==
  ASSUME VolumeInv, fs.up, job.op \notin {"free", "freed", "unlist", "sync"}
  PROVE  \A n \in Names : ~Dangling(vol, n) /\ ~Dangling(saved, n) /\ ~Removing(n)
BY DEF VolumeInv, Removals, Removing

(* Between two operations.                                                 *)
LEMMA ReadyIs ==
  ASSUME VolumeInv, Ready
  PROVE  /\ fs.up /\ job = Idle /\ job.op = "none" /\ ~job.mark /\ ~Miscounted(vol)
         /\ \A n \in Names : ~Dangling(vol, n) /\ ~Dangling(saved, n) /\ ~Removing(n)
<1>1. fs.up /\ job = Idle /\ job.op = "none" /\ ~job.mark
  BY SMTT(40) DEF Ready, Idle
<1>2. QED BY <1>1, NoDanglers DEF VolumeInv, Flags
-----------------------------------------------------------------------------
(* What a write changes.                                                   *)
SetFat(v, x, y) == [v EXCEPT !.fat[x] = y]
SetDir(v, n, e) == [v EXCEPT !.dir[n] = e]
SetData(v, x, n) == [v EXCEPT !.data[x] = n]
SetFlag(v, f) == [v EXCEPT !.flag = f]
SetFree(v, k) == [v EXCEPT !.free = k]
FsKnows(f, d) == [f EXCEPT !.flag = d]
FsDirty(f, d) == [f EXCEPT !.dirty = d]
FsCounts(f, k, d) == [f EXCEPT !.free = k, !.dirty = d]

(* The table.                                                              *)
LEMMA FatWrite ==
  ASSUME NEW v \in Image, NEW x \in Clusters, NEW y \in {Free, End} \cup Clusters
  PROVE  LET w == SetFat(v, x, y) IN
           /\ w \in Image /\ w.fat = [v.fat EXCEPT ![x] = y]
           /\ w.dir = v.dir /\ w.data = v.data /\ w.flag = v.flag /\ w.free = v.free
           /\ \A c \in Clusters : w.fat[c] = IF c = x THEN y ELSE v.fat[c]
BY SMTT(40) DEF SetFat, Image, Fat

(* An entry.                                                               *)
LEMMA DirWrite ==
  ASSUME NEW v \in Image, NEW n \in Names, NEW e \in Entry \cup {NoEntry}
  PROVE  LET w == SetDir(v, n, e) IN
           /\ w \in Image
           /\ w.fat = v.fat /\ w.data = v.data /\ w.flag = v.flag /\ w.free = v.free
           /\ \A m \in Names : w.dir[m] = IF m = n THEN e ELSE v.dir[m]
BY SMTT(40) DEF SetDir, Image

(* A cluster's data.                                                       *)
LEMMA DataWrite ==
  ASSUME NEW v \in Image, NEW x \in Clusters, NEW n \in Names \cup {Blank}
  PROVE  LET w == SetData(v, x, n) IN
           /\ w \in Image
           /\ w.fat = v.fat /\ w.dir = v.dir /\ w.flag = v.flag /\ w.free = v.free
           /\ \A c \in Clusters : w.data[c] = IF c = x THEN n ELSE v.data[c]
BY SMTT(40) DEF SetData, Image

(* The flag.                                                               *)
LEMMA FlagWrite ==
  ASSUME NEW v \in Image, NEW f \in BOOLEAN
  PROVE  LET w == SetFlag(v, f) IN
           /\ w \in Image /\ w.flag = f /\ w.free = v.free
           /\ w.fat = v.fat /\ w.dir = v.dir /\ w.data = v.data
BY SMTT(40) DEF SetFlag, Image

(* The count.                                                              *)
LEMMA InfoWrite ==
  ASSUME NEW v \in Image, NEW k \in Counts
  PROVE  LET w == SetFree(v, k) IN
           /\ w \in Image /\ w.flag = v.flag /\ w.free = k
           /\ w.fat = v.fat /\ w.dir = v.dir /\ w.data = v.data
BY SMTT(40) DEF SetFree, Image

(* The FileSystem: what it knows of the flag.                              *)
LEMMA FsFlag ==
  ASSUME NEW f \in FsRec, NEW d \in BOOLEAN
  PROVE  LET g == FsKnows(f, d) IN
           /\ g \in FsRec /\ g.up = f.up /\ g.free = f.free /\ g.dirty = f.dirty
           /\ g.flag0 = f.flag0 /\ g.flag = d
BY SMTT(40) DEF FsKnows, FsRec

(* Its FSInfo is written.                                                  *)
LEMMA FsClean ==
  ASSUME NEW f \in FsRec, NEW d \in BOOLEAN
  PROVE  LET g == FsDirty(f, d) IN
           /\ g \in FsRec /\ g.up = f.up /\ g.free = f.free /\ g.dirty = d
           /\ g.flag0 = f.flag0 /\ g.flag = f.flag
BY SMTT(40) DEF FsDirty, FsRec

(* It changes.                                                             *)
LEMMA FsCount ==
  ASSUME NEW f \in FsRec, NEW k \in Counts, NEW d \in BOOLEAN
  PROVE  LET g == FsCounts(f, k, d) IN
           /\ g \in FsRec /\ g.up = f.up /\ g.free = k /\ g.dirty = d
           /\ g.flag0 = f.flag0 /\ g.flag = f.flag
<1>1. FsCounts(f, k, d) \in FsRec
  BY DEF FsCounts, FsRec
<1>2. LET g == FsCounts(f, k, d) IN
        g.up = f.up /\ g.free = k /\ g.dirty = d /\ g.flag0 = f.flag0 /\ g.flag = f.flag
  BY SMTT(40) DEF FsCounts, FsRec
<1>3. QED BY <1>1, <1>2

(* The operation: its mark, its next step.                                 *)
LEMMA JobMark ==
  ASSUME NEW j \in JobRec, NEW m \in BOOLEAN
  PROVE  LET g == [j EXCEPT !.mark = m] IN
           /\ g \in JobRec /\ g.op = j.op /\ g.name = j.name /\ g.c = j.c /\ g.count = j.count
           /\ g.mark = m
BY SMTT(40) DEF JobRec

(* A step without a write.                                                 *)
LEMMA JobOp ==
  ASSUME NEW j \in JobRec, NEW op \in Ops
  PROVE  LET g == [j EXCEPT !.op = op] IN
           /\ g \in JobRec /\ g.op = op /\ g.name = j.name /\ g.c = j.c /\ g.count = j.count
           /\ g.mark = j.mark
BY SMTT(40) DEF JobRec

(* A cluster is taken, or given back.                                      *)
JobTakes(j, op, c, m) == [j EXCEPT !.op = op, !.c = c, !.mark = m]
JobGives(j, op, c, m, k) == [j EXCEPT !.c = c, !.count = k, !.mark = m, !.op = op]

(* What it does to the job.                                                *)
LEMMA JobCluster ==
  ASSUME NEW j \in JobRec, NEW op \in Ops, NEW c \in Cell, NEW m \in BOOLEAN
  PROVE  LET g == JobTakes(j, op, c, m) IN
           /\ g \in JobRec /\ g.op = op /\ g.name = j.name /\ g.c = c /\ g.count = j.count
           /\ g.mark = m
<1>1. JobTakes(j, op, c, m) \in JobRec
  BY DEF JobRec, JobTakes
<1>2. LET g == JobTakes(j, op, c, m) IN
        g.op = op /\ g.name = j.name /\ g.c = c /\ g.count = j.count /\ g.mark = m
  BY SMTT(40) DEF JobRec, JobTakes
<1>3. QED BY <1>1, <1>2

(* And the other one.                                                      *)
LEMMA JobCounts ==
  ASSUME NEW j \in JobRec, NEW op \in Ops, NEW c \in Cell, NEW m \in BOOLEAN, NEW k \in Nat
  PROVE  LET g == JobGives(j, op, c, m, k) IN
           /\ g \in JobRec /\ g.op = op /\ g.name = j.name /\ g.c = c /\ g.count = k
           /\ g.mark = m
<1>1. JobGives(j, op, c, m, k) \in JobRec
  BY DEF JobRec, JobGives
<1>2. LET g == JobGives(j, op, c, m, k) IN
        g.op = op /\ g.name = j.name /\ g.c = c /\ g.count = k /\ g.mark = m
  BY SMTT(40) DEF JobRec, JobGives
<1>3. QED BY <1>1, <1>2

(* A new operation.                                                        *)
LEMMA IdleIs ==
  /\ Idle \in JobRec /\ Idle.op = "none" /\ Idle.name = Blank /\ Idle.c = None
  /\ Idle.count = 0 /\ Idle.mark = FALSE
<1>1. Idle \in JobRec
  BY SMTT(40) DEF Idle, JobRec, Ops, Cell
<1>2. QED BY <1>1 DEF Idle

(* A change of something else keeps the chains.                            *)
LEMMA KeepsSame ==
  ASSUME NEW v, NEW w, w.fat = v.fat, w.data = v.data, NEW first, NEW n
  PROVE  Keeps(v, w, first, n)
BY DEF Keeps

(* Heads that stay.                                                        *)
LEMMA ApartSame ==
  ASSUME NEW fat, NEW h, NEW g, Apart(fat, h), \A n \in Names : g[n] = h[n]
  PROVE  Apart(fat, g)
BY DEF Apart

(* A step that leaves the table, the entries and the data.                 *)
LEMMA QuietStep ==
  ASSUME VolumeInv, Types', saved' \in {saved, vol},
         vol'.fat = vol.fat, vol'.dir = vol.dir, vol'.data = vol.data,
         \A n \in Names :
           \/ file'[n] = file[n]
           \/ /\ HeadsOf(vol', file')[n] = HeadsOf(vol, file)[n]
              /\ Open(n)' => Fits(vol, file'[n], n)
  PROVE  /\ Chained'
         /\ \A n \in Names : HeadsOf(vol', file')[n] = HeadsOf(vol, file)[n]
<1>1. \A n \in Names : HeadsOf(vol', file')[n] = HeadsOf(vol, file)[n]
  BY DEF HeadsOf
<1>2. Apart(vol'.fat, HeadsOf(vol', file'))
  <2>1. Apart(vol.fat, HeadsOf(vol, file))
    BY DEF VolumeInv, Chained
  <2>2. Apart(vol.fat, HeadsOf(vol', file'))
    BY ONLY <1>1, <2>1, ApartSame, ZenonT(60)
  <2>3. QED BY <2>2
<1>3. \A first, n : Keeps(vol, vol', first, n)
  BY KeepsSame
<1>4. ASSUME NEW n \in Names, Open(n)' => Fits(vol, file'[n], n)
      PROVE  ShownAt(vol', n) /\ (Open(n)' => Fits(vol', file'[n], n))
  <2>1. vol \in Image /\ ShownAt(vol, n)
    BY DEF VolumeInv, Types, Chained
  <2>2. ShownAt(vol', n)
    BY <1>3, <2>1, ShownKept
  <2>3. ASSUME Open(n)' PROVE Fits(vol', file'[n], n)
    <3>1. file'[n] \in FileRec
      BY <2>3 DEF Types, Open
    <3>2. /\ vol'.dir[n] = vol.dir[n] /\ Fits(vol, file'[n], n)
          /\ file'[n].first = None \/ Keeps(vol, vol', file'[n].first, n)
      BY <1>3, <1>4, <2>3
    <3>3. QED BY ONLY n \in Names, <3>1, <3>2, FitsKept, ZenonT(60)
  <2>4. QED BY <2>2, <2>3
<1>5. ASSUME NEW n \in Names
      PROVE  \/ /\ vol'.dir[n] = vol.dir[n] /\ file'[n] = file[n]
                /\ HeadsOf(vol, file)[n] = None \/ Keeps(vol, vol', HeadsOf(vol, file)[n], n)
             \/ ShownAt(vol', n) /\ (Open(n)' => Fits(vol', file'[n], n))
  BY <1>3, <1>4
<1>6. Chained'
  BY <1>2, <1>5, ChainedStep
<1>7. QED BY <1>1, <1>6

(* The operation in progress goes on.                                      *)
LEMMA JobsStep ==
  ASSUME VolumeInv, vol'.fat = vol.fat, vol'.dir = vol.dir, file' = file, fs'.dirty = fs.dirty,
         job'.op = job.op, job'.name = job.name, job'.c = job.c, job'.count = job.count,
         job'.mark => job.mark, job' = Idle \/ job.op # "none"
  PROVE  Jobs'
<1>1. Jobs
  BY DEF VolumeInv
<1>2. \A n : AtOffset(n)' = AtOffset(n)
  BY DEF AtOffset, NextCluster, Linked
<1>3. HeadsOf(vol', file') = HeadsOf(vol, file)
  BY DEF HeadsOf
<1>4. OnName'
  BY <1>1, <1>3 DEF Jobs, OnName, Open
<1>5. OnFile'
  BY <1>1, <1>2 DEF Jobs, OnFile, Open
<1>6. OnRemoval'
  BY <1>1, <1>3 DEF Jobs, OnRemoval, Open, Dangling, Listed
<1>7. QED BY <1>1, <1>4, <1>5, <1>6 DEF Jobs, Open

(* There is none.                                                          *)
LEMMA JobsIdle ==
  ASSUME job' = Idle
  PROVE  Jobs'
<1>1. Idle.op = "none" /\ ~Idle.mark
  BY DEF Idle
<1>2. QED BY <1>1 DEF Jobs, OnName, OnFile, OnRemoval

(* Only the flush of the device is left.                                   *)
LEMMA SyncJobs ==
  ASSUME job'.op = "sync", ~job'.mark
  PROVE  Jobs'
BY DEF Jobs, OnName, OnFile, OnRemoval
-----------------------------------------------------------------------------
(* Steps of the disk and of the FileSystem.                                *)
LEMMA SaveStep ==
  ASSUME VolumeInv, Save
  PROVE  VolumeInv'
<1>1. /\ saved' = vol /\ block' = None /\ vol' = vol /\ fs' = fs /\ file' = file /\ job' = job
      /\ Types /\ DownIs /\ Removals /\ Flags /\ CountExact
  BY DEF Save, VolumeInv
<1>2. Types'
  BY <1>1 DEF Types
<1>3. DownIs'
  BY <1>1 DEF DownIs, Open
<1>4. Chained'
  BY <1>1, <1>2, QuietStep
<1>5. Removals'
  BY <1>1 DEF Removals, Removing
<1>6. Jobs'
  <2>1. job' = Idle \/ job.op # "none"
    BY <1>1 DEF VolumeInv, Jobs
  <2>2. QED BY <1>1, <2>1, JobsStep
<1>7. Flags' /\ CountExact'
  BY <1>1 DEF Flags, CountExact
<1>8. FlagCoversCount'
  BY <1>1 DEF Flags, FlagCoversCount
<1>9. QED BY <1>2, <1>3, <1>4, <1>5, <1>6, <1>7, <1>8 DEF VolumeInv

(* The mark.                                                               *)
LEMMA SetDirtyFlagStep ==
  ASSUME VolumeInv, SetDirtyFlag
  PROVE  VolumeInv'
<1>1. /\ job.mark /\ Put(BootBlock, [vol EXCEPT !.flag = TRUE])
      /\ fs' = [fs EXCEPT !.flag = TRUE] /\ job' = [job EXCEPT !.mark = FALSE] /\ file' = file
      /\ Types /\ Jobs
  BY DEF SetDirtyFlag, VolumeInv
<1>2. /\ vol' \in Image /\ vol'.flag = TRUE /\ vol'.free = vol.free
      /\ vol'.fat = vol.fat /\ vol'.dir = vol.dir /\ vol'.data = vol.data
  <2>1. TRUE \in BOOLEAN /\ vol \in Image
    BY <1>1 DEF Types
  <2>2. vol' = SetFlag(vol, TRUE)
    BY <1>1 DEF Put, SetFlag
  <2>3. QED BY <2>1, <2>2, FlagWrite
<1>3. /\ fs' \in FsRec
      /\ fs'.up = fs.up /\ fs'.free = fs.free /\ fs'.dirty = fs.dirty /\ fs'.flag0 = fs.flag0
      /\ fs'.flag = TRUE
  <2>1. fs \in FsRec /\ fs' = FsKnows(fs, TRUE)
    BY <1>1 DEF Types, FsKnows
  <2>2. QED BY <2>1, FsFlag
<1>4. /\ job' \in JobRec /\ job'.op = job.op /\ job'.name = job.name /\ job'.c = job.c
      /\ job'.count = job.count /\ job'.mark = FALSE
  <2>1. job \in JobRec /\ job' = [job EXCEPT !.mark = FALSE]
    BY <1>1 DEF Types
  <2>2. QED BY <2>1, JobMark
<1>5. job.op # "none" /\ job.op # "close" /\ job.op # "sync"
  BY <1>1 DEF Jobs
<1>6. fs.up
  BY <1>5, DoingUp
<1>7. FlagCoversCount' /\ saved' \in {saved, vol}
  <2>1. block' = BootBlock /\ \E b, v : Put(b, v)
    BY <1>1 DEF Put
  <2>2. QED BY <1>6, <2>1, FlagStep
<1>8. Types'
  BY <1>1, <1>2, <1>3, <1>4, <1>7 DEF Types
<1>9. DownIs'
  BY <1>3, <1>6 DEF DownIs
<1>10. Chained'
  BY <1>1, <1>2, <1>7, <1>8, QuietStep
<1>11. \A n : Removing(n)' <=> Removing(n)
  BY <1>4 DEF Removing
<1>12. Removals'
  <2>1. \A n \in Names : Dangling(vol', n) => Removing(n)'
    BY <1>2, <1>6, <1>11 DEF Dangling, Listed, VolumeInv, Removals
  <2>2. QED BY <1>5, <1>6, <1>7, <1>11, <2>1, RemovalsStep
<1>13. Jobs'
  BY <1>1, <1>2, <1>3, <1>4, <1>5, JobsStep
<1>14. Flags'
  BY <1>2, <1>3, <1>6 DEF VolumeInv, Flags, Miscounted
<1>15. CountExact'
  BY <1>2, <1>3, <1>4, <1>6 DEF VolumeInv, CountExact, FreeClusters
<1>16. QED BY <1>7, <1>8, <1>9, <1>10, <1>12, <1>13, <1>14, <1>15 DEF VolumeInv

(* A step that leaves the volume.                                          *)
LEMMA MemoryStep ==
  ASSUME VolumeInv, fs.up, ~job.mark, Untouched \/ Searched, Types', fs'.up,
         \A n \in Names :
           \/ file'[n] = file[n]
           \/ /\ HeadsOf(vol, file')[n] = HeadsOf(vol, file)[n]
              /\ Open(n)' => Fits(vol, file'[n], n),
         \A n \in Names : Removing(n) => Removing(n)',
         job.op = "sync" => Searched
  PROVE  DownIs' /\ Chained' /\ Removals' /\ FlagCoversCount'
<1>1. FlagCoversCount' /\ saved' \in {saved, vol} /\ vol' = vol
  BY FlagStep DEF Untouched, Searched
<1>2. Chained'
  BY <1>1, QuietStep
<1>3. Removals'
  <2>1. \A n \in Names : Dangling(vol', n) => Removing(n)'
    BY <1>1 DEF VolumeInv, Removals
  <2>2. job.op = "sync" => saved' = vol
    BY DEF Searched
  <2>3. QED BY <1>1, <2>1, <2>2, RemovalsStep
<1>4. QED BY <1>1, <1>2, <1>3 DEF DownIs

(* The file system is gone: cut off, or unmounted with its device.         *)
LEMMA CutStep ==
  ASSUME VolumeInv, vol' \in {vol, saved}, saved' = vol', fs' = Down, job' = Idle,
         file' \in [Names -> FileRec \cup {Closed}], \A n \in Names : ~Open(n)'
  PROVE  VolumeInv'
<1>1. fs' \in FsRec /\ ~fs'.up
  BY SMTT(40) DEF Down, FsRec, Counts
<1>2. Types'
  BY <1>1, IdleIs DEF VolumeInv, Types
<1>3. Solid(vol')
  BY VolumeSolid DEF VolumeInv, Chained
<1>4. Chained'
  <2>1. \A n \in Names : HeadsOf(vol', file')[n] = DirHeads(vol')[n]
    BY DEF Open, HeadsOf, DirHeads
  <2>2. Apart(vol'.fat, HeadsOf(vol', file'))
    BY <1>3, <2>1, ApartSame DEF Solid
  <2>3. QED BY <1>3, <2>2 DEF Solid, Chained
<1>5. Jobs'
  BY JobsIdle
<1>6. QED BY <1>1, <1>2, <1>4, <1>5 DEF VolumeInv, DownIs, Removals, Flags, CountExact, FlagCoversCount

(* A power cut, at any step of any operation.                              *)
LEMMA PowerCutStep ==
  ASSUME VolumeInv, PowerCut
  PROVE  VolumeInv'
<1>1. file' = [n \in Names |-> Closed]
  BY DEF PowerCut
<1>2. QED BY <1>1, CutStep DEF PowerCut, Open

(* The device goes.                                                        *)
LEMMA UnmountDropStep ==
  ASSUME VolumeInv, UnmountDrop
  PROVE  VolumeInv'
<1>1. /\ \A n \in Names : ~Open(n)
      /\ file \in [Names -> FileRec \cup {Closed}]
  BY DEF VolumeInv, Jobs, Types, UnmountDrop, Doing
<1>2. /\ vol' \in {vol, saved} /\ saved' = vol' /\ fs' = Down /\ job' = Idle /\ file' = file
      /\ file' \in [Names -> FileRec \cup {Closed}]
      /\ \A n \in Names : ~Open(n)'
  BY <1>1 DEF UnmountDrop, Open
<1>3. QED BY <1>2, CutStep

(* The count of a volume that needs no repair.                             *)
LEMMA MountStep ==
  ASSUME VolumeInv, Mount
  PROVE  VolumeInv'
<1>1. /\ ~fs.up /\ Sound(vol) /\ saved' = saved /\ vol' = vol /\ file' = file /\ job' = job
      /\ fs' = [up |-> TRUE, free |-> IF vol.flag THEN Unknown ELSE Valid(vol.free),
                dirty |-> FALSE, flag0 |-> vol.flag, flag |-> vol.flag]
  BY DEF Mount, Untouched
<1>2. Types /\ job = Idle /\ saved = vol
  BY <1>1 DEF VolumeInv, DownIs
<1>3. vol.flag \in BOOLEAN /\ vol.free \in Counts
  BY <1>2, Parts DEF Types
<1>4. Valid(vol.free) = vol.free
  <2>1. Total \in Nat
    BY VolumeAssumption, FS_CardinalityType DEF Total
  <2>2. vol.free <= Total
    BY <1>3, <2>1, SMTT(40) DEF Counts, Unknown
  <2>3. ~(vol.free > Total)
    BY <1>3, <2>1, <2>2, SMTT(40) DEF Counts, Unknown
  <2>4. QED BY <2>3 DEF Valid
<1>5. /\ fs'.up = TRUE /\ fs'.dirty = FALSE /\ fs'.flag0 = vol.flag /\ fs'.flag = vol.flag
      /\ fs'.free = IF vol.flag THEN Unknown ELSE vol.free
  BY <1>1, <1>4
<1>6. fs' \in FsRec
  <2>1. (IF vol.flag THEN Unknown ELSE vol.free) \in Counts
    BY <1>3 DEF Counts
  <2>2. QED BY <1>1, <1>3, <1>4, <2>1 DEF FsRec
<1>7. Types'
  BY <1>1, <1>2, <1>6 DEF Types
<1>8. Chained'
  BY <1>1, <1>7, QuietStep
<1>9. Removals' /\ FlagCoversCount' /\ DownIs'
  BY <1>1, <1>2, <1>5 DEF Removals, FlagCoversCount, DownIs, Sound
<1>10. Jobs'
  BY <1>1, <1>2, JobsIdle
<1>11. Flags'
  BY <1>1, <1>5 DEF Flags, Sound
<1>12. CountExact'
  <2>1. job'.op = "none"
    BY <1>1, <1>2, IdleIs
  <2>2. Cardinality(FreeClusters(vol)) \in Nat
    BY VolumeAssumption, FS_Subset, FS_CardinalityType DEF FreeClusters
  <2>3. ASSUME fs'.free # Unknown PROVE fs'.free = Cardinality(FreeClusters(vol))
    BY <1>1, <1>5, <2>3 DEF Sound, Miscounted
  <2>4. ASSUME fs'.free # Unknown PROVE fs'.free = Cardinality(FreeClusters(vol)) + 0 - 0
    BY <2>2, <2>3, <2>4, SMTT(40)
  <2>5. QED BY <1>1, <2>1, <2>4 DEF CountExact
<1>13. QED BY <1>7, <1>8, <1>9, <1>10, <1>11, <1>12 DEF VolumeInv
-----------------------------------------------------------------------------
(* How many clusters are free.                                             *)
LEMMA FreeCount ==
  ASSUME NEW v
  PROVE  /\ IsFiniteSet(FreeClusters(v)) /\ Cardinality(FreeClusters(v)) \in 0 .. Total
         /\ Total \in Nat
<1>1. FreeClusters(v) \subseteq Clusters /\ IsFiniteSet(Clusters)
  BY VolumeAssumption DEF FreeClusters
<1>2. IsFiniteSet(FreeClusters(v)) /\ Cardinality(FreeClusters(v)) <= Total
  BY <1>1, FS_Subset DEF Total
<1>3. Cardinality(FreeClusters(v)) \in Nat /\ Total \in Nat
  BY <1>1, <1>2, FS_CardinalityType DEF Total
<1>4. QED BY <1>2, <1>3, SMTT(40)

(* The operations that have nothing to count.                              *)
Counting == {"link", "zero", "free", "freed"}

(* Before such a step.                                                     *)
LEMMA CountIs ==
  ASSUME VolumeInv, fs.up, fs.free # Unknown, job.op \notin Counting
  PROVE  fs.free = Cardinality(FreeClusters(vol))
<1>1. fs.free = Cardinality(FreeClusters(vol)) + 0 - 0
  BY DEF VolumeInv, CountExact, Counting
<1>2. QED BY <1>1, FreeCount, SMTT(40)

(* After one.                                                              *)
LEMMA CountBecomes ==
  ASSUME job'.op \notin Counting,
         fs'.free # Unknown => fs'.free = Cardinality(FreeClusters(vol'))
  PROVE  CountExact'
<1>1. ASSUME fs'.free # Unknown PROVE fs'.free = Cardinality(FreeClusters(vol')) + 0 - 0
  BY <1>1, FreeCount, SMTT(40)
<1>2. QED BY <1>1 DEF CountExact, Counting

(* The count without the flag is right when it is the count in memory.     *)
LEMMA WellCounted ==
  ASSUME VolumeInv, fs.up, job.op \notin Counting, NEW w, w.fat = vol.fat,
         w.flag \/ w.free = fs.free
  PROVE  ~Miscounted(w)
<1>1. FreeClusters(w) = FreeClusters(vol)
  BY DEF FreeClusters
<1>2. fs.free # Unknown => fs.free = Cardinality(FreeClusters(vol))
  BY CountIs
<1>3. QED BY <1>1, <1>2 DEF Miscounted

(* A write of the boot sector or of FSInfo.                                *)
LEMMA HeaderStep ==
  ASSUME VolumeInv, fs.up, ~job.mark, Untouched \/ (\E b, v : Put(b, v)), file' = file, Types',
         vol'.fat = vol.fat, vol'.dir = vol.dir, vol'.data = vol.data,
         fs'.up, job.op \in {"none", "unmount"}
  PROVE  DownIs' /\ Chained' /\ Removals' /\ FlagCoversCount'
<1>1. FlagCoversCount' /\ saved' \in {saved, vol}
  BY FlagStep
<1>2. Chained'
  BY <1>1, QuietStep
<1>3. \A n \in Names : ~Dangling(vol, n) /\ ~Removing(n)
  BY NoDanglers
<1>4. \A n \in Names : ~Dangling(vol', n)
  BY <1>3 DEF Dangling, Listed
<1>5. Removals'
  BY <1>1, <1>3, <1>4, RemovalsStep
<1>6. QED BY <1>1, <1>2, <1>5 DEF DownIs

(* FSInfo.                                                                 *)
LEMMA UnmountStep ==
  ASSUME VolumeInv, Unmount
  PROVE  VolumeInv'
<1>1. /\ Ready /\ \A n \in Names : ~Open(n)
      /\ IF fs.dirty THEN Put(InfoBlock, [vol EXCEPT !.free = fs.free]) ELSE Untouched
      /\ fs' = [fs EXCEPT !.dirty = FALSE]
      /\ job' = [Idle EXCEPT !.op = "unmount"]
      /\ file' = file /\ Types
  BY DEF Unmount, VolumeInv
<1>2. fs \in FsRec /\ fs.free \in Counts /\ fs.dirty \in BOOLEAN /\ vol \in Image
  BY <1>1, SMTT(40) DEF Types, FsRec
<1>3. /\ fs' \in FsRec /\ fs'.up = fs.up /\ fs'.free = fs.free /\ fs'.dirty = FALSE
      /\ fs'.flag0 = fs.flag0 /\ fs'.flag = fs.flag
  <2>1. fs' = FsDirty(fs, FALSE)
    BY <1>1 DEF FsDirty
  <2>2. QED BY <1>2, <2>1, FsClean
<1>4. job' \in JobRec /\ job'.op = "unmount" /\ job'.mark = FALSE
  <2>1. "unmount" \in Ops /\ None \in Cell /\ 0 \in Nat
    BY DEF Ops, Cell
  <2>2. QED BY <1>1, <2>1 DEF Idle, JobRec
<1>5. /\ vol' \in Image /\ vol'.flag = vol.flag
      /\ vol'.fat = vol.fat /\ vol'.dir = vol.dir /\ vol'.data = vol.data
      /\ vol'.free = IF fs.dirty THEN fs.free ELSE vol.free
      /\ Untouched \/ \E b, v : Put(b, v)
  <2>1. CASE fs.dirty
    <3>1. Put(InfoBlock, [vol EXCEPT !.free = fs.free]) /\ vol' = SetFree(vol, fs.free)
      BY <1>1, <2>1 DEF Put, SetFree
    <3>2. /\ vol' \in Image /\ vol'.flag = vol.flag /\ vol'.free = fs.free
          /\ vol'.fat = vol.fat /\ vol'.dir = vol.dir /\ vol'.data = vol.data
      BY <1>2, <3>1, InfoWrite, SMTT(40)
    <3>3. QED BY <2>1, <3>1, <3>2
  <2>2. CASE ~fs.dirty
    BY <1>1, <1>2, <2>2 DEF Untouched
  <2>3. QED BY <2>1, <2>2
<1>6. /\ fs.up /\ job.op = "none" /\ ~job.mark /\ ~Miscounted(vol)
  BY <1>1, ReadyIs
<1>7. Types'
  BY <1>1, <1>3, <1>4, <1>5, <1>6, FlagStep DEF Types
<1>8. DownIs' /\ Chained' /\ Removals' /\ FlagCoversCount'
  BY <1>1, <1>3, <1>5, <1>6, <1>7, HeaderStep
<1>9. Jobs'
  BY <1>1, <1>3, <1>4 DEF Jobs, OnName, OnFile, OnRemoval, Open
<1>10. job.op \notin Counting /\ job'.op \notin Counting
  BY <1>4, <1>6 DEF Counting
<1>11. ~Miscounted(vol')
  <2>1. CASE fs.dirty
    BY <1>5, <1>6, <1>10, <2>1, WellCounted
  <2>2. CASE ~fs.dirty
    BY <1>5, <1>6, <2>2 DEF Miscounted, FreeClusters
  <2>3. QED BY <2>1, <2>2
<1>12. Flags'
  BY <1>3, <1>5, <1>6, <1>11 DEF VolumeInv, Flags
<1>13. CountExact'
  <2>1. fs'.free # Unknown => fs'.free = Cardinality(FreeClusters(vol'))
    BY <1>3, <1>5, <1>6, <1>10, CountIs DEF FreeClusters
  <2>2. QED BY <1>10, <2>1, CountBecomes
<1>14. QED BY <1>7, <1>8, <1>9, <1>12, <1>13 DEF VolumeInv

(* The flag, as it was when the volume was mounted.                        *)
LEMMA UnmountFlagStep ==
  ASSUME VolumeInv, UnmountFlag
  PROVE  VolumeInv'
<1>1. /\ job.op = "unmount" /\ ~job.mark
      /\ IF fs.flag0 # fs.flag THEN Put(BootBlock, [vol EXCEPT !.flag = fs.flag0]) ELSE Untouched
      /\ job' = [Idle EXCEPT !.op = "close"]
      /\ fs' = fs /\ file' = file /\ Types /\ Jobs /\ Flags
  BY DEF UnmountFlag, Doing, VolumeInv
<1>2. fs \in FsRec /\ fs.flag0 \in BOOLEAN /\ fs.flag \in BOOLEAN /\ vol \in Image
  BY <1>1, SMTT(40) DEF Types, FsRec
<1>3. job' \in JobRec /\ job'.op = "close" /\ job'.mark = FALSE
  <2>1. "close" \in Ops /\ None \in Cell /\ 0 \in Nat
    BY DEF Ops, Cell
  <2>2. QED BY <1>1, <2>1 DEF Idle, JobRec
<1>4. fs.up
  BY <1>1, DoingUp
<1>5. /\ vol' \in Image /\ vol'.free = vol.free
      /\ vol'.fat = vol.fat /\ vol'.dir = vol.dir /\ vol'.data = vol.data
      /\ vol'.flag = IF fs.flag0 # fs.flag THEN fs.flag0 ELSE vol.flag
      /\ Untouched \/ \E b, v : Put(b, v)
  <2>1. CASE fs.flag0 # fs.flag
    <3>1. Put(BootBlock, [vol EXCEPT !.flag = fs.flag0]) /\ vol' = SetFlag(vol, fs.flag0)
      BY <1>1, <2>1 DEF Put, SetFlag
    <3>2. /\ vol' \in Image /\ vol'.free = vol.free /\ vol'.flag = fs.flag0
          /\ vol'.fat = vol.fat /\ vol'.dir = vol.dir /\ vol'.data = vol.data
      BY <1>2, <3>1, FlagWrite, SMTT(40)
    <3>3. QED BY <2>1, <3>1, <3>2
  <2>2. CASE fs.flag0 = fs.flag
    BY <1>1, <1>2, <2>2 DEF Untouched
  <2>3. QED BY <2>1, <2>2
<1>6. Types'
  BY <1>1, <1>3, <1>4, <1>5, FlagStep DEF Types
<1>7. DownIs' /\ Chained' /\ Removals' /\ FlagCoversCount'
  BY <1>1, <1>4, <1>5, <1>6, HeaderStep
<1>8. Jobs'
  BY <1>1, <1>3 DEF Jobs, OnName, OnFile, OnRemoval, Open
<1>9. job.op \notin Counting /\ job'.op \notin Counting
  BY <1>1, <1>3 DEF Counting
<1>10. fs.flag0 => vol'.flag
  BY <1>1, <1>4, <1>5 DEF Flags
<1>11. ~fs.flag0 => vol'.free = fs.free
  BY <1>1, <1>4, <1>5 DEF Flags, Jobs
<1>12. ~Miscounted(vol')
  BY <1>4, <1>5, <1>9, <1>10, <1>11, WellCounted
<1>13. Flags'
  BY <1>1, <1>3, <1>10, <1>11, <1>12 DEF Flags
<1>14. CountExact'
  <2>1. fs'.free # Unknown => fs'.free = Cardinality(FreeClusters(vol'))
    BY <1>1, <1>4, <1>5, <1>9, CountIs DEF FreeClusters
  <2>2. QED BY <1>9, <2>1, CountBecomes
<1>15. QED BY <1>6, <1>7, <1>8, <1>13, <1>14 DEF VolumeInv

(* The clusters are counted.                                               *)
LEMMA StatsStep ==
  ASSUME VolumeInv, Stats
  PROVE  VolumeInv'
<1>1. /\ Ready /\ fs.free = Unknown /\ Untouched /\ file' = file /\ job' = job /\ Types
      /\ fs' = [fs EXCEPT !.free = Cardinality(FreeClusters(vol)), !.dirty = TRUE]
      /\ vol' = vol /\ saved' = saved
  BY DEF Stats, Untouched, VolumeInv
<1>2. fs \in FsRec /\ Cardinality(FreeClusters(vol)) \in Counts
  BY <1>1, FreeCount DEF Types, Counts
<1>3. /\ fs' \in FsRec /\ fs'.up = fs.up /\ fs'.free = Cardinality(FreeClusters(vol)) /\ fs'.dirty = TRUE
      /\ fs'.flag0 = fs.flag0 /\ fs'.flag = fs.flag
  <2>1. fs' = FsCounts(fs, Cardinality(FreeClusters(vol)), TRUE)
    BY <1>1 DEF FsCounts
  <2>2. LET g == FsCounts(fs, Cardinality(FreeClusters(vol)), TRUE) IN
          /\ g \in FsRec /\ g.up = fs.up /\ g.free = Cardinality(FreeClusters(vol))
          /\ g.dirty = TRUE /\ g.flag0 = fs.flag0 /\ g.flag = fs.flag
    BY <1>2, FsCount
  <2>3. QED BY <2>1, <2>2
<1>4. fs.up /\ job = Idle /\ job.op = "none" /\ ~job.mark /\ \A n \in Names : ~Removing(n)
  BY <1>1, ReadyIs
<1>5. Types'
  BY <1>1, <1>3 DEF Types
<1>6. DownIs' /\ Chained' /\ Removals' /\ FlagCoversCount'
  BY <1>1, <1>3, <1>4, <1>5, MemoryStep
<1>7. Jobs'
  BY <1>1, <1>4, JobsIdle
<1>8. Flags'
  BY <1>1, <1>3, <1>4 DEF VolumeInv, Flags
<1>9. CountExact'
  BY <1>1, <1>3, <1>4, CountBecomes DEF Counting
<1>10. QED BY <1>5, <1>6, <1>7, <1>8, <1>9 DEF VolumeInv

(* One that leaves the FileSystem too: an operation starts or ends, or is  *)
(* all in memory.                                                          *)
LEMMA ObjectsStep ==
  ASSUME VolumeInv, fs.up, ~job.mark, Untouched \/ Searched, fs' = fs,
         job' \in JobRec, Jobs', file' \in [Names -> FileRec \cup {Closed}],
         \A n \in Names :
           \/ file'[n] = file[n]
           \/ /\ HeadsOf(vol, file')[n] = HeadsOf(vol, file)[n]
              /\ Open(n)' => Fits(vol, file'[n], n),
         \A n \in Names : Removing(n) => Removing(n)', job.op = "sync" => Searched,
         job.op # "close", job.op \notin Counting, job'.op \notin Counting \/ (job'.op = "free" /\ job'.count = 0)
  PROVE  VolumeInv'
<1>1. Types /\ vol' = vol /\ saved' \in {saved, vol}
  BY FlagStep DEF VolumeInv, Untouched, Searched
<1>2. Types'
  BY <1>1 DEF Types
<1>3. DownIs' /\ Chained' /\ Removals' /\ FlagCoversCount'
  BY <1>2, MemoryStep
<1>4. Flags'
  BY <1>1 DEF VolumeInv, Flags
<1>5. fs'.free # Unknown => fs'.free = Cardinality(FreeClusters(vol'))
  BY <1>1, CountIs
<1>6. CountExact'
  <2>1. CASE job'.op \notin Counting
    BY <1>5, <2>1, CountBecomes
  <2>2. CASE job'.op = "free" /\ job'.count = 0
    <3>1. ASSUME fs'.free # Unknown PROVE fs'.free = Cardinality(FreeClusters(vol')) + 0 - 0
      BY <1>5, <3>1, FreeCount, SMTT(40)
    <3>2. QED BY <2>2, <3>1 DEF CountExact
  <2>3. QED BY <2>1, <2>2
<1>7. QED BY <1>2, <1>3, <1>4, <1>6 DEF VolumeInv
-----------------------------------------------------------------------------
(* Operations start.                                                       *)
LEMMA CreateStep ==
  ASSUME VolumeInv, NEW n \in Names, CreateFile(n) \/ CreateDir(n)
  PROVE  VolumeInv'
<1>1. /\ Ready /\ ~Open(n) /\ ~Listed(vol, n) /\ Searched /\ fs' = fs /\ file' = file
      /\ \/ job' = [Idle EXCEPT !.op = "create", !.name = n, !.mark = NeedsMark]
         \/ job' = [Idle EXCEPT !.op = "mkdir", !.name = n]
      /\ Types
  BY DEF CreateFile, CreateDir, VolumeInv
<1>2. /\ job' \in JobRec /\ job'.op \in {"create", "mkdir"} /\ job'.name = n
      /\ job'.mark => job'.op = "create"
  <2>1. "create" \in Ops /\ "mkdir" \in Ops /\ None \in Cell /\ 0 \in Nat /\ NeedsMark \in BOOLEAN
    BY DEF Ops, Cell, NeedsMark
  <2>2. CASE job' = [Idle EXCEPT !.op = "create", !.name = n, !.mark = NeedsMark]
    BY <2>1, <2>2 DEF Idle, JobRec
  <2>3. CASE job' = [Idle EXCEPT !.op = "mkdir", !.name = n]
    BY <2>1, <2>3 DEF Idle, JobRec
  <2>4. QED BY <1>1, <2>2, <2>3
<1>3. /\ fs.up /\ job.op = "none" /\ ~job.mark /\ \A m \in Names : ~Removing(m)
  BY <1>1, ReadyIs
<1>4. Jobs'
  BY <1>1, <1>2 DEF Jobs, OnName, OnFile, OnRemoval, Open, Listed, Searched
<1>5. /\ job.op # "close" /\ job.op # "sync" /\ job.op \notin Counting /\ job'.op \notin Counting
      /\ file' \in [Names -> FileRec \cup {Closed}]
  BY <1>1, <1>2, <1>3 DEF Counting, Types
<1>6. QED BY <1>1, <1>2, <1>3, <1>4, <1>5, ObjectsStep

(* A removal.                                                              *)
LEMMA RemoveStep ==
  ASSUME VolumeInv, NEW n \in Names, ~Open(n), Remove(n)
  PROVE  VolumeInv'
<1>1. /\ Ready /\ Listed(vol, n) /\ Searched /\ fs' = fs /\ file' = file /\ vol' = vol
      /\ job' = [Idle EXCEPT !.op = IF vol.dir[n].first = None THEN "unlist" ELSE "free", !.name = n,
                             !.c = vol.dir[n].first, !.mark = NeedsMark /\ vol.dir[n].first = None]
      /\ Types /\ vol \in Image
  BY DEF Remove, VolumeInv, Searched, Types
<1>2. vol.dir[n].first \in Cell
  BY <1>1, Parts
<1>3. /\ job' \in JobRec /\ job'.op = IF vol.dir[n].first = None THEN "unlist" ELSE "free"
      /\ job'.name = n /\ job'.c = vol.dir[n].first /\ job'.count = 0
      /\ job'.mark => vol.dir[n].first = None
  <2>1. /\ (IF vol.dir[n].first = None THEN "unlist" ELSE "free") \in Ops /\ 0 \in Nat
        /\ (NeedsMark /\ vol.dir[n].first = None) \in BOOLEAN
    BY DEF Ops
  <2>2. QED BY <1>1, <1>2, <2>1 DEF Idle, JobRec
<1>4. /\ fs.up /\ job.op = "none" /\ ~job.mark /\ \A m \in Names : ~Removing(m)
      /\ ~Dangling(vol, n)
  BY <1>1, ReadyIs
<1>5. ASSUME vol.dir[n].first # None
      PROVE  Loose(vol.fat, HeadsOf(vol, file), vol.dir[n].first, n)
  <2>1. /\ Apart(vol.fat, HeadsOf(vol, file)) /\ HeadsOf(vol, file)[n] = vol.dir[n].first
    BY <1>1, HeadTypes DEF VolumeInv, Chained
  <2>2. \A m \in Names \ {n} : HeadsOf(vol, file)[m] # vol.dir[n].first
    BY <1>5, <2>1 DEF Apart
  <2>3. \A d \in Clusters : vol.fat[d] # vol.dir[n].first
    BY <1>5, <2>1 DEF Apart
  <2>4. vol.dir[n].first \in Clusters /\ vol.fat[vol.dir[n].first] # Free
    BY <1>1, <1>2, <1>4, <1>5 DEF Dangling, Cell
  <2>5. QED BY <2>2, <2>3, <2>4 DEF Loose
<1>6. Jobs'
  <2>1. OnRemoval'
    <3>1. ~Open(n)' /\ Listed(vol', n)
      BY <1>1 DEF Open
    <3>2. job'.op = "free" => vol.dir[n].first # None
      BY <1>3
    <3>3. job'.op = "free" => Loose(vol'.fat, HeadsOf(vol', file'), job'.c, job'.name)
      BY <1>1, <1>3, <1>5, <3>2
    <3>4. CASE vol.dir[n].first = None
      <4>1. job'.op = "unlist"
        BY <1>3, <3>4
      <4>2. QED BY <1>1, <1>3, <3>1, <3>4, <4>1 DEF OnRemoval
    <3>5. CASE vol.dir[n].first # None
      <4>1. job'.op = "free"
        BY <1>3, <3>5
      <4>2. QED BY <1>1, <1>3, <3>1, <3>3, <4>1 DEF OnRemoval
    <3>6. QED BY <3>4, <3>5
  <2>2. QED BY <1>3, <2>1 DEF Jobs, OnName, OnFile
<1>7. /\ job.op # "close" /\ job.op # "sync" /\ job.op \notin Counting
      /\ job'.op \notin Counting \/ (job'.op = "free" /\ job'.count = 0)
      /\ file' \in [Names -> FileRec \cup {Closed}]
  <2>1. job'.op \in {"unlist", "free"}
    BY <1>3
  <2>2. QED BY <1>1, <1>3, <1>4, <2>1 DEF Counting, Types
<1>8. QED BY <1>1, <1>3, <1>4, <1>6, <1>7, ObjectsStep

(* The least of three, the greater of two.                                 *)
LEMMA MinOf ==
  ASSUME NEW a \in Int, NEW b \in Int, NEW c \in Int
  PROVE  LET m == Min({a, b, c}) IN m \in {a, b, c} /\ m <= a /\ m <= b /\ m <= c
<1>1. \E x \in {a, b, c} : \A y \in {a, b, c} : x <= y
  BY SMTT(40)
<1>2. LET m == Min({a, b, c}) IN m \in {a, b, c} /\ \A y \in {a, b, c} : m <= y
  BY <1>1 DEF Min
<1>3. QED BY <1>2

(* The cluster at the position.                                            *)
LEMMA AtOffsetCell ==
  ASSUME Types, NEW n \in Names
  PROVE  AtOffset(n) \in Cell
<1>1. file[n].first \in Cell /\ file[n].cur \in Cell
  BY FileParts
<1>2. NextCluster(vol, file[n].cur) \in Cell
  BY DEF NextCluster, Linked, Cell
<1>3. QED BY <1>1, <1>2 DEF AtOffset

(* A write.                                                                *)
LEMMA WriteFileStep ==
  ASSUME VolumeInv, NEW n \in Names, NEW len \in 1 .. ClusterSize, WriteFile(n, len)
  PROVE  VolumeInv'
<1> DEFINE room == ClusterSize - (file[n].off % ClusterSize)
           size == Min({len, room, MaxSize - file[n].off})
<1>1. /\ Ready /\ Open(n) /\ Untouched /\ fs' = fs /\ file' = file /\ vol' = vol /\ size > 0
      /\ job' = [op |-> IF AtOffset(n) = None THEN "alloc" ELSE "data", name |-> n,
                 c |-> AtOffset(n), count |-> size, mark |-> NeedsMark]
      /\ Types
  BY DEF WriteFile, VolumeInv, Untouched
<1>2. room \in Int /\ MaxSize - file[n].off \in Int /\ len \in Int /\ file[n].off \in Nat
  <2>1. file[n].off \in Nat /\ file[n].off % ClusterSize \in Nat
    BY <1>1, FileParts, Offsets
  <2>2. QED BY <2>1, VolumeAssumption, SMTT(40)
<1> HIDE DEF room
<1>3. size \in {len, room, MaxSize - file[n].off} /\ size <= room /\ size <= MaxSize - file[n].off
  BY <1>2, MinOf
<1> HIDE DEF size
<1>4. size \in Nat /\ file[n].off + size <= MaxSize
  BY <1>1, <1>2, <1>3, VolumeAssumption, SMTT(40)
<1>5. /\ job' \in JobRec /\ job'.op = IF AtOffset(n) = None THEN "alloc" ELSE "data"
      /\ job'.name = n /\ job'.c = AtOffset(n) /\ job'.count = size
  <2>1. /\ (IF AtOffset(n) = None THEN "alloc" ELSE "data") \in Ops /\ NeedsMark \in BOOLEAN
        /\ AtOffset(n) \in Cell
    BY <1>1, AtOffsetCell DEF Ops, NeedsMark
  <2>2. QED BY <1>1, <1>4, <2>1 DEF JobRec
<1>6. /\ fs.up /\ job.op = "none" /\ ~job.mark /\ \A m \in Names : ~Removing(m)
  BY <1>1, ReadyIs
<1>7. job'.op \in {"alloc", "data"}
  BY <1>5
<1>8. Jobs'
  <2>1. Open(n)' /\ AtOffset(n)' = AtOffset(n)
    BY <1>1 DEF Open, AtOffset
  <2>2. AtOffset(n)' = IF job'.op = "data" THEN job'.c ELSE None
    BY <1>5, <2>1
  <2>3. job'.op = "data" => job'.c # None
    BY <1>5
  <2>4. OnFile'
    BY <1>1, <1>3, <1>4, <1>5, <1>7, <2>1, <2>2, <2>3 DEF OnFile, room
  <2>5. QED BY <1>7, <2>4 DEF Jobs, OnName, OnRemoval
<1>9. /\ job.op # "close" /\ job.op # "sync" /\ job.op \notin Counting /\ job'.op \notin Counting
      /\ file' \in [Names -> FileRec \cup {Closed}]
  BY <1>1, <1>6, <1>7 DEF Counting, Types
<1>10. QED BY <1>1, <1>5, <1>6, <1>8, <1>9, ObjectsStep

(* The volume is full.                                                     *)
LEMMA NoSpaceStep ==
  ASSUME VolumeInv, NoSpace
  PROVE  VolumeInv'
<1>1. /\ job.op \in {"alloc", "mkdir"} /\ ~job.mark /\ job' = Idle /\ Untouched /\ fs' = fs /\ file' = file
      /\ Types
  BY DEF NoSpace, Doing, VolumeInv
<1>2. fs.up
  BY <1>1, DoingUp
<1>3. Jobs' /\ job' \in JobRec
  BY <1>1, JobsIdle, IdleIs
<1>4. /\ job.op # "close" /\ job.op # "sync" /\ job.op \notin Counting /\ job'.op \notin Counting
      /\ file' \in [Names -> FileRec \cup {Closed}] /\ \A m \in Names : ~Removing(m)
  BY <1>1, IdleIs DEF Counting, Types, Removing
<1>5. QED BY <1>1, <1>2, <1>3, <1>4, ObjectsStep

(* The end of a flush, and of a file.                                      *)
LEMMA DiskFlushStep ==
  ASSUME VolumeInv, DiskFlush
  PROVE  VolumeInv'
<1>1. /\ job.op \in {"sync", "drop"} /\ Searched /\ job' = Idle /\ fs' = fs
      /\ file' = IF job.op = "drop" THEN [file EXCEPT ![job.name] = Closed] ELSE file
      /\ Types /\ Jobs
  BY DEF DiskFlush, VolumeInv
<1>2. fs.up /\ ~job.mark
  BY <1>1, DoingUp DEF Jobs
<1>3. Jobs' /\ job' \in JobRec
  BY <1>1, JobsIdle, IdleIs
<1>4. /\ job.op # "close" /\ job.op \notin Counting /\ job'.op \notin Counting
      /\ \A m \in Names : ~Removing(m)
  BY <1>1, IdleIs DEF Counting, Removing
<1>5. CASE job.op = "sync"
  <2>1. file' = file /\ file' \in [Names -> FileRec \cup {Closed}]
    BY <1>1, <1>5 DEF Types
  <2>2. QED BY <1>1, <1>2, <1>3, <1>4, <2>1, ObjectsStep
<1>6. CASE job.op = "drop"
  <2>1. job.name \in Names /\ Open(job.name) /\ ~file[job.name].dirty
    BY <1>1, <1>6 DEF Jobs, OnFile
  <2>2. /\ file' \in [Names -> FileRec \cup {Closed}]
        /\ \A n \in Names : file'[n] = IF n = job.name THEN Closed ELSE file[n]
    BY <1>1, <1>6, <2>1 DEF Types
  <2>3. HeadsOf(vol, file')[job.name] = HeadsOf(vol, file)[job.name]
    <3>1. Fits(vol, file[job.name], job.name)
      BY <2>1 DEF VolumeInv, Chained
    <3>2. vol.dir[job.name].first = file[job.name].first
      BY <2>1, <3>1 DEF Fits, Laid
    <3>3. HeadsOf(vol, file)[job.name] = file[job.name].first
      BY <2>1 DEF HeadsOf, Open
    <3>4. file'[job.name] = Closed
      BY <2>1, <2>2
    <3>5. HeadsOf(vol, file')[job.name] = vol.dir[job.name].first
      BY <2>1, <3>4 DEF HeadsOf
    <3>6. QED BY <3>2, <3>3, <3>5
  <2>4. \A n \in Names :
          \/ file'[n] = file[n]
          \/ /\ HeadsOf(vol, file')[n] = HeadsOf(vol, file)[n]
             /\ Open(n)' => Fits(vol, file'[n], n)
    BY <2>2, <2>3 DEF Open
  <2>5. QED BY <1>1, <1>2, <1>3, <1>4, <2>2, <2>4, ObjectsStep
<1>7. QED BY <1>1, <1>5, <1>6

(* A chain is freed: it is counted.                                        *)
LEMMA FreeDoneStep ==
  ASSUME VolumeInv, FreeDone
  PROVE  VolumeInv'
<1>1. /\ job.op = "freed" /\ ~job.mark /\ Untouched /\ file' = file /\ vol' = vol /\ saved' = saved
      /\ fs' = [fs EXCEPT !.free = Add(@, job.count), !.dirty = fs.dirty \/ fs.free # Unknown]
      /\ job' = [job EXCEPT !.op = "unlist"]
      /\ Types /\ Jobs /\ CountExact
  BY DEF FreeDone, Doing, Untouched, VolumeInv
<1>2. fs.up
  BY <1>1, DoingUp
<1>3. fs \in FsRec /\ fs.dirty \in BOOLEAN /\ job \in JobRec /\ job.count \in Nat /\ fs.free \in Counts
  BY <1>1, SMTT(40) DEF Types, FsRec, JobRec
<1>4. /\ job' \in JobRec /\ job'.op = "unlist" /\ job'.name = job.name /\ job'.mark = job.mark
  <2>1. "unlist" \in Ops
    BY DEF Ops
  <2>2. QED BY <1>1, <1>3, <2>1, JobOp
<1>5. Add(fs.free, job.count) = IF fs.free = Unknown THEN Unknown ELSE Cardinality(FreeClusters(vol))
  <2>1. ASSUME fs.free # Unknown PROVE fs.free + job.count = Cardinality(FreeClusters(vol))
    <3>1. fs.free = Cardinality(FreeClusters(vol)) + 0 - job.count
      BY <1>1, <1>2, <2>1 DEF CountExact
    <3>2. QED BY <1>3, <3>1, FreeCount, SMTT(40)
  <2>2. QED BY <2>1 DEF Add
<1>6. /\ fs' \in FsRec /\ fs'.up = fs.up /\ fs'.flag0 = fs.flag0 /\ fs'.flag = fs.flag
      /\ fs'.free = IF fs.free = Unknown THEN Unknown ELSE Cardinality(FreeClusters(vol))
      /\ fs'.dirty = (fs.dirty \/ fs.free # Unknown)
  <2> DEFINE k == Add(fs.free, job.count)
             d == fs.dirty \/ fs.free # Unknown
  <2>1. k \in Counts /\ d \in BOOLEAN
    BY <1>5, FreeCount DEF Counts
  <2>2. fs' = FsCounts(fs, k, d)
    BY <1>1 DEF FsCounts
  <2> HIDE DEF k, d
  <2>3. LET g == FsCounts(fs, k, d) IN
          /\ g \in FsRec /\ g.up = fs.up /\ g.free = k
          /\ g.dirty = d /\ g.flag0 = fs.flag0 /\ g.flag = fs.flag
    BY <1>3, <2>1, FsCount, SMTT(40)
  <2>4. QED BY <1>5, <2>2, <2>3 DEF k, d
<1>7. Types'
  BY <1>1, <1>4, <1>6 DEF Types
<1>8. \A n : Removing(n) => Removing(n)'
  BY <1>4 DEF Removing
<1>9. DownIs' /\ Chained' /\ Removals' /\ FlagCoversCount'
  BY <1>1, <1>2, <1>6, <1>7, <1>8, MemoryStep
<1>10. Jobs'
  <2>1. OnRemoval'
    <3>1. /\ job.name \in Names /\ ~Open(job.name) /\ Listed(vol, job.name) /\ Dangling(vol, job.name)
      BY <1>1 DEF Jobs, OnRemoval
    <3>2. QED BY <1>1, <1>4, <3>1 DEF OnRemoval, Open
  <2>2. QED BY <1>1, <1>4, <2>1 DEF Jobs, OnName, OnFile
<1>11. Flags'
  <2>1. ASSUME ~fs'.flag0, ~fs'.dirty PROVE vol'.free = fs'.free
    BY <1>1, <1>2, <1>6, <2>1 DEF VolumeInv, Flags
  <2>2. QED BY <1>1, <1>2, <1>4, <1>6, <2>1 DEF VolumeInv, Flags
<1>12. CountExact'
  <2>1. fs'.free # Unknown => fs'.free = Cardinality(FreeClusters(vol'))
    BY <1>1, <1>6
  <2>2. QED BY <1>4, <2>1, CountBecomes DEF Counting
<1>13. QED BY <1>7, <1>9, <1>10, <1>11, <1>12 DEF VolumeInv

(* A file is opened.                                                       *)
LEMMA OpenFileStep ==
  ASSUME VolumeInv, NEW n \in Names, OpenFile(n)
  PROVE  VolumeInv'
<1> DEFINE r == [first |-> vol.dir[n].first, cur |-> None, off |-> 0, size |-> vol.dir[n].size,
                 dirty |-> FALSE]
<1>1. /\ Ready /\ ~Open(n) /\ Listed(vol, n) /\ ~vol.dir[n].dir /\ Searched /\ fs' = fs /\ job' = job
      /\ file' = [file EXCEPT ![n] = r] /\ Types /\ vol \in Image
  BY DEF OpenFile, VolumeInv, Types
<1>2. vol.dir[n] \in Entry
  BY <1>1, Parts DEF Listed
<1>3. r \in FileRec
  <2>1. vol.dir[n].first \in Cell /\ vol.dir[n].size \in 0 .. MaxSize /\ None \in Cell /\ 0 \in 0 .. MaxSize
    BY <1>2, VolumeAssumption, SMTT(40) DEF Entry, Cell
  <2>2. QED BY <2>1 DEF FileRec
<1>4. r.first = vol.dir[n].first /\ r.cur = None /\ r.off = 0 /\ r.size = vol.dir[n].size /\ r.dirty = FALSE
  OBVIOUS
<1>5. r.size \in Nat
  BY <1>2, <1>4, VolumeAssumption, SMTT(40) DEF Entry
<1> HIDE DEF r
<1>6. /\ file' \in [Names -> FileRec \cup {Closed}]
      /\ \A m \in Names : file'[m] = IF m = n THEN r ELSE file[m]
  BY <1>1, <1>3 DEF Types
<1>7. /\ fs.up /\ job = Idle /\ job.op = "none" /\ ~job.mark /\ \A m \in Names : ~Removing(m)
      /\ ~Dangling(vol, n)
  BY <1>1, ReadyIs
<1>8. Fits(vol, r, n)
  <2>1. Bytes(vol, r.first, r.size, n)
    BY <1>1, <1>4, <1>7 DEF VolumeInv, Chained, ShownAt
  <2>2. r.first # None => vol.fat[r.first] # Free
    BY <1>1, <1>4, <1>7 DEF Dangling
  <2>3. r.off <= r.size
    BY <1>4, <1>5, SMTT(40)
  <2>4. QED BY <1>1, <1>4, <2>1, <2>2, <2>3 DEF Fits, Laid
<1>9. HeadsOf(vol, file')[n] = HeadsOf(vol, file)[n]
  <2>1. HeadsOf(vol, file)[n] = vol.dir[n].first
    BY <1>1 DEF HeadsOf, Open
  <2>2. file'[n] = r
    BY <1>6
  <2>3. HeadsOf(vol, file')[n] \in {r.first, vol.dir[n].first}
    BY <2>2 DEF HeadsOf
  <2>4. QED BY <1>4, <2>1, <2>3
<1>10. \A m \in Names :
         \/ file'[m] = file[m]
         \/ /\ HeadsOf(vol, file')[m] = HeadsOf(vol, file)[m]
            /\ Open(m)' => Fits(vol, file'[m], m)
  BY <1>6, <1>8, <1>9
<1>11. /\ Jobs' /\ job' \in JobRec /\ job.op # "close" /\ job.op # "sync"
       /\ job.op \notin Counting /\ job'.op \notin Counting
  BY <1>1, <1>7, JobsIdle, IdleIs DEF Counting
<1>12. QED BY <1>1, <1>6, <1>7, <1>10, <1>11, ObjectsStep
-----------------------------------------------------------------------------
(* What an open file has of its chain.                                     *)
LEMMA OpenIs ==
  ASSUME VolumeInv, NEW n \in Names, Open(n)
  PROVE  /\ Fits(vol, file[n], n) /\ file[n] \in FileRec
         /\ file[n].first \in Cell /\ file[n].off \in Nat /\ file[n].size \in Nat
         /\ file[n].off <= file[n].size /\ file[n].size <= MaxSize
         /\ file[n].off # 0 => /\ file[n].cur = Nth(vol, file[n].first, ClustersFromBytes(file[n].off) - 1)
                               /\ file[n].cur # None
         /\ file[n].off = 0 => file[n].cur = None
         /\ file[n].first = None => file[n].size = 0
<1>1. /\ Types /\ Fits(vol, file[n], n)
  BY DEF VolumeInv, Chained
<1>2. /\ file[n].first \in Cell /\ file[n].off \in Nat /\ file[n].size \in Nat /\ file[n] \in FileRec
      /\ file[n].size <= MaxSize
  BY <1>1, FileParts
<1>3. /\ file[n].off <= file[n].size /\ Bytes(vol, file[n].first, file[n].size, n)
      /\ file[n].cur = IF file[n].off = 0 THEN None
                       ELSE Nth(vol, file[n].first, ClustersFromBytes(file[n].off) - 1)
  BY <1>1 DEF Fits, Laid
<1>4. ASSUME file[n].off # 0 PROVE file[n].cur # None
  <2>1. ClustersFromBytes(file[n].off) - 1 \in 0 .. ClustersFromBytes(file[n].size) - 1
    BY <1>2, <1>3, <1>4, InSize
  <2>2. QED BY <1>3, <1>4, <2>1 DEF Bytes
<1>5. ASSUME file[n].first = None PROVE file[n].size = 0
  <2>1. SUFFICES ASSUME file[n].size # 0 PROVE FALSE
    OBVIOUS
  <2>2. 0 \in 0 .. ClustersFromBytes(file[n].size) - 1
    <3>1. ClustersFromBytes(file[n].size) - 1 \in 0 .. ClustersFromBytes(file[n].size) - 1
      BY <1>2, <2>1, InSize, SMTT(40)
    <3>2. ClustersFromBytes(file[n].size) \in Nat
      BY <1>2, Reaches
    <3>3. QED BY <3>1, <3>2, SMTT(40)
  <2>3. Nth(vol, file[n].first, 0) # None
    BY <1>3, <2>2 DEF Bytes
  <2>4. QED BY <1>5, <2>3, NthFirst
<1>6. QED BY <1>1, <1>2, <1>3, <1>4, <1>5

(* The cluster at the position is the one the chain has there.             *)
LEMMA AtOffsetIs ==
  ASSUME VolumeInv, NEW n \in Names, Open(n)
  PROVE  AtOffset(n) = Nth(vol, file[n].first, file[n].off \div ClusterSize)
<1> DEFINE off == file[n].off
           q == off \div ClusterSize
           r == off % ClusterSize
           first == file[n].first
<1>1. /\ first \in Cell /\ off \in Nat
      /\ off # 0 => file[n].cur = Nth(vol, first, ClustersFromBytes(off) - 1) /\ file[n].cur # None
      /\ off = 0 => file[n].cur = None
  BY OpenIs
<1>2. /\ q \in Nat /\ r \in Nat /\ r < ClusterSize /\ q * ClusterSize \in Nat
      /\ off = q * ClusterSize + r
  BY <1>1, Offsets
<1>3. AtOffset(n) = IF r # 0 THEN file[n].cur
                    ELSE IF file[n].cur = None THEN first ELSE NextCluster(vol, file[n].cur)
  BY DEF AtOffset
<1> HIDE DEF off, q, r, first
<1>4. ClusterSize \in Nat /\ ClusterSize > 0
  BY VolumeAssumption, SMTT(40)
<1>5. CASE r # 0
  <2>1. q * ClusterSize < off /\ off <= q * ClusterSize + ClusterSize /\ off # 0
    BY <1>2, <1>4, <1>5, SMTT(40)
  <2>2. ClustersFromBytes(off) - 1 = q
    BY <1>1, <1>2, <2>1, Within
  <2>3. QED BY <1>1, <1>3, <1>5, <2>1, <2>2 DEF q, off, first
<1>6. CASE off = 0
  <2>1. q = 0 /\ r = 0
    BY <1>2, <1>4, <1>6, Z3T(40)
  <2>2. QED BY <1>1, <1>3, <1>6, <2>1, NthFirst DEF q, off, first
<1>7. CASE r = 0 /\ off # 0
  <2>1. q # 0
    BY <1>2, <1>4, <1>7, SMTT(40)
  <2>2. PICK k \in Nat : q = k + 1
    <3>1. q - 1 \in Nat /\ q = (q - 1) + 1
      BY <1>2, <2>1, SMTT(40)
    <3>2. QED BY <3>1
  <2>3. k * ClusterSize < off /\ off <= k * ClusterSize + ClusterSize
    <3>1. (k + 1) * ClusterSize = k * ClusterSize + ClusterSize /\ k * ClusterSize \in Nat
      BY <1>4, Z3T(40)
    <3>2. off = k * ClusterSize + ClusterSize
      BY <1>2, <1>7, <2>2, <3>1, SMTT(40)
    <3>3. QED BY <1>4, <3>1, <3>2, SMTT(40)
  <2>4. ClustersFromBytes(off) - 1 = k
    BY <1>1, <2>3, Within
  <2>5. file[n].cur = Nth(vol, first, k) /\ file[n].cur # None
    BY <1>1, <1>7, <2>4
  <2>6. Nth(vol, first, k + 1) = NextCluster(vol, file[n].cur)
    BY <2>5, NthNext DEF Follow
  <2>7. QED BY <1>3, <1>7, <2>2, <2>5, <2>6 DEF q, off, first
<1>8. QED BY <1>5, <1>6, <1>7

(* The position moves.                                                     *)
MoveTo(n, o, c) == [file EXCEPT ![n].off = o, ![n].cur = c]

(* Nothing else of the files changes.                                      *)
LEMMA MoveIs ==
  ASSUME Types, NEW n \in Names, Open(n), NEW o \in 0 .. MaxSize, NEW c \in Cell
  PROVE  /\ MoveTo(n, o, c) \in [Names -> FileRec \cup {Closed}]
         /\ \A m \in Names : m # n => MoveTo(n, o, c)[m] = file[m]
         /\ LET r == MoveTo(n, o, c)[n] IN
              /\ r \in FileRec /\ r.first = file[n].first /\ r.off = o /\ r.cur = c
              /\ r.size = file[n].size /\ r.dirty = file[n].dirty
<1>1. file \in [Names -> FileRec \cup {Closed}] /\ file[n] \in FileRec
  BY FileParts DEF Types
<1> DEFINE r == [file[n] EXCEPT !.off = o, !.cur = c]
<1>2. r \in FileRec
  BY <1>1 DEF FileRec
<1>3. /\ r.first = file[n].first /\ r.off = o /\ r.cur = c
      /\ r.size = file[n].size /\ r.dirty = file[n].dirty
  BY <1>1, SMTT(40) DEF FileRec
<1> HIDE DEF r
<1>4. [file EXCEPT ![n] = r] \in [Names -> FileRec \cup {Closed}]
  BY <1>1, <1>2
<1>5. MoveTo(n, o, c) = [file EXCEPT ![n] = r]
  BY <1>1 DEF MoveTo, r
<1>6. QED BY <1>1, <1>2, <1>3, <1>4, <1>5

(* A step that only moves a file's position.                               *)
LEMMA MoveStep ==
  ASSUME VolumeInv, Ready, NEW n \in Names, Open(n), NEW o \in 0 .. MaxSize, NEW c \in Cell,
         o <= file[n].size,
         c = IF o = 0 THEN None ELSE Nth(vol, file[n].first, ClustersFromBytes(o) - 1),
         file' = MoveTo(n, o, c), Untouched, fs' = fs, job' = job
  PROVE  VolumeInv'
<1>1. Types /\ vol' = vol
  BY DEF VolumeInv, Untouched
<1>2. /\ file' \in [Names -> FileRec \cup {Closed}]
      /\ \A m \in Names : m # n => file'[m] = file[m]
      /\ file'[n] \in FileRec /\ file'[n].first = file[n].first /\ file'[n].off = o /\ file'[n].cur = c
      /\ file'[n].size = file[n].size /\ file'[n].dirty = file[n].dirty
  <2>1. /\ MoveTo(n, o, c) \in [Names -> FileRec \cup {Closed}]
        /\ \A m \in Names : m # n => MoveTo(n, o, c)[m] = file[m]
        /\ LET r == MoveTo(n, o, c)[n] IN
             /\ r \in FileRec /\ r.first = file[n].first /\ r.off = o /\ r.cur = c
             /\ r.size = file[n].size /\ r.dirty = file[n].dirty
    BY ONLY <1>1, n \in Names, Open(n), o \in 0 .. MaxSize, c \in Cell, MoveIs, SMTT(40)
  <2>2. QED BY <2>1
<1>3. Fits(vol, file'[n], n)
  <2>1. Fits(vol, file[n], n)
    BY OpenIs
  <2>2. QED BY <1>2, <2>1 DEF Fits, Laid
<1>4. HeadsOf(vol, file')[n] = HeadsOf(vol, file)[n]
  <2>1. file'[n] # Closed
    BY <1>2, ClosedIsNone
  <2>2. QED BY <1>2, <2>1 DEF HeadsOf, Open
<1>5. \A m \in Names :
        \/ file'[m] = file[m]
        \/ /\ HeadsOf(vol, file')[m] = HeadsOf(vol, file)[m]
           /\ Open(m)' => Fits(vol, file'[m], m)
  BY <1>2, <1>3, <1>4
<1>6. fs.up /\ job = Idle /\ job.op = "none" /\ ~job.mark /\ \A m \in Names : ~Removing(m)
  BY ReadyIs
<1>7. /\ Jobs' /\ job' \in JobRec /\ job.op # "close" /\ job.op # "sync"
      /\ job.op \notin Counting /\ job'.op \notin Counting
  BY <1>6, JobsIdle, IdleIs DEF Counting
<1>8. QED BY <1>2, <1>5, <1>6, <1>7, ObjectsStep

(* A read.                                                                 *)
LEMMA ReadFileStep ==
  ASSUME VolumeInv, NEW n \in Names, NEW len \in 1 .. ClusterSize, ReadFile(n, len)
  PROVE  VolumeInv'
<1> DEFINE room == ClusterSize - (file[n].off % ClusterSize)
           left == file[n].size - file[n].off
           size == Min({len, room, left})
           q == file[n].off \div ClusterSize
           o == file[n].off + size
<1>1. /\ Ready /\ Open(n) /\ AtOffset(n) # None /\ size > 0 /\ file' = MoveTo(n, o, AtOffset(n))
      /\ Untouched /\ fs' = fs /\ job' = job /\ Types
  BY DEF ReadFile, VolumeInv, MoveTo
<1>2. /\ file[n].off \in Nat /\ file[n].size \in Nat /\ file[n].size <= MaxSize
  BY <1>1, OpenIs
<1>3. AtOffset(n) = Nth(vol, file[n].first, q) /\ AtOffset(n) \in Cell
  BY <1>1, AtOffsetIs, AtOffsetCell
<1>4. /\ q \in Nat /\ q * ClusterSize \in Nat /\ file[n].off % ClusterSize \in Nat
      /\ file[n].off = q * ClusterSize + (file[n].off % ClusterSize)
  BY <1>2, Offsets
<1> HIDE DEF q, size
<1>5. room \in Int /\ left \in Int /\ len \in Int /\ ClusterSize \in Nat
  BY <1>2, <1>4, VolumeAssumption, SMTT(40)
<1>6. size \in {len, room, left} /\ size <= room /\ size <= left
  BY <1>5, MinOf DEF size
<1>7. /\ o \in Nat /\ o <= file[n].size /\ o \in 0 .. MaxSize /\ o # 0
      /\ q * ClusterSize < o /\ o <= q * ClusterSize + ClusterSize
  <2>1. PICK Q \in Nat : Q = q * ClusterSize
    BY <1>4
  <2>2. PICK m \in Nat : m = file[n].off % ClusterSize
    BY <1>4
  <2>3. PICK t \in Nat : t = file[n].size
    BY <1>2
  <2>4. /\ file[n].off = Q + m /\ size > 0 /\ MaxSize \in Nat /\ size \in Int /\ ClusterSize \in Nat
        /\ size <= ClusterSize - m /\ size <= t - (Q + m) /\ t <= MaxSize
    BY <1>1, <1>2, <1>4, <1>5, <1>6, <2>1, <2>2, <2>3, VolumeAssumption
  <2>5. /\ Q + m + size \in Nat /\ Q + m + size <= t /\ Q + m + size \in 0 .. MaxSize
        /\ Q + m + size # 0 /\ Q < Q + m + size /\ Q + m + size <= Q + ClusterSize
    BY ONLY <2>4, Q \in Nat, m \in Nat, t \in Nat, SMTT(40)
  <2>6. QED BY <2>1, <2>3, <2>4, <2>5
<1> HIDE DEF o
<1>8. ClustersFromBytes(o) - 1 = q
  BY <1>4, <1>7, Within
<1>9. AtOffset(n) = IF o = 0 THEN None ELSE Nth(vol, file[n].first, ClustersFromBytes(o) - 1)
  BY <1>3, <1>7, <1>8
<1>10. QED BY <1>1, <1>3, <1>7, <1>9, MoveStep

(* A seek: the chain reaches as far as the size, so the walk does not stop *)
(* short.                                                                  *)
LEMMA SeekFileStep ==
  ASSUME VolumeInv, NEW n \in Names, NEW p \in 0 .. MaxSize, SeekFile(n, p)
  PROVE  VolumeInv'
<1> DEFINE first == file[n].first
           k == ClustersFromBytes(p) - 1
           last == Max({i \in 0 .. k : Nth(vol, first, i) # None} \cup {0})
           to == IF p = 0 \/ first = None THEN [pos |-> 0, cluster |-> None]
                 ELSE IF k = ClustersFromBytes(file[n].off) - 1
                      THEN [pos |-> p, cluster |-> file[n].cur]
                 ELSE [pos |-> IF last < k THEN (last + 1) * ClusterSize ELSE p,
                       cluster |-> Nth(vol, first, last)]
<1>1. /\ Ready /\ Open(n) /\ p <= file[n].size /\ file' = MoveTo(n, to.pos, to.cluster)
      /\ Untouched /\ fs' = fs /\ job' = job /\ Types
  BY DEF SeekFile, VolumeInv, MoveTo
<1>2. /\ first \in Cell /\ file[n].off \in Nat /\ file[n].size \in Nat
      /\ file[n].off # 0 => file[n].cur = Nth(vol, first, ClustersFromBytes(file[n].off) - 1)
      /\ first = None => file[n].size = 0
      /\ Fits(vol, file[n], n)
  BY <1>1, OpenIs
<1>3. p \in Nat /\ p >= 0
  BY VolumeAssumption, SMTT(40)
<1>4. ASSUME p # 0, first # None
      PROVE  /\ to.pos = p /\ to.cluster = Nth(vol, first, k) /\ k \in Nat
  <2>1. k \in 0 .. ClustersFromBytes(file[n].size) - 1
    BY <1>1, <1>2, <1>3, <1>4, InSize
  <2>2. k \in Nat /\ Nth(vol, first, k) # None
    <3>1. k \in Nat
      <4>1. ClustersFromBytes(file[n].size) \in Nat
        BY <1>2, Reaches
      <4>2. QED BY <2>1, <4>1, SMTT(40)
    <3>2. QED BY <1>2, <2>1, <3>1 DEF Fits, Laid, Bytes
  <2>3. CASE k = ClustersFromBytes(file[n].off) - 1
    <3>1. file[n].off # 0
      <4>1. ASSUME file[n].off = 0 PROVE ClustersFromBytes(file[n].off) = 0
        <5>1. 0 \in Nat /\ ~(0 * ClusterSize < 0) /\ ClustersFromBytes(0) \in Nat
          BY VolumeAssumption, Reaches, SMTT(40)
        <5>2. ~(0 < ClustersFromBytes(0))
          BY <5>1, Reaches
        <5>3. QED BY <4>1, <5>1, <5>2, SMTT(40)
      <4>2. QED BY <2>2, <2>3, <4>1, SMTT(40)
    <3>2. to = [pos |-> p, cluster |-> file[n].cur]
      BY <1>4, <2>3
    <3>3. QED BY <1>2, <2>2, <2>3, <3>1, <3>2
  <2>4. CASE k # ClustersFromBytes(file[n].off) - 1
    <3> DEFINE S == {i \in 0 .. k : Nth(vol, first, i) # None} \cup {0}
    <3>1. to = [pos |-> IF last < k THEN (last + 1) * ClusterSize ELSE p, cluster |-> Nth(vol, first, last)]
      BY <1>4, <2>4
    <3> HIDE DEF k
    <3>2. k \in S /\ \A y \in S : y \in Nat /\ y <= k
      BY <2>2, SMTT(40)
    <3>3. Max(S) = k
      <4>1. \E x \in S : \A y \in S : x >= y
        BY <2>2, <3>2, SMTT(40)
      <4> HIDE DEF S
      <4>2. Max(S) \in S /\ \A y \in S : Max(S) >= y
        BY <4>1 DEF Max
      <4>3. QED BY <3>2, <4>2, SMTT(40)
    <3>4. last = k /\ ~(last < k)
      BY <2>2, <3>3, SMTT(40)
    <3>5. QED BY <2>2, <3>1, <3>4
  <2>5. QED BY <2>3, <2>4
<1>5. ASSUME p = 0 \/ first = None PROVE to.pos = 0 /\ to.cluster = None
  BY <1>5
<1> HIDE DEF to, k, first
<1>6. /\ to.pos \in 0 .. MaxSize /\ to.pos <= file[n].size
      /\ to.cluster = IF to.pos = 0 THEN None ELSE Nth(vol, first, ClustersFromBytes(to.pos) - 1)
  <2>1. CASE p # 0 /\ first # None
    BY <1>1, <1>4, <2>1 DEF k
  <2>2. CASE p = 0 \/ first = None
    <3>1. to.pos = 0 /\ to.cluster = None
      BY <1>5, <2>2
    <3>2. QED BY <1>2, <3>1, VolumeAssumption, SMTT(40)
  <2>3. QED BY <2>1, <2>2
<1>7. to.cluster \in Cell
  <2>1. CASE p # 0 /\ first # None
    BY <1>2, <1>4, <2>1, NthCell
  <2>2. CASE p = 0 \/ first = None
    BY <1>5, <2>2 DEF Cell
  <2>3. QED BY <2>1, <2>2
<1>8. QED BY <1>1, <1>6, <1>7, MoveStep DEF first
-----------------------------------------------------------------------------
(* Writes of entries.                                                      *)
LEMMA EntryStep ==
  ASSUME VolumeInv, fs.up, ~job.mark, NEW n \in Names, NEW e \in Entry \cup {NoEntry},
         Put(DirBlock, [vol EXCEPT !.dir[n] = e]), fs' = fs, job' \in JobRec,
         file' \in [Names -> FileRec \cup {Closed}], \A m \in Names : m # n => file'[m] = file[m],
         LET h == HeadsOf(vol, file)
             g == HeadsOf(vol', file')[n]
         IN \/ g \in {None, h[n]}
            \/ (\A m \in Names \ {n} : h[m] # g) /\ \A c \in Clusters : vol.fat[c] # g,
         ShownAt(vol', n), Open(n)' => Fits(vol', file'[n], n), ~Dangling(vol', n),
         \A m \in Names : Removing(m) => m = n /\ e = NoEntry /\ job'.op = "sync",
         job.op \notin Counting \cup {"sync", "close"}, job'.op \notin Counting
  PROVE  Types' /\ DownIs' /\ Chained' /\ Removals' /\ Flags' /\ CountExact' /\ FlagCoversCount'
<1>1. Types /\ vol \in Image
  BY DEF VolumeInv, Types
<1>2. /\ vol' \in Image
      /\ vol'.fat = vol.fat /\ vol'.data = vol.data /\ vol'.flag = vol.flag /\ vol'.free = vol.free
      /\ \A m \in Names : vol'.dir[m] = IF m = n THEN e ELSE vol.dir[m]
  <2>1. vol' = SetDir(vol, n, e)
    BY DEF Put, SetDir
  <2>2. LET w == SetDir(vol, n, e) IN
          /\ w \in Image
          /\ w.fat = vol.fat /\ w.data = vol.data /\ w.flag = vol.flag /\ w.free = vol.free
          /\ \A m \in Names : w.dir[m] = IF m = n THEN e ELSE vol.dir[m]
    BY ONLY <1>1, n \in Names, e \in Entry \cup {NoEntry}, DirWrite, ZenonT(60)
  <2>3. QED BY <2>1, <2>2
<1>3. FlagCoversCount' /\ saved' \in {saved, vol}
  <2>1. \E b, v : Put(b, v)
    OBVIOUS
  <2>2. QED BY <2>1, FlagStep
<1>4. Types'
  BY <1>1, <1>2, <1>3 DEF Types
<1>5. \A m \in Names : m # n => HeadsOf(vol', file')[m] = HeadsOf(vol, file)[m]
  BY <1>2 DEF HeadsOf
<1>6. Apart(vol'.fat, HeadsOf(vol', file'))
  <2>1. Apart(vol.fat, HeadsOf(vol, file)) /\ \A m \in Names \ {n} : HeadsOf(vol', file')[m] = HeadsOf(vol, file)[m]
    BY <1>5 DEF VolumeInv, Chained
  <2> DEFINE h == HeadsOf(vol, file)
             g == HeadsOf(vol', file')
  <2>2. /\ Apart(vol.fat, h) /\ \A m \in Names \ {n} : g[m] = h[m]
        /\ \/ g[n] \in {None, h[n]}
           \/ (\A m \in Names \ {n} : h[m] # g[n]) /\ \A c \in Clusters : vol.fat[c] # g[n]
    BY <2>1
  <2> HIDE DEF g, h
  <2>3. Apart(vol.fat, g)
    BY ONLY <2>2, n \in Names, ApartHead, SMTT(40)
  <2>4. QED BY <1>2, <2>3 DEF g
<1>7. Chained'
  <2>1. ASSUME NEW m \in Names
        PROVE  \/ /\ vol'.dir[m] = vol.dir[m] /\ file'[m] = file[m]
                  /\ HeadsOf(vol, file)[m] = None \/ Keeps(vol, vol', HeadsOf(vol, file)[m], m)
               \/ ShownAt(vol', m) /\ (Open(m)' => Fits(vol', file'[m], m))
    <3>1. CASE m = n
      BY <3>1
    <3>2. CASE m # n
      BY <1>2, <3>2, KeepsSame
    <3>3. QED BY <3>1, <3>2
  <2>2. QED BY <1>3, <1>4, <1>6, <2>1, ChainedStep
<1>8. Removals'
  <2>1. ASSUME NEW m \in Names PROVE ~Dangling(vol', m)
    <3>1. CASE m # n
      <4>1. Dangling(vol', m) => Dangling(vol, m)
        BY <1>2, <3>1 DEF Dangling, Listed
      <4>2. ~Dangling(vol, m)
        BY <3>1 DEF VolumeInv, Removals
      <4>3. QED BY <4>1, <4>2
    <3>2. QED BY <3>1
  <2>2. ASSUME NEW m \in Names, Removing(m) PROVE vol'.dir[m] = NoEntry /\ job'.op = "sync"
    BY <1>2, <2>2
  <2>3. job.op # "sync"
    OBVIOUS
  <2>4. QED BY <1>3, <2>1, <2>2, <2>3, RemovalsStep
<1>9. FreeClusters(vol') = FreeClusters(vol)
  BY <1>2 DEF FreeClusters
<1>10. Flags'
  BY <1>2, <1>9 DEF VolumeInv, Flags, Miscounted
<1>11. CountExact'
  <2>1. fs'.free # Unknown => fs'.free = Cardinality(FreeClusters(vol'))
    BY <1>9, CountIs
  <2>2. QED BY <2>1, CountBecomes
<1>12. QED BY <1>3, <1>4, <1>7, <1>8, <1>10, <1>11 DEF DownIs

(* A new file.                                                             *)
LEMMA WriteEntryStep ==
  ASSUME VolumeInv, WriteEntry
  PROVE  VolumeInv'
<1>1. PICK n \in Names : n = job.name /\ ~Open(n) /\ vol.dir[n] = NoEntry
  BY DEF VolumeInv, Jobs, OnName, WriteEntry, Doing
<1> DEFINE e == [first |-> None, size |-> 0, dir |-> FALSE]
           r == [first |-> None, cur |-> None, off |-> 0, size |-> 0, dirty |-> FALSE]
<1>2. /\ job.op = "create" /\ ~job.mark /\ Put(DirBlock, [vol EXCEPT !.dir[n] = e])
      /\ file' = [file EXCEPT ![n] = r] /\ job' = [Idle EXCEPT !.op = "sync"] /\ fs' = fs /\ Types
  BY <1>1 DEF WriteEntry, Doing, VolumeInv
<1>3. fs.up
  BY <1>2, DoingUp
<1>4. None \in Cell /\ 0 \in 0 .. MaxSize /\ 0 \in Nat /\ "sync" \in Ops
  BY VolumeAssumption, SMTT(40) DEF Cell, Ops
<1>5. e \in Entry /\ e # NoEntry /\ e.first = None /\ e.size = 0 /\ e.dir = FALSE
  <2>1. e \in Entry /\ e.first = None /\ e.size = 0 /\ e.dir = FALSE
    BY <1>4 DEF Entry
  <2>2. NoEntry.size # 0
    BY SMTT(40) DEF NoEntry
  <2>3. QED BY <2>1, <2>2
<1>6. r \in FileRec /\ r.first = None /\ r.cur = None /\ r.off = 0 /\ r.size = 0 /\ r.dirty = FALSE
  BY <1>4 DEF FileRec
<1> HIDE DEF e, r
<1>7. job' \in JobRec /\ job'.op = "sync" /\ ~job'.mark
  BY <1>2, <1>4 DEF Idle, JobRec
<1>8. /\ file' \in [Names -> FileRec \cup {Closed}] /\ file'[n] = r
      /\ \A m \in Names : m # n => file'[m] = file[m]
  BY <1>2, <1>6 DEF Types
<1>9. vol'.dir[n] = e
  <2>1. vol' = SetDir(vol, n, e) /\ vol \in Image
    BY <1>2 DEF Put, SetDir, Types
  <2>2. SetDir(vol, n, e).dir[n] = e
    BY ONLY n \in Names, <1>5, <2>1, DirWrite, SMTT(40)
  <2>3. QED BY <2>1, <2>2
<1>10. HeadsOf(vol', file')[n] = None
  BY <1>5, <1>6, <1>8, <1>9 DEF HeadsOf
<1>11. Bytes(vol', None, 0, n)
  <2>1. 0 .. ClustersFromBytes(0) - 1 = {}
    <3>1. 0 \in Nat /\ ~(0 * ClusterSize < 0) /\ ClustersFromBytes(0) \in Nat
      BY VolumeAssumption, Reaches, SMTT(40)
    <3>2. ~(0 < ClustersFromBytes(0))
      BY <3>1, Reaches
    <3>3. QED BY <3>1, <3>2, SMTT(40)
  <2>2. QED BY <2>1 DEF Bytes
<1>12. ShownAt(vol', n) /\ ~Dangling(vol', n)
  BY <1>5, <1>9, <1>11 DEF ShownAt, Dangling
<1>13. Fits(vol', file'[n], n)
  <2>1. 0 <= 0
    BY SMTT(40)
  <2>2. QED BY <1>5, <1>6, <1>8, <1>9, <1>11, <2>1 DEF Fits, Laid, Listed
<1>14. \A m \in Names : ~Removing(m)
  BY <1>2 DEF Removing
<1>15. job.op \notin Counting \cup {"sync", "close"} /\ job'.op \notin Counting
  BY <1>2, <1>7 DEF Counting
<1>16. Types' /\ DownIs' /\ Chained' /\ Removals' /\ Flags' /\ CountExact' /\ FlagCoversCount'
  BY <1>2, <1>3, <1>5, <1>7, <1>8, <1>10, <1>12, <1>13, <1>14, <1>15, EntryStep
<1>17. QED BY <1>7, <1>16, SyncJobs DEF VolumeInv

(* A file's entry is written.                                              *)
LEMMA FlushFileStep ==
  ASSUME VolumeInv, NEW n \in Names, NEW op \in {"sync", "drop"}, FlushFile(n, op)
  PROVE  VolumeInv'
<1>1. /\ Ready /\ Open(n) /\ file' = [file EXCEPT ![n].dirty = FALSE]
      /\ file[n].dirty => Put(DirBlock, [vol EXCEPT !.dir[n] =
            [first |-> file[n].first, size |-> file[n].size, dir |-> FALSE]])
      /\ ~file[n].dirty => Untouched
      /\ job' = [Idle EXCEPT !.op = op, !.name = n] /\ fs' = fs /\ Types
  BY DEF FlushFile, VolumeInv
<1>2. /\ Fits(vol, file[n], n) /\ file[n] \in FileRec /\ file[n].first \in Cell
      /\ file[n].size \in 0 .. MaxSize /\ file[n].size \in Nat
  BY <1>1, OpenIs, FileParts
<1>3. /\ file' \in [Names -> FileRec \cup {Closed}]
      /\ \A m \in Names : m # n => file'[m] = file[m]
      /\ file'[n] \in FileRec /\ file'[n].first = file[n].first /\ file'[n].off = file[n].off
      /\ file'[n].cur = file[n].cur /\ file'[n].size = file[n].size /\ file'[n].dirty = FALSE
  <2> DEFINE r == [file[n] EXCEPT !.dirty = FALSE]
  <2>1. r \in FileRec
    BY <1>2 DEF FileRec
  <2>2. /\ r.first = file[n].first /\ r.off = file[n].off
        /\ r.cur = file[n].cur /\ r.size = file[n].size /\ r.dirty = FALSE
    BY <1>2 DEF FileRec
  <2>3. file' = [file EXCEPT ![n] = r]
    BY <1>1
  <2> HIDE DEF r
  <2>4. QED BY <1>1, <2>1, <2>2, <2>3 DEF Types
<1>4. /\ job' \in JobRec /\ job'.op = op /\ job'.name = n /\ job'.mark = FALSE
  <2>1. op \in Ops /\ None \in Cell /\ 0 \in Nat
    BY DEF Ops, Cell
  <2>2. QED BY <1>1, <2>1 DEF Idle, JobRec
<1>5. fs.up /\ job = Idle /\ job.op = "none" /\ ~job.mark /\ \A m \in Names : ~Removing(m)
  BY <1>1, ReadyIs
<1>6. /\ job.op \notin Counting \cup {"sync", "close"} /\ job'.op \notin Counting
  BY <1>4, <1>5 DEF Counting
<1>7. Open(n)' /\ file'[n] # Closed
  BY <1>3, ClosedIsNone DEF Open
<1>8. Jobs'
  <2>1. OnFile'
    BY <1>3, <1>4, <1>7 DEF OnFile
  <2>2. QED BY <1>4, <2>1 DEF Jobs, OnName, OnRemoval
<1>9. CASE ~file[n].dirty
  <2>1. Untouched /\ Fits(vol, file'[n], n)
    BY <1>1, <1>2, <1>3, <1>9 DEF Fits, Laid
  <2>2. HeadsOf(vol, file')[n] = HeadsOf(vol, file)[n]
    BY <1>1, <1>3, <1>7 DEF HeadsOf, Open
  <2>3. \A m \in Names :
          \/ file'[m] = file[m]
          \/ /\ HeadsOf(vol, file')[m] = HeadsOf(vol, file)[m]
             /\ Open(m)' => Fits(vol, file'[m], m)
    BY <1>3, <2>1, <2>2
  <2>4. job.op # "close" /\ job.op # "sync" /\ job.op \notin Counting
    BY <1>6
  <2>5. QED BY <1>1, <1>3, <1>4, <1>5, <1>6, <1>8, <2>1, <2>3, <2>4, ObjectsStep
<1>10. CASE file[n].dirty
  <2> DEFINE e == [first |-> file[n].first, size |-> file[n].size, dir |-> FALSE]
  <2>1. Put(DirBlock, [vol EXCEPT !.dir[n] = e]) /\ vol' = SetDir(vol, n, e) /\ vol \in Image
    BY <1>1, <1>10 DEF Put, SetDir, Types
  <2>2. e \in Entry /\ e.first = file[n].first /\ e.size = file[n].size /\ e.dir = FALSE
    BY <1>2 DEF Entry
  <2>3. e # NoEntry
    <3>1. NoEntry.size \notin Nat
      BY SMTT(40) DEF NoEntry
    <3>2. QED BY <1>2, <2>2, <3>1
  <2> HIDE DEF e
  <2>4. vol'.dir[n] = e /\ vol'.fat = vol.fat /\ vol'.data = vol.data
    <3>1. SetDir(vol, n, e).dir[n] = e /\ SetDir(vol, n, e).fat = vol.fat /\ SetDir(vol, n, e).data = vol.data
      BY ONLY n \in Names, <2>1, <2>2, DirWrite, SMTT(40)
    <3>2. QED BY <2>1, <3>1
  <2>5. Laid(vol', file[n], n)
    <3>1. Laid(vol, file[n], n) /\ Keeps(vol, vol', file[n].first, n)
      BY <1>2, <2>4, KeepsSame DEF Fits
    <3>2. QED BY <1>2, <3>1, LaidKept
  <2>6. Fits(vol', file'[n], n)
    BY <1>3, <2>2, <2>3, <2>4, <2>5 DEF Fits, Laid, Listed
  <2>7. ShownAt(vol', n)
    BY <2>2, <2>4, <2>5 DEF ShownAt, Laid
  <2>8. ~Dangling(vol', n)
    BY <2>2, <2>4, <2>5 DEF Dangling, Laid
  <2>9. HeadsOf(vol', file')[n] = HeadsOf(vol, file)[n]
    BY <1>1, <1>3, <1>7 DEF HeadsOf, Open
  <2>10. e \in Entry \cup {NoEntry}
    BY <2>2
  <2>11. Types' /\ DownIs' /\ Chained' /\ Removals' /\ Flags' /\ CountExact' /\ FlagCoversCount'
    BY <1>1, <1>3, <1>4, <1>5, <1>6, <2>1, <2>6, <2>7, <2>8, <2>9, <2>10, EntryStep
  <2>12. QED BY <1>8, <2>11 DEF VolumeInv
<1>11. QED BY <1>9, <1>10

(* A new directory's entry.                                                *)
LEMMA DirEntryStep ==
  ASSUME VolumeInv, DirEntry
  PROVE  VolumeInv'
<1>1. PICK n \in Names : n = job.name /\ ~Open(n) /\ vol.dir[n] = NoEntry
  BY DEF VolumeInv, Jobs, OnName, DirEntry, Doing
<1>2. PICK c \in Clusters : c = job.c /\ Loose(vol.fat, HeadsOf(vol, file), c, Blank) /\ vol.fat[c] = End
  BY DEF VolumeInv, Jobs, OnName, DirEntry, Doing, Loose
<1> DEFINE e == [first |-> c, size |-> 0, dir |-> TRUE]
<1>3. /\ job.op = "dirent" /\ ~job.mark /\ Put(DirBlock, [vol EXCEPT !.dir[n] = e])
      /\ job' = [job EXCEPT !.op = "dots"] /\ fs' = fs /\ file' = file /\ Types
  BY <1>1, <1>2 DEF DirEntry, Doing, VolumeInv
<1>4. fs.up
  BY <1>3, DoingUp
<1>5. e \in Entry /\ e.first = c /\ e.dir = TRUE
  <2>1. c \in Cell /\ 0 \in 0 .. MaxSize
    BY VolumeAssumption, SMTT(40) DEF Cell
  <2>2. QED BY <2>1 DEF Entry
<1> HIDE DEF e
<1>6. /\ job' \in JobRec /\ job'.op = "dots" /\ job'.name = n /\ job'.c = c /\ job'.mark = job.mark
  <2>1. "dots" \in Ops /\ job \in JobRec
    BY <1>3 DEF Ops, Types
  <2>2. QED BY <1>1, <1>2, <1>3, <2>1, JobOp
<1>7. vol'.dir[n] = e /\ vol'.fat = vol.fat
  <2>1. vol' = SetDir(vol, n, e) /\ vol \in Image
    BY <1>3 DEF Put, SetDir, Types
  <2>2. SetDir(vol, n, e).dir[n] = e /\ SetDir(vol, n, e).fat = vol.fat
    BY ONLY n \in Names, <1>5, <2>1, DirWrite, SMTT(40)
  <2>3. QED BY <2>1, <2>2
<1>8. ShownAt(vol', n) /\ ~Dangling(vol', n) /\ ~Open(n)' /\ file'[n] = Closed
  BY <1>1, <1>2, <1>3, <1>5, <1>7, Distinct DEF ShownAt, Dangling, Open
<1>9. HeadsOf(vol', file')[n] = c
  BY <1>5, <1>7, <1>8 DEF HeadsOf
<1>10. (\A m \in Names \ {n} : HeadsOf(vol, file)[m] # c) /\ \A d \in Clusters : vol.fat[d] # c
  BY <1>2, Distinct DEF Loose
<1>11. /\ file' \in [Names -> FileRec \cup {Closed}] /\ \A m \in Names : ~Removing(m)
       /\ job.op \notin Counting \cup {"sync", "close"} /\ job'.op \notin Counting
  BY <1>3, <1>6 DEF Types, Removing, Counting
<1>12. Types' /\ DownIs' /\ Chained' /\ Removals' /\ Flags' /\ CountExact' /\ FlagCoversCount'
  <2>1. e \in Entry \cup {NoEntry}
    BY <1>5
  <2>2. LET h == HeadsOf(vol, file)
            g == HeadsOf(vol', file')[n]
        IN \/ g \in {None, h[n]}
           \/ (\A m \in Names \ {n} : h[m] # g) /\ \A d \in Clusters : vol.fat[d] # g
    BY <1>9, <1>10
  <2>3. QED BY <1>3, <1>4, <1>6, <1>8, <1>11, <2>1, <2>2, EntryStep
<1>13. Jobs'
  <2>1. OnName'
    BY <1>2, <1>5, <1>6, <1>7, <1>8, Distinct DEF OnName
  <2>2. QED BY <1>3, <1>6, <2>1 DEF Jobs, OnFile, OnRemoval
<1>14. QED BY <1>12, <1>13 DEF VolumeInv

(* The end of a removal.                                                   *)
LEMMA UnlistStep ==
  ASSUME VolumeInv, Unlist
  PROVE  VolumeInv'
<1>1. PICK n \in Names : n = job.name /\ ~Open(n)
  BY DEF VolumeInv, Jobs, OnRemoval, Unlist, Doing
<1>2. /\ job.op = "unlist" /\ ~job.mark /\ Put(DirBlock, [vol EXCEPT !.dir[n] = NoEntry])
      /\ job' = [Idle EXCEPT !.op = "sync"] /\ fs' = fs /\ file' = file /\ Types
  BY <1>1 DEF Unlist, Doing, VolumeInv
<1>3. fs.up
  BY <1>2, DoingUp
<1>4. job' \in JobRec /\ job'.op = "sync" /\ ~job'.mark
  <2>1. "sync" \in Ops /\ None \in Cell /\ 0 \in Nat
    BY DEF Ops, Cell
  <2>2. QED BY <1>2, <2>1 DEF Idle, JobRec
<1>5. vol'.dir[n] = NoEntry
  <2>1. vol' = SetDir(vol, n, NoEntry) /\ vol \in Image /\ NoEntry \in Entry \cup {NoEntry}
    BY <1>2 DEF Put, SetDir, Types
  <2>2. SetDir(vol, n, NoEntry).dir[n] = NoEntry
    BY ONLY n \in Names, <2>1, DirWrite, SMTT(40)
  <2>3. QED BY <2>1, <2>2
<1>6. ShownAt(vol', n) /\ ~Dangling(vol', n) /\ ~Open(n)' /\ file'[n] = Closed
  BY <1>1, <1>2, <1>5 DEF ShownAt, Dangling, Listed, Open
<1>7. HeadsOf(vol', file')[n] = None
  <2>1. NoEntry.first = None
    BY DEF NoEntry
  <2>2. QED BY <1>5, <1>6, <2>1 DEF HeadsOf
<1>8. /\ file' \in [Names -> FileRec \cup {Closed}]
      /\ \A m \in Names : Removing(m) => m = n /\ job'.op = "sync"
      /\ job.op \notin Counting \cup {"sync", "close"} /\ job'.op \notin Counting
  BY <1>1, <1>2, <1>4 DEF Types, Removing, Counting
<1>9. Types' /\ DownIs' /\ Chained' /\ Removals' /\ Flags' /\ CountExact' /\ FlagCoversCount'
  <2>1. LET h == HeadsOf(vol, file)
            g == HeadsOf(vol', file')[n]
        IN \/ g \in {None, h[n]}
           \/ (\A m \in Names \ {n} : h[m] # g) /\ \A d \in Clusters : vol.fat[d] # g
    BY <1>7
  <2>2. PICK e \in Entry \cup {NoEntry} : e = NoEntry
    OBVIOUS
  <2>3. Put(DirBlock, [vol EXCEPT !.dir[n] = e])
    BY <1>2, <2>2
  <2>4. \A m \in Names : Removing(m) => m = n /\ e = NoEntry /\ job'.op = "sync"
    BY <1>8, <2>2
  <2>5. \A m \in Names : m # n => file'[m] = file[m]
    BY <1>2
  <2>6. QED BY <1>2, <1>3, <1>4, <1>6, <1>8, <2>1, <2>3, <2>4, <2>5, EntryStep
<1>10. QED BY <1>4, <1>9, SyncJobs DEF VolumeInv
=============================================================================
