---------------------------- MODULE Volume_proofs ---------------------------
(***************************************************************************)
(* The steps that write data, take, link and free clusters, and the        *)
(* theorems about Volume.                                                  *)
(***************************************************************************)
EXTENDS Volume_chains

(* Leaves that name no prover are Zenon's; those that reason about numbers, *)
(* records or updates of functions name the SMT solver.                     *)
USE ZenonT(60)
-----------------------------------------------------------------------------
(* Writes of data.  A cluster's bytes matter to the chain it is in.        *)
LEMMA DataStep ==
  ASSUME VolumeInv, ~job.mark, NEW x \in Clusters, NEW k \in Names \cup {Blank},
         Put(x, [vol EXCEPT !.data[x] = k]), fs'.up, fs' \in FsRec, job' \in JobRec,
         file' \in [Names -> FileRec \cup {Closed}],
         job.op \in {"zero", "dots", "data"},
         \A m \in Names : HeadsOf(vol', file')[m] = HeadsOf(vol, file)[m],
         \A m \in Names : m # k => \A j \in Nat : Nth(vol, HeadsOf(vol, file)[m], j) # x,
         \A m \in Names : file'[m] = file[m] \/ (m = k /\ (Open(m)' => Fits(vol', file'[m], m)))
  PROVE  /\ Types' /\ DownIs' /\ Chained' /\ Removals' /\ FlagCoversCount'
         /\ vol'.fat = vol.fat /\ vol'.dir = vol.dir /\ vol'.flag = vol.flag /\ vol'.free = vol.free
         /\ FreeClusters(vol') = FreeClusters(vol) /\ fs.up
<1>1. Types /\ vol \in Image /\ fs.up
  BY DoingUp DEF VolumeInv, Types
<1>2. /\ vol' \in Image
      /\ vol'.fat = vol.fat /\ vol'.dir = vol.dir /\ vol'.flag = vol.flag /\ vol'.free = vol.free
      /\ \A c \in Clusters : vol'.data[c] = IF c = x THEN k ELSE vol.data[c]
  <2>1. vol' = SetData(vol, x, k)
    BY DEF Put, SetData
  <2>2. LET w == SetData(vol, x, k) IN
          /\ w \in Image
          /\ w.fat = vol.fat /\ w.dir = vol.dir /\ w.flag = vol.flag /\ w.free = vol.free
          /\ \A c \in Clusters : w.data[c] = IF c = x THEN k ELSE vol.data[c]
    BY ONLY <1>1, x \in Clusters, k \in Names \cup {Blank}, DataWrite, SMTT(40)
  <2>3. QED BY <2>1, <2>2
<1>3. FlagCoversCount' /\ saved' \in {saved, vol}
  <2>1. \E b, v : Put(b, v)
    OBVIOUS
  <2>2. QED BY <1>1, <2>1, FlagStep
<1>4. Types'
  BY <1>1, <1>2, <1>3 DEF Types
<1>5. ASSUME NEW m \in Names PROVE Keeps(vol, vol', HeadsOf(vol, file)[m], m)
  <2>1. CASE m # k
    BY <1>2, <2>1 DEF Keeps
  <2>2. CASE m = k
    BY <1>2, <2>2 DEF Keeps
  <2>3. QED BY <2>1, <2>2
<1>6. Chained'
  <2>1. Apart(vol'.fat, HeadsOf(vol', file'))
    <3>1. Apart(vol.fat, HeadsOf(vol, file)) /\ \A m \in Names : HeadsOf(vol', file')[m] = HeadsOf(vol, file)[m]
      BY DEF VolumeInv, Chained
    <3>2. Apart(vol.fat, HeadsOf(vol', file'))
      BY ONLY <3>1, ApartSame, ZenonT(60)
    <3>3. QED BY <1>2, <3>2
  <2>2. ASSUME NEW m \in Names
        PROVE  \/ /\ vol'.dir[m] = vol.dir[m] /\ file'[m] = file[m]
                  /\ HeadsOf(vol, file)[m] = None \/ Keeps(vol, vol', HeadsOf(vol, file)[m], m)
               \/ ShownAt(vol', m) /\ (Open(m)' => Fits(vol', file'[m], m))
    <3>1. CASE file'[m] = file[m]
      BY <1>2, <1>5, <3>1
    <3>2. CASE Open(m)' => Fits(vol', file'[m], m)
      <4>1. ShownAt(vol, m) /\ (Open(m) => vol.dir[m].first \in {None, file[m].first})
        BY DEF VolumeInv, Chained, Fits
      <4>2. /\ Open(m) => HeadsOf(vol, file)[m] = file[m].first
            /\ ~Open(m) => HeadsOf(vol, file)[m] = vol.dir[m].first
        BY DEF HeadsOf, Open
      <4>3. vol.dir[m].first = None \/ Keeps(vol, vol', vol.dir[m].first, m)
        BY <1>5, <4>1, <4>2
      <4>4. ShownAt(vol', m)
        BY <1>1, <1>2, <4>1, <4>3, ShownKept
      <4>5. QED BY <3>2, <4>4
    <3>3. QED BY <3>1, <3>2
  <2>3. QED BY <1>3, <1>4, <2>1, <2>2, ChainedStep
<1>7. Removals'
  <2>1. job.op \notin {"free", "freed", "unlist", "sync"}
    OBVIOUS
  <2>2. \A m \in Names : ~Dangling(vol, m) /\ ~Removing(m)
    BY <1>1, <2>1, NoDanglers
  <2>3. \A m \in Names : ~Dangling(vol', m)
    BY <1>2, <2>2 DEF Dangling, Listed
  <2>4. job.op # "sync"
    BY <2>1
  <2>5. QED BY <1>1, <1>3, <2>2, <2>3, <2>4, RemovalsStep
<1>8. FreeClusters(vol') = FreeClusters(vol)
  BY <1>2 DEF FreeClusters
<1>9. QED BY <1>1, <1>2, <1>3, <1>4, <1>6, <1>7, <1>8 DEF DownIs

(* One cluster fewer: what the FileSystem counts.                          *)
LEMMA TakenIs ==
  ASSUME VolumeInv, fs.up, job.op \in {"link", "zero"}, fs' = Taken, job'.op \notin Counting
  PROVE  /\ fs' \in FsRec /\ fs'.up /\ fs'.dirty /\ fs'.flag0 = fs.flag0 /\ fs'.flag = fs.flag
         /\ FreeClusters(vol') = FreeClusters(vol) => CountExact'
<1>1. fs \in FsRec /\ fs.free \in Counts
  BY SMTT(40) DEF VolumeInv, Types, FsRec
<1>2. Add(fs.free, -1) = IF fs.free = Unknown THEN Unknown ELSE Cardinality(FreeClusters(vol))
  <2>1. ASSUME fs.free # Unknown PROVE fs.free + (-1) = Cardinality(FreeClusters(vol))
    <3>1. fs.free = Cardinality(FreeClusters(vol)) + 1 - 0
      BY <2>1 DEF VolumeInv, CountExact
    <3>2. QED BY <3>1, FreeCount, SMTT(40)
  <2>2. QED BY <2>1 DEF Add
<1>3. Add(fs.free, -1) \in Counts
  BY <1>2, FreeCount DEF Counts
<1>4. fs' = FsCounts(fs, Add(fs.free, -1), TRUE)
  BY DEF Taken, FsCounts
<1>5. LET g == FsCounts(fs, Add(fs.free, -1), TRUE) IN
        /\ g \in FsRec /\ g.up = fs.up /\ g.free = Add(fs.free, -1)
        /\ g.dirty = TRUE /\ g.flag0 = fs.flag0 /\ g.flag = fs.flag
  BY ONLY <1>1, <1>3, FsCount, ZenonT(60)
<1>6. ASSUME FreeClusters(vol') = FreeClusters(vol)
      PROVE  fs'.free # Unknown => fs'.free = Cardinality(FreeClusters(vol'))
  BY <1>2, <1>4, <1>5, <1>6
<1>7. FreeClusters(vol') = FreeClusters(vol) => CountExact'
  BY <1>6, CountBecomes
<1>8. QED BY <1>4, <1>5, <1>7

(* The flags, when only the table's contents, the data or the count in     *)
(* memory change.                                                          *)
LEMMA FlagsStep ==
  ASSUME VolumeInv, fs.up, job.op # "close", fs'.flag = fs.flag, fs'.flag0 = fs.flag0,
         fs' = fs \/ fs'.dirty, vol'.flag = vol.flag, vol'.free = vol.free,
         Miscounted(vol') => job'.mark
  PROVE  Flags'
BY DEF VolumeInv, Flags

(* No chain has a cluster that is loose.                                   *)
LEMMA LooseApart ==
  ASSUME Types, NEW c, NEW n, Loose(vol.fat, HeadsOf(vol, file), c, n), NEW m \in Names, m # n,
         NEW j \in Nat
  PROVE  Nth(vol, HeadsOf(vol, file)[m], j) # c
<1>1. HeadsOf(vol, file)[m] \in Cell
  BY HeadTypes
<1>2. c \in Clusters /\ c # HeadsOf(vol, file)[m] /\ \A d \in Clusters : vol.fat[d] # c
  BY DEF Loose
<1>3. QED BY <1>1, <1>2, NthAvoids

(* A cluster of one name's chain is in no other's.                         *)
LEMMA OwnChain ==
  ASSUME VolumeInv, NEW m \in Names, NEW n \in Names, m # n, NEW i \in Nat, NEW j \in Nat,
         Nth(vol, HeadsOf(vol, file)[n], i) # None
  PROVE  Nth(vol, HeadsOf(vol, file)[m], j) # Nth(vol, HeadsOf(vol, file)[n], i)
<1>1. Types /\ Apart(vol.fat, HeadsOf(vol, file))
  BY DEF VolumeInv, Chained
<1>2. PICK h \in [Names -> Cell] : h = HeadsOf(vol, file)
  BY <1>1, HeadTypes
<1>3. Apart(vol.fat, h) /\ Nth(vol, h[n], i) # None
  BY <1>1, <1>2
<1>4. Nth(vol, h[n], i) # Nth(vol, h[m], j)
  BY <1>3, ChainsDisjoint
<1>5. QED BY <1>2, <1>4

(* A directory's cluster is zeroed.                                        *)
LEMMA DirZeroStep ==
  ASSUME VolumeInv, DirZero
  PROVE  VolumeInv'
<1>1. PICK n \in Names : n = job.name /\ ~Open(n) /\ vol.dir[n] = NoEntry
  BY DEF VolumeInv, Jobs, OnName, DirZero, Doing
<1>2. PICK c \in Clusters : c = job.c /\ Loose(vol.fat, HeadsOf(vol, file), c, Blank) /\ vol.fat[c] = End
  BY DEF VolumeInv, Jobs, OnName, DirZero, Doing, Loose
<1>3. /\ job.op = "zero" /\ ~job.mark /\ Put(c, [vol EXCEPT !.data[c] = Blank])
      /\ job' = [job EXCEPT !.op = "dirent"] /\ fs' = Taken /\ file' = file /\ Types
  BY <1>1, <1>2 DEF DirZero, Doing, VolumeInv
<1>4. fs.up
  BY <1>3, DoingUp
<1>5. /\ job' \in JobRec /\ job'.op = "dirent" /\ job'.name = n /\ job'.c = c /\ job'.mark = job.mark
  <2>1. "dirent" \in Ops /\ job \in JobRec
    BY <1>3 DEF Ops, Types
  <2>2. QED BY <1>1, <1>2, <1>3, <2>1, JobOp
<1>6. /\ vol'.fat = vol.fat /\ vol'.dir = vol.dir
  <2>1. vol' = SetData(vol, c, Blank) /\ vol \in Image /\ Blank \in Names \cup {Blank}
    BY <1>3 DEF Put, SetData, Types
  <2>2. SetData(vol, c, Blank).fat = vol.fat /\ SetData(vol, c, Blank).dir = vol.dir
    BY ONLY c \in Clusters, <2>1, DataWrite, SMTT(40)
  <2>3. QED BY <2>1, <2>2
<1>7. FreeClusters(vol') = FreeClusters(vol) /\ HeadsOf(vol', file') = HeadsOf(vol, file)
  BY <1>3, <1>6 DEF FreeClusters, HeadsOf
<1>8. /\ fs' \in FsRec /\ fs'.up /\ fs'.dirty /\ fs'.flag0 = fs.flag0 /\ fs'.flag = fs.flag
      /\ CountExact'
  BY <1>3, <1>4, <1>5, <1>7, TakenIs DEF Counting
<1>9. \A m \in Names : m # Blank => \A j \in Nat : Nth(vol, HeadsOf(vol, file)[m], j) # c
  BY <1>2, <1>3, LooseApart
<1>10. /\ Types' /\ DownIs' /\ Chained' /\ Removals' /\ FlagCoversCount'
       /\ vol'.flag = vol.flag /\ vol'.free = vol.free
  <2>1. PICK k \in Names \cup {Blank} : k = Blank
    OBVIOUS
  <2>2. /\ Put(c, [vol EXCEPT !.data[c] = k])
        /\ \A m \in Names : m # k => \A j \in Nat : Nth(vol, HeadsOf(vol, file)[m], j) # c
        /\ \A m \in Names : file'[m] = file[m] \/ (m = k /\ (Open(m)' => Fits(vol', file'[m], m)))
        /\ \A m \in Names : HeadsOf(vol', file')[m] = HeadsOf(vol, file)[m]
        /\ file' \in [Names -> FileRec \cup {Closed}] /\ job.op \in {"zero", "dots", "data"}
    BY <1>3, <1>7, <1>9, <2>1 DEF Types
  <2>3. QED BY <1>3, <1>5, <1>8, <2>2, DataStep
<1>11. ~Miscounted(vol')
  <2>1. ~Miscounted(vol)
    BY <1>3, <1>4 DEF VolumeInv, Flags
  <2>2. QED BY <1>7, <1>10, <2>1 DEF Miscounted
<1>12. Flags'
  BY <1>3, <1>4, <1>8, <1>10, <1>11, FlagsStep
<1>13. Jobs'
  <2>1. OnName'
    BY <1>1, <1>2, <1>3, <1>5, <1>6, <1>7 DEF OnName, Open
  <2>2. QED BY <1>3, <1>5, <2>1 DEF Jobs, OnFile, OnRemoval
<1>14. QED BY <1>8, <1>10, <1>12, <1>13 DEF VolumeInv

(* Its first entries are written.                                          *)
LEMMA DirDotsStep ==
  ASSUME VolumeInv, DirDots
  PROVE  VolumeInv'
<1>1. PICK n \in Names : n = job.name /\ ~Open(n) /\ vol.dir[n].first = job.c /\ job.c # None
  BY DEF VolumeInv, Jobs, OnName, DirDots, Doing
<1>2. Types /\ vol \in Image
  BY DEF VolumeInv, Types
<1>3. PICK c \in Clusters : c = job.c
  BY <1>1, <1>2, Parts DEF Cell
<1>4. /\ job.op = "dots" /\ ~job.mark /\ Put(c, [vol EXCEPT !.data[c] = n])
      /\ job' = [Idle EXCEPT !.op = "sync"] /\ fs' = fs /\ file' = file
  BY <1>1, <1>3 DEF DirDots, Doing
<1>5. fs.up
  BY <1>4, DoingUp
<1>6. job' \in JobRec /\ job'.op = "sync" /\ ~job'.mark
  <2>1. "sync" \in Ops /\ None \in Cell /\ 0 \in Nat
    BY DEF Ops, Cell
  <2>2. QED BY <1>4, <2>1 DEF Idle, JobRec
<1>7. vol'.dir = vol.dir
  <2>1. vol' = SetData(vol, c, n) /\ n \in Names \cup {Blank}
    BY <1>4 DEF Put, SetData
  <2>2. SetData(vol, c, n).dir = vol.dir
    BY ONLY c \in Clusters, <1>2, <2>1, DataWrite, SMTT(40)
  <2>3. QED BY <2>1, <2>2
<1>8. \A m \in Names : HeadsOf(vol', file')[m] = HeadsOf(vol, file)[m]
  BY <1>4, <1>7 DEF HeadsOf
<1>9. ASSUME NEW m \in Names, m # n, NEW j \in Nat PROVE Nth(vol, HeadsOf(vol, file)[m], j) # c
  <2>1. HeadsOf(vol, file)[n] = c
    BY <1>1, <1>2, <1>3, HeadTypes
  <2>2. Nth(vol, HeadsOf(vol, file)[n], 0) = c /\ 0 \in Nat /\ c # None
    BY <2>1, NthFirst, Distinct
  <2>3. QED BY <1>9, <2>2, OwnChain
<1>10. /\ Types' /\ DownIs' /\ Chained' /\ Removals' /\ FlagCoversCount'
       /\ vol'.flag = vol.flag /\ vol'.free = vol.free /\ FreeClusters(vol') = FreeClusters(vol)
  <2>1. /\ \A m \in Names : file'[m] = file[m] \/ (m = n /\ (Open(m)' => Fits(vol', file'[m], m)))
        /\ file' \in [Names -> FileRec \cup {Closed}] /\ job.op \in {"zero", "dots", "data"}
        /\ fs' \in FsRec /\ fs'.up /\ n \in Names \cup {Blank}
    BY <1>2, <1>4, <1>5 DEF Types
  <2>2. QED BY <1>4, <1>6, <1>8, <1>9, <2>1, DataStep
<1>11. ~Miscounted(vol')
  <2>1. ~Miscounted(vol)
    BY <1>4, <1>5 DEF VolumeInv, Flags
  <2>2. QED BY <1>10, <2>1 DEF Miscounted
<1>12. Flags'
  BY <1>4, <1>5, <1>10, <1>11, FlagsStep
<1>13. CountExact'
  <2>1. fs'.free # Unknown => fs'.free = Cardinality(FreeClusters(vol'))
    BY <1>4, <1>5, <1>10, CountIs DEF Counting
  <2>2. QED BY <1>6, <2>1, CountBecomes DEF Counting
<1>14. QED BY <1>6, <1>10, <1>12, <1>13, SyncJobs DEF VolumeInv

(* The greater of two.                                                     *)
LEMMA MaxOf ==
  ASSUME NEW a \in Nat, NEW b \in Nat
  PROVE  LET m == Max({a, b}) IN m \in {a, b} /\ a <= m /\ b <= m
<1>1. \E x \in {a, b} : \A y \in {a, b} : y <= x
  BY SMTT(40)
<1>2. LET m == Max({a, b}) IN m \in {a, b} /\ \A y \in {a, b} : y <= m
  <2>1. \E x \in {a, b} : \A y \in {a, b} : x >= y
    BY <1>1, SMTT(40)
  <2>2. LET m == Max({a, b}) IN m \in {a, b} /\ \A y \in {a, b} : m >= y
    BY <2>1 DEF Max
  <2>3. QED BY <2>2, SMTT(40)
<1>3. QED BY <1>2

(* The cluster x has bytes of n, and a file is longer, perhaps, by count   *)
(* bytes at its position, which are in x.                                  *)
Stored(v, w, x, n) ==
  w.fat = v.fat /\ \A c \in Clusters : w.data[c] = IF c = x THEN n ELSE v.data[c]
Longer(f, r, x, count) ==
  /\ count > 0 /\ count <= ClusterSize - (f.off % ClusterSize)
  /\ r.first = f.first /\ r.off = f.off + count /\ r.cur = x
  /\ r.size \in {f.size, r.off} /\ f.size <= r.size /\ r.off <= r.size

(* Then the chain still has the bytes of the file.                         *)
LEMMA LaidWritten ==
  ASSUME NEW v, NEW w, NEW n \in Names, NEW f \in FileRec, NEW r \in FileRec, Laid(v, f, n),
         NEW x \in Clusters, NEW count \in Nat, x = Nth(v, f.first, f.off \div ClusterSize),
         Stored(v, w, x, n), Longer(f, r, x, count)
  PROVE  Laid(w, r, n)
<1> /\ w.fat = v.fat /\ \A c \in Clusters : w.data[c] = IF c = x THEN n ELSE v.data[c]
    /\ count > 0 /\ count <= ClusterSize - (f.off % ClusterSize)
    /\ r.first = f.first /\ r.off = f.off + count /\ r.cur = x
    /\ r.size \in {f.size, r.off} /\ f.size <= r.size /\ r.off <= r.size
  BY DEF Stored, Longer
<1> DEFINE q == f.off \div ClusterSize
<1>1. f.first \in Cell /\ f.off \in Nat /\ f.size \in Nat /\ r.off \in Nat /\ r.size \in Nat
  BY VolumeAssumption, SMTT(40) DEF FileRec
<1>2. /\ q \in Nat /\ f.off % ClusterSize \in Nat /\ q * ClusterSize \in Nat
      /\ f.off = q * ClusterSize + (f.off % ClusterSize)
  BY <1>1, Offsets
<1>3. x = Nth(v, f.first, q) /\ ClusterSize \in Nat
  BY VolumeAssumption
<1> HIDE DEF q
<1>4. q * ClusterSize < r.off /\ r.off <= q * ClusterSize + ClusterSize /\ q * ClusterSize <= f.off
  BY <1>1, <1>2, <1>3, SMTT(40)
<1>5. ClustersFromBytes(r.off) - 1 = q /\ r.off # 0
  BY <1>1, <1>2, <1>4, Within, SMTT(40)
<1>6. \A i \in Nat : Nth(v, f.first, i) # None => Nth(w, f.first, i) = Nth(v, f.first, i)
  <2>1. f.first \in Cell /\ w.fat = v.fat
    BY <1>1
  <2>2. ASSUME NEW i \in Nat, Nth(v, f.first, i) # None PROVE Nth(w, f.first, i) = Nth(v, f.first, i)
    BY ONLY <2>1, <2>2, NthKept
  <2>3. QED BY <2>2
<1>7. ASSUME NEW i \in 0 .. ClustersFromBytes(r.size) - 1
      PROVE  Nth(w, r.first, i) # None /\ w.data[Nth(w, r.first, i)] = n
  <2>1. /\ ClustersFromBytes(r.size) \in Nat /\ ClustersFromBytes(f.size) \in Nat
        /\ \A k \in Nat : k < ClustersFromBytes(r.size) <=> k * ClusterSize < r.size
        /\ \A k \in Nat : k < ClustersFromBytes(f.size) <=> k * ClusterSize < f.size
    BY <1>1, Reaches
  <2>2. i \in Nat /\ i < ClustersFromBytes(r.size)
    BY <2>1, SMTT(40)
  <2>3. i * ClusterSize < r.size /\ i * ClusterSize \in Nat
    BY <1>3, <2>1, <2>2, SMTT(40)
  <2>4. CASE i * ClusterSize < f.size
    <3>1. i \in 0 .. ClustersFromBytes(f.size) - 1
      BY <2>1, <2>2, <2>4, SMTT(40)
    <3>2. Nth(v, f.first, i) # None /\ v.data[Nth(v, f.first, i)] = n
      BY <3>1 DEF Laid, Bytes
    <3>3. Nth(v, f.first, i) \in Clusters
      BY <1>1, <2>2, <3>2, NthCell DEF Cell
    <3>4. QED BY <1>6, <2>2, <3>2, <3>3
  <2>5. CASE ~(i * ClusterSize < f.size)
    <3>1. f.off <= f.size
      BY DEF Laid
    <3>2. i * ClusterSize < r.off /\ r.off <= i * ClusterSize + ClusterSize
      BY <1>1, <1>2, <1>3, <1>4, <2>3, <2>5, <3>1, SMTT(40)
    <3>3. i = q
      BY <1>1, <1>5, <2>2, <3>2, Within
    <3>4. Nth(v, r.first, i) = x /\ x # None /\ w.data[x] = n
      BY <1>3, <3>3, Distinct
    <3>5. QED BY <1>6, <2>2, <3>4
  <2>6. QED BY <2>4, <2>5
<1>8. Bytes(w, r.first, r.size, n)
  BY <1>7 DEF Bytes
<1>9. r.first # None => w.fat[r.first] # Free
  BY DEF Laid
<1>10. Nth(w, r.first, ClustersFromBytes(r.off) - 1) = x
  BY <1>2, <1>3, <1>5, <1>6, Distinct
<1>11. QED BY <1>5, <1>8, <1>9, <1>10 DEF Laid

(* The file after the write.                                               *)
LEMMA WrittenIs ==
  ASSUME NEW f \in FileRec, NEW o \in 0 .. MaxSize, NEW x \in Cell
  PROVE  LET r == [f EXCEPT !.off = o, !.cur = x, !.size = Max({@, o}), !.dirty = @ \/ o > f.size] IN
           /\ r \in FileRec /\ r.first = f.first /\ r.off = o /\ r.cur = x
           /\ r.size \in {f.size, o} /\ f.size <= r.size /\ o <= r.size
           /\ f.dirty => r.dirty
<1> DEFINE k == Max({f.size, o})
           d == f.dirty \/ o > f.size
           r == [f EXCEPT !.off = o, !.cur = x, !.size = k, !.dirty = d]
<1>1. f.size \in 0 .. MaxSize /\ f.dirty \in BOOLEAN
  BY SMTT(40) DEF FileRec
<1>2. f.size \in Nat /\ o \in Nat
  BY <1>1, VolumeAssumption, SMTT(40)
<1>3. k \in {f.size, o} /\ f.size <= k /\ o <= k
  BY <1>2, MaxOf
<1>4. k \in 0 .. MaxSize /\ d \in BOOLEAN /\ (f.dirty => d)
  BY <1>1, <1>3
<1> HIDE DEF k, d
<1>5. r \in FileRec
  BY <1>4 DEF FileRec
<1>6. r.first = f.first /\ r.off = o /\ r.cur = x /\ r.size = k /\ r.dirty = d
  BY SMTT(40) DEF FileRec
<1>7. r = [f EXCEPT !.off = o, !.cur = x, !.size = Max({@, o}), !.dirty = @ \/ o > f.size]
  BY DEF k, d
<1> HIDE DEF r
<1>8. QED BY <1>3, <1>4, <1>5, <1>6, <1>7

(* The data of a file.                                                     *)
LEMMA WriteDataStep ==
  ASSUME VolumeInv, WriteData
  PROVE  VolumeInv'
<1>1. PICK n \in Names : n = job.name /\ Open(n) /\ AtOffset(n) = job.c /\ job.c # None
                         /\ job.count > 0 /\ job.count <= ClusterSize - (file[n].off % ClusterSize)
                         /\ file[n].off + job.count <= MaxSize
  BY DEF VolumeInv, Jobs, OnFile, WriteData, Doing
<1>2. Types /\ vol \in Image /\ job \in JobRec /\ job.c \in Cell /\ job.count \in Nat
  BY SMTT(40) DEF VolumeInv, Types, JobRec
<1>3. PICK c \in Clusters : c = job.c
  BY <1>1, <1>2 DEF Cell
<1> DEFINE f == file[n]
           o == f.off + job.count
           r == [f EXCEPT !.off = o, !.cur = c, !.size = Max({@, o}), !.dirty = @ \/ o > f.size]
<1>4. /\ job.op = "data" /\ ~job.mark /\ Put(c, [vol EXCEPT !.data[c] = n])
      /\ job' = Idle /\ fs' = fs /\ file' = [file EXCEPT ![n] = r]
  BY <1>1, <1>3 DEF WriteData, Doing
<1>5. fs.up
  BY <1>4, DoingUp
<1>6. f \in FileRec /\ f.off \in Nat /\ f.first \in Cell /\ Fits(vol, f, n)
  BY <1>1, OpenIs
<1>7. o \in 0 .. MaxSize /\ c \in Cell
  BY <1>1, <1>2, <1>6, VolumeAssumption, SMTT(40) DEF Cell
<1>8. /\ r \in FileRec /\ r.first = f.first /\ r.off = o /\ r.cur = c
      /\ r.size \in {f.size, o} /\ f.size <= r.size /\ o <= r.size /\ (f.dirty => r.dirty)
  <2> HIDE DEF f, o
  <2>1. QED BY ONLY <1>6, <1>7, WrittenIs, ZenonT(60) DEF r
<1> HIDE DEF r
<1>9. /\ file' \in [Names -> FileRec \cup {Closed}]
      /\ \A m \in Names : file'[m] = IF m = n THEN r ELSE file[m]
  BY <1>2, <1>4, <1>8 DEF Types
<1>10. /\ vol'.dir = vol.dir /\ vol'.fat = vol.fat
       /\ \A d \in Clusters : vol'.data[d] = IF d = c THEN n ELSE vol.data[d]
  <2>1. vol' = SetData(vol, c, n) /\ n \in Names \cup {Blank}
    BY <1>4 DEF Put, SetData
  <2>2. LET w == SetData(vol, c, n) IN
          /\ w.dir = vol.dir /\ w.fat = vol.fat
          /\ \A d \in Clusters : w.data[d] = IF d = c THEN n ELSE vol.data[d]
    BY ONLY c \in Clusters, <1>2, <2>1, DataWrite, SMTT(40)
  <2>3. QED BY <2>1, <2>2
<1>11. c = Nth(vol, f.first, f.off \div ClusterSize)
  BY <1>1, <1>3, AtOffsetIs
<1>12. Fits(vol', r, n)
  <2>1. Laid(vol', r, n)
    <3>1. Laid(vol, f, n)
      BY <1>6 DEF Fits
    <3> HIDE DEF f
    <3>2. Longer(f, r, c, job.count)
      BY <1>1, <1>8 DEF f, Longer
    <3>3. Stored(vol, vol', c, n)
      BY <1>10 DEF Stored
    <3>4. QED BY ONLY n \in Names, c \in Clusters, <1>2, <1>6, <1>8, <1>11, <3>1, <3>2, <3>3, LaidWritten, ZenonT(60)
  <2>2. QED BY <1>6, <1>8, <1>10, <2>1 DEF Fits, Listed
<1>13. HeadsOf(vol, file)[n] = f.first
  BY <1>1, <1>2, HeadTypes
<1>14. \A m \in Names : HeadsOf(vol', file')[m] = HeadsOf(vol, file)[m]
  <2>1. r # Closed
    BY <1>8, ClosedIsNone
  <2>2. HeadsOf(vol', file')[n] = r.first
    BY <1>9, <2>1 DEF HeadsOf
  <2>3. QED BY <1>8, <1>9, <1>10, <1>13, <2>2 DEF HeadsOf
<1>15. ASSUME NEW m \in Names, m # n, NEW j \in Nat PROVE Nth(vol, HeadsOf(vol, file)[m], j) # c
  <2>1. PICK q \in Nat : q = f.off \div ClusterSize
    BY <1>6, Offsets
  <2>2. Nth(vol, HeadsOf(vol, file)[n], q) = c /\ c # None
    BY <1>11, <1>13, <2>1, Distinct
  <2>3. QED BY <1>15, <2>2, OwnChain
<1>16. /\ Types' /\ DownIs' /\ Chained' /\ Removals' /\ FlagCoversCount'
       /\ vol'.flag = vol.flag /\ vol'.free = vol.free /\ FreeClusters(vol') = FreeClusters(vol)
  <2>1. /\ \A m \in Names : file'[m] = file[m] \/ (m = n /\ (Open(m)' => Fits(vol', file'[m], m)))
        /\ job.op \in {"zero", "dots", "data"} /\ job' \in JobRec
        /\ fs' \in FsRec /\ fs'.up /\ n \in Names \cup {Blank}
    BY <1>2, <1>4, <1>5, <1>9, <1>12, IdleIs DEF Types
  <2>2. QED BY <1>4, <1>9, <1>14, <1>15, <2>1, DataStep
<1>17. ~Miscounted(vol')
  <2>1. ~Miscounted(vol)
    BY <1>4, <1>5 DEF VolumeInv, Flags
  <2>2. QED BY <1>16, <2>1 DEF Miscounted
<1>18. Flags'
  BY <1>4, <1>5, <1>16, <1>17, FlagsStep
<1>19. CountExact'
  <2>1. fs'.free # Unknown => fs'.free = Cardinality(FreeClusters(vol'))
    BY <1>4, <1>5, <1>16, CountIs DEF Counting
  <2>2. QED BY <1>4, <2>1, CountBecomes, IdleIs DEF Counting
<1>20. QED BY <1>4, <1>16, <1>18, <1>19, JobsIdle DEF VolumeInv
-----------------------------------------------------------------------------
(* Writes of the table.  Of the chains that have the cluster, one can be   *)
(* extended and one can be taken apart.                                    *)
LEMMA TableStep ==
  ASSUME VolumeInv, fs.up, ~job.mark, NEW x \in Clusters, NEW y \in {Free, End} \cup Clusters,
         Put(FatBlock, [vol EXCEPT !.fat[x] = y]), fs'.up, fs' \in FsRec, job' \in JobRec,
         file' = file, job.op # "sync",
         y = Free => \A c \in Clusters : vol.fat[c] # x,
         y \in Clusters => /\ vol.fat[y] # Free /\ \A c \in Clusters : vol.fat[c] # y
                           /\ \A n \in Names : HeadsOf(vol, file)[n] # y,
         \A m \in Names :
           \/ \A j \in Nat : Nth(vol, HeadsOf(vol, file)[m], j) = x =>
                ~Linked(vol, x) /\ vol.fat[x] # Free /\ y # Free
           \/ ~Open(m) /\ Dangling(vol', m),
         \A m \in Names : Dangling(vol', m) => Removing(m)',
         \A m \in Names : Removing(m) => Removing(m)'
  PROVE  /\ Types' /\ DownIs' /\ Chained' /\ Removals' /\ FlagCoversCount'
<1> DEFINE h == HeadsOf(vol, file)
<1>1. Types /\ vol \in Image /\ Apart(vol.fat, h)
  BY DEF VolumeInv, Types, Chained
<1>2. /\ vol' \in Image /\ vol'.dir = vol.dir /\ vol'.data = vol.data
      /\ vol'.fat = [vol.fat EXCEPT ![x] = y]
      /\ \A c \in Clusters : vol'.fat[c] = IF c = x THEN y ELSE vol.fat[c]
  <2>1. vol' = SetFat(vol, x, y)
    BY DEF Put, SetFat
  <2>2. LET w == SetFat(vol, x, y) IN
          /\ w \in Image /\ w.dir = vol.dir /\ w.data = vol.data
          /\ w.fat = [vol.fat EXCEPT ![x] = y]
          /\ \A c \in Clusters : w.fat[c] = IF c = x THEN y ELSE vol.fat[c]
    BY ONLY <1>1, x \in Clusters, y \in {Free, End} \cup Clusters, FatWrite, SMTT(40)
  <2>3. QED BY <2>1, <2>2
<1>3. FlagCoversCount' /\ saved' \in {saved, vol}
  <2>1. \E b, v : Put(b, v)
    OBVIOUS
  <2>2. QED BY <2>1, FlagStep
<1>4. Types'
  BY <1>1, <1>2, <1>3 DEF Types
<1>5. HeadsOf(vol', file') = h
  BY <1>2 DEF HeadsOf
<1>6. Apart(vol'.fat, HeadsOf(vol', file'))
  <2>1. vol.fat \in Fat /\ \A n \in Names : h[n] \in Cell
    BY <1>1, Parts, HeadTypes
  <2>2. /\ y = Free => \A c \in Clusters : vol.fat[c] # x
        /\ y \in Clusters => /\ vol.fat[y] # Free /\ \A c \in Clusters : vol.fat[c] # y
                             /\ \A n \in Names : h[n] # y
    OBVIOUS
  <2> HIDE DEF h
  <2>3. Apart([vol.fat EXCEPT ![x] = y], h)
    BY ONLY <1>1, <2>1, <2>2, x \in Clusters, y \in {Free, End} \cup Clusters, ApartTable, ZenonT(60)
  <2>4. QED BY <1>2, <1>5, <2>3
<1>7. ASSUME NEW m \in Names
      PROVE  \/ /\ vol'.dir[m] = vol.dir[m] /\ file'[m] = file[m]
                /\ h[m] = None \/ Keeps(vol, vol', h[m], m)
             \/ ShownAt(vol', m) /\ (Open(m)' => Fits(vol', file'[m], m))
  <2>1. CASE ~Open(m) /\ Dangling(vol', m)
    BY <2>1 DEF ShownAt, Open
  <2>2. CASE \A j \in Nat : Nth(vol, h[m], j) = x =>
               ~Linked(vol, x) /\ vol.fat[x] # Free /\ y # Free
    <3>1. ASSUME NEW j \in Nat, NEW c \in Clusters, c = Nth(vol, h[m], j)
          PROVE  /\ Linked(vol, c) => vol'.fat[c] = vol.fat[c]
                 /\ vol.fat[c] = Free <=> vol'.fat[c] = Free
                 /\ vol.data[c] = m => vol'.data[c] = m
      BY <1>2, <2>2, <3>1
    <3>2. Keeps(vol, vol', h[m], m)
      BY <3>1 DEF Keeps
    <3>3. QED BY <1>2, <3>2
  <2>3. QED BY <2>1, <2>2
<1>8. Chained'
  BY <1>3, <1>4, <1>6, <1>7, ChainedStep
<1>9. Removals'
  BY <1>3, RemovalsStep
<1>10. QED BY <1>3, <1>4, <1>8, <1>9 DEF DownIs

(* No chain has a free cluster, outside a removal.                         *)
LEMMA ChainsUsed ==
  ASSUME VolumeInv, NEW m \in Names, ~Dangling(vol, m), NEW j \in Nat,
         Nth(vol, HeadsOf(vol, file)[m], j) # None
  PROVE  vol.fat[Nth(vol, HeadsOf(vol, file)[m], j)] # Free
<1> DEFINE first == HeadsOf(vol, file)[m]
<1>1. Types /\ Apart(vol.fat, HeadsOf(vol, file)) /\ vol \in Image
  BY DEF VolumeInv, Chained, Types
<1>2. first \in Cell
  BY <1>1, HeadTypes
<1>3. ASSUME first # None PROVE vol.fat[first] # Free
  <2>1. CASE Open(m)
    <3>1. first = file[m].first /\ Laid(vol, file[m], m)
      BY <1>1, <2>1, HeadTypes DEF VolumeInv, Chained, Fits
    <3>2. QED BY <1>3, <3>1 DEF Laid
  <2>2. CASE ~Open(m)
    <3>1. first = vol.dir[m].first
      BY <1>1, <2>2, HeadTypes
    <3>2. Listed(vol, m)
      <4>1. NoEntry.first = None
        BY DEF NoEntry
      <4>2. QED BY <1>3, <3>1, <4>1 DEF Listed
    <3>3. QED BY <1>3, <3>1, <3>2 DEF Dangling
  <2>3. QED BY <2>1, <2>2
<1>4. \A c \in Clusters : vol.fat[c] \in Clusters => vol.fat[vol.fat[c]] # Free
  BY <1>1 DEF Apart
<1>5. Nth(vol, first, j) # None
  OBVIOUS
<1> HIDE DEF first
<1>6. vol.fat[Nth(vol, first, j)] # Free
  BY <1>2, <1>3, <1>4, <1>5, NthUsed
<1>7. QED BY <1>6 DEF first

(* A cluster is taken.                                                     *)
LEMMA TakeStep ==
  ASSUME VolumeInv, fs.up, job.op \in {"alloc", "mkdir"}, ~job.mark,
         NEW c \in Clusters, vol.fat[c] = Free,
         Put(FatBlock, [vol EXCEPT !.fat[c] = End]), fs' = fs, file' = file,
         job' \in JobRec, job'.op \in {"link", "zero"}, job'.mark = NeedsMark
  PROVE  /\ Types' /\ DownIs' /\ Chained' /\ Removals' /\ Flags' /\ CountExact' /\ FlagCoversCount'
         /\ Loose(vol'.fat, HeadsOf(vol', file'), c, Blank) /\ vol'.fat[c] = End /\ vol'.dir = vol.dir
         /\ \A d \in Clusters : d # c => vol'.fat[d] = vol.fat[d]
         /\ \A m \in Names, j \in Nat : Nth(vol, HeadsOf(vol, file)[m], j) # c
<1> DEFINE h == HeadsOf(vol, file)
<1>1. Types /\ vol \in Image /\ Apart(vol.fat, h) /\ fs \in FsRec
  BY DEF VolumeInv, Types, Chained
<1>2. c \in FreeClusters(vol)
  BY DEF FreeClusters
<1>3. /\ vol'.dir = vol.dir /\ vol'.flag = vol.flag /\ vol'.free = vol.free
      /\ \A d \in Clusters : vol'.fat[d] = IF d = c THEN End ELSE vol.fat[d]
  <2>1. PICK y \in {Free, End} \cup Clusters : y = End
    OBVIOUS
  <2>2. LET w == SetFat(vol, c, y) IN
          /\ w \in Image /\ w.fat = [vol.fat EXCEPT ![c] = y]
          /\ w.dir = vol.dir /\ w.data = vol.data /\ w.flag = vol.flag /\ w.free = vol.free
          /\ \A d \in Clusters : w.fat[d] = IF d = c THEN y ELSE vol.fat[d]
    BY ONLY <1>1, c \in Clusters, y \in {Free, End} \cup Clusters, FatWrite, SMTT(40)
  <2>3. vol' = SetFat(vol, c, y)
    BY <2>1 DEF Put, SetFat
  <2>4. QED BY <2>1, <2>2, <2>3
<1>4. \A m \in Names : ~Dangling(vol, m) /\ ~Removing(m)
  BY NoDanglers
<1>5. ASSUME NEW m \in Names, NEW j \in Nat PROVE Nth(vol, h[m], j) # c
  <2>1. ASSUME Nth(vol, h[m], j) # None PROVE vol.fat[Nth(vol, h[m], j)] # Free
    BY <1>4, <2>1, ChainsUsed
  <2>2. QED BY <1>2, <2>1, Distinct
<1>6. ASSUME NEW m \in Names PROVE ~Dangling(vol', m)
  <2>1. vol.dir[m].first \in Cell
    BY <1>1, Parts
  <2>2. vol.dir[m].first # None => vol.dir[m].first \in Clusters
    BY <2>1 DEF Cell
  <2>3. QED BY <1>3, <1>4, <2>2, Distinct DEF Dangling, Listed
<1>7. /\ Types' /\ DownIs' /\ Chained' /\ Removals' /\ FlagCoversCount'
  <2>1. PICK y \in {Free, End} \cup Clusters : y = End
    OBVIOUS
  <2>2. y # Free /\ y \notin Clusters
    BY <2>1, Distinct
  <2>3. /\ Put(FatBlock, [vol EXCEPT !.fat[c] = y]) /\ job.op # "sync" /\ fs'.up /\ fs' \in FsRec
    BY <1>1, <2>1
  <2>4. /\ \A m \in Names :
             \/ \A j \in Nat : Nth(vol, HeadsOf(vol, file)[m], j) = c =>
                  ~Linked(vol, c) /\ vol.fat[c] # Free /\ y # Free
             \/ ~Open(m) /\ Dangling(vol', m)
        /\ \A m \in Names : Dangling(vol', m) => Removing(m)'
        /\ \A m \in Names : Removing(m) => Removing(m)'
    BY <1>4, <1>5, <1>6
  <2>5. QED BY <1>2, <2>2, <2>3, <2>4, TableStep
<1>8. Loose(vol'.fat, HeadsOf(vol', file'), c, Blank) /\ vol'.fat[c] = End
  <2>1. HeadsOf(vol', file') = h
    BY <1>3 DEF HeadsOf
  <2>2. \A m \in Names : h[m] # c
    <3>1. \A m \in Names : Nth(vol, h[m], 0) = h[m] /\ 0 \in Nat
      BY NthFirst
    <3>2. QED BY <1>5, <3>1
  <2>3. \A d \in Clusters : vol.fat[d] # c
    BY <1>1, <1>2 DEF Apart
  <2>4. vol'.fat[c] = End /\ \A d \in Clusters : vol'.fat[d] # c
    BY <1>2, <1>3, <2>3, Distinct
  <2>5. QED BY <1>2, <2>1, <2>2, <2>4, Distinct DEF Loose
<1>9. Flags'
  <2>1. Miscounted(vol') => job'.mark
    <3>1. fs.flag = vol.flag
      BY DEF VolumeInv, Flags
    <3>2. QED BY <1>3, <3>1 DEF Miscounted, NeedsMark
  <2>2. QED BY <1>3, <2>1, FlagsStep
<1>10. CountExact'
  <2>1. FreeClusters(vol') = FreeClusters(vol) \ {c}
    BY <1>3, Distinct DEF FreeClusters
  <2>2. Cardinality(FreeClusters(vol')) = Cardinality(FreeClusters(vol)) - 1
    <3>1. IsFiniteSet(FreeClusters(vol))
      BY FreeCount
    <3>2. Cardinality(FreeClusters(vol) \ {c}) = Cardinality(FreeClusters(vol)) - 1
      BY <1>2, <3>1, FS_RemoveElement
    <3>3. QED BY <2>1, <3>2
  <2>3. ASSUME fs.free # Unknown PROVE fs.free = Cardinality(FreeClusters(vol')) + 1 - 0
    <3>1. fs.free = Cardinality(FreeClusters(vol))
      BY <2>3, CountIs DEF Counting
    <3>2. Cardinality(FreeClusters(vol)) \in Int
      BY FreeCount, SMTT(40)
    <3>3. QED BY <2>2, <3>1, <3>2, SMTT(40)
  <2>4. QED BY <2>3 DEF CountExact
<1>11. QED BY <1>3, <1>5, <1>7, <1>8, <1>9, <1>10

(* For a file.                                                             *)
LEMMA AllocEndStep ==
  ASSUME VolumeInv, AllocEnd
  PROVE  VolumeInv'
<1>1. PICK n \in Names : n = job.name /\ Open(n) /\ AtOffset(n) = None
                         /\ job.count > 0 /\ job.count <= ClusterSize - (file[n].off % ClusterSize)
                         /\ file[n].off + job.count <= MaxSize
  BY DEF VolumeInv, Jobs, OnFile, AllocEnd, Doing
<1>2. PICK c \in Clusters : /\ Put(FatBlock, [vol EXCEPT !.fat[c] = End]) /\ vol.fat[c] = Free
                            /\ job' = [job EXCEPT !.op = "link", !.c = c, !.mark = NeedsMark]
  BY DEF AllocEnd, FindFree, FreeClusters
<1>3. job.op = "alloc" /\ ~job.mark /\ fs' = fs /\ file' = file /\ Types /\ job \in JobRec
  BY DEF AllocEnd, Doing, VolumeInv, Types
<1>4. fs.up
  BY <1>3, DoingUp
<1>5. /\ job' \in JobRec /\ job'.op = "link" /\ job'.name = n /\ job'.c = c /\ job'.count = job.count
      /\ job'.mark = NeedsMark
  <2>1. PICK m \in BOOLEAN : m = NeedsMark
    BY DEF NeedsMark
  <2>2. "link" \in Ops /\ c \in Cell
    BY DEF Ops, Cell
  <2>3. LET g == JobTakes(job, "link", c, m) IN
          /\ g \in JobRec /\ g.op = "link" /\ g.name = job.name /\ g.c = c /\ g.count = job.count
          /\ g.mark = m
    BY ONLY <1>3, <2>2, m \in BOOLEAN, JobCluster, SMTT(40)
  <2>4. job' = JobTakes(job, "link", c, m)
    BY <1>2, <2>1 DEF JobTakes
  <2>5. QED BY <1>1, <2>1, <2>3, <2>4
<1>6. /\ Types' /\ DownIs' /\ Chained' /\ Removals' /\ Flags' /\ CountExact' /\ FlagCoversCount'
      /\ Loose(vol'.fat, HeadsOf(vol', file'), c, Blank) /\ vol'.fat[c] = End
      /\ \A d \in Clusters : d # c => vol'.fat[d] = vol.fat[d]
      /\ \A m \in Names, j \in Nat : Nth(vol, HeadsOf(vol, file)[m], j) # c
  BY <1>2, <1>3, <1>4, <1>5, TakeStep
<1>7. AtOffset(n)' = None
  <2>1. ASSUME file[n].cur # None PROVE NextCluster(vol', file[n].cur) = NextCluster(vol, file[n].cur)
    <3>1. /\ file[n].off \in Nat /\ file[n].off # 0
          /\ file[n].cur = Nth(vol, file[n].first, ClustersFromBytes(file[n].off) - 1)
      BY <1>1, <2>1, OpenIs
    <3>2. ClustersFromBytes(file[n].off) - 1 \in Nat
      <4>1. ClustersFromBytes(file[n].off) - 1 \in 0 .. ClustersFromBytes(file[n].off) - 1
        BY <3>1, InSize, SMTT(40)
      <4>2. QED BY <4>1, SMTT(40)
    <3>3. HeadsOf(vol, file)[n] = file[n].first /\ file[n].cur \in Clusters
      BY <1>1, <1>3, <2>1, HeadTypes, FileParts DEF Cell
    <3>4. file[n].cur # c
      BY <1>6, <3>1, <3>2, <3>3
    <3>5. QED BY <1>6, <3>3, <3>4 DEF NextCluster, Linked
  <2>2. QED BY <1>1, <1>3, <2>1 DEF AtOffset
<1>8. Jobs'
  <2>1. OnName'
    BY <1>5, <1>6 DEF OnName
  <2>2. OnFile'
    <3>1. Open(n)' /\ file'[n] = file[n]
      BY <1>1, <1>3 DEF Open
    <3>2. QED BY <1>1, <1>5, <1>7, <3>1 DEF OnFile
  <2>3. QED BY <1>5, <2>1, <2>2 DEF Jobs, OnRemoval
<1>9. QED BY <1>6, <1>8 DEF VolumeInv

(* For a directory.                                                        *)
LEMMA DirAllocStep ==
  ASSUME VolumeInv, DirAlloc
  PROVE  VolumeInv'
<1>1. PICK n \in Names : n = job.name /\ ~Open(n) /\ vol.dir[n] = NoEntry
  BY DEF VolumeInv, Jobs, OnName, DirAlloc, Doing
<1>2. PICK c \in Clusters : /\ Put(FatBlock, [vol EXCEPT !.fat[c] = End]) /\ vol.fat[c] = Free
                            /\ job' = [job EXCEPT !.op = "zero", !.c = c, !.mark = NeedsMark]
  BY DEF DirAlloc, FindFree, FreeClusters
<1>3. job.op = "mkdir" /\ ~job.mark /\ fs' = fs /\ file' = file /\ Types /\ job \in JobRec
  BY DEF DirAlloc, Doing, VolumeInv, Types
<1>4. fs.up
  BY <1>3, DoingUp
<1>5. /\ job' \in JobRec /\ job'.op = "zero" /\ job'.name = n /\ job'.c = c
      /\ job'.mark = NeedsMark
  <2>1. PICK m \in BOOLEAN : m = NeedsMark
    BY DEF NeedsMark
  <2>2. "zero" \in Ops /\ c \in Cell
    BY DEF Ops, Cell
  <2>3. LET g == JobTakes(job, "zero", c, m) IN
          /\ g \in JobRec /\ g.op = "zero" /\ g.name = job.name /\ g.c = c /\ g.count = job.count
          /\ g.mark = m
    BY ONLY <1>3, <2>2, m \in BOOLEAN, JobCluster, SMTT(40)
  <2>4. job' = JobTakes(job, "zero", c, m)
    BY <1>2, <2>1 DEF JobTakes
  <2>5. QED BY <1>1, <2>1, <2>3, <2>4
<1>6. /\ Types' /\ DownIs' /\ Chained' /\ Removals' /\ Flags' /\ CountExact' /\ FlagCoversCount'
      /\ Loose(vol'.fat, HeadsOf(vol', file'), c, Blank) /\ vol'.fat[c] = End /\ vol'.dir = vol.dir
  BY <1>2, <1>3, <1>4, <1>5, TakeStep
<1>7. Jobs'
  <2>1. OnName'
    BY <1>1, <1>3, <1>5, <1>6 DEF OnName, Open
  <2>2. QED BY <1>5, <2>1 DEF Jobs, OnFile, OnRemoval
<1>8. QED BY <1>6, <1>7 DEF VolumeInv

(* The cluster is linked: as the first of a file that has none.            *)
LEMMA LinkFirst ==
  ASSUME VolumeInv, fs.up, job.op = "link", ~job.mark, NEW n \in Names, Open(n), AtOffset(n) = None,
         NEW x \in Clusters, Loose(vol.fat, HeadsOf(vol, file), x, Blank),
         file[n].cur = None, Untouched, fs' \in FsRec, fs'.up, job' \in JobRec,
         file' = [file EXCEPT ![n].first = IF file[n].first = None THEN x ELSE file[n].first,
                              ![n].dirty = file[n].dirty \/ file[n].first = None]
  PROVE  /\ Types' /\ DownIs' /\ Chained' /\ Removals' /\ FlagCoversCount'
         /\ vol'.flag = vol.flag /\ vol'.free = vol.free /\ FreeClusters(vol') = FreeClusters(vol)
         /\ AtOffset(n)' = x /\ Open(n)' /\ file'[n].off = file[n].off
<1> DEFINE h == HeadsOf(vol, file)
           f == file[n]
           r == [f EXCEPT !.first = x, !.dirty = TRUE]
<1>1. Types /\ vol' = vol /\ Apart(vol.fat, h) /\ file \in [Names -> FileRec \cup {Closed}]
  BY DEF VolumeInv, Types, Chained, Untouched
<1>2. /\ f \in FileRec /\ Fits(vol, f, n) /\ f.off = 0 /\ f.off \in Nat
      /\ (f.first = None => f.size = 0) /\ f.off <= f.size
  BY OpenIs
<1>3. f.first = None /\ f.size = 0
  <2>1. 0 % ClusterSize = 0
    BY VolumeAssumption, SMTT(40)
  <2>2. AtOffset(n) = f.first
    BY <1>2, <2>1 DEF AtOffset
  <2>3. QED BY <1>2, <2>2
<1>4. r \in FileRec /\ r.first = x /\ r.dirty = TRUE /\ r.off = 0 /\ r.cur = None /\ r.size = 0
  <2>1. x \in Cell
    BY DEF Cell
  <2>2. r \in FileRec
    BY <1>2, <2>1 DEF FileRec
  <2>3. r.first = x /\ r.dirty = TRUE /\ r.off = f.off /\ r.cur = f.cur /\ r.size = f.size
    BY <1>2, SMTT(40) DEF FileRec
  <2>4. QED BY <1>2, <1>3, <2>2, <2>3
<1>5. file' = [file EXCEPT ![n] = r]
  <2>1. file' = [file EXCEPT ![n].first = x, ![n].dirty = TRUE]
    BY <1>3
  <2>2. QED BY <1>1, <2>1
<1> HIDE DEF r
<1>6. /\ file' \in [Names -> FileRec \cup {Closed}]
      /\ \A m \in Names : file'[m] = IF m = n THEN r ELSE file[m]
  BY <1>1, <1>4, <1>5
<1>7. Fits(vol, r, n)
  <2>1. ASSUME NEW i \in 0 .. ClustersFromBytes(r.size) - 1 PROVE FALSE
    <3>1. ClustersFromBytes(0) \in Nat /\ ~(0 < ClustersFromBytes(0))
      BY Reaches, VolumeAssumption, SMTT(40)
    <3>2. QED BY <1>4, <2>1, <3>1, SMTT(40)
  <2>2. Laid(vol, r, n)
    BY <1>2, <1>3, <1>4, <2>1 DEF Laid, Bytes, Loose
  <2>3. QED BY <1>2, <1>3, <1>4, <2>2 DEF Fits
<1>8. file'[n] = r /\ r # Closed /\ Open(n)'
  BY <1>4, <1>6, ClosedIsNone DEF Open
<1>9. FlagCoversCount' /\ saved' \in {saved, vol}
  BY FlagStep
<1>10. Types'
  BY <1>1, <1>6, <1>9 DEF Types
<1>11. Chained'
  <2>1. /\ HeadsOf(vol', file')[n] = x
        /\ \A m \in Names \ {n} : HeadsOf(vol', file')[m] = h[m]
    BY <1>1, <1>4, <1>6, <1>8 DEF HeadsOf
  <2>2. (\A m \in Names \ {n} : h[m] # x) /\ \A c \in Clusters : vol.fat[c] # x
    BY Distinct DEF Loose
  <2> DEFINE g == HeadsOf(vol', file')
  <2>3. /\ Apart(vol.fat, h) /\ \A m \in Names \ {n} : g[m] = h[m]
        /\ \/ g[n] \in {None, h[n]}
           \/ (\A m \in Names \ {n} : h[m] # g[n]) /\ \A c \in Clusters : vol.fat[c] # g[n]
    <3>1. Apart(vol.fat, h)
      BY <1>1
    <3> HIDE DEF h
    <3>2. QED BY <2>1, <2>2, <3>1
  <2> HIDE DEF h, g
  <2>4. Apart(vol.fat, g)
    BY ONLY <2>3, n \in Names, ApartHead, SMTT(40)
  <2>5. ASSUME NEW m \in Names
        PROVE  \/ /\ vol'.dir[m] = vol.dir[m] /\ file'[m] = file[m]
                  /\ h[m] = None \/ Keeps(vol, vol', h[m], m)
               \/ ShownAt(vol', m) /\ (Open(m)' => Fits(vol', file'[m], m))
    <3>1. CASE m = n
      BY <1>1, <1>7, <1>8, <3>1 DEF VolumeInv, Chained
    <3>2. CASE m # n
      BY <1>1, <1>6, <3>2, KeepsSame
    <3>3. QED BY <3>1, <3>2
  <2>6. QED BY <1>1, <1>9, <1>10, <2>4, <2>5, ChainedStep DEF h, g
<1>12. Removals'
  <2>1. \A m \in Names : ~Dangling(vol, m) /\ ~Removing(m)
    BY NoDanglers
  <2>2. QED BY <1>1, <1>9, <2>1, RemovalsStep
<1>13. AtOffset(n)' = x /\ file'[n].off = f.off
  <2>1. 0 % ClusterSize = 0
    BY VolumeAssumption, SMTT(40)
  <2>2. QED BY <1>2, <1>4, <1>8, <2>1 DEF AtOffset
<1>14. QED BY <1>1, <1>8, <1>9, <1>10, <1>11, <1>12, <1>13 DEF DownIs

(* After the last of its chain.                                            *)
LEMMA LinkNext ==
  ASSUME VolumeInv, fs.up, job.op = "link", ~job.mark, NEW n \in Names, Open(n), AtOffset(n) = None,
         NEW x \in Clusters, Loose(vol.fat, HeadsOf(vol, file), x, Blank),
         file[n].cur # None, Put(FatBlock, [vol EXCEPT !.fat[file[n].cur] = x]),
         fs' \in FsRec, fs'.up, job' \in JobRec,
         file' = [file EXCEPT ![n].first = IF file[n].first = None THEN x ELSE file[n].first,
                              ![n].dirty = file[n].dirty \/ file[n].first = None]
  PROVE  /\ Types' /\ DownIs' /\ Chained' /\ Removals' /\ FlagCoversCount'
         /\ vol'.flag = vol.flag /\ vol'.free = vol.free /\ FreeClusters(vol') = FreeClusters(vol)
         /\ AtOffset(n)' = x /\ Open(n)' /\ file'[n].off = file[n].off
<1> DEFINE f == file[n]
<1>1. Types /\ vol \in Image /\ file \in [Names -> FileRec \cup {Closed}]
  BY DEF VolumeInv, Types
<1>2. /\ f \in FileRec /\ f.off # 0 /\ f.off \in Nat /\ f.size \in Nat /\ f.off <= f.size
      /\ (f.first = None => f.size = 0) /\ f.cur = Nth(vol, f.first, ClustersFromBytes(f.off) - 1)
  BY OpenIs
<1>3. f.first # None
  BY <1>2, SMTT(40)
<1>4. PICK c \in Clusters : c = f.cur
  BY <1>1, FileParts DEF Cell
<1>5. f.off % ClusterSize = 0 /\ ~Linked(vol, c)
  BY <1>4, Distinct DEF AtOffset, NextCluster, Linked
<1>6. file' = file
  <2>1. file' = [file EXCEPT ![n].first = f.first, ![n].dirty = f.dirty]
    BY <1>1, <1>3, FileParts
  <2>2. [f EXCEPT !.first = f.first, !.dirty = f.dirty] = f
    BY <1>2 DEF FileRec
  <2>3. [file EXCEPT ![n].first = f.first, ![n].dirty = f.dirty] = [file EXCEPT ![n] = f]
    BY <1>1, <2>2
  <2>4. [file EXCEPT ![n] = f] = file
    BY <1>1
  <2>5. QED BY <2>1, <2>3, <2>4
<1>7. \A m \in Names : ~Dangling(vol, m) /\ ~Removing(m)
  BY NoDanglers
<1>8. vol.fat[c] # Free
  <2>1. PICK k \in Nat : k = ClustersFromBytes(f.off) - 1
    <3>1. ClustersFromBytes(f.off) - 1 \in 0 .. ClustersFromBytes(f.size) - 1
      BY <1>2, InSize
    <3>2. ClustersFromBytes(f.off) - 1 \in Nat
      BY <3>1, SMTT(40)
    <3>3. QED BY <3>2
  <2>2. HeadsOf(vol, file)[n] = f.first
    BY <1>1, HeadTypes
  <2>3. Nth(vol, HeadsOf(vol, file)[n], k) = c /\ c # None
    BY <1>2, <1>4, <2>1, <2>2, Distinct
  <2>4. QED BY <1>7, <2>3, ChainsUsed
<1>9. /\ vol'.dir = vol.dir /\ vol'.flag = vol.flag /\ vol'.free = vol.free
      /\ \A d \in Clusters : vol'.fat[d] = IF d = c THEN x ELSE vol.fat[d]
  <2>1. x \in {Free, End} \cup Clusters
    OBVIOUS
  <2>2. LET w == SetFat(vol, c, x) IN
          /\ w \in Image /\ w.fat = [vol.fat EXCEPT ![c] = x]
          /\ w.dir = vol.dir /\ w.data = vol.data /\ w.flag = vol.flag /\ w.free = vol.free
          /\ \A d \in Clusters : w.fat[d] = IF d = c THEN x ELSE vol.fat[d]
    BY ONLY <1>1, c \in Clusters, <2>1, FatWrite, SMTT(40)
  <2>3. vol' = SetFat(vol, c, x)
    BY <1>4 DEF Put, SetFat
  <2>4. QED BY <2>2, <2>3
<1>10. ASSUME NEW m \in Names PROVE ~Dangling(vol', m)
  <2>1. vol.dir[m].first # None => vol.dir[m].first \in Clusters
    BY <1>1, Parts DEF Cell
  <2>2. QED BY <1>7, <1>9, <2>1, Distinct DEF Dangling, Listed
<1>11. /\ Types' /\ DownIs' /\ Chained' /\ Removals' /\ FlagCoversCount'
  <2>1. PICK y \in {Free, End} \cup Clusters : y = x
    OBVIOUS
  <2>2. y # Free
    BY <2>1, Distinct
  <2>3. y \in Clusters => /\ vol.fat[y] # Free /\ \A d \in Clusters : vol.fat[d] # y
                          /\ \A m \in Names : HeadsOf(vol, file)[m] # y
    BY <2>1, Distinct DEF Loose
  <2>4. /\ Put(FatBlock, [vol EXCEPT !.fat[c] = y]) /\ job.op # "sync"
    BY <1>4, <2>1
  <2>5. /\ \A m \in Names :
             \/ \A j \in Nat : Nth(vol, HeadsOf(vol, file)[m], j) = c =>
                  ~Linked(vol, c) /\ vol.fat[c] # Free /\ y # Free
             \/ ~Open(m) /\ Dangling(vol', m)
        /\ \A m \in Names : Dangling(vol', m) => Removing(m)'
        /\ \A m \in Names : Removing(m) => Removing(m)'
    BY <1>5, <1>7, <1>8, <1>10, <2>2
  <2>6. QED BY <1>6, <2>2, <2>3, <2>4, <2>5, TableStep
<1>12. FreeClusters(vol') = FreeClusters(vol)
  BY <1>8, <1>9, Distinct DEF FreeClusters
<1>13. AtOffset(n)' = x
  <2>1. AtOffset(n)' = NextCluster(vol', c)
    BY <1>4, <1>5, <1>6 DEF AtOffset
  <2>2. QED BY <1>9, <2>1 DEF NextCluster, Linked
<1>14. QED BY <1>6, <1>9, <1>11, <1>12, <1>13 DEF Open

(* Both.                                                                   *)
LEMMA AllocLinkStep ==
  ASSUME VolumeInv, AllocLink
  PROVE  VolumeInv'
<1>1. PICK n \in Names : n = job.name /\ Open(n) /\ AtOffset(n) = None
                         /\ job.count > 0 /\ job.count <= ClusterSize - (file[n].off % ClusterSize)
                         /\ file[n].off + job.count <= MaxSize
  BY DEF VolumeInv, Jobs, OnFile, AllocLink, Doing
<1>2. PICK x \in Clusters : x = job.c /\ Loose(vol.fat, HeadsOf(vol, file), x, Blank)
  BY DEF VolumeInv, Jobs, OnName, AllocLink, Doing, Loose
<1>3. /\ job.op = "link" /\ ~job.mark /\ fs' = Taken /\ job' = [job EXCEPT !.op = "data"]
      /\ IF file[n].cur = None THEN Untouched ELSE Put(FatBlock, [vol EXCEPT !.fat[file[n].cur] = x])
      /\ file' = [file EXCEPT ![n].first = IF file[n].first = None THEN x ELSE file[n].first,
                              ![n].dirty = file[n].dirty \/ file[n].first = None]
  BY <1>1, <1>2 DEF AllocLink, Doing
<1>4. fs.up
  BY <1>3, DoingUp
<1>5. job' \in JobRec /\ job'.op = "data" /\ job'.name = n /\ job'.c = x /\ job'.count = job.count /\ ~job'.mark
  <2>1. "data" \in Ops /\ job \in JobRec
    BY DEF Ops, VolumeInv, Types
  <2>2. QED BY <1>1, <1>2, <1>3, <2>1, JobOp
<1>6. /\ fs' \in FsRec /\ fs'.up /\ fs'.dirty /\ fs'.flag0 = fs.flag0 /\ fs'.flag = fs.flag
      /\ FreeClusters(vol') = FreeClusters(vol) => CountExact'
  BY <1>3, <1>4, <1>5, TakenIs DEF Counting
<1>7. /\ Types' /\ DownIs' /\ Chained' /\ Removals' /\ FlagCoversCount'
      /\ vol'.flag = vol.flag /\ vol'.free = vol.free /\ FreeClusters(vol') = FreeClusters(vol)
      /\ AtOffset(n)' = x /\ Open(n)' /\ file'[n].off = file[n].off
  <2>1. CASE file[n].cur = None
    BY <1>1, <1>2, <1>3, <1>4, <1>5, <1>6, <2>1, LinkFirst
  <2>2. CASE file[n].cur # None
    BY <1>1, <1>2, <1>3, <1>4, <1>5, <1>6, <2>2, LinkNext
  <2>3. QED BY <2>1, <2>2
<1>8. ~Miscounted(vol')
  <2>1. ~Miscounted(vol)
    BY <1>3, <1>4 DEF VolumeInv, Flags
  <2>2. QED BY <1>7, <2>1 DEF Miscounted
<1>9. Flags'
  BY <1>3, <1>4, <1>6, <1>7, <1>8, FlagsStep
<1>10. Jobs'
  <2>1. OnFile'
    BY <1>1, <1>5, <1>7, Distinct DEF OnFile
  <2>2. QED BY <1>5, <2>1 DEF Jobs, OnName, OnRemoval
<1>11. QED BY <1>6, <1>7, <1>9, <1>10 DEF VolumeInv

(* A cluster is given back: the next one is loose then.                    *)
LEMMA FreeClusterStep ==
  ASSUME VolumeInv, FreeCluster
  PROVE  VolumeInv'
<1> DEFINE h == HeadsOf(vol, file)
<1>1. PICK n \in Names : /\ n = job.name /\ ~Open(n) /\ Listed(vol, n) /\ Loose(vol.fat, h, job.c, n)
                         /\ Dangling(vol, n) \/ vol.dir[n].first = job.c
  BY DEF VolumeInv, Jobs, OnRemoval, FreeCluster, Doing
<1>2. PICK x \in Clusters : x = job.c
  BY <1>1 DEF Loose
<1>3. /\ vol.fat[x] # Free /\ (\A d \in Clusters : vol.fat[d] # x)
      /\ \A m \in Names : m # n => h[m] # x
  BY <1>1, <1>2 DEF Loose
<1>4. /\ job.op = "free" /\ ~job.mark /\ Put(FatBlock, [vol EXCEPT !.fat[x] = Free])
      /\ job' = [job EXCEPT !.c = NextCluster(vol, x), !.count = @ + 1, !.mark = NeedsMark,
                            !.op = IF Linked(vol, x) THEN "free" ELSE "freed"]
      /\ fs' = fs /\ file' = file
  BY <1>2 DEF FreeCluster, Doing
<1>5. /\ Types /\ vol \in Image /\ job \in JobRec /\ fs \in FsRec /\ job.count \in Nat /\ Apart(vol.fat, h)
  BY SMTT(40) DEF VolumeInv, Types, Chained, JobRec
<1>6. fs.up
  BY <1>4, DoingUp
<1>7. /\ job' \in JobRec /\ job'.name = n /\ job'.c = NextCluster(vol, x) /\ job'.count = job.count + 1
      /\ job'.mark = NeedsMark /\ job'.op = IF Linked(vol, x) THEN "free" ELSE "freed"
  <2>1. PICK m \in BOOLEAN : m = NeedsMark
    BY DEF NeedsMark
  <2>2. PICK op \in Ops : op = IF Linked(vol, x) THEN "free" ELSE "freed"
    BY DEF Ops
  <2>3. PICK k \in Nat : k = job.count + 1
    BY <1>5, SMTT(40)
  <2>4. PICK c \in Cell : c = NextCluster(vol, x)
    BY DEF Cell, NextCluster, Linked
  <2>5. LET g == JobGives(job, op, c, m, k) IN
          /\ g \in JobRec /\ g.op = op /\ g.name = job.name /\ g.c = c /\ g.count = k
          /\ g.mark = m
    BY ONLY <1>5, op \in Ops, c \in Cell, m \in BOOLEAN, k \in Nat, JobCounts, SMTT(40)
  <2>6. job' = JobGives(job, op, c, m, k)
    BY <1>4, <2>1, <2>2, <2>3, <2>4 DEF JobGives
  <2>7. QED BY <1>1, <2>1, <2>2, <2>3, <2>4, <2>5, <2>6
<1>8. job'.op \in {"free", "freed"}
  BY <1>7
<1>9. /\ vol'.dir = vol.dir /\ vol'.flag = vol.flag /\ vol'.free = vol.free
      /\ \A d \in Clusters : vol'.fat[d] = IF d = x THEN Free ELSE vol.fat[d]
  <2>1. PICK y \in {Free, End} \cup Clusters : y = Free
    OBVIOUS
  <2>2. LET w == SetFat(vol, x, y) IN
          /\ w \in Image /\ w.fat = [vol.fat EXCEPT ![x] = y]
          /\ w.dir = vol.dir /\ w.data = vol.data /\ w.flag = vol.flag /\ w.free = vol.free
          /\ \A d \in Clusters : w.fat[d] = IF d = x THEN y ELSE vol.fat[d]
    <3>1. vol \in Image
      BY <1>5
    <3>2. QED BY ONLY <3>1, x \in Clusters, y \in {Free, End} \cup Clusters, FatWrite, SMTT(40)
  <2>3. vol' = SetFat(vol, x, y)
    BY <1>4, <2>1 DEF Put, SetFat
  <2>4. QED BY <2>1, <2>2, <2>3
<1>10. Dangling(vol', n)
  <2>1. vol.dir[n].first \in Clusters /\ (vol.dir[n].first = x \/ vol.fat[vol.dir[n].first] = Free)
    BY <1>1, <1>2, <1>5, Parts DEF Dangling, Cell
  <2>2. QED BY <1>1, <1>9, <2>1, Distinct DEF Dangling, Listed
<1>11. ASSUME NEW m \in Names, m # n PROVE ~Dangling(vol', m)
  <2>1. vol.dir[m].first \in {None, h[m]}
    <3>1. CASE Open(m)
      BY <1>5, <3>1, HeadTypes DEF VolumeInv, Chained, Fits
    <3>2. CASE ~Open(m)
      BY <1>5, <3>2, HeadTypes
    <3>3. QED BY <3>1, <3>2
  <2>2. vol.dir[m].first # x /\ (vol.dir[m].first # None => vol.dir[m].first \in Clusters)
    BY <1>3, <1>5, <1>11, <2>1, Parts, Distinct DEF Cell
  <2>3. ~Dangling(vol, m)
    BY <1>1, <1>6, <1>11 DEF VolumeInv, Removals, Removing
  <2>4. QED BY <1>9, <2>2, <2>3 DEF Dangling, Listed
<1>12. /\ Types' /\ DownIs' /\ Chained' /\ Removals' /\ FlagCoversCount'
  <2>1. PICK y \in {Free, End} \cup Clusters : y = Free
    OBVIOUS
  <2>2. /\ y \notin Clusters /\ Put(FatBlock, [vol EXCEPT !.fat[x] = y]) /\ job.op # "sync"
        /\ fs' \in FsRec /\ fs'.up
    BY <1>4, <1>5, <1>6, <2>1, Distinct
  <2>3. ASSUME NEW m \in Names
        PROVE  \/ \A j \in Nat : Nth(vol, HeadsOf(vol, file)[m], j) = x =>
                    ~Linked(vol, x) /\ vol.fat[x] # Free /\ y # Free
               \/ ~Open(m) /\ Dangling(vol', m)
    <3>1. CASE m = n
      BY <1>1, <1>10, <3>1
    <3>2. CASE m # n
      BY <1>1, <1>2, <1>5, <3>2, LooseApart
    <3>3. QED BY <3>1, <3>2
  <2>4. \A m \in Names : Dangling(vol', m) => Removing(m)'
    BY <1>7, <1>8, <1>11 DEF Removing
  <2>5. \A m \in Names : Removing(m) => Removing(m)'
    BY <1>1, <1>7, <1>8 DEF Removing
  <2>6. QED BY <1>3, <1>4, <1>6, <1>7, <2>2, <2>3, <2>4, <2>5, TableStep
<1>13. Flags'
  <2>1. Miscounted(vol') => job'.mark
    <3>1. fs.flag = vol.flag
      BY <1>4, <1>6 DEF VolumeInv, Flags
    <3>2. QED BY <1>7, <1>9, <3>1 DEF Miscounted, NeedsMark
  <2>2. QED BY <1>4, <1>6, <1>9, <2>1, FlagsStep
<1>14. CountExact'
  <2>1. FreeClusters(vol') = FreeClusters(vol) \cup {x} /\ x \notin FreeClusters(vol)
    BY <1>3, <1>9 DEF FreeClusters
  <2>2. Cardinality(FreeClusters(vol')) = Cardinality(FreeClusters(vol)) + 1
    <3>1. IsFiniteSet(FreeClusters(vol))
      BY FreeCount
    <3>2. Cardinality(FreeClusters(vol) \cup {x}) = Cardinality(FreeClusters(vol)) + 1
      BY <2>1, <3>1, FS_AddElement
    <3>3. QED BY <2>1, <3>2
  <2>3. ASSUME fs.free # Unknown PROVE fs.free = Cardinality(FreeClusters(vol')) + 0 - job'.count
    <3>1. fs.free = Cardinality(FreeClusters(vol)) + 0 - job.count
      BY <1>4, <1>6, <2>3 DEF VolumeInv, CountExact
    <3>2. Cardinality(FreeClusters(vol)) \in Int
      BY FreeCount, SMTT(40)
    <3>3. QED BY <1>5, <1>7, <2>2, <3>1, <3>2, SMTT(40)
  <2>4. QED BY <1>4, <1>8, <2>3 DEF CountExact
<1>15. Jobs'
  <2>1. ASSUME Linked(vol, x) PROVE Loose(vol'.fat, HeadsOf(vol', file'), NextCluster(vol, x), n)
    <3>1. PICK y \in Clusters : y = vol.fat[x] /\ y = NextCluster(vol, x)
      BY <2>1 DEF Linked, NextCluster
    <3>2. y # x /\ vol.fat[y] # Free
      BY <1>3, <1>5, <3>1 DEF Apart
    <3>3. \A d \in Clusters : d # x => vol.fat[d] # y
      BY <1>5, <3>1 DEF Apart
    <3>4. \A m \in Names : h[m] # y
      BY <1>5, <3>1, Distinct DEF Apart
    <3>5. HeadsOf(vol', file') = h
      BY <1>4, <1>9 DEF HeadsOf
    <3>6. vol'.fat[y] # Free /\ \A d \in Clusters : vol'.fat[d] # y
      BY <1>9, <3>2, <3>3, Distinct
    <3>7. QED BY <3>1, <3>4, <3>5, <3>6 DEF Loose
  <2>2. OnRemoval'
    <3>1. ~Open(n)' /\ Listed(vol', n)
      BY <1>1, <1>4, <1>9 DEF Open, Listed
    <3>2. QED BY <1>7, <1>10, <2>1, <3>1 DEF OnRemoval
  <2>3. QED BY <1>7, <1>8, <2>2 DEF Jobs, OnName, OnFile
<1>16. QED BY <1>12, <1>13, <1>14, <1>15 DEF VolumeInv
-----------------------------------------------------------------------------
(* A freshly formatted volume.                                             *)
LEMMA InitInv == Init => VolumeInv
<1> SUFFICES ASSUME Init PROVE VolumeInv
  OBVIOUS
<1>0. PICK k \in {Unknown, Total} :
       vol = [fat |-> [c \in Clusters |-> Free], dir |-> [n \in Names |-> NoEntry],
              data |-> [c \in Clusters |-> Blank], flag |-> FALSE, free |-> k]
  BY DEF Init
<1>1. /\ vol = [fat |-> [c \in Clusters |-> Free], dir |-> [n \in Names |-> NoEntry],
                data |-> [c \in Clusters |-> Blank], flag |-> FALSE, free |-> k]
      /\ saved = vol /\ fs = Down /\ file = [n \in Names |-> Closed] /\ job = Idle
  BY <1>0 DEF Init
<1>2. Total \in Nat
  BY FreeCount
<1>3. k \in Counts /\ Unknown \in Counts
  BY <1>2, SMTT(40) DEF Counts
<1>4. Types
  <2>1. /\ [c \in Clusters |-> Free] \in Fat /\ [n \in Names |-> NoEntry] \in [Names -> Entry \cup {NoEntry}]
        /\ [c \in Clusters |-> Blank] \in [Clusters -> Names \cup {Blank}]
        /\ [n \in Names |-> Closed] \in [Names -> FileRec \cup {Closed}]
    BY DEF Fat
  <2>2. vol \in Image
    BY <1>1, <1>3, <2>1 DEF Image
  <2>3. fs \in FsRec
    BY <1>1, <1>3 DEF FsRec, Down
  <2>4. QED BY <1>1, <2>1, <2>2, <2>3, IdleIs DEF Types
<1>5. /\ \A n \in Names : vol.dir[n] = NoEntry /\ file[n] = Closed
      /\ \A c \in Clusters : vol.fat[c] = Free
      /\ vol.flag = FALSE /\ vol.free = k /\ NoEntry.first = None
  BY <1>1 DEF NoEntry
<1>6. \A n \in Names : ~Open(n) /\ ~Listed(vol, n) /\ ~Dangling(vol, n) /\ ShownAt(vol, n)
  BY <1>5 DEF Open, Listed, Dangling, ShownAt
<1>7. fs = Down /\ fs.up = FALSE
  BY <1>1 DEF Down
<1>8. Chained
  <2>1. \A n \in Names : HeadsOf(vol, file)[n] = None /\ DirHeads(vol)[n] = None
    BY <1>5 DEF HeadsOf, DirHeads
  <2>2. Apart(vol.fat, HeadsOf(vol, file)) /\ Apart(vol.fat, DirHeads(vol))
    BY <1>5, <2>1, Distinct DEF Apart
  <2>3. QED BY <1>1, <1>6, <2>2 DEF Chained, Solid
<1>9. Jobs
  BY <1>1, IdleIs DEF Jobs, OnName, OnFile, OnRemoval
<1>10. QED BY <1>1, <1>4, <1>6, <1>7, <1>8, <1>9
           DEF VolumeInv, DownIs, Removals, Flags, CountExact, FlagCoversCount

(* Every step.                                                             *)
LEMMA NextInv == VolumeInv /\ [Next]_vars => VolumeInv'
<1> SUFFICES ASSUME VolumeInv, [Next]_vars PROVE VolumeInv'
  OBVIOUS
<1>1. CASE Save \/ DiskFlush \/ SetDirtyFlag \/ PowerCut
  BY <1>1, SaveStep, DiskFlushStep, SetDirtyFlagStep, PowerCutStep
<1>2. CASE Mount \/ Unmount \/ UnmountFlag \/ UnmountDrop \/ Stats
  BY <1>2, MountStep, UnmountStep, UnmountFlagStep, UnmountDropStep, StatsStep
<1>3. CASE WriteEntry \/ AllocEnd \/ NoSpace \/ AllocLink \/ WriteData
  BY <1>3, WriteEntryStep, AllocEndStep, NoSpaceStep, AllocLinkStep, WriteDataStep
<1>4. CASE DirAlloc \/ DirZero \/ DirEntry \/ DirDots
  BY <1>4, DirAllocStep, DirZeroStep, DirEntryStep, DirDotsStep
<1>5. CASE FreeCluster \/ FreeDone \/ Unlist
  BY <1>5, FreeClusterStep, FreeDoneStep, UnlistStep
<1>6. ASSUME NEW n \in Names, OpenFile(n) \/ CreateFile(n) \/ CreateDir(n) PROVE VolumeInv'
  BY <1>6, OpenFileStep, CreateStep
<1>7. ASSUME NEW n \in Names, NEW op \in {"sync", "drop"}, FlushFile(n, op) PROVE VolumeInv'
  BY <1>7, FlushFileStep
<1>8. ASSUME NEW n \in Names, NEW p \in 0 .. MaxSize, SeekFile(n, p) PROVE VolumeInv'
  BY <1>8, SeekFileStep
<1>9. ASSUME NEW n \in Names, NEW len \in 1 .. ClusterSize, ReadFile(n, len) \/ WriteFile(n, len)
      PROVE  VolumeInv'
  BY <1>9, ReadFileStep, WriteFileStep
<1>10. ASSUME NEW n \in Names, ~Open(n), Remove(n) PROVE VolumeInv'
  BY <1>10, RemoveStep
<1>11. CASE UNCHANGED vars
  <2>1. vol' = vol /\ saved' = saved /\ block' = block /\ fs' = fs /\ file' = file /\ job' = job
    BY <1>11 DEF vars
  <2>2. Types' /\ DownIs'
    BY <2>1 DEF VolumeInv, Types, DownIs, Open
  <2>3. Chained'
    BY <2>1 DEF VolumeInv, Chained, Open
  <2>4. Removals'
    BY <2>1 DEF VolumeInv, Removals, Removing
  <2>5. Jobs'
    <3>1. \A n : AtOffset(n)' = AtOffset(n)
      BY <2>1 DEF AtOffset
    <3>2. QED BY <2>1, <3>1 DEF VolumeInv, Jobs, OnName, OnFile, OnRemoval, Open
  <2>6. Flags' /\ CountExact' /\ FlagCoversCount'
    BY <2>1 DEF VolumeInv, Flags, CountExact, FlagCoversCount
  <2>7. QED BY <2>2, <2>3, <2>4, <2>5, <2>6 DEF VolumeInv
<1>12. QED
  BY <1>1, <1>2, <1>3, <1>4, <1>5, <1>6, <1>7, <1>8, <1>9, <1>10, <1>11 DEF Next, Steps

(* The invariant holds in every state that any sequence of operations,     *)
(* power cuts and remounts reaches.                                        *)
THEOREM VolumeHolds == Spec => []VolumeInv
BY InitInv, NextInv, PTL DEF Spec

(* The types: the counts, the links and the positions stay in range.       *)
THEOREM VolumeTypes == Spec => []VolumeTypeOK
<1> DEFINE BlockOK == block \in {None, BootBlock, InfoBlock, FatBlock, DirBlock} \cup Clusters
<1>1. Init => BlockOK
  BY DEF Init
<1>2. VolumeInv /\ BlockOK /\ [Next]_vars => BlockOK'
  <2> SUFFICES ASSUME VolumeInv, BlockOK, [Next]_vars PROVE BlockOK'
    OBVIOUS
  <2>1. CASE block' \in {block, None}
    BY <2>1
  <2>2. ASSUME NEW b \in {BootBlock, InfoBlock, FatBlock, DirBlock}, NEW v, Put(b, v) PROVE BlockOK'
    BY <2>2 DEF Put
  <2>3. ASSUME NEW v, Put(job.c, v), job.op \in {"zero", "dots", "data"} PROVE BlockOK'
    <3>1. job.c \in Cell
      BY SMTT(40) DEF VolumeInv, Types, JobRec
    <3>2. job.c \in Clusters
      BY <2>3, <3>1 DEF VolumeInv, Jobs, OnName, OnFile, Loose, Cell
    <3>3. QED BY <2>3, <3>2 DEF Put
  <2>4. CASE Save \/ DiskFlush \/ SetDirtyFlag \/ PowerCut
    BY <2>1, <2>2, <2>4 DEF Save, DiskFlush, SetDirtyFlag, PowerCut, Searched
  <2>5. CASE Mount \/ Unmount \/ UnmountFlag \/ UnmountDrop \/ Stats
    BY <2>1, <2>2, <2>5 DEF Mount, Unmount, UnmountFlag, UnmountDrop, Stats, Untouched
  <2>6. CASE WriteEntry \/ AllocEnd \/ NoSpace \/ AllocLink
    BY <2>1, <2>2, <2>6 DEF WriteEntry, AllocEnd, NoSpace, AllocLink, Untouched
  <2>7. CASE WriteData \/ DirZero \/ DirDots
    BY <2>3, <2>7 DEF WriteData, DirZero, DirDots, Doing
  <2>8. CASE DirAlloc \/ DirEntry \/ FreeCluster \/ FreeDone \/ Unlist
    BY <2>1, <2>2, <2>8 DEF DirAlloc, DirEntry, FreeCluster, FreeDone, Unlist, Untouched
  <2>9. ASSUME NEW n \in Names,
               OpenFile(n) \/ CreateFile(n) \/ CreateDir(n) \/ Remove(n)
               \/ (\E op \in {"sync", "drop"} : FlushFile(n, op))
               \/ (\E p \in 0 .. MaxSize : SeekFile(n, p))
               \/ (\E len \in 1 .. ClusterSize : ReadFile(n, len) \/ WriteFile(n, len))
        PROVE  BlockOK'
    BY <2>1, <2>2, <2>9 DEF OpenFile, CreateFile, CreateDir, Remove, FlushFile, SeekFile, ReadFile, WriteFile,
                           Searched, Untouched
  <2>10. CASE UNCHANGED vars
    BY <2>1, <2>10 DEF vars
  <2>11. QED BY <2>4, <2>5, <2>6, <2>7, <2>8, <2>9, <2>10 DEF Next, Steps
<1>3. VolumeInv /\ BlockOK => VolumeTypeOK
  BY DEF VolumeInv, Types, VolumeTypeOK, Image, Entry, Fat, Cell, Counts, FsRec, FileRec
<1>4. QED BY <1>1, <1>2, <1>3, VolumeHolds, PTL DEF Spec

(* A power cut leaves, of the entries, only the one whose removal it       *)
(* interrupts leading to a free cluster: the order in which fatfs writes   *)
(* the table and the directory, and the cache's single dirty block, are    *)
(* enough for that.                                                        *)
THEOREM VolumeCutLeavesChains == Spec => []CutLeavesChains
<1>1. VolumeInv => CutLeavesChains
  <2> SUFFICES ASSUME VolumeInv, fs.up, NEW n \in Names, Dangling(saved, n)
               PROVE  Removing(n) \/ vol.dir[n] # saved.dir[n]
    BY DEF CutLeavesChains
  <2>1. Removing(n) \/ vol.dir[n] = NoEntry
    BY DEF VolumeInv, Removals
  <2>2. saved.dir[n] # NoEntry
    BY DEF Dangling, Listed
  <2>3. QED BY <2>1, <2>2
<1>2. QED BY <1>1, VolumeHolds, PTL

(* No cluster is in two chains, and none in a chain is free.               *)
THEOREM VolumeChainsApart == Spec => []ChainsApart
<1>1. VolumeInv => ChainsApart
  <2> SUFFICES ASSUME VolumeInv, fs.up PROVE ChainsApart
    BY DEF ChainsApart
  <2> DEFINE h == HeadsOf(vol, file)
  <2>1. Types /\ Apart(vol.fat, h)
    BY DEF VolumeInv, Chained
  <2>2. ASSUME NEW n \in Heads PROVE n \in Names /\ Head(n) # None /\ Head(n) = h[n] /\ vol.fat[Head(n)] # Free
    <3>1. n \in Names /\ Head(n) # None
      BY DEF Heads
    <3>2. CASE Open(n)
      <4>1. Head(n) = file[n].first /\ h[n] = file[n].first /\ Laid(vol, file[n], n)
        BY <2>1, <3>1, <3>2, HeadTypes DEF Head, VolumeInv, Chained, Fits
      <4>2. QED BY <3>1, <4>1 DEF Laid
    <3>3. CASE ~Open(n)
      <4>1. Head(n) = vol.dir[n].first /\ h[n] = vol.dir[n].first /\ Listed(vol, n) /\ ~Removing(n)
        BY <2>1, <3>1, <3>3, HeadTypes DEF Head
      <4>2. ~Dangling(vol, n)
        BY <3>1, <4>1 DEF VolumeInv, Removals
      <4>3. QED BY <3>1, <4>1, <4>2 DEF Dangling
    <3>4. QED BY <3>2, <3>3
  <2> HIDE DEF h
  <2>3. ASSUME NEW m \in Heads, NEW n \in Heads, m # n PROVE Head(m) # Head(n)
    <3>1. /\ m \in Names /\ n \in Names /\ h[m] # None
          /\ Head(m) = h[m] /\ Head(n) = h[n]
      BY <2>2
    <3>2. h[m] # h[n]
      BY <2>1, <2>3, <3>1 DEF Apart
    <3>3. QED BY <3>1, <3>2
  <2>4. \A n \in Heads : vol.fat[Head(n)] # Free /\ \A c \in Clusters : vol.fat[c] # Head(n)
    BY <2>1, <2>2 DEF Apart
  <2>5. /\ \A c, d \in Clusters : c # d /\ Linked(vol, c) => vol.fat[c] # vol.fat[d]
        /\ \A c \in Clusters : Linked(vol, c) => vol.fat[vol.fat[c]] # Free
    BY <2>1 DEF Apart, Linked
  <2>6. QED BY <2>3, <2>4, <2>5 DEF ChainsApart
<1>2. QED BY <1>1, VolumeHolds, PTL

(* After a power cut every file that is listed and not being removed has   *)
(* its bytes: its chain is as long as its size says, and what is within    *)
(* the size on the medium was written to the file.                         *)
THEOREM VolumeCutShowsOwnBytes == Spec => []CutShowsOwnBytes
<1>1. VolumeInv => CutShowsOwnBytes
  <2> SUFFICES ASSUME VolumeInv, NEW n \in Names, Listed(saved, n), ~saved.dir[n].dir,
                      ~Dangling(saved, n), NEW i \in 0 .. ClustersFromBytes(saved.dir[n].size) - 1
               PROVE  LET c == Nth(saved, saved.dir[n].first, i) IN c # None /\ saved.data[c] = n
    BY DEF CutShowsOwnBytes
  <2>1. ShownAt(saved, n)
    BY DEF VolumeInv, Chained, Solid
  <2>2. QED BY <2>1 DEF ShownAt, Bytes
<1>2. QED BY <1>1, VolumeHolds, PTL

(* The count on the medium is wrong under a clean flag only between the    *)
(* first change of the table and the write of the flag that follows it.    *)
THEOREM VolumeFlagCoversCount == Spec => []FlagCoversCount
<1>1. VolumeInv => FlagCoversCount
  BY DEF VolumeInv
<1>2. QED BY <1>1, VolumeHolds, PTL

(* The count in memory is exact, for any number of clusters.               *)
THEOREM VolumeCountExact == Spec => []CountExact
<1>1. VolumeInv => CountExact
  BY DEF VolumeInv
<1>2. QED BY <1>1, VolumeHolds, PTL

(* The cluster an open file remembers is its chain's at the position.      *)
THEOREM VolumeCursorOnChain == Spec => []CursorOnChain
<1>1. VolumeInv => CursorOnChain
  BY DEF VolumeInv, Chained, Fits, Laid, CursorOnChain
<1>2. QED BY <1>1, VolumeHolds, PTL
=============================================================================
