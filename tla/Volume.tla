------------------------------- MODULE Volume -------------------------------
(***************************************************************************)
(* A FAT32 volume under fatfs (fatfs/src): the allocation table, the       *)
(* entries of a directory, the FSInfo sector and the dirty flag on the     *)
(* disk, and the FileSystem, File and DirEntryEditor objects in memory.    *)
(*                                                                         *)
(* A step is one write to the disk, so that a power cut can come between   *)
(* any two.  The disk is the one BlockCache provides: writes stay in       *)
(* memory until another block is accessed, so saved, what a power cut      *)
(* leaves, is an earlier state of vol that differs from it in one block.   *)
(*                                                                         *)
(* The directory is the root with room for every name; an entry, with its  *)
(* long name, lies in one block; dates are left out; a cluster is a block. *)
(* truncate and rename, which the kernel never calls, are left out.        *)
(***************************************************************************)
EXTENDS Integers, FiniteSets, FiniteSetsExt

CONSTANTS
  Names,        \* the names in the directory
  Blank,        \* the owner of a cluster nothing was written to
  Clusters,     \* the numbers of the data clusters
  ClusterSize,  \* cluster_size
  MaxSize       \* bound: the size of a file, in bytes

ASSUME VolumeAssumption ==
  /\ IsFiniteSet(Clusters) /\ ClusterSize \in Nat \ {0} /\ MaxSize \in Nat
  /\ Blank \notin Names
  /\ {"free", "end", "none", "boot", "info", "fat", "dir"} \cap Clusters = {}

VARIABLES
  vol,    \* the volume as the file system sees it
  saved,  \* the volume as a power cut leaves it
  block,  \* the block whose changes are only in memory
  fs,     \* the FileSystem object
  file,   \* the File object of each name that is open
  job     \* the operation in progress
vars == <<vol, saved, block, fs, file, job>>

Total == Cardinality(Clusters)   \* total_clusters
Free == "free"                   \* FatValue::Free, EndOfChain; a cluster is Data
End == "end"
None == "none"                   \* no cluster
Unknown == -1                    \* free_cluster_count is None; 0xFFFFFFFF on the disk
NoEntry == [first |-> None, size |-> -1, dir |-> FALSE]
Closed == [first |-> None, cur |-> None, off |-> 0, size |-> -1, dirty |-> FALSE]
Idle == [op |-> "none", name |-> Blank, c |-> None, count |-> 0, mark |-> FALSE]

(* The blocks of the disk: four of metadata and the clusters.              *)
BootBlock == "boot"
InfoBlock == "info"
FatBlock == "fat"
DirBlock == "dir"

Linked(v, c) == v.fat[c] \in Clusters
NextCluster(v, c) == IF Linked(v, c) THEN v.fat[c] ELSE None   \* get_next_cluster
FreeClusters(v) == {c \in Clusters : v.fat[c] = Free}
Listed(v, n) == v.dir[n] # NoEntry
Open(n) == file[n] # Closed

(* The types: no count leaves 0 .. Total and no link leaves the volume,    *)
(* after any sequence of allocations, removals, cuts and remounts.         *)
VolumeTypeOK ==
  LET Entry == [first : Clusters \cup {None}, size : 0 .. MaxSize, dir : BOOLEAN]
      Image == [fat : [Clusters -> {Free, End} \cup Clusters],
                dir : [Names -> Entry \cup {NoEntry}],
                data : [Clusters -> Names \cup {Blank}],
                flag : BOOLEAN,
                free : 0 .. Total \cup {Unknown}]
  IN /\ vol \in Image /\ saved \in Image
     /\ block \in {None, BootBlock, InfoBlock, FatBlock, DirBlock} \cup Clusters
     /\ fs \in [up : BOOLEAN, free : 0 .. Total \cup {Unknown}, dirty : BOOLEAN,
                flag0 : BOOLEAN, flag : BOOLEAN]
     /\ file \in [Names -> {Closed} \cup
          [first : Clusters \cup {None}, cur : Clusters \cup {None}, off : 0 .. MaxSize,
           size : 0 .. MaxSize, dirty : BOOLEAN]]

Down == [up |-> FALSE, free |-> Unknown, dirty |-> FALSE, flag0 |-> FALSE, flag |-> FALSE]

(* A freshly formatted volume: format_volume leaves the count of free      *)
(* clusters unknown, other formatting tools store it.                      *)
Init ==
  /\ \E n \in {Unknown, Total} :
       vol = [fat |-> [c \in Clusters |-> Free], dir |-> [m \in Names |-> NoEntry],
              data |-> [c \in Clusters |-> Blank], flag |-> FALSE, free |-> n]
  /\ saved = vol /\ block = None
  /\ fs = Down /\ file = [n \in Names |-> Closed] /\ job = Idle
-----------------------------------------------------------------------------
(* The disk: a write to a block first sends the block that was in memory   *)
(* to the medium.                                                          *)
Put(b, v) ==
  /\ vol' = v
  /\ saved' = IF block \in {b, None} THEN saved ELSE vol
  /\ block' = b
Untouched == UNCHANGED <<vol, saved, block>>

(* A read of another block: of the table, the directory or a file.         *)
Save == block # None /\ saved' = vol /\ block' = None /\ UNCHANGED <<vol, fs, file, job>>

Ready == fs.up /\ job = Idle
Doing(op) == job.op = op /\ ~job.mark

(* BufBlkDevice::flush, which File::flush ends with.  Every File flushes   *)
(* when it is dropped, the temporary ones that walk a directory included:  *)
(* a search of the directory and a change of it both end in a flush.       *)
Searched == saved' = vol /\ block' = None /\ UNCHANGED vol
DiskFlush ==
  /\ job.op \in {"sync", "drop"}
  /\ Searched
  /\ file' = IF job.op = "drop" THEN [file EXCEPT ![job.name] = Closed] ELSE file
  /\ job' = Idle /\ UNCHANGED fs

(* set_dirty_flag(true), for an operation that needs it before it goes on. *)
NeedsMark == ~fs.flag
SetDirtyFlag ==
  /\ job.mark
  /\ Put(BootBlock, [vol EXCEPT !.flag = TRUE])
  /\ fs' = [fs EXCEPT !.flag = TRUE]
  /\ job' = [job EXCEPT !.mark = FALSE]
  /\ UNCHANGED file
-----------------------------------------------------------------------------
(* FileSystem::new, with FsInfoSector::validate_and_fix.  Bound: of the    *)
(* volumes a power cut leaves, only those that need no repair are mounted. *)
Dangling(v, n) == Listed(v, n) /\ v.dir[n].first # None /\ v.fat[v.dir[n].first] = Free
Miscounted(v) == v.free # Unknown /\ ~v.flag /\ v.free # Cardinality(FreeClusters(v))
Sound(v) == ~Miscounted(v) /\ \A n \in Names : ~Dangling(v, n)

Valid(n) == IF n > Total THEN Unknown ELSE n
MountTrusting ==  \* mutant: the count is used although the flag is set
  /\ ~fs.up /\ job = Idle /\ Sound(vol)
  /\ fs' = [up |-> TRUE, free |-> Valid(vol.free), dirty |-> FALSE,
            flag0 |-> vol.flag, flag |-> vol.flag]
  /\ Untouched /\ UNCHANGED <<file, job>>
Mount ==
  /\ ~fs.up /\ job = Idle /\ Sound(vol)
  /\ fs' = [up |-> TRUE, free |-> IF vol.flag THEN Unknown ELSE Valid(vol.free),
            dirty |-> FALSE, flag0 |-> vol.flag, flag |-> vol.flag]
  /\ Untouched /\ UNCHANGED <<file, job>>

(* unmount_internal: flush_fs_info, then set_dirty_flag(false).  The       *)
(* device goes with the file system, and with it, perhaps, its last block. *)
UnmountFlagOnly ==  \* mutant: FSInfo is not written
  /\ Ready /\ \A n \in Names : ~Open(n)
  /\ job' = [Idle EXCEPT !.op = "unmount"] /\ Untouched /\ UNCHANGED <<fs, file>>
Unmount ==
  /\ Ready /\ \A n \in Names : ~Open(n)
  /\ IF fs.dirty THEN Put(InfoBlock, [vol EXCEPT !.free = fs.free])
                 ELSE Untouched
  /\ fs' = [fs EXCEPT !.dirty = FALSE]
  /\ job' = [Idle EXCEPT !.op = "unmount"]
  /\ UNCHANGED file
UnmountFlag ==
  /\ Doing("unmount")
  /\ IF fs.flag0 # fs.flag THEN Put(BootBlock, [vol EXCEPT !.flag = fs.flag0]) ELSE Untouched
  /\ job' = [Idle EXCEPT !.op = "close"]
  /\ UNCHANGED <<fs, file>>
UnmountDrop ==
  /\ Doing("close")
  /\ vol' \in {vol, saved} /\ saved' = vol' /\ block' = None
  /\ fs' = Down /\ job' = Idle /\ UNCHANGED file

(* stats: recalc_free_clusters when the count is not known.                *)
Stats ==
  /\ Ready /\ fs.free = Unknown
  /\ fs' = [fs EXCEPT !.free = Cardinality(FreeClusters(vol)), !.dirty = TRUE]
  /\ Untouched /\ UNCHANGED <<file, job>>
-----------------------------------------------------------------------------
(* open_file, and create_file of a name that exists.                       *)
OpenFile(n) ==
  /\ Ready /\ ~Open(n) /\ Listed(vol, n) /\ ~vol.dir[n].dir
  /\ file' = [file EXCEPT ![n] =
       [first |-> vol.dir[n].first, cur |-> None, off |-> 0, size |-> vol.dir[n].size, dirty |-> FALSE]]
  /\ Searched /\ UNCHANGED <<fs, job>>

(* create_file: write_entry through the directory's File, which marks the  *)
(* volume first.                                                           *)
CreateFile(n) ==
  /\ Ready /\ ~Open(n) /\ ~Listed(vol, n)
  /\ job' = [Idle EXCEPT !.op = "create", !.name = n, !.mark = NeedsMark]
  /\ Searched /\ UNCHANGED <<fs, file>>
WriteEntry ==
  /\ Doing("create")
  /\ Put(DirBlock, [vol EXCEPT !.dir[job.name] = [first |-> None, size |-> 0, dir |-> FALSE]])
  /\ file' = [file EXCEPT ![job.name] =
       [first |-> None, cur |-> None, off |-> 0, size |-> 0, dirty |-> FALSE]]
  /\ job' = [Idle EXCEPT !.op = "sync"] /\ UNCHANGED fs

(* File::seek with Start, which also stands for the seeks FileDescriptor   *)
(* makes before every read and write.                                      *)
Nth(v, first, i) ==  \* the i-th cluster of a chain, from 0
  LET f[k \in 0 .. i] == IF k = 0 THEN first
                         ELSE IF f[k - 1] = None THEN None ELSE NextCluster(v, f[k - 1])
  IN f[i]
ClustersFromBytes(b) == (b + ClusterSize - 1) \div ClusterSize
SeekRoundingDown(n, p) ==  \* mutant: a position at a cluster's end counts as the next one's
  /\ Ready /\ Open(n) /\ p # file[n].off /\ p <= file[n].size
  /\ LET cluster == IF p = 0 THEN None
                    ELSE IF p \div ClusterSize = file[n].off \div ClusterSize THEN file[n].cur
                    ELSE Nth(vol, file[n].first, ClustersFromBytes(p) - 1)
     IN file' = [file EXCEPT ![n].off = p, ![n].cur = cluster]
  /\ Untouched /\ UNCHANGED <<fs, job>>
SeekFile(n, p) ==
  /\ Ready /\ Open(n) /\ p # file[n].off /\ p <= file[n].size
  /\ LET first == file[n].first
         k == ClustersFromBytes(p) - 1
         last == Max({i \in 0 .. k : Nth(vol, first, i) # None} \cup {0})
         to == IF p = 0 \/ first = None THEN [pos |-> 0, cluster |-> None]
               ELSE IF k = ClustersFromBytes(file[n].off) - 1
                    THEN [pos |-> p, cluster |-> file[n].cur]
               ELSE [pos |-> IF last < k THEN (last + 1) * ClusterSize ELSE p,
                     cluster |-> Nth(vol, first, last)]
     IN file' = [file EXCEPT ![n].off = to.pos, ![n].cur = to.cluster]
  /\ Untouched /\ UNCHANGED <<fs, job>>

(* The cluster at the position: the one after cur when it is at an end.    *)
AtOffset(n) ==
  IF file[n].off % ClusterSize # 0 THEN file[n].cur
  ELSE IF file[n].cur = None THEN file[n].first ELSE NextCluster(vol, file[n].cur)

(* File::read.                                                             *)
ReadFile(n, len) ==
  /\ Ready /\ Open(n) /\ AtOffset(n) # None
  /\ LET size == Min({len, ClusterSize - (file[n].off % ClusterSize), file[n].size - file[n].off})
     IN /\ size > 0
        /\ file' = [file EXCEPT ![n].off = file[n].off + size, ![n].cur = AtOffset(n)]
  /\ Untouched /\ UNCHANGED <<fs, job>>

(* File::write: the mark, then the cluster, possibly a new one, then data. *)
WriteFile(n, len) ==
  /\ Ready /\ Open(n)
  /\ LET size == Min({len, ClusterSize - (file[n].off % ClusterSize), MaxSize - file[n].off})
     IN /\ size > 0
        /\ job' = [op |-> IF AtOffset(n) = None THEN "alloc" ELSE "data", name |-> n,
                   c |-> AtOffset(n), count |-> size, mark |-> NeedsMark]
  /\ Untouched /\ UNCHANGED <<fs, file>>

(* alloc_cluster: a free cluster (which one depends on the hint where the  *)
(* search starts; it goes round, so it finds one if there is one), the end *)
(* mark, and only then the link from the previous cluster.                 *)
FindFree == FreeClusters(vol)

(* Where the adapter writes the table it sets the flag after the write.    *)
AllocEnd ==
  /\ Doing("alloc")
  /\ \E c \in FindFree :
       /\ Put(FatBlock, [vol EXCEPT !.fat[c] = End])
       /\ job' = [job EXCEPT !.op = "link", !.c = c, !.mark = NeedsMark]
  /\ UNCHANGED <<fs, file>>
NoSpace ==
  /\ Doing("alloc") \/ Doing("mkdir")
  /\ FindFree = {}
  /\ job' = Idle /\ Untouched /\ UNCHANGED <<fs, file>>

Add(count, k) == IF count = Unknown THEN Unknown ELSE count + k   \* add_free_clusters
Taken == [fs EXCEPT !.free = Add(@, -1), !.dirty = TRUE]

AllocLinkAnew ==  \* mutant: first_cluster is set although there is one
  /\ Doing("link")
  /\ LET f == file[job.name] IN
     /\ IF f.cur = None THEN Untouched
        ELSE Put(FatBlock, [vol EXCEPT !.fat[f.cur] = job.c])
     /\ file' = [file EXCEPT ![job.name].first = job.c, ![job.name].dirty = TRUE]
  /\ fs' = Taken
  /\ job' = [job EXCEPT !.op = "data"]
AllocLink ==
  /\ Doing("link")
  /\ LET f == file[job.name] IN
     /\ IF f.cur = None THEN Untouched
        ELSE Put(FatBlock, [vol EXCEPT !.fat[f.cur] = job.c])
     /\ file' = [file EXCEPT ![job.name].first = IF f.first = None THEN job.c ELSE f.first,
                             ![job.name].dirty = f.dirty \/ f.first = None]
  /\ fs' = Taken
  /\ job' = [job EXCEPT !.op = "data"]

WriteSizeOnly ==  \* mutant: the size grows before the bytes are written
  /\ Doing("data")
  /\ LET f == file[job.name]
         off == f.off + job.count
     IN file' = [file EXCEPT ![job.name] =
          [f EXCEPT !.off = off, !.cur = job.c, !.size = Max({@, off}), !.dirty = @ \/ off > f.size]]
  /\ job' = Idle /\ Untouched /\ UNCHANGED fs
WriteData ==
  /\ Doing("data")
  /\ Put(job.c, [vol EXCEPT !.data[job.c] = job.name])
  /\ LET f == file[job.name]
         off == f.off + job.count
     IN file' = [file EXCEPT ![job.name] =
          [f EXCEPT !.off = off, !.cur = job.c, !.size = Max({@, off}), !.dirty = @ \/ off > f.size]]
  /\ job' = Idle /\ UNCHANGED fs

(* File::flush, with op "sync", and Drop: flush_dir_entry and the device.  *)
FlushFile(n, op) ==
  /\ Ready /\ Open(n)
  /\ IF file[n].dirty
     THEN Put(DirBlock, [vol EXCEPT !.dir[n] =
            [first |-> file[n].first, size |-> file[n].size, dir |-> FALSE]])
     ELSE Untouched
  /\ file' = [file EXCEPT ![n].dirty = FALSE]
  /\ job' = [Idle EXCEPT !.op = op, !.name = n] /\ UNCHANGED fs

(* create_dir: a zeroed cluster, the entry, and "." and ".." in the        *)
(* cluster.                                                                *)
CreateDir(n) ==
  /\ Ready /\ ~Open(n) /\ ~Listed(vol, n)
  /\ job' = [Idle EXCEPT !.op = "mkdir", !.name = n]
  /\ Searched /\ UNCHANGED <<fs, file>>
DirAlloc ==
  /\ Doing("mkdir")
  /\ \E c \in FindFree :
       /\ Put(FatBlock, [vol EXCEPT !.fat[c] = End])
       /\ job' = [job EXCEPT !.op = "zero", !.c = c, !.mark = NeedsMark]
  /\ UNCHANGED <<fs, file>>
DirZero ==
  /\ Doing("zero")
  /\ Put(job.c, [vol EXCEPT !.data[job.c] = Blank])
  /\ fs' = Taken
  /\ job' = [job EXCEPT !.op = "dirent"] /\ UNCHANGED file
DirEntry ==
  /\ Doing("dirent")
  /\ Put(DirBlock, [vol EXCEPT !.dir[job.name] = [first |-> job.c, size |-> 0, dir |-> TRUE]])
  /\ job' = [job EXCEPT !.op = "dots"] /\ UNCHANGED <<fs, file>>
DirDots ==
  /\ Doing("dots")
  /\ Put(job.c, [vol EXCEPT !.data[job.c] = job.name])
  /\ job' = [Idle EXCEPT !.op = "sync"] /\ UNCHANGED <<fs, file>>

(* Dir::remove of a file or an empty directory: free_cluster_chain, one    *)
(* cluster after the other, and then the entry.                            *)
Remove(n) ==
  /\ Ready /\ Listed(vol, n)
  /\ job' = [Idle EXCEPT !.op = IF vol.dir[n].first = None THEN "unlist" ELSE "free", !.name = n,
                         !.c = vol.dir[n].first, !.mark = NeedsMark /\ vol.dir[n].first = None]
  /\ Searched /\ UNCHANGED <<fs, file>>
FreeCluster ==
  /\ Doing("free")
  /\ Put(FatBlock, [vol EXCEPT !.fat[job.c] = Free])
  /\ job' = [job EXCEPT !.c = NextCluster(vol, job.c), !.count = @ + 1, !.mark = NeedsMark,
                        !.op = IF Linked(vol, job.c) THEN "free" ELSE "freed"]
  /\ UNCHANGED <<fs, file>>
FreeDone ==
  /\ Doing("freed")
  /\ fs' = [fs EXCEPT !.free = Add(@, job.count), !.dirty = fs.dirty \/ fs.free # Unknown]
  /\ job' = [job EXCEPT !.op = "unlist"]
  /\ Untouched /\ UNCHANGED file
UnlistNothing ==  \* mutant: the entry stays
  /\ Doing("unlist")
  /\ Put(DirBlock, vol)
  /\ job' = [Idle EXCEPT !.op = "sync"] /\ UNCHANGED <<fs, file>>
Unlist ==
  /\ Doing("unlist")
  /\ Put(DirBlock, [vol EXCEPT !.dir[job.name] = NoEntry])
  /\ job' = [Idle EXCEPT !.op = "sync"] /\ UNCHANGED <<fs, file>>

PowerCut ==
  /\ vol' = saved /\ block' = None /\ UNCHANGED saved
  /\ fs' = Down /\ job' = Idle /\ file' = [n \in Names |-> Closed]
-----------------------------------------------------------------------------
Steps ==
  \/ Save \/ DiskFlush \/ SetDirtyFlag \/ PowerCut
  \/ Mount \/ Unmount \/ UnmountFlag \/ UnmountDrop \/ Stats
  \/ WriteEntry \/ AllocEnd \/ NoSpace \/ AllocLink \/ WriteData
  \/ DirAlloc \/ DirZero \/ DirEntry \/ DirDots
  \/ FreeCluster \/ FreeDone \/ Unlist
  \/ \E n \in Names :
       \/ OpenFile(n) \/ CreateFile(n) \/ CreateDir(n)
       \/ \E op \in {"sync", "drop"} : FlushFile(n, op)
       \/ \E p \in 0 .. MaxSize : SeekFile(n, p)
       \/ \E len \in 1 .. ClusterSize : ReadFile(n, len) \/ WriteFile(n, len)

(* With the documented precondition of remove, and as file_unlink calls it *)
(* for a file that may be open.                                            *)
Next == Steps \/ \E n \in Names : ~Open(n) /\ Remove(n)
NextUnlink == Steps \/ \E n \in Names : Remove(n)

Spec == Init /\ [][Next]_vars
SpecUnlink == Init /\ [][NextUnlink]_vars
-----------------------------------------------------------------------------
(* The heads of chains: of the entries, those being removed aside, and of  *)
(* the open files whose entries are not written yet.                       *)
Removing(n) == job.name = n /\ job.op \in {"free", "freed", "unlist"}
Head(n) == IF Open(n) THEN file[n].first
           ELSE IF Listed(vol, n) /\ ~Removing(n) THEN vol.dir[n].first ELSE None
Heads == {n \in Names : Head(n) # None}

(* No cluster belongs to two chains and none in a chain is free: each is   *)
(* the head of at most one file or the successor of at most one cluster.   *)
ChainsApart == fs.up =>
  /\ \A m, n \in Heads : m # n => Head(m) # Head(n)
  /\ \A n \in Heads : vol.fat[Head(n)] # Free /\ \A c \in Clusters : vol.fat[c] # Head(n)
  /\ \A c, d \in Clusters : c # d /\ Linked(vol, c) => vol.fat[c] # vol.fat[d]
  /\ \A c \in Clusters : Linked(vol, c) => vol.fat[vol.fat[c]] # Free

(* A power cut leaves the volume sound, except for a name whose removal it *)
(* interrupts: no other entry leads to a free cluster.                     *)
CutLeavesChains ==
  fs.up => \A n \in Names : Dangling(saved, n) => Removing(n) \/ vol.dir[n] # saved.dir[n]

(* A power cut leaves no file longer than its chain, and no file that      *)
(* shows another file's old bytes: what is within the size on the medium   *)
(* was written to the medium before.                                       *)
CutShowsOwnBytes ==
  fs.up => \A n \in Names :
    LET e == saved.dir[n] IN
      Listed(saved, n) /\ ~e.dir /\ ~Dangling(saved, n) /\ ~Removing(n) =>
        \A i \in 0 .. ClustersFromBytes(e.size) - 1 :
          LET c == Nth(saved, e.first, i) IN c # None /\ saved.data[c] = n

(* The free count on the medium is wrong under a clean flag only from the  *)
(* first change of the table to the flag that follows it.                  *)
FlagCoversCount ==
  fs.up /\ Miscounted(saved) => job.mark \/ block = BootBlock

(* The count in memory, when there is one, is the number of free clusters, *)
(* less those that the operation in progress has still to count.           *)
CountExact ==
  fs.up /\ fs.free # Unknown =>
    fs.free = Cardinality(FreeClusters(vol))
              + (IF job.op \in {"link", "zero"} THEN 1 ELSE 0)
              - (IF job.op \in {"free", "freed"} THEN job.count ELSE 0)

(* The cluster an open file is at, which it remembers across operations of *)
(* its own and of others, is the one its chain has for the position.       *)
CursorOnChain ==
  \A n \in Names : Open(n) =>
    file[n].cur = IF file[n].off = 0 THEN None
                  ELSE Nth(vol, file[n].first, ClustersFromBytes(file[n].off) - 1)
=============================================================================
