------------------------------- MODULE Files --------------------------------
(***************************************************************************)
(* Open files: the descriptor tables of processes (process/process.rs,     *)
(* syscall/fs.rs), the FileDescriptors that slots share after dup and      *)
(* fork, the vnodes that FileDescriptors of one path share through         *)
(* VNODE_HASHSET, and mounted directories (fs/file.rs, fs/mod.rs).         *)
(*                                                                         *)
(* The set is a hash map whose keys borrow the path from the vnode, or     *)
(* from the mounted FileSystem, that was inserted with them; an entry      *)
(* records that owner.  A key whose owner is gone is Stale, and what the   *)
(* program does from then on is undefined: the model stops there, as it    *)
(* does at a failed assertion.                                             *)
(*                                                                         *)
(* normalize_path makes a path absolute and leaves the rest of it as the   *)
(* program wrote it, with repeated slashes, dots in the middle and either  *)
(* case of the letters, so one file has several Names; every one has an    *)
(* entry of its own in the set, and a vnode with a File of its own.        *)
(*                                                                         *)
(* A file is unlinked only while it is closed (Volume has the other case). *)
(***************************************************************************)
EXTENDS Integers, Sequences, FiniteSets, FiniteSetsExt

CONSTANTS
  Procs,    \* the processes
  Root,     \* "/"
  Dir,      \* a directory in it, which can be mounted
  Names,    \* what normalize_path leaves of the paths of a file in it
  Std,      \* the standard descriptors of a process; fd_alloc starts after them
  MaxFd,    \* MAX_FD
  Descs,    \* bound: the FileDescriptors there are at one time
  Spare,    \* the vnodes of a path beyond the first
  MaxSize   \* bound: the size of the file

VARIABLES
  table,   \* fd_table of each process, indexed from 1
  desc,    \* the FileDescriptors
  vnode,   \* the vnodes
  set,     \* VNODE_HASHSET
  mounts,  \* the mount points in FILE_SYSTEM_TABLE
  stored,  \* the size of the file on the disk, or -1
  failed   \* the assertion or unwrap that failed
vars == <<table, desc, vnode, set, mounts, stored, failed>>

Paths == {Dir} \cup Names
Vnodes == Paths \cup Spare
None == "none"
Tty == "tty"           \* STDIN and STDOUT, which are never dropped
PipeEnd == "pipe end"  \* the vnode of a pipe end, which is never in the set
Stale == "stale"       \* owners of keys
Mounted == "mounted"
Drop == "drop"         \* what can fail
Lost == "lookup"
Dirfd == "dirfd"
NoDesc == [vnode |-> None, pos |-> 0]
NoVnode == [path |-> Dir, size |-> -1, dirty |-> FALSE]
NoEntry == [vnode |-> None, key |-> None]

ASSUME FilesAssumption ==
  /\ MaxFd \in Nat /\ Std \in 1 .. MaxFd
  /\ MaxSize \in Nat /\ IsFiniteSet(Descs)
  /\ Dir \notin Names /\ Dir # Root
  /\ {None, Tty} \cap Descs = {} /\ {None, PipeEnd, Stale, Mounted} \cap Vnodes = {}

Running == failed = None /\ \A path \in Paths : set[path].key # Stale
Slots(p) == 1 .. Len(table[p])
Holds(p, i) == i \in Slots(p) /\ table[p][i] # None
OpenAs(p, i) == Holds(p, i) /\ table[p][i] # Tty   \* bound: dup3 only of these

(* The types: a table has at most MAX_FD slots, on which the test for a    *)
(* full table in fd_alloc, an equality, relies.                            *)
FilesTypeOK ==
  /\ \A p \in Procs : Len(table[p]) <= MaxFd /\ \A i \in Slots(p) : table[p][i] \in Descs \cup {None, Tty}
  /\ desc \in [Descs -> [vnode : Vnodes \cup {None, PipeEnd}, pos : 0 .. MaxSize]]
  /\ vnode \in [Vnodes -> [path : Paths, size : -1 .. MaxSize, dirty : BOOLEAN]]
  /\ set \in [Paths -> [vnode : Vnodes \cup {None}, key : Vnodes \cup {None, Stale, Mounted}]]
  /\ Root \in mounts \/ ~Running
  /\ stored \in -1 .. MaxSize /\ failed \in {None, Drop, Lost, Dirfd}

Init ==
  /\ \E first \in Procs : table = [p \in Procs |-> IF p = first THEN [i \in 1 .. Std |-> Tty] ELSE <<>>]
  /\ desc = [d \in Descs |-> NoDesc]
  /\ vnode = [v \in Vnodes |-> NoVnode]
  /\ set = [path \in Paths |-> NoEntry]
  /\ mounts = {Root} /\ stored = -1 /\ failed = None
-----------------------------------------------------------------------------
(* FileDescriptor::drop, for every FileDescriptor of ds that no slot of    *)
(* tab holds.  When k of the h holders of a vnode go, one after the other, *)
(* the counts they see are h + inSet down to h - k + 1 + inSet.            *)
SeesAnyInSet(h, k, inSet) == k > 0 /\ h + inSet >= 2   \* mutant: strong_count >= 2
SeesNoneLeft(h, k, inSet) == k > 0 /\ h - k + 1 + inSet = 1   \* mutant: strong_count == 1
SeesTwo(h, k, inSet) == k > 0 /\ 2 \in h - k + 1 + inSet .. h + inSet

Dead(tab, ds) == {d \in Descs : ds[d] # NoDesc /\ \A p \in Procs : d \notin Range(tab[p])}
After(dead, ds, vs, st) ==
  LET Holders(v) == {d \in Descs : ds[d].vnode = v}
      InSet(v) == st[vs[v].path].vnode = v
      removing == {v \in Vnodes : SeesTwo(Cardinality(Holders(v)), Cardinality(Holders(v) \cap dead),
                                          IF InSet(v) THEN 1 ELSE 0)}
      left == [path \in Paths |->
                 IF \E v \in removing : vs[v].path = path THEN NoEntry ELSE st[path]]
      ds2 == [d \in Descs |-> IF d \in dead THEN NoDesc ELSE ds[d]]
      live == {ds2[d].vnode : d \in Descs} \cup {left[path].vnode : path \in Paths}
  IN [desc |-> ds2,
      vnode |-> [v \in Vnodes |-> IF v \in live THEN vs[v] ELSE NoVnode],
      set |-> [path \in Paths |->
                IF left[path].key \in Vnodes \ live THEN [left[path] EXCEPT !.key = Stale]
                ELSE left[path]],
      failed |-> IF \E v \in removing : ~InSet(v) \/ Holders(v) \ dead # {} THEN Drop ELSE None,
      closed |-> {v \in Vnodes \ live : vs[v] # NoVnode}]

(* The size that was on the disk is size.  File::drop writes the entry of  *)
(* a File whose size changed; when several go, the last one's stays.       *)
BecomeOn(size, tab, ds, vs, st) ==
  /\ table' = tab
  /\ IF Dead(tab, ds) = {}
     THEN desc' = ds /\ vnode' = vs /\ set' = st /\ stored' = size /\ UNCHANGED failed
     ELSE LET a == After(Dead(tab, ds), ds, vs, st)
              sizes == {vs[v].size : v \in {v \in a.closed : vs[v].dirty}}
          IN /\ desc' = a.desc /\ vnode' = a.vnode /\ set' = a.set /\ failed' = a.failed
             /\ stored' \in IF sizes = {} THEN {size} ELSE sizes
Become(tab, ds, vs, st) == BecomeOn(stored, tab, ds, vs, st)

(* fd_alloc, which is fd_alloc_from the first number after the standard    *)
(* ones (numbers from 1 here): the table with room, and the number, or 0.  *)
FdAllocFrom(tab, min) ==
  LET n == Len(tab)
      free == {i \in min .. n : tab[i] = None}
      Grown(k) == tab \o [i \in 1 .. k - n |-> None]
  IN IF min > MaxFd THEN [tab |-> tab, fd |-> 0]
     ELSE IF min > n THEN [tab |-> Grown(min), fd |-> min]
     ELSE IF free # {} THEN [tab |-> tab, fd |-> Min(free)]
     ELSE IF n = MaxFd THEN [tab |-> tab, fd |-> 0]
     ELSE [tab |-> Grown(n + 1), fd |-> n + 1]

FreeDescs == {d \in Descs : desc[d] = NoDesc}
NewVnode(path) == IF vnode[path] = NoVnode THEN path ELSE CHOOSE v \in Spare : vnode[v] = NoVnode
Put(p, tab) == [table EXCEPT ![p] = tab]
Alive(p) == Running /\ table[p] # <<>>
-----------------------------------------------------------------------------
(* file_open: the vnode of the path, from the set or opened now, which     *)
(* creates a file that is not there.                                       *)
Found(path) == set[path] # NoEntry
SizeOf(path) == IF path \in Names THEN Max({stored, 0}) ELSE 0
CanOpen(path, creat) == Found(path) \/ path = Dir \/ (path \in Names /\ (creat \/ stored >= 0))
OpenedWithCopy(path) ==  \* mutant: the key borrows a string that file_open drops
  IF Found(path) THEN [v |-> set[path].vnode, vnode |-> vnode, set |-> set]
  ELSE [v |-> NewVnode(path),
        vnode |-> [vnode EXCEPT ![NewVnode(path)] =
                     [path |-> path, size |-> SizeOf(path), dirty |-> FALSE]],
        set |-> [set EXCEPT ![path] = [vnode |-> NewVnode(path), key |-> Stale]]]
Opened(path) ==
  IF Found(path) THEN [v |-> set[path].vnode, vnode |-> vnode, set |-> set]
  ELSE [v |-> NewVnode(path),
        vnode |-> [vnode EXCEPT ![NewVnode(path)] =
                     [path |-> path, size |-> SizeOf(path), dirty |-> FALSE]],
        set |-> [set EXCEPT ![path] = [vnode |-> NewVnode(path), key |-> NewVnode(path)]]]

Descriptor(o, append) == [vnode |-> o.v, pos |-> IF append THEN o.vnode[o.v].size ELSE 0]

(* normalize_path of a relative path unwraps the slot of its dirfd.        *)
NoDirfd(p, fd) ==
  /\ Alive(p) /\ ~Holds(p, fd)
  /\ failed' = Dirfd
  /\ UNCHANGED <<table, desc, vnode, set, mounts, stored>>

(* sys_openat.  With a full table the new FileDescriptor is dropped.       *)
OpenAt(p, path, creat, append) ==
  /\ Alive(p) /\ CanOpen(path, creat) /\ (creat \/ append => path \in Names)
  /\ \E d \in FreeDescs :
       LET o == Opened(path)
           a == FdAllocFrom(table[p], Std + 1)
       IN BecomeOn(IF path \in Names THEN SizeOf(path) ELSE stored,
                 Put(p, IF a.fd = 0 THEN a.tab ELSE [a.tab EXCEPT ![a.fd] = d]),
                 [desc EXCEPT ![d] = Descriptor(o, append)], o.vnode, o.set)
  /\ UNCHANGED mounts

(* sys_fstatat opens the path and drops what it opened.                    *)
FstatAt(p, path) ==
  /\ Alive(p) /\ CanOpen(path, FALSE)
  /\ \E d \in FreeDescs :
       LET o == Opened(path) IN Become(table, [desc EXCEPT ![d] = Descriptor(o, FALSE)], o.vnode, o.set)
  /\ UNCHANGED mounts

Close(p, fd) ==
  /\ Alive(p) /\ Holds(p, fd)
  /\ Become([table EXCEPT ![p][fd] = None], desc, vnode, set)
  /\ UNCHANGED mounts

(* sys_dup, and fcntl with F_DUPFD or F_DUPFD_CLOEXEC.  (The close-on-exec *)
(* flag is left out: execve closes nothing.)                               *)
DupFrom(p, fd, min) ==
  /\ Alive(p) /\ Holds(p, fd)
  /\ table[p][fd] = Tty => min = MaxFd /\ \A q \in Procs \ {p} : table[q] = <<>>   \* bound
  /\ LET a == FdAllocFrom(table[p], min) IN
       /\ a.fd # 0
       /\ Become(Put(p, [a.tab EXCEPT ![a.fd] = table[p][fd]]), desc, vnode, set)
  /\ UNCHANGED mounts

Dup3(p, fd, newfd) ==
  /\ Alive(p) /\ OpenAs(p, fd) /\ newfd <= MaxFd
  /\ LET n == Len(table[p])
         grown == table[p] \o [i \in 1 .. newfd - n |-> None]
     IN Become(Put(p, [grown EXCEPT ![newfd] = table[p][fd]]), desc, vnode, set)
  /\ UNCHANGED mounts

(* sys_pipe2: a failure for the second number takes the first one back.    *)
PipeHalf(tab, d, e) ==  \* mutant: the first number is not taken back
  LET r == FdAllocFrom(tab, Std + 1)
      t1 == [r.tab EXCEPT ![r.fd] = d]
      w == FdAllocFrom(t1, Std + 1)
  IN IF r.fd = 0 THEN r.tab ELSE IF w.fd = 0 THEN t1 ELSE [w.tab EXCEPT ![w.fd] = e]
PipeTable(tab, d, e) ==
  LET r == FdAllocFrom(tab, Std + 1)
      t1 == [r.tab EXCEPT ![r.fd] = d]
      w == FdAllocFrom(t1, Std + 1)
  IN IF r.fd = 0 THEN r.tab ELSE IF w.fd = 0 THEN [t1 EXCEPT ![r.fd] = None]
     ELSE [w.tab EXCEPT ![w.fd] = e]
Pipe2(p) ==
  /\ Alive(p)
  /\ \E d, e \in FreeDescs :
       /\ d # e
       /\ Become(Put(p, PipeTable(table[p], d, e)),
                 [x \in Descs |-> IF x \in {d, e} THEN [NoDesc EXCEPT !.vnode = PipeEnd] ELSE desc[x]],
                 vnode, set)
  /\ UNCHANGED mounts
-----------------------------------------------------------------------------
(* FileDescriptor::read and write seek the shared File to their own        *)
(* position first, clamped to its size; both may transfer less than asked. *)
OnFile(p, fd) == Alive(p) /\ Holds(p, fd) /\ table[p][fd] \in Descs
                 /\ desc[table[p][fd]].vnode \in Vnodes
                 /\ vnode[desc[table[p][fd]].vnode].path \in Names
Moved(d, n) == [desc EXCEPT ![d].pos = @ + n]
Read(p, fd, n) ==
  /\ OnFile(p, fd)
  /\ LET d == table[p][fd] IN
       /\ n <= vnode[desc[d].vnode].size - desc[d].pos
       /\ desc' = Moved(d, n)
  /\ UNCHANGED <<table, vnode, set, mounts, stored, failed>>
WriteUnsized(p, fd, n) ==  \* mutant: the size is not updated
  /\ OnFile(p, fd)
  /\ desc[table[p][fd]].pos + n <= MaxSize
  /\ desc' = Moved(table[p][fd], n)
  /\ UNCHANGED <<table, vnode, set, mounts, stored, failed>>
Write(p, fd, n) ==
  /\ OnFile(p, fd)
  /\ LET d == table[p][fd]
         v == desc[d].vnode
         at == Min({desc[d].pos, vnode[v].size})
     IN /\ desc[d].pos + n <= MaxSize
        /\ desc' = Moved(d, n)
        /\ vnode' = [vnode EXCEPT ![v] = [path |-> @.path, size |-> Max({@.size, at + n}),
                                           dirty |-> @.dirty \/ at + n > @.size]]
  /\ UNCHANGED <<table, set, mounts, stored, failed>>

(* Process::fork copies the table; the last thread's exit drops it.        *)
Fork(p, q) ==
  /\ Alive(p) /\ table[q] = <<>>
  /\ table' = [table EXCEPT ![q] = table[p]]
  /\ UNCHANGED <<desc, vnode, set, mounts, stored, failed>>
Exit(p) ==
  /\ Alive(p) /\ \E q \in Procs \ {p} : table[q] # <<>>
  /\ Become([table EXCEPT ![p] = <<>>], desc, vnode, set)
  /\ UNCHANGED mounts

Unlink ==
  /\ Running /\ stored >= 0 /\ \A name \in Names : ~Found(name)
  /\ stored' = -1
  /\ UNCHANGED <<table, desc, vnode, set, mounts, failed>>

(* mount, with regeister_file_system: the new vnode replaces the one in    *)
(* the set, under the key that is there.                                   *)
Mount ==
  /\ Running /\ Dir \notin mounts
  /\ mounts' = mounts \cup {Dir}
  /\ Become(table, desc, [vnode EXCEPT ![NewVnode(Dir)] = [path |-> Dir, size |-> 0, dirty |-> FALSE]],
            [set EXCEPT ![Dir] = [vnode |-> NewVnode(Dir), key |-> IF Found(Dir) THEN set[Dir].key ELSE Mounted]])

(* umount takes away the file system that filesystem_lookup finds, which   *)
(* is the root's when the path is under no other.                          *)
Lookup(path) == IF Dir \in mounts /\ path # Root THEN Dir ELSE Root
Umount(path) ==
  /\ Running
  /\ mounts' = mounts \ {Lookup(path)}
  /\ set' = IF Lookup(path) = Dir THEN [set EXCEPT ![Dir].key = IF @ = Mounted THEN Stale ELSE @] ELSE set
  /\ failed' = IF Lookup(path) = Root THEN Lost ELSE None   \* every lookup asserts that there is a file system
  /\ UNCHANGED <<table, desc, vnode, stored>>

Steps ==
  \/ Unlink \/ \E path \in Paths \cup {Root} : Umount(path)
  \/ \E p \in Procs :
       \/ \E path \in Paths : FstatAt(p, path) \/ \E creat, append \in BOOLEAN : OpenAt(p, path, creat, append)
       \/ Pipe2(p) \/ Exit(p) \/ \E q \in Procs : Fork(p, q)
       \/ \E fd \in 1 .. MaxFd :
            \/ NoDirfd(p, fd) \/ Close(p, fd)
            \/ \E n \in 1 .. MaxSize : Read(p, fd, n) \/ Write(p, fd, n)
            \/ \E min \in Std + 1 .. MaxFd : DupFrom(p, fd, min)
            \/ \E newfd \in 1 .. MaxFd : Dup3(p, fd, newfd)

(* With directories mounted only while they are closed, and at any time.   *)
OpenOn(path) == {d \in Descs : desc[d].vnode \in Vnodes /\ vnode[desc[d].vnode].path = path}
Next == Steps \/ (OpenOn(Dir) = {} /\ Mount)
NextAny == Steps \/ Mount
Spec == Init /\ [][Next]_vars
SpecAny == Init /\ [][NextAny]_vars
-----------------------------------------------------------------------------
(* Every FileDescriptor opened by one path uses the one vnode in the set,  *)
(* and the set keeps no vnode that nobody uses: two openers by one path    *)
(* never write through two File objects, whatever the order of opens,      *)
(* dups, forks and closes.                                                 *)
OneVnodePerPath ==
  Running => \A path \in Names :
    /\ \A d \in OpenOn(path) : desc[d].vnode = set[path].vnode
    /\ Found(path) => OpenOn(path) # {}

(* The same for one file, by whatever path it was opened.                  *)
OneVnodePerFile ==
  Running => \A m, n \in Names : \A d \in OpenOn(m), e \in OpenOn(n) : desc[d].vnode = desc[e].vnode

(* FileDescriptor::drop's assertion that the vnode whose entry it removed  *)
(* has no other owner never fails.                                         *)
DropAssertion == failed # Drop

(* The key of an entry dangles only for a directory that was unmounted.    *)
KeysAlive == \A path \in Paths : set[path].key = Stale => path = Dir /\ Dir \notin mounts

(* A position is never beyond its File, where the seek before a read or a  *)
(* write would silently move it.                                           *)
PosWithinFile ==
  Running => \A path \in Names : \A d \in OpenOn(path) : desc[d].pos <= vnode[desc[d].vnode].size

(* What is opened gets the lowest number after the standard ones that is   *)
(* free, and never takes one that is in use, also when tables have holes   *)
(* or are full.                                                            *)
LowestFree ==
  [][\A p \in Procs : \A i \in DOMAIN table'[p] :
       LET d == table'[p][i] IN
         d \in Descs /\ d \in FreeDescs =>
           ~Holds(p, i) /\ \A j \in Std + 1 .. i - 1 : table'[p][j] # None]_vars

(* pipe2 gives a process both ends of a pipe or none, also when the table  *)
(* has one place left.                                                     *)
PipeBothOrNone ==
  [][Cardinality({d \in FreeDescs : desc'[d].vnode = PipeEnd}) # 1]_vars
=============================================================================
