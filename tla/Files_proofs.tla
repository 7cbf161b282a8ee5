---------------------------- MODULE Files_proofs ----------------------------
(***************************************************************************)
(* Open files share one vnode per path, for any number of processes and    *)
(* FileDescriptors and any size of tables.                                 *)
(*                                                                         *)
(* What the count test of FileDescriptor::drop decides depends on the      *)
(* whole set: it is right because every holder of a vnode found it in the  *)
(* set, and the set keeps no vnode without holders except that of a mount. *)
(***************************************************************************)
EXTENDS Files, FiniteSetTheorems, WellFoundedInduction, TLAPS

(* Leaves that name no prover are Zenon's; those that reason about numbers, *)
(* records or updates of functions name the SMT solver.                     *)
USE ZenonT(60)


(* The tables, and the descriptors their slots refer to.                   *)
Tables(tab) ==
  /\ tab \in [Procs -> Seq(Descs \cup {None, Tty})]
  /\ \A p \in Procs : Len(tab[p]) <= MaxFd
Backed(tab, ds) ==
  \A p \in Procs : \A i \in DOMAIN tab[p] : tab[p][i] \in Descs => ds[tab[p][i]] # NoDesc

(* A FileDescriptor is free, a pipe's, or uses the vnode in the set, at a  *)
(* position within the file.                                               *)
OnPath(r, vs, st) ==
  /\ r.vnode \in Paths /\ st[r.vnode].vnode = r.vnode
  /\ r.pos \in 0 .. MaxSize
  /\ r.vnode \in Names => r.pos <= vs[r.vnode].size
OnPipe(r) == r = [vnode |-> PipeEnd, pos |-> 0]
Descriptors(ds, vs, st) ==
  /\ ds \in [Descs -> [vnode : Vnodes \cup {None, PipeEnd}, pos : 0 .. MaxSize]]
  /\ \A d \in Descs : ds[d] = NoDesc \/ OnPipe(ds[d]) \/ OnPath(ds[d], vs, st)

(* The vnodes are those of the set, one for each path, and a key borrows   *)
(* from its own vnode or from a mounted file system.                       *)
KeyOf(path, mo) ==
  {path} \cup (IF path = Dir THEN (IF Dir \in mo THEN {Mounted} ELSE {Stale}) ELSE {})
Empty(path, vs, st) == st[path] = NoEntry /\ vs[path] = NoVnode
Filled(path, vs, st, mo) ==
  /\ st[path].vnode = path /\ st[path].key \in KeyOf(path, mo)
  /\ vs[path].path = path /\ vs[path].size \in 0 .. MaxSize
Entries(vs, st, mo) ==
  /\ vs \in [Vnodes -> [path : Paths, size : -1 .. MaxSize, dirty : BOOLEAN]]
  /\ st \in [Paths -> [vnode : Vnodes \cup {None}, key : Vnodes \cup {None, Stale, Mounted}]]
  /\ \A v \in Vnodes \ Paths : vs[v] = NoVnode
  /\ \A path \in Paths : Empty(path, vs, st) \/ Filled(path, vs, st, mo)

(* Only a mounted directory is in the set without being open.              *)
Used(ds, st) ==
  \A path \in Paths :
    \/ st[path] = NoEntry
    \/ \E d \in Descs : ds[d].vnode = path
    \/ st[path].key \in {Mounted, Stale}

Shape(tab, ds, vs, st, mo) ==
  Tables(tab) /\ Backed(tab, ds) /\ Descriptors(ds, vs, st) /\ Entries(vs, st, mo) /\ Used(ds, st)

(* The inductive invariant.                                                *)
FilesInv ==
  /\ Shape(table, desc, vnode, set, mounts)
  /\ Dead(table, desc) = {}
  /\ mounts \subseteq {Root, Dir} /\ failed \in {None, Lost, Dirfd} /\ (failed = None => Root \in mounts)
  /\ stored \in -1 .. MaxSize
-----------------------------------------------------------------------------
(* A vnode goes when it has holders and all of them go.                    *)
Gone(v, dead, ds) ==
  /\ \E d \in Descs : ds[d].vnode = v
  /\ \A d \in Descs : ds[d].vnode = v => d \in dead

(* Whoever holds a vnode got it from the set.                              *)
LEMMA HeldInSet ==
  ASSUME NEW ds, NEW vs, NEW st, NEW mo, Descriptors(ds, vs, st), Entries(vs, st, mo),
         NEW v \in Vnodes, NEW d \in Descs, ds[d].vnode = v
  PROVE  v \in Paths /\ st[v].vnode = v /\ vs[v].path = v
<1>1. OnPath(ds[d], vs, st)
  BY FilesAssumption, SMTT(40) DEF Descriptors, OnPipe, NoDesc
<1>2. v \in Paths /\ st[v].vnode = v
  BY <1>1 DEF OnPath
<1>3. st[v] # NoEntry
  BY <1>2, FilesAssumption, SMTT(40) DEF NoEntry, Vnodes
<1> QED
  BY <1>2, <1>3 DEF Entries, Empty, Filled

(* So the count test of FileDescriptor::drop is exact.                     *)
LEMMA CountTest ==
  ASSUME NEW ds, NEW vs, NEW st, NEW mo, Descriptors(ds, vs, st), Entries(vs, st, mo),
         NEW dead \in SUBSET Descs, NEW v \in Vnodes
  PROVE  SeesTwo(Cardinality({d \in Descs : ds[d].vnode = v}),
                 Cardinality({d \in Descs : ds[d].vnode = v} \cap dead),
                 IF st[vs[v].path].vnode = v THEN 1 ELSE 0)
         <=> Gone(v, dead, ds)
<1> DEFINE H == {d \in Descs : ds[d].vnode = v}
           K == H \cap dead
<1>1. IsFiniteSet(H) /\ IsFiniteSet(K)
  BY FilesAssumption, FS_Subset
<1>2. Cardinality(H) \in Nat /\ Cardinality(K) \in Nat /\ Cardinality(K) <= Cardinality(H)
  BY <1>1, FS_CardinalityType, FS_Subset
<1>3. Cardinality(K) = Cardinality(H) <=> H \subseteq dead
  BY <1>1, FS_Subset
<1>4. Cardinality(H) = 0 <=> H = {}
  BY <1>1, FS_EmptySet
<1>5. H # {} => st[vs[v].path].vnode = v
  BY HeldInSet, SMTT(40)
<1>6. Gone(v, dead, ds) <=> H # {} /\ H \subseteq dead
  BY DEF Gone
<1> HIDE DEF H, K
<1>7. CASE H = {}
  <2>1. Cardinality(K) = 0
    BY <1>2, <1>4, <1>7, SMTT(40)
  <2> QED
    BY <2>1, <1>6, <1>7, SMTT(40) DEF SeesTwo, H, K
<1>8. CASE H # {}
  <2> DEFINE h == Cardinality(H)
             k == Cardinality(K)
  <2>1. h \in Nat /\ k \in Nat /\ k <= h /\ h # 0
    BY <1>2, <1>4, <1>8
  <2> HIDE DEF h, k
  <2>2. SeesTwo(h, k, 1) <=> k = h
    BY <2>1, SMTT(40) DEF SeesTwo
  <2> QED
    BY <2>2, <1>3, <1>5, <1>6, <1>8 DEF H, K, h, k
<1> QED
  BY <1>7, <1>8

(* What dropping some FileDescriptors leaves.                              *)
Left(dead, ds, vs, st) ==
  [desc |-> [d \in Descs |-> IF d \in dead THEN NoDesc ELSE ds[d]],
   vnode |-> [v \in Vnodes |-> IF Gone(v, dead, ds) THEN NoVnode ELSE vs[v]],
   set |-> [path \in Paths |-> IF Gone(path, dead, ds) THEN NoEntry ELSE st[path]],
   failed |-> None,
   closed |-> {path \in Paths : Gone(path, dead, ds)}]

(* It is what After computes, and the assertion of drop holds.             *)
LEMMA AfterIs ==
  ASSUME NEW ds, NEW vs, NEW st, NEW mo, Descriptors(ds, vs, st), Entries(vs, st, mo),
         NEW dead \in SUBSET Descs
  PROVE  After(dead, ds, vs, st) = Left(dead, ds, vs, st)
<1> DEFINE Holders(v) == {d \in Descs : ds[d].vnode = v}
           InSet(v) == st[vs[v].path].vnode = v
           removing == {v \in Vnodes : SeesTwo(Cardinality(Holders(v)), Cardinality(Holders(v) \cap dead),
                                               IF InSet(v) THEN 1 ELSE 0)}
           left == [path \in Paths |->
                      IF \E v \in removing : vs[v].path = path THEN NoEntry ELSE st[path]]
           ds2 == [d \in Descs |-> IF d \in dead THEN NoDesc ELSE ds[d]]
           live == {ds2[d].vnode : d \in Descs} \cup {left[path].vnode : path \in Paths}
           G(v) == Gone(v, dead, ds)
<1>1. removing = {v \in Vnodes : G(v)}
  BY CountTest, SMTT(40)
<1>2. \A v \in Vnodes : G(v) => v \in Paths /\ st[v].vnode = v /\ vs[v].path = v /\ Holders(v) \subseteq dead
  BY HeldInSet, SMTT(40) DEF Gone
<1> HIDE DEF removing
<1>3. \A path \in Paths : (\E v \in removing : vs[v].path = path) <=> G(path)
  BY <1>1, <1>2 DEF Vnodes
<1>4. left = [path \in Paths |-> IF G(path) THEN NoEntry ELSE st[path]]
  BY <1>3
<1>5. \A path \in Paths : Empty(path, vs, st) \/ Filled(path, vs, st, mo)
  BY DEF Entries
<1>6. \A v \in Vnodes : NoDesc.vnode # v /\ NoEntry.vnode # v
  BY FilesAssumption DEF NoDesc, NoEntry
<1> HIDE DEF left
<1>7. ASSUME NEW path \in Paths PROVE left[path].vnode = path <=> st[path].vnode = path /\ ~G(path)
  BY <1>4, <1>6 DEF Vnodes
<1>8. ASSUME NEW path \in Paths, NEW q \in Paths, left[q].vnode = path PROVE q = path
  BY <1>4, <1>5, <1>6, <1>8 DEF Vnodes, Empty, Filled
<1>9. ASSUME NEW v \in Vnodes, G(v) PROVE v \notin live
  <2>1. \A d \in Descs : ds2[d].vnode # v
    BY <1>2, <1>6, <1>9
  <2>2. \A q \in Paths : left[q].vnode # v
    BY <1>2, <1>7, <1>8, <1>9
  <2> QED
    BY <2>1, <2>2
<1>10. ASSUME NEW v \in Vnodes, ~G(v), v \notin live PROVE vs[v] = NoVnode
  <2>1. CASE v \notin Paths
    BY <2>1 DEF Entries
  <2>2. CASE v \in Paths
    <3>1. left[v].vnode # v
      BY <2>2, <1>10
    <3>2. st[v].vnode # v
      BY <3>1, <2>2, <1>7, <1>10
    <3> QED
      BY <3>2, <2>2, <1>5 DEF Empty, Filled
  <2> QED
    BY <2>1, <2>2
<1>11. ASSUME NEW v \in Paths, G(v) PROVE vs[v] # NoVnode
  <2>1. st[v].vnode = v
    BY <1>2, <1>11 DEF Vnodes
  <2>2. Filled(v, vs, st, mo)
    BY <2>1, <1>5, <1>6 DEF Empty, Vnodes
  <2> QED
    BY <2>2, SMTT(40) DEF Filled, NoVnode
<1>12. ASSUME NEW path \in Paths PROVE left[path].key \notin Vnodes \ live
  <2>1. CASE G(path) \/ st[path] = NoEntry
    <3>1. left[path].key = None
      BY <2>1, <1>4, SMTT(40) DEF NoEntry
    <3> QED
      BY <3>1, FilesAssumption
  <2>2. CASE ~G(path) /\ st[path] # NoEntry
    <3>1. left[path] = st[path] /\ st[path].vnode = path /\ st[path].key \in KeyOf(path, mo)
      BY <2>2, <1>4, <1>5 DEF Empty, Filled
    <3>2. path \in live
      BY <3>1
    <3> QED
      BY <3>1, <3>2, FilesAssumption DEF KeyOf
  <2> QED
    BY <2>1, <2>2
<1> HIDE DEF live
<1>13. [v \in Vnodes |-> IF v \in live THEN vs[v] ELSE NoVnode]
         = [v \in Vnodes |-> IF G(v) THEN NoVnode ELSE vs[v]]
  BY <1>9, <1>10
<1>14. [path \in Paths |->
          IF left[path].key \in Vnodes \ live THEN [left[path] EXCEPT !.key = Stale] ELSE left[path]]
         = [path \in Paths |-> IF G(path) THEN NoEntry ELSE st[path]]
  BY <1>4, <1>12
<1>15. (IF \E v \in removing : ~InSet(v) \/ Holders(v) \ dead # {} THEN Drop ELSE None) = None
  BY <1>1, <1>2
<1>16. {v \in Vnodes \ live : vs[v] # NoVnode} = {path \in Paths : G(path)}
  BY <1>2, <1>9, <1>10, <1>11 DEF Vnodes
<1> HIDE DEF G
<1>17. After(dead, ds, vs, st) =
         [desc |-> ds2,
          vnode |-> [v \in Vnodes |-> IF v \in live THEN vs[v] ELSE NoVnode],
          set |-> [path \in Paths |->
                    IF left[path].key \in Vnodes \ live THEN [left[path] EXCEPT !.key = Stale]
                    ELSE left[path]],
          failed |-> IF \E v \in removing : ~InSet(v) \/ Holders(v) \ dead # {} THEN Drop ELSE None,
          closed |-> {v \in Vnodes \ live : vs[v] # NoVnode}]
  BY ZenonT(60) DEF After, removing, left, live
<1>18. Left(dead, ds, vs, st) =
         [desc |-> ds2,
          vnode |-> [v \in Vnodes |-> IF G(v) THEN NoVnode ELSE vs[v]],
          set |-> [path \in Paths |-> IF G(path) THEN NoEntry ELSE st[path]],
          failed |-> None,
          closed |-> {path \in Paths : G(path)}]
  BY ZenonT(60) DEF Left, G
<1> QED
  BY <1>13, <1>14, <1>15, <1>16, <1>17, <1>18, ZenonT(60)
-----------------------------------------------------------------------------
(* Dropping descriptors that no slot holds keeps the shape.                *)
LEMMA DropKeeps ==
  ASSUME NEW tab, NEW ds, NEW vs, NEW st, NEW mo, Shape(tab, ds, vs, st, mo)
  PROVE  LET l == Left(Dead(tab, ds), ds, vs, st)
         IN Shape(tab, l.desc, l.vnode, l.set, mo) /\ Dead(tab, l.desc) = {}
<1> DEFINE dead == Dead(tab, ds)
           l == Left(dead, ds, vs, st)
           G(v) == Gone(v, dead, ds)
<1>1. /\ Tables(tab) /\ Backed(tab, ds) /\ Descriptors(ds, vs, st) /\ Entries(vs, st, mo) /\ Used(ds, st)
  BY DEF Shape
<1>2. dead \subseteq Descs /\ \A p \in Procs : \A i \in DOMAIN tab[p] : tab[p][i] \notin dead
  BY DEF Dead, Range
<1>3. \A d \in Descs : d \notin dead /\ ds[d] # NoDesc => \E p \in Procs : d \in Range(tab[p])
  BY DEF Dead
<1> HIDE DEF dead
<1>4. /\ l.desc = [d \in Descs |-> IF d \in dead THEN NoDesc ELSE ds[d]]
      /\ l.vnode = [v \in Vnodes |-> IF G(v) THEN NoVnode ELSE vs[v]]
      /\ l.set = [path \in Paths |-> IF G(path) THEN NoEntry ELSE st[path]]
  BY DEF Left
<1> HIDE DEF l
<1>5. Backed(tab, l.desc)
  BY <1>1, <1>2, <1>4, SMTT(40) DEF Backed
<1>6. Dead(tab, l.desc) = {}
  BY <1>3, <1>4 DEF Dead
<1>7. NoDesc \in [vnode : Vnodes \cup {None, PipeEnd}, pos : 0 .. MaxSize]
  BY FilesAssumption, SMTT(40) DEF NoDesc
<1>8. Descriptors(l.desc, l.vnode, l.set)
  <2>1. l.desc \in [Descs -> [vnode : Vnodes \cup {None, PipeEnd}, pos : 0 .. MaxSize]]
    BY <1>1, <1>4, <1>7 DEF Descriptors
  <2>2. ASSUME NEW d \in Descs, OnPath(ds[d], vs, st), d \notin dead
        PROVE  OnPath(l.desc[d], l.vnode, l.set)
    <3>1. ds[d].vnode \in Paths /\ ~G(ds[d].vnode) /\ l.desc[d] = ds[d]
      BY <2>2, <1>4 DEF OnPath, Gone
    <3>2. l.set[ds[d].vnode] = st[ds[d].vnode] /\ l.vnode[ds[d].vnode] = vs[ds[d].vnode]
      BY <3>1, <1>4 DEF Vnodes
    <3> QED
      BY <2>2, <3>1, <3>2 DEF OnPath
  <2> QED
    BY <2>1, <2>2, <1>1, <1>4 DEF Descriptors
<1>9. Entries(l.vnode, l.set, mo)
  <2>1. NoVnode \in [path : Paths, size : -1 .. MaxSize, dirty : BOOLEAN]
    BY FilesAssumption, SMTT(40) DEF NoVnode, Paths
  <2>2. NoEntry \in [vnode : Vnodes \cup {None}, key : Vnodes \cup {None, Stale, Mounted}]
    BY DEF NoEntry
  <2>3. l.vnode \in [Vnodes -> [path : Paths, size : -1 .. MaxSize, dirty : BOOLEAN]]
    BY <2>1, <1>1, <1>4 DEF Entries
  <2>4. l.set \in [Paths -> [vnode : Vnodes \cup {None}, key : Vnodes \cup {None, Stale, Mounted}]]
    BY <2>2, <1>1, <1>4 DEF Entries
  <2>5. \A v \in Vnodes \ Paths : l.vnode[v] = NoVnode
    BY <1>1, <1>4 DEF Entries
  <2>6. ASSUME NEW path \in Paths PROVE Empty(path, l.vnode, l.set) \/ Filled(path, l.vnode, l.set, mo)
    <3>1. CASE G(path)
      BY <3>1, <1>4 DEF Empty, Vnodes
    <3>2. CASE ~G(path)
      <4>1. l.vnode[path] = vs[path] /\ l.set[path] = st[path]
        BY <3>2, <1>4 DEF Vnodes
      <4> QED
        BY <4>1, <1>1 DEF Entries, Empty, Filled
    <3> QED
      BY <3>1, <3>2
  <2> QED
    BY <2>3, <2>4, <2>5, <2>6 DEF Entries
<1>10. Used(l.desc, l.set)
  <2> SUFFICES ASSUME NEW path \in Paths, l.set[path] # NoEntry, ~(l.set[path].key \in {Mounted, Stale})
               PROVE  \E d \in Descs : l.desc[d].vnode = path
    BY DEF Used
  <2>1. ~G(path) /\ l.set[path] = st[path]
    BY <1>4
  <2>2. PICK d \in Descs : ds[d].vnode = path
    BY <2>1, <1>1 DEF Used
  <2>3. PICK e \in Descs : ds[e].vnode = path /\ e \notin dead
    BY <2>1, <2>2 DEF Gone
  <2> QED
    BY <2>3, <1>4
<1> QED
  BY <1>1, <1>5, <1>6, <1>8, <1>9, <1>10 DEF Shape, l, dead

(* Hence every call that ends in Become keeps the invariant.               *)
Became(tab, ds, vs, st, mo) ==
  /\ Shape(table', desc', vnode', set', mo) /\ Dead(table', desc')  = {}
  /\ failed' = None /\ stored' \in -1 .. MaxSize
  /\ table' = tab
  /\ desc' = [d \in Descs |-> IF d \in Dead(tab, ds) THEN NoDesc ELSE ds[d]]

(* Shape is what such a call has to establish for its tables and vnodes.   *)
LEMMA BecomeKeeps ==
  ASSUME NEW tab, NEW ds, NEW vs, NEW st, NEW mo, Shape(tab, ds, vs, st, mo),
         failed = None, NEW size \in -1 .. MaxSize, BecomeOn(size, tab, ds, vs, st)
  PROVE  Became(tab, ds, vs, st, mo)
<1> DEFINE dead == Dead(tab, ds)
<1>1. table' = tab
  BY DEF BecomeOn
<1>2. Descriptors(ds, vs, st) /\ Entries(vs, st, mo) /\ ds = [d \in Descs |-> ds[d]]
  BY DEF Shape, Descriptors
<1>3. CASE dead = {}
  <2>1. desc' = ds /\ vnode' = vs /\ set' = st /\ stored' = size /\ failed' = failed
    BY <1>3 DEF BecomeOn
  <2>2. desc' = [d \in Descs |-> IF d \in Dead(tab, ds) THEN NoDesc ELSE ds[d]]
    BY <2>1, <1>2, <1>3
  <2> QED
    BY <1>1, <1>3, <2>1, <2>2 DEF Became
<1>4. CASE dead # {}
  <2> DEFINE a == After(dead, ds, vs, st)
             l == Left(dead, ds, vs, st)
             sizes == {vs[v].size : v \in {v \in a.closed : vs[v].dirty}}
  <2>1. dead \in SUBSET Descs
    BY DEF Dead
  <2>2. a = l
    BY <2>1, <1>2, AfterIs
  <2>3. /\ desc' = a.desc /\ vnode' = a.vnode /\ set' = a.set /\ failed' = a.failed
        /\ stored' \in IF sizes = {} THEN {size} ELSE sizes
    BY <1>4, ZenonT(60) DEF BecomeOn
  <2>4. l.closed \subseteq Paths /\ l.failed = None
        /\ l.desc = [d \in Descs |-> IF d \in dead THEN NoDesc ELSE ds[d]]
    BY DEF Left
  <2>5. \A v \in Paths : vs[v].size \in -1 .. MaxSize
    BY <1>2 DEF Entries, Vnodes
  <2>6. sizes \subseteq -1 .. MaxSize
    BY <2>2, <2>4, <2>5
  <2> HIDE DEF sizes
  <2>8. stored' \in -1 .. MaxSize
    BY <2>3, <2>6
  <2>9. Shape(tab, l.desc, l.vnode, l.set, mo) /\ Dead(tab, l.desc) = {}
    BY DropKeeps
  <2> HIDE DEF a, l
  <2> QED
    BY <1>1, <2>2, <2>3, <2>4, <2>8, <2>9 DEF Became
<1> QED
  BY <1>3, <1>4
-----------------------------------------------------------------------------
(* What a slot can hold.                                                   *)
SlotValues == Descs \cup {None, Tty}

(* A set of numbers has a least one.                                       *)
LEMMA LeastNumber ==
  ASSUME NEW S \in SUBSET Nat, S # {}
  PROVE  Min(S) \in S /\ \A y \in S : Min(S) <= y
<1>1. PICK x \in S : \A y \in S : ~ (<<y, x>> \in OpToRel(<, Nat))
  BY NatLessThanWellFounded, WFMin
<1>2. \A y \in Nat : y < x => <<y, x>> \in OpToRel(<, Nat)
  BY DEF OpToRel
<1>3. \A y \in S : ~(y < x)
  BY <1>1, <1>2
<1>4. \A y \in S : x <= y
  BY <1>3, SMTT(40)
<1> QED
  BY <1>4 DEF Min

(* A table with slots added at its end.                                    *)
Extends(tab, row) ==
  /\ row \in Seq(SlotValues) /\ Len(tab) <= Len(row) /\ Len(row) <= MaxFd
  /\ \A i \in 1 .. Len(tab) : row[i] = tab[i]
  /\ \A i \in Len(tab) + 1 .. Len(row) : row[i] = None

(* Filling a table up with empty slots extends it.                         *)
LEMMA GrowTable ==
  ASSUME NEW tab \in Seq(SlotValues), NEW k \in Nat, k <= MaxFd, Len(tab) <= MaxFd
  PROVE  LET row == tab \o [i \in 1 .. k - Len(tab) |-> None]
         IN Extends(tab, row) /\ (Len(tab) <= k => Len(row) = k)
<1> DEFINE n == Len(tab)
           m == IF n <= k THEN k - n ELSE 0
           more == [i \in 1 .. m |-> None]
           row == tab \o more
<1>1. n \in Nat /\ m \in Nat /\ None \in SlotValues /\ MaxFd \in Nat
  BY FilesAssumption, SMTT(40) DEF SlotValues
<1>2. 1 .. k - n = 1 .. m
  BY <1>1, SMTT(40)
<1>3. [i \in 1 .. k - n |-> None] = more
  BY <1>2
<1>4. n <= MaxFd /\ (n <= k => n + m = k) /\ n + m <= MaxFd
  BY <1>1, SMTT(40)
<1> HIDE DEF m, n
<1>5. more \in Seq(SlotValues) /\ Len(more) = m /\ \A i \in 1 .. m : more[i] = None
  BY <1>1, SMTT(40)
<1> HIDE DEF more
<1>6. row \in Seq(SlotValues) /\ Len(row) = n + m
  BY <1>1, <1>5, SMTT(40) DEF n
<1>7. \A i \in 1 .. n : row[i] = tab[i]
  BY <1>1, <1>5, SMTT(40) DEF n
<1>8. \A i \in n + 1 .. n + m : row[i] = more[i - n] /\ i - n \in 1 .. m
  BY <1>1, <1>5, SMTT(40) DEF n
<1> HIDE DEF row
<1>9. \A i \in n + 1 .. n + m : row[i] = None
  BY <1>5, <1>8
<1>10. Extends(tab, row) /\ (n <= k => Len(row) = k)
  BY <1>1, <1>4, <1>6, <1>7, <1>9, SMTT(40) DEF Extends, n
<1>11. tab \o [i \in 1 .. k - Len(tab) |-> None] = row
  BY <1>3 DEF n, row
<1> QED
  BY <1>10, <1>11 DEF n

(* fd_alloc_from gives 0, or a slot with nothing in it.                    *)
LEMMA FdAllocated ==
  ASSUME NEW tab \in Seq(SlotValues), Len(tab) <= MaxFd, NEW min \in Nat, min > 0
  PROVE  LET a == FdAllocFrom(tab, min)
         IN /\ Extends(tab, a.tab)
            /\ a.fd = 0 \/ (a.fd \in min .. Len(a.tab) /\ a.tab[a.fd] = None)
<1> DEFINE n == Len(tab)
           free == {i \in min .. n : tab[i] = None}
           Grown(k) == tab \o [i \in 1 .. k - n |-> None]
           a == FdAllocFrom(tab, min)
<1>1. n \in Nat /\ MaxFd \in Nat /\ n <= MaxFd
  BY FilesAssumption, SMTT(40)
<1>2. Extends(tab, tab)
  BY SMTT(40) DEF Extends
<1>3. CASE min > MaxFd
  <2>1. a = [tab |-> tab, fd |-> 0]
    BY <1>3 DEF FdAllocFrom
  <2> QED
    BY <2>1, <1>2, SMTT(40)
<1>4. CASE min <= MaxFd /\ min > n
  <2>1. a = [tab |-> Grown(min), fd |-> min]
    BY <1>1, <1>4, SMTT(40) DEF FdAllocFrom
  <2>2. Extends(tab, Grown(min)) /\ Len(Grown(min)) = min
    <3>1. Len(tab) <= min /\ min \in Nat
      BY <1>1, <1>4, SMTT(40)
    <3> QED
      BY <3>1, <1>4, GrowTable
  <2>3. Grown(min)[min] = None
    BY <2>2, <1>1, <1>4, SMTT(40) DEF Extends
  <2> HIDE DEF Grown, a
  <2>4. min \in min .. Len(Grown(min))
    BY <2>2, SMTT(40)
  <2>5. a.tab = Grown(min) /\ a.fd = min
    BY <2>1
  <2> QED
    BY <2>2, <2>3, <2>4, <2>5 DEF a
<1>5. CASE min <= n /\ free # {}
  <2>1. a = [tab |-> tab, fd |-> Min(free)]
    BY <1>1, <1>5, SMTT(40) DEF FdAllocFrom
  <2>2. free \subseteq Nat
    BY <1>1, SMTT(40)
  <2> HIDE DEF free
  <2>3. Min(free) \in free
    BY <2>2, <1>5, LeastNumber
  <2> QED
    BY <2>1, <2>3, <1>2, SMTT(40) DEF free
<1>6. CASE min <= n /\ free = {} /\ n = MaxFd
  <2>1. a = [tab |-> tab, fd |-> 0]
    BY <1>1, <1>6 DEF FdAllocFrom
  <2> QED
    BY <2>1, <1>2, SMTT(40)
<1>7. CASE min <= n /\ free = {} /\ n # MaxFd
  <2>1. a = [tab |-> Grown(n + 1), fd |-> n + 1]
    BY <1>1, <1>7, SMTT(40) DEF FdAllocFrom
  <2>2. Extends(tab, Grown(n + 1)) /\ Len(Grown(n + 1)) = n + 1
    <3>1. Len(tab) <= n + 1 /\ n + 1 \in Nat /\ n + 1 <= MaxFd
      BY <1>1, <1>7, SMTT(40)
    <3> QED
      BY <3>1, GrowTable
  <2>3. Grown(n + 1)[n + 1] = None
    BY <2>2, <1>1, SMTT(40) DEF Extends
  <2> QED
    BY <2>1, <2>2, <2>3, <1>1, <1>7, SMTT(40)
<1> QED
  BY <1>1, <1>3, <1>4, <1>5, <1>6, <1>7, SMTT(40)

(* One process's table changes, to slots whose descriptors exist.          *)
LEMMA RowKeeps ==
  ASSUME Tables(table), Backed(table, desc), NEW p \in Procs, NEW row \in Seq(SlotValues),
         Len(row) <= MaxFd, NEW ds, \A d \in Descs : desc[d] # NoDesc => ds[d] # NoDesc,
         \A i \in DOMAIN row : row[i] \in Descs => ds[row[i]] # NoDesc
  PROVE  Tables([table EXCEPT ![p] = row]) /\ Backed([table EXCEPT ![p] = row], ds)
<1> DEFINE tab == [table EXCEPT ![p] = row]
<1>1. \A q \in Procs : tab[q] = IF q = p THEN row ELSE table[q]
  BY DEF Tables
<1>2. Tables(tab)
  BY <1>1 DEF Tables, SlotValues
<1>3. Backed(tab, ds)
  <2> SUFFICES ASSUME NEW q \in Procs, NEW i \in DOMAIN tab[q], tab[q][i] \in Descs
               PROVE  ds[tab[q][i]] # NoDesc
    BY DEF Backed
  <2>1. CASE q = p
    BY <2>1, <1>1
  <2>2. CASE q # p
    BY <2>2, <1>1, SMTT(40) DEF Backed
  <2> QED
    BY <2>1, <2>2
<1> QED
  BY <1>2, <1>3

(* A slot of an extended table is set.                                     *)
LEMMA SetSlot ==
  ASSUME NEW tab \in Seq(SlotValues), NEW ext, Extends(tab, ext), NEW fd \in 1 .. Len(ext),
         NEW x \in SlotValues, NEW ds,
         \A i \in DOMAIN tab : tab[i] \in Descs => ds[tab[i]] # NoDesc,
         x \in Descs => ds[x] # NoDesc
  PROVE  LET row == [ext EXCEPT ![fd] = x]
         IN /\ row \in Seq(SlotValues) /\ Len(row) = Len(ext) /\ Len(row) <= MaxFd
            /\ \A i \in DOMAIN row : row[i] \in Descs => ds[row[i]] # NoDesc
<1> DEFINE row == [ext EXCEPT ![fd] = x]
<1>1. ext \in Seq(SlotValues) /\ Len(ext) \in Nat /\ Len(tab) \in Nat /\ None \notin Descs
  BY FilesAssumption, SMTT(40) DEF Extends
<1>2. row \in Seq(SlotValues) /\ Len(row) = Len(ext) /\ DOMAIN row = 1 .. Len(ext)
  BY <1>1, SMTT(40)
<1>3. \A i \in 1 .. Len(ext) : row[i] = IF i = fd THEN x ELSE ext[i]
  BY <1>1, SMTT(40)
<1>4. \A i \in 1 .. Len(ext) : ext[i] = None \/ (i \in DOMAIN tab /\ ext[i] = tab[i])
  BY <1>1, SMTT(40) DEF Extends
<1> HIDE DEF row
<1>5. \A i \in DOMAIN row : row[i] \in Descs => ds[row[i]] # NoDesc
  BY <1>1, <1>2, <1>3, <1>4
<1> QED
  BY <1>2, <1>5 DEF Extends, row
-----------------------------------------------------------------------------
(* The larger of two numbers.                                              *)
LEMMA MaxOfTwo ==
  ASSUME NEW a \in Int, NEW b \in Int
  PROVE  Max({a, b}) = IF a >= b THEN a ELSE b
BY SMTT(40) DEF Max

(* The smaller of two numbers.                                             *)
LEMMA MinOfTwo ==
  ASSUME NEW a \in Int, NEW b \in Int
  PROVE  Min({a, b}) = IF a <= b THEN a ELSE b
BY SMTT(40) DEF Min

(* What file_open finds or makes.                                          *)
OpensWell(path, d, append) ==
  LET o == Opened(path)
      ds == [desc EXCEPT ![d] = Descriptor(o, append)]
  IN /\ Entries(o.vnode, o.set, mounts) /\ Descriptors(ds, o.vnode, o.set) /\ Used(ds, o.set)
     /\ ds \in [Descs -> [vnode : Vnodes \cup {None, PipeEnd}, pos : 0 .. MaxSize]]
     /\ ds[d].vnode = path /\ \A e \in Descs \ {d} : ds[e] = desc[e]

(* It is the vnode of the path in the set, and the only one.               *)
LEMMA OpenedWell ==
  ASSUME FilesInv, NEW path \in Paths, NEW d \in FreeDescs, NEW append \in BOOLEAN
  PROVE  OpensWell(path, d, append)
<1> DEFINE o == Opened(path)
           ds == [desc EXCEPT ![d] = Descriptor(o, append)]
<1>1. /\ Descriptors(desc, vnode, set) /\ Entries(vnode, set, mounts) /\ Used(desc, set)
      /\ stored \in -1 .. MaxSize /\ d \in Descs /\ desc[d] = NoDesc /\ path \in Vnodes
  BY DEF FilesInv, Shape, FreeDescs, Vnodes
<1>2. /\ o.v = path /\ Entries(o.vnode, o.set, mounts) /\ Filled(path, o.vnode, o.set, mounts)
      /\ \A q \in Paths \ {path} : o.set[q] = set[q] /\ o.vnode[q] = vnode[q]
      /\ set[path] # NoEntry => o.vnode[path] = vnode[path]
      /\ set[path] # NoEntry \/ o.set[path].key = path
  <2>1. CASE Found(path)
    <3>1. o.v = set[path].vnode /\ o.vnode = vnode /\ o.set = set
      BY <2>1 DEF Opened
    <3>2. Filled(path, vnode, set, mounts)
      BY <2>1, <1>1 DEF Found, Entries, Empty
    <3> QED
      BY <3>1, <3>2, <2>1, <1>1 DEF Filled, Found
  <2>2. CASE ~Found(path)
    <3> DEFINE size == SizeOf(path)
               rec == [path |-> path, size |-> size, dirty |-> FALSE]
               entry == [vnode |-> path, key |-> path]
    <3>1. set[path] = NoEntry
      BY <2>2 DEF Found
    <3>2. vnode[path] = NoVnode
      BY <3>1, <1>1, FilesAssumption, SMTT(40) DEF Entries, Empty, Filled, NoEntry
    <3>3. NewVnode(path) = path
      BY <3>2 DEF NewVnode
    <3>4. size \in 0 .. MaxSize
      BY <1>1, MaxOfTwo, FilesAssumption, SMTT(40) DEF SizeOf
    <3> HIDE DEF size
    <3>5. o = [v |-> path, vnode |-> [vnode EXCEPT ![path] = rec], set |-> [set EXCEPT ![path] = entry]]
      BY <2>2, <3>3 DEF Opened, size
    <3>6. o.v = path /\ o.vnode = [vnode EXCEPT ![path] = rec] /\ o.set = [set EXCEPT ![path] = entry]
      BY <3>5, SMTT(40)
    <3> HIDE DEF o
    <3>7. /\ \A v \in Vnodes : o.vnode[v] = IF v = path THEN rec ELSE vnode[v]
          /\ \A q \in Paths : o.set[q] = IF q = path THEN entry ELSE set[q]
      BY <3>6, <1>1 DEF Entries
    <3>8. rec \in [path : Paths, size : -1 .. MaxSize, dirty : BOOLEAN]
      BY <3>4, SMTT(40)
    <3>9. entry \in [vnode : Vnodes \cup {None}, key : Vnodes \cup {None, Stale, Mounted}]
      BY <1>1
    <3>10. o.vnode \in [Vnodes -> [path : Paths, size : -1 .. MaxSize, dirty : BOOLEAN]]
      BY <3>6, <3>8, <1>1 DEF Entries
    <3>11. o.set \in [Paths -> [vnode : Vnodes \cup {None}, key : Vnodes \cup {None, Stale, Mounted}]]
      BY <3>6, <3>9, <1>1, SMTT(40) DEF Entries
    <3>12. Filled(path, o.vnode, o.set, mounts)
      BY <3>4, <3>7, <1>1, SMTT(40) DEF Filled, KeyOf
    <3>13. ASSUME NEW q \in Paths, q # path
           PROVE  Empty(q, o.vnode, o.set) \/ Filled(q, o.vnode, o.set, mounts)
      <4>1. o.vnode[q] = vnode[q] /\ o.set[q] = set[q]
        BY <3>7, <3>13 DEF Vnodes
      <4> QED
        BY <4>1, <1>1 DEF Entries, Empty, Filled
    <3>14. \A v \in Vnodes \ Paths : o.vnode[v] = NoVnode
      BY <3>7, <1>1 DEF Entries
    <3>15. Entries(o.vnode, o.set, mounts)
      BY <3>10, <3>11, <3>12, <3>13, <3>14 DEF Entries
    <3> QED
      BY <3>1, <3>6, <3>7, <3>12, <3>15, SMTT(40) DEF Vnodes
  <2> QED
    BY <2>1, <2>2
<1> HIDE DEF o
<1>3. Descriptor(o, append) = [vnode |-> path, pos |-> IF append THEN o.vnode[path].size ELSE 0]
  BY <1>2 DEF Descriptor
<1>4. o.vnode[path].size \in 0 .. MaxSize
  BY <1>2 DEF Filled
<1>5. OnPath(Descriptor(o, append), o.vnode, o.set)
  BY <1>2, <1>3, <1>4, FilesAssumption, SMTT(40) DEF OnPath, Filled
<1>6. Descriptor(o, append) \in [vnode : Vnodes \cup {None, PipeEnd}, pos : 0 .. MaxSize]
  BY <1>1, <1>3, <1>4, FilesAssumption, SMTT(40)
<1>7. ds \in [Descs -> [vnode : Vnodes \cup {None, PipeEnd}, pos : 0 .. MaxSize]]
  BY <1>1, <1>6 DEF Descriptors
<1>8. /\ ds[d] = Descriptor(o, append) /\ \A e \in Descs \ {d} : ds[e] = desc[e]
  BY <1>1 DEF Descriptors
<1>9. ASSUME NEW e \in Descs, e # d, OnPath(desc[e], vnode, set)
      PROVE  OnPath(desc[e], o.vnode, o.set)
  <2>1. desc[e].vnode \in Paths /\ set[desc[e].vnode].vnode = desc[e].vnode
    BY <1>9 DEF OnPath
  <2>2. set[desc[e].vnode] # NoEntry
    BY <2>1, FilesAssumption, SMTT(40) DEF NoEntry, Vnodes
  <2>3. o.vnode[desc[e].vnode] = vnode[desc[e].vnode]
    BY <1>2, <2>1, <2>2
  <2>4. o.set[desc[e].vnode].vnode = desc[e].vnode
    BY <1>2, <2>1 DEF Filled
  <2> QED
    BY <1>9, <2>1, <2>3, <2>4 DEF OnPath
<1> HIDE DEF ds
<1>10. Descriptors(ds, o.vnode, o.set)
  BY <1>1, <1>5, <1>7, <1>8, <1>9, SMTT(40) DEF Descriptors
<1>11. ds[d].vnode = path
  BY <1>3, <1>8, SMTT(40)
<1>12. Used(ds, o.set)
  <2> SUFFICES ASSUME NEW q \in Paths, q # path, set[q] # NoEntry, ~(set[q].key \in {Mounted, Stale})
               PROVE  \E e \in Descs : ds[e].vnode = q
    BY <1>1, <1>2, <1>11 DEF Used
  <2>1. PICK e \in Descs : desc[e].vnode = q
    BY <1>1 DEF Used
  <2>2. e # d
    BY <2>1, <1>1, FilesAssumption, SMTT(40) DEF NoDesc, Vnodes
  <2> QED
    BY <2>1, <2>2, <1>8
<1> QED
  BY <1>2, <1>7, <1>8, <1>10, <1>11, <1>12 DEF OpensWell, o, ds
-----------------------------------------------------------------------------
(* What Running says under the invariant.                                  *)
LEMMA RunningFacts ==
  ASSUME FilesInv, Running
  PROVE  failed = None /\ Root \in mounts /\ stored \in -1 .. MaxSize
BY DEF FilesInv, Running

(* Steps other than pipe2 make no pipe end.                                *)
NoNewEnd == \A d \in FreeDescs : desc'[d].vnode # PipeEnd

(* A call that ends in BecomeOn and mounts nothing.                        *)
LEMMA BecomeOnStep ==
  ASSUME FilesInv, Running, NEW tab, NEW ds, NEW vs, NEW st, Shape(tab, ds, vs, st, mounts),
         NEW size \in -1 .. MaxSize, BecomeOn(size, tab, ds, vs, st), mounts' = mounts
  PROVE  FilesInv' /\ (NoNewEnd \/ \E d \in FreeDescs : ds[d].vnode = PipeEnd)
<1>1. Became(tab, ds, vs, st, mounts)
  BY RunningFacts, BecomeKeeps
<1>2. \A d \in FreeDescs : desc'[d] = NoDesc \/ desc'[d] = ds[d]
  BY <1>1 DEF Became, FreeDescs
<1>3. NoDesc.vnode # PipeEnd
  BY DEF NoDesc, None, PipeEnd
<1> QED
  BY <1>1, <1>2, <1>3, RunningFacts DEF FilesInv, Became, NoNewEnd

(* A call that ends in Become and mounts nothing.                          *)
LEMMA BecomeStep ==
  ASSUME FilesInv, Running, NEW tab, NEW ds, NEW vs, NEW st, Shape(tab, ds, vs, st, mounts),
         Become(tab, ds, vs, st), mounts' = mounts
  PROVE  FilesInv' /\ (NoNewEnd \/ \E d \in FreeDescs : ds[d].vnode = PipeEnd)
BY RunningFacts, BecomeOnStep DEF Become

(* A free FileDescriptor is none of a pipe's.                              *)
LEMMA FreeIsNoEnd == ~\E d \in FreeDescs : desc[d].vnode = PipeEnd
<1>1. NoDesc.vnode # PipeEnd
  BY DEF NoDesc, None, PipeEnd
<1> QED
  BY <1>1 DEF FreeDescs

(* The rows of the tables and what their slots hold.                       *)
LEMMA RowFacts ==
  ASSUME FilesInv, NEW p \in Procs
  PROVE  /\ table[p] \in Seq(SlotValues) /\ Len(table[p]) <= MaxFd /\ Len(table[p]) \in Nat
         /\ \A i \in DOMAIN table[p] : table[p][i] \in Descs => desc[table[p][i]] # NoDesc
BY SMTT(40) DEF FilesInv, Shape, Tables, Backed, SlotValues

(* A call that only changes the slots of one process.                      *)
LEMMA SlotStep ==
  ASSUME FilesInv, Running, NEW p \in Procs, NEW row \in Seq(SlotValues), Len(row) <= MaxFd,
         \A i \in DOMAIN row : row[i] \in Descs => desc[row[i]] # NoDesc,
         Become([table EXCEPT ![p] = row], desc, vnode, set), mounts' = mounts
  PROVE  FilesInv' /\ NoNewEnd
<1>1. Tables(table) /\ Backed(table, desc)
  BY DEF FilesInv, Shape
<1>2. Tables([table EXCEPT ![p] = row]) /\ Backed([table EXCEPT ![p] = row], desc)
  BY <1>1, RowKeeps
<1>3. Shape([table EXCEPT ![p] = row], desc, vnode, set, mounts)
  BY <1>2 DEF FilesInv, Shape
<1> QED
  BY <1>3, BecomeStep, FreeIsNoEnd

(* sys_openat, with room in the table or without.                          *)
LEMMA OpenAtKeeps ==
  ASSUME FilesInv, NEW p \in Procs, NEW path \in Paths, NEW creat \in BOOLEAN, NEW append \in BOOLEAN,
         OpenAt(p, path, creat, append)
  PROVE  FilesInv' /\ NoNewEnd
<1> DEFINE o == Opened(path)
           a == FdAllocFrom(table[p], Std + 1)
           size == IF path \in Names THEN SizeOf(path) ELSE stored
<1>1. PICK d \in FreeDescs :
        BecomeOn(size, Put(p, IF a.fd = 0 THEN a.tab ELSE [a.tab EXCEPT ![a.fd] = d]),
               [desc EXCEPT ![d] = Descriptor(o, append)], o.vnode, o.set)
  BY ZenonT(60) DEF OpenAt
<1>2. Running /\ mounts' = mounts /\ d \in Descs
  BY DEF OpenAt, Alive, FreeDescs
<1> DEFINE ds == [desc EXCEPT ![d] = Descriptor(o, append)]
           row == IF a.fd = 0 THEN a.tab ELSE [a.tab EXCEPT ![a.fd] = d]
<1>3. /\ Entries(o.vnode, o.set, mounts) /\ Descriptors(ds, o.vnode, o.set) /\ Used(ds, o.set)
      /\ ds[d].vnode = path /\ \A e \in Descs \ {d} : ds[e] = desc[e]
  BY OpenedWell DEF OpensWell
<1>4. Extends(table[p], a.tab) /\ (a.fd = 0 \/ a.fd \in 1 .. Len(a.tab))
  <2>1. Std + 1 \in Nat /\ Std + 1 > 0
    BY FilesAssumption, SMTT(40)
  <2>2. /\ Extends(table[p], a.tab)
        /\ a.fd = 0 \/ (a.fd \in Std + 1 .. Len(a.tab) /\ a.tab[a.fd] = None)
    BY <2>1, RowFacts, FdAllocated
  <2>3. Len(a.tab) \in Nat
    BY <2>2, SMTT(40) DEF Extends
  <2> HIDE DEF a
  <2> QED
    BY <2>1, <2>2, <2>3, SMTT(40)
<1>0. size \in -1 .. MaxSize
  <2>1. stored \in -1 .. MaxSize
    BY DEF FilesInv
  <2>2. SizeOf(path) \in -1 .. MaxSize
    BY <2>1, MaxOfTwo, FilesAssumption, SMTT(40) DEF SizeOf
  <2> QED
    BY <2>1, <2>2
<1> HIDE DEF o, a, ds, size
<1>5. ds[d] # NoDesc
  BY <1>3, FilesAssumption, SMTT(40) DEF NoDesc, Vnodes
<1>6. \A e \in Descs : desc[e] # NoDesc => ds[e] # NoDesc
  BY <1>3, <1>5
<1>7. \A i \in DOMAIN table[p] : table[p][i] \in Descs => ds[table[p][i]] # NoDesc
  BY <1>6, RowFacts
<1>8. /\ row \in Seq(SlotValues) /\ Len(row) <= MaxFd
      /\ \A i \in DOMAIN row : row[i] \in Descs => ds[row[i]] # NoDesc
  <2>1. CASE a.fd = 0
    <3>1. a.tab \in Seq(SlotValues) /\ DOMAIN a.tab = 1 .. Len(a.tab)
          /\ Len(table[p]) \in Nat /\ Len(a.tab) \in Nat /\ DOMAIN table[p] = 1 .. Len(table[p])
      BY <1>4, RowFacts, SMTT(40) DEF Extends
    <3>2. \A i \in DOMAIN a.tab : a.tab[i] = None \/ (i \in DOMAIN table[p] /\ a.tab[i] = table[p][i])
      BY <1>4, <3>1, SMTT(40) DEF Extends
    <3>3. \A i \in DOMAIN a.tab : a.tab[i] \in Descs => ds[a.tab[i]] # NoDesc
      BY <1>7, <3>2, FilesAssumption
    <3> QED
      BY <2>1, <3>1, <3>3, <1>4 DEF Extends
  <2>2. CASE a.fd # 0
    <3>1. row = [a.tab EXCEPT ![a.fd] = d] /\ a.fd \in 1 .. Len(a.tab) /\ d \in SlotValues
      BY <2>2, <1>2, <1>4 DEF SlotValues
    <3>2. table[p] \in Seq(SlotValues)
      BY RowFacts
    <3>3. LET r == [a.tab EXCEPT ![a.fd] = d]
          IN /\ r \in Seq(SlotValues) /\ Len(r) = Len(a.tab) /\ Len(r) <= MaxFd
             /\ \A i \in DOMAIN r : r[i] \in Descs => ds[r[i]] # NoDesc
      <4>1. d \in Descs => ds[d] # NoDesc
        BY <1>5
      <4>2. Extends(table[p], a.tab)
        BY <1>4
      <4> HIDE DEF row
      <4> QED
        BY ONLY <4>1, <4>2, <3>1, <3>2, <1>7, SetSlot
    <3> HIDE DEF row
    <3> QED
      BY <3>1, <3>3
  <2> QED
    BY <2>1, <2>2
<1> HIDE DEF row
<1>9. Tables([table EXCEPT ![p] = row]) /\ Backed([table EXCEPT ![p] = row], ds)
  <2>1. Tables(table) /\ Backed(table, desc)
    BY DEF FilesInv, Shape
  <2> QED
    BY <2>1, <1>6, <1>8, RowKeeps
<1>10. Shape(Put(p, row), ds, o.vnode, o.set, mounts)
  BY <1>3, <1>9 DEF Shape, Put
<1>11. BecomeOn(size, Put(p, row), ds, o.vnode, o.set)
  BY <1>1 DEF row, ds
<1>12. ~\E e \in FreeDescs : ds[e].vnode = PipeEnd
  BY <1>3, FreeIsNoEnd, FilesAssumption DEF FreeDescs, Vnodes
<1> QED
  BY <1>2, <1>10, <1>11, <1>12, <1>0, BecomeOnStep

(* sys_fstatat.                                                            *)
LEMMA FstatAtKeeps ==
  ASSUME FilesInv, NEW p \in Procs, NEW path \in Paths, FstatAt(p, path)
  PROVE  FilesInv' /\ NoNewEnd
<1> DEFINE o == Opened(path)
<1>1. PICK d \in FreeDescs :
        Become(table, [desc EXCEPT ![d] = Descriptor(o, FALSE)], o.vnode, o.set)
  BY ZenonT(60) DEF FstatAt
<1>2. Running /\ mounts' = mounts /\ d \in Descs
  BY DEF FstatAt, Alive, FreeDescs
<1> DEFINE ds == [desc EXCEPT ![d] = Descriptor(o, FALSE)]
<1>3. /\ Entries(o.vnode, o.set, mounts) /\ Descriptors(ds, o.vnode, o.set) /\ Used(ds, o.set)
      /\ ds[d].vnode = path /\ \A e \in Descs \ {d} : ds[e] = desc[e]
  BY OpenedWell DEF OpensWell
<1> HIDE DEF o, ds
<1>4. ds[d] # NoDesc
  BY <1>3, FilesAssumption, SMTT(40) DEF NoDesc, Vnodes
<1>5. Backed(table, ds) /\ Tables(table)
  BY <1>3, <1>4 DEF FilesInv, Shape, Backed
<1>6. Shape(table, ds, o.vnode, o.set, mounts)
  BY <1>3, <1>5 DEF Shape
<1>7. Become(table, ds, o.vnode, o.set)
  BY <1>1 DEF ds
<1>8. ~\E e \in FreeDescs : ds[e].vnode = PipeEnd
  BY <1>3, FreeIsNoEnd, FilesAssumption DEF FreeDescs, Vnodes
<1> QED
  BY <1>2, <1>6, <1>7, <1>8, BecomeStep

(* sys_close.                                                              *)
LEMMA CloseKeeps ==
  ASSUME FilesInv, NEW p \in Procs, NEW fd, Close(p, fd)
  PROVE  FilesInv' /\ NoNewEnd
<1> DEFINE row == [table[p] EXCEPT ![fd] = None]
<1>1. Running /\ mounts' = mounts /\ fd \in 1 .. Len(table[p])
  BY DEF Close, Alive, Holds, Slots
<1>2. Extends(table[p], table[p]) /\ None \in SlotValues /\ None \notin Descs
  BY RowFacts, FilesAssumption, SMTT(40) DEF Extends, SlotValues
<1>3. /\ row \in Seq(SlotValues) /\ Len(row) <= MaxFd
      /\ \A i \in DOMAIN row : row[i] \in Descs => desc[row[i]] # NoDesc
  BY <1>1, <1>2, RowFacts, SetSlot, SMTT(40)
<1>4. [table EXCEPT ![p][fd] = None] = [table EXCEPT ![p] = row]
  OBVIOUS
<1>5. Become([table EXCEPT ![p] = row], desc, vnode, set)
  BY <1>4 DEF Close
<1> HIDE DEF row
<1> QED
  BY <1>1, <1>3, <1>5, SlotStep

(* sys_dup and F_DUPFD.                                                    *)
LEMMA DupFromKeeps ==
  ASSUME FilesInv, NEW p \in Procs, NEW fd, NEW min \in Std + 1 .. MaxFd, DupFrom(p, fd, min)
  PROVE  FilesInv' /\ NoNewEnd
<1> DEFINE a == FdAllocFrom(table[p], min)
           row == [a.tab EXCEPT ![a.fd] = table[p][fd]]
<1>1. Running /\ mounts' = mounts /\ fd \in DOMAIN table[p] /\ a.fd # 0
  BY RowFacts, SMTT(40) DEF DupFrom, Alive, Holds, Slots
<1>2. Become([table EXCEPT ![p] = row], desc, vnode, set)
  BY ZenonT(60) DEF DupFrom, Put
<1>3. Extends(table[p], a.tab) /\ a.fd \in 1 .. Len(a.tab)
  <2>1. min \in Nat /\ min > 0
    BY FilesAssumption, SMTT(40)
  <2>2. /\ Extends(table[p], a.tab)
        /\ a.fd = 0 \/ (a.fd \in min .. Len(a.tab) /\ a.tab[a.fd] = None)
    BY <2>1, RowFacts, FdAllocated
  <2>3. Len(a.tab) \in Nat
    BY <2>2, SMTT(40) DEF Extends
  <2> HIDE DEF a
  <2> QED
    BY <1>1, <2>1, <2>2, <2>3, SMTT(40)
<1> HIDE DEF a
<1>4. table[p][fd] \in SlotValues /\ (table[p][fd] \in Descs => desc[table[p][fd]] # NoDesc)
  BY <1>1, RowFacts, SMTT(40)
<1>5. /\ row \in Seq(SlotValues) /\ Len(row) <= MaxFd
      /\ \A i \in DOMAIN row : row[i] \in Descs => desc[row[i]] # NoDesc
  BY <1>3, <1>4, RowFacts, SetSlot, SMTT(40)
<1> HIDE DEF row
<1> QED
  BY <1>1, <1>2, <1>5, SlotStep

(* sys_dup3, which closes what the new number held.                        *)
LEMMA Dup3Keeps ==
  ASSUME FilesInv, NEW p \in Procs, NEW fd, NEW newfd \in 1 .. MaxFd, Dup3(p, fd, newfd)
  PROVE  FilesInv' /\ NoNewEnd
<1> DEFINE grown == table[p] \o [i \in 1 .. newfd - Len(table[p]) |-> None]
           row == [grown EXCEPT ![newfd] = table[p][fd]]
<1>1. Running /\ mounts' = mounts /\ fd \in DOMAIN table[p]
  BY RowFacts, SMTT(40) DEF Dup3, Alive, OpenAs, Holds, Slots
<1>2. Become([table EXCEPT ![p] = row], desc, vnode, set)
  BY ZenonT(60) DEF Dup3, Put
<1>3. Extends(table[p], grown) /\ newfd \in 1 .. Len(grown)
  <2>1. newfd \in Nat /\ newfd <= MaxFd /\ newfd >= 1 /\ Len(table[p]) \in Nat
    BY RowFacts, FilesAssumption, SMTT(40)
  <2>2. Extends(table[p], grown) /\ (Len(table[p]) <= newfd => Len(grown) = newfd)
    BY <2>1, RowFacts, GrowTable
  <2> HIDE DEF grown
  <2>3. Len(grown) \in Nat /\ Len(table[p]) <= Len(grown)
    BY <2>2, SMTT(40) DEF Extends
  <2> QED
    BY <2>1, <2>2, <2>3, SMTT(40)
<1> HIDE DEF grown
<1>4. table[p][fd] \in SlotValues /\ (table[p][fd] \in Descs => desc[table[p][fd]] # NoDesc)
  BY <1>1, RowFacts, SMTT(40)
<1>5. /\ row \in Seq(SlotValues) /\ Len(row) <= MaxFd
      /\ \A i \in DOMAIN row : row[i] \in Descs => desc[row[i]] # NoDesc
  BY <1>3, <1>4, RowFacts, SetSlot, SMTT(40)
<1> HIDE DEF row
<1> QED
  BY <1>1, <1>2, <1>5, SlotStep

(* The last thread of a process goes, and its table with it.               *)
LEMMA ExitKeeps ==
  ASSUME FilesInv, NEW p \in Procs, Exit(p)
  PROVE  FilesInv' /\ NoNewEnd
<1>1. Running /\ mounts' = mounts /\ Become([table EXCEPT ![p] = <<>>], desc, vnode, set)
  BY DEF Exit, Alive
<1>2. <<>> \in Seq(SlotValues) /\ Len(<<>>) <= MaxFd /\ DOMAIN <<>> = {}
  BY FilesAssumption, SMTT(40)
<1> QED
  BY <1>1, <1>2, SlotStep

(* sys_pipe2: the new table holds both ends or none.                       *)
LEMMA PipeRow ==
  ASSUME FilesInv, NEW p \in Procs, NEW d \in FreeDescs, NEW e \in FreeDescs, d # e, NEW ds,
         ds[d] # NoDesc, ds[e] # NoDesc, \A x \in Descs : desc[x] # NoDesc => ds[x] # NoDesc
  PROVE  LET row == PipeTable(table[p], d, e)
         IN /\ row \in Seq(SlotValues) /\ Len(row) <= MaxFd
            /\ \A i \in DOMAIN row : row[i] \in Descs => ds[row[i]] # NoDesc
            /\ d \in Range(row) <=> e \in Range(row)
<1> DEFINE tab == table[p]
           r == FdAllocFrom(tab, Std + 1)
           t1 == [r.tab EXCEPT ![r.fd] = d]
           w == FdAllocFrom(t1, Std + 1)
           row == PipeTable(tab, d, e)
<1>1. /\ Std + 1 \in Nat /\ Std + 1 > 0 /\ d \in Descs /\ e \in Descs /\ None \notin Descs
      /\ None \in SlotValues /\ d \in SlotValues /\ e \in SlotValues /\ d # None /\ e # None
  BY FilesAssumption, SMTT(40) DEF FreeDescs, SlotValues
<1>2. /\ tab \in Seq(SlotValues) /\ Len(tab) <= MaxFd /\ Len(tab) \in Nat /\ DOMAIN tab = 1 .. Len(tab)
      /\ \A i \in DOMAIN tab : tab[i] \in Descs => ds[tab[i]] # NoDesc
      /\ \A i \in DOMAIN tab : tab[i] # d /\ tab[i] # e
  BY <1>1, RowFacts, SMTT(40) DEF FreeDescs
<1>3. /\ Extends(tab, r.tab)
      /\ r.fd = 0 \/ (r.fd \in Std + 1 .. Len(r.tab) /\ r.tab[r.fd] = None)
  BY <1>1, <1>2, FdAllocated
<1>4. row = IF r.fd = 0 THEN r.tab ELSE IF w.fd = 0 THEN [t1 EXCEPT ![r.fd] = None]
            ELSE [w.tab EXCEPT ![w.fd] = e]
  BY ZenonT(60) DEF PipeTable
<1> HIDE DEF tab, r, row
<1>5. r.tab \in Seq(SlotValues) /\ Len(r.tab) \in Nat /\ Len(r.tab) <= MaxFd /\ DOMAIN r.tab = 1 .. Len(r.tab)
  BY <1>3, SMTT(40) DEF Extends
<1>6. \A i \in DOMAIN r.tab : r.tab[i] = None \/ (i \in DOMAIN tab /\ r.tab[i] = tab[i])
  BY <1>2, <1>3, <1>5, SMTT(40) DEF Extends
<1>7. \A i \in DOMAIN r.tab : /\ r.tab[i] \in Descs => ds[r.tab[i]] # NoDesc
                              /\ r.tab[i] # d /\ r.tab[i] # e
  BY <1>1, <1>2, <1>6
<1>8. CASE r.fd = 0
  BY <1>4, <1>5, <1>7, <1>8 DEF Range, row, tab
<1>9. CASE r.fd # 0
  <2>1. r.fd \in 1 .. Len(r.tab)
    BY <1>1, <1>3, <1>5, <1>9, SMTT(40)
  <2>2. /\ t1 \in Seq(SlotValues) /\ Len(t1) = Len(r.tab) /\ DOMAIN t1 = 1 .. Len(r.tab)
        /\ \A i \in DOMAIN t1 : t1[i] = IF i = r.fd THEN d ELSE r.tab[i]
    BY <2>1, <1>1, <1>5, SMTT(40)
  <2>3. \A i \in DOMAIN t1 : t1[i] \in Descs => ds[t1[i]] # NoDesc
    BY <2>2, <1>5, <1>7
  <2>4. \A i \in DOMAIN t1 : t1[i] # e
    BY <2>2, <1>5, <1>7
  <2>5. Len(t1) <= MaxFd /\ Len(t1) \in Nat
    BY <2>2, <1>5
  <2>6. /\ Extends(t1, w.tab)
        /\ w.fd = 0 \/ (w.fd \in Std + 1 .. Len(w.tab) /\ w.tab[w.fd] = None)
    BY <2>2, <2>5, <1>1, FdAllocated
  <2> HIDE DEF w, t1
  <2>7. CASE w.fd = 0
    <3> DEFINE back == [t1 EXCEPT ![r.fd] = None]
    <3>1. row = back
      BY <2>7, <1>4, <1>9
    <3>2. /\ back \in Seq(SlotValues) /\ Len(back) = Len(r.tab) /\ DOMAIN back = 1 .. Len(r.tab)
          /\ \A i \in DOMAIN back : back[i] = IF i = r.fd THEN None ELSE r.tab[i]
      BY <2>1, <2>2, <1>1, SMTT(40)
    <3> HIDE DEF back
    <3>3. \A i \in DOMAIN back : back[i] \in Descs => ds[back[i]] # NoDesc
      BY <3>2, <1>1, <1>5, <1>7
    <3>4. \A i \in DOMAIN back : back[i] # d /\ back[i] # e
      BY <3>2, <1>1, <1>5, <1>7
    <3> QED
      BY <3>1, <3>2, <3>3, <3>4, <1>5 DEF Range, row, tab
  <2>8. CASE w.fd # 0
    <3> DEFINE both == [w.tab EXCEPT ![w.fd] = e]
    <3>1. row = both
      BY <2>8, <1>4, <1>9
    <3>2. w.tab \in Seq(SlotValues) /\ Len(w.tab) \in Nat /\ Len(w.tab) <= MaxFd /\ Len(t1) <= Len(w.tab)
      BY <2>6, SMTT(40) DEF Extends
    <3>3. w.fd \in 1 .. Len(w.tab) /\ w.tab[w.fd] = None
      BY <2>6, <2>8, <3>2, <1>1, SMTT(40)
    <3>4. /\ both \in Seq(SlotValues) /\ Len(both) = Len(w.tab) /\ DOMAIN both = 1 .. Len(w.tab)
          /\ \A i \in DOMAIN both : both[i] = IF i = w.fd THEN e ELSE w.tab[i]
      BY <3>2, <3>3, <1>1, SMTT(40)
    <3> HIDE DEF both
    <3>5. \A i \in 1 .. Len(w.tab) : w.tab[i] = None \/ (i \in DOMAIN t1 /\ w.tab[i] = t1[i])
      BY <2>2, <2>5, <2>6, <3>2, SMTT(40) DEF Extends
    <3>6. \A i \in DOMAIN both : both[i] \in Descs => ds[both[i]] # NoDesc
      BY <3>4, <3>5, <2>3, <1>1
    <3>7. w.tab[r.fd] = d /\ r.fd \in 1 .. Len(w.tab)
      BY <2>1, <2>2, <2>5, <2>6, <3>2, SMTT(40) DEF Extends
    <3>8. both[r.fd] = d /\ both[w.fd] = e
      BY <3>3, <3>4, <3>7, <1>1
    <3>9. d \in Range(both) /\ e \in Range(both)
      BY <3>3, <3>4, <3>7, <3>8 DEF Range
    <3> QED
      BY <3>1, <3>2, <3>4, <3>6, <3>9 DEF row, tab
  <2> QED
    BY <2>7, <2>8
<1> QED
  BY <1>8, <1>9

(* sys_pipe2: what is new afterwards is both ends or neither.              *)
LEMMA Pipe2Keeps ==
  ASSUME FilesInv, NEW p \in Procs, Pipe2(p)
  PROVE  /\ FilesInv'
         /\ Cardinality({d \in FreeDescs : desc'[d].vnode = PipeEnd}) # 1
<1> DEFINE Ends(d, e) ==
             [x \in Descs |-> IF x \in {d, e} THEN [NoDesc EXCEPT !.vnode = PipeEnd] ELSE desc[x]]
<1>1. PICK d \in FreeDescs, e \in FreeDescs :
        d # e /\ Become(Put(p, PipeTable(table[p], d, e)), Ends(d, e), vnode, set)
  BY ZenonT(60) DEF Pipe2
<1> DEFINE ds == Ends(d, e)
           row == PipeTable(table[p], d, e)
           pipe == [vnode |-> PipeEnd, pos |-> 0]
<1>2. Running /\ mounts' = mounts /\ d \in Descs /\ e \in Descs /\ desc[d] = NoDesc /\ desc[e] = NoDesc
  BY DEF Pipe2, Alive, FreeDescs
<1>3. [NoDesc EXCEPT !.vnode = PipeEnd] = pipe /\ pipe # NoDesc
  <2>1. [NoDesc EXCEPT !.vnode = PipeEnd] = pipe
    BY SMTT(40) DEF NoDesc
  <2>2. pipe.vnode # NoDesc.vnode
    BY DEF NoDesc, PipeEnd, None
  <2> QED
    BY <2>1, <2>2
<1>4. \A x \in Descs : ds[x] = IF x = d \/ x = e THEN pipe ELSE desc[x]
  BY <1>3
<1>5. Shape(table, desc, vnode, set, mounts)
  BY DEF FilesInv
<1>6. Descriptors(ds, vnode, set)
  <2>1. pipe \in [vnode : Vnodes \cup {None, PipeEnd}, pos : 0 .. MaxSize]
    BY FilesAssumption, SMTT(40)
  <2>2. ds \in [Descs -> [vnode : Vnodes \cup {None, PipeEnd}, pos : 0 .. MaxSize]]
    BY <1>3, <1>5, <2>1 DEF Shape, Descriptors
  <2> HIDE DEF ds
  <2> QED
    BY <2>2, <1>4, <1>5 DEF Shape, Descriptors, OnPipe
<1> HIDE DEF ds
<1>7. Used(ds, set)
  <2>1. \A x \in Descs : desc[x].vnode \in Paths => ds[x] = desc[x]
    BY <1>2, <1>4, FilesAssumption, SMTT(40) DEF NoDesc, Vnodes
  <2> QED
    BY <2>1, <1>5 DEF Shape, Used
<1>8. ds[d] # NoDesc /\ ds[e] # NoDesc /\ \A x \in Descs : desc[x] # NoDesc => ds[x] # NoDesc
  BY <1>2, <1>3, <1>4
<1>9. /\ row \in Seq(SlotValues) /\ Len(row) <= MaxFd
      /\ \A i \in DOMAIN row : row[i] \in Descs => ds[row[i]] # NoDesc
      /\ d \in Range(row) <=> e \in Range(row)
  BY <1>1, <1>8, PipeRow
<1> HIDE DEF row
<1>10. Tables([table EXCEPT ![p] = row]) /\ Backed([table EXCEPT ![p] = row], ds)
  <2>1. Tables(table) /\ Backed(table, desc)
    BY <1>5 DEF Shape
  <2> QED
    BY <2>1, <1>8, <1>9, RowKeeps
<1>11. Shape(Put(p, row), ds, vnode, set, mounts)
  BY <1>5, <1>6, <1>7, <1>10 DEF Shape, Put
<1>12. Become(Put(p, row), ds, vnode, set)
  BY <1>1 DEF row, ds
<1>13. Became(Put(p, row), ds, vnode, set, mounts)
  BY <1>2, <1>11, <1>12, RunningFacts, BecomeKeeps DEF Become
<1>14. \A q \in Procs \ {p} : d \notin Range(table[q]) /\ e \notin Range(table[q])
  BY <1>2, <1>5 DEF Shape, Backed, Range
<1>15. d \in Dead(Put(p, row), ds) <=> e \in Dead(Put(p, row), ds)
  <2>1. /\ Put(p, row)[p] = row
        /\ \A q \in Procs \ {p} : Put(p, row)[q] = table[q]
    BY <1>5 DEF Put, Shape, Tables
  <2> QED
    BY <2>1, <1>2, <1>8, <1>9, <1>14 DEF Dead
<1>16. \A x \in Descs : desc'[x] = IF x \in Dead(Put(p, row), ds) THEN NoDesc ELSE ds[x]
  BY <1>13 DEF Became
<1> DEFINE new == {x \in FreeDescs : desc'[x].vnode = PipeEnd}
<1>17. NoDesc.vnode # PipeEnd /\ pipe.vnode = PipeEnd
  BY DEF NoDesc, None, PipeEnd
<1>18. new = {} \/ (d \in new /\ e \in new)
  <2>1. \A x \in FreeDescs \ {d, e} : desc'[x].vnode # PipeEnd
    BY <1>4, <1>16, <1>17 DEF FreeDescs
  <2>2. CASE d \in Dead(Put(p, row), ds)
    BY <2>1, <2>2, <1>2, <1>15, <1>16, <1>17
  <2>3. CASE d \notin Dead(Put(p, row), ds)
    BY <2>3, <1>1, <1>2, <1>4, <1>15, <1>16, <1>17
  <2> QED
    BY <2>2, <2>3
<1>19. Cardinality(new) # 1
  <2>1. IsFiniteSet(new)
    BY FilesAssumption, FS_Subset DEF FreeDescs
  <2> HIDE DEF new
  <2> QED
    BY <2>1, <1>1, <1>18, FS_EmptySet, FS_Singleton, SMTT(40)
<1> QED
  BY <1>2, <1>11, <1>12, <1>19, BecomeStep

(* Process::fork.                                                          *)
LEMMA ForkKeeps ==
  ASSUME FilesInv, NEW p \in Procs, NEW q \in Procs, Fork(p, q)
  PROVE  FilesInv' /\ NoNewEnd
<1>1. /\ table' = [table EXCEPT ![q] = table[p]] /\ table[q] = <<>>
      /\ UNCHANGED <<desc, vnode, set, mounts, stored, failed>>
  BY DEF Fork
<1>2. Tables(table) /\ Backed(table, desc)
  BY DEF FilesInv, Shape
<1>3. /\ table[p] \in Seq(SlotValues) /\ Len(table[p]) <= MaxFd
      /\ \A i \in DOMAIN table[p] : table[p][i] \in Descs => desc[table[p][i]] # NoDesc
  BY RowFacts
<1>4. Tables(table') /\ Backed(table', desc)
  BY <1>1, <1>2, <1>3, RowKeeps
<1>5. Dead(table', desc) = {}
  <2> SUFFICES ASSUME NEW d \in Descs, desc[d] # NoDesc
               PROVE  \E x \in Procs : d \in Range(table'[x])
    BY DEF Dead
  <2>1. PICK x \in Procs : d \in Range(table[x])
    BY DEF FilesInv, Dead
  <2>2. x # q
    BY <2>1, <1>1, SMTT(40) DEF Range
  <2>3. table'[x] = table[x]
    BY <2>2, <1>1, <1>2 DEF Tables
  <2> QED
    BY <2>1, <2>3
<1>6. NoNewEnd
  BY <1>1, FreeIsNoEnd DEF NoNewEnd
<1> QED
  BY <1>1, <1>4, <1>5, <1>6 DEF FilesInv, Shape

(* A position moves on, and the size of the file with it where it must.    *)
LEMMA MovedKeeps ==
  ASSUME FilesInv, NEW f \in Names, NEW d \in Descs, desc[d].vnode = f, NEW n \in Nat, desc' = Moved(d, n),
         vnode' \in [Vnodes -> [path : Paths, size : -1 .. MaxSize, dirty : BOOLEAN]],
         \A v \in Vnodes \ {f} : vnode'[v] = vnode[v],
         vnode'[f].path = f, vnode[f].size <= vnode'[f].size,
         desc[d].pos + n <= vnode'[f].size,
         UNCHANGED <<table, set, mounts, stored, failed>>
  PROVE  FilesInv' /\ NoNewEnd
<1>1. Shape(table, desc, vnode, set, mounts)
  BY DEF FilesInv
<1>2. Descriptors(desc, vnode, set) /\ Entries(vnode, set, mounts) /\ f \in Paths /\ f \in Vnodes
  BY <1>1 DEF Shape, Paths, Vnodes
<1>3. OnPath(desc[d], vnode, set) /\ Filled(f, vnode, set, mounts)
  <2>1. OnPath(desc[d], vnode, set)
    BY <1>2, FilesAssumption, SMTT(40) DEF Descriptors, OnPipe, NoDesc
  <2>2. set[f] # NoEntry
    BY <2>1, <1>2, FilesAssumption, SMTT(40) DEF OnPath, NoEntry
  <2> QED
    BY <2>1, <2>2, <1>2 DEF Entries, Empty
<1>4. /\ desc[d].pos \in Nat /\ vnode[f].size \in Nat /\ vnode'[f].size \in Int
      /\ vnode'[f].size <= MaxSize /\ desc[d].pos + n \in 0 .. MaxSize
  <2>1. desc[d].pos \in Nat /\ vnode[f].size \in Nat
    BY <1>3, FilesAssumption, SMTT(40) DEF OnPath, Filled
  <2>2. vnode'[f].size \in -1 .. MaxSize
    BY <1>2
  <2> QED
    BY <2>1, <2>2, FilesAssumption, SMTT(40)
<1> DEFINE moved == [vnode |-> f, pos |-> desc[d].pos + n]
<1>5. /\ desc' \in [Descs -> [vnode : Vnodes \cup {None, PipeEnd}, pos : 0 .. MaxSize]]
      /\ \A e \in Descs : desc'[e] = IF e = d THEN moved ELSE desc[e]
  <2>1. desc[d] \in [vnode : Vnodes \cup {None, PipeEnd}, pos : 0 .. MaxSize]
    BY <1>2 DEF Descriptors
  <2>2. [desc[d] EXCEPT !.pos = @ + n] = moved
    BY <2>1, SMTT(40)
  <2>3. desc' = [desc EXCEPT ![d] = moved]
    BY <2>2 DEF Moved
  <2>4. moved \in [vnode : Vnodes \cup {None, PipeEnd}, pos : 0 .. MaxSize]
    BY <1>2, <1>4
  <2> HIDE DEF moved
  <2> QED
    BY <2>3, <2>4, <1>2 DEF Descriptors
<1>6. moved.vnode = f /\ moved.pos = desc[d].pos + n /\ moved # NoDesc /\ desc[d] # NoDesc
  <2>1. moved.vnode = f /\ moved.pos = desc[d].pos + n
    OBVIOUS
  <2>2. NoDesc.vnode # f
    BY <1>2, FilesAssumption DEF NoDesc
  <2> QED
    BY <2>1, <2>2
<1> HIDE DEF moved
<1>7. \A e \in Descs : /\ desc'[e].vnode = desc[e].vnode
                       /\ desc'[e] = NoDesc <=> desc[e] = NoDesc
  BY <1>5, <1>6
<1>8. Descriptors(desc', vnode', set')
  <2> SUFFICES ASSUME NEW e \in Descs
               PROVE  desc'[e] = NoDesc \/ OnPipe(desc'[e]) \/ OnPath(desc'[e], vnode', set')
    BY <1>5 DEF Descriptors
  <2>1. CASE e = d
    BY <2>1, <1>2, <1>3, <1>4, <1>5, <1>6 DEF OnPath
  <2>2. CASE e # d /\ OnPath(desc[e], vnode, set)
    <3>1. desc[e].pos \in Nat /\ desc'[e] = desc[e]
      BY <2>2, <1>5, FilesAssumption, SMTT(40) DEF OnPath
    <3>2. desc[e].vnode = f => desc[e].pos <= vnode'[f].size
      BY <2>2, <3>1, <1>4, SMTT(40) DEF OnPath
    <3>3. desc[e].vnode \in Vnodes /\ (desc[e].vnode # f => vnode'[desc[e].vnode] = vnode[desc[e].vnode])
      BY <2>2 DEF OnPath, Vnodes
    <3>4. desc[e].vnode \in Names => desc[e].pos <= vnode'[desc[e].vnode].size
      BY <2>2, <3>2, <3>3 DEF OnPath
    <3> QED
      BY <2>2, <3>1, <3>4 DEF OnPath
  <2>3. CASE e # d /\ (desc[e] = NoDesc \/ OnPipe(desc[e]))
    BY <2>3, <1>5
  <2> QED
    BY <2>1, <2>2, <2>3, <1>2 DEF Descriptors
<1>9. Entries(vnode', set', mounts')
  <2>1. Filled(f, vnode', set', mounts')
    BY <1>3, <1>4, SMTT(40) DEF Filled
  <2>2. \A path \in Paths \ {f} : vnode'[path] = vnode[path]
    BY DEF Vnodes
  <2>3. \A v \in Vnodes \ Paths : vnode'[v] = NoVnode
    BY <1>2 DEF Entries
  <2>4. ASSUME NEW path \in Paths, path # f
        PROVE  Empty(path, vnode', set') \/ Filled(path, vnode', set', mounts')
    BY <2>2, <2>4, <1>2 DEF Entries, Empty, Filled
  <2> QED
    BY <2>1, <2>3, <2>4, <1>2 DEF Entries
<1>10. Used(desc', set') /\ Tables(table') /\ Backed(table', desc')
  <2>1. Used(desc', set')
    BY <1>1, <1>7 DEF Shape, Used
  <2>2. Backed(table', desc')
    BY <1>1, <1>7 DEF Shape, Backed
  <2> QED
    BY <1>1, <2>1, <2>2 DEF Shape
<1>11. Dead(table', desc') = {}
  BY <1>7 DEF FilesInv, Dead
<1>12. NoNewEnd
  BY <1>7, FreeIsNoEnd DEF NoNewEnd, FreeDescs
<1>13. Shape(table', desc', vnode', set', mounts')
  BY <1>8, <1>9, <1>10 DEF Shape
<1> QED
  BY <1>11, <1>12, <1>13 DEF FilesInv

(* The FileDescriptor that a read or a write goes through.                 *)
LEMMA OnFileFacts ==
  ASSUME FilesInv, NEW p \in Procs, NEW fd, OnFile(p, fd)
  PROVE  LET d == table[p][fd]
             f == desc[d].vnode
         IN /\ d \in Descs /\ f \in Names /\ f \in Vnodes
            /\ vnode \in [Vnodes -> [path : Paths, size : -1 .. MaxSize, dirty : BOOLEAN]]
            /\ desc[d].pos \in Nat /\ vnode[f].path = f /\ vnode[f].size \in 0 .. MaxSize
            /\ desc[d].pos <= vnode[f].size
<1> DEFINE d == table[p][fd]
           f == desc[d].vnode
<1>1. /\ d \in Descs /\ f \in Vnodes /\ vnode[f].path \in Names
      /\ Descriptors(desc, vnode, set) /\ Entries(vnode, set, mounts)
  BY DEF OnFile, FilesInv, Shape
<1> HIDE DEF d
<1>2. vnode[f].path = f /\ f \in Paths /\ f \in Names /\ set[f].vnode = f
  BY <1>1, HeldInSet, SMTT(40)
<1>3. OnPath(desc[d], vnode, set)
  BY <1>1, <1>2, FilesAssumption, SMTT(40) DEF Descriptors, OnPipe, NoDesc
<1>4. set[f] # NoEntry
  BY <1>1, <1>2, FilesAssumption, SMTT(40) DEF NoEntry
<1>5. Filled(f, vnode, set, mounts)
  BY <1>1, <1>2, <1>4 DEF Entries, Empty
<1>6. vnode \in [Vnodes -> [path : Paths, size : -1 .. MaxSize, dirty : BOOLEAN]]
  BY <1>1 DEF Entries
<1>7. desc[d].pos \in Nat /\ vnode[f].size \in 0 .. MaxSize /\ desc[d].pos <= vnode[f].size
  BY <1>2, <1>3, <1>5, FilesAssumption, SMTT(40) DEF OnPath, Filled
<1> QED
  BY <1>1, <1>2, <1>6, <1>7 DEF d

(* FileDescriptor::read.                                                   *)
LEMMA ReadKeeps ==
  ASSUME FilesInv, NEW p \in Procs, NEW fd, NEW n \in 1 .. MaxSize, Read(p, fd, n)
  PROVE  FilesInv' /\ NoNewEnd
<1> DEFINE d == table[p][fd]
           f == desc[d].vnode
<1>1. /\ OnFile(p, fd) /\ n <= vnode[desc[d].vnode].size - desc[d].pos /\ desc' = Moved(d, n)
      /\ UNCHANGED <<table, vnode, set, mounts, stored, failed>>
  BY DEF Read
<1>2. /\ d \in Descs /\ f \in Names /\ f \in Vnodes
      /\ vnode \in [Vnodes -> [path : Paths, size : -1 .. MaxSize, dirty : BOOLEAN]]
      /\ desc[d].pos \in Nat /\ vnode[f].path = f /\ vnode[f].size \in 0 .. MaxSize
  BY <1>1, OnFileFacts
<1> HIDE DEF d
<1>3. n \in Nat /\ desc[d].pos + n <= vnode[f].size /\ vnode[f].size <= vnode[f].size
  BY <1>1, <1>2, FilesAssumption, SMTT(40)
<1> QED
  BY <1>1, <1>2, <1>3, MovedKeeps

(* FileDescriptor::write, which extends the file when it passes its end.   *)
LEMMA WriteKeeps ==
  ASSUME FilesInv, NEW p \in Procs, NEW fd, NEW n \in 1 .. MaxSize, Write(p, fd, n)
  PROVE  FilesInv' /\ NoNewEnd
<1> DEFINE d == table[p][fd]
           f == desc[d].vnode
<1>1. OnFile(p, fd)
  BY DEF Write
<1>2. /\ d \in Descs /\ f \in Names /\ f \in Vnodes
      /\ vnode \in [Vnodes -> [path : Paths, size : -1 .. MaxSize, dirty : BOOLEAN]]
      /\ desc[d].pos \in Nat /\ vnode[f].path = f /\ vnode[f].size \in 0 .. MaxSize
      /\ desc[d].pos <= vnode[f].size
  BY <1>1, OnFileFacts
<1> DEFINE at == Min({desc[d].pos, vnode[f].size})
           size == Max({vnode[f].size, at + n})
           dirty == vnode[f].dirty \/ at + n > vnode[f].size
<1>3. /\ desc[d].pos + n <= MaxSize /\ desc' = Moved(d, n)
      /\ vnode' = [vnode EXCEPT ![f] = [path |-> vnode[f].path, size |-> size, dirty |-> dirty]]
      /\ UNCHANGED <<table, set, mounts, stored, failed>>
  BY <1>2 DEF Write
<1> HIDE DEF d
<1>4. n \in Nat /\ MaxSize \in Nat
  BY FilesAssumption, SMTT(40)
<1>5. at = desc[d].pos
  BY <1>2, MinOfTwo, SMTT(40)
<1> HIDE DEF at
<1>6. size = IF vnode[f].size >= desc[d].pos + n THEN vnode[f].size ELSE desc[d].pos + n
  BY <1>2, <1>4, <1>5, MaxOfTwo, SMTT(40)
<1> HIDE DEF size
<1>7. size \in 0 .. MaxSize /\ vnode[f].size <= size /\ desc[d].pos + n <= size
  BY <1>2, <1>3, <1>4, <1>6, SMTT(40)
<1> DEFINE rec == [path |-> f, size |-> size, dirty |-> dirty]
<1>0. dirty \in BOOLEAN
  BY <1>2
<1> HIDE DEF dirty
<1>8. rec \in [path : Paths, size : -1 .. MaxSize, dirty : BOOLEAN] /\ rec.path = f /\ rec.size = size
  <2>1. f \in Paths /\ size \in -1 .. MaxSize
    BY <1>2, <1>7, SMTT(40) DEF Paths
  <2> QED
    BY <2>1, <1>0
<1>9. vnode' = [vnode EXCEPT ![f] = rec]
  BY <1>2, <1>3
<1> HIDE DEF rec
<1>10. /\ vnode' \in [Vnodes -> [path : Paths, size : -1 .. MaxSize, dirty : BOOLEAN]]
       /\ \A v \in Vnodes \ {f} : vnode'[v] = vnode[v]
       /\ vnode'[f] = rec
  BY <1>2, <1>8, <1>9
<1>11. vnode'[f].path = f /\ vnode'[f].size = size
  BY <1>8, <1>10
<1> QED
  BY <1>2, <1>3, <1>4, <1>7, <1>10, <1>11, MovedKeeps

(* The file is removed from its directory while it is closed.              *)
LEMMA UnlinkKeeps ==
  ASSUME FilesInv, Unlink
  PROVE  FilesInv' /\ NoNewEnd
<1>1. stored' = -1 /\ UNCHANGED <<table, desc, vnode, set, mounts, failed>>
  BY DEF Unlink
<1>2. stored' \in -1 .. MaxSize
  BY <1>1, FilesAssumption, SMTT(40)
<1>3. NoNewEnd
  BY <1>1, FreeIsNoEnd DEF NoNewEnd
<1> QED
  BY <1>1, <1>2, <1>3 DEF FilesInv

(* normalize_path fails at a slot without a descriptor.                    *)
LEMMA NoDirfdKeeps ==
  ASSUME FilesInv, NEW p \in Procs, NEW fd, NoDirfd(p, fd)
  PROVE  FilesInv' /\ NoNewEnd
<1>1. failed' = Dirfd /\ Dirfd # None /\ UNCHANGED <<table, desc, vnode, set, mounts, stored>>
  BY DEF NoDirfd, Dirfd, None
<1>2. NoNewEnd
  BY <1>1, FreeIsNoEnd DEF NoNewEnd
<1> QED
  BY <1>1, <1>2 DEF FilesInv

(* mount, of a directory nobody has open: it has no entry yet, and the     *)
(* entry that is made owns its key until umount.                           *)
LEMMA MountKeeps ==
  ASSUME FilesInv, OpenOn(Dir) = {}, Mount
  PROVE  FilesInv' /\ NoNewEnd
<1> DEFINE mo == mounts \cup {Dir}
           rec == [path |-> Dir, size |-> 0, dirty |-> FALSE]
           entry == [vnode |-> Dir, key |-> Mounted]
           vs == [vnode EXCEPT ![Dir] = rec]
           st == [set EXCEPT ![Dir] = entry]
<1>1. Running /\ Dir \notin mounts /\ mounts' = mo
  BY DEF Mount
<1>2. /\ Tables(table) /\ Backed(table, desc) /\ Descriptors(desc, vnode, set)
      /\ Entries(vnode, set, mounts) /\ Used(desc, set)
      /\ Dir \in Paths /\ Dir \in Vnodes /\ Paths \subseteq Vnodes
  BY DEF FilesInv, Shape, Paths, Vnodes
<1>3. set[Dir] = NoEntry /\ vnode[Dir] = NoVnode
  <2> SUFFICES ASSUME Filled(Dir, vnode, set, mounts) PROVE FALSE
    BY <1>2 DEF Entries, Empty
  <2>1. set[Dir].key # Stale
    BY <1>1, <1>2 DEF Running
  <2>2. set[Dir].key = Dir
    BY <1>1, <2>1 DEF Filled, KeyOf
  <2>3. set[Dir] # NoEntry
    BY <2>2, <1>2, FilesAssumption, SMTT(40) DEF NoEntry
  <2>4. PICK d \in Descs : desc[d].vnode = Dir
    BY <2>2, <2>3, <1>2, FilesAssumption DEF Used
  <2> QED
    BY <2>4, <1>2 DEF OpenOn, Filled
<1>4. Become(table, desc, vs, st)
  <2>1. NewVnode(Dir) = Dir /\ ~Found(Dir)
    BY <1>3 DEF NewVnode, Found
  <2> QED
    BY <2>1 DEF Mount
<1>5. /\ \A v \in Vnodes : vs[v] = IF v = Dir THEN rec ELSE vnode[v]
      /\ \A path \in Paths : st[path] = IF path = Dir THEN entry ELSE set[path]
  BY <1>2 DEF Entries
<1>6. rec \in [path : Paths, size : -1 .. MaxSize, dirty : BOOLEAN] /\ rec.path = Dir /\ rec.size = 0
  BY <1>2, FilesAssumption, SMTT(40)
<1>7. /\ entry \in [vnode : Vnodes \cup {None}, key : Vnodes \cup {None, Stale, Mounted}]
      /\ entry.vnode = Dir /\ entry.key = Mounted
  BY <1>2
<1> HIDE DEF rec, entry
<1>8. /\ vs \in [Vnodes -> [path : Paths, size : -1 .. MaxSize, dirty : BOOLEAN]]
      /\ st \in [Paths -> [vnode : Vnodes \cup {None}, key : Vnodes \cup {None, Stale, Mounted}]]
  BY <1>2, <1>6, <1>7 DEF Entries
<1> HIDE DEF vs, st
<1>9. Entries(vs, st, mo)
  <2>1. Filled(Dir, vs, st, mo)
    <3>1. Mounted \in KeyOf(Dir, mo)
      BY DEF KeyOf
    <3> QED
      BY <3>1, <1>2, <1>5, <1>6, <1>7, FilesAssumption, SMTT(40) DEF Filled
  <2>2. ASSUME NEW path \in Paths, path # Dir
        PROVE  Empty(path, vs, st) \/ Filled(path, vs, st, mo)
    <3>1. KeyOf(path, mo) = KeyOf(path, mounts)
      BY <2>2 DEF KeyOf
    <3>2. vs[path] = vnode[path] /\ st[path] = set[path]
      BY <2>2, <1>2, <1>5
    <3> QED
      BY <3>1, <3>2, <1>2 DEF Entries, Empty, Filled
  <2>3. \A v \in Vnodes \ Paths : vs[v] = NoVnode
    BY <1>2, <1>5 DEF Entries
  <2> QED
    BY <2>1, <2>2, <2>3, <1>8 DEF Entries
<1>10. Descriptors(desc, vs, st)
  <2> SUFFICES ASSUME NEW d \in Descs, OnPath(desc[d], vnode, set) PROVE OnPath(desc[d], vs, st)
    BY <1>2 DEF Descriptors
  <2>1. desc[d].vnode # Dir
    BY <1>2, <1>3, FilesAssumption, SMTT(40) DEF OnPath, NoEntry
  <2>2. st[desc[d].vnode] = set[desc[d].vnode] /\ vs[desc[d].vnode] = vnode[desc[d].vnode]
    BY <2>1, <1>5, FilesAssumption DEF OnPath, Paths, Vnodes
  <2> QED
    BY <2>2 DEF OnPath
<1>11. Used(desc, st)
  BY <1>2, <1>5, <1>7 DEF Used
<1>12. Shape(table, desc, vs, st, mo)
  BY <1>2, <1>9, <1>10, <1>11 DEF Shape
<1>13. Became(table, desc, vs, st, mo)
  BY <1>1, <1>4, <1>12, RunningFacts, BecomeKeeps DEF Become
<1>14. \A d \in FreeDescs : desc'[d] = NoDesc
  BY <1>13 DEF Became, FreeDescs
<1>15. NoNewEnd
  BY <1>14, FreeIsNoEnd DEF NoNewEnd, FreeDescs
<1>16. mounts' \subseteq {Root, Dir} /\ Root \in mounts'
  BY <1>1, RunningFacts DEF FilesInv
<1> QED
  BY <1>1, <1>13, <1>15, <1>16 DEF FilesInv, Became

(* umount: the key that the file system owned dangles; without a root file *)
(* system the next lookup fails its assertion.                             *)
LEMMA UmountKeeps ==
  ASSUME FilesInv, NEW path, Umount(path)
  PROVE  FilesInv' /\ NoNewEnd
<1>1. /\ Running /\ mounts' = mounts \ {Lookup(path)} /\ failed' = IF Lookup(path) = Root THEN Lost ELSE None
      /\ UNCHANGED <<table, desc, vnode, stored>>
  BY DEF Umount
<1>2. /\ Tables(table) /\ Backed(table, desc) /\ Descriptors(desc, vnode, set)
      /\ Entries(vnode, set, mounts) /\ Used(desc, set)
      /\ Dir \in Paths /\ Dir \in Vnodes /\ Paths \subseteq Vnodes
  BY DEF FilesInv, Shape, Paths, Vnodes
<1>3. NoNewEnd
  BY <1>1, FreeIsNoEnd DEF NoNewEnd
<1>4. mounts \subseteq {Root, Dir} /\ Root \in mounts /\ Dir # Root
  BY <1>1, RunningFacts, FilesAssumption DEF FilesInv
<1>5. Descriptors(desc, vnode, set') /\ Entries(vnode, set', mounts') /\ Used(desc, set')
      /\ failed' \in {None, Lost, Dirfd} /\ (failed' = None => Root \in mounts') /\ mounts' \subseteq {Root, Dir}
  <2>1. CASE Lookup(path) = Dir
    <3> DEFINE key == IF set[Dir].key = Mounted THEN Stale ELSE set[Dir].key
               entry == [vnode |-> set[Dir].vnode, key |-> key]
    <3>1. Dir \in mounts /\ mounts' = mounts \ {Dir} /\ failed' = None
      BY <2>1, <1>1, <1>4 DEF Lookup
    <3>2. set[Dir] \in [vnode : Vnodes \cup {None}, key : Vnodes \cup {None, Stale, Mounted}]
      BY <1>2 DEF Entries
    <3>3. key \in Vnodes \cup {None, Stale, Mounted}
      BY <3>2
    <3>4. set' = [set EXCEPT ![Dir].key = key]
      BY <2>1 DEF Umount
    <3>5. [set[Dir] EXCEPT !.key = key] = entry
      BY <3>2, SMTT(40)
    <3>6. set' = [set EXCEPT ![Dir] = entry]
      BY <3>4, <3>5
    <3> HIDE DEF key
    <3>7. /\ entry \in [vnode : Vnodes \cup {None}, key : Vnodes \cup {None, Stale, Mounted}]
          /\ entry.vnode = set[Dir].vnode /\ entry.key = key
      BY <3>2, <3>3
    <3> HIDE DEF entry
    <3>8. /\ set' \in [Paths -> [vnode : Vnodes \cup {None}, key : Vnodes \cup {None, Stale, Mounted}]]
          /\ \A q \in Paths : set'[q] = IF q = Dir THEN entry ELSE set[q]
      BY <3>6, <3>7, <1>2 DEF Entries
    <3>9. \A q \in Paths : set'[q].vnode = set[q].vnode
      BY <3>7, <3>8
    <3>10. Descriptors(desc, vnode, set')
      BY <3>9, <1>2 DEF Descriptors, OnPath
    <3>11. set[Dir] = NoEntry => set'[Dir] = NoEntry
      <4> SUFFICES ASSUME set[Dir] = NoEntry PROVE entry = NoEntry
        BY <3>8, <1>2
      <4>1. key = None /\ set[Dir].vnode = None
        BY SMTT(40) DEF key, NoEntry, None, Mounted
      <4> QED
        BY <4>1 DEF entry, NoEntry
    <3>12. Filled(Dir, vnode, set, mounts) => Filled(Dir, vnode, set', mounts')
      <4> SUFFICES ASSUME Filled(Dir, vnode, set, mounts) PROVE key \in KeyOf(Dir, mounts')
        BY <3>7, <3>8, <1>2 DEF Filled
      <4>1. set[Dir].key \in {Dir, Mounted}
        BY <3>1 DEF Filled, KeyOf
      <4> QED
        BY <4>1, <3>1 DEF KeyOf, key
    <3>13. Entries(vnode, set', mounts')
      <4>1. Empty(Dir, vnode, set') \/ Filled(Dir, vnode, set', mounts')
        BY <3>11, <3>12, <1>2 DEF Entries, Empty
      <4>2. ASSUME NEW q \in Paths, q # Dir
            PROVE  Empty(q, vnode, set') \/ Filled(q, vnode, set', mounts')
        BY <4>2, <3>8, <1>2 DEF Entries, Empty, Filled, KeyOf
      <4> QED
        BY <4>1, <4>2, <3>8, <1>2 DEF Entries
    <3>14. Used(desc, set')
      <4>1. set'[Dir] = NoEntry \/ (\E d \in Descs : desc[d].vnode = Dir) \/ set'[Dir].key \in {Mounted, Stale}
        BY <3>7, <3>8, <3>11, <1>2 DEF Used, key
      <4> QED
        BY <4>1, <3>8, <1>2 DEF Used
    <3> QED
      BY <3>1, <3>10, <3>13, <3>14, <1>4
  <2>2. CASE Lookup(path) # Dir
    <3>1. Lookup(path) = Root
      BY <2>2 DEF Lookup
    <3>2. set' = set /\ mounts' = mounts \ {Root} /\ failed' = Lost /\ Lost # None
      BY <2>2, <3>1, <1>1 DEF Umount, Lost, None
    <3>3. Entries(vnode, set, mounts')
      <4>1. \A q : KeyOf(q, mounts') = KeyOf(q, mounts)
        BY <3>2, <1>4 DEF KeyOf
      <4> QED
        BY <4>1, <1>2 DEF Entries, Filled
    <3> QED
      BY <3>2, <3>3, <1>2, <1>4
  <2> QED
    BY <2>1, <2>2
<1>6. Shape(table', desc', vnode', set', mounts') /\ Dead(table', desc') = {}
  BY <1>1, <1>2, <1>5 DEF Shape, FilesInv
<1> QED
  BY <1>1, <1>3, <1>5, <1>6 DEF FilesInv
-----------------------------------------------------------------------------
(* One process with its standard descriptors, and nothing open.            *)
LEMMA InitKeeps == Init => FilesInv
<1> SUFFICES ASSUME Init PROVE FilesInv
  OBVIOUS
<1>1. PICK first \in Procs :
        table = [p \in Procs |-> IF p = first THEN [i \in 1 .. Std |-> Tty] ELSE <<>>]
  BY DEF Init
<1>2. /\ desc = [d \in Descs |-> NoDesc] /\ vnode = [v \in Vnodes |-> NoVnode]
      /\ set = [path \in Paths |-> NoEntry]
      /\ mounts = {Root} /\ stored = -1 /\ failed = None
  BY DEF Init
<1>3. Std \in Nat /\ Std <= MaxFd /\ MaxSize \in Nat
  BY FilesAssumption, SMTT(40)
<1> DEFINE std == [i \in 1 .. Std |-> Tty]
<1>4. /\ std \in Seq(SlotValues) /\ Len(std) = Std /\ DOMAIN std = 1 .. Std
      /\ \A i \in DOMAIN std : std[i] \notin Descs
  BY <1>3, FilesAssumption, SMTT(40) DEF SlotValues
<1>5. <<>> \in Seq(SlotValues) /\ Len(<<>>) <= MaxFd /\ DOMAIN <<>> = {}
  BY FilesAssumption, SMTT(40)
<1> HIDE DEF std
<1>6. \A p \in Procs : table[p] = std \/ table[p] = <<>>
  BY <1>1 DEF std
<1>7. Tables(table) /\ Backed(table, desc)
  <2>1. table \in [Procs -> Seq(Descs \cup {None, Tty})]
    BY <1>1, <1>4, <1>5 DEF std, SlotValues
  <2> QED
    BY <2>1, <1>3, <1>4, <1>5, <1>6 DEF Tables, Backed
<1>8. Descriptors(desc, vnode, set) /\ Used(desc, set) /\ Dead(table, desc) = {}
  <2>1. NoDesc \in [vnode : Vnodes \cup {None, PipeEnd}, pos : 0 .. MaxSize]
    BY <1>3, SMTT(40) DEF NoDesc
  <2> QED
    BY <2>1, <1>2 DEF Descriptors, Used, Dead
<1>9. Entries(vnode, set, mounts)
  <2>1. NoVnode \in [path : Paths, size : -1 .. MaxSize, dirty : BOOLEAN]
    BY <1>3, SMTT(40) DEF NoVnode, Paths
  <2>2. NoEntry \in [vnode : Vnodes \cup {None}, key : Vnodes \cup {None, Stale, Mounted}]
    BY DEF NoEntry
  <2>3. \A path \in Paths : path \in Vnodes
    BY DEF Vnodes
  <2> QED
    BY <2>1, <2>2, <2>3, <1>2 DEF Entries, Empty
<1>10. mounts \subseteq {Root, Dir} /\ failed \in {None, Lost, Dirfd} /\ (failed = None => Root \in mounts)
  BY <1>2
<1>11. stored \in -1 .. MaxSize
  BY <1>2, <1>3, SMTT(40)
<1> QED
  BY <1>7, <1>8, <1>9, <1>10, <1>11 DEF FilesInv, Shape

(* The pipe ends that a step makes.                                        *)
NewEnds == {d \in FreeDescs : desc'[d].vnode = PipeEnd}

(* Every step keeps the invariant and makes no single pipe end.            *)
LEMMA StepKeeps ==
  ASSUME FilesInv, [Next]_vars
  PROVE  FilesInv' /\ Cardinality(NewEnds) # 1
<1>1. NoNewEnd => Cardinality(NewEnds) # 1
  BY FS_EmptySet, SMTT(40) DEF NoNewEnd, NewEnds
<1>2. CASE UNCHANGED vars
  <2>1. UNCHANGED <<table, desc, vnode, set, mounts, stored, failed>>
    BY <1>2 DEF vars
  <2>2. NoNewEnd
    BY <2>1, FreeIsNoEnd DEF NoNewEnd
  <2> QED
    BY <2>1, <2>2, <1>1 DEF FilesInv
<1>3. CASE OpenOn(Dir) = {} /\ Mount
  BY <1>1, <1>3, MountKeeps
<1>4. CASE Unlink
  BY <1>1, <1>4, UnlinkKeeps
<1>5. CASE \E path \in Paths \cup {Root} : Umount(path)
  BY <1>1, <1>5, UmountKeeps
<1>6. ASSUME NEW p \in Procs, NEW path \in Paths, FstatAt(p, path)
      PROVE  FilesInv' /\ Cardinality(NewEnds) # 1
  BY <1>1, <1>6, FstatAtKeeps
<1>7. ASSUME NEW p \in Procs, NEW path \in Paths, NEW creat \in BOOLEAN, NEW append \in BOOLEAN,
             OpenAt(p, path, creat, append)
      PROVE  FilesInv' /\ Cardinality(NewEnds) # 1
  BY <1>1, <1>7, OpenAtKeeps
<1>8. ASSUME NEW p \in Procs, Pipe2(p)
      PROVE  FilesInv' /\ Cardinality(NewEnds) # 1
  BY <1>8, Pipe2Keeps DEF NewEnds
<1>9. ASSUME NEW p \in Procs, Exit(p)
      PROVE  FilesInv' /\ Cardinality(NewEnds) # 1
  BY <1>1, <1>9, ExitKeeps
<1>10. ASSUME NEW p \in Procs, NEW q \in Procs, Fork(p, q)
       PROVE  FilesInv' /\ Cardinality(NewEnds) # 1
  BY <1>1, <1>10, ForkKeeps
<1>11. ASSUME NEW p \in Procs, NEW fd \in 1 .. MaxFd, Close(p, fd)
       PROVE  FilesInv' /\ Cardinality(NewEnds) # 1
  BY <1>1, <1>11, CloseKeeps
<1>12. ASSUME NEW p \in Procs, NEW fd \in 1 .. MaxFd, NEW n \in 1 .. MaxSize,
              Read(p, fd, n) \/ Write(p, fd, n)
       PROVE  FilesInv' /\ Cardinality(NewEnds) # 1
  BY <1>1, <1>12, ReadKeeps, WriteKeeps
<1>13. ASSUME NEW p \in Procs, NEW fd \in 1 .. MaxFd, NEW min \in Std + 1 .. MaxFd, DupFrom(p, fd, min)
       PROVE  FilesInv' /\ Cardinality(NewEnds) # 1
  BY <1>1, <1>13, DupFromKeeps
<1>14. ASSUME NEW p \in Procs, NEW fd \in 1 .. MaxFd, NEW newfd \in 1 .. MaxFd, Dup3(p, fd, newfd)
       PROVE  FilesInv' /\ Cardinality(NewEnds) # 1
  BY <1>1, <1>14, Dup3Keeps
<1>15. ASSUME NEW p \in Procs, NEW fd \in 1 .. MaxFd, NoDirfd(p, fd)
       PROVE  FilesInv' /\ Cardinality(NewEnds) # 1
  BY <1>1, <1>15, NoDirfdKeeps
<1> QED
  BY <1>2, <1>3, <1>4, <1>5, <1>6, <1>7, <1>8, <1>9, <1>10, <1>11, <1>12, <1>13, <1>14, <1>15, ZenonT(60)
  DEF Next, Steps

(* The invariant holds in every reachable state.                           *)
LEMMA Invariant == Spec => []FilesInv
<1>1. FilesInv /\ [Next]_vars => FilesInv'
  BY StepKeeps
<1> QED
  BY <1>1, InitKeeps, PTL DEF Spec

(* FileDescriptor::drop never finds another owner of a vnode whose entry   *)
(* it took out of VNODE_HASHSET: the count it tests tells the last one.    *)
THEOREM DropsAssertNothing == Spec => []DropAssertion
<1>1. FilesInv => DropAssertion
  BY DEF FilesInv, DropAssertion, Drop, None, Lost, Dirfd
<1> QED
  BY <1>1, Invariant, PTL

(* The key of an entry dangles only for a directory that was unmounted.    *)
THEOREM KeysOutliveEntries == Spec => []KeysAlive
<1>1. FilesInv => KeysAlive
  <2> SUFFICES ASSUME FilesInv, NEW path \in Paths, set[path].key = Stale
               PROVE  path = Dir /\ Dir \notin mounts
    BY DEF KeysAlive
  <2>1. Empty(path, vnode, set) \/ Filled(path, vnode, set, mounts)
    BY DEF FilesInv, Shape, Entries
  <2>2. NoEntry.key # Stale /\ path # Stale
    BY FilesAssumption DEF NoEntry, None, Stale, Vnodes
  <2>3. Stale # Mounted
    BY DEF Stale, Mounted
  <2> QED
    BY <2>1, <2>2, <2>3 DEF Empty, Filled, KeyOf
<1> QED
  BY <1>1, Invariant, PTL

(* All FileDescriptors of a path use the one vnode in VNODE_HASHSET, and   *)
(* it is there only while one of them is left.                             *)
THEOREM OneVnode == Spec => []OneVnodePerPath
<1>1. FilesInv => OneVnodePerPath
  <2> SUFFICES ASSUME FilesInv, NEW f \in Names
               PROVE  /\ \A d \in OpenOn(f) : desc[d].vnode = set[f].vnode
                      /\ Found(f) => OpenOn(f) # {}
    BY DEF OneVnodePerPath
  <2>1. /\ Descriptors(desc, vnode, set) /\ Entries(vnode, set, mounts) /\ Used(desc, set)
        /\ f \in Paths /\ f \in Vnodes
    BY DEF FilesInv, Shape, Paths, Vnodes
  <2>2. ASSUME NEW d \in OpenOn(f) PROVE desc[d].vnode = set[f].vnode
    <3>1. d \in Descs /\ desc[d].vnode \in Vnodes /\ vnode[desc[d].vnode].path = f
      BY DEF OpenOn
    <3> QED
      BY <3>1, <2>1, HeldInSet, SMTT(40)
  <2>3. ASSUME Found(f) PROVE OpenOn(f) # {}
    <3>1. Filled(f, vnode, set, mounts) /\ set[f] # NoEntry
      BY <2>1, <2>3 DEF Found, Entries, Empty
    <3>2. set[f].key = f
      BY <3>1, FilesAssumption DEF Filled, KeyOf
    <3>3. PICK d \in Descs : desc[d].vnode = f
      BY <3>1, <3>2, <2>1, FilesAssumption DEF Used
    <3>4. d \in OpenOn(f)
      BY <3>1, <3>3, <2>1 DEF OpenOn, Filled
    <3> QED
      BY <3>4
  <2> QED
    BY <2>2, <2>3
<1> QED
  BY <1>1, Invariant, PTL

(* The seek before a read or a write finds the position within the file,   *)
(* whatever the other FileDescriptors of the file did.                     *)
THEOREM PositionsWithin == Spec => []PosWithinFile
<1>1. FilesInv => PosWithinFile
  <2> SUFFICES ASSUME FilesInv, NEW f \in Names, NEW d \in OpenOn(f)
               PROVE  desc[d].pos <= vnode[desc[d].vnode].size
    BY DEF PosWithinFile
  <2>1. /\ Descriptors(desc, vnode, set) /\ Entries(vnode, set, mounts)
        /\ d \in Descs /\ desc[d].vnode \in Vnodes /\ vnode[desc[d].vnode].path = f
    BY DEF FilesInv, Shape, OpenOn
  <2>2. desc[d].vnode = f
    BY <2>1, HeldInSet, SMTT(40)
  <2>3. OnPath(desc[d], vnode, set)
    BY <2>1, FilesAssumption, SMTT(40) DEF Descriptors, OnPipe, NoDesc
  <2> QED
    BY <2>2, <2>3 DEF OnPath
<1> QED
  BY <1>1, Invariant, PTL

(* sys_pipe2 leaves both ends of a new pipe in the table or neither, with  *)
(* any number of free places.                                              *)
THEOREM BothEndsOrNone == Spec => PipeBothOrNone
<1>1. FilesInv /\ [Next]_vars => [Cardinality({d \in FreeDescs : desc'[d].vnode = PipeEnd}) # 1]_vars
  BY StepKeeps DEF NewEnds
<1> QED
  BY <1>1, Invariant, PTL DEF Spec, PipeBothOrNone
=============================================================================
