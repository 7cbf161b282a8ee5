-------------------------- MODULE AddressSpace_inv --------------------------
(***************************************************************************)
(* The inductive invariants of AddressSpace.                               *)
(*                                                                         *)
(* FrameAccounting is not inductive: the count of a frame stays right only *)
(* because map_one refuses pages that hold a tracker, because a page is    *)
(* tracked by one area at most and the entries remove_area clears belong   *)
(* to trackers it drops, and because a free slot holds no tracker.         *)
(* Accounted adds those facts; it holds whatever calls programs make.      *)
(*                                                                         *)
(* Nor is any of the properties of copy-on-write.  A store is private      *)
(* because entries with write permission belong to areas with it, which    *)
(* fork marks in both spaces; remove_area clears the entries of exactly    *)
(* the trackers it drops, and brk and mmap find their pages unmapped,      *)
(* because of how the areas lie.  CowInv adds that; it holds for programs  *)
(* that use the calls as Next does.                                        *)
(***************************************************************************)
EXTENDS AddressSpace

(* The tracked pages are those of the areas, and the entry of a tracked    *)
(* page names the tracked frame.                                           *)
TrackersMapped ==
  \A p \in Procs, v \in Vpns :
    /\ frameOf[p][v] # NoFrame <=> v \in PagesOf(areas[p])
    /\ frameOf[p][v] # NoFrame => pte[p][v].ppn = frameOf[p][v]

(* The range of an area lies inside the pages it tracks.                   *)
RangesTracked ==
  \A p \in Procs : \A a \in areas[p] : VpnRange(a.start, a.end) \subseteq a.pages

Apart(as) == \A a, b \in as : a # b => a.pages \cap b.pages = {}
AreasApart == \A p \in Procs : Apart(areas[p])

FreeSlotsEmpty == \A p \in Procs : status[p] = "none" => frameOf[p] = NoTrackers

Accounted ==
  /\ TypeOK /\ FrameAccounting
  /\ TrackersMapped /\ RangesTracked /\ AreasApart /\ FreeSlotsEmpty

(* What exact counts tell of a frame: on the free list it has no tracker;  *)
(* with a tracker that p keeps it is neither free nor freed when p drops   *)
(* others; and if it is not shared it belongs to one page.                 *)
Counted ==
  \A q \in Procs, v \in Vpns : frameOf[q][v] # NoFrame =>
    /\ frameOf[q][v] \notin freeFrames
    /\ \A p \in Procs, pages \in SUBSET Vpns :
         frameOf[q][v] \in Freed(Trackers(p, pages)) => q = p /\ v \in pages
    /\ ~Shared(frameOf[q][v]) =>
         \A p \in Procs, u \in Vpns : frameOf[p][u] = frameOf[q][v] => p = q /\ u = v
-----------------------------------------------------------------------------
(* Areas of one address space share no page; one may begin where another   *)
(* ends.                                                                   *)
Clear(a, b) == RoundUp(a.end) <= b.start \/ RoundUp(b.end) <= a.start
Separate(as) == \A a, b \in as : a # b => Clear(a, b)

(* An area is not empty and tracks exactly the pages of its range.         *)
Exact(a) == a.start < a.end /\ a.pages = VpnRange(a.start, a.end)
Shaped(as) == \A a \in as : Exact(a)

(* The data segment d ends at the break, and no other area lies between    *)
(* its start and the page after data_segment_max.                          *)
IsData(as, end, max, d) ==
  /\ d \in as /\ d.end = end /\ end <= max
  /\ \A b \in as \ {d} : RoundUp(b.end) <= d.start \/ max + PageSize <= b.start
HasData(as, end, max) == \E d \in as : IsData(as, end, max, d)

(* The user stack lies above data_segment_max.                             *)
HasStack(as, max, top) == \E s \in as : s.end = top /\ max < s.start

LaidOut ==
  \A p \in Procs :
    /\ Separate(areas[p]) /\ Shaped(areas[p])
    /\ status[p] = "live" => /\ HasData(areas[p], dataEnd[p], dataMax[p])
                             /\ HasStack(areas[p], dataMax[p], stackTop[p])

(* The pages that can be written, at once or after a copy, are those of    *)
(* the areas with write permission.                                        *)
InWritable(as, v) == \E a \in as : a.w /\ v \in a.pages
WriteInArea ==
  \A p \in Procs, v \in Vpns :
    pte[p][v].w \/ pte[p][v].cow <=> InWritable(areas[p], v)

CowInv == PteTracks /\ NoSharedWrite /\ WriteInArea /\ LaidOut /\ AssertsHold
=============================================================================
