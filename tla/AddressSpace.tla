---------------------------- MODULE AddressSpace ----------------------------
(***************************************************************************)
(* User memory of hecto-os: the reference-counted physical page allocator  *)
(* (src/mm/physical_page.rs), the copy-on-write address spaces of the      *)
(* processes (src/mm/address_space.rs, src/mm/page_table.rs) and the       *)
(* system calls that change them (src/syscall/mm.rs, and the memory part   *)
(* of exec, clone and exit).                                               *)
(*                                                                         *)
(* A virtual address is a natural number and a page is PageSize of them,   *)
(* so that unaligned ends of segments and breaks exist; the contents of a  *)
(* page are one value.  Every action runs with the process lock held and   *)
(* is one step.  The frames of the page tables themselves are left out.    *)
(***************************************************************************)
EXTENDS Integers, FiniteSets

CONSTANTS
  Procs,      \* process slots
  Frames,     \* the physical frames behind user pages
  NoFrame,    \* not a frame nor a value: an absent tracker, an invalid entry
  Values,     \* contents a page can have
  Zero,       \* the contents of the pages loaded from the program file
  PageSize,   \* ConfigImpl::PAGE_SIZE
  MaxVpn,     \* bound: the highest virtual page number the model uses
  Image,      \* PT_LOAD segments of the program: [start, end, w]
  ImageEnd,   \* end of its last segment
  StackSize,  \* ConfigImpl::USER_STACK_SIZE
  BrkMax,     \* AddressSpace::BRK_MAX
  Addrs,      \* addresses passed to brk, mmap and munmap
  MmapSizes   \* lengths passed to mmap

Vpns == 0 .. MaxVpn

(* VA::floor, VA::ceil, round_up! and VARangeOrd::vpn_range. *)
Floor(va) == va \div PageSize
Ceil(va) == (va + PageSize - 1) \div PageSize
RoundDown(va) == Floor(va) * PageSize
RoundUp(va) == Ceil(va) * PageSize
VpnRange(start, end) == Floor(start) .. (Ceil(end) - 1)

VAs == 0 .. (MaxVpn + 1) * PageSize

ASSUME ConstantsAssumption ==
  /\ IsFiniteSet(Procs) /\ IsFiniteSet(Frames)
  /\ NoFrame \notin Frames /\ NoFrame \notin Values
  /\ Zero \in Values
  /\ PageSize \in Nat \ {0} /\ MaxVpn \in Nat
  /\ StackSize \in Nat \ {0} /\ BrkMax \in Nat
  /\ Addrs \subseteq Nat /\ MmapSizes \subseteq Nat \ {0}

(* What the ELF loader relies on: there are segments, each in pages of its *)
(* own, and the last one ends at ImageEnd.  One may begin where another    *)
(* ends.                                                                   *)
ASSUME ImageAssumption ==
  /\ \A s \in Image : /\ s.start \in Nat /\ s.end \in Nat /\ s.w \in BOOLEAN
                      /\ s.start < s.end
                      /\ VpnRange(s.start, s.end) \subseteq Vpns
  /\ \A s, t \in Image : s # t => \/ RoundUp(s.end) <= t.start
                                  \/ RoundUp(t.end) <= s.start
  /\ ImageEnd \in Nat
  /\ \A s \in Image : s.end <= ImageEnd
  /\ \E s \in Image : s.end = ImageEnd

VARIABLES
  freeFrames, \* PhyPageAllocator::free_list, as a set
  refCount,   \* PhyPageUsage::ref_count of each frame
  content,    \* what each frame holds
  status,     \* "none" | "live" | "zombie" (exited, not yet dropped)
  areas,      \* AddressSpace::areas; pages are the keys of data_frames
  frameOf,    \* the FrameTracker of each page, over all areas
  pte,        \* the leaf page table entry of each page
  dataEnd,    \* data_segment_end
  dataMax,    \* data_segment_max
  stackTop,   \* Thread::user_stack_top
  halted      \* "no", or the place the kernel panicked or hung at

physical == <<freeFrames, refCount, content>>
layout == <<areas, frameOf, pte, dataEnd, dataMax, stackTop>>
vars == <<physical, status, layout, halted>>

Entry == [ppn : Frames \cup {NoFrame}, w : BOOLEAN, cow : BOOLEAN]
EMPTY == [ppn |-> NoFrame, w |-> FALSE, cow |-> FALSE]
Valid(p, v) == pte[p][v].ppn # NoFrame
MapArea == [start : Nat, end : Nat, w : BOOLEAN, pages : SUBSET Vpns]

Sites == {"no", "frame_alloc", "map_one", "remove_area", "brk",
          "handle_pagefault", "modify_flags", "mmap_fd", "mmap_file",
          "translate_va", "free_list"}

TypeOK ==
  /\ freeFrames \subseteq Frames
  /\ refCount \in [Frames -> Nat]
  /\ content \in [Frames -> Values]
  /\ status \in [Procs -> {"none", "live", "zombie"}]
  /\ areas \in [Procs -> SUBSET MapArea]
  /\ frameOf \in [Procs -> [Vpns -> Frames \cup {NoFrame}]]
  /\ pte \in [Procs -> [Vpns -> Entry]]
  /\ dataEnd \in [Procs -> Nat]
  /\ dataMax \in [Procs -> Nat]
  /\ stackTop \in [Procs -> Nat]
  /\ halted \in Sites

Init ==
  /\ freeFrames = Frames
  /\ refCount = [f \in Frames |-> 0]
  /\ content = [f \in Frames |-> Zero]
  /\ status = [p \in Procs |-> "none"]
  /\ areas = [p \in Procs |-> {}]
  /\ frameOf = [p \in Procs |-> [v \in Vpns |-> NoFrame]]
  /\ pte = [p \in Procs |-> [v \in Vpns |-> EMPTY]]
  /\ dataEnd = [p \in Procs |-> 0]
  /\ dataMax = [p \in Procs |-> 0]
  /\ stackTop = [p \in Procs |-> 0]
  /\ halted = "no"

Running(p) == halted = "no" /\ status[p] = "live"

(* A failed assert!, unwrap or panic!, or a lock the holder itself waits   *)
(* for: the single hart does nothing more.                                 *)
Halt(site) ==
  /\ halted' = site
  /\ UNCHANGED <<physical, status, layout>>
-----------------------------------------------------------------------------
(* The physical page allocator.                                            *)

(* Trackers of p on the given pages, and how many of them hold a frame.    *)
Trackers(p, pages) == [v \in Vpns |-> IF v \in pages THEN frameOf[p][v] ELSE NoFrame]
Count(trackers, f) == Cardinality({v \in Vpns : trackers[v] = f})

(* alloc, once for each page: distinct frames of the free list.            *)
Allocations(pages, pool) ==
  {g \in [pages -> pool] : \A u, v \in pages : g[u] = g[v] => u = v}

(* Mutants: a frame is freed one tracker early; a drop wipes a frame that  *)
(* others still hold.                                                      *)
FreedEarly(lost) == {f \in Frames : Count(lost, f) > 0 /\ refCount[f] <= Count(lost, f) + 1}

(* dealloc: the frames whose count the dropped trackers bring to zero.     *)
Freed(lost) == {f \in Frames : Count(lost, f) > 0 /\ refCount[f] = Count(lost, f)}

ExchangeWipes(lost, taken, fill) ==  \* mutant
  /\ refCount' = [f \in Frames |-> IF f \in taken THEN 1 ELSE refCount[f] - Count(lost, f)]
  /\ freeFrames' = (freeFrames \cup Freed(lost)) \ taken
  /\ content' = [f \in Frames |-> IF f \in taken THEN fill[f]
                                  ELSE IF Count(lost, f) > 0 THEN Zero ELSE content[f]]

(* FrameTracker::drop for every tracker in lost and alloc for every frame  *)
(* in taken; an allocated frame gets its contents from fill.               *)
Exchange(lost, taken, fill) ==
  /\ refCount' = [f \in Frames |-> IF f \in taken THEN 1 ELSE refCount[f] - Count(lost, f)]
  /\ freeFrames' = (freeFrames \cup Freed(lost)) \ taken
  /\ content' = [f \in Frames |-> IF f \in taken THEN fill[f]
                                  ELSE IF f \in Freed(lost) THEN Zero ELSE content[f]]

(* FrameTracker::clone for every tracker in gained.                        *)
CloneTrackers(gained) ==
  refCount' = [f \in Frames |-> refCount[f] + Count(gained, f)]
-----------------------------------------------------------------------------
(* Areas.                                                                  *)

(* The BTreeMap lookup of VARangeOrd(va..va): containment, both ends       *)
(* included, and the lower area when two of them touch at va.              *)
IsAreaAfter(as, va, a) == a \in as /\ a.start < va /\ va <= a.end  \* mutant
IsAreaAt(as, va, a) ==
  /\ a \in as /\ a.start <= va /\ va <= a.end
  /\ \A b \in as : b.start <= va /\ va <= b.end => a.start <= b.start

(* alloc_user_area: the end of the lowest gap of the given size above      *)
(* data_segment_max, with a page left free on either side.                 *)
Clears(as, size, end) ==
  \A a \in as : \/ end + PageSize <= a.start
                \/ RoundUp(a.end) + PageSize + size <= end
IsUserArea(as, max, size, end) ==
  LET least == max + PageSize + size
      candidates == {least} \cup {RoundUp(a.end) + PageSize + size : a \in as}
      fits(e) == e >= least /\ Clears(as, size, e)
  IN end \in candidates /\ fits(end) /\ \A e \in candidates : fits(e) => end <= e

Area(start, end, w) ==
  [start |-> start, end |-> end, w |-> w, pages |-> VpnRange(start, end)]

ImageAreas == {Area(s.start, s.end, s.w) : s \in Image}
ImageMax == RoundUp(ImageEnd) + BrkMax
PagesOf(as) == UNION {a.pages : a \in as}

(* map_one on each page of a set.                                          *)
Mapped(entries, pages, g, w) ==
  [v \in Vpns |-> IF v \in pages THEN [ppn |-> g[v], w |-> w[v], cow |-> FALSE]
                 ELSE entries[v]]
Tracked(trackers, pages, g) == [v \in Vpns |-> IF v \in pages THEN g[v] ELSE trackers[v]]
NoTrackers == [v \in Vpns |-> NoFrame]
NoEntries == [v \in Vpns |-> EMPTY]
-----------------------------------------------------------------------------
(* Process::from_elf or Process::execve, then alloc_user_stack.  The ELF   *)
(* header sits in a frame of its own meanwhile; execve builds the new      *)
(* image before it drops the old address space, and allocates the stack    *)
(* after.                                                                  *)
StackArea(end) == Area(end - StackSize, end, TRUE)
ProgramAreas(end) == ImageAreas \cup {StackArea(end)}
ProgramPages(end) == PagesOf(ProgramAreas(end))
WritableIn(as) == [v \in Vpns |-> \E a \in as : a.w /\ v \in a.pages]
Install(p, end, g, fill) ==
  LET pages == ProgramPages(end)
  IN /\ Exchange(Trackers(p, Vpns), {g[v] : v \in pages}, fill)
     /\ frameOf' = [frameOf EXCEPT ![p] = Tracked(NoTrackers, pages, g)]
     /\ pte' = [pte EXCEPT ![p] = Mapped(NoEntries, pages, g, WritableIn(ProgramAreas(end)))]
     /\ areas' = [areas EXCEPT ![p] = ProgramAreas(end)]
     /\ dataEnd' = [dataEnd EXCEPT ![p] = ImageEnd]
     /\ dataMax' = [dataMax EXCEPT ![p] = ImageMax]
     /\ stackTop' = [stackTop EXCEPT ![p] = end]
     /\ status' = [status EXCEPT ![p] = "live"]
     /\ UNCHANGED halted
LoadImage(p) ==
  LET image == PagesOf(ImageAreas)
      pool == freeFrames \cup Freed(Trackers(p, Vpns))
      short(end) == \/ Cardinality(freeFrames) < Cardinality(image) + 1
                    \/ Cardinality(pool) < Cardinality(ProgramPages(end)) + 1
  IN \E end \in VAs :
       /\ IsUserArea(ImageAreas, ImageMax, StackSize, end)
       /\ ProgramPages(end) \subseteq Vpns
       /\ \/ short(end) /\ Halt("frame_alloc")
          \/ /\ ~short(end)
             /\ \E g \in Allocations(ProgramPages(end), pool) :
                \E fill \in [{g[v] : v \in ProgramPages(end)} -> Values] :
                  /\ \A v \in image : g[v] \in freeFrames /\ fill[g[v]] = Zero
                  /\ Install(p, end, g, fill)

NewThread(p) == halted = "no" /\ status[p] = "none" /\ LoadImage(p)
Execve(p) == Running(p) /\ LoadImage(p)

(* AddressSpace::fork, for the child c: pages of writable areas become     *)
(* copy-on-write in both, the others are mapped as their area says.        *)
ForkEntriesChildOnly(p) ==  \* mutant: no remap_one
  [v \in Vpns |->
     [parent |-> pte[p][v],
      child |-> IF v \notin PagesOf(areas[p]) THEN EMPTY
                ELSE [ppn |-> frameOf[p][v], w |-> FALSE,
                      cow |-> \E a \in areas[p] : a.w /\ v \in a.pages]]]
ForkEntries(p) ==
  [v \in Vpns |->
     IF v \notin PagesOf(areas[p]) THEN [parent |-> pte[p][v], child |-> EMPTY]
     ELSE IF \E a \in areas[p] : a.w /\ v \in a.pages
          THEN LET shared == [ppn |-> frameOf[p][v], w |-> FALSE, cow |-> TRUE]
               IN [parent |-> shared, child |-> shared]
          ELSE [parent |-> pte[p][v],
                child |-> [ppn |-> frameOf[p][v], w |-> FALSE, cow |-> FALSE]]]
ForkSpace(p, c) ==
  /\ Running(p) /\ status[c] = "none"
  /\ CloneTrackers(Trackers(p, Vpns))
  /\ frameOf' = [frameOf EXCEPT ![c] = frameOf[p]]
  /\ pte' = [pte EXCEPT ![p] = [v \in Vpns |-> ForkEntries(p)[v].parent],
                        ![c] = [v \in Vpns |-> ForkEntries(p)[v].child]]
  /\ areas' = [areas EXCEPT ![c] = areas[p]]
  /\ dataEnd' = [dataEnd EXCEPT ![c] = dataEnd[p]]
  /\ dataMax' = [dataMax EXCEPT ![c] = dataMax[p]]
  /\ stackTop' = [stackTop EXCEPT ![c] = stackTop[p]]
  /\ status' = [status EXCEPT ![c] = "live"]
  /\ UNCHANGED <<freeFrames, halted>>
Fork(p, c) == ForkSpace(p, c) /\ UNCHANGED content

(* Thread::fork with CLONE_CHILD_SETTID: the tid is stored through the     *)
(* child's translation of child_tid, after the address space was forked.   *)
ForkSetTid(p, c, v, x) ==
  \/ /\ ForkSpace(p, c)
     /\ pte'[c][v].ppn # NoFrame
     /\ content' = [content EXCEPT ![pte'[c][v].ppn] = x]
  \/ /\ Running(p) /\ status[c] = "none"
     /\ ForkEntries(p)[v].child.ppn = NoFrame
     /\ Halt("translate_va")
-----------------------------------------------------------------------------
(* A store by the program, or by the kernel on its behalf, to a page it    *)
(* may write.  A free frame holds the link of the free list: what a store  *)
(* to one leads to is undefined, and the model stops there.                *)
Store(p, v, x) ==
  /\ Running(p) /\ Valid(p, v) /\ pte[p][v].w
  /\ \/ pte[p][v].ppn \in freeFrames /\ Halt("free_list")
     \/ /\ pte[p][v].ppn \notin freeFrames
        /\ content' = [content EXCEPT ![pte[p][v].ppn] = x]
        /\ UNCHANGED <<freeFrames, refCount, status, layout, halted>>

(* Parts of handle_pagefault: whether the page has to be copied, what the  *)
(* copy holds, and the entry afterwards; with the mutant that omits        *)
(* set_ppn.                                                                *)
Shared(f) == refCount[f] > 1
CopyOf(n, e) == [g \in {n} |-> content[e.ppn]]
WritableOldFrame(e, ppn) == [e EXCEPT !.w = TRUE, !.cow = FALSE]
Writable(e, ppn) == [e EXCEPT !.ppn = ppn, !.w = TRUE, !.cow = FALSE]

(* handle_pagefault: what a store to a page without write permission, or   *)
(* any access to an unmapped page, leads to.  The store is then retried.   *)
HandlePagefault(p, va) ==
  LET v == Floor(va)
      e == pte[p][v]
      f == frameOf[p][v]
      found == \E a \in areas[p] : IsAreaAt(areas[p], va, a) /\ v \in a.pages
  IN /\ Running(p) /\ v \in Vpns /\ ~e.w
     /\ \/ /\ ~e.cow \/ ~found
           /\ Halt("handle_pagefault")
        \/ /\ e.cow /\ found /\ Shared(f) /\ freeFrames = {}
           /\ Halt("frame_alloc")
        \/ /\ e.cow /\ found /\ Shared(f)
           /\ \E n \in freeFrames :
                /\ Exchange(Trackers(p, {v}), {n}, CopyOf(n, e))
                /\ frameOf' = [frameOf EXCEPT ![p][v] = n]
                /\ pte' = [pte EXCEPT ![p][v] = Writable(e, n)]
           /\ UNCHANGED <<status, areas, dataEnd, dataMax, stackTop, halted>>
        \/ /\ e.cow /\ found /\ ~Shared(f)
           /\ pte' = [pte EXCEPT ![p][v] = Writable(e, e.ppn)]
           /\ UNCHANGED <<physical, status, areas, frameOf, dataEnd, dataMax,
                          stackTop, halted>>

(* frame_alloc and map_one, page by page, for the given pages of p; the    *)
(* old contents of the frames show through.  A page already mapped, or an  *)
(* empty free list, stops the loop where it is met first.                  *)
Blocked(p, pages) ==
  \E v \in pages : /\ Valid(p, v)
                   /\ Cardinality({u \in pages : u <= v}) <= Cardinality(freeFrames)
Starved(pages) == Cardinality(freeFrames) < Cardinality(pages)
MapFails(p, pages) ==
  \/ Blocked(p, pages) /\ Halt("map_one")
  \/ ~Blocked(p, pages) /\ Starved(pages) /\ Halt("frame_alloc")
MapPages(p, pages, w) ==
  /\ ~Blocked(p, pages) /\ ~Starved(pages)
  /\ \E g \in Allocations(pages, freeFrames) :
     \E fill \in [{g[v] : v \in pages} -> Values] :
       /\ Exchange(NoTrackers, {g[v] : v \in pages}, fill)
       /\ frameOf' = [frameOf EXCEPT ![p] = Tracked(frameOf[p], pages, g)]
       /\ pte' = [pte EXCEPT ![p] = Mapped(pte[p], pages, g, [v \in pages |-> w])]

(* AddressSpace::brk with a non-zero address up to data_segment_max (the   *)
(* other calls change nothing).  Growing maps the pages above the rounded  *)
(* old end; shrinking keeps every page and only moves the end.             *)
Brk(p, addr) ==
  LET curEnd == RoundUp(dataEnd[p])
      pages == IF addr >= curEnd THEN VpnRange(curEnd, addr) ELSE {}
  IN /\ Running(p) /\ addr > 0 /\ addr <= dataMax[p] /\ pages \subseteq Vpns
     /\ \/ /\ \A a \in areas[p] : ~IsAreaAt(areas[p], dataEnd[p], a)
           /\ Halt("brk")
        \/ \E a \in areas[p] :
             /\ IsAreaAt(areas[p], dataEnd[p], a)
             /\ addr >= a.start
             /\ \/ MapFails(p, pages)
                \/ /\ MapPages(p, pages, a.w)
                   /\ areas' = [areas EXCEPT ![p] =
                        (@ \ {a}) \cup {[a EXCEPT !.end = addr, !.pages = @ \cup pages]}]
                   /\ dataEnd' = [dataEnd EXCEPT ![p] = addr]
                   /\ UNCHANGED <<status, dataMax, stackTop, halted>>

(* What a descriptor passed to mmap leads to: one past the table is no     *)
(* file, a closed one and one whose seek or read fails are unwrapped.      *)
Fds == {"none", "closed", "failing", "file"}

(* sys_mmap at an address of the kernel's choice.  With a file, its bytes  *)
(* and a NUL just past them are stored while the process lock is held: a   *)
(* fault there waits for that lock for ever.                               *)
Mmap(p, length, w, fd) ==
  \E end \in VAs :
    LET area == Area(end - length, end, w)
        faults == ~w \/ end % PageSize = 0
    IN /\ Running(p)
       /\ IsUserArea(areas[p], dataMax[p], length, end)
       /\ area.pages \subseteq Vpns
       /\ \/ MapFails(p, area.pages)
          \/ /\ ~Blocked(p, area.pages) /\ ~Starved(area.pages)
             /\ \/ fd \in {"closed", "failing"} /\ Halt("mmap_fd")
                \/ fd = "file" /\ faults /\ Halt("mmap_file")
          \/ /\ fd = "none" \/ (fd = "file" /\ ~faults)
             /\ MapPages(p, area.pages, w)
             /\ areas' = [areas EXCEPT ![p] = @ \cup {area}]
             /\ UNCHANGED <<status, dataEnd, dataMax, stackTop, halted>>

(* sys_mmap at a given address: modify_flags on each page, which leaves    *)
(* the frame, replaces every permission and clears the CoW mark.           *)
MmapFixed(p, addr, length, w) ==
  LET pages == VpnRange(addr, addr + length)
  IN /\ Running(p) /\ addr > 0 /\ pages \subseteq Vpns
     /\ \/ /\ \E v \in pages : ~Valid(p, v)
           /\ Halt("modify_flags")
        \/ /\ \A v \in pages : Valid(p, v)
           /\ pte' = [pte EXCEPT ![p] =
                [v \in Vpns |-> IF v \in pages
                               THEN [ppn |-> pte[p][v].ppn, w |-> w, cow |-> FALSE]
                               ELSE pte[p][v]]]
           /\ UNCHANGED <<physical, status, areas, frameOf, dataEnd, dataMax,
                          stackTop, halted>>

(* AddressSpace::remove_area: the entries of the area's range are cleared, *)
(* and dropping the area drops every tracker it holds.                     *)
RemoveAreaKeepsEntries(p, va) ==  \* mutant: no unmap_one
  \E a \in areas[p] :
    /\ IsAreaAt(areas[p], va, a)
    /\ Exchange(Trackers(p, a.pages), {}, <<>>)
    /\ frameOf' = [frameOf EXCEPT ![p] =
         [v \in Vpns |-> IF v \in a.pages THEN NoFrame ELSE frameOf[p][v]]]
    /\ areas' = [areas EXCEPT ![p] = @ \ {a}]
    /\ UNCHANGED <<pte, dataEnd, dataMax, stackTop>>
RemoveArea(p, va) ==
  \E a \in areas[p] :
    /\ IsAreaAt(areas[p], va, a)
    /\ Exchange(Trackers(p, a.pages), {}, <<>>)
    /\ frameOf' = [frameOf EXCEPT ![p] =
         [v \in Vpns |-> IF v \in a.pages THEN NoFrame ELSE frameOf[p][v]]]
    /\ pte' = [pte EXCEPT ![p] =
         [v \in Vpns |-> IF v \in VpnRange(a.start, a.end) THEN EMPTY ELSE pte[p][v]]]
    /\ areas' = [areas EXCEPT ![p] = @ \ {a}]
    /\ UNCHANGED <<dataEnd, dataMax, stackTop>>
RemoveFails(p, va) ==
  /\ \A a \in areas[p] : ~IsAreaAt(areas[p], va, a)
  /\ Halt("remove_area")

(* sys_munmap: the length is ignored, the whole area at addr goes.         *)
Munmap(p, addr) ==
  /\ Running(p)
  /\ \/ RemoveFails(p, addr)
     \/ RemoveArea(p, addr) /\ UNCHANGED <<status, halted>>

(* sys_exit, up to the switch to the scheduler: the user stack goes.       *)
Exit(p) ==
  /\ Running(p)
  /\ \/ RemoveFails(p, stackTop[p])
     \/ /\ RemoveArea(p, stackTop[p])
        /\ status' = [status EXCEPT ![p] = "zombie"]
        /\ UNCHANGED halted

(* The last Arc<Thread> goes: the process and its address space drop.      *)
DropProcess(p) ==
  /\ halted = "no" /\ status[p] = "zombie"
  /\ Exchange(Trackers(p, Vpns), {}, <<>>)
  /\ frameOf' = [frameOf EXCEPT ![p] = NoTrackers]
  /\ pte' = [pte EXCEPT ![p] = NoEntries]
  /\ areas' = [areas EXCEPT ![p] = {}]
  /\ dataEnd' = [dataEnd EXCEPT ![p] = 0]
  /\ dataMax' = [dataMax EXCEPT ![p] = 0]
  /\ stackTop' = [stackTop EXCEPT ![p] = 0]
  /\ status' = [status EXCEPT ![p] = "none"]
  /\ UNCHANGED halted

Stopped == halted # "no" /\ UNCHANGED vars
-----------------------------------------------------------------------------
(* An area made by mmap: neither a segment of the program nor its stack.   *)
IsMmapArea(p, a) == a.start > dataMax[p] /\ a.end # stackTop[p]

(* The operations as the repository's own user programs use them.          *)
Next ==
  \/ \E p \in Procs : NewThread(p) \/ Execve(p) \/ Exit(p) \/ DropProcess(p)
  \/ \E p, c \in Procs : Fork(p, c)
  \/ \E p \in Procs, v \in Vpns, x \in Values : Store(p, v, x)
  \/ \E p \in Procs, va \in VAs : HandlePagefault(p, va)
  \/ \E p \in Procs, addr \in Addrs : addr >= dataEnd[p] /\ Brk(p, addr)
  \/ \E p \in Procs, length \in MmapSizes, w \in BOOLEAN, fd \in Fds :
       Mmap(p, length, w, fd)
  \/ \E p \in Procs, addr \in Addrs :
       /\ \E a \in areas[p] : IsAreaAt(areas[p], addr, a) /\ IsMmapArea(p, a)
       /\ Munmap(p, addr)
  \/ Stopped

(* The remaining calls a program can make: a fixed mmap, an munmap of any  *)
(* address, a break that moves down, a clone that stores the child's tid.  *)
NextAny ==
  \/ Next
  \/ \E p \in Procs, addr \in Addrs : Brk(p, addr)
  \/ \E p \in Procs, addr \in Addrs : Munmap(p, addr)
  \/ \E p \in Procs, addr \in Addrs, length \in MmapSizes, w \in BOOLEAN :
       MmapFixed(p, addr, length, w)
  \/ \E p, c \in Procs, v \in Vpns, x \in Values : ForkSetTid(p, c, v, x)

Spec == Init /\ [][Next]_vars
SpecAny == Init /\ [][NextAny]_vars
-----------------------------------------------------------------------------
(* Every FrameTracker is counted, and the free list holds exactly the      *)
(* frames without one: clone, drop, alloc and dealloc of physical_page.rs  *)
(* balance over fork, page faults, exec, munmap and exit, so no frame is   *)
(* leaked, freed twice or handed out while in use.                         *)
TrackersOn(trackers, f) == {t \in Procs \X Vpns : trackers[t[1]][t[2]] = f}
FrameAccounting ==
  \A f \in Frames : /\ refCount[f] = Cardinality(TrackersOn(frameOf, f))
                    /\ f \in freeFrames <=> refCount[f] = 0

(* A page has a leaf entry exactly when an area tracks a frame for it, and *)
(* the entry names that frame: no process reaches a frame it does not hold *)
(* (fork, handle_pagefault, brk and remove_area change the two apart).     *)
PteTracks ==
  \A p \in Procs, v \in Vpns :
    /\ pte[p][v].ppn = frameOf[p][v]
    /\ frameOf[p][v] # NoFrame <=> v \in PagesOf(areas[p])

(* Whatever calls a program makes, every page in the range of an area is   *)
(* tracked and its entry names the tracked frame, so the asserts of        *)
(* remap_one (fork) and unmap_one (remove_area) and the unwraps of         *)
(* handle_pagefault after its lookup cannot fail.                          *)
AreasMapped ==
  \A p \in Procs : \A a \in areas[p] :
    /\ VpnRange(a.start, a.end) \subseteq a.pages
    /\ \A v \in a.pages : frameOf[p][v] # NoFrame /\ pte[p][v].ppn = frameOf[p][v]

(* Copy-on-write: a frame some entry can write is mapped by that entry     *)
(* alone, over all processes (fork, handle_pagefault).                     *)
NoSharedWrite ==
  \A p, q \in Procs, u, v \in Vpns :
    pte[p][u].w /\ pte[q][v].ppn = pte[p][u].ppn => p = q /\ u = v

(* Inside an area with write permission a store is served, unless it is to *)
(* the address another area ends at: the entry is writable, or             *)
(* copy-on-write and the lookup of handle_pagefault finds the area that    *)
(* tracks the page, so only an empty free list can stop it.                *)
Served(p, a, va) ==
  LET e == pte[p][Floor(va)]
  IN e.w \/ (e.cow /\ IsAreaAt(areas[p], va, a) /\ Floor(va) \in a.pages)
WritableServed ==
  \A p \in Procs : \A a \in areas[p] : a.w =>
    \A va \in a.start .. (a.end - 1) : (\A b \in areas[p] : b.end # va) => Served(p, a, va)

(* The same without the exception: a lookup by VARangeOrd finds the area   *)
(* that contains the address.                                              *)
EveryStoreServed ==
  \A p \in Procs : \A a \in areas[p] : a.w =>
    \A va \in a.start .. (a.end - 1) : Served(p, a, va)

(* map_one finds its page free, as its assert says ("has been mapped       *)
(* before" otherwise).                                                     *)
MapOneFresh == halted # "map_one"

(* User memory is not touched where a page fault could not be served, with *)
(* the process lock held: the comment in sys_wait4 asks for it.            *)
NoFaultUnderLock == halted # "mmap_file"

(* The assert of map_one and the unwraps of brk and remove_area never fire *)
(* for programs that use the calls as Next does, and their stores never    *)
(* reach a frame of the free list.                                         *)
AssertsHold == halted \notin {"map_one", "brk", "remove_area", "free_list"}
-----------------------------------------------------------------------------
(* What a process reads: the contents of the frame its entry names.        *)
Unmapped == NoFrame
View ==
  [p \in Procs |-> [v \in Vpns |->
     IF Valid(p, v) THEN content[pte[p][v].ppn] ELSE Unmapped]]

(* A loaded program reads its segments as the file has them.               *)
Loaded ==
  {m \in [Vpns -> Values \cup {Unmapped}] : \A v \in PagesOf(ImageAreas) : m[v] = Zero}

Private == INSTANCE PrivateMemory WITH mem <- View

(* The copy-on-write address spaces implement private memories: whatever   *)
(* the processes do, each step of fork, handle_pagefault, mmap, brk, exec, *)
(* exit and of the stores changes what the processes read exactly as the   *)
(* operation says, and nothing any other process reads.                    *)
ImplementsPrivateMemory == Private!Spec

(* Making a process leaves what every other process reads alone, as the    *)
(* "CoW" of AddressSpace::fork promises.                                   *)
ForkCopies ==
  [][\A c \in Procs : status[c] = "none" /\ status'[c] = "live" =>
       \A q \in Procs \ {c} : View'[q] = View[q]]_vars

(* Resolving a copy-on-write fault changes nothing any process reads: the  *)
(* copy has the contents of the page it replaces (handle_pagefault).       *)
PagefaultInvisible ==
  [][(\E p \in Procs, va \in VAs : HandlePagefault(p, va)) => UNCHANGED View]_vars
=============================================================================
