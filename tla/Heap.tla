-------------------------------- MODULE Heap --------------------------------
(***************************************************************************)
(* The kernel heap (mm/heap/slab_allocator): a list of free page extents,  *)
(* zones of pages cut into chunks of one size, and PAGE_USAGE_ARRAY, by    *)
(* which free tells a chunk of a zone from a region of whole pages.  Every *)
(* operation runs in the critical section of LockedHeap.                   *)
(*                                                                         *)
(* Page 0 holds PAGE_USAGE_ARRAY.  A zone is named by its first page and a *)
(* chunk by its zone and its index; lists are sequences.  page_free reads  *)
(* cur.npages before it writes it: that word belongs to the pages being    *)
(* freed and holds what page_alloc, or the owner, left there.  When it     *)
(* makes page_free join the pages with an extent that does not begin at    *)
(* their end, two owners share memory and the model stops.                 *)
(***************************************************************************)
EXTENDS Integers, Sequences, FiniteSets, FiniteSetsExt, Functions

CONSTANTS
  NPages,      \* the pages of the heap
  ZonePages,   \* ZONE_PAGE_CNT
  Classes,     \* the indices of ZONE_ARRAY in use
  NMax,        \* z_nmax: the chunks of a zone
  FreeLimit,   \* ZONE_FREE_CNT_LIMIT
  MaxRegion,   \* bound: the pages of a region
  Words,       \* what owners leave in cur.npages; cur + word may wrap
  ZoneSize,    \* ZONE_SIZE, in bytes
  ChunkLimit,  \* CHUNK_LIMIT, in bytes
  HeadSize     \* the bytes of a SlabZoneNode

ASSUME HeapAssumption ==
  /\ NPages \in Nat \ {0, 1} /\ ZonePages \in Nat \ {0} /\ FreeLimit \in Nat
  /\ NMax \in Nat \ {0, 1} /\ MaxRegion \in Nat /\ Words \subseteq Int

VARIABLES
  list,     \* FREE_PAGE_LIST
  usage,    \* PAGE_USAGE_ARRAY
  zone,     \* the SlabZones
  array,    \* ZONE_ARRAY
  spare,    \* ZONE_FREE; its length is ZONE_FREE_CNT
  chunks,   \* the chunks in use
  regions,  \* the page regions in use
  left,     \* the npages that page_alloc left in the head of a region
  misled    \* history: page_free was misled by cur.npages
vars == <<list, usage, zone, array, spare, chunks, regions, left, misled>>

Pages == 0 .. NPages - 1
FreePage == [use |-> "free", k |-> 0]
NoZone == [class |-> "none", nfree |-> 0, uindex |-> 0, freechunk |-> <<>>]
Extent(at, n) == [at |-> at, n |-> n]
PagesOf(x) == x.at .. x.at + x.n - 1

(* The lists are linked: a node leaves its place or takes one, and remove  *)
(* looks for the node, which ListsExact shows to be there.                 *)
Unlink(s, i) == [j \in 1 .. Len(s) - 1 |-> IF j < i THEN s[j] ELSE s[j + 1]]
Link(s, i, e) ==
  [j \in 1 .. Len(s) + 1 |-> IF j < i THEN s[j] ELSE IF j = i THEN e ELSE s[j - 1]]
RemoveNode(s, e) ==
  LET places == {j \in DOMAIN s : s[j] = e}
  IN IF places = {} THEN s ELSE Unlink(s, Min(places))

(* The types; in particular z_nfree, an unsigned number, never wraps.      *)
HeapTypeOK ==
  /\ ~misled =>
       \A x \in Range(list) \cup regions : PagesOf(x) # {} /\ PagesOf(x) \subseteq Pages
  /\ \A pg \in Pages :
       /\ usage[pg].use \in {"free", "zone", "page"} /\ usage[pg].k \in Nat
       /\ zone[pg].nfree \in 0 .. NMax /\ zone[pg].uindex \in 0 .. NMax
  /\ \A c \in Classes : Range(array[c]) \subseteq Pages
  /\ Range(spare) \subseteq Pages /\ Len(spare) <= FreeLimit

(* init: page_init, and page_alloc for the array.                          *)
Init ==
  /\ list = <<Extent(1, NPages - 1)>>
  /\ usage = [pg \in Pages |-> FreePage]
  /\ zone = [pg \in Pages |-> NoZone]
  /\ array = [c \in Classes |-> <<>>] /\ spare = <<>>
  /\ chunks = {} /\ regions = {} /\ left = [pg \in Pages |-> 0] /\ misled = FALSE
-----------------------------------------------------------------------------
(* page_alloc: first fit; a larger extent keeps its tail, and the head     *)
(* given out keeps the npages of the whole.                                *)
Fits(n) == {i \in DOMAIN list : list[i].n >= n}
AllocSplitEarly(n) ==  \* mutant: the tail starts one page early
  LET i == Min(Fits(n)) IN
    [at |-> list[i].at, word |-> list[i].n,
     list |-> IF list[i].n > n
              THEN [list EXCEPT ![i] = Extent(list[i].at + n - 1, list[i].n - n)]
              ELSE Unlink(list, i)]
PageAlloc(n) ==
  LET i == Min(Fits(n)) IN
    [at |-> list[i].at, word |-> list[i].n,
     list |-> IF list[i].n > n
              THEN [list EXCEPT ![i] = Extent(list[i].at + n, list[i].n - n)]
              ELSE Unlink(list, i)]

(* page_free: the first extent that ends at cur, or that cur, by the word  *)
(* it was left with, ends at or before; none, and the pages are lost.      *)
Found(at, word) ==
  {j \in DOMAIN list : list[j].at + list[j].n = at \/ at + word <= list[j].at}
PageFreeRightOnly(at, n, word) ==  \* mutant: a free extent on the left is not joined
  LET found == {j \in DOMAIN list : at + word <= list[j].at}
      i == Min(found)
      x == list[i]
  IN IF found = {} THEN list
     ELSE IF at + word = x.at THEN [list EXCEPT ![i] = Extent(at, x.n + n)]
     ELSE Link(list, i, Extent(at, n))
PageFree(at, n, word) ==
  LET i == Min(Found(at, word))
      x == list[i]
  IN IF Found(at, word) = {} THEN list
     ELSE IF x.at + x.n = at
     THEN IF i < Len(list) /\ x.at + x.n + n = list[i + 1].at
          THEN Unlink([list EXCEPT ![i] = Extent(x.at, x.n + n + list[i + 1].n)], i + 1)
          ELSE [list EXCEPT ![i] = Extent(x.at, x.n + n)]
     ELSE IF at + word = x.at THEN [list EXCEPT ![i] = Extent(at, x.n + n)]
     ELSE Link(list, i, Extent(at, n))

(* It takes an extent for the right neighbour that is not.                 *)
Misleads(at, n, word) ==
  /\ word # n /\ Found(at, word) # {}
  /\ LET x == list[Min(Found(at, word))] IN x.at + x.n # at /\ at + word = x.at
-----------------------------------------------------------------------------
(* malloc above CHUNK_LIMIT.  Without a fitting extent malloc changes      *)
(* nothing and returns null.                                               *)
MallocPages(n) ==
  /\ ~misled /\ Fits(n) # {}
  /\ LET a == PageAlloc(n) IN
       /\ list' = a.list
       /\ usage' = [usage EXCEPT ![a.at] = [use |-> "page", k |-> n]]
       /\ regions' = regions \cup {Extent(a.at, n)}
       /\ left' = [left EXCEPT ![a.at] = a.word]
  /\ UNCHANGED <<zone, array, spare, chunks, misled>>

(* malloc from the first zone of the list: an untouched chunk before a     *)
(* freed one.                                                              *)
NextChunk(r) == IF r.uindex # NMax THEN r.uindex ELSE Head(r.freechunk)
Take(r) == IF r.uindex # NMax THEN [r EXCEPT !.nfree = @ - 1, !.uindex = @ + 1]
                              ELSE [r EXCEPT !.nfree = @ - 1, !.freechunk = Tail(@)]
MallocKeepsZone(c) ==  \* mutant: a zone without free chunks stays in the list
  /\ ~misled /\ array[c] # <<>>
  /\ LET z == Head(array[c])
     IN /\ zone' = [zone EXCEPT ![z] = Take(zone[z])]
        /\ chunks' = chunks \cup {<<z, NextChunk(zone[z])>>}
  /\ UNCHANGED <<list, usage, array, spare, regions, left, misled>>
MallocChunk(c) ==
  /\ ~misled /\ array[c] # <<>>
  /\ LET z == Head(array[c])
     IN /\ zone' = [zone EXCEPT ![z] = Take(zone[z])]
        /\ array' = [array EXCEPT ![c] = IF zone[z].nfree = 1 THEN Tail(@) ELSE @]
        /\ chunks' = chunks \cup {<<z, NextChunk(zone[z])>>}
  /\ UNCHANGED <<list, usage, spare, regions, left, misled>>

NewZoneFull(c) ==  \* mutant: the chunk given out now is not counted
  [class |-> c, nfree |-> NMax, uindex |-> 1, freechunk |-> <<>>]
NewZone(c) == [class |-> c, nfree |-> NMax - 1, uindex |-> 1, freechunk |-> <<>>]
UseZone(z, c) ==
  /\ zone' = [zone EXCEPT ![z] = NewZone(c)]
  /\ array' = [array EXCEPT ![c] = <<z>>]
  /\ chunks' = chunks \cup {<<z, 0>>}
  /\ UNCHANGED <<regions, left, misled>>

(* malloc with a zone of ZONE_FREE, and with new pages.                    *)
MallocSpareZone(c) ==
  /\ ~misled /\ array[c] = <<>> /\ spare # <<>>
  /\ UseZone(Head(spare), c)
  /\ spare' = Tail(spare)
  /\ UNCHANGED <<list, usage>>
MallocUntagged(c) ==  \* mutant: only the first page is marked as the zone's
  /\ ~misled /\ array[c] = <<>> /\ spare = <<>> /\ Fits(ZonePages) # {}
  /\ LET a == PageAlloc(ZonePages) IN
       /\ list' = a.list
       /\ usage' = [usage EXCEPT ![a.at] = [use |-> "zone", k |-> 0]]
       /\ UseZone(a.at, c)
  /\ UNCHANGED spare
MallocNewZone(c) ==
  /\ ~misled /\ array[c] = <<>> /\ spare = <<>> /\ Fits(ZonePages) # {}
  /\ LET a == PageAlloc(ZonePages) IN
       /\ list' = a.list
       /\ usage' = [pg \in Pages |-> IF pg \in a.at .. a.at + ZonePages - 1
                                     THEN [use |-> "zone", k |-> pg - a.at] ELSE usage[pg]]
       /\ UseZone(a.at, c)
  /\ UNCHANGED spare

-----------------------------------------------------------------------------
(* The page a chunk lies in: the chunks of a zone fill its pages.          *)
PageOf(chunk) == chunk[1] + (chunk[2] * ZonePages) \div NMax

Keep == Len(spare) < FreeLimit
Give(r, k) == [r EXCEPT !.nfree = @ + 1, !.freechunk = <<k>> \o @]

(* free of a chunk: the zone, by the usage of its page; back into the list *)
(* of its class when it was full; and out of it when it is empty and not   *)
(* the last of its class, to ZONE_FREE or to the free pages.               *)
FreeChunk(chunk, word) ==
  LET z == PageOf(chunk) - usage[PageOf(chunk)].k
      c == zone[z].class
      back == Give(zone[z], chunk[2])
      empty == back.nfree # 1 /\ back.nfree = NMax /\ Len(array[c]) > 1
  IN /\ ~misled /\ chunk \in chunks /\ usage[PageOf(chunk)].use = "zone"
     /\ chunks' = chunks \ {chunk}
     /\ array' = [array EXCEPT ![c] = IF back.nfree = 1 THEN <<z>> \o @
                                      ELSE IF empty THEN RemoveNode(@, z) ELSE @]
     /\ spare' = IF empty /\ Keep THEN <<z>> \o spare ELSE spare
     /\ zone' = [zone EXCEPT ![z] = IF empty /\ ~Keep THEN NoZone ELSE back]
     /\ IF empty /\ ~Keep
        THEN /\ list' = PageFree(z, ZonePages, word) /\ misled' = Misleads(z, ZonePages, word)
             /\ usage' = [pg \in Pages |-> IF pg \in z .. z + ZonePages - 1 THEN FreePage ELSE usage[pg]]
        ELSE UNCHANGED <<list, usage, misled>>
     /\ UNCHANGED <<regions, left>>

FreePages(x, word) ==
  /\ ~misled /\ x \in regions
  /\ list' = PageFree(x.at, x.n, word) /\ misled' = Misleads(x.at, x.n, word)
  /\ usage' = [usage EXCEPT ![x.at] = FreePage]
  /\ regions' = regions \ {x} /\ left' = [left EXCEPT ![x.at] = 0]
  /\ UNCHANGED <<zone, array, spare, chunks>>

Mallocs ==
  \/ \E n \in 1 .. MaxRegion : MallocPages(n)
  \/ \E c \in Classes : MallocChunk(c) \/ MallocSpareZone(c) \/ MallocNewZone(c)

(* The word is what page_alloc left or what the owner wrote; in a zone it  *)
(* is a field of the SlabZone.                                             *)
Next ==
  \/ Mallocs
  \/ \E x \in regions : \E word \in {left[x.at]} \cup Words : FreePages(x, word)
  \/ \E chunk \in chunks, word \in Words : FreeChunk(chunk, word)
Spec == Init /\ [][Next]_vars
-----------------------------------------------------------------------------
Zones == {pg \in Pages : zone[pg] # NoZone}
Areas ==  \* each with what it serves as
  {<<"free", x>> : x \in Range(list)} \cup {<<"page", x>> : x \in regions}
    \cup {<<"zone", Extent(z, ZonePages)>> : z \in Zones}

(* No page belongs to two of the free extents, regions and zones, and none *)
(* to the usage array.                                                     *)
OneOwner ==
  /\ IsInjective(list)
  /\ \A a, b \in Areas : a # b => PagesOf(a[2]) \cap PagesOf(b[2]) = {}
  /\ \A a \in Areas : 0 \notin PagesOf(a[2])

(* Two owners never get the same memory unless page_free joined pages with *)
(* an extent that is not beside them: whatever else the word it compares   *)
(* by makes it do, and in whatever order the list then is, the free        *)
(* extents, the regions and the zones stay apart.                          *)
PagesApart == ~misled => OneOwner

(* Unless it is misled in this way, freed pages leave the heap for ever    *)
(* only when no free extent ends where they begin.                         *)
Held == UNION {PagesOf(a[2]) : a \in Areas}
JoinedOnTheLeft ==
  [][~misled' => \A pg \in Held \ Held' :
       pg - 1 \in Held \ Held' \/ \A x \in Range(list) : x.at + x.n # pg]_vars

(* page_free as its comments read: no page is lost.                        *)
NoPageLost == Held = Pages \ {0}

(* A chunk has one owner: those in use and those on the free list of a     *)
(* zone are different, and with the untouched ones they are all of it.     *)
ChunksOnce ==
  \A z \in Zones :
    LET used == {k \in 0 .. NMax - 1 : <<z, k>> \in chunks}
        freed == Range(zone[z].freechunk)
    IN /\ used \cap freed = {} /\ used \cup freed = 0 .. zone[z].uindex - 1
       /\ IsInjective(zone[z].freechunk)
       /\ zone[z].nfree = NMax - Cardinality(used)

(* The list of a class has exactly the zones of the class with free        *)
(* chunks, each once; the zones of ZONE_FREE have no chunk in use.         *)
ListsExact ==
  /\ IsInjective(spare) /\ \A z \in Range(spare) : zone[z].nfree = NMax
  /\ \A c \in Classes :
       /\ IsInjective(array[c])
       /\ Range(array[c]) =
            {z \in Zones \ Range(spare) : zone[z].class = c /\ zone[z].nfree > 0}

(* free finds from an address the zone or the region it was given out of.  *)
UsageLeadsHome ==
  /\ \A chunk \in chunks :
       LET u == usage[PageOf(chunk)] IN u.use = "zone" /\ PageOf(chunk) - u.k = chunk[1]
  /\ \A x \in regions : usage[x.at] = [use |-> "page", k |-> x.n]
-----------------------------------------------------------------------------
(* zone_index: the size is rounded up to a multiple of 2^i, where i grows  *)
(* with the size; and the place of the first chunk in a zone of that size. *)
Bits(n) == Max({b \in 1 .. 20 : 2 ^ (b - 1) <= n})
RoundUp(n, k) == ((n + k - 1) \div k) * k
ShiftOf(n) == Max({7, Bits(n)}) - 4
Rounded(n) == RoundUp(n, 2 ^ ShiftOf(n))
ZoneIndex(n) == Rounded(n) \div 2 ^ ShiftOf(n) + 8 * (ShiftOf(n) - 3) - 1
FirstChunk(size) ==
  IF 2 ^ (Bits(size) - 1) = size THEN RoundUp(HeadSize, size) ELSE RoundUp(HeadSize, 8)

(* For every size up to the limit: the index is one of the 72 of           *)
(* ZONE_ARRAY, two sizes share a list exactly if they are rounded to the   *)
(* same, a chunk is large enough and as aligned as alloc must make it (8   *)
(* bytes, or its size when that is a power of two), and at least three of  *)
(* them fit behind the head of the zone.                                   *)
SizesSound ==
  \A n \in 1 .. ChunkLimit :
    LET size == Rounded(n)
        first == FirstChunk(size)
        last == first + ((ZoneSize - first) \div size) * size
    IN /\ ZoneIndex(n) \in 0 .. 71 /\ size >= n
       /\ n > 1 => (ZoneIndex(n) = ZoneIndex(n - 1) + IF size = Rounded(n - 1) THEN 0 ELSE 1)
       /\ size % 8 = 0 /\ first % 8 = 0 /\ (2 ^ (Bits(n) - 1) = n /\ n >= 8 => size = n /\ first % n = 0)
       /\ first >= HeadSize /\ last <= ZoneSize /\ last >= first + 3 * size
=============================================================================
