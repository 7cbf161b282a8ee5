------------------------ MODULE AddressSpace_proofs -------------------------
(***************************************************************************)
(* The theorems about AddressSpace, for every number of processes, frames  *)
(* and pages and every program image.  Four parts: where pages and areas   *)
(* lie; copy-on-write, one lemma for each operation, called as in Next;    *)
(* counting trackers, one lemma for each operation with any argument; and  *)
(* what holds whatever calls the programs make (SpecAny) and when they use *)
(* them as Next does (Spec).                                               *)
(***************************************************************************)
EXTENDS AddressSpace_inv, FiniteSetTheorems, TLAPS

(* Leaves that name no prover are Zenon's; those that reason about numbers, *)
(* records or updates of functions name the SMT solver.                     *)
USE ZenonT(60)

-----------------------------------------------------------------------------
(***************************************************************************)
(* Where pages and areas lie: page arithmetic, the areas of a loaded       *)
(* program, lookups by address, and a data segment whose break moves up.   *)
(***************************************************************************)

(* Facts about numbers that the counting below uses.                       *)

(* Sums with zero and one.                                                 *)
LEMMA SmallSums ==
  ASSUME NEW m \in Nat
  PROVE  m + 0 = m /\ 0 + m = m /\ 1 * m = m /\ (m # 0 => m > 0) /\ (1 # 0)
  BY SMTT(40)

(* Parts that do not overlap.                                              *)
LEMMA NoOverlap ==
  ASSUME NEW m \in Nat, NEW n \in Nat, NEW i, i = 0
  PROVE  m + n - i = m + n /\ m + n \in Nat
  BY SMTT(40)

(* A total made of one part leaves nothing to the other.                   *)
LEMMA NoneLeft ==
  ASSUME NEW o \in Nat, NEW c \in Nat, o + c = 0 \/ o + c = c
  PROVE  o = 0 /\ (o + c = 0 => c = 0)
  BY SMTT(40)

(* What remains of a total when l of it goes.                              *)
LEMMA Remainder ==
  ASSUME NEW o \in Nat, NEW n \in Nat, NEW l \in Nat
  PROVE  /\ o + (n + l) - l = o + n
         /\ o + (n + l) = 0 \/ (l > 0 /\ o + (n + l) = l) <=> o + n = 0
         /\ o > 0 \/ n > 0 => o + (n + l) # l
         /\ o + n \in Nat
         /\ o + n = 0 <=> (o + n) + n = 0
  BY SMTT(40)

(* Order.                                                                  *)
LEMMA Order ==
  ASSUME NEW m \in Nat, NEW n \in Nat
  PROVE  /\ m <= n \/ n < m
         /\ m >= n \/ m < n
         /\ m < n => m <= n
         /\ m <= 1 \/ m > 1
         /\ m <= 1 /\ m - 1 \in Nat => m - 1 = 0
         /\ \A k \in Nat : m <= k /\ k <= n => m <= n
  BY SMTT(40)

(* A range that reaches into another, or stays within it.                  *)
LEMMA RangeJoin ==
  ASSUME NEW s \in Nat, NEW e \in Nat, NEW d \in Nat, NEW x \in Nat, d <= e
  PROVE  /\ s .. (x - 1) \subseteq (s .. (e - 1)) \cup (d .. (x - 1))
         /\ x <= d => s .. (x - 1) \subseteq s .. (e - 1)
  BY SMTT(40)

(* Page arithmetic.                                                        *)

(* What division by the page size leaves.                                  *)
LEMMA DivFacts ==
  ASSUME NEW x \in Nat
  PROVE  /\ x \div PageSize \in Nat
         /\ PageSize * (x \div PageSize) <= x
         /\ x < PageSize * (x \div PageSize) + PageSize
  BY ConstantsAssumption, Z3T(40)

(* Division by the page size is monotonic.                                 *)
LEMMA DivMono ==
  ASSUME NEW x \in Nat, NEW y \in Nat, x <= y
  PROVE  x \div PageSize <= y \div PageSize
  <1> DEFINE a == x \div PageSize
             b == y \div PageSize
  <1>1. /\ a \in Nat /\ b \in Nat /\ PageSize \in Nat /\ PageSize > 0
        /\ PageSize * a <= x /\ y < PageSize * b + PageSize
    BY DivFacts, ConstantsAssumption, SMTT(40)
  <1> HIDE DEF a, b
  <1>2. SUFFICES ASSUME a >= b + 1 PROVE FALSE
    BY <1>1, SMTT(40) DEF a, b
  <1>3. PageSize * a >= PageSize * (b + 1)
    BY <1>1, <1>2, Z3T(40)
  <1>4. PageSize * (b + 1) = PageSize * b + PageSize
    BY <1>1, Z3T(40)
  <1> QED
    BY <1>1, <1>3, <1>4, SMTT(40)

(* Rounded addresses are numbers, and rounding up does not go down.        *)
LEMMA RoundFacts ==
  ASSUME NEW x \in Nat
  PROVE  Floor(x) \in Nat /\ Ceil(x) \in Nat /\ RoundUp(x) \in Nat /\ RoundUp(x) >= x
  <1>1. x + PageSize - 1 \in Nat /\ PageSize \in Nat
    BY ConstantsAssumption, SMTT(40)
  <1>2. Floor(x) \in Nat /\ Ceil(x) \in Nat
    BY <1>1, DivFacts DEF Floor, Ceil
  <1>3. x + PageSize - 1 < PageSize * Ceil(x) + PageSize
    BY <1>1, DivFacts DEF Ceil
  <1>4. RoundUp(x) = PageSize * Ceil(x) /\ RoundUp(x) \in Nat
    BY <1>1, <1>2, SMTT(40) DEF RoundUp
  <1> QED
    BY <1>1, <1>2, <1>3, <1>4, SMTT(40)
(* Ranges with a page boundary between them share no page.                 *)
LEMMA RangesApart ==
  ASSUME NEW x \in Nat, NEW y \in Nat, RoundUp(x) <= y, NEW s \in Nat, NEW e \in Nat
  PROVE  VpnRange(s, x) \cap VpnRange(y, e) = {}
  <1>1. /\ PageSize \in Nat /\ PageSize > 0
        /\ Ceil(x) \in Nat /\ Floor(y) \in Nat /\ Floor(s) \in Nat /\ Ceil(e) \in Nat
    BY RoundFacts, ConstantsAssumption, SMTT(40)
  <1>2. PageSize * Ceil(x) <= y
    BY <1>1, SMTT(40) DEF RoundUp
  <1>3. y < PageSize * Floor(y) + PageSize
    BY DivFacts DEF Floor
  <1>4. Ceil(x) <= Floor(y)
    <2> SUFFICES ASSUME Ceil(x) >= Floor(y) + 1 PROVE FALSE
      BY <1>1, SMTT(40)
    <2>1. PageSize * Ceil(x) >= PageSize * (Floor(y) + 1)
      BY <1>1, Z3T(40)
    <2>2. PageSize * (Floor(y) + 1) = PageSize * Floor(y) + PageSize
      BY <1>1, Z3T(40)
    <2> QED
      BY <1>1, <1>2, <1>3, <2>1, <2>2, SMTT(40)
  <1> QED
    BY <1>1, <1>4, SMTT(40) DEF VpnRange

(* Rounding up is monotonic.                                               *)
LEMMA CeilMono ==
  ASSUME NEW x \in Nat, NEW y \in Nat, x <= y
  PROVE  Ceil(x) <= Ceil(y)
  <1>1. /\ x + PageSize - 1 \in Nat /\ y + PageSize - 1 \in Nat
        /\ x + PageSize - 1 <= y + PageSize - 1
    BY ConstantsAssumption, SMTT(40)
  <1> QED
    BY <1>1, DivMono DEF Ceil

(* An address that was rounded up is the start of its page,                *)
LEMMA FloorRoundUp ==
  ASSUME NEW x \in Nat
  PROVE  Floor(RoundUp(x)) = Ceil(x)
  <1>1. PageSize \in Nat \ {0} /\ Ceil(x) \in Nat /\ RoundUp(x) = Ceil(x) * PageSize
    BY RoundFacts, ConstantsAssumption DEF RoundUp
  <1> DEFINE y == RoundUp(x)
             k == Floor(y)
  <1>2. y \in Nat /\ k \in Nat /\ PageSize * k <= y /\ y < PageSize * k + PageSize
    BY RoundFacts, DivFacts DEF Floor
  <1>3. PageSize * k <= PageSize * Ceil(x) /\ PageSize * Ceil(x) < PageSize * (k + 1)
    <2>1. y = PageSize * Ceil(x)
      BY <1>1, SMTT(40)
    <2> HIDE DEF y, k
    <2>2. PageSize * (k + 1) = PageSize * k + PageSize
      BY <1>1, <1>2, Z3T(40)
    <2> QED
      BY <1>2, <2>1, <2>2
  <1> HIDE DEF y, k
  <1>4. k <= Ceil(x) /\ Ceil(x) < k + 1
    <2>1. ASSUME k > Ceil(x) PROVE FALSE
      <3>1. PageSize * k > PageSize * Ceil(x)
        BY <1>1, <1>2, <2>1, Z3T(40)
      <3> QED
        BY <1>1, <1>2, <1>3, <3>1, SMTT(40)
    <2>2. ASSUME Ceil(x) >= k + 1 PROVE FALSE
      <3>1. PageSize * Ceil(x) >= PageSize * (k + 1)
        BY <1>1, <1>2, <2>2, Z3T(40)
      <3> QED
        BY <1>1, <1>2, <1>3, <3>1, SMTT(40)
    <2> QED
      BY <1>1, <1>2, <2>1, <2>2, SMTT(40)
  <1> QED
    BY <1>1, <1>2, <1>4, SMTT(40) DEF y, k

(* and rounding it up again changes nothing.                               *)
LEMMA CeilRoundUp ==
  ASSUME NEW x \in Nat
  PROVE  Ceil(RoundUp(x)) = Ceil(x)
  <1> DEFINE k == Ceil(x)
  <1>1. PageSize \in Nat \ {0} /\ k \in Nat /\ RoundUp(x) = PageSize * k /\ RoundUp(x) \in Nat
    BY RoundFacts, ConstantsAssumption, SMTT(40) DEF RoundUp
  <1> DEFINE z == RoundUp(x) + PageSize - 1
             m == Ceil(RoundUp(x))
  <1>2. z \in Nat /\ m \in Nat /\ PageSize * m <= z /\ z < PageSize * m + PageSize
    BY <1>1, RoundFacts, DivFacts, SMTT(40) DEF Ceil
  <1>3. z = PageSize * k + PageSize - 1
    BY <1>1
  <1> HIDE DEF z, m, k
  <1>4. PageSize * (m + 1) = PageSize * m + PageSize /\ PageSize * (k + 1) = PageSize * k + PageSize
        /\ PageSize * m \in Nat /\ PageSize * k \in Nat
    BY <1>1, <1>2, Z3T(40)
  <1>5. ASSUME m >= k + 1 PROVE FALSE
    <2>1. PageSize * m >= PageSize * (k + 1)
      BY <1>1, <1>2, <1>5, Z3T(40)
    <2> QED
      BY <1>1, <1>2, <1>3, <1>4, <2>1, SMTT(40)
  <1>6. ASSUME k >= m + 1 PROVE FALSE
    <2>1. PageSize * k >= PageSize * (m + 1)
      BY <1>1, <1>2, <1>6, Z3T(40)
    <2> QED
      BY <1>1, <1>2, <1>3, <1>4, <2>1, SMTT(40)
  <1>7. m = k
    BY <1>1, <1>2, <1>5, <1>6, SMTT(40)
  <1> QED
    BY <1>7 DEF m, k

(* The page of an address of a range is a page of the range.               *)
LEMMA FloorInRange ==
  ASSUME NEW start \in Nat, NEW end \in Nat, NEW va \in Nat, start <= va, va < end
  PROVE  Floor(va) \in VpnRange(start, end)
  <1>1. /\ Floor(va) \in Nat /\ Floor(start) \in Nat /\ Ceil(end) \in Nat
        /\ RoundUp(end) \in Nat /\ RoundUp(end) >= end /\ PageSize \in Nat \ {0}
    BY RoundFacts, ConstantsAssumption
  <1>2. Floor(start) <= Floor(va)
    BY DivMono DEF Floor
  <1>3. PageSize * Floor(va) <= va
    BY DivFacts DEF Floor
  <1>4. va < PageSize * Ceil(end)
    BY <1>1, SMTT(40) DEF RoundUp
  <1>5. ASSUME Floor(va) >= Ceil(end) PROVE FALSE
    <2>1. PageSize * Floor(va) >= PageSize * Ceil(end)
      BY <1>1, <1>5, Z3T(40)
    <2> QED
      BY <1>1, <1>3, <1>4, <2>1, SMTT(40)
  <1> QED
    BY <1>1, <1>2, <1>5, SMTT(40) DEF VpnRange

(* An area made from a range of the address space is well formed.          *)
LEMMA MapAreaType ==
  ASSUME NEW start \in Nat, NEW end \in Nat, NEW w \in BOOLEAN,
         VpnRange(start, end) \subseteq Vpns
  PROVE  Area(start, end, w) \in MapArea
  BY DEF Area, MapArea

(* The pages of the other areas, when none overlaps the area taken away.   *)
LEMMA PagesWithout ==
  ASSUME NEW as, NEW a \in as, \A b \in as : b # a => b.pages \cap a.pages = {}
  PROVE  PagesOf(as \ {a}) = PagesOf(as) \ a.pages
  <1>1. ASSUME NEW v \in PagesOf(as \ {a})
        PROVE  v \in PagesOf(as) /\ v \notin a.pages
    BY <1>1 DEF PagesOf
  <1>2. ASSUME NEW v \in PagesOf(as), v \notin a.pages
        PROVE  v \in PagesOf(as \ {a})
    BY <1>2 DEF PagesOf
  <1> QED
    BY <1>1, <1>2

(* The entry of a page just mapped.                                        *)
LEMMA EntryType ==
  ASSUME NEW f \in Frames, NEW w \in BOOLEAN
  PROVE  /\ [ppn |-> f, w |-> w, cow |-> FALSE] \in Entry
         /\ [ppn |-> f, w |-> w, cow |-> FALSE].ppn = f
  BY SMTT(40) DEF Entry

(* Addresses are numbers.                                                  *)
LEMMA AddressNat == \A va \in VAs : va \in Nat
  BY ONLY ConstantsAssumption, SMTT(40) DEF VAs

(* The areas from_elf makes are well formed and track the pages of their   *)
(* ranges.                                                                 *)
LEMMA ImageFacts ==
  /\ ImageAreas \subseteq MapArea
  /\ \A a \in ImageAreas : a.pages = VpnRange(a.start, a.end)
  /\ PagesOf(ImageAreas) \subseteq Vpns
  /\ ImageMax \in Nat
  <1>1. ASSUME NEW a \in ImageAreas
        PROVE  a \in MapArea /\ a.pages = VpnRange(a.start, a.end)
    BY ImageAssumption, MapAreaType, SMTT(40) DEF ImageAreas, Area
  <1>2. ImageMax \in Nat
    BY RoundFacts, ImageAssumption, ConstantsAssumption, SMTT(40) DEF ImageMax
  <1> QED
    BY <1>1, <1>2 DEF PagesOf, MapArea
-----------------------------------------------------------------------------
(* How areas lie.                                                          *)

(* Rounding up adds less than a page.                                      *)
LEMMA RoundUpBound ==
  ASSUME NEW x \in Nat
  PROVE  RoundUp(x) \in Nat /\ x <= RoundUp(x) /\ RoundUp(x) < x + PageSize
  <1>1. x + PageSize - 1 \in Nat /\ PageSize \in Nat
    BY ConstantsAssumption, SMTT(40)
  <1>2. PageSize * Ceil(x) <= x + PageSize - 1 /\ Ceil(x) \in Nat
    BY <1>1, DivFacts DEF Ceil
  <1>3. RoundUp(x) = PageSize * Ceil(x)
    BY <1>1, <1>2, SMTT(40) DEF RoundUp
  <1> QED
    BY <1>1, <1>2, <1>3, RoundFacts, SMTT(40)

(* Areas that are clear of each other share no page.                       *)
LEMMA ClearPages ==
  ASSUME NEW a \in MapArea, NEW b \in MapArea, Exact(a), Exact(b), Clear(a, b)
  PROVE  a.pages \cap b.pages = {}
  <1>1. a.start \in Nat /\ a.end \in Nat /\ b.start \in Nat /\ b.end \in Nat
    BY DEF MapArea
  <1>2. RoundUp(a.end) \in Nat /\ RoundUp(b.end) \in Nat
    BY <1>1, RoundUpBound
  <1>3. CASE RoundUp(a.end) <= b.start
    BY <1>1, <1>2, <1>3, RangesApart, SMTT(40) DEF Exact
  <1>4. CASE RoundUp(b.end) <= a.start
    BY <1>1, <1>2, <1>4, RangesApart, SMTT(40) DEF Exact
  <1> QED
    BY <1>3, <1>4 DEF Clear

(* The lookup finds the area that contains the address, its end included,  *)
(* also if another one begins there, but not if another one ends there.    *)
LEMMA AreaFound ==
  ASSUME NEW as \in SUBSET MapArea, Separate(as), Shaped(as), NEW va \in Nat, NEW a \in as,
         a.start <= va, va <= a.end, a.start < va \/ \A b \in as : b.end # va
  PROVE  IsAreaAt(as, va, a)
  <1>1. ASSUME NEW b \in as, b.start <= va, va <= b.end PROVE a.start <= b.start
    <2>1. /\ a.start \in Nat /\ a.end \in Nat /\ b.start \in Nat /\ b.end \in Nat
          /\ RoundUp(a.end) \in Nat /\ RoundUp(b.end) \in Nat
          /\ a.end <= RoundUp(a.end) /\ b.end <= RoundUp(b.end)
      BY RoundUpBound DEF MapArea
    <2>2. a = b \/ RoundUp(a.end) <= b.start \/ RoundUp(b.end) <= a.start
      BY DEF Separate, Clear
    <2>3. CASE RoundUp(b.end) <= a.start
      <3>1. b.end = va /\ a.start = va
        BY <1>1, <2>1, <2>3, SMTT(40)
      <3>2. ~(a.start < va)
        BY <2>1, <3>1, SMTT(40)
      <3> QED
        BY <3>1, <3>2
    <2>4. CASE RoundUp(a.end) <= b.start \/ a = b
      BY <2>1, <2>4, <1>1, SMTT(40)
    <2> QED
      BY <2>2, <2>3, <2>4
  <1> QED
    BY <1>1 DEF IsAreaAt

(* It finds one area only.                                                 *)
LEMMA AreaUnique ==
  ASSUME NEW as \in SUBSET MapArea, Separate(as), Shaped(as), NEW va \in Nat, NEW a \in as, NEW b \in as,
         IsAreaAt(as, va, a), IsAreaAt(as, va, b)
  PROVE  a = b
  <1>1. /\ a.start \in Nat /\ a.end \in Nat /\ b.start \in Nat /\ b.end \in Nat
        /\ a.start < a.end /\ b.start < b.end
    BY DEF MapArea, Shaped, Exact
  <1>2. RoundUp(a.end) \in Nat /\ RoundUp(b.end) \in Nat /\ a.end <= RoundUp(a.end) /\ b.end <= RoundUp(b.end)
    BY <1>1, RoundUpBound
  <1>3. a.start <= b.start /\ b.start <= a.start
    BY DEF IsAreaAt
  <1>4. ~Clear(a, b)
    BY <1>1, <1>2, <1>3, SMTT(40) DEF Clear
  <1> QED
    BY <1>4 DEF Separate

(* What alloc_user_area finds is clear of every area and lies above        *)
(* data_segment_max, with a page left free.                                *)
LEMMA UserArea ==
  ASSUME NEW as \in SUBSET MapArea, NEW max \in Nat, NEW size \in Nat \ {0}, NEW end \in Nat,
         IsUserArea(as, max, size, end), NEW w
  PROVE  /\ end - size \in Nat /\ max + PageSize <= end - size
         /\ Exact(Area(end - size, end, w))
         /\ \A a \in as : Clear(Area(end - size, end, w), a)
  <1>1. max + PageSize + size <= end /\ Clears(as, size, end) /\ PageSize \in Nat \ {0}
    BY ConstantsAssumption DEF IsUserArea
  <1>2. end - size \in Nat /\ max + PageSize <= end - size /\ end - size < end
    BY <1>1, SMTT(40)
  <1>3. Exact(Area(end - size, end, w))
    BY <1>2 DEF Exact, Area
  <1>4. ASSUME NEW a \in as PROVE RoundUp(end) <= a.start \/ RoundUp(a.end) <= end - size
    <2>1. a.start \in Nat /\ a.end \in Nat
      BY DEF MapArea
    <2>2. RoundUp(end) \in Nat /\ RoundUp(end) < end + PageSize /\ RoundUp(a.end) \in Nat
      BY <2>1, RoundUpBound
    <2>3. end + PageSize <= a.start \/ RoundUp(a.end) + PageSize + size <= end
      BY <1>1 DEF Clears
    <2> QED
      BY <1>1, <1>2, <2>1, <2>2, <2>3, SMTT(40)
  <1>5. Area(end - size, end, w).start = end - size /\ Area(end - size, end, w).end = end
    BY DEF Area
  <1> QED
    BY <1>2, <1>3, <1>4, <1>5 DEF Clear

(* One more area, clear of the others.                                     *)
LEMMA OneMore ==
  ASSUME NEW as, Separate(as), Shaped(as), NEW x, Exact(x), \A a \in as : Clear(x, a)
  PROVE  Separate(as \cup {x}) /\ Shaped(as \cup {x})
  BY DEF Separate, Shaped, Clear

(* A loaded program: its data segment ends at the break, its stack lies    *)
(* above data_segment_max.                                                 *)
LEMMA ProgramLaidOut ==
  ASSUME NEW end \in VAs, IsUserArea(ImageAreas, ImageMax, StackSize, end)
  PROVE  /\ Separate(ProgramAreas(end)) /\ Shaped(ProgramAreas(end))
         /\ HasData(ProgramAreas(end), ImageEnd, ImageMax)
         /\ HasStack(ProgramAreas(end), ImageMax, end)
  <1> DEFINE x == StackArea(end)
  <1>1. /\ ImageAreas \in SUBSET MapArea /\ ImageMax \in Nat /\ end \in Nat
        /\ StackSize \in Nat \ {0} /\ PageSize \in Nat \ {0}
    BY ImageFacts, ConstantsAssumption, SMTT(40) DEF VAs
  <1>2. /\ end - StackSize \in Nat /\ ImageMax + PageSize <= end - StackSize
        /\ Exact(x) /\ \A a \in ImageAreas : Clear(x, a)
    BY <1>1, UserArea DEF StackArea
  <1>3. ASSUME NEW a \in ImageAreas PROVE Exact(a)
    BY ImageAssumption, SMTT(40) DEF ImageAreas, Area, Exact
  <1>4. ASSUME NEW a \in ImageAreas, NEW b \in ImageAreas, a # b PROVE Clear(a, b)
    BY <1>4, ImageAssumption, SMTT(40) DEF ImageAreas, Area, Clear
  <1>5. Separate(ProgramAreas(end)) /\ Shaped(ProgramAreas(end))
    <2>1. Separate(ImageAreas) /\ Shaped(ImageAreas)
      BY <1>3, <1>4 DEF Separate, Shaped
    <2> QED
      BY <1>2, <2>1, OneMore DEF ProgramAreas
  <1>6. x.start = end - StackSize /\ x.end = end
    BY DEF StackArea, Area
  <1>7. HasStack(ProgramAreas(end), ImageMax, end)
    BY <1>1, <1>2, <1>6, SMTT(40) DEF HasStack, ProgramAreas
  <1>8. HasData(ProgramAreas(end), ImageEnd, ImageMax)
    <2>1. PICK s \in Image : s.end = ImageEnd
      BY ImageAssumption
    <2> DEFINE d == Area(s.start, s.end, s.w)
    <2>2. d \in ImageAreas /\ d.start = s.start /\ d.end = ImageEnd
      BY <2>1 DEF ImageAreas, Area
    <2> HIDE DEF d
    <2>3. ImageEnd \in Nat /\ ImageEnd <= ImageMax
      BY RoundUpBound, ImageAssumption, ConstantsAssumption, SMTT(40) DEF ImageMax
    <2>4. ASSUME NEW b \in ImageAreas, b # d PROVE RoundUp(b.end) <= d.start
      <3>1. Clear(b, d) /\ b \in MapArea /\ Exact(b) /\ d \in MapArea
        BY <1>1, <1>3, <1>4, <2>2, <2>4
      <3>2. b.start \in Nat /\ b.end \in Nat /\ d.start \in Nat /\ b.start < b.end
        BY <3>1 DEF MapArea, Exact
      <3>3. b.end <= ImageEnd
        BY ImageAssumption, SMTT(40) DEF ImageAreas, Area
      <3>4. RoundUp(ImageEnd) \in Nat /\ ImageEnd <= RoundUp(ImageEnd)
        BY <2>3, RoundUpBound
      <3>5. ~(RoundUp(d.end) <= b.start)
        BY <2>2, <2>3, <3>2, <3>3, <3>4, SMTT(40)
      <3> QED
        BY <3>1, <3>5 DEF Clear
    <2>5. IsData(ProgramAreas(end), ImageEnd, ImageMax, d)
      BY <1>2, <1>6, <2>2, <2>3, <2>4 DEF IsData, ProgramAreas
    <2> QED
      BY <2>2, <2>5 DEF HasData, ProgramAreas
  <1> QED
    BY <1>5, <1>7, <1>8

(* The pages brk maps when the break moves up from end to addr.            *)
BrkPages(end, addr) == IF addr >= RoundUp(end) THEN VpnRange(RoundUp(end), addr) ELSE {}

(* They extend the range of the data segment exactly.                      *)
LEMMA BrkExact ==
  ASSUME NEW start \in Nat, NEW end \in Nat, NEW addr \in Nat, start < end, end <= addr
  PROVE  VpnRange(start, end) \cup BrkPages(end, addr) = VpnRange(start, addr)
  <1> DEFINE cur == RoundUp(end)
  <1>1. /\ Floor(start) \in Nat /\ Ceil(end) \in Nat /\ Ceil(addr) \in Nat /\ cur \in Nat
        /\ Floor(cur) = Ceil(end) /\ Ceil(end) <= Ceil(addr)
    BY RoundFacts, FloorRoundUp, CeilMono
  <1>2. Floor(start) <= Ceil(end)
    <2>1. Floor(start) <= Floor(cur)
      BY <1>1, RoundUpBound, DivMono, SMTT(40) DEF Floor
    <2> QED
      BY <1>1, <2>1
  <1>3. CASE addr >= cur
    <2>1. BrkPages(end, addr) = Ceil(end) .. (Ceil(addr) - 1)
      BY <1>1, <1>3 DEF BrkPages, VpnRange
    <2> QED
      BY <1>1, <1>2, <2>1, SMTT(40) DEF VpnRange
  <1>4. CASE addr < cur
    <2>1. Ceil(addr) <= Ceil(cur)
      BY <1>1, <1>4, CeilMono, SMTT(40)
    <2>2. Ceil(cur) = Ceil(end)
      BY CeilRoundUp
    <2>3. Ceil(addr) = Ceil(end)
      BY <1>1, <2>1, <2>2, SMTT(40)
    <2>4. BrkPages(end, addr) = {}
      BY <1>1, <1>4, SMTT(40) DEF BrkPages
    <2> QED
      BY <2>3, <2>4 DEF VpnRange
  <1> QED
    BY <1>1, <1>3, <1>4, SMTT(40)

(* Among the areas as, the area a at the break becomes b: the break moves  *)
(* up from end to addr.                                                    *)
MovesUp(as, end, max, top, addr, a, b) ==
  /\ as \in SUBSET MapArea /\ Separate(as) /\ Shaped(as)
  /\ end \in Nat /\ max \in Nat /\ addr \in Nat /\ end <= addr /\ addr <= max
  /\ HasData(as, end, max) /\ HasStack(as, max, top)
  /\ a \in as /\ IsAreaAt(as, end, a)
  /\ b \in MapArea /\ b.start = a.start /\ b.end = addr
  /\ b.pages = a.pages \cup BrkPages(end, addr)

(* brk finds the data segment, and moving the break up leaves the areas    *)
(* laid out; the pages it maps belong to no area.                          *)
LEMMA BrkLaidOut ==
  ASSUME NEW as, NEW end, NEW max, NEW top, NEW addr, NEW a, NEW b,
         MovesUp(as, end, max, top, addr, a, b)
  PROVE  /\ Separate((as \ {a}) \cup {b}) /\ Shaped((as \ {a}) \cup {b})
         /\ HasData((as \ {a}) \cup {b}, addr, max)
         /\ HasStack((as \ {a}) \cup {b}, max, top)
         /\ \A c \in as : c.pages \cap BrkPages(end, addr) = {}
  <1> USE DEF MovesUp
  <1> DEFINE next == (as \ {a}) \cup {b}
  <1>1. /\ a.start \in Nat /\ a.end \in Nat /\ a.start < a.end /\ a.pages = VpnRange(a.start, a.end)
        /\ PageSize \in Nat \ {0}
    BY ConstantsAssumption DEF MapArea, Shaped, Exact
  <1>2. IsData(as, end, max, a)
    <2>1. PICK d \in as : IsData(as, end, max, d)
      BY DEF HasData
    <2>2. d.start <= end /\ end <= d.end /\ d.start < end
      <3>1. d.start \in Nat /\ d.start < d.end /\ d.end = end
        BY <2>1 DEF Shaped, Exact, IsData, MapArea
      <3> QED
        BY <3>1, SMTT(40)
    <2>3. IsAreaAt(as, end, d)
      BY <2>2, AreaFound
    <2>4. d = a
      BY <2>3, AreaUnique
    <2> QED
      BY <2>1, <2>4
  <1>3. /\ a.end = end
        /\ \A c \in as \ {a} : RoundUp(c.end) <= a.start \/ max + PageSize <= c.start
    BY <1>2 DEF IsData
  <1>4. RoundUp(addr) \in Nat /\ RoundUp(addr) < max + PageSize /\ RoundUp(end) \in Nat /\ end <= RoundUp(end)
    BY <1>1, RoundUpBound, SMTT(40)
  <1>5. Exact(b)
    BY <1>1, <1>3, BrkExact, SMTT(40) DEF Exact
  <1>6. ASSUME NEW c \in as \ {a} PROVE Clear(b, c)
    <2>1. c.start \in Nat
      BY DEF MapArea
    <2>2. CASE RoundUp(c.end) <= a.start
      BY <2>2 DEF Clear
    <2>3. CASE max + PageSize <= c.start
      <3>1. RoundUp(b.end) <= c.start
        BY <1>1, <1>4, <2>1, <2>3, SMTT(40)
      <3> QED
        BY <3>1 DEF Clear
    <2> QED
      BY <1>3, <2>2, <2>3
  <1>7. Separate(next) /\ Shaped(next)
    <2>1. Separate(as \ {a}) /\ Shaped(as \ {a})
      BY DEF Separate, Shaped
    <2> QED
      BY <1>5, <1>6, <2>1, OneMore
  <1>8. HasData(next, addr, max)
    <2>1. IsData(next, addr, max, b)
      BY <1>3 DEF IsData
    <2> QED
      BY <2>1 DEF HasData
  <1>9. HasStack(next, max, top)
    <2>1. PICK s \in as : s.end = top /\ max < s.start
      BY DEF HasStack
    <2>2. s.start \in Nat /\ end <= max
      BY <1>2 DEF MapArea, IsData
    <2>3. s # a
      BY <1>1, <1>3, <2>1, <2>2, SMTT(40)
    <2> QED
      BY <2>1, <2>3 DEF HasStack
  <1>10. ASSUME NEW c \in as PROVE c.pages \cap BrkPages(end, addr) = {}
    <2>1. c.start \in Nat /\ c.end \in Nat /\ c.pages = VpnRange(c.start, c.end) /\ RoundUp(c.end) \in Nat
      BY RoundUpBound DEF MapArea, Shaped, Exact
    <2>2. CASE c = a \/ RoundUp(c.end) <= a.start
      <3>1. RoundUp(c.end) <= RoundUp(end)
        BY <1>1, <1>3, <1>4, <2>1, <2>2, SMTT(40)
      <3> QED
        BY <1>4, <2>1, <3>1, RangesApart DEF BrkPages
    <2>3. CASE max + PageSize <= c.start
      <3>1. RoundUp(addr) <= c.start
        BY <1>1, <1>4, <2>1, <2>3, SMTT(40)
      <3> QED
        BY <1>4, <2>1, <3>1, RangesApart, SMTT(40) DEF BrkPages
    <2> QED
      BY <1>3, <2>2, <2>3
  <1> QED
    BY <1>7, <1>8, <1>9, <1>10

-----------------------------------------------------------------------------
(***************************************************************************)
(* Copy-on-write: each operation, called as in Next, keeps CowInv and is a *)
(* step of the private memories, or shows nothing.  The lemmas rest on     *)
(* Accounted, before and after the step, and on what exact counts tell     *)
(* (Counted); the next part provides both.                                 *)
(***************************************************************************)

(* Entries and what the processes read, when the pages of one process      *)
(* change.                                                                 *)

(* What happens to a page of p in a step: nothing, it is unmapped, or it   *)
(* gets a frame of its own.                                                *)
Kept(p, v) == frameOf'[p][v] = frameOf[p][v] /\ pte'[p][v] = pte[p][v]
Gone(p, v) == frameOf'[p][v] = NoFrame /\ pte'[p][v] = EMPTY
Own(p, v) ==
  /\ frameOf'[p][v] \in Frames /\ pte'[p][v].ppn = frameOf'[p][v]
  /\ \A u \in Vpns : frameOf'[p][u] = frameOf'[p][v] => u = v
  /\ \A q \in Procs \ {p} : \A u \in Vpns : frameOf[q][u] # frameOf'[p][v]

(* Only pages of p change, in those ways, and the writable ones are those  *)
(* of its writable areas.                                                  *)
Changes(p) ==
  /\ \A q \in Procs \ {p} : areas'[q] = areas[q] /\ frameOf'[q] = frameOf[q] /\ pte'[q] = pte[q]
  /\ \A v \in Vpns : Kept(p, v) \/ Gone(p, v) \/ Own(p, v)
  /\ \A v \in Vpns : pte'[p][v].w \/ pte'[p][v].cow <=> InWritable(areas'[p], v)

(* The copy-on-write part of the invariant, with a writable entry's frame  *)
(* named by its tracker.                                                   *)
LEMMA SoleWriter ==
  ASSUME Accounted, PteTracks, WriteInArea
  PROVE  NoSharedWrite <=>
           \A p \in Procs, u \in Vpns : pte[p][u].w =>
             /\ frameOf[p][u] # NoFrame
             /\ \A q \in Procs, v \in Vpns : frameOf[q][v] = frameOf[p][u] => p = q /\ u = v
  <1>1. \A p \in Procs, u \in Vpns : pte[p][u].ppn = frameOf[p][u]
    BY DEF PteTracks
  <1>2. \A p \in Procs, u \in Vpns : pte[p][u].w => frameOf[p][u] # NoFrame
    BY SMTT(40) DEF PteTracks, WriteInArea, InWritable, PagesOf
  <1> QED
    BY <1>1, <1>2, SMTT(40) DEF NoSharedWrite

(* A step that changes one process so keeps the copy-on-write part.        *)
LEMMA EntriesStep ==
  ASSUME Accounted, Accounted', PteTracks, NoSharedWrite, WriteInArea, NEW p \in Procs, Changes(p)
  PROVE  PteTracks' /\ NoSharedWrite' /\ WriteInArea'
  <1>1. \A q \in Procs \ {p} : areas'[q] = areas[q] /\ frameOf'[q] = frameOf[q] /\ pte'[q] = pte[q]
    BY DEF Changes
  <1>2. \A v \in Vpns : Kept(p, v) \/ Gone(p, v) \/ Own(p, v)
    BY DEF Changes
  <1>3. WriteInArea'
    <2>1. ASSUME NEW q \in Procs, NEW v \in Vpns
          PROVE  pte'[q][v].w \/ pte'[q][v].cow <=> InWritable(areas'[q], v)
      <3>1. CASE q = p
        BY <3>1 DEF Changes
      <3>2. CASE q # p
        <4>1. areas'[q] = areas[q] /\ pte'[q] = pte[q]
          BY <1>1, <3>2
        <4>2. pte[q][v].w \/ pte[q][v].cow <=> InWritable(areas[q], v)
          BY DEF WriteInArea
        <4> QED
          BY <4>1, <4>2
      <3> QED
        BY <3>1, <3>2
    <2> QED
      BY <2>1 DEF WriteInArea, InWritable
  <1>4. PteTracks'
    <2>1. ASSUME NEW q \in Procs, NEW v \in Vpns
          PROVE  pte'[q][v].ppn = frameOf'[q][v]
      <3>1. pte[q][v].ppn = frameOf[q][v]
        BY DEF PteTracks
      <3>2. CASE q = p
        BY <1>2, <3>1, <3>2, SMTT(40) DEF Kept, Gone, Own, EMPTY
      <3>3. CASE q # p
        BY <1>1, <3>1, <3>3
      <3> QED
        BY <3>2, <3>3
    <2>2. TrackersMapped'
      BY DEF Accounted
    <2> QED
      BY <2>1, <2>2 DEF PteTracks, TrackersMapped
  <1>5. \A q \in Procs, u \in Vpns : pte[q][u].w =>
          /\ frameOf[q][u] # NoFrame
          /\ \A r \in Procs, v \in Vpns : frameOf[r][v] = frameOf[q][u] => q = r /\ u = v
    BY SoleWriter
  <1>6. ASSUME NEW q \in Procs, NEW u \in Vpns, pte'[q][u].w,
               NEW r \in Procs, NEW v \in Vpns, pte'[r][v].ppn = pte'[q][u].ppn
        PROVE  q = r /\ u = v
    <2>1. frameOf'[r][v] = frameOf'[q][u]
      BY <1>4, <1>6 DEF PteTracks
    <2>2. CASE q # p /\ r # p
      <3>1. pte[q][u].w /\ frameOf[r][v] = frameOf[q][u]
        BY <1>1, <1>6, <2>1, <2>2
      <3> QED
        BY <1>5, <3>1
    <2>3. CASE q # p /\ r = p
      <3>1. pte[q][u].w /\ frameOf'[p][v] = frameOf[q][u]
        BY <1>1, <1>6, <2>1, <2>3
      <3>2. frameOf[q][u] # NoFrame
        BY <1>5, <3>1
      <3>3. ~Gone(p, v) /\ ~Own(p, v)
        BY <2>3, <3>1, <3>2 DEF Gone, Own
      <3>4. frameOf[p][v] = frameOf[q][u]
        BY <1>2, <3>1, <3>3 DEF Kept
      <3> QED
        BY <1>5, <2>3, <3>1, <3>4
    <2>4. CASE q = p /\ Own(p, u)
      BY <1>1, <2>1, <2>4 DEF Own
    <2>5. CASE q = p /\ Gone(p, u)
      BY <1>6, <2>5, SMTT(40) DEF Gone, EMPTY
    <2>6. CASE q = p /\ Kept(p, u) /\ r # p
      <3>1. pte[p][u].w /\ frameOf[r][v] = frameOf[p][u]
        BY <1>1, <1>6, <2>1, <2>6 DEF Kept
      <3> QED
        BY <1>5, <2>6, <3>1
    <2>7. CASE q = p /\ Kept(p, u) /\ r = p
      <3>1. pte[p][u].w /\ frameOf'[p][v] = frameOf[p][u] /\ frameOf'[p][u] = frameOf[p][u]
        BY <1>6, <2>1, <2>7 DEF Kept
      <3>2. frameOf[p][u] # NoFrame
        BY <1>5, <3>1
      <3>3. CASE Kept(p, v)
        <4>1. frameOf[p][v] = frameOf[p][u]
          BY <3>1, <3>3 DEF Kept
        <4> QED
          BY <1>5, <2>7, <3>1, <4>1
      <3>4. CASE Own(p, v)
        BY <2>7, <3>1, <3>4 DEF Own
      <3>5. ~Gone(p, v)
        BY <3>1, <3>2 DEF Gone
      <3> QED
        BY <1>2, <3>3, <3>4, <3>5
    <2> QED
      BY <1>2, <2>2, <2>3, <2>4, <2>5, <2>6, <2>7
  <1> QED
    BY <1>3, <1>4, <1>6 DEF NoSharedWrite

(* The frames behind the pages of the others, and behind the pages in S    *)
(* of p, keep their contents.                                              *)
SameContent(p, S) ==
  \A q \in Procs, v \in Vpns :
    frameOf[q][v] # NoFrame /\ (q # p \/ v \in S) =>
      content'[frameOf[q][v]] = content[frameOf[q][v]]

(* Dropping trackers and allocating what was free or is freed disturbs no  *)
(* frame that stays held.                                                  *)
LEMMA ExchangeKeeps ==
  ASSUME TypeOK, Counted, NEW p \in Procs, NEW pages \in SUBSET Vpns, NEW taken, NEW fill,
         taken \subseteq freeFrames \cup Freed(Trackers(p, pages)),
         Exchange(Trackers(p, pages), taken, fill)
  PROVE  SameContent(p, Vpns \ pages)
  <1> SUFFICES ASSUME NEW q \in Procs, NEW v \in Vpns, frameOf[q][v] # NoFrame, ~(q = p /\ v \in pages)
               PROVE  content'[frameOf[q][v]] = content[frameOf[q][v]]
    BY DEF SameContent
  <1>1. frameOf[q][v] \in Frames
    BY SMTT(40) DEF TypeOK
  <1>2. frameOf[q][v] \notin freeFrames \cup Freed(Trackers(p, pages))
    BY DEF Counted
  <1> QED
    BY <1>1, <1>2 DEF Exchange

(* A process reads through its trackers.                                   *)
LEMMA ViewIs ==
  ASSUME PteTracks
  PROVE  View = [p \in Procs |-> [v \in Vpns |->
                   IF frameOf[p][v] # NoFrame THEN content[frameOf[p][v]] ELSE Unmapped]]
  <1>1. \A p \in Procs, v \in Vpns : pte[p][v].ppn = frameOf[p][v]
    BY DEF PteTracks
  <1> QED
    BY <1>1 DEF View, Valid

(* What the processes read after a step that changes the pages of p.       *)
LEMMA ViewStep ==
  ASSUME PteTracks, PteTracks', NEW p \in Procs, Changes(p), NEW S \in SUBSET Vpns,
         SameContent(p, S)
  PROVE  /\ \A q \in Procs \ {p} : View'[q] = View[q]
         /\ \A v \in S : Kept(p, v) => View'[p][v] = View[p][v]
         /\ \A v \in Vpns : Gone(p, v) => View'[p][v] = Unmapped
         /\ \A v \in Vpns : Own(p, v) => View'[p][v] = content'[frameOf'[p][v]]
  <1>1. \A q \in Procs, v \in Vpns :
          View[q][v] = IF frameOf[q][v] # NoFrame THEN content[frameOf[q][v]] ELSE Unmapped
    BY ViewIs, SMTT(40)
  <1>2. \A q \in Procs, v \in Vpns :
          View'[q][v] = IF frameOf'[q][v] # NoFrame THEN content'[frameOf'[q][v]] ELSE Unmapped
    <2>1. View' = [q \in Procs |-> [v \in Vpns |->
                    IF frameOf'[q][v] # NoFrame THEN content'[frameOf'[q][v]] ELSE Unmapped]]
      <3>1. \A q \in Procs, v \in Vpns : pte'[q][v].ppn = frameOf'[q][v]
        BY DEF PteTracks
      <3> QED
        BY <3>1 DEF View, Valid, Unmapped
    <2> QED
      BY <2>1
  <1>3. ASSUME NEW q \in Procs \ {p} PROVE View'[q] = View[q]
    <2>1. \A v \in Vpns : View'[q][v] = View[q][v]
      BY <1>1, <1>2, SMTT(40) DEF Changes, SameContent
    <2>2. View'[q] = [v \in Vpns |-> View'[q][v]] /\ View[q] = [v \in Vpns |-> View[q][v]]
      BY DEF View
    <2> QED
      BY <2>1, <2>2
  <1>4. ASSUME NEW v \in S, Kept(p, v) PROVE View'[p][v] = View[p][v]
    BY <1>1, <1>2, <1>4, SMTT(40) DEF SameContent, Kept
  <1>5. ASSUME NEW v \in Vpns, Gone(p, v) PROVE View'[p][v] = Unmapped
    BY <1>2, <1>5 DEF Gone
  <1>6. ASSUME NEW v \in Vpns, Own(p, v) PROVE View'[p][v] = content'[frameOf'[p][v]]
    BY <1>2, <1>6, ConstantsAssumption DEF Own
  <1> QED
    BY <1>3, <1>4, <1>5, <1>6
-----------------------------------------------------------------------------
(* Each operation, in those terms.                                         *)

(* What every step keeps, and what it does to the memories.                *)
Good == CowInv' /\ [Private!Next]_View

(* A halt at a site AssertsHold does not name.                             *)
LEMMA HaltGood ==
  ASSUME CowInv, NEW site, site \notin {"map_one", "brk", "remove_area", "free_list"}, Halt(site)
  PROVE  Good
  <1>1. /\ content' = content /\ status' = status /\ areas' = areas /\ frameOf' = frameOf /\ pte' = pte
        /\ dataEnd' = dataEnd /\ dataMax' = dataMax /\ stackTop' = stackTop /\ halted' = site
    BY DEF Halt, physical, layout
  <1>2. View' = View
    BY <1>1 DEF View, Valid
  <1>3. PteTracks' /\ NoSharedWrite' /\ WriteInArea' /\ LaidOut'
    <2>1. PteTracks'
      BY <1>1 DEF CowInv, PteTracks
    <2>2. NoSharedWrite'
      BY <1>1 DEF CowInv, NoSharedWrite
    <2>3. WriteInArea'
      BY <1>1 DEF CowInv, WriteInArea
    <2>4. LaidOut'
      BY <1>1 DEF CowInv, LaidOut
    <2> QED
      BY <2>1, <2>2, <2>3, <2>4
  <1>4. AssertsHold'
    BY <1>1 DEF AssertsHold
  <1> QED
    BY <1>2, <1>3, <1>4 DEF Good, CowInv

(* The areas, the break and the stack of p change, and its pages with      *)
(* them.                                                                   *)
LEMMA ChangeGood ==
  ASSUME Accounted, Accounted', CowInv, NEW p \in Procs, Changes(p), halted' = halted,
         \A q \in Procs \ {p} : /\ status'[q] = status[q] /\ dataEnd'[q] = dataEnd[q]
                                /\ dataMax'[q] = dataMax[q] /\ stackTop'[q] = stackTop[q],
         Separate(areas'[p]), Shaped(areas'[p]),
         status'[p] = "live" => /\ HasData(areas'[p], dataEnd'[p], dataMax'[p])
                                /\ HasStack(areas'[p], dataMax'[p], stackTop'[p])
  PROVE  CowInv'
  <1>1. PteTracks' /\ NoSharedWrite' /\ WriteInArea'
    BY EntriesStep DEF CowInv
  <1>2. AssertsHold'
    BY DEF CowInv, AssertsHold
  <1>3. ASSUME NEW q \in Procs
        PROVE  /\ Separate(areas'[q]) /\ Shaped(areas'[q])
               /\ status'[q] = "live" => /\ HasData(areas'[q], dataEnd'[q], dataMax'[q])
                                         /\ HasStack(areas'[q], dataMax'[q], stackTop'[q])
    <2>1. CASE q = p
      BY <2>1
    <2>2. CASE q # p
      <3>1. /\ areas'[q] = areas[q] /\ status'[q] = status[q] /\ dataEnd'[q] = dataEnd[q]
            /\ dataMax'[q] = dataMax[q] /\ stackTop'[q] = stackTop[q]
        BY <2>2 DEF Changes
      <3> QED
        BY <3>1 DEF CowInv, LaidOut
    <2> QED
      BY <2>1, <2>2
  <1>4. LaidOut'
    BY <1>3, ZenonT(60) DEF LaidOut, Separate, Shaped, HasData, HasStack, IsData, Clear, Exact
  <1> QED
    BY <1>1, <1>2, <1>4 DEF CowInv

(* The program loaded for p: its pages get frames of their own, the other  *)
(* pages go.                                                               *)
LEMMA InstallGood ==
  ASSUME Accounted, Accounted', Counted, CowInv, NEW p \in Procs, NEW end \in VAs,
         IsUserArea(ImageAreas, ImageMax, StackSize, end), ProgramPages(end) \subseteq Vpns,
         NEW g \in Allocations(ProgramPages(end), freeFrames \cup Freed(Trackers(p, Vpns))),
         NEW fill \in [{g[v] : v \in ProgramPages(end)} -> Values],
         \A v \in PagesOf(ImageAreas) : fill[g[v]] = Zero,
         Install(p, end, g, fill)
  PROVE  Good
  <1> DEFINE P == ProgramPages(end)
             as == ProgramAreas(end)
             taken == {g[v] : v \in P}
             pool == freeFrames \cup Freed(Trackers(p, Vpns))
             entries == Mapped(NoEntries, P, g, WritableIn(as))
  <1>1. TypeOK /\ FrameAccounting /\ PteTracks
    BY DEF Accounted, CowInv
  <1>2. /\ Exchange(Trackers(p, Vpns), taken, fill)
        /\ frameOf' = [frameOf EXCEPT ![p] = Tracked(NoTrackers, P, g)]
        /\ pte' = [pte EXCEPT ![p] = entries]
        /\ areas' = [areas EXCEPT ![p] = as]
        /\ dataEnd' = [dataEnd EXCEPT ![p] = ImageEnd]
        /\ dataMax' = [dataMax EXCEPT ![p] = ImageMax]
        /\ stackTop' = [stackTop EXCEPT ![p] = end]
        /\ status' = [status EXCEPT ![p] = "live"]
        /\ halted' = halted
    BY ZenonT(60) DEF Install
  <1>3. pool \subseteq Frames /\ g \in [P -> pool] /\ \A u, v \in P : g[u] = g[v] => u = v
    BY <1>1 DEF TypeOK, Freed, Allocations
  <1> HIDE DEF P, as, taken, pool, entries
  <1>4. /\ frameOf'[p] = Tracked(NoTrackers, P, g) /\ pte'[p] = entries /\ areas'[p] = as
        /\ dataEnd'[p] = ImageEnd /\ dataMax'[p] = ImageMax /\ stackTop'[p] = end
    BY <1>1, <1>2 DEF TypeOK
  <1>5. \A q \in Procs \ {p} :
          /\ areas'[q] = areas[q] /\ frameOf'[q] = frameOf[q] /\ pte'[q] = pte[q]
          /\ status'[q] = status[q] /\ dataEnd'[q] = dataEnd[q]
          /\ dataMax'[q] = dataMax[q] /\ stackTop'[q] = stackTop[q]
    BY <1>1, <1>2 DEF TypeOK
  <1>6. \A v \in Vpns : /\ frameOf'[p][v] = IF v \in P THEN g[v] ELSE NoFrame
                        /\ pte'[p][v] = IF v \in P THEN [ppn |-> g[v], w |-> InWritable(as, v), cow |-> FALSE]
                                        ELSE EMPTY
    BY <1>4 DEF Tracked, NoTrackers, entries, Mapped, NoEntries, WritableIn, InWritable
  <1>7. ASSUME NEW v \in P PROVE v \in Vpns /\ Own(p, v)
    <2>1. v \in Vpns /\ g[v] \in pool /\ g[v] \in Frames /\ g[v] # NoFrame
      BY <1>3, ConstantsAssumption DEF P
    <2>2. frameOf'[p][v] = g[v] /\ pte'[p][v].ppn = g[v]
      <3>1. /\ frameOf'[p][v] = g[v]
            /\ pte'[p][v] = [ppn |-> g[v], w |-> InWritable(as, v), cow |-> FALSE]
        BY <1>6, <2>1, ZenonT(60)
      <3> QED
        BY <3>1, SMTT(40)
    <2>3. ASSUME NEW u \in Vpns, frameOf'[p][u] = g[v] PROVE u = v
      BY <1>3, <1>6, <2>1, <2>3
    <2>4. ASSUME NEW q \in Procs \ {p}, NEW u \in Vpns PROVE frameOf[q][u] # g[v]
      <3>1. frameOf[q][u] # NoFrame => frameOf[q][u] \notin pool
        BY <1>1 DEF pool, Counted
      <3> QED
        BY <2>1, <3>1
    <2> QED
      BY <2>1, <2>2, <2>3, <2>4 DEF Own
  <1>8. \A v \in Vpns \ P : Gone(p, v)
    BY <1>6 DEF Gone
  <1>9. Changes(p)
    <2>1. ASSUME NEW v \in Vpns PROVE pte'[p][v].w \/ pte'[p][v].cow <=> InWritable(areas'[p], v)
      <3>1. v \notin P => ~InWritable(as, v)
        BY DEF P, as, ProgramPages, PagesOf, InWritable
      <3>2. CASE v \in P
        <4>1. pte'[p][v] = [ppn |-> g[v], w |-> InWritable(as, v), cow |-> FALSE]
          BY <1>6, <3>2
        <4> HIDE DEF InWritable
        <4> QED
          BY <1>4, <4>1, SMTT(40)
      <3>3. CASE v \notin P
        <4>1. pte'[p][v] = EMPTY
          BY <1>6, <3>3, ZenonT(60)
        <4>2. ~pte'[p][v].w /\ ~pte'[p][v].cow
          BY <4>1, SMTT(40) DEF EMPTY
        <4> QED
          BY <1>4, <3>1, <3>3, <4>2
      <3> QED
        BY <3>2, <3>3
    <2> QED
      BY <1>5, <1>7, <1>8, <2>1, ZenonT(60) DEF Changes
  <1>10. /\ Separate(as) /\ Shaped(as) /\ HasData(as, ImageEnd, ImageMax) /\ HasStack(as, ImageMax, end)
    BY ProgramLaidOut DEF as
  <1>11. CowInv'
    BY <1>2, <1>4, <1>5, <1>9, <1>10, ChangeGood
  <1>12. SameContent(p, {})
    <2>1. taken \subseteq freeFrames \cup Freed(Trackers(p, Vpns))
      BY <1>3 DEF taken, pool
    <2>2. SameContent(p, Vpns \ Vpns)
      BY <1>1, <1>2, <2>1, ExchangeKeeps
    <2> QED
      BY <2>2 DEF SameContent
  <1>13. /\ \A q \in Procs \ {p} : View'[q] = View[q]
         /\ \A v \in Vpns : Gone(p, v) => View'[p][v] = Unmapped
         /\ \A v \in Vpns : Own(p, v) => View'[p][v] = content'[frameOf'[p][v]]
    <2>1. PteTracks'
      BY <1>11 DEF CowInv
    <2>2. {} \in SUBSET Vpns
      OBVIOUS
    <2> QED
      BY <1>1, <1>9, <1>12, <2>1, <2>2, ViewStep
  <1>14. ASSUME NEW v \in P PROVE View'[p][v] = fill[g[v]] /\ fill[g[v]] \in Values
    <2>1. View'[p][v] = content'[g[v]]
      BY <1>6, <1>7, <1>13
    <2>2. g[v] \in taken /\ g[v] \in Frames
      BY <1>3 DEF taken
    <2>3. content'[g[v]] = fill[g[v]]
      BY <1>2, <2>2 DEF Exchange
    <2> QED
      BY <2>1, <2>2, <2>3 DEF P
  <1>15. View'[p] \in Loaded
    <2>1. View'[p] = [v \in Vpns |-> View'[p][v]]
      BY DEF View
    <2>2. \A v \in Vpns : View'[p][v] \in Values \cup {Unmapped}
      BY <1>8, <1>13, <1>14
    <2>3. PagesOf(ImageAreas) \subseteq P
      BY DEF P, ProgramPages, ProgramAreas, PagesOf
    <2>4. \A v \in PagesOf(ImageAreas) : View'[p][v] = Zero
      BY <1>14, <2>3
    <2>5. View'[p] \in [Vpns -> Values \cup {Unmapped}]
      BY <2>1, <2>2
    <2> QED
      BY <2>4, <2>5, ZenonT(60) DEF Loaded
  <1>16. Private!Next
    BY <1>13, <1>15, ZenonT(60) DEF Private!Next, Private!Load, Private!OnlyOf
  <1> QED
    BY <1>11, <1>16 DEF Good

(* from_elf and execve.                                                    *)
LEMMA LoadGood ==
  ASSUME Accounted, Accounted', Counted, CowInv, NEW p \in Procs, LoadImage(p)
  PROVE  Good
  <1>1. CASE Halt("frame_alloc")
    BY <1>1, HaltGood
  <1>2. CASE ~Halt("frame_alloc")
    BY <1>2, InstallGood, ZenonT(60) DEF LoadImage
  <1> QED
    BY <1>1, <1>2

(* The process dropped: every page goes.                                   *)
LEMMA DropGood ==
  ASSUME Accounted, Accounted', Counted, CowInv, NEW p \in Procs, DropProcess(p)
  PROVE  Good
  <1>1. TypeOK /\ FrameAccounting /\ PteTracks
    BY DEF Accounted, CowInv
  <1>2. /\ Exchange(Trackers(p, Vpns), {}, <<>>)
        /\ frameOf' = [frameOf EXCEPT ![p] = NoTrackers]
        /\ pte' = [pte EXCEPT ![p] = NoEntries]
        /\ areas' = [areas EXCEPT ![p] = {}]
        /\ dataEnd' = [dataEnd EXCEPT ![p] = 0]
        /\ dataMax' = [dataMax EXCEPT ![p] = 0]
        /\ stackTop' = [stackTop EXCEPT ![p] = 0]
        /\ status' = [status EXCEPT ![p] = "none"]
        /\ halted' = halted
    BY ZenonT(60) DEF DropProcess
  <1>3. frameOf'[p] = NoTrackers /\ pte'[p] = NoEntries /\ areas'[p] = {} /\ status'[p] = "none"
    BY <1>1, <1>2 DEF TypeOK
  <1>4. \A q \in Procs \ {p} :
          /\ areas'[q] = areas[q] /\ frameOf'[q] = frameOf[q] /\ pte'[q] = pte[q]
          /\ status'[q] = status[q] /\ dataEnd'[q] = dataEnd[q]
          /\ dataMax'[q] = dataMax[q] /\ stackTop'[q] = stackTop[q]
    BY <1>1, <1>2 DEF TypeOK
  <1>5. \A v \in Vpns : Gone(p, v) /\ ~pte'[p][v].w /\ ~pte'[p][v].cow
    BY <1>3, SMTT(40) DEF Gone, NoTrackers, NoEntries, EMPTY
  <1>6. Changes(p)
    BY <1>3, <1>4, <1>5 DEF Changes, InWritable
  <1>7. Separate(areas'[p]) /\ Shaped(areas'[p])
    BY <1>3 DEF Separate, Shaped
  <1>8. CowInv'
    BY <1>2, <1>3, <1>4, <1>6, <1>7, ChangeGood
  <1>9. SameContent(p, {})
    <2>1. SameContent(p, Vpns \ Vpns)
      BY <1>1, <1>2, ExchangeKeeps
    <2> QED
      BY <2>1 DEF SameContent
  <1>10. /\ \A q \in Procs \ {p} : View'[q] = View[q]
         /\ \A v \in Vpns : Gone(p, v) => View'[p][v] = Unmapped
    <2>1. PteTracks'
      BY <1>8 DEF CowInv
    <2>2. {} \in SUBSET Vpns
      OBVIOUS
    <2> QED
      BY <1>1, <1>6, <1>9, <2>1, <2>2, ViewStep
  <1>11. Private!Next
    BY <1>5, <1>10 DEF Private!Next, Private!Unmap, Private!OnlyOf
  <1> QED
    BY <1>8, <1>11 DEF Good

(* A store to a writable page shows in that page alone.                    *)
LEMMA StoreGood ==
  ASSUME Accounted, Counted, CowInv, NEW p \in Procs, NEW v \in Vpns, NEW x \in Values, Store(p, v, x)
  PROVE  Good
  <1> DEFINE f == frameOf[p][v]
  <1>1. TypeOK /\ FrameAccounting /\ PteTracks /\ NoSharedWrite /\ WriteInArea
    BY DEF Accounted, CowInv
  <1>2. pte[p][v].ppn = f /\ f # NoFrame /\ pte[p][v].w
    BY <1>1 DEF Store, Valid, PteTracks
  <1>3. f \in Frames /\ f \notin freeFrames
    BY <1>1, <1>2, SMTT(40) DEF TypeOK, Counted
  <1>4. /\ content' = [content EXCEPT ![f] = x]
        /\ UNCHANGED <<freeFrames, refCount, status, layout, halted>>
    BY <1>2, <1>3, ZenonT(60) DEF Store
  <1>5. /\ status' = status /\ areas' = areas /\ frameOf' = frameOf /\ pte' = pte
        /\ dataEnd' = dataEnd /\ dataMax' = dataMax /\ stackTop' = stackTop /\ halted' = halted
    BY <1>4 DEF layout
  <1>6. CowInv'
    <2>1. PteTracks'
      BY <1>5 DEF CowInv, PteTracks
    <2>2. NoSharedWrite'
      BY <1>5, SMTT(40) DEF CowInv, NoSharedWrite
    <2>3. WriteInArea'
      BY <1>5 DEF CowInv, WriteInArea
    <2>4. LaidOut'
      BY <1>5 DEF CowInv, LaidOut
    <2>5. AssertsHold'
      BY <1>5 DEF CowInv, AssertsHold
    <2> QED
      BY <2>1, <2>2, <2>3, <2>4, <2>5 DEF CowInv
  <1>7. \A q \in Procs, u \in Vpns : frameOf[q][u] = f => q = p /\ u = v
    BY <1>1, <1>2, SoleWriter
  <1> HIDE DEF f
  <1>8. View = [q \in Procs |-> [u \in Vpns |->
                 IF frameOf[q][u] # NoFrame THEN content[frameOf[q][u]] ELSE Unmapped]]
    BY <1>1, ViewIs
  <1>9. View' = [q \in Procs |-> [u \in Vpns |->
                  IF frameOf[q][u] # NoFrame THEN content'[frameOf[q][u]] ELSE Unmapped]]
    BY <1>1, <1>5 DEF View, Valid, PteTracks, Unmapped
  <1>10. ASSUME NEW q \in Procs, NEW u \in Vpns
         PROVE  View'[q][u] = IF q = p /\ u = v THEN x ELSE View[q][u]
    <2>1. frameOf[q][u] \in Frames \cup {NoFrame} /\ content \in [Frames -> Values]
      BY <1>1, SMTT(40) DEF TypeOK
    <2>2. CASE q = p /\ u = v
      BY <1>2, <1>3, <1>4, <1>9, <2>1, <2>2 DEF f
    <2>3. CASE ~(q = p /\ u = v)
      <3>1. frameOf[q][u] # f
        BY <1>7, <2>3
      <3> QED
        BY <1>4, <1>8, <1>9, <2>1, <2>3, <3>1
    <2> QED
      BY <2>2, <2>3
  <1>11. View[p][v] # Unmapped
    <2>1. View[p][v] = content[f] /\ content[f] \in Values
      BY <1>1, <1>2, <1>3, <1>8 DEF f, TypeOK
    <2> QED
      BY <2>1, ConstantsAssumption DEF Unmapped
  <1>12. View' = [View EXCEPT ![p][v] = x]
    <2> DEFINE new == [View EXCEPT ![p][v] = x]
    <2>1. /\ new = [q \in Procs |-> new[q]] /\ View' = [q \in Procs |-> View'[q]]
          /\ \A q \in Procs : new[q] = [u \in Vpns |-> new[q][u]] /\ View'[q] = [u \in Vpns |-> View'[q][u]]
          /\ \A q \in Procs, u \in Vpns : new[q][u] = IF q = p /\ u = v THEN x ELSE View[q][u]
      BY <1>8, <1>9
    <2> HIDE DEF new
    <2>2. \A q \in Procs, u \in Vpns : new[q][u] = View'[q][u]
      BY <1>10, <2>1, SMTT(40)
    <2>3. \A q \in Procs : new[q] = View'[q]
      BY <2>1, <2>2
    <2>4. new = View'
      BY <2>1, <2>3
    <2> QED
      BY <2>4 DEF new
  <1>13. Private!Next
    BY <1>11, <1>12, ZenonT(60) DEF Private!Next, Private!Store
  <1> QED
    BY <1>6, <1>13 DEF Good

(* The copy-on-write page v of p gets a frame n of its own, with the same  *)
(* contents.                                                               *)
OwnFrame(p, v, n) ==
  /\ pte[p][v].cow /\ frameOf[p][v] # NoFrame
  /\ frameOf' = [frameOf EXCEPT ![p][v] = n]
  /\ pte' = [pte EXCEPT ![p][v] = Writable(pte[p][v], n)]
  /\ UNCHANGED <<status, areas, dataEnd, dataMax, stackTop, halted>>
  /\ \A q \in Procs, u \in Vpns : frameOf[q][u] = n => q = p /\ u = v
  /\ SameContent(p, Vpns \ {v}) /\ content'[n] = content[frameOf[p][v]]

(* That does not show.                                                     *)
LEMMA OwnFrameGood ==
  ASSUME Accounted, Accounted', CowInv, NEW p \in Procs, NEW v \in Vpns, NEW n \in Frames,
         OwnFrame(p, v, n)
  PROVE  Good
  <1> USE DEF OwnFrame
  <1>1. TypeOK /\ PteTracks /\ WriteInArea /\ LaidOut
    BY DEF Accounted, CowInv
  <1>2. \A q \in Procs, u \in Vpns :
          /\ frameOf'[q][u] = IF q = p /\ u = v THEN n ELSE frameOf[q][u]
          /\ pte'[q][u] = IF q = p /\ u = v THEN Writable(pte[p][v], n) ELSE pte[q][u]
    BY <1>1 DEF TypeOK
  <1>3. \A q \in Procs \ {p} : frameOf'[q] = frameOf[q] /\ pte'[q] = pte[q]
    BY <1>1 DEF TypeOK
  <1>4. Writable(pte[p][v], n).ppn = n /\ Writable(pte[p][v], n).w
    <2>1. pte[p][v] \in Entry
      BY <1>1 DEF TypeOK
    <2> QED
      BY <2>1, ZenonT(60) DEF Writable, Entry
  <1>5. Own(p, v)
    <2>1. frameOf'[p][v] = n /\ pte'[p][v].ppn = n
      BY <1>2, <1>4, SMTT(40)
    <2>2. ASSUME NEW u \in Vpns, frameOf'[p][u] = n PROVE u = v
      BY <1>2, <2>2, SMTT(40)
    <2>3. \A q \in Procs \ {p} : \A u \in Vpns : frameOf[q][u] # n
      OBVIOUS
    <2> QED
      BY <2>1, <2>2, <2>3 DEF Own
  <1>6. \A u \in Vpns \ {v} : Kept(p, u)
    BY <1>2, SMTT(40) DEF Kept
  <1>7. Changes(p)
    <2>1. ASSUME NEW u \in Vpns PROVE pte'[p][u].w \/ pte'[p][u].cow <=> InWritable(areas'[p], u)
      <3>1. pte[p][u].w \/ pte[p][u].cow <=> InWritable(areas[p], u)
        BY <1>1 DEF WriteInArea
      <3>2. CASE u = v
        BY <1>2, <1>4, <3>1, <3>2, SMTT(40)
      <3>3. CASE u # v
        BY <1>2, <3>1, <3>3, SMTT(40)
      <3> QED
        BY <3>2, <3>3
    <2> QED
      BY <1>3, <1>5, <1>6, <2>1 DEF Changes
  <1>8. CowInv'
    <2>1. /\ Separate(areas'[p]) /\ Shaped(areas'[p])
          /\ status'[p] = "live" => /\ HasData(areas'[p], dataEnd'[p], dataMax'[p])
                                    /\ HasStack(areas'[p], dataMax'[p], stackTop'[p])
      BY <1>1, ZenonT(60) DEF LaidOut
    <2> QED
      BY <1>7, <2>1, ChangeGood
  <1>9. /\ \A q \in Procs \ {p} : View'[q] = View[q]
        /\ \A u \in Vpns \ {v} : Kept(p, u) => View'[p][u] = View[p][u]
        /\ \A u \in Vpns : Own(p, u) => View'[p][u] = content'[frameOf'[p][u]]
    <2>1. PteTracks' /\ Vpns \ {v} \in SUBSET Vpns
      BY <1>8 DEF CowInv
    <2> QED
      BY <1>1, <1>7, <2>1, ViewStep
  <1>10. View'[p][v] = View[p][v]
    <2>1. View'[p][v] = content[frameOf[p][v]]
      BY <1>2, <1>5, <1>9, SMTT(40)
    <2>2. View[p][v] = content[frameOf[p][v]]
      BY <1>1, ViewIs, SMTT(40)
    <2> QED
      BY <2>1, <2>2
  <1>11. View' = View
    <2>1. \A u \in Vpns : View'[p][u] = View[p][u]
      BY <1>6, <1>9, <1>10
    <2>2. View'[p] = [u \in Vpns |-> View'[p][u]] /\ View[p] = [u \in Vpns |-> View[p][u]]
      BY SMTT(40) DEF View
    <2>3. View'[p] = View[p]
      BY <2>1, <2>2
    <2>4. View' = [q \in Procs |-> View'[q]] /\ View = [q \in Procs |-> View[q]]
      BY DEF View
    <2> QED
      BY <1>9, <2>3, <2>4, SMTT(40)
  <1> QED
    BY <1>8, <1>11 DEF Good

(* A page fault copies the page, or finds that nobody shares it.           *)
LEMMA PagefaultGood ==
  ASSUME Accounted, Accounted', Counted, CowInv, NEW p \in Procs, NEW va \in VAs, HandlePagefault(p, va)
  PROVE  Good
  <1> DEFINE v == Floor(va)
             e == pte[p][v]
             f == frameOf[p][v]
             found == \E a \in areas[p] : IsAreaAt(areas[p], va, a) /\ v \in a.pages
  <1>1. TypeOK /\ FrameAccounting /\ PteTracks
    BY DEF Accounted, CowInv
  <1>2. v \in Vpns
    BY DEF HandlePagefault
  <1>3. ASSUME found PROVE f # NoFrame /\ f \in Frames /\ e.ppn = f
    <2>1. v \in PagesOf(areas[p])
      BY <1>3 DEF PagesOf
    <2>2. f # NoFrame /\ e.ppn = f
      BY <1>1, <1>2, <2>1 DEF PteTracks
    <2> QED
      BY <1>1, <1>2, <2>2, SMTT(40) DEF TypeOK
  <1>4. CASE Halt("handle_pagefault") \/ Halt("frame_alloc")
    BY <1>4, HaltGood
  <1>5. CASE /\ e.cow /\ found /\ Shared(f)
             /\ \E n \in freeFrames :
                  /\ Exchange(Trackers(p, {v}), {n}, CopyOf(n, e))
                  /\ frameOf' = [frameOf EXCEPT ![p][v] = n]
                  /\ pte' = [pte EXCEPT ![p][v] = Writable(e, n)]
             /\ UNCHANGED <<status, areas, dataEnd, dataMax, stackTop, halted>>
    <2>1. PICK n \in freeFrames :
                  /\ Exchange(Trackers(p, {v}), {n}, CopyOf(n, e))
                  /\ frameOf' = [frameOf EXCEPT ![p][v] = n]
                  /\ pte' = [pte EXCEPT ![p][v] = Writable(e, n)]
      BY <1>5, ZenonT(60)
    <2>2. n \in Frames /\ \A q \in Procs : \A u \in Vpns : frameOf[q][u] # n
      BY <1>1, ConstantsAssumption, SMTT(40) DEF TypeOK, Counted
    <2>3. f # NoFrame /\ e.ppn = f
      BY <1>3, <1>5
    <2>4. {v} \in SUBSET Vpns /\ {n} \subseteq freeFrames \cup Freed(Trackers(p, {v}))
      BY <1>2
    <2> HIDE DEF v
    <2>5. SameContent(p, Vpns \ {v})
      BY <1>1, <2>1, <2>4, ExchangeKeeps, SMTT(40)
    <2>6. content'[n] = content[f]
      <3>1. content'[n] = CopyOf(n, e)[n]
        BY <2>1, <2>2 DEF Exchange
      <3>2. CopyOf(n, e)[n] = content[e.ppn]
        BY DEF CopyOf
      <3> QED
        BY <2>3, <3>1, <3>2
    <2>7. \A q \in Procs, u \in Vpns : frameOf[q][u] = n => q = p /\ u = v
      BY <2>2
    <2>8. OwnFrame(p, v, n)
      BY <1>5, <2>1, <2>3, <2>5, <2>6, <2>7 DEF OwnFrame
    <2> QED
      BY <1>2, <2>2, <2>8, OwnFrameGood
  <1>6. CASE /\ e.cow /\ found /\ ~Shared(f)
             /\ pte' = [pte EXCEPT ![p][v] = Writable(e, e.ppn)]
             /\ UNCHANGED <<physical, status, areas, frameOf, dataEnd, dataMax,
                            stackTop, halted>>
    <2>1. f # NoFrame /\ e.ppn = f /\ f \in Frames
      BY <1>3, <1>6
    <2>2. frameOf' = [frameOf EXCEPT ![p][v] = f]
      BY <1>1, <1>2, <1>6 DEF TypeOK
    <2>3. pte' = [pte EXCEPT ![p][v] = Writable(e, f)] /\ content' = content
      BY <1>6, <2>1 DEF physical
    <2>4. \A q \in Procs, u \in Vpns : frameOf[q][u] = f => q = p /\ u = v
      BY <1>2, <1>6, <2>1 DEF Counted
    <2>5. SameContent(p, Vpns \ {v}) /\ content'[f] = content[frameOf[p][v]]
      BY <2>3 DEF SameContent
    <2>6. UNCHANGED <<status, areas, dataEnd, dataMax, stackTop, halted>>
      BY <1>6
    <2>7. OwnFrame(p, v, f)
      BY <1>6, <2>1, <2>2, <2>3, <2>4, <2>5, <2>6 DEF OwnFrame
    <2> QED
      BY <1>2, <2>1, <2>7, OwnFrameGood
  <1> QED
    BY <1>4, <1>5, <1>6, ZenonT(60) DEF HandlePagefault

(* Pages outside the areas of p are not mapped: map_one accepts them.      *)
LEMMA NotBlocked ==
  ASSUME PteTracks, NEW p \in Procs, NEW pages \in SUBSET Vpns,
         \A a \in areas[p] : a.pages \cap pages = {}
  PROVE  ~Blocked(p, pages)
  <1>1. ASSUME NEW v \in pages PROVE ~Valid(p, v)
    BY SMTT(40) DEF PteTracks, PagesOf, Valid
  <1> QED
    BY <1>1 DEF Blocked

(* The areas of p after new pages were recorded in them with permission w, *)
(* and what else a call may change.                                        *)
Recorded(p, pages, w) ==
  /\ \A q \in Procs \ {p} : areas'[q] = areas[q] /\ dataEnd'[q] = dataEnd[q]
  /\ UNCHANGED <<status, dataMax, stackTop, halted>>
  /\ \A v \in Vpns : InWritable(areas'[p], v) <=> IF v \in pages THEN w ELSE InWritable(areas[p], v)
  /\ Separate(areas'[p]) /\ Shaped(areas'[p])
  /\ HasData(areas'[p], dataEnd'[p], dataMax[p])
  /\ HasStack(areas'[p], dataMax[p], stackTop[p])

(* mmap and brk: the new pages get frames of their own.                    *)
LEMMA MapGood ==
  ASSUME Accounted, Accounted', Counted, CowInv, NEW p \in Procs, NEW pages \in SUBSET Vpns, NEW w \in BOOLEAN,
         MapPages(p, pages, w), Recorded(p, pages, w), \A a \in areas[p] : a.pages \cap pages = {}
  PROVE  Good
  <1>1. TypeOK /\ FrameAccounting /\ PteTracks /\ WriteInArea
    BY DEF Accounted, CowInv
  <1>2. PICK g \in Allocations(pages, freeFrames) :
          \E fill \in [{g[v] : v \in pages} -> Values] :
            /\ Exchange(NoTrackers, {g[v] : v \in pages}, fill)
            /\ frameOf' = [frameOf EXCEPT ![p] = Tracked(frameOf[p], pages, g)]
            /\ pte' = [pte EXCEPT ![p] = Mapped(pte[p], pages, g, [v \in pages |-> w])]
    BY ZenonT(60) DEF MapPages
  <1>3. PICK fill \in [{g[v] : v \in pages} -> Values] :
            /\ Exchange(NoTrackers, {g[v] : v \in pages}, fill)
            /\ frameOf' = [frameOf EXCEPT ![p] = Tracked(frameOf[p], pages, g)]
            /\ pte' = [pte EXCEPT ![p] = Mapped(pte[p], pages, g, [v \in pages |-> w])]
    BY <1>2, ZenonT(60)
  <1>4. /\ g \in [pages -> freeFrames] /\ \A u, v \in pages : g[u] = g[v] => u = v
        /\ freeFrames \subseteq Frames
    BY <1>1 DEF Allocations, TypeOK
  <1>5. \A v \in Vpns : frameOf'[p][v] = IF v \in pages THEN g[v] ELSE frameOf[p][v]
    <2>1. frameOf'[p] = Tracked(frameOf[p], pages, g)
      BY <1>1, <1>3 DEF TypeOK
    <2> QED
      BY <2>1 DEF Tracked
  <1>6. /\ \A v \in pages : pte'[p][v] = [ppn |-> g[v], w |-> w, cow |-> FALSE]
        /\ \A v \in Vpns \ pages : pte'[p][v] = pte[p][v]
    <2>1. pte'[p] = Mapped(pte[p], pages, g, [v \in pages |-> w])
      BY <1>1, <1>3 DEF TypeOK
    <2> QED
      BY <2>1 DEF Mapped
  <1>7. \A q \in Procs \ {p} : frameOf'[q] = frameOf[q] /\ pte'[q] = pte[q]
    BY <1>1, <1>3 DEF TypeOK
  <1>8. ASSUME NEW v \in pages PROVE Own(p, v)
    <2>1. g[v] \in freeFrames /\ g[v] \in Frames
      BY <1>4
    <2>2. frameOf'[p][v] = g[v] /\ pte'[p][v].ppn = g[v]
      <3>1. pte'[p][v] = [ppn |-> g[v], w |-> w, cow |-> FALSE]
        BY <1>6
      <3> QED
        BY <1>5, <3>1, SMTT(40)
    <2>3. \A q \in Procs : \A u \in Vpns : frameOf[q][u] # g[v]
      BY <1>1, <2>1, ConstantsAssumption DEF Counted
    <2>4. ASSUME NEW u \in Vpns, frameOf'[p][u] = g[v] PROVE u = v
      BY <1>4, <1>5, <2>3, <2>4
    <2> QED
      BY <2>1, <2>2, <2>3, <2>4 DEF Own
  <1>9. \A v \in Vpns \ pages : Kept(p, v)
    BY <1>5, <1>6 DEF Kept
  <1>10. Changes(p)
    <2>1. ASSUME NEW v \in Vpns PROVE pte'[p][v].w \/ pte'[p][v].cow <=> InWritable(areas'[p], v)
      <3>1. InWritable(areas'[p], v) <=> IF v \in pages THEN w ELSE InWritable(areas[p], v)
        BY DEF Recorded
      <3>2. CASE v \in pages
        <4>1. pte'[p][v] = [ppn |-> g[v], w |-> w, cow |-> FALSE]
          BY <1>6, <3>2
        <4>2. pte'[p][v].w = w /\ pte'[p][v].cow = FALSE
          BY <4>1, SMTT(40)
        <4> QED
          BY <3>1, <3>2, <4>2
      <3>3. CASE v \notin pages
        <4>1. pte'[p][v] = pte[p][v]
          BY <1>6, <3>3
        <4>2. pte[p][v].w \/ pte[p][v].cow <=> InWritable(areas[p], v)
          BY <1>1 DEF WriteInArea
        <4> QED
          BY <3>1, <3>3, <4>1, <4>2
      <3> QED
        BY <3>2, <3>3
    <2> QED
      BY <1>7, <1>8, <1>9, <2>1 DEF Changes, Recorded
  <1>11. CowInv'
    <2>1. /\ dataMax' = dataMax /\ stackTop' = stackTop /\ status' = status /\ halted' = halted
          /\ \A q \in Procs \ {p} : dataEnd'[q] = dataEnd[q]
          /\ Separate(areas'[p]) /\ Shaped(areas'[p])
          /\ HasData(areas'[p], dataEnd'[p], dataMax'[p])
          /\ HasStack(areas'[p], dataMax'[p], stackTop'[p])
      BY DEF Recorded
    <2> QED
      BY <1>10, <2>1, ChangeGood
  <1>12. SameContent(p, Vpns \ pages)
    <2>1. Trackers(p, {}) = NoTrackers
      BY DEF Trackers, NoTrackers
    <2>2. {g[v] : v \in pages} \subseteq freeFrames \cup Freed(Trackers(p, {}))
      BY <1>4, SMTT(40)
    <2>3. {} \in SUBSET Vpns /\ Exchange(Trackers(p, {}), {g[v] : v \in pages}, fill)
      BY <1>3, <2>1
    <2>4. SameContent(p, Vpns \ {})
      BY <1>1, <2>2, <2>3, ExchangeKeeps
    <2> QED
      BY <2>4 DEF SameContent
  <1>13. /\ \A q \in Procs \ {p} : View'[q] = View[q]
         /\ \A v \in Vpns \ pages : Kept(p, v) => View'[p][v] = View[p][v]
         /\ \A v \in Vpns : Own(p, v) => View'[p][v] = content'[frameOf'[p][v]]
    <2>1. PteTracks' /\ Vpns \ pages \in SUBSET Vpns
      BY <1>11 DEF CowInv
    <2> QED
      BY <1>1, <1>10, <1>12, <2>1, ViewStep
  <1>14. ASSUME NEW v \in pages PROVE View[p][v] = Unmapped /\ View'[p][v] \in Values
    <2>1. frameOf[p][v] = NoFrame
      BY <1>1, SMTT(40) DEF PteTracks, PagesOf
    <2>2. View[p][v] = Unmapped
      BY <1>1, <2>1, ViewIs, SMTT(40)
    <2>3. View'[p][v] = content'[g[v]] /\ g[v] \in Frames
      BY <1>4, <1>5, <1>8, <1>13
    <2>4. content' \in [Frames -> Values]
      BY DEF Accounted, TypeOK
    <2> QED
      BY <2>2, <2>3, <2>4
  <1>15. Private!Map(p)
    BY <1>9, <1>13, <1>14 DEF Private!Map, Private!OnlyOf
  <1> QED
    BY <1>11, <1>15 DEF Good, Private!Next

(* sys_mmap at an address of the kernel's choice.                          *)
LEMMA MmapGood ==
  ASSUME Accounted, Accounted', Counted, CowInv, NEW p \in Procs, NEW length \in MmapSizes,
         NEW w \in BOOLEAN, NEW fd \in Fds, Mmap(p, length, w, fd)
  PROVE  Good
  <1>1. PICK end \in VAs :
          LET area == Area(end - length, end, w)
              faults == ~w \/ end % PageSize = 0
          IN /\ Running(p)
             /\ IsUserArea(areas[p], dataMax[p], length, end)
             /\ area.pages \subseteq Vpns
             /\ \/ MapFails(p, area.pages)
                \/ /\ ~Blocked(p, area.pages) /\ ~Starved(area.pages)
                   /\ \/ fd \in {"closed", "failing"} /\ Halt("mmap_fd")
                      \/ fd = "file" /\ faults /\ Halt("mmap_file")
                \/ /\ fd = "none" \/ (fd = "file" /\ ~faults)
                   /\ MapPages(p, area.pages, w)
                   /\ areas' = [areas EXCEPT ![p] = @ \cup {area}]
                   /\ UNCHANGED <<status, dataEnd, dataMax, stackTop, halted>>
    BY ZenonT(60) DEF Mmap
  <1> DEFINE area == Area(end - length, end, w)
             as == areas[p]
  <1>2. TypeOK /\ PteTracks /\ LaidOut
    BY DEF Accounted, CowInv
  <1>3. /\ as \in SUBSET MapArea /\ dataMax[p] \in Nat /\ length \in Nat \ {0} /\ end \in Nat
        /\ status[p] = "live" /\ Separate(as) /\ Shaped(as)
        /\ HasData(as, dataEnd[p], dataMax[p]) /\ HasStack(as, dataMax[p], stackTop[p])
    BY <1>1, <1>2, ConstantsAssumption, SMTT(40) DEF TypeOK, VAs, Running, LaidOut
  <1>4. /\ end - length \in Nat /\ dataMax[p] + PageSize <= end - length
        /\ Exact(area) /\ \A a \in as : Clear(area, a)
    BY <1>1, <1>3, UserArea
  <1>5. area.start = end - length /\ area.end = end /\ area.w = w /\ area \in MapArea
    BY <1>1, <1>3, <1>4, MapAreaType, ZenonT(60) DEF Area
  <1> HIDE DEF area, as
  <1>6. ASSUME NEW a \in as PROVE a.pages \cap area.pages = {}
    <2>1. a \in MapArea /\ Exact(a) /\ Clear(area, a)
      BY <1>3, <1>4 DEF Shaped
    <2> QED
      BY <1>4, <1>5, <2>1, ClearPages
  <1>7. area.pages \in SUBSET Vpns /\ ~Blocked(p, area.pages)
    BY <1>1, <1>2, <1>6, NotBlocked DEF area, as
  <1>8. CASE Halt("frame_alloc") \/ Halt("mmap_fd") \/ Halt("mmap_file")
    BY <1>8, HaltGood
  <1>9. CASE /\ MapPages(p, area.pages, w)
             /\ areas' = [areas EXCEPT ![p] = @ \cup {area}]
             /\ UNCHANGED <<status, dataEnd, dataMax, stackTop, halted>>
    <2>1. areas'[p] = as \cup {area} /\ \A q \in Procs \ {p} : areas'[q] = areas[q]
      BY <1>2, <1>9 DEF TypeOK, as
    <2>2. Separate(areas'[p]) /\ Shaped(areas'[p])
      <3>1. Separate(as \cup {area}) /\ Shaped(as \cup {area})
        BY ONLY <1>3, <1>4, OneMore
      <3> QED
        BY <2>1, <3>1
    <2>3. HasData(areas'[p], dataEnd[p], dataMax[p])
      <3>1. PICK d \in as : IsData(as, dataEnd[p], dataMax[p], d)
        BY <1>3 DEF HasData
      <3>2. IsData(areas'[p], dataEnd[p], dataMax[p], d)
        BY <1>4, <1>5, <2>1, <3>1 DEF IsData
      <3> QED
        BY <2>1, <3>2 DEF HasData
    <2>4. HasStack(areas'[p], dataMax[p], stackTop[p])
      BY <1>3, <2>1 DEF HasStack
    <2>5. ASSUME NEW v \in Vpns
          PROVE  InWritable(areas'[p], v) <=> IF v \in area.pages THEN w ELSE InWritable(areas[p], v)
      BY <1>5, <1>6, <2>1 DEF InWritable, as
    <2>6. Recorded(p, area.pages, w)
      BY <1>9, <2>1, <2>2, <2>3, <2>4, <2>5 DEF Recorded
    <2> QED
      BY <1>6, <1>7, <1>9, <2>6, MapGood DEF as
  <1> QED
    BY <1>1, <1>7, <1>8, <1>9, ZenonT(60) DEF MapFails, area

(* brk with the break moved up.                                            *)
LEMMA BrkGood ==
  ASSUME Accounted, Accounted', Counted, CowInv, NEW p \in Procs, NEW addr \in Addrs,
         addr >= dataEnd[p], Brk(p, addr)
  PROVE  Good
  <1> DEFINE as == areas[p]
             end == dataEnd[p]
             max == dataMax[p]
             pages == BrkPages(end, addr)
             next(a) == [a EXCEPT !.end = addr, !.pages = @ \cup pages]
  <1>1. TypeOK /\ PteTracks /\ LaidOut
    BY DEF Accounted, CowInv
  <1>2. /\ Running(p) /\ addr <= max /\ pages \subseteq Vpns
        /\ \/ /\ \A a \in as : ~IsAreaAt(as, end, a)
              /\ Halt("brk")
           \/ \E a \in as :
                /\ IsAreaAt(as, end, a)
                /\ \/ MapFails(p, pages)
                   \/ /\ MapPages(p, pages, a.w)
                      /\ areas' = [areas EXCEPT ![p] = (@ \ {a}) \cup {next(a)}]
                      /\ dataEnd' = [dataEnd EXCEPT ![p] = addr]
                      /\ UNCHANGED <<status, dataMax, stackTop, halted>>
    BY ZenonT(60) DEF Brk, BrkPages
  <1>3. /\ as \in SUBSET MapArea /\ max \in Nat /\ end \in Nat /\ addr \in Nat /\ end <= addr
        /\ Separate(as) /\ Shaped(as) /\ HasData(as, end, max) /\ HasStack(as, max, stackTop[p])
    BY <1>1, <1>2, ConstantsAssumption DEF TypeOK, Running, LaidOut
  <1> HIDE DEF as, end, max, pages
  <1>4. \E a \in as : IsAreaAt(as, end, a)
    <2>1. PICK d \in as : IsData(as, end, max, d)
      BY <1>3 DEF HasData
    <2>2. d.start <= end /\ end <= d.end /\ d.start < end
      <3>1. d.start \in Nat /\ d.start < d.end /\ d.end = end
        BY <1>3, <2>1 DEF Shaped, Exact, IsData, MapArea
      <3> QED
        BY <1>3, <3>1, SMTT(40)
    <2> QED
      BY <1>3, <2>2, AreaFound
  <1>5. PICK a \in as :
          /\ IsAreaAt(as, end, a)
          /\ \/ MapFails(p, pages)
             \/ /\ MapPages(p, pages, a.w)
                /\ areas' = [areas EXCEPT ![p] = (@ \ {a}) \cup {next(a)}]
                /\ dataEnd' = [dataEnd EXCEPT ![p] = addr]
                /\ UNCHANGED <<status, dataMax, stackTop, halted>>
    BY <1>2, <1>4
  <1>6. /\ next(a) \in MapArea /\ next(a).pages = a.pages \cup pages /\ next(a).w = a.w
        /\ next(a).start = a.start /\ next(a).end = addr /\ a.w \in BOOLEAN
    <2>1. a \in MapArea
      BY <1>3
    <2> QED
      BY <1>2, <1>3, <2>1, ZenonT(60) DEF MapArea
  <1> DEFINE b == next(a)
  <1> HIDE DEF b
  <1>7. /\ b \in MapArea /\ b.start = a.start /\ b.end = addr /\ b.w = a.w
        /\ b.pages = a.pages \cup BrkPages(end, addr) /\ b.pages = a.pages \cup pages
    BY <1>6 DEF b, pages
  <1>8. /\ Separate((as \ {a}) \cup {b}) /\ Shaped((as \ {a}) \cup {b})
        /\ HasData((as \ {a}) \cup {b}, addr, max)
        /\ HasStack((as \ {a}) \cup {b}, max, stackTop[p])
        /\ \A c \in as : c.pages \cap BrkPages(end, addr) = {}
    <2>1. a \in as /\ IsAreaAt(as, end, a) /\ addr <= max
      BY <1>2, <1>5
    <2>2. MovesUp(as, end, max, stackTop[p], addr, a, b)
      BY <1>3, <1>7, <2>1 DEF MovesUp
    <2> QED
      BY <2>2, BrkLaidOut
  <1>9. \A c \in areas[p] : c.pages \cap pages = {}
    BY <1>8 DEF as, pages
  <1>10. ~Blocked(p, pages)
    BY <1>1, <1>2, <1>9, NotBlocked
  <1>11. CASE Halt("frame_alloc")
    BY <1>11, HaltGood
  <1>12. CASE /\ MapPages(p, pages, a.w)
              /\ areas' = [areas EXCEPT ![p] = (@ \ {a}) \cup {b}]
              /\ dataEnd' = [dataEnd EXCEPT ![p] = addr]
              /\ UNCHANGED <<status, dataMax, stackTop, halted>>
    <2>1. /\ areas'[p] = (as \ {a}) \cup {b} /\ dataEnd'[p] = addr
          /\ \A q \in Procs \ {p} : areas'[q] = areas[q] /\ dataEnd'[q] = dataEnd[q]
      BY <1>1, <1>12 DEF TypeOK, as
    <2>2. ASSUME NEW v \in Vpns
          PROVE  InWritable(areas'[p], v) <=> IF v \in pages THEN a.w ELSE InWritable(areas[p], v)
      BY <1>5, <1>7, <1>9, <2>1 DEF InWritable, as
    <2>3. Recorded(p, pages, a.w)
      BY <1>8, <1>12, <2>1, <2>2 DEF Recorded, max
    <2>4. pages \in SUBSET Vpns /\ a.w \in BOOLEAN /\ MapPages(p, pages, a.w)
      BY <1>2, <1>6, <1>12
    <2> QED
      BY <1>9, <2>3, <2>4, MapGood
  <1> QED
    BY <1>5, <1>10, <1>11, <1>12, ZenonT(60) DEF MapFails, b

(* remove_area: the pages of the area go, the others stay.                 *)
LEMMA RemoveGood ==
  ASSUME Accounted, Accounted', Counted, CowInv, NEW p \in Procs, NEW a \in areas[p],
         Exchange(Trackers(p, a.pages), {}, <<>>),
         frameOf' = [frameOf EXCEPT ![p] =
           [v \in Vpns |-> IF v \in a.pages THEN NoFrame ELSE frameOf[p][v]]],
         pte' = [pte EXCEPT ![p] =
           [v \in Vpns |-> IF v \in VpnRange(a.start, a.end) THEN EMPTY ELSE pte[p][v]]],
         areas' = [areas EXCEPT ![p] = @ \ {a}],
         UNCHANGED <<dataEnd, dataMax, stackTop, halted>>,
         \A q \in Procs \ {p} : status'[q] = status[q],
         status'[p] = "live" => /\ HasData(areas[p] \ {a}, dataEnd[p], dataMax[p])
                                /\ HasStack(areas[p] \ {a}, dataMax[p], stackTop[p])
  PROVE  Good
  <1>1. TypeOK /\ FrameAccounting /\ AreasApart /\ PteTracks /\ WriteInArea /\ LaidOut
    BY DEF Accounted, CowInv
  <1>2. a.pages = VpnRange(a.start, a.end) /\ a.pages \in SUBSET Vpns
    BY <1>1, SMTT(40) DEF LaidOut, Shaped, Exact, TypeOK, MapArea
  <1>3. areas'[p] = areas[p] \ {a} /\ \A q \in Procs \ {p} : areas'[q] = areas[q]
    BY <1>1 DEF TypeOK
  <1>4. /\ \A v \in Vpns : frameOf'[p][v] = IF v \in a.pages THEN NoFrame ELSE frameOf[p][v]
        /\ \A q \in Procs \ {p} : frameOf'[q] = frameOf[q]
    BY <1>1 DEF TypeOK
  <1>5. /\ \A v \in Vpns : pte'[p][v] = IF v \in a.pages THEN EMPTY ELSE pte[p][v]
        /\ \A q \in Procs \ {p} : pte'[q] = pte[q]
    BY <1>1, <1>2 DEF TypeOK
  <1>6. \A v \in a.pages : Gone(p, v)
    BY <1>2, <1>4, <1>5 DEF Gone
  <1>7. \A v \in Vpns \ a.pages : Kept(p, v)
    BY <1>4, <1>5 DEF Kept
  <1>8. Changes(p)
    <2>1. ASSUME NEW v \in Vpns PROVE pte'[p][v].w \/ pte'[p][v].cow <=> InWritable(areas'[p], v)
      <3>1. CASE v \in a.pages
        <4>1. pte'[p][v] = EMPTY
          BY <1>5, <3>1
        <4>2. ~pte'[p][v].w /\ ~pte'[p][v].cow
          BY <4>1, SMTT(40) DEF EMPTY
        <4>3. \A b \in areas[p] : b # a => b.pages \cap a.pages = {}
          BY <1>1, ZenonT(60) DEF AreasApart, Apart
        <4>4. ~InWritable(areas'[p], v)
          BY <1>3, <3>1, <4>3 DEF InWritable
        <4> QED
          BY <4>2, <4>4
      <3>2. CASE v \notin a.pages
        <4>1. pte'[p][v] = pte[p][v]
          BY <1>5, <3>2
        <4>2. pte[p][v].w \/ pte[p][v].cow <=> InWritable(areas[p], v)
          BY <1>1 DEF WriteInArea
        <4>3. InWritable(areas'[p], v) <=> InWritable(areas[p], v)
          BY <1>3, <3>2 DEF InWritable
        <4> QED
          BY <4>1, <4>2, <4>3
      <3> QED
        BY <3>1, <3>2
    <2> QED
      BY <1>3, <1>4, <1>5, <1>6, <1>7, <2>1 DEF Changes
  <1>9. CowInv'
    <2>1. Separate(areas[p]) /\ Shaped(areas[p])
      BY <1>1 DEF LaidOut
    <2>2. Separate(areas'[p]) /\ Shaped(areas'[p])
      BY <1>3, <2>1 DEF Separate, Shaped
    <2>3. /\ dataEnd' = dataEnd /\ dataMax' = dataMax /\ stackTop' = stackTop /\ halted' = halted
      OBVIOUS
    <2> QED
      BY <1>3, <1>8, <2>2, <2>3, ChangeGood
  <1>10. SameContent(p, Vpns \ a.pages)
    BY <1>1, <1>2, ExchangeKeeps
  <1>11. /\ \A q \in Procs \ {p} : View'[q] = View[q]
         /\ \A v \in Vpns \ a.pages : Kept(p, v) => View'[p][v] = View[p][v]
         /\ \A v \in Vpns : Gone(p, v) => View'[p][v] = Unmapped
    <2>1. PteTracks' /\ Vpns \ a.pages \in SUBSET Vpns
      BY <1>9 DEF CowInv
    <2> QED
      BY <1>1, <1>8, <1>10, <2>1, ViewStep
  <1>12. Private!Unmap(p)
    BY <1>6, <1>7, <1>11 DEF Private!Unmap, Private!OnlyOf
  <1> QED
    BY <1>9, <1>12 DEF Good, Private!Next

(* sys_munmap of an area made by mmap.                                     *)
LEMMA MunmapGood ==
  ASSUME Accounted, Accounted', Counted, CowInv, NEW p \in Procs, NEW addr \in Addrs,
         \E a \in areas[p] : IsAreaAt(areas[p], addr, a) /\ IsMmapArea(p, a),
         Munmap(p, addr)
  PROVE  Good
  <1>1. TypeOK /\ LaidOut /\ Running(p)
    BY DEF Accounted, CowInv, Munmap
  <1>2. /\ areas[p] \in SUBSET MapArea /\ dataMax[p] \in Nat /\ addr \in Nat
        /\ Separate(areas[p]) /\ Shaped(areas[p])
        /\ HasData(areas[p], dataEnd[p], dataMax[p]) /\ HasStack(areas[p], dataMax[p], stackTop[p])
    BY <1>1, ConstantsAssumption DEF TypeOK, LaidOut, Running
  <1>3. RemoveArea(p, addr) /\ UNCHANGED <<status, halted>>
    BY ZenonT(60) DEF Munmap, RemoveFails
  <1>4. PICK a \in areas[p] :
          /\ IsAreaAt(areas[p], addr, a)
          /\ Exchange(Trackers(p, a.pages), {}, <<>>)
          /\ frameOf' = [frameOf EXCEPT ![p] =
               [v \in Vpns |-> IF v \in a.pages THEN NoFrame ELSE frameOf[p][v]]]
          /\ pte' = [pte EXCEPT ![p] =
               [v \in Vpns |-> IF v \in VpnRange(a.start, a.end) THEN EMPTY ELSE pte[p][v]]]
          /\ areas' = [areas EXCEPT ![p] = @ \ {a}]
          /\ UNCHANGED <<dataEnd, dataMax, stackTop>>
    BY <1>3, ZenonT(60) DEF RemoveArea
  <1>5. a.start > dataMax[p] /\ a.end # stackTop[p] /\ a.start \in Nat
    <2>1. PICK b \in areas[p] : IsAreaAt(areas[p], addr, b) /\ IsMmapArea(p, b)
      OBVIOUS
    <2>3. a = b
      BY <1>2, <1>4, <2>1, AreaUnique
    <2> QED
      BY <1>2, <2>1, <2>3 DEF IsMmapArea, MapArea
  <1>6. HasData(areas[p] \ {a}, dataEnd[p], dataMax[p])
    <2>1. PICK d \in areas[p] : IsData(areas[p], dataEnd[p], dataMax[p], d)
      BY <1>2 DEF HasData
    <2>2. d.start \in Nat /\ d.end \in Nat /\ d.start < d.end /\ d.end <= dataMax[p]
      BY <1>2, <2>1 DEF IsData, Shaped, Exact, MapArea
    <2>3. d # a
      BY <1>2, <1>5, <2>2, SMTT(40)
    <2>4. IsData(areas[p] \ {a}, dataEnd[p], dataMax[p], d)
      BY <2>1, <2>3 DEF IsData
    <2> QED
      BY <2>3, <2>4 DEF HasData
  <1>7. HasStack(areas[p] \ {a}, dataMax[p], stackTop[p])
    BY <1>2, <1>5 DEF HasStack
  <1>8. UNCHANGED <<dataEnd, dataMax, stackTop, halted>> /\ \A q \in Procs \ {p} : status'[q] = status[q]
    BY <1>3, <1>4
  <1> QED
    BY <1>4, <1>6, <1>7, <1>8, RemoveGood

(* sys_exit finds the user stack and removes it.                           *)
LEMMA ExitGood ==
  ASSUME Accounted, Accounted', Counted, CowInv, NEW p \in Procs, Exit(p)
  PROVE  Good
  <1>1. TypeOK /\ LaidOut /\ Running(p)
    BY DEF Accounted, CowInv, Exit
  <1>2. /\ areas[p] \in SUBSET MapArea /\ stackTop[p] \in Nat
        /\ Separate(areas[p]) /\ Shaped(areas[p]) /\ HasStack(areas[p], dataMax[p], stackTop[p])
    BY <1>1 DEF TypeOK, LaidOut, Running
  <1>3. \E a \in areas[p] : IsAreaAt(areas[p], stackTop[p], a)
    <2>1. PICK s \in areas[p] : s.end = stackTop[p]
      BY <1>2 DEF HasStack
    <2>2. s.start \in Nat /\ s.start < s.end
      BY <1>2 DEF Shaped, Exact, MapArea
    <2>3. s.start <= stackTop[p] /\ stackTop[p] <= s.end /\ s.start < stackTop[p]
      BY <1>2, <2>1, <2>2, SMTT(40)
    <2> QED
      BY <1>2, <2>3, AreaFound
  <1>4. RemoveArea(p, stackTop[p]) /\ status' = [status EXCEPT ![p] = "zombie"] /\ halted' = halted
    BY <1>3, ZenonT(60) DEF Exit, RemoveFails
  <1>5. PICK a \in areas[p] :
          /\ Exchange(Trackers(p, a.pages), {}, <<>>)
          /\ frameOf' = [frameOf EXCEPT ![p] =
               [v \in Vpns |-> IF v \in a.pages THEN NoFrame ELSE frameOf[p][v]]]
          /\ pte' = [pte EXCEPT ![p] =
               [v \in Vpns |-> IF v \in VpnRange(a.start, a.end) THEN EMPTY ELSE pte[p][v]]]
          /\ areas' = [areas EXCEPT ![p] = @ \ {a}]
          /\ UNCHANGED <<dataEnd, dataMax, stackTop>>
    BY <1>4, ZenonT(60) DEF RemoveArea
  <1>6. status'[p] # "live" /\ \A q \in Procs \ {p} : status'[q] = status[q]
    BY <1>1, <1>4 DEF TypeOK
  <1>7. UNCHANGED <<dataEnd, dataMax, stackTop, halted>>
    BY <1>4, <1>5
  <1> QED
    BY <1>5, <1>6, <1>7, RemoveGood

(* fork: the child reads what the parent reads, and no page of either can  *)
(* be written before a copy.                                               *)
LEMMA ForkGood ==
  ASSUME Accounted, Accounted', CowInv, NEW p \in Procs, NEW c \in Procs, Fork(p, c)
  PROVE  Good
  <1> DEFINE parent == [v \in Vpns |-> ForkEntries(p)[v].parent]
             child == [v \in Vpns |-> ForkEntries(p)[v].child]
  <1>1. TypeOK /\ FreeSlotsEmpty /\ PteTracks /\ NoSharedWrite /\ WriteInArea /\ LaidOut /\ AssertsHold
    BY DEF Accounted, CowInv
  <1>2. /\ status[p] = "live" /\ status[c] = "none"
        /\ frameOf' = [frameOf EXCEPT ![c] = frameOf[p]]
        /\ pte' = [pte EXCEPT ![p] = parent, ![c] = child]
        /\ areas' = [areas EXCEPT ![c] = areas[p]]
        /\ dataEnd' = [dataEnd EXCEPT ![c] = dataEnd[p]]
        /\ dataMax' = [dataMax EXCEPT ![c] = dataMax[p]]
        /\ stackTop' = [stackTop EXCEPT ![c] = stackTop[p]]
        /\ status' = [status EXCEPT ![c] = "live"]
        /\ halted' = halted /\ content' = content
    BY ZenonT(60) DEF Fork, ForkSpace, Running
  <1>3. p # c
    BY <1>2
  <1>4. /\ pte'[p] = parent /\ pte'[c] = child
        /\ \A q \in Procs \ {p, c} : pte'[q] = pte[q]
    <2> HIDE DEF parent, child
    <2> QED
      BY <1>1, <1>2, <1>3 DEF TypeOK
  <1>5. /\ frameOf'[c] = frameOf[p] /\ areas'[c] = areas[p]
        /\ \A q \in Procs \ {c} : frameOf'[q] = frameOf[q] /\ areas'[q] = areas[q]
    BY <1>1, <1>2 DEF TypeOK
  <1>6. /\ dataEnd'[c] = dataEnd[p] /\ dataMax'[c] = dataMax[p] /\ stackTop'[c] = stackTop[p]
        /\ status'[c] = "live"
        /\ \A q \in Procs \ {c} : /\ dataEnd'[q] = dataEnd[q] /\ dataMax'[q] = dataMax[q]
                                  /\ stackTop'[q] = stackTop[q] /\ status'[q] = status[q]
    BY <1>1, <1>2 DEF TypeOK
  <1>7. ASSUME NEW v \in Vpns
        PROVE  /\ pte'[p][v].ppn = frameOf[p][v] /\ ~pte'[p][v].w
               /\ pte'[p][v].cow <=> InWritable(areas[p], v)
               /\ pte'[c][v].ppn = frameOf[p][v] /\ ~pte'[c][v].w
               /\ pte'[c][v].cow <=> InWritable(areas[p], v)
    <2>1. /\ pte[p][v].ppn = frameOf[p][v]
          /\ frameOf[p][v] # NoFrame <=> v \in PagesOf(areas[p])
          /\ pte[p][v].w \/ pte[p][v].cow <=> InWritable(areas[p], v)
      BY <1>1 DEF PteTracks, WriteInArea
    <2>2. pte[p][v].w \in BOOLEAN /\ pte[p][v].cow \in BOOLEAN
      BY <1>1 DEF TypeOK, Entry
    <2>3. pte'[p][v] = ForkEntries(p)[v].parent /\ pte'[c][v] = ForkEntries(p)[v].child
      BY <1>4
    <2>4. CASE v \notin PagesOf(areas[p])
      <3>1. ForkEntries(p)[v] = [parent |-> pte[p][v], child |-> EMPTY]
        BY <2>4, ZenonT(60) DEF ForkEntries
      <3>2. pte'[p][v] = pte[p][v] /\ pte'[c][v] = EMPTY
        BY <2>3, <3>1, SMTT(40)
      <3>3. ~InWritable(areas[p], v)
        BY <2>4 DEF InWritable, PagesOf
      <3>4. EMPTY.ppn = NoFrame /\ ~EMPTY.w /\ ~EMPTY.cow
        BY DEF EMPTY
      <3> QED
        BY <2>1, <2>2, <2>4, <3>2, <3>3, <3>4
    <2>5. CASE v \in PagesOf(areas[p]) /\ InWritable(areas[p], v)
      <3> DEFINE shared == [ppn |-> frameOf[p][v], w |-> FALSE, cow |-> TRUE]
      <3>1. ForkEntries(p)[v] = [parent |-> shared, child |-> shared]
        BY <2>5, ZenonT(60) DEF ForkEntries, InWritable
      <3>2. pte'[p][v] = shared /\ pte'[c][v] = shared
        BY <2>3, <3>1, SMTT(40)
      <3> QED
        BY <2>5, <3>2, SMTT(40)
    <2>6. CASE v \in PagesOf(areas[p]) /\ ~InWritable(areas[p], v)
      <3> DEFINE plain == [ppn |-> frameOf[p][v], w |-> FALSE, cow |-> FALSE]
      <3>1. ForkEntries(p)[v] = [parent |-> pte[p][v], child |-> plain]
        BY <2>6, ZenonT(60) DEF ForkEntries, InWritable
      <3>2. pte'[p][v] = pte[p][v] /\ pte'[c][v] = plain
        BY <2>3, <3>1, SMTT(40)
      <3> QED
        BY <2>1, <2>2, <2>6, <3>2, SMTT(40)
    <2> QED
      BY <2>4, <2>5, <2>6
  <1> HIDE DEF parent, child
  <1>8. PteTracks'
    <2>1. ASSUME NEW q \in Procs, NEW v \in Vpns PROVE pte'[q][v].ppn = frameOf'[q][v]
      <3>1. CASE q \in {p, c}
        BY <1>3, <1>5, <1>7, <3>1
      <3>2. CASE q \notin {p, c}
        <4>1. pte'[q] = pte[q] /\ frameOf'[q] = frameOf[q]
          BY <1>4, <1>5, <3>2
        <4> QED
          BY <1>1, <4>1 DEF PteTracks
      <3> QED
        BY <3>1, <3>2
    <2>2. TrackersMapped'
      BY DEF Accounted
    <2> QED
      BY <2>1, <2>2 DEF PteTracks, TrackersMapped
  <1>9. WriteInArea'
    <2>1. ASSUME NEW q \in Procs, NEW v \in Vpns
          PROVE  pte'[q][v].w \/ pte'[q][v].cow <=> InWritable(areas'[q], v)
      <3>1. CASE q \in {p, c}
        BY <1>3, <1>5, <1>7, <3>1
      <3>2. CASE q \notin {p, c}
        <4>1. pte'[q] = pte[q] /\ areas'[q] = areas[q]
          BY <1>4, <1>5, <3>2
        <4> QED
          BY <1>1, <4>1 DEF WriteInArea
      <3> QED
        BY <3>1, <3>2
    <2> QED
      BY <2>1 DEF WriteInArea, InWritable
  <1>10. NoSharedWrite'
    <2>1. \A q \in Procs, u \in Vpns : pte[q][u].w =>
            /\ frameOf[q][u] # NoFrame
            /\ \A r \in Procs, v \in Vpns : frameOf[r][v] = frameOf[q][u] => q = r /\ u = v
      BY <1>1, SoleWriter
    <2>2. ASSUME NEW q \in Procs, NEW u \in Vpns, pte'[q][u].w,
                 NEW r \in Procs, NEW v \in Vpns, pte'[r][v].ppn = pte'[q][u].ppn
          PROVE  q = r /\ u = v
      <3>1. q \notin {p, c}
        BY <1>7, <2>2
      <3>2. pte[q][u].w /\ frameOf'[q][u] = frameOf[q][u]
        BY <1>4, <1>5, <2>2, <3>1
      <3>3. frameOf'[r][v] = frameOf[q][u]
        BY <1>8, <2>2, <3>2 DEF PteTracks
      <3>4. CASE r = c
        <4>1. frameOf[p][v] = frameOf[q][u]
          BY <1>5, <3>3, <3>4
        <4> QED
          BY <2>1, <3>1, <3>2, <4>1
      <3>5. CASE r # c
        <4>1. frameOf[r][v] = frameOf[q][u]
          BY <1>5, <3>3, <3>5
        <4> QED
          BY <2>1, <3>2, <4>1
      <3> QED
        BY <3>4, <3>5
    <2> QED
      BY <2>2 DEF NoSharedWrite
  <1>11. LaidOut'
    <2>1. ASSUME NEW q \in Procs
          PROVE  /\ Separate(areas'[q]) /\ Shaped(areas'[q])
                 /\ status'[q] = "live" => /\ HasData(areas'[q], dataEnd'[q], dataMax'[q])
                                           /\ HasStack(areas'[q], dataMax'[q], stackTop'[q])
      <3>1. CASE q = c
        BY <1>1, <1>2, <1>5, <1>6, <3>1 DEF LaidOut
      <3>2. CASE q # c
        <4>1. /\ areas'[q] = areas[q] /\ status'[q] = status[q] /\ dataEnd'[q] = dataEnd[q]
              /\ dataMax'[q] = dataMax[q] /\ stackTop'[q] = stackTop[q]
          BY <1>5, <1>6, <3>2
        <4> QED
          BY <1>1, <4>1 DEF LaidOut
      <3> QED
        BY <3>1, <3>2
    <2> QED
      BY <2>1, ZenonT(60) DEF LaidOut, Separate, Shaped, HasData, HasStack, IsData, Clear, Exact
  <1>12. AssertsHold'
    BY <1>1, <1>2 DEF AssertsHold
  <1>13. View = [q \in Procs |-> [u \in Vpns |->
                  IF frameOf[q][u] # NoFrame THEN content[frameOf[q][u]] ELSE Unmapped]]
    BY <1>1, ViewIs
  <1>14. View' = [q \in Procs |-> [u \in Vpns |->
                   IF frameOf'[q][u] # NoFrame THEN content[frameOf'[q][u]] ELSE Unmapped]]
    <2>1. \A q \in Procs, u \in Vpns : pte'[q][u].ppn = frameOf'[q][u]
      BY <1>8 DEF PteTracks
    <2>2. content' = content
      BY <1>2
    <2> QED
      BY <2>1, <2>2 DEF View, Valid, Unmapped
  <1>15. View[c] = Private!Nothing
    <2>1. \A v \in Vpns : frameOf[c][v] = NoFrame
      BY <1>1, <1>2 DEF FreeSlotsEmpty, NoTrackers
    <2> QED
      BY <1>13, <2>1 DEF Private!Nothing
  <1>16. View' = [View EXCEPT ![c] = View[p]]
    <2>1. View'[c] = View[p]
      BY <1>5, <1>13, <1>14
    <2>2. ASSUME NEW q \in Procs \ {c} PROVE View'[q] = View[q]
      <3>1. frameOf'[q] = frameOf[q]
        BY <1>5
      <3> QED
        BY <1>13, <1>14, <3>1
    <2>3. View' = [q \in Procs |-> View'[q]] /\ View = [q \in Procs |-> View[q]]
      BY DEF View
    <2> QED
      BY <2>1, <2>2, <2>3
  <1>17. Private!Next
    BY <1>15, <1>16, ZenonT(60) DEF Private!Next, Private!Fork
  <1> QED
    BY <1>8, <1>9, <1>10, <1>11, <1>12, <1>17 DEF Good, CowInv
-----------------------------------------------------------------------------
(* Nothing is mapped at the start.                                         *)
LEMMA CowInit ==
  ASSUME Init
  PROVE  CowInv /\ Private!Init
  <1>1. \A p \in Procs, v \in Vpns : pte[p][v] = EMPTY /\ frameOf[p][v] = NoFrame
    BY DEF Init
  <1>2. EMPTY.ppn = NoFrame /\ ~EMPTY.w /\ ~EMPTY.cow
    BY DEF EMPTY
  <1>3. \A p \in Procs : areas[p] = {} /\ status[p] = "none"
    BY DEF Init
  <1>4. PteTracks
    BY <1>1, <1>2, <1>3 DEF PteTracks, PagesOf
  <1>5. NoSharedWrite
    BY <1>1, <1>2 DEF NoSharedWrite
  <1>6. WriteInArea
    BY <1>1, <1>2, <1>3 DEF WriteInArea, InWritable
  <1>7. LaidOut
    BY <1>3 DEF LaidOut, Separate, Shaped
  <1>8. AssertsHold
    BY DEF Init, AssertsHold
  <1>9. Private!Init
    BY <1>1, <1>2 DEF Private!Init, Private!Nothing, View, Valid
  <1> QED
    BY <1>4, <1>5, <1>6, <1>7, <1>8, <1>9 DEF CowInv

(* Every step keeps the invariant and is a step of the private memories.   *)
LEMMA StepGood ==
  ASSUME Accounted, Accounted', Counted, CowInv, [Next]_vars
  PROVE  Good
  <1>1. CASE UNCHANGED vars
    <2>1. Halt(halted)
      BY <1>1 DEF Halt, vars, physical, layout
    <2>2. halted \notin {"map_one", "brk", "remove_area", "free_list"}
      BY DEF CowInv, AssertsHold
    <2> QED
      BY <2>1, <2>2, HaltGood
  <1>2. ASSUME NEW p \in Procs, NewThread(p) \/ Execve(p) PROVE Good
    BY <1>2, LoadGood DEF NewThread, Execve
  <1>3. ASSUME NEW p \in Procs, Exit(p) \/ DropProcess(p) PROVE Good
    BY <1>3, ExitGood, DropGood
  <1>4. ASSUME NEW p \in Procs, NEW c \in Procs, Fork(p, c) PROVE Good
    BY <1>4, ForkGood
  <1>5. ASSUME NEW p \in Procs, NEW v \in Vpns, NEW x \in Values, Store(p, v, x) PROVE Good
    BY <1>5, StoreGood
  <1>6. ASSUME NEW p \in Procs, NEW va \in VAs, HandlePagefault(p, va) PROVE Good
    BY <1>6, PagefaultGood
  <1>7. ASSUME NEW p \in Procs, NEW addr \in Addrs, addr >= dataEnd[p], Brk(p, addr) PROVE Good
    BY <1>7, BrkGood
  <1>8. ASSUME NEW p \in Procs, NEW length \in MmapSizes, NEW w \in BOOLEAN, NEW fd \in Fds,
               Mmap(p, length, w, fd)
        PROVE  Good
    BY <1>8, MmapGood
  <1>9. ASSUME NEW p \in Procs, NEW addr \in Addrs,
               \E a \in areas[p] : IsAreaAt(areas[p], addr, a) /\ IsMmapArea(p, a), Munmap(p, addr)
        PROVE  Good
    BY <1>9, MunmapGood
  <1>10. CASE Stopped
    BY <1>1, <1>10 DEF Stopped
  <1> QED
    BY <1>1, <1>2, <1>3, <1>4, <1>5, <1>6, <1>7, <1>8, <1>9, <1>10, ZenonT(60) DEF Next

-----------------------------------------------------------------------------
(***************************************************************************)
(* Every operation keeps Accounted: counting trackers and exchanging       *)
(* frames; and the theorems.                                               *)
(***************************************************************************)

(* A process whose areas and pages are as they were.                       *)
LEMMA TrackersKept ==
  ASSUME TrackersMapped, NEW q \in Procs, NEW v \in Vpns,
         areas'[q] = areas[q], frameOf'[q] = frameOf[q], pte'[q] = pte[q]
  PROVE  /\ frameOf'[q][v] # NoFrame <=> v \in PagesOf(areas'[q])
         /\ frameOf'[q][v] # NoFrame => pte'[q][v].ppn = frameOf'[q][v]
  BY DEF TrackersMapped

(* Counting the trackers of one process.                                   *)

(* Page numbers are finitely many numbers.                                 *)
LEMMA VpnsFinite == IsFiniteSet(Vpns) /\ Vpns \subseteq Nat
  BY ConstantsAssumption, FS_Interval, SMTT(40) DEF Vpns

(* Sets of pages can be counted.                                           *)
LEMMA PagesFinite ==
  ASSUME NEW S \in SUBSET Vpns
  PROVE  IsFiniteSet(S) /\ Cardinality(S) \in Nat
  BY VpnsFinite, FS_Subset, FS_CardinalityType, ZenonT(60)

(* A frame is counted zero times exactly when no page has it.              *)
LEMMA CountType ==
  ASSUME NEW t, NEW f
  PROVE  /\ Count(t, f) \in Nat
         /\ Count(t, f) = 0 <=> \A v \in Vpns : t[v] # f
  <1> DEFINE S == {v \in Vpns : t[v] = f}
  <1>1. IsFiniteSet(S) /\ Cardinality(S) \in Nat
    BY PagesFinite
  <1>2. Cardinality(S) = 0 <=> S = {}
    BY <1>1, FS_EmptySet
  <1> QED
    BY <1>1, <1>2 DEF Count

(* One tracker on a frame counts one.                                      *)
LEMMA CountOne ==
  ASSUME NEW t, NEW f, NEW u \in Vpns, t[u] = f,
         \A v \in Vpns : t[v] = f => v = u
  PROVE  Count(t, f) = 1
  <1>1. {v \in Vpns : t[v] = f} = {u}
    OBVIOUS
  <1> QED
    BY <1>1, FS_Singleton, ZenonT(60) DEF Count

(* Trackers dropped and trackers kept add up.                              *)
LEMMA CountSplit ==
  ASSUME NEW t, NEW lost, NEW kept, NEW f,
         \A v \in Vpns : \/ t[v] = f /\ lost[v] = f /\ kept[v] # f
                         \/ t[v] = f /\ lost[v] # f /\ kept[v] = f
                         \/ t[v] # f /\ lost[v] # f /\ kept[v] # f
  PROVE  Count(t, f) = Count(kept, f) + Count(lost, f)
  <1> DEFINE L == {v \in Vpns : lost[v] = f}
             K == {v \in Vpns : kept[v] = f}
  <1>1. {v \in Vpns : t[v] = f} = K \cup L /\ K \cap L = {}
    OBVIOUS
  <1>2. IsFiniteSet(L) /\ IsFiniteSet(K) /\ Cardinality(L) \in Nat /\ Cardinality(K) \in Nat
    BY PagesFinite
  <1>3. Cardinality(K \cup L) = Cardinality(K) + Cardinality(L) - Cardinality(K \cap L)
    BY <1>2, FS_Union
  <1>4. Cardinality(K \cap L) = 0
    BY <1>1, FS_EmptySet
  <1> HIDE DEF L, K
  <1>5. Cardinality(K \cup L) = Cardinality(K) + Cardinality(L)
    BY <1>2, <1>3, <1>4, NoOverlap
  <1> QED
    BY <1>1, <1>5 DEF Count, L, K

(* All trackers on a frame are those of p and those of the others.         *)
Others(t, p, f) == {x \in TrackersOn(t, f) : x[1] # p}

(* They are disjoint, so their numbers add up.                             *)
LEMMA TrackersSplit ==
  ASSUME NEW t, NEW p \in Procs, NEW f
  PROVE  /\ Cardinality(Others(t, p, f)) \in Nat
         /\ Cardinality(TrackersOn(t, f)) \in Nat
         /\ Cardinality(TrackersOn(t, f)) = Cardinality(Others(t, p, f)) + Count(t[p], f)
  <1> DEFINE M == {v \in Vpns : t[p][v] = f}
             A == TrackersOn(t, f)
             O == Others(t, p, f)
             C == {p} \X M
  <1>1. IsFiniteSet(Procs \X Vpns)
    BY ConstantsAssumption, VpnsFinite, FS_Product
  <1>2. A \in SUBSET (Procs \X Vpns) /\ O \in SUBSET (Procs \X Vpns)
    BY DEF TrackersOn, Others
  <1>3. IsFiniteSet(A) /\ IsFiniteSet(O) /\ Cardinality(A) \in Nat /\ Cardinality(O) \in Nat
    BY <1>1, <1>2, FS_Subset, FS_CardinalityType
  <1>4. IsFiniteSet(M) /\ Cardinality(M) \in Nat
    BY PagesFinite
  <1>5. IsFiniteSet(C) /\ Cardinality(C) = Cardinality(M)
    <2>1. IsFiniteSet({p}) /\ Cardinality({p}) = 1
      BY FS_Singleton
    <2>2. IsFiniteSet(C) /\ Cardinality(C) = Cardinality({p}) * Cardinality(M)
      BY <2>1, <1>4, FS_Product
    <2> HIDE DEF C, M
    <2> QED
      BY <2>1, <2>2, <1>4, SmallSums
  <1>6. A = O \cup C /\ O \cap C = {}
    <2>1. ASSUME NEW x \in A PROVE x \in O \cup C
      BY DEF TrackersOn, Others
    <2>2. ASSUME NEW x \in C PROVE x \in A /\ x \notin O
      BY DEF TrackersOn, Others
    <2>3. O \subseteq A
      BY DEF Others
    <2> QED
      BY <2>1, <2>2, <2>3
  <1>7. Cardinality(O \cap C) = 0
    BY <1>6, FS_EmptySet
  <1>8. Cardinality(O \cup C) = Cardinality(O) + Cardinality(C) - Cardinality(O \cap C)
    BY <1>3, <1>5, FS_Union
  <1>9. Count(t[p], f) = Cardinality(M)
    BY DEF Count
  <1> HIDE DEF A, O, C, M
  <1>10. Cardinality(A) = Cardinality(O) + Count(t[p], f)
    <2>1. Cardinality(O \cup C) = Cardinality(O) + Cardinality(C)
      BY <1>3, <1>4, <1>5, <1>7, <1>8, NoOverlap
    <2> QED
      BY <1>5, <1>6, <1>9, <2>1
  <1> QED
    BY <1>3, <1>10 DEF A, O
-----------------------------------------------------------------------------
(* Reference counts after an operation.                                    *)

(* An exchange that balances: the new trackers of p are the old ones less  *)
(* those dropped, and one for each frame taken; a frame taken was free or  *)
(* had all its trackers dropped.                                           *)
Balanced(p, new, lost, taken, fill) ==
  /\ taken \subseteq Frames
  /\ \A f \in taken : fill[f] \in Values
  /\ Exchange(lost, taken, fill)
  /\ frameOf' = [frameOf EXCEPT ![p] = new]
  /\ \A f \in Frames \ taken : Count(frameOf[p], f) = Count(new, f) + Count(lost, f)
  /\ \A f \in taken : /\ Count(new, f) = 1
                      /\ f \notin freeFrames => /\ f \in Freed(lost)
                                                /\ Count(lost, f) = Count(frameOf[p], f)

(* If the counts change by what one process's trackers change by, and the  *)
(* free list by the frames that reach or leave zero, the accounting holds  *)
(* again.                                                                  *)
LEMMA ExchangeAccounts ==
  ASSUME TypeOK, FrameAccounting, NEW p \in Procs, NEW new, NEW lost, NEW taken, NEW fill,
         Balanced(p, new, lost, taken, fill)
  PROVE  /\ FrameAccounting'
         /\ freeFrames' \subseteq Frames
         /\ refCount' \in [Frames -> Nat]
         /\ content' \in [Frames -> Values]
  <1> USE DEF Balanced
  <1> SUFFICES ASSUME NEW f \in Frames
               PROVE  /\ refCount'[f] = Cardinality(TrackersOn(frameOf', f))
                      /\ refCount'[f] \in Nat
                      /\ f \in freeFrames' <=> refCount'[f] = 0
    <2>1. freeFrames' \subseteq Frames
      BY DEF Exchange, TypeOK, Freed
    <2>2. content' \in [Frames -> Values]
      BY ConstantsAssumption DEF Exchange, TypeOK
    <2>3. refCount' = [f \in Frames |-> refCount'[f]]
      BY DEF Exchange
    <2> QED
      BY <2>1, <2>2, <2>3, ZenonT(60) DEF FrameAccounting
  <1> DEFINE o == Cardinality(Others(frameOf, p, f))
             c == Count(frameOf[p], f)
             n == Count(new, f)
             l == Count(lost, f)
  <1>1. o \in Nat /\ c \in Nat /\ n \in Nat /\ l \in Nat
    BY TrackersSplit, CountType
  <1>2. refCount[f] = o + c /\ (f \in freeFrames <=> refCount[f] = 0)
    BY TrackersSplit DEF FrameAccounting
  <1>3. Cardinality(TrackersOn(frameOf', f)) = o + n
    <2>1. frameOf'[p] = new /\ \A q \in Procs \ {p} : frameOf'[q] = frameOf[q]
      BY DEF TypeOK
    <2>2. Others(frameOf', p, f) = Others(frameOf, p, f)
      BY <2>1 DEF Others, TrackersOn
    <2>3. Cardinality(TrackersOn(frameOf', f)) =
            Cardinality(Others(frameOf', p, f)) + Count(frameOf'[p], f)
      BY TrackersSplit, ZenonT(60)
    <2> QED
      BY <2>1, <2>2, <2>3
  <1>4. refCount'[f] = IF f \in taken THEN 1 ELSE refCount[f] - l
    BY DEF Exchange
  <1>5. f \in freeFrames' <=> (f \in freeFrames \/ (l > 0 /\ refCount[f] = l)) /\ f \notin taken
    BY DEF Exchange, Freed
  <1>6. CASE f \in taken
    <2>1. n = 1 /\ (f \in freeFrames \/ (refCount[f] = l /\ l = c))
      BY <1>6 DEF Freed
    <2> HIDE DEF o, c, n, l
    <2>2. o = 0
      BY <2>1, <1>1, <1>2, NoneLeft
    <2>3. refCount'[f] = 1 /\ Cardinality(TrackersOn(frameOf', f)) = 0 + 1
      BY <2>1, <2>2, <1>3, <1>4, <1>6
    <2>4. 0 + 1 = 1 /\ 1 # 0 /\ 1 \in Nat
      BY ONLY SMTT(40)
    <2>5. f \notin freeFrames' /\ refCount'[f] # 0
      BY <2>3, <2>4, <1>5, <1>6
    <2> QED
      BY <2>3, <2>4, <2>5
  <1>7. CASE f \notin taken
    <2>1. c = n + l
      BY <1>7
    <2> HIDE DEF o, c, n, l
    <2>2. refCount[f] = o + (n + l) /\ refCount'[f] = (o + (n + l)) - l
      BY <2>1, <1>2, <1>4, <1>7
    <2>3. /\ (o + (n + l)) - l = o + n
          /\ o + (n + l) = 0 \/ (l > 0 /\ o + (n + l) = l) <=> o + n = 0
          /\ o + n \in Nat
      BY ONLY <1>1, Remainder
    <2>4. f \in freeFrames' <=> o + (n + l) = 0 \/ (l > 0 /\ o + (n + l) = l)
      BY <1>2, <1>5, <1>7, <2>2
    <2> QED
      BY <1>3, <2>2, <2>3, <2>4
  <1> QED
    BY <1>6, <1>7

(* Every tracker of p dropped.                                             *)
LEMMA AllTrackers ==
  ASSUME TypeOK, NEW p \in Procs
  PROVE  Trackers(p, Vpns) = frameOf[p]
  BY DEF Trackers, TypeOK

(* A process without trackers counts for nothing.                          *)
LEMMA NoTrackersCount ==
  ASSUME NEW f \in Frames
  PROVE  Count(NoTrackers, f) = 0
  BY CountType, ConstantsAssumption DEF NoTrackers
-----------------------------------------------------------------------------
(* Fresh frames, frames given back, and a halt.                            *)

(* Fresh frames for pages without a tracker: one tracker on each.          *)
Fresh(t, pages, pool, g) ==
  /\ t \in [Vpns -> Frames \cup {NoFrame}]
  /\ pages \subseteq Vpns
  /\ pool \subseteq Frames
  /\ g \in Allocations(pages, pool)
  /\ \A v \in pages : t[v] = NoFrame
  /\ \A v \in Vpns : t[v] \notin {g[u] : u \in pages}

(* One tracker on each frame taken, and on the others as many as before.   *)
OneEach(t, pages, g) ==
  LET new == Tracked(t, pages, g)
      taken == {g[u] : u \in pages}
  IN  /\ new \in [Vpns -> Frames \cup {NoFrame}]
      /\ \A f \in Frames \ taken : Count(new, f) = Count(t, f)
      /\ \A f \in taken : Count(new, f) = 1

(* Fresh frames for some pages add one tracker each to the frames taken    *)
(* and none to the others.                                                 *)
LEMMA TrackedCount ==
  ASSUME NEW t, NEW pages, NEW pool, NEW g, Fresh(t, pages, pool, g)
  PROVE  OneEach(t, pages, g)
  <1> USE DEF Fresh
  <1> DEFINE new == Tracked(t, pages, g)
  <1>1. g \in [pages -> Frames] /\ \A u, v \in pages : g[u] = g[v] => u = v
    BY DEF Allocations
  <1>2. new \in [Vpns -> Frames \cup {NoFrame}]
    BY <1>1 DEF Tracked
  <1>3. \A v \in Vpns : new[v] = IF v \in pages THEN g[v] ELSE t[v]
    BY DEF Tracked
  <1>4. ASSUME NEW f \in Frames \ {g[u] : u \in pages}
        PROVE  Count(new, f) = Count(t, f)
    <2>1. {v \in Vpns : new[v] = f} = {v \in Vpns : t[v] = f}
      BY <1>3, ConstantsAssumption
    <2> QED
      BY <2>1 DEF Count
  <1>5. ASSUME NEW u \in pages
        PROVE  Count(new, g[u]) = 1
    <2>1. new[u] = g[u] /\ \A v \in Vpns : new[v] = g[u] => v = u
      BY <1>1, <1>3
    <2> HIDE DEF new
    <2> QED
      BY <2>1, CountOne
  <1> QED
    BY <1>2, <1>4, <1>5 DEF OneEach

(* A frame of the free list has no tracker.                                *)
LEMMA FreeUntracked ==
  ASSUME TypeOK, FrameAccounting, NEW f \in freeFrames, NEW p \in Procs
  PROVE  Count(frameOf[p], f) = 0 /\ \A v \in Vpns : frameOf[p][v] # f
  <1>1. f \in Frames /\ refCount[f] = 0
    BY DEF TypeOK, FrameAccounting
  <1>2. Cardinality(TrackersOn(frameOf, f)) = 0
    BY <1>1 DEF FrameAccounting
  <1>3. Count(frameOf[p], f) = 0
    BY <1>2, TrackersSplit, CountType, SMTT(40)
  <1> QED
    BY <1>3, CountType

(* Dropping the trackers of a set of pages keeps the counts right.         *)
LEMMA DropTrackers ==
  ASSUME TypeOK, FrameAccounting, NEW p \in Procs, NEW pages \in SUBSET Vpns,
         Exchange(Trackers(p, pages), {}, <<>>),
         frameOf' = [frameOf EXCEPT ![p] =
           [v \in Vpns |-> IF v \in pages THEN NoFrame ELSE frameOf[p][v]]]
  PROVE  /\ FrameAccounting' /\ freeFrames' \subseteq Frames
         /\ refCount' \in [Frames -> Nat] /\ content' \in [Frames -> Values]
         /\ frameOf' \in [Procs -> [Vpns -> Frames \cup {NoFrame}]]
  <1> DEFINE lost == Trackers(p, pages)
             new == [v \in Vpns |-> IF v \in pages THEN NoFrame ELSE frameOf[p][v]]
  <1>1. /\ \A v \in Vpns : lost[v] = IF v \in pages THEN frameOf[p][v] ELSE NoFrame
        /\ \A v \in Vpns : new[v] = IF v \in pages THEN NoFrame ELSE frameOf[p][v]
        /\ new \in [Vpns -> Frames \cup {NoFrame}]
    BY SMTT(40) DEF Trackers, TypeOK
  <1> HIDE DEF lost, new
  <1>2. ASSUME NEW f \in Frames
        PROVE  Count(frameOf[p], f) = Count(new, f) + Count(lost, f)
    <2>1. f # NoFrame
      BY ConstantsAssumption
    <2>2. \A v \in Vpns : \/ frameOf[p][v] = f /\ lost[v] = f /\ new[v] # f
                          \/ frameOf[p][v] = f /\ lost[v] # f /\ new[v] = f
                          \/ frameOf[p][v] # f /\ lost[v] # f /\ new[v] # f
      BY <1>1, <2>1
    <2> QED
      BY <2>2, CountSplit, SMTT(40)
  <1>3. Balanced(p, new, lost, {}, <<>>)
    BY <1>2 DEF Balanced, lost, new
  <1>4. frameOf' \in [Procs -> [Vpns -> Frames \cup {NoFrame}]]
    BY <1>1, ZenonT(60) DEF TypeOK, new
  <1> QED
    BY <1>3, <1>4, ExchangeAccounts

(* A panic changes nothing but the place it happened at.                   *)
LEMMA HaltAccounted ==
  ASSUME Accounted, NEW site \in Sites, Halt(site)
  PROVE  Accounted'
  BY DEF Accounted, Halt, physical, layout, TypeOK, FrameAccounting, TrackersMapped,
         RangesTracked, AreasApart, FreeSlotsEmpty

(* A change of entries that leaves every frame number.                     *)
LEMMA ReflaggedAccounted ==
  ASSUME Accounted, pte' \in [Procs -> [Vpns -> Entry]],
         \A q \in Procs, u \in Vpns : pte'[q][u].ppn = pte[q][u].ppn,
         UNCHANGED <<physical, status, areas, frameOf, dataEnd, dataMax, stackTop, halted>>
  PROVE  Accounted'
  <1>1. TypeOK' /\ FrameAccounting'
    BY DEF Accounted, physical, TypeOK, FrameAccounting
  <1>2. TrackersMapped'
    BY DEF Accounted, TrackersMapped
  <1>3. RangesTracked' /\ AreasApart' /\ FreeSlotsEmpty'
    BY DEF Accounted, RangesTracked, AreasApart, FreeSlotsEmpty
  <1> QED
    BY <1>1, <1>2, <1>3 DEF Accounted

(* A frame with a tracker that stays is neither free nor freed.            *)
LEMMA StillHeld ==
  ASSUME TypeOK, FrameAccounting, NEW p \in Procs, NEW pages \in SUBSET Vpns,
         NEW q \in Procs, NEW v \in Vpns, frameOf[q][v] # NoFrame, ~(q = p /\ v \in pages)
  PROVE  frameOf[q][v] \notin freeFrames \cup Freed(Trackers(p, pages))
  <1> DEFINE f == frameOf[q][v]
             lost == Trackers(p, pages)
             kept == Trackers(p, Vpns \ pages)
  <1>1. f \in Frames /\ frameOf[p] \in [Vpns -> Frames \cup {NoFrame}]
    BY SMTT(40) DEF TypeOK
  <1>2. f \notin freeFrames
    BY FreeUntracked
  <1>3. Count(frameOf[p], f) = Count(kept, f) + Count(lost, f)
    <2>1. \A u \in Vpns : /\ lost[u] = IF u \in pages THEN frameOf[p][u] ELSE NoFrame
                          /\ kept[u] = IF u \in pages THEN NoFrame ELSE frameOf[p][u]
      BY DEF Trackers
    <2> HIDE DEF lost, kept, f
    <2>2. \A u \in Vpns : \/ frameOf[p][u] = f /\ lost[u] = f /\ kept[u] # f
                          \/ frameOf[p][u] = f /\ lost[u] # f /\ kept[u] = f
                          \/ frameOf[p][u] # f /\ lost[u] # f /\ kept[u] # f
      BY <1>1, <2>1, ConstantsAssumption
    <2> QED
      BY <2>2, CountSplit, SMTT(40)
  <1> DEFINE o == Cardinality(Others(frameOf, p, f))
             k == Count(kept, f)
             l == Count(lost, f)
  <1>4. refCount[f] = o + Count(frameOf[p], f) /\ o \in Nat
    BY <1>1, TrackersSplit, SMTT(40) DEF FrameAccounting
  <1>5. k \in Nat /\ l \in Nat
    BY CountType
  <1>6. o > 0 \/ k > 0
    <2>1. CASE q = p
      <3>1. kept[v] = f
        BY <2>1 DEF Trackers
      <3>2. k # 0
        BY <3>1, CountType
      <3> QED
        BY <1>5, <3>2, SmallSums
    <2>2. CASE q # p
      <3>1. <<q, v>> \in Others(frameOf, p, f)
        BY <2>2 DEF Others, TrackersOn
      <3>2. IsFiniteSet(Others(frameOf, p, f))
        <4>1. IsFiniteSet(Procs \X Vpns)
          BY ConstantsAssumption, VpnsFinite, FS_Product
        <4>2. Others(frameOf, p, f) \subseteq Procs \X Vpns
          BY DEF Others, TrackersOn
        <4> QED
          BY <4>1, <4>2, FS_Subset
      <3>3. o # 0
        BY <3>1, <3>2, FS_EmptySet
      <3> QED
        BY <1>4, <3>3, SmallSums
    <2> QED
      BY <2>1, <2>2
  <1> HIDE DEF o, k, l
  <1>7. refCount[f] = o + (k + l)
    BY <1>3, <1>4 DEF k, l
  <1>8. refCount[f] # l
    <2>1. o > 0 \/ k > 0 => o + (k + l) # l
      BY ONLY <1>4, <1>5, Remainder
    <2> QED
      BY <1>6, <1>7, <2>1
  <1> QED
    BY <1>2, <1>8 DEF Freed, l

(* A frame with one tracker belongs to that page.                          *)
LEMMA Unshared ==
  ASSUME TypeOK, FrameAccounting, NEW p \in Procs, NEW v \in Vpns, frameOf[p][v] # NoFrame,
         ~Shared(frameOf[p][v]),
         NEW q \in Procs, NEW u \in Vpns, frameOf[q][u] = frameOf[p][v]
  PROVE  q = p /\ u = v
  <1> DEFINE f == frameOf[p][v]
             T == TrackersOn(frameOf, f)
  <1>1. f \in Frames /\ refCount[f] = Cardinality(T) /\ refCount[f] \in Nat
    BY SMTT(40) DEF TypeOK, FrameAccounting
  <1>2. IsFiniteSet(T)
    <2>1. IsFiniteSet(Procs \X Vpns)
      BY ConstantsAssumption, VpnsFinite, FS_Product
    <2>2. T \subseteq Procs \X Vpns
      BY DEF TrackersOn
    <2> QED
      BY <2>1, <2>2, FS_Subset
  <1>3. <<p, v>> \in T /\ <<q, u>> \in T
    BY DEF TrackersOn
  <1>4. Cardinality(T) <= 1
    BY <1>1, SMTT(40) DEF Shared
  <1> DEFINE R == T \ {<<p, v>>}
  <1>5. IsFiniteSet(R) /\ Cardinality(R) = Cardinality(T) - 1 /\ Cardinality(R) \in Nat
    BY <1>2, <1>3, FS_RemoveElement, FS_CardinalityType
  <1>6. Cardinality(R) = 0
    BY <1>1, <1>4, <1>5, Order
  <1>7. R = {}
    BY <1>5, <1>6, FS_EmptySet
  <1> QED
    BY <1>3, <1>7, SMTT(40)

(* What exact counts tell.                                                 *)
LEMMA CountsTell ==
  ASSUME TypeOK, FrameAccounting
  PROVE  Counted
  <1> SUFFICES ASSUME NEW q \in Procs, NEW v \in Vpns, frameOf[q][v] # NoFrame
               PROVE  /\ frameOf[q][v] \notin freeFrames
                      /\ \A p \in Procs, pages \in SUBSET Vpns :
                           frameOf[q][v] \in Freed(Trackers(p, pages)) => q = p /\ v \in pages
                      /\ ~Shared(frameOf[q][v]) =>
                           \A p \in Procs, u \in Vpns : frameOf[p][u] = frameOf[q][v] => p = q /\ u = v
    BY DEF Counted
  <1>1. frameOf[q][v] \notin freeFrames
    BY FreeUntracked
  <1>2. ASSUME NEW p \in Procs, NEW pages \in SUBSET Vpns, frameOf[q][v] \in Freed(Trackers(p, pages))
        PROVE  q = p /\ v \in pages
    BY <1>2, StillHeld
  <1>3. ASSUME ~Shared(frameOf[q][v]), NEW p \in Procs, NEW u \in Vpns, frameOf[p][u] = frameOf[q][v]
        PROVE  p = q /\ u = v
    BY <1>3, Unshared
  <1> QED
    BY <1>1, <1>2, <1>3
-----------------------------------------------------------------------------
(* So are the areas of a program with its stack, which share no page.      *)
LEMMA ProgramFacts ==
  ASSUME NEW end \in VAs, IsUserArea(ImageAreas, ImageMax, StackSize, end),
         ProgramPages(end) \subseteq Vpns
  PROVE  /\ end \in Nat
         /\ ProgramAreas(end) \subseteq MapArea
         /\ \A a \in ProgramAreas(end) : VpnRange(a.start, a.end) \subseteq a.pages
         /\ Apart(ProgramAreas(end))
  <1>1. end \in Nat /\ end - StackSize \in Nat
    <2>1. end \in Nat /\ StackSize \in Nat \ {0}
      BY AddressNat, ConstantsAssumption
    <2> QED
      BY <2>1, ImageFacts, UserArea
  <1>2. StackArea(end).pages \subseteq Vpns
    BY DEF ProgramPages, PagesOf, ProgramAreas
  <1>3. StackArea(end) \in MapArea
    BY <1>1, <1>2, MapAreaType, ZenonT(60) DEF StackArea, Area
  <1>4. VpnRange(StackArea(end).start, StackArea(end).end) = StackArea(end).pages
    BY DEF StackArea, Area
  <1>5. ASSUME NEW a \in ImageAreas
        PROVE  a.pages \cap StackArea(end).pages = {}
    <2>1. a.start \in Nat /\ a.end \in Nat /\ a.pages = VpnRange(a.start, a.end)
      BY ImageFacts DEF MapArea
    <2>2. RoundUp(a.end) \in Nat /\ RoundUp(a.end) >= a.end
      BY <2>1, RoundFacts
    <2>3. PICK s \in Image : a.start = s.start /\ a.end = s.end
      <3>1. PICK s \in Image : a = Area(s.start, s.end, s.w)
        BY DEF ImageAreas
      <3>2. a.start = s.start /\ a.end = s.end
        BY <3>1 DEF Area
      <3> QED
        BY <3>2
    <2>4. /\ a.start < a.end /\ a.end <= ImageEnd /\ ImageEnd \in Nat /\ RoundUp(ImageEnd) >= ImageEnd
          /\ RoundUp(ImageEnd) \in Nat /\ BrkMax \in Nat /\ PageSize \in Nat /\ StackSize \in Nat
          /\ ImageMax = RoundUp(ImageEnd) + BrkMax /\ end >= ImageMax + PageSize + StackSize
      BY <2>3, RoundFacts, ImageAssumption, ConstantsAssumption DEF ImageMax, IsUserArea
    <2>5. ~(end + PageSize <= a.start)
      BY ONLY <1>1, <2>1, <2>4, SMTT(40)
    <2>6. RoundUp(a.end) + PageSize + StackSize <= end
      BY <2>5 DEF IsUserArea, Clears
    <2>7. RoundUp(a.end) <= end - StackSize
      BY <1>1, <2>2, <2>6, ConstantsAssumption, SMTT(40)
    <2> QED
      BY <1>1, <2>1, <2>7, RangesApart DEF StackArea, Area
  <1>6. ASSUME NEW a \in ImageAreas, NEW b \in ImageAreas, a # b
        PROVE  a.pages \cap b.pages = {}
    <2>1. PICK r \in Image, t \in Image : a = Area(r.start, r.end, r.w) /\ b = Area(t.start, t.end, t.w)
      BY DEF ImageAreas
    <2>2. /\ r # t /\ r.start \in Nat /\ r.end \in Nat /\ t.start \in Nat /\ t.end \in Nat
          /\ RoundUp(r.end) \in Nat /\ RoundUp(t.end) \in Nat
      BY <1>6, <2>1, ImageAssumption, RoundFacts
    <2>3. RoundUp(r.end) <= t.start \/ RoundUp(t.end) <= r.start
      BY <2>2, ImageAssumption, SMTT(40)
    <2>4. a.pages = VpnRange(r.start, r.end) /\ b.pages = VpnRange(t.start, t.end)
      BY <2>1 DEF Area
    <2> QED
      BY <2>2, <2>3, <2>4, RangesApart, SMTT(40)
  <1>7. Apart(ProgramAreas(end))
    BY <1>5, <1>6 DEF Apart, ProgramAreas
  <1> QED
    BY <1>1, <1>3, <1>4, <1>7, ImageFacts DEF ProgramAreas

(* Replacing the areas and trackers of a process by those of a loaded      *)
(* program keeps the accounting, old and new frames of one process         *)
(* included.                                                               *)
LEMMA InstallAccounted ==
  ASSUME Accounted, NEW p \in Procs, NEW end \in VAs,
         IsUserArea(ImageAreas, ImageMax, StackSize, end), ProgramPages(end) \subseteq Vpns,
         NEW g \in Allocations(ProgramPages(end), freeFrames \cup Freed(Trackers(p, Vpns))),
         NEW fill \in [{g[v] : v \in ProgramPages(end)} -> Values],
         Install(p, end, g, fill)
  PROVE  Accounted'
  <1> DEFINE P == ProgramPages(end)
             taken == {g[v] : v \in P}
             old == Trackers(p, Vpns)
             new == Tracked(NoTrackers, P, g)
             pool == freeFrames \cup Freed(old)
  <1>1. /\ TypeOK /\ FrameAccounting
        /\ TrackersMapped /\ RangesTracked /\ AreasApart /\ FreeSlotsEmpty
    BY DEF Accounted
  <1>2. old = frameOf[p]
    BY <1>1, AllTrackers
  <1>3. pool \in SUBSET Frames
    BY <1>1 DEF TypeOK, Freed
  <1>4. g \in [P -> pool] /\ taken \subseteq pool /\ NoFrame \notin taken
    BY <1>3, ConstantsAssumption, SMTT(40) DEF Allocations
  <1>5. /\ Exchange(old, taken, fill)
        /\ frameOf' = [frameOf EXCEPT ![p] = new]
        /\ pte' = [pte EXCEPT ![p] = Mapped(NoEntries, P, g, WritableIn(ProgramAreas(end)))]
        /\ areas' = [areas EXCEPT ![p] = ProgramAreas(end)]
        /\ dataEnd' = [dataEnd EXCEPT ![p] = ImageEnd]
        /\ dataMax' = [dataMax EXCEPT ![p] = ImageMax]
        /\ stackTop' = [stackTop EXCEPT ![p] = end]
        /\ status' = [status EXCEPT ![p] = "live"]
        /\ halted' = halted
    BY DEF Install
  <1>6. /\ new \in [Vpns -> Frames \cup {NoFrame}]
        /\ \A f \in Frames \ taken : Count(new, f) = 0
        /\ \A f \in taken : Count(new, f) = 1
    <2>1. NoTrackers \in [Vpns -> Frames \cup {NoFrame}] /\ \A v \in Vpns : NoTrackers[v] = NoFrame
      BY DEF NoTrackers
    <2>2. \A v \in P : NoTrackers[v] = NoFrame
      BY <2>1
    <2>3. \A v \in Vpns : NoTrackers[v] \notin {g[u] : u \in P}
      BY <2>1, <1>4
    <2>4. Fresh(NoTrackers, P, pool, g)
      BY <1>3, <2>1, <2>2, <2>3 DEF Fresh
    <2> HIDE DEF P, pool
    <2>5. /\ new \in [Vpns -> Frames \cup {NoFrame}]
          /\ \A f \in Frames \ taken : Count(new, f) = Count(NoTrackers, f)
          /\ \A f \in taken : Count(new, f) = 1
      <3>1. OneEach(NoTrackers, P, g)
        BY ONLY <2>4, TrackedCount, ZenonT(60)
      <3> QED
        BY ONLY <3>1, ZenonT(60) DEF OneEach
    <2> QED
      BY <2>5, NoTrackersCount
  <1> DEFINE entries == Mapped(NoEntries, P, g, WritableIn(ProgramAreas(end)))
  <1>7. entries \in [Vpns -> Entry]
    <2>1. \A v \in P : g[v] \in Frames
      BY <1>3, <1>4
    <2>2. \A v \in Vpns : WritableIn(ProgramAreas(end))[v] \in BOOLEAN
      BY DEF WritableIn
    <2> QED
      BY <2>1, <2>2 DEF Mapped, NoEntries, EMPTY, Entry
  <1>8. \A v \in Vpns :
          /\ new[v] # NoFrame <=> v \in P
          /\ new[v] # NoFrame => entries[v].ppn = new[v]
    BY <1>3, <1>4, ConstantsAssumption DEF Tracked, NoTrackers, Mapped
  <1>9. taken \subseteq Frames /\ \A f \in taken : fill[f] \in Values
    BY <1>3, <1>4
  <1> HIDE DEF P, taken, old, new, entries
  <1>10. /\ FrameAccounting' /\ freeFrames' \subseteq Frames
         /\ refCount' \in [Frames -> Nat] /\ content' \in [Frames -> Values]
    <2>1. \A f \in Frames \ taken : Count(frameOf[p], f) = Count(new, f) + Count(old, f)
      BY <1>2, <1>6, CountType, SmallSums
    <2>2. \A f \in taken : /\ Count(new, f) = 1
                           /\ f \notin freeFrames => /\ f \in Freed(old)
                                                     /\ Count(old, f) = Count(frameOf[p], f)
      BY <1>2, <1>4, <1>6
    <2>3. Balanced(p, new, old, taken, fill)
      BY <1>5, <1>9, <2>1, <2>2 DEF Balanced
    <2> QED
      BY <1>1, <2>3, ExchangeAccounts
  <1>11. TypeOK'
    BY <1>1, <1>5, <1>6, <1>7, <1>10, ProgramFacts, ImageFacts, ImageAssumption, ZenonT(60) DEF TypeOK, entries
  <1>12. /\ areas'[p] = ProgramAreas(end) /\ frameOf'[p] = new /\ pte'[p] = entries
         /\ status'[p] = "live"
         /\ \A q \in Procs \ {p} : /\ areas'[q] = areas[q] /\ frameOf'[q] = frameOf[q]
                                   /\ pte'[q] = pte[q] /\ status'[q] = status[q]
    BY <1>1, <1>5, ZenonT(60) DEF TypeOK, entries
  <1>13. TrackersMapped'
    <2>1. PagesOf(areas'[p]) = P
      BY <1>12 DEF P, ProgramPages
    <2>2. \A q \in Procs \ {p} : PagesOf(areas'[q]) = PagesOf(areas[q])
      BY <1>12
    <2>3. \A v \in Vpns :
            /\ frameOf'[p][v] # NoFrame <=> v \in PagesOf(areas'[p])
            /\ frameOf'[p][v] # NoFrame => pte'[p][v].ppn = frameOf'[p][v]
      BY <1>8, <1>12, <2>1
    <2>4. \A q \in Procs \ {p}, v \in Vpns :
            /\ frameOf'[q][v] # NoFrame <=> v \in PagesOf(areas'[q])
            /\ frameOf'[q][v] # NoFrame => pte'[q][v].ppn = frameOf'[q][v]
      BY <1>1, <1>12, TrackersKept
    <2>5. ASSUME NEW q \in Procs, NEW v \in Vpns
          PROVE  /\ frameOf'[q][v] # NoFrame <=> v \in PagesOf(areas'[q])
                 /\ frameOf'[q][v] # NoFrame => pte'[q][v].ppn = frameOf'[q][v]
      BY <2>3, <2>4
    <2> QED
      BY <2>5 DEF TrackersMapped, PagesOf
  <1>14. RangesTracked' /\ AreasApart' /\ FreeSlotsEmpty'
    BY <1>1, <1>12, ProgramFacts, ZenonT(60) DEF RangesTracked, AreasApart, FreeSlotsEmpty
  <1> QED
    BY <1>10, <1>11, <1>13, <1>14 DEF Accounted

(* Process::from_elf, which may run out of frames instead.                 *)
LEMMA LoadAccounted ==
  ASSUME Accounted, NEW p \in Procs, LoadImage(p)
  PROVE  Accounted'
  <1>1. CASE Halt("frame_alloc")
    BY <1>1, HaltAccounted DEF Sites
  <1>2. CASE ~Halt("frame_alloc")
    BY <1>2, InstallAccounted, ZenonT(60) DEF LoadImage
  <1> QED
    BY <1>1, <1>2

(* Both entries fork leaves for a tracked page name the tracked frame.     *)
LEMMA ForkEntriesType ==
  ASSUME TypeOK, TrackersMapped, NEW p \in Procs, NEW v \in Vpns
  PROVE  /\ ForkEntries(p)[v].parent \in Entry /\ ForkEntries(p)[v].child \in Entry
         /\ frameOf[p][v] # NoFrame => /\ ForkEntries(p)[v].parent.ppn = frameOf[p][v]
                                       /\ ForkEntries(p)[v].child.ppn = frameOf[p][v]
  <1>1. pte[p][v] \in Entry /\ frameOf[p][v] \in Frames \cup {NoFrame}
    BY SMTT(40) DEF TypeOK
  <1>2. frameOf[p][v] # NoFrame => pte[p][v].ppn = frameOf[p][v] /\ v \in PagesOf(areas[p])
    BY DEF TrackersMapped
  <1>3. CASE v \notin PagesOf(areas[p])
    BY <1>1, <1>2, <1>3, ZenonT(60) DEF ForkEntries, EMPTY, Entry
  <1>4. CASE v \in PagesOf(areas[p]) /\ \E a \in areas[p] : a.w /\ v \in a.pages
    BY <1>1, <1>2, <1>4 DEF ForkEntries, Entry
  <1>5. CASE v \in PagesOf(areas[p]) /\ ~\E a \in areas[p] : a.w /\ v \in a.pages
    BY <1>1, <1>2, <1>5 DEF ForkEntries, Entry
  <1> QED
    BY <1>3, <1>4, <1>5

(* clone gives each tracked frame exactly one more tracker.                *)
LEMMA ForkAccounted ==
  ASSUME Accounted, NEW p \in Procs, NEW c \in Procs, ForkSpace(p, c),
         content' \in [Frames -> Values]
  PROVE  Accounted'
  <1>1. /\ TypeOK /\ FrameAccounting
        /\ TrackersMapped /\ RangesTracked /\ AreasApart /\ FreeSlotsEmpty
    BY DEF Accounted
  <1>2. p # c /\ frameOf[c] = NoTrackers
    BY <1>1 DEF ForkSpace, Running, FreeSlotsEmpty
  <1>3. Trackers(p, Vpns) = frameOf[p]
    BY <1>1, AllTrackers
  <1> DEFINE parent == [v \in Vpns |-> ForkEntries(p)[v].parent]
             child == [v \in Vpns |-> ForkEntries(p)[v].child]
  <1>4. parent \in [Vpns -> Entry] /\ child \in [Vpns -> Entry]
    BY <1>1, ForkEntriesType
  <1>5. \A v \in Vpns : frameOf[p][v] # NoFrame =>
          parent[v].ppn = frameOf[p][v] /\ child[v].ppn = frameOf[p][v]
    BY <1>1, ForkEntriesType
  <1> HIDE DEF parent, child
  <1>6. /\ refCount' = [f \in Frames |-> refCount[f] + Count(frameOf[p], f)]
        /\ frameOf' = [frameOf EXCEPT ![c] = frameOf[p]]
        /\ pte' = [pte EXCEPT ![p] = parent, ![c] = child]
        /\ areas' = [areas EXCEPT ![c] = areas[p]]
        /\ dataEnd' = [dataEnd EXCEPT ![c] = dataEnd[p]]
        /\ dataMax' = [dataMax EXCEPT ![c] = dataMax[p]]
        /\ stackTop' = [stackTop EXCEPT ![c] = stackTop[p]]
        /\ status' = [status EXCEPT ![c] = "live"]
        /\ freeFrames' = freeFrames /\ halted' = halted
    BY <1>3 DEF ForkSpace, CloneTrackers, parent, child
  <1>7. TypeOK'
    <2>1. refCount' \in [Frames -> Nat]
      BY <1>1, <1>6, CountType, NoOverlap DEF TypeOK
    <2>2. pte' \in [Procs -> [Vpns -> Entry]]
      BY <1>1, <1>4, <1>6, ZenonT(60) DEF TypeOK
    <2> QED
      BY <1>1, <1>6, <2>1, <2>2, ZenonT(60) DEF TypeOK
  <1>8. FrameAccounting'
    <2> SUFFICES ASSUME NEW f \in Frames
                 PROVE  /\ refCount'[f] = Cardinality(TrackersOn(frameOf', f))
                        /\ f \in freeFrames' <=> refCount'[f] = 0
      BY DEF FrameAccounting
    <2>1. /\ refCount[f] = Cardinality(Others(frameOf, c, f)) + Count(frameOf[c], f)
          /\ Cardinality(Others(frameOf, c, f)) \in Nat
      BY <1>1, TrackersSplit DEF FrameAccounting
    <2>2. Count(frameOf[c], f) = 0
      BY <1>2, NoTrackersCount
    <2>3. Cardinality(TrackersOn(frameOf', f)) =
            Cardinality(Others(frameOf', c, f)) + Count(frameOf'[c], f)
      BY TrackersSplit
    <2>4. frameOf'[c] = frameOf[p] /\ \A q \in Procs \ {c} : frameOf'[q] = frameOf[q]
      BY <1>1, <1>6 DEF TypeOK
    <2>5. Others(frameOf', c, f) = Others(frameOf, c, f)
      BY <2>4 DEF Others, TrackersOn
    <2>6. /\ refCount[f] = Cardinality(Others(frameOf, p, f)) + Count(frameOf[p], f)
          /\ Cardinality(Others(frameOf, p, f)) \in Nat /\ Count(frameOf[p], f) \in Nat
      BY <1>1, TrackersSplit, CountType, SMTT(40) DEF FrameAccounting
    <2>7. refCount'[f] = refCount[f] + Count(frameOf[p], f)
      BY <1>6
    <2>8. f \in freeFrames <=> refCount[f] = 0
      BY <1>1 DEF FrameAccounting
    <2>9. refCount'[f] = Cardinality(TrackersOn(frameOf', f))
      BY <2>1, <2>2, <2>3, <2>4, <2>5, <2>7, SmallSums
    <2>10. refCount[f] = 0 <=> refCount'[f] = 0
      <3> DEFINE m == Cardinality(Others(frameOf, p, f))
                 n == Count(frameOf[p], f)
      <3>1. m \in Nat /\ n \in Nat /\ refCount[f] = m + n /\ refCount'[f] = (m + n) + n
        BY <2>6, <2>7
      <3> HIDE DEF m, n
      <3>2. m + n = 0 <=> (m + n) + n = 0
        BY ONLY <3>1, SMTT(40)
      <3> QED
        BY <3>1, <3>2
    <2> QED
      BY <1>6, <2>8, <2>9, <2>10
  <1>9. /\ areas'[c] = areas[p] /\ frameOf'[c] = frameOf[p]
        /\ pte'[p] = parent /\ pte'[c] = child /\ status'[c] = "live"
        /\ \A q \in Procs \ {c} : areas'[q] = areas[q] /\ frameOf'[q] = frameOf[q]
                                  /\ status'[q] = status[q]
        /\ \A q \in Procs \ {p, c} : pte'[q] = pte[q]
    BY <1>1, <1>2, <1>6 DEF TypeOK
  <1>10. TrackersMapped'
    <2>1. ASSUME NEW q \in Procs, NEW v \in Vpns
          PROVE  /\ frameOf'[q][v] # NoFrame <=> v \in PagesOf(areas'[q])
                 /\ frameOf'[q][v] # NoFrame => pte'[q][v].ppn = frameOf'[q][v]
      <3>1. \A x \in Procs : /\ frameOf[x][v] # NoFrame <=> v \in PagesOf(areas[x])
                             /\ frameOf[x][v] # NoFrame => pte[x][v].ppn = frameOf[x][v]
        BY <1>1 DEF TrackersMapped
      <3>2. CASE q = c
        BY <1>5, <1>9, <3>1, <3>2
      <3>3. CASE q = p /\ q # c
        BY <1>5, <1>9, <3>1, <3>3
      <3>4. CASE q \notin {p, c}
        BY <1>9, <3>1, <3>4
      <3> QED
        BY <3>2, <3>3, <3>4
    <2> QED
      BY <2>1 DEF TrackersMapped
  <1>11. RangesTracked' /\ AreasApart' /\ FreeSlotsEmpty'
    BY <1>1, <1>9 DEF RangesTracked, AreasApart, FreeSlotsEmpty
  <1> QED
    BY <1>7, <1>8, <1>10, <1>11 DEF Accounted

(* clone with CLONE_CHILD_SETTID.                                          *)
LEMMA ForkSetTidAccounted ==
  ASSUME Accounted, NEW p \in Procs, NEW c \in Procs, NEW v \in Vpns, NEW x \in Values,
         ForkSetTid(p, c, v, x)
  PROVE  Accounted'
  <1>1. CASE Halt("translate_va")
    BY <1>1, HaltAccounted DEF Sites
  <1>2. CASE ForkSpace(p, c) /\ content' = [content EXCEPT ![pte'[c][v].ppn] = x]
    BY <1>2, ForkAccounted, ZenonT(60) DEF Accounted, TypeOK
  <1> QED
    BY <1>1, <1>2 DEF ForkSetTid

(* A store changes contents only.                                          *)
LEMMA StoreAccounted ==
  ASSUME Accounted, NEW p \in Procs, NEW v \in Vpns, NEW x \in Values, Store(p, v, x)
  PROVE  Accounted'
  <1>1. CASE Halt("free_list")
    BY <1>1, HaltAccounted DEF Sites
  <1>2. CASE /\ content' = [content EXCEPT ![pte[p][v].ppn] = x]
             /\ UNCHANGED <<freeFrames, refCount, status, layout, halted>>
    BY <1>2, ZenonT(60) DEF Accounted, layout, TypeOK, FrameAccounting, TrackersMapped, RangesTracked,
                AreasApart, FreeSlotsEmpty
  <1> QED
    BY <1>1, <1>2 DEF Store

(* handle_pagefault moves one tracker to a fresh frame, or only changes    *)
(* flags.                                                                  *)
LEMMA PagefaultAccounted ==
  ASSUME Accounted, NEW p \in Procs, NEW va \in VAs, HandlePagefault(p, va)
  PROVE  Accounted'
  <1> DEFINE v == Floor(va)
             e == pte[p][v]
             f == frameOf[p][v]
             found == \E a \in areas[p] : IsAreaAt(areas[p], va, a) /\ v \in a.pages
  <1>1. /\ TypeOK /\ FrameAccounting
        /\ TrackersMapped /\ RangesTracked /\ AreasApart /\ FreeSlotsEmpty
    BY DEF Accounted
  <1>2. v \in Vpns /\ Running(p)
    BY DEF HandlePagefault
  <1>3. CASE Halt("handle_pagefault") \/ Halt("frame_alloc")
    BY <1>3, HaltAccounted DEF Sites
  <1>4. CASE /\ found /\ Shared(f)
             /\ \E n \in freeFrames :
                  /\ Exchange(Trackers(p, {v}), {n}, CopyOf(n, e))
                  /\ frameOf' = [frameOf EXCEPT ![p][v] = n]
                  /\ pte' = [pte EXCEPT ![p][v] = Writable(e, n)]
             /\ UNCHANGED <<status, areas, dataEnd, dataMax, stackTop, halted>>
    <2>1. PICK n \in freeFrames :
                  /\ Exchange(Trackers(p, {v}), {n}, CopyOf(n, e))
                  /\ frameOf' = [frameOf EXCEPT ![p][v] = n]
                  /\ pte' = [pte EXCEPT ![p][v] = Writable(e, n)]
      BY <1>4, ZenonT(60)
    <2> DEFINE new == [frameOf[p] EXCEPT ![v] = n]
               lost == Trackers(p, {v})
    <2>2. n \in Frames /\ n # NoFrame /\ \A u \in Vpns : frameOf[p][u] # n
      BY <1>1, FreeUntracked, ConstantsAssumption DEF TypeOK
    <2>3. e \in Entry /\ f \in Frames \cup {NoFrame} /\ frameOf[p] \in [Vpns -> Frames \cup {NoFrame}]
      BY <1>1, <1>2 DEF TypeOK
    <2>4. /\ new \in [Vpns -> Frames \cup {NoFrame}]
          /\ \A u \in Vpns : new[u] = IF u = v THEN n ELSE frameOf[p][u]
          /\ \A u \in Vpns : lost[u] = IF u = v THEN f ELSE NoFrame
      BY <1>2, <2>2, <2>3 DEF Trackers
    <2>5. f # NoFrame /\ e.ppn = f
      <3>1. v \in PagesOf(areas[p])
        BY <1>4 DEF PagesOf
      <3> QED
        BY <1>1, <1>2, <3>1 DEF TrackersMapped
    <2> HIDE DEF new, lost, e, f, found
    <2>6. frameOf' = [frameOf EXCEPT ![p] = new]
      BY <1>1, <2>1 DEF TypeOK, new
    <2>7. ASSUME NEW h \in Frames \ {n}
          PROVE  Count(frameOf[p], h) = Count(new, h) + Count(lost, h)
      <3>1. \A u \in Vpns :
              \/ frameOf[p][u] = h /\ lost[u] = h /\ new[u] # h
              \/ frameOf[p][u] = h /\ lost[u] # h /\ new[u] = h
              \/ frameOf[p][u] # h /\ lost[u] # h /\ new[u] # h
        BY <2>4, ConstantsAssumption DEF f
      <3> QED
        BY <3>1, CountSplit, SMTT(40)
    <2>8. Count(new, n) = 1
      BY <1>2, <2>2, <2>4, CountOne
    <2>9. /\ FrameAccounting' /\ freeFrames' \subseteq Frames
          /\ refCount' \in [Frames -> Nat] /\ content' \in [Frames -> Values]
      <3>1. CopyOf(n, e)[n] \in Values
        BY <1>1, <2>3, <2>5 DEF CopyOf, TypeOK
      <3>2. Balanced(p, new, lost, {n}, CopyOf(n, e))
        BY <2>1, <2>2, <2>6, <2>7, <2>8, <3>1, ZenonT(60) DEF Balanced, lost
      <3> QED
        BY <1>1, <3>2, ExchangeAccounts
    <2>10. Writable(e, n) \in Entry /\ Writable(e, n).ppn = n
      BY <2>2, <2>3, ZenonT(60) DEF Writable, Entry
    <2>11. TypeOK'
      <3>1. frameOf' \in [Procs -> [Vpns -> Frames \cup {NoFrame}]]
        BY <1>1, <2>4, <2>6 DEF TypeOK
      <3>2. pte' \in [Procs -> [Vpns -> Entry]]
        BY <1>1, <1>2, <2>1, <2>10 DEF TypeOK
      <3> QED
        BY <1>1, <1>4, <2>9, <3>1, <3>2 DEF TypeOK
    <2>12. /\ areas' = areas /\ status' = status
           /\ \A q \in Procs, u \in Vpns :
                /\ frameOf'[q][u] = IF q = p /\ u = v THEN n ELSE frameOf[q][u]
                /\ pte'[q][u] = IF q = p /\ u = v THEN Writable(e, n) ELSE pte[q][u]
      BY <1>1, <1>2, <1>4, <2>1 DEF TypeOK
    <2>13. TrackersMapped'
      <3>1. \A q \in Procs, u \in Vpns :
              /\ frameOf[q][u] # NoFrame <=> u \in PagesOf(areas[q])
              /\ frameOf[q][u] # NoFrame => pte[q][u].ppn = frameOf[q][u]
        BY <1>1, ZenonT(60) DEF TrackersMapped
      <3>2. v \in PagesOf(areas[p])
        BY <1>2, <2>5, <3>1 DEF f
      <3>3. \A q \in Procs : PagesOf(areas'[q]) = PagesOf(areas[q])
        BY <2>12, ZenonT(60)
      <3>4. ASSUME NEW q \in Procs, NEW u \in Vpns
            PROVE  /\ frameOf'[q][u] # NoFrame <=> u \in PagesOf(areas'[q])
                   /\ frameOf'[q][u] # NoFrame => pte'[q][u].ppn = frameOf'[q][u]
        <4>1. CASE q = p /\ u = v
          <5>1. frameOf'[q][u] = n /\ pte'[q][u] = Writable(e, n)
            BY <2>12, <4>1
          <5> QED
            BY <2>2, <2>10, <3>2, <3>3, <4>1, <5>1, ZenonT(60)
        <4>2. CASE ~(q = p /\ u = v)
          <5>1. frameOf'[q][u] = frameOf[q][u] /\ pte'[q][u] = pte[q][u]
            BY <2>12, <4>2
          <5> QED
            BY <3>1, <3>3, <5>1, ZenonT(60)
        <4> QED
          BY <4>1, <4>2
      <3> QED
        BY <3>4, ZenonT(60) DEF TrackersMapped
    <2>14. RangesTracked' /\ AreasApart'
      BY <1>1, <2>12, ZenonT(60) DEF RangesTracked, AreasApart
    <2>15. FreeSlotsEmpty'
      BY <1>1, <1>2, <2>6, <2>12 DEF FreeSlotsEmpty, TypeOK, Running
    <2> QED
      BY <2>9, <2>11, <2>13, <2>14, <2>15 DEF Accounted
  <1>5. CASE /\ pte' = [pte EXCEPT ![p][v] = Writable(e, e.ppn)]
             /\ UNCHANGED <<physical, status, areas, frameOf, dataEnd, dataMax,
                            stackTop, halted>>
    <2>1. e \in Entry
      BY <1>1, <1>2 DEF TypeOK
    <2>2. Writable(e, e.ppn) \in Entry /\ Writable(e, e.ppn).ppn = e.ppn
      BY <2>1, ZenonT(60) DEF Writable, Entry
    <2>3. pte' \in [Procs -> [Vpns -> Entry]]
      BY <1>1, <1>2, <1>5, <2>2 DEF TypeOK
    <2>4. \A q \in Procs, u \in Vpns : pte'[q][u].ppn = pte[q][u].ppn
      BY <1>1, <1>2, <1>5, <2>2 DEF TypeOK
    <2> QED
      BY <1>5, <2>3, <2>4, ReflaggedAccounted
  <1> QED
    BY <1>3, <1>4, <1>5, ZenonT(60) DEF HandlePagefault
-----------------------------------------------------------------------------
(* mmap, brk, munmap, exit and the drop of a process.                      *)

(* What MapPages does to the trackers and entries of p.                    *)
PagesMapped(p, pages) ==
  /\ FrameAccounting' /\ freeFrames' \subseteq Frames
  /\ refCount' \in [Frames -> Nat] /\ content' \in [Frames -> Values]
  /\ frameOf' \in [Procs -> [Vpns -> Frames \cup {NoFrame}]]
  /\ pte' \in [Procs -> [Vpns -> Entry]]
  /\ \A v \in pages : frameOf[p][v] = NoFrame /\ frameOf'[p][v] # NoFrame
  /\ \A v \in Vpns \ pages : frameOf'[p][v] = frameOf[p][v]
  /\ \A v \in Vpns : frameOf'[p][v] # NoFrame => pte'[p][v].ppn = frameOf'[p][v]
  /\ \A q \in Procs \ {p} : frameOf'[q] = frameOf[q] /\ pte'[q] = pte[q]

(* Mapping pages that had no entry tracks each of them with a frame of its *)
(* own.                                                                    *)
LEMMA MapPagesFacts ==
  ASSUME Accounted, NEW p \in Procs, NEW pages \in SUBSET Vpns, NEW w \in BOOLEAN,
         MapPages(p, pages, w)
  PROVE  PagesMapped(p, pages)
  <1>1. TypeOK /\ FrameAccounting /\ TrackersMapped
    BY DEF Accounted
  <1>2. IsFiniteSet(freeFrames) /\ Cardinality(freeFrames) \in Nat
    BY <1>1, ConstantsAssumption, FS_Subset, FS_CardinalityType DEF TypeOK
  <1>3. ASSUME NEW v \in pages PROVE ~Valid(p, v)
    <2> DEFINE upTo == {u \in pages : u <= v}
    <2>1. upTo \in SUBSET pages /\ IsFiniteSet(pages) /\ Cardinality(pages) \in Nat
      BY PagesFinite
    <2>2. Cardinality(upTo) <= Cardinality(pages) /\ Cardinality(upTo) \in Nat
      BY <2>1, FS_Subset, FS_CardinalityType
    <2>3. Cardinality(pages) <= Cardinality(freeFrames)
      BY <1>2, <2>1, Order DEF MapPages, Starved
    <2>4. Cardinality(upTo) <= Cardinality(freeFrames)
      BY <1>2, <2>1, <2>2, <2>3, Order
    <2> QED
      BY <2>4, ZenonT(60) DEF MapPages, Blocked
  <1>4. \A v \in pages : frameOf[p][v] = NoFrame
    BY <1>1, <1>3 DEF TrackersMapped, Valid
  <1>5. PICK g \in Allocations(pages, freeFrames) :
          \E fill \in [{g[v] : v \in pages} -> Values] :
            /\ Exchange(NoTrackers, {g[v] : v \in pages}, fill)
            /\ frameOf' = [frameOf EXCEPT ![p] = Tracked(frameOf[p], pages, g)]
            /\ pte' = [pte EXCEPT ![p] = Mapped(pte[p], pages, g, [v \in pages |-> w])]
    BY ZenonT(60) DEF MapPages
  <1>6. PICK fill \in [{g[v] : v \in pages} -> Values] :
            /\ Exchange(NoTrackers, {g[v] : v \in pages}, fill)
            /\ frameOf' = [frameOf EXCEPT ![p] = Tracked(frameOf[p], pages, g)]
            /\ pte' = [pte EXCEPT ![p] = Mapped(pte[p], pages, g, [v \in pages |-> w])]
    BY <1>5, ZenonT(60)
  <1> DEFINE taken == {g[v] : v \in pages}
             new == Tracked(frameOf[p], pages, g)
             entries == Mapped(pte[p], pages, g, [v \in pages |-> w])
  <1>7. g \in [pages -> freeFrames] /\ taken \subseteq freeFrames /\ taken \subseteq Frames
    BY <1>1, SMTT(40) DEF Allocations, TypeOK
  <1>8. frameOf[p] \in [Vpns -> Frames \cup {NoFrame}] /\ pte[p] \in [Vpns -> Entry]
    BY <1>1 DEF TypeOK
  <1>9. \A v \in Vpns : frameOf[p][v] \notin taken
    BY <1>1, <1>7, FreeUntracked
  <1>10. Fresh(frameOf[p], pages, freeFrames, g)
    BY <1>1, <1>4, <1>8, <1>9 DEF Fresh, TypeOK
  <1>11. /\ new \in [Vpns -> Frames \cup {NoFrame}]
         /\ \A f \in Frames \ taken : Count(new, f) = Count(frameOf[p], f)
         /\ \A f \in taken : Count(new, f) = 1
    <2>1. OneEach(frameOf[p], pages, g)
      BY ONLY <1>10, TrackedCount, ZenonT(60)
    <2> QED
      BY ONLY <2>1, ZenonT(60) DEF OneEach
  <1>12. ASSUME NEW v \in pages
         PROVE  new[v] = g[v] /\ g[v] \in Frames /\ entries[v] \in Entry /\ entries[v].ppn = g[v]
    <2>1. new[v] = g[v] /\ g[v] \in Frames
      BY <1>7 DEF Tracked
    <2>2. entries[v] = [ppn |-> g[v], w |-> w, cow |-> FALSE]
      BY DEF Mapped
    <2> HIDE DEF entries
    <2> QED
      BY <2>1, <2>2, EntryType
  <1>13. \A v \in Vpns \ pages : new[v] = frameOf[p][v] /\ entries[v] = pte[p][v]
    BY DEF Tracked, Mapped
  <1>14. entries \in [Vpns -> Entry]
    <2>1. entries = [v \in Vpns |-> entries[v]]
      BY DEF Mapped
    <2> HIDE DEF entries, new, taken
    <2>2. ASSUME NEW v \in Vpns PROVE entries[v] \in Entry
      <3>1. CASE v \in pages
        BY <1>12, <3>1
      <3>2. CASE v \in Vpns \ pages
        <4>1. entries[v] = pte[p][v] /\ pte[p][v] \in Entry
          BY <1>8, <1>13, <3>2
        <4> QED
          BY <4>1
      <3> QED
        BY <3>1, <3>2
    <2> QED
      BY <2>1, <2>2
  <1> HIDE DEF taken, new, entries
  <1>15. /\ Exchange(NoTrackers, taken, fill)
         /\ frameOf' = [frameOf EXCEPT ![p] = new]
         /\ pte' = [pte EXCEPT ![p] = entries]
    BY <1>6 DEF taken, new, entries
  <1>16. /\ FrameAccounting' /\ freeFrames' \subseteq Frames
         /\ refCount' \in [Frames -> Nat] /\ content' \in [Frames -> Values]
    <2>1. \A f \in Frames \ taken : Count(frameOf[p], f) = Count(new, f) + Count(NoTrackers, f)
      BY <1>11, CountType, NoTrackersCount, SmallSums
    <2>2. \A f \in taken : fill[f] \in Values
      BY DEF taken
    <2>3. Balanced(p, new, NoTrackers, taken, fill)
      BY <1>7, <1>11, <1>15, <2>1, <2>2 DEF Balanced
    <2> QED
      BY <1>1, <2>3, ExchangeAccounts
  <1>17. /\ frameOf'[p] = new /\ pte'[p] = entries
         /\ \A q \in Procs \ {p} : frameOf'[q] = frameOf[q] /\ pte'[q] = pte[q]
    BY <1>1, <1>15, ZenonT(60) DEF TypeOK
  <1>18. frameOf' \in [Procs -> [Vpns -> Frames \cup {NoFrame}]] /\ pte' \in [Procs -> [Vpns -> Entry]]
    BY <1>1, <1>11, <1>14, <1>15 DEF TypeOK
  <1>19. \A v \in Vpns : frameOf'[p][v] # NoFrame => pte'[p][v].ppn = frameOf'[p][v]
    <2> SUFFICES ASSUME NEW v \in Vpns, new[v] # NoFrame PROVE entries[v].ppn = new[v]
      BY <1>17, ZenonT(60)
    <2>1. CASE v \in pages
      BY <1>12, <2>1
    <2>2. CASE v \in Vpns \ pages
      <3>1. new[v] = frameOf[p][v] /\ entries[v] = pte[p][v]
        BY <1>13, <2>2
      <3>2. frameOf[p][v] # NoFrame => pte[p][v].ppn = frameOf[p][v]
        BY <1>1 DEF TrackersMapped
      <3> QED
        BY <3>1, <3>2
    <2> QED
      BY <2>1, <2>2
  <1>20. \A v \in pages : frameOf'[p][v] # NoFrame
    BY <1>12, <1>17, ConstantsAssumption
  <1> QED
    BY <1>4, <1>13, <1>16, <1>17, <1>18, <1>19, <1>20 DEF PagesMapped

(* New pages recorded in the areas of p.                                   *)
LEMMA MapAccounted ==
  ASSUME Accounted, NEW p \in Procs, NEW pages \in SUBSET Vpns,
         PagesMapped(p, pages), status[p] = "live",
         areas' = [areas EXCEPT ![p] = areas'[p]],
         areas'[p] \subseteq MapArea,
         PagesOf(areas'[p]) = PagesOf(areas[p]) \cup pages,
         \A a \in areas'[p] : VpnRange(a.start, a.end) \subseteq a.pages,
         Apart(areas'[p]),
         dataEnd' \in [Procs -> Nat],
         UNCHANGED <<status, dataMax, stackTop, halted>>
  PROVE  Accounted'
  <1>1. /\ TypeOK /\ FrameAccounting
        /\ TrackersMapped /\ RangesTracked /\ AreasApart /\ FreeSlotsEmpty
    BY DEF Accounted
  <1>2. /\ FrameAccounting' /\ freeFrames' \subseteq Frames
        /\ refCount' \in [Frames -> Nat] /\ content' \in [Frames -> Values]
        /\ frameOf' \in [Procs -> [Vpns -> Frames \cup {NoFrame}]]
        /\ pte' \in [Procs -> [Vpns -> Entry]]
        /\ \A v \in pages : frameOf[p][v] = NoFrame /\ frameOf'[p][v] # NoFrame
        /\ \A v \in Vpns \ pages : frameOf'[p][v] = frameOf[p][v]
        /\ \A v \in Vpns : frameOf'[p][v] # NoFrame => pte'[p][v].ppn = frameOf'[p][v]
        /\ \A q \in Procs \ {p} : frameOf'[q] = frameOf[q] /\ pte'[q] = pte[q]
    BY DEF PagesMapped
  <1>3. \A q \in Procs \ {p} : areas'[q] = areas[q]
    BY <1>1, ZenonT(60) DEF TypeOK
  <1>4. TypeOK'
    <2>1. areas' \in [Procs -> SUBSET MapArea]
      BY <1>1, ZenonT(60) DEF TypeOK
    <2> QED
      BY <1>1, <1>2, <2>1, ZenonT(60) DEF TypeOK
  <1>5. TrackersMapped'
    <2>1. ASSUME NEW q \in Procs, NEW v \in Vpns
          PROVE  /\ frameOf'[q][v] # NoFrame <=> v \in PagesOf(areas'[q])
                 /\ frameOf'[q][v] # NoFrame => pte'[q][v].ppn = frameOf'[q][v]
      <3>1. CASE q = p
        <4>1. frameOf[p][v] # NoFrame <=> v \in PagesOf(areas[p])
          BY <1>1 DEF TrackersMapped
        <4>2. frameOf'[p][v] # NoFrame <=> v \in PagesOf(areas[p]) \/ v \in pages
          BY <1>2, <4>1, ZenonT(60)
        <4>3. v \in PagesOf(areas'[p]) <=> v \in PagesOf(areas[p]) \/ v \in pages
          OBVIOUS
        <4>4. frameOf'[p][v] # NoFrame => pte'[p][v].ppn = frameOf'[p][v]
          BY <1>2
        <4> QED
          BY <3>1, <4>2, <4>3, <4>4
      <3>2. CASE q # p
        <4>1. areas'[q] = areas[q] /\ frameOf'[q] = frameOf[q] /\ pte'[q] = pte[q]
          BY <1>2, <1>3, <3>2
        <4> QED
          BY <1>1, <4>1, TrackersKept
      <3> QED
        BY <3>1, <3>2
    <2> QED
      BY <2>1, ZenonT(60) DEF TrackersMapped, PagesOf
  <1>6. RangesTracked' /\ AreasApart'
    <2>1. ASSUME NEW q \in Procs
          PROVE  /\ \A a \in areas'[q] : VpnRange(a.start, a.end) \subseteq a.pages
                 /\ Apart(areas'[q])
      BY <1>1, <1>3 DEF RangesTracked, AreasApart
    <2> QED
      BY <2>1 DEF RangesTracked, AreasApart, Apart
  <1>7. FreeSlotsEmpty'
    BY <1>1, <1>2 DEF FreeSlotsEmpty
  <1> QED
    BY <1>2, <1>4, <1>5, <1>6, <1>7 DEF Accounted

(* The pages of a set without trackers belong to no area of p.             *)
LEMMA MapPagesNew ==
  ASSUME Accounted, NEW p \in Procs, NEW pages \in SUBSET Vpns,
         PagesMapped(p, pages), NEW a \in areas[p]
  PROVE  a.pages \cap pages = {}
  <1>1. \A v \in pages : frameOf[p][v] = NoFrame
    BY DEF PagesMapped
  <1>2. \A v \in pages : v \notin PagesOf(areas[p])
    BY <1>1 DEF Accounted, TrackersMapped
  <1> QED
    BY <1>2 DEF PagesOf

(* sys_mmap, with and without an address.                                  *)
LEMMA MmapAccounted ==
  ASSUME Accounted, NEW p \in Procs, NEW length \in MmapSizes, NEW w \in BOOLEAN, NEW fd,
         Mmap(p, length, w, fd)
  PROVE  Accounted'
  <1> DEFINE area(end) == Area(end - length, end, w)
  <1>1. CASE Halt("map_one") \/ Halt("frame_alloc") \/ Halt("mmap_fd") \/ Halt("mmap_file")
    BY <1>1, HaltAccounted DEF Sites
  <1>2. CASE ~(Halt("map_one") \/ Halt("frame_alloc") \/ Halt("mmap_fd") \/ Halt("mmap_file"))
    <2>1. PICK end \in VAs :
            /\ Running(p)
            /\ IsUserArea(areas[p], dataMax[p], length, end)
            /\ area(end).pages \subseteq Vpns
            /\ MapPages(p, area(end).pages, w)
            /\ areas' = [areas EXCEPT ![p] = @ \cup {area(end)}]
            /\ UNCHANGED <<status, dataEnd, dataMax, stackTop, halted>>
      BY <1>2 DEF Mmap, MapFails
    <2> DEFINE a == area(end)
    <2>2. TypeOK /\ RangesTracked /\ AreasApart
      BY DEF Accounted
    <2>3. end \in Nat /\ end - length \in Nat /\ dataMax[p] \in Nat
      <3>1. /\ end \in Nat /\ length \in Nat \ {0}
            /\ dataMax[p] \in Nat /\ areas[p] \in SUBSET MapArea
        BY <2>2, AddressNat, ConstantsAssumption DEF TypeOK
      <3> QED
        BY <2>1, <3>1, UserArea
    <2>4. /\ a \in MapArea /\ a.pages \in SUBSET Vpns
          /\ VpnRange(a.start, a.end) = a.pages
      BY <2>1, <2>3, MapAreaType DEF Area
    <2> HIDE DEF area, a
    <2>5. areas'[p] = areas[p] \cup {a} /\ areas' = [areas EXCEPT ![p] = areas'[p]]
      BY <2>1, <2>2, ZenonT(60) DEF TypeOK, a
    <2>6. PagesMapped(p, a.pages)
      BY <2>1, <2>4, MapPagesFacts, ZenonT(60) DEF a
    <2>7. \A b \in areas[p] : b.pages \cap a.pages = {}
      BY <2>4, <2>6, MapPagesNew
    <2>8. Apart(areas'[p])
      BY <2>2, <2>5, <2>7, ZenonT(60) DEF AreasApart, Apart
    <2>9. areas'[p] \subseteq MapArea /\ \A b \in areas'[p] : VpnRange(b.start, b.end) \subseteq b.pages
      BY <2>2, <2>4, <2>5, ZenonT(60) DEF TypeOK, RangesTracked
    <2>10. PagesOf(areas'[p]) = PagesOf(areas[p]) \cup a.pages
      BY <2>5 DEF PagesOf
    <2>11. dataEnd' \in [Procs -> Nat] /\ status[p] = "live"
      BY <2>1, <2>2, ZenonT(60) DEF TypeOK, Running
    <2> QED
      BY <2>1, <2>4, <2>5, <2>6, <2>8, <2>9, <2>10, <2>11, MapAccounted, ZenonT(60)
  <1> QED
    BY <1>1, <1>2

(* sys_brk: the data area grows by new pages and by none it had.           *)
LEMMA BrkAccounted ==
  ASSUME Accounted, NEW p \in Procs, NEW addr \in Addrs, Brk(p, addr)
  PROVE  Accounted'
  <1> DEFINE curEnd == RoundUp(dataEnd[p])
             pages == IF addr >= curEnd THEN VpnRange(curEnd, addr) ELSE {}
             next(a) == [a EXCEPT !.end = addr, !.pages = @ \cup pages]
  <1>1. CASE Halt("brk") \/ Halt("map_one") \/ Halt("frame_alloc")
    BY <1>1, HaltAccounted DEF Sites
  <1>2. CASE ~(Halt("brk") \/ Halt("map_one") \/ Halt("frame_alloc"))
    <2>1. Running(p) /\ pages \in SUBSET Vpns
      BY ZenonT(60) DEF Brk
    <2>2. PICK a \in areas[p] :
            /\ IsAreaAt(areas[p], dataEnd[p], a)
            /\ addr >= a.start
            /\ MapPages(p, pages, a.w)
            /\ areas' = [areas EXCEPT ![p] = (@ \ {a}) \cup {next(a)}]
            /\ dataEnd' = [dataEnd EXCEPT ![p] = addr]
            /\ UNCHANGED <<status, dataMax, stackTop, halted>>
      BY <1>2, ZenonT(60) DEF Brk, MapFails
    <2>3. TypeOK /\ RangesTracked /\ AreasApart
      BY DEF Accounted
    <2>4. addr \in Nat /\ dataEnd[p] \in Nat /\ a \in MapArea /\ dataEnd[p] <= a.end
      BY <2>2, <2>3, ConstantsAssumption DEF TypeOK, IsAreaAt
    <2>5. curEnd \in Nat /\ Floor(curEnd) = Ceil(dataEnd[p])
      BY <2>4, RoundFacts, FloorRoundUp
    <2>6. VpnRange(a.start, addr) \subseteq a.pages \cup pages
      <3>1. /\ a.start \in Nat /\ a.end \in Nat /\ Floor(a.start) \in Nat /\ Ceil(a.end) \in Nat
            /\ Ceil(addr) \in Nat /\ Ceil(dataEnd[p]) \in Nat
        BY <2>4, RoundFacts DEF MapArea
      <3>2. Floor(a.start) .. (Ceil(a.end) - 1) \subseteq a.pages
        BY <2>3 DEF RangesTracked, VpnRange
      <3>3. Ceil(dataEnd[p]) <= Ceil(a.end)
        BY <2>4, <3>1, CeilMono
      <3>4. CASE addr >= curEnd
        <4>1. pages = Ceil(dataEnd[p]) .. (Ceil(addr) - 1)
          BY <2>5, <3>4 DEF VpnRange
        <4> HIDE DEF pages
        <4> QED
          BY <3>1, <3>2, <3>3, <4>1, RangeJoin DEF VpnRange
      <3>5. CASE addr < curEnd
        <4>1. Ceil(addr) <= Ceil(dataEnd[p])
          <5>1. Ceil(addr) <= Ceil(curEnd)
            BY <2>4, <2>5, <3>5, CeilMono, Order
          <5>2. Ceil(curEnd) = Ceil(dataEnd[p])
            BY ONLY <2>4, CeilRoundUp
          <5> QED
            BY <5>1, <5>2
        <4> QED
          BY <3>1, <3>2, <3>3, <4>1, RangeJoin DEF VpnRange
      <3> QED
        BY <2>4, <2>5, <3>4, <3>5, Order
    <2> HIDE DEF pages
    <2>7. /\ next(a) \in MapArea /\ next(a).pages = a.pages \cup pages
          /\ next(a).start = a.start /\ next(a).end = addr
      BY <2>1, <2>4, ZenonT(60) DEF MapArea
    <2> DEFINE b == next(a)
    <2> HIDE DEF b
    <2>8. areas'[p] = (areas[p] \ {a}) \cup {b} /\ areas' = [areas EXCEPT ![p] = areas'[p]]
      BY <2>2, <2>3 DEF TypeOK, b
    <2>9. PagesMapped(p, pages)
      <3>1. a.w \in BOOLEAN
        BY <2>4 DEF MapArea
      <3> QED
        BY <2>1, <2>2, <3>1, MapPagesFacts, ZenonT(60)
    <2>10. \A c \in areas[p] : c.pages \cap pages = {}
      BY <2>1, <2>9, MapPagesNew
    <2>11. Apart(areas'[p])
      <3>1. \A c \in areas[p] \ {a} : c.pages \cap b.pages = {}
        BY <2>3, <2>7, <2>10 DEF AreasApart, Apart, b
      <3>2. \A c, d \in areas[p] : c # d => c.pages \cap d.pages = {}
        BY <2>3 DEF AreasApart, Apart
      <3> QED
        BY <2>8, <3>1, <3>2 DEF Apart
    <2>12. areas'[p] \subseteq MapArea /\ \A c \in areas'[p] : VpnRange(c.start, c.end) \subseteq c.pages
      BY <2>3, <2>6, <2>7, <2>8, ZenonT(60) DEF TypeOK, RangesTracked, b
    <2>13. PagesOf(areas'[p]) = PagesOf(areas[p]) \cup pages
      <3>1. b.pages = a.pages \cup pages
        BY <2>7 DEF b
      <3> QED
        BY <2>8, <3>1 DEF PagesOf
    <2>14. dataEnd' \in [Procs -> Nat] /\ status[p] = "live"
      BY <2>1, <2>2, <2>3, <2>4 DEF TypeOK, Running
    <2> QED
      BY <2>1, <2>2, <2>8, <2>9, <2>11, <2>12, <2>13, <2>14, MapAccounted, ZenonT(60)
  <1> QED
    BY <1>1, <1>2

(* A fixed mmap rewrites the flags of entries and no frame number.         *)
LEMMA MmapFixedAccounted ==
  ASSUME Accounted, NEW p \in Procs, NEW addr, NEW length, NEW w \in BOOLEAN,
         MmapFixed(p, addr, length, w)
  PROVE  Accounted'
  <1> DEFINE pages == VpnRange(addr, addr + length)
             flagged(v) == [ppn |-> pte[p][v].ppn, w |-> w, cow |-> FALSE]
  <1>1. CASE Halt("modify_flags")
    BY <1>1, HaltAccounted DEF Sites
  <1>2. CASE /\ pte' = [pte EXCEPT ![p] =
                   [v \in Vpns |-> IF v \in pages THEN flagged(v) ELSE pte[p][v]]]
             /\ UNCHANGED <<physical, status, areas, frameOf, dataEnd, dataMax,
                            stackTop, halted>>
    <2>1. TypeOK /\ \A v \in Vpns : pte[p][v] \in Entry
      BY DEF Accounted, TypeOK
    <2>2. \A v \in Vpns : flagged(v) \in Entry /\ flagged(v).ppn = pte[p][v].ppn
      BY <2>1 DEF Entry
    <2> HIDE DEF flagged, pages
    <2>3. pte' \in [Procs -> [Vpns -> Entry]]
      BY <1>2, <2>1, <2>2 DEF TypeOK
    <2>4. \A q \in Procs, u \in Vpns : pte'[q][u].ppn = pte[q][u].ppn
      BY <1>2, <2>1, <2>2 DEF TypeOK
    <2> QED
      BY <1>2, <2>3, <2>4, ReflaggedAccounted
  <1> QED
    BY <1>1, <1>2 DEF MmapFixed

(* remove_area drops the trackers of one area, which no other area tracks. *)
LEMMA RemoveAccounted ==
  ASSUME Accounted, NEW p \in Procs, NEW va, RemoveArea(p, va),
         status[p] = "live", halted' = halted,
         status' \in [Procs -> {"none", "live", "zombie"}], status'[p] # "none",
         \A q \in Procs \ {p} : status'[q] = status[q]
  PROVE  Accounted'
  <1>1. /\ TypeOK /\ FrameAccounting
        /\ TrackersMapped /\ RangesTracked /\ AreasApart /\ FreeSlotsEmpty
    BY DEF Accounted
  <1>2. PICK a \in areas[p] :
          /\ Exchange(Trackers(p, a.pages), {}, <<>>)
          /\ frameOf' = [frameOf EXCEPT ![p] =
               [v \in Vpns |-> IF v \in a.pages THEN NoFrame ELSE frameOf[p][v]]]
          /\ pte' = [pte EXCEPT ![p] =
               [v \in Vpns |-> IF v \in VpnRange(a.start, a.end) THEN EMPTY ELSE pte[p][v]]]
          /\ areas' = [areas EXCEPT ![p] = @ \ {a}]
          /\ UNCHANGED <<dataEnd, dataMax, stackTop>>
    BY ZenonT(60) DEF RemoveArea
  <1>3. a.pages \in SUBSET Vpns /\ VpnRange(a.start, a.end) \subseteq a.pages
    <2>1. a \in MapArea
      BY <1>1, <1>2 DEF TypeOK
    <2>2. a.pages \in SUBSET Vpns
      BY <2>1 DEF MapArea
    <2> QED
      BY <1>1, <1>2, <2>2 DEF RangesTracked
  <1>4. /\ FrameAccounting' /\ freeFrames' \subseteq Frames
        /\ refCount' \in [Frames -> Nat] /\ content' \in [Frames -> Values]
        /\ frameOf' \in [Procs -> [Vpns -> Frames \cup {NoFrame}]]
    BY <1>1, <1>2, <1>3, DropTrackers, ZenonT(60)
  <1> DEFINE cleared == VpnRange(a.start, a.end)
  <1> HIDE DEF cleared
  <1>5. /\ areas'[p] = areas[p] \ {a}
        /\ \A v \in Vpns : frameOf'[p][v] = IF v \in a.pages THEN NoFrame ELSE frameOf[p][v]
        /\ \A v \in Vpns : pte'[p][v] = IF v \in cleared THEN EMPTY ELSE pte[p][v]
        /\ \A q \in Procs \ {p} :
             areas'[q] = areas[q] /\ frameOf'[q] = frameOf[q] /\ pte'[q] = pte[q]
    BY <1>1, <1>2, ZenonT(60) DEF TypeOK, cleared
  <1>6. TypeOK'
    <2>1. EMPTY \in Entry
      BY ZenonT(60) DEF EMPTY, Entry
    <2>2. pte' \in [Procs -> [Vpns -> Entry]]
      BY <1>1, <1>2, <2>1, ZenonT(60) DEF TypeOK, cleared
    <2>3. areas' \in [Procs -> SUBSET MapArea]
      BY <1>1, <1>2, ZenonT(60) DEF TypeOK
    <2> QED
      BY <1>1, <1>2, <1>4, <2>2, <2>3, ZenonT(60) DEF TypeOK
  <1>7. TrackersMapped'
    <2>1. ASSUME NEW q \in Procs, NEW v \in Vpns
          PROVE  /\ frameOf'[q][v] # NoFrame <=> v \in PagesOf(areas'[q])
                 /\ frameOf'[q][v] # NoFrame => pte'[q][v].ppn = frameOf'[q][v]
      <3>1. CASE q = p
        <4>1. /\ frameOf[p][v] # NoFrame <=> v \in PagesOf(areas[p])
              /\ frameOf[p][v] # NoFrame => pte[p][v].ppn = frameOf[p][v]
          BY <1>1 DEF TrackersMapped
        <4>2. v \in PagesOf(areas'[p]) <=> v \in PagesOf(areas[p]) /\ v \notin a.pages
          <5>1. \A b \in areas[p] : b # a => b.pages \cap a.pages = {}
            BY <1>1, <1>2, ZenonT(60) DEF AreasApart, Apart
          <5> QED
            <6>1. PagesOf(areas[p] \ {a}) = PagesOf(areas[p]) \ a.pages
              BY <1>2, <5>1, PagesWithout
            <6> QED
              BY <1>5, <6>1
        <4>3. v \in cleared => v \in a.pages
          BY <1>3 DEF cleared
        <4> QED
          BY <1>5, <3>1, <4>1, <4>2, <4>3, ZenonT(60)
      <3>2. CASE q # p
        <4>1. areas'[q] = areas[q] /\ frameOf'[q] = frameOf[q] /\ pte'[q] = pte[q]
          BY <1>5, <3>2
        <4> QED
          BY <1>1, <4>1, TrackersKept
      <3> QED
        BY <3>1, <3>2
    <2> QED
      BY <2>1, ZenonT(60) DEF TrackersMapped, PagesOf
  <1>8. RangesTracked'
    BY <1>1, <1>5, ZenonT(60) DEF RangesTracked
  <1>9. AreasApart'
    BY <1>1, <1>5 DEF AreasApart, Apart
  <1>10. FreeSlotsEmpty'
    BY <1>1, <1>5 DEF FreeSlotsEmpty
  <1> QED
    BY <1>4, <1>6, <1>7, <1>8, <1>9, <1>10 DEF Accounted

(* remove_area where there is no area.                                     *)
LEMMA RemoveFailsAccounted ==
  ASSUME Accounted, NEW p \in Procs, NEW va, RemoveFails(p, va)
  PROVE  Accounted'
  BY HaltAccounted DEF RemoveFails, Sites

(* sys_munmap.                                                             *)
LEMMA MunmapAccounted ==
  ASSUME Accounted, NEW p \in Procs, NEW addr, Munmap(p, addr)
  PROVE  Accounted'
  <1>1. CASE RemoveArea(p, addr) /\ UNCHANGED <<status, halted>>
    <2>1. status \in [Procs -> {"none", "live", "zombie"}] /\ status[p] = "live"
      BY DEF Accounted, TypeOK, Munmap, Running
    <2> QED
      BY <1>1, <2>1, RemoveAccounted
  <1> QED
    BY <1>1, RemoveFailsAccounted DEF Munmap

(* sys_exit drops the stack area and leaves the rest to the last Arc.      *)
LEMMA ExitAccounted ==
  ASSUME Accounted, NEW p \in Procs, Exit(p)
  PROVE  Accounted'
  <1>1. CASE /\ RemoveArea(p, stackTop[p])
             /\ status' = [status EXCEPT ![p] = "zombie"]
             /\ UNCHANGED halted
    <2>1. status \in [Procs -> {"none", "live", "zombie"}] /\ status[p] = "live"
      BY DEF Accounted, TypeOK, Exit, Running
    <2>2. /\ status' \in [Procs -> {"none", "live", "zombie"}] /\ status'[p] = "zombie"
          /\ \A q \in Procs \ {p} : status'[q] = status[q]
      BY <1>1, <2>1
    <2> QED
      BY <1>1, <2>1, <2>2, RemoveAccounted
  <1> QED
    BY <1>1, RemoveFailsAccounted DEF Exit

(* Dropping a process drops all its areas.                                 *)
LEMMA DropAccounted ==
  ASSUME Accounted, NEW p \in Procs, DropProcess(p)
  PROVE  Accounted'
  <1>1. /\ TypeOK /\ FrameAccounting
        /\ TrackersMapped /\ RangesTracked /\ AreasApart /\ FreeSlotsEmpty
    BY DEF Accounted
  <1>2. frameOf' = [frameOf EXCEPT ![p] =
          [v \in Vpns |-> IF v \in Vpns THEN NoFrame ELSE frameOf[p][v]]]
    <2>1. NoTrackers = [v \in Vpns |-> IF v \in Vpns THEN NoFrame ELSE frameOf[p][v]]
      BY DEF NoTrackers
    <2> QED
      BY <2>1 DEF DropProcess
  <1>3. /\ FrameAccounting' /\ freeFrames' \subseteq Frames
        /\ refCount' \in [Frames -> Nat] /\ content' \in [Frames -> Values]
        /\ frameOf' \in [Procs -> [Vpns -> Frames \cup {NoFrame}]]
    BY <1>1, <1>2, DropTrackers, ZenonT(60) DEF DropProcess
  <1>4. NoEntries \in [Vpns -> Entry]
    BY DEF NoEntries, EMPTY, Entry
  <1>5. TypeOK'
    BY <1>1, <1>3, <1>4 DEF TypeOK, DropProcess
  <1>6. /\ areas'[p] = {} /\ frameOf'[p] = NoTrackers
        /\ \A q \in Procs \ {p} :
             /\ areas'[q] = areas[q] /\ frameOf'[q] = frameOf[q] /\ pte'[q] = pte[q]
             /\ status'[q] = status[q]
    BY <1>1 DEF TypeOK, DropProcess
  <1>7. TrackersMapped'
    <2> SUFFICES ASSUME NEW q \in Procs, NEW v \in Vpns
                 PROVE  /\ frameOf'[q][v] # NoFrame <=> v \in PagesOf(areas'[q])
                        /\ frameOf'[q][v] # NoFrame => pte'[q][v].ppn = frameOf'[q][v]
      BY DEF TrackersMapped, PagesOf
    <2>1. CASE q = p
      <3>1. frameOf'[q][v] = NoFrame /\ PagesOf(areas'[q]) = {}
        BY <1>6, <2>1 DEF NoTrackers, PagesOf
      <3> QED
        BY <3>1
    <2>2. CASE q # p
      BY <1>1, <1>6, <2>2, TrackersKept
    <2> QED
      BY <2>1, <2>2
  <1>8. RangesTracked' /\ AreasApart' /\ FreeSlotsEmpty'
    BY <1>1, <1>6, ZenonT(60) DEF RangesTracked, AreasApart, Apart, FreeSlotsEmpty
  <1> QED
    BY <1>3, <1>5, <1>7, <1>8 DEF Accounted

(* Nothing is tracked at the start.                                        *)
LEMMA InitAccounted ==
  ASSUME Init
  PROVE  Accounted
  <1>1. EMPTY \in Entry
    BY DEF EMPTY, Entry
  <1>2. TypeOK
    <2>1. freeFrames \subseteq Frames /\ refCount \in [Frames -> Nat] /\ content \in [Frames -> Values]
      BY ConstantsAssumption DEF Init
    <2>2. /\ status \in [Procs -> {"none", "live", "zombie"}]
          /\ areas \in [Procs -> SUBSET MapArea]
          /\ dataEnd \in [Procs -> Nat] /\ dataMax \in [Procs -> Nat]
          /\ stackTop \in [Procs -> Nat] /\ halted \in Sites
      BY DEF Init, Sites
    <2>3. /\ frameOf \in [Procs -> [Vpns -> Frames \cup {NoFrame}]]
          /\ pte \in [Procs -> [Vpns -> Entry]]
      BY <1>1 DEF Init
    <2> QED
      BY <2>1, <2>2, <2>3 DEF TypeOK
  <1>3. FrameAccounting
    <2>1. ASSUME NEW f \in Frames
          PROVE  Cardinality(TrackersOn(frameOf, f)) = 0
      <3>1. TrackersOn(frameOf, f) = {}
        BY ConstantsAssumption DEF Init, TrackersOn
      <3> QED
        BY <3>1, FS_EmptySet
    <2> QED
      BY <2>1 DEF Init, FrameAccounting
  <1>4. TrackersMapped /\ RangesTracked /\ AreasApart /\ FreeSlotsEmpty
    BY DEF Init, TrackersMapped, RangesTracked, AreasApart, Apart, FreeSlotsEmpty,
       PagesOf, NoTrackers
  <1> QED
    BY <1>2, <1>3, <1>4 DEF Accounted

(* Every step of every program.                                            *)
LEMMA StepAccounted ==
  ASSUME Accounted, [NextAny]_vars
  PROVE  Accounted'
  <1>1. CASE UNCHANGED vars
    BY <1>1, ZenonT(60) DEF vars, physical, layout, Accounted, TypeOK, FrameAccounting, TrackersMapped,
       RangesTracked, AreasApart, FreeSlotsEmpty
  <1>2. ASSUME NEW p \in Procs, NewThread(p) \/ Execve(p)
        PROVE  Accounted'
    BY <1>2, LoadAccounted DEF NewThread, Execve
  <1>3. ASSUME NEW p \in Procs, Exit(p)
        PROVE  Accounted'
    BY <1>3, ExitAccounted
  <1>4. ASSUME NEW p \in Procs, DropProcess(p)
        PROVE  Accounted'
    BY <1>4, DropAccounted
  <1>5. ASSUME NEW p \in Procs, NEW c \in Procs, Fork(p, c)
        PROVE  Accounted'
    BY <1>5, ForkAccounted DEF Fork, Accounted, TypeOK
  <1>6. ASSUME NEW p \in Procs, NEW c \in Procs, NEW v \in Vpns, NEW x \in Values,
               ForkSetTid(p, c, v, x)
        PROVE  Accounted'
    BY <1>6, ForkSetTidAccounted
  <1>7. ASSUME NEW p \in Procs, NEW v \in Vpns, NEW x \in Values, Store(p, v, x)
        PROVE  Accounted'
    BY <1>7, StoreAccounted
  <1>8. ASSUME NEW p \in Procs, NEW va \in VAs, HandlePagefault(p, va)
        PROVE  Accounted'
    BY <1>8, PagefaultAccounted
  <1>9. ASSUME NEW p \in Procs, NEW addr \in Addrs, Brk(p, addr)
        PROVE  Accounted'
    BY <1>9, BrkAccounted
  <1>10. ASSUME NEW p \in Procs, NEW length \in MmapSizes, NEW w \in BOOLEAN,
                NEW fd \in Fds, Mmap(p, length, w, fd)
         PROVE  Accounted'
    BY <1>10, MmapAccounted
  <1>11. ASSUME NEW p \in Procs, NEW addr \in Addrs, NEW length \in MmapSizes,
                NEW w \in BOOLEAN, MmapFixed(p, addr, length, w)
         PROVE  Accounted'
    BY <1>11, MmapFixedAccounted
  <1>12. ASSUME NEW p \in Procs, NEW addr \in Addrs, Munmap(p, addr)
         PROVE  Accounted'
    BY <1>12, MunmapAccounted
  <1>13. CASE Next
    <2>1. CASE Stopped
      BY <1>1, <2>1 DEF Stopped
    <2> QED
      BY <1>2, <1>3, <1>4, <1>5, <1>7, <1>8, <1>9, <1>10, <1>12, <1>13, <2>1, ZenonT(60) DEF Next
  <1> QED
    BY <1>1, <1>6, <1>9, <1>11, <1>12, <1>13 DEF NextAny
-----------------------------------------------------------------------------
(* Whatever calls the programs make, in whatever order, Accounted holds.   *)
THEOREM AccountedAlways == SpecAny => []Accounted
  <1>1. Init => Accounted
    BY InitAccounted
  <1>2. Accounted /\ [NextAny]_vars => Accounted'
    BY StepAccounted
  <1> QED
    BY <1>1, <1>2, PTL DEF SpecAny

(* Every call keeps the state of the memory manager well formed.           *)
THEOREM TypeCorrect == SpecAny => []TypeOK
  <1>1. Accounted => TypeOK
    BY DEF Accounted
  <1> QED
    BY <1>1, AccountedAlways, PTL

(* The reference count of a frame is the number of FrameTrackers on it and *)
(* a frame is on the free list exactly when it has none, through fork,     *)
(* copy on write, brk, mmap, munmap, execve, exit and process drop: alloc  *)
(* never hands out a frame in use and dealloc never frees one twice.       *)
THEOREM FramesAccounted == SpecAny => []FrameAccounting
  <1>1. Accounted => FrameAccounting
    BY DEF Accounted
  <1> QED
    BY <1>1, AccountedAlways, PTL

(* Every page of the range of an area has an entry and a tracker for the   *)
(* same frame, so the unwraps of fork, handle_pagefault and remove_area    *)
(* succeed on every page of a range.                                       *)
THEOREM AreasStayMapped == SpecAny => []AreasMapped
  <1>1. Accounted => AreasMapped
    <2> SUFFICES ASSUME Accounted, NEW p \in Procs, NEW a \in areas[p]
                 PROVE  /\ VpnRange(a.start, a.end) \subseteq a.pages
                        /\ \A v \in a.pages : /\ frameOf[p][v] # NoFrame
                                              /\ pte[p][v].ppn = frameOf[p][v]
      BY DEF AreasMapped
    <2>1. a.pages \subseteq Vpns /\ a.pages \subseteq PagesOf(areas[p])
      BY SMTT(40) DEF Accounted, TypeOK, MapArea, PagesOf
    <2> QED
      BY <2>1, ZenonT(60) DEF Accounted, TrackersMapped, RangesTracked
  <1> QED
    BY <1>1, AccountedAlways, PTL
-----------------------------------------------------------------------------
(* Accounted and CowInv together are inductive.                            *)
LEMMA CowStep ==
  ASSUME Accounted, CowInv, [Next]_vars
  PROVE  Accounted' /\ Good
  <1>1. [NextAny]_vars
    BY ZenonT(60) DEF NextAny
  <1>2. Accounted'
    BY <1>1, StepAccounted
  <1>3. Counted
    BY CountsTell DEF Accounted
  <1> QED
    BY <1>2, <1>3, StepGood

(* The invariant of the address spaces, under the calls as programs use    *)
(* them.                                                                   *)
THEOREM CowAlways == Spec => [](Accounted /\ CowInv)
  <1>1. Init => Accounted /\ CowInv
    BY InitAccounted, CowInit
  <1>2. Accounted /\ CowInv /\ [Next]_vars => (Accounted /\ CowInv)'
    BY CowStep DEF Good
  <1> QED
    BY <1>1, <1>2, PTL DEF Spec

(* fork, handle_pagefault, brk, mmap and remove_area keep entries and      *)
(* trackers together: a page has an entry exactly when an area tracks a    *)
(* frame for it, and the entry names that frame.                           *)
THEOREM EntriesTrack == Spec => []PteTracks
  <1>1. CowInv => PteTracks
    BY DEF CowInv
  <1> QED
    BY <1>1, CowAlways, PTL

(* Copy-on-write: whatever the processes do, a frame some entry can write  *)
(* is mapped by that entry alone.                                          *)
THEOREM WritersAlone == Spec => []NoSharedWrite
  <1>1. CowInv => NoSharedWrite
    BY DEF CowInv
  <1> QED
    BY <1>1, CowAlways, PTL

(* The assert of map_one and the unwraps of brk and remove_area never      *)
(* fire, and no store reaches a frame of the free list.                    *)
THEOREM AssertsNeverFire == Spec => []AssertsHold
  <1>1. CowInv => AssertsHold
    BY DEF CowInv
  <1> QED
    BY <1>1, CowAlways, PTL

(* A store inside an area with write permission is served, at once or by   *)
(* handle_pagefault, unless another area ends at its address.              *)
THEOREM StoresServed == Spec => []WritableServed
  <1>1. Accounted /\ CowInv => WritableServed
    <2> SUFFICES ASSUME Accounted, CowInv, NEW p \in Procs, NEW a \in areas[p], a.w,
                        NEW va \in a.start .. (a.end - 1), \A b \in areas[p] : b.end # va
                 PROVE  \/ pte[p][Floor(va)].w
                        \/ /\ pte[p][Floor(va)].cow
                           /\ IsAreaAt(areas[p], va, a) /\ Floor(va) \in a.pages
      BY DEF WritableServed, Served
    <2>1. TypeOK /\ WriteInArea /\ LaidOut
      BY DEF Accounted, CowInv
    <2>2. /\ areas[p] \in SUBSET MapArea /\ a.start \in Nat /\ a.end \in Nat /\ a.pages \subseteq Vpns
          /\ Separate(areas[p]) /\ Shaped(areas[p]) /\ a.pages = VpnRange(a.start, a.end)
      BY <2>1, SMTT(40) DEF TypeOK, LaidOut, Shaped, Exact, MapArea
    <2>3. va \in Nat /\ a.start <= va /\ va < a.end /\ va <= a.end
      BY <2>2, SMTT(40)
    <2>4. Floor(va) \in a.pages
      BY <2>2, <2>3, FloorInRange
    <2>5. Floor(va) \in Vpns /\ InWritable(areas[p], Floor(va))
      BY <2>2, <2>4 DEF InWritable
    <2>6. pte[p][Floor(va)].w \/ pte[p][Floor(va)].cow
      BY <2>1, <2>5 DEF WriteInArea
    <2>7. IsAreaAt(areas[p], va, a)
      BY <2>2, <2>3, AreaFound
    <2> QED
      BY <2>4, <2>6, <2>7
  <1> QED
    BY <1>1, CowAlways, PTL

(* The copy-on-write address spaces implement private memories: each       *)
(* step changes what the processes read exactly as the operation says.     *)
THEOREM MemoryIsPrivate == Spec => ImplementsPrivateMemory
  <1>1. Init => Private!Init
    BY CowInit
  <1>2. Accounted /\ CowInv /\ [Next]_vars => [Private!Next]_View
    BY CowStep DEF Good
  <1> QED
    BY <1>1, <1>2, CowAlways, PTL DEF Spec, ImplementsPrivateMemory, Private!Spec
=============================================================================
