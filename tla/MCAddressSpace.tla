--------------------------- MODULE MCAddressSpace ---------------------------
(* Small instances of AddressSpace for TLC: a text segment of one page,    *)
(* and a data segment that begins where it ends and ends inside its page.  *)
EXTENDS AddressSpace, TLC

MCImage == {[start |-> 3, end |-> 6, w |-> FALSE], [start |-> 6, end |-> 8, w |-> TRUE]}
MCImageEnd == 8

MCDataImage == {[start |-> 2, end |-> 3, w |-> TRUE]}
MCDataImageEnd == 3

(* Next with one of the further calls of NextAny at a time.                *)
SpecFixedMmap ==
  Init /\ [][Next \/ \E p \in Procs, addr \in Addrs, length \in MmapSizes :
                       MmapFixed(p, addr, length, TRUE)]_vars
SpecSetTid ==
  Init /\ [][Next \/ \E p, c \in Procs, v \in Vpns, x \in Values :
                       ForkSetTid(p, c, v, x)]_vars
SpecShrink == Init /\ [][Next \/ \E p \in Procs, addr \in Addrs : Brk(p, addr)]_vars

Symmetry == Permutations(Frames) \cup Permutations(Procs)
=============================================================================
