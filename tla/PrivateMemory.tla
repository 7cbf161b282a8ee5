---------------------------- MODULE PrivateMemory ----------------------------
(***************************************************************************)
(* What the address spaces of hecto-os promise to user programs: every     *)
(* process has a memory of its own.  fork gives the child a copy of the    *)
(* parent's memory, a store changes one page of one process, and memory is *)
(* otherwise only added to, removed from or replaced for the process that  *)
(* asks.  There are no frames, page tables or copy-on-write here.          *)
(***************************************************************************)
CONSTANTS
  Procs, Vpns, Values, Unmapped,
  Loaded  \* the memories a freshly loaded program can have

VARIABLE mem  \* the contents of each page of each process, or Unmapped

Nothing == [v \in Vpns |-> Unmapped]

Init == mem = [p \in Procs |-> Nothing]

OnlyOf(p) == \A q \in Procs \ {p} : mem'[q] = mem[q]

(* exec, and the first program of a process.                               *)
Load(p) == OnlyOf(p) /\ mem'[p] \in Loaded

(* mmap and brk: unmapped pages become mapped.                             *)
Map(p) ==
  /\ OnlyOf(p)
  /\ \A v \in Vpns : \/ mem'[p][v] = mem[p][v]
                     \/ mem[p][v] = Unmapped /\ mem'[p][v] \in Values

(* munmap, and the release of the stack and of the rest at exit.           *)
Unmap(p) == OnlyOf(p) /\ \A v \in Vpns : mem'[p][v] \in {mem[p][v], Unmapped}

(* fork: the child starts with what the parent has.                        *)
Fork(p, c) ==
  /\ mem[c] = Nothing
  /\ mem' = [mem EXCEPT ![c] = mem[p]]

Store(p, v, x) ==
  /\ mem[p][v] # Unmapped
  /\ mem' = [mem EXCEPT ![p][v] = x]

Next ==
  \/ \E p \in Procs : Load(p) \/ Map(p) \/ Unmap(p)
  \/ \E p, c \in Procs : Fork(p, c)
  \/ \E p \in Procs, v \in Vpns, x \in Values : Store(p, v, x)

Spec == Init /\ [][Next]_mem
=============================================================================
