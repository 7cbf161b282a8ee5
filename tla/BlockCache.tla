----------------------------- MODULE BlockCache -----------------------------
(***************************************************************************)
(* BufBlkDeviceInner of kernel/src/drivers/block/mod.rs over the SD card:  *)
(* one buffered block with a position and a modified flag.  An operation   *)
(* that leaves the block is several steps: the write of the old block, if  *)
(* it was modified, and the read of the new one.                           *)
(*                                                                         *)
(* Next has the accesses fatfs makes on a volume whose clusters are one    *)
(* sector: each inside one block, and after a read that stops one byte     *)
(* short of its end a seek comes first.  A write that stops there ends in  *)
(* a panic, once the block is on the card.  NextAny has accesses of any    *)
(* length, across the ends of blocks too.                                  *)
(***************************************************************************)
EXTENDS SdCard, FiniteSets

CONSTANTS BLOCK_SZ, Bytes, MaxLen

ASSUME CacheAssumption ==
  /\ BLOCK_SZ \in Nat \ {0, 1} /\ MaxLen \in Nat
  /\ Contents = [0 .. BLOCK_SZ - 1 -> Bytes]
  /\ IsFiniteSet(Sectors) /\ Sectors = 0 .. Cardinality(Sectors) - 1

VARIABLES
  buf, pos, block_id, modified,
  stage,   \* what the cache is doing: off, new, idle, flush, fill; panic
  target,  \* the block an operation moves to, or Nowhere
  out,     \* what the read that was just made returned
  sought   \* the caller may go on from where it is
cache == <<buf, pos, block_id, modified, stage, target, out, sought>>
vars == <<sd, cache>>

Nowhere == -1  \* the slice index out of bounds, after the flush
Offsets == 0 .. BLOCK_SZ - 1
Capacity == Cardinality(Sectors) * BLOCK_SZ

CacheTypeOK ==
  /\ SdTypeOK
  /\ buf \in [Offsets -> Bytes] /\ pos \in 0 .. BLOCK_SZ
  /\ block_id \in Nat /\ modified \in BOOLEAN
  /\ stage \in {"off", "new", "idle", "flush", "fill", "panic"}
  /\ target \in Nat \cup {Nowhere} /\ out \in Seq(Bytes) /\ sought \in BOOLEAN

(* What is left of the cache when the machine stops.                       *)
Forgotten ==
  /\ pos' = 0 /\ block_id' = 0 /\ modified' = FALSE /\ target' = 0 /\ sought' = TRUE
  /\ out' = <<>> /\ buf' = Blank

Init ==
  /\ SdInit
  /\ pos = 0 /\ block_id = 0 /\ modified = FALSE /\ target = 0 /\ sought = TRUE
  /\ out = <<>> /\ buf = Blank
  /\ stage = "off"
-----------------------------------------------------------------------------
(* BufBlkDeviceInner::new: the device, and the first block.                *)
New == stage = "off" /\ StartInit /\ stage' = "new"
       /\ UNCHANGED <<buf, pos, block_id, modified, target, out, sought>>
NewFills ==
  /\ stage = "new" /\ at = "ready"
  /\ StartRead(block_id) /\ stage' = "fill"
  /\ UNCHANGED <<buf, pos, block_id, modified, target, out, sought>>

(* flush: only if the buffer was modified.                                 *)
(* Leave(b): flush, then block_id = b and fill_buf.                        *)
LeaveUnflushed(b) ==  \* mutant: seek does not flush
  /\ target' = b /\ StartRead(b) /\ stage' = "fill" /\ block_id' = b /\ modified' = FALSE
Leave(b) ==
  /\ target' = b
  /\ IF modified
     THEN StartWrite(block_id, buf) /\ stage' = "flush" /\ UNCHANGED <<block_id, modified>>
     ELSE StartRead(b) /\ stage' = "fill" /\ block_id' = b /\ UNCHANGED modified

Flush ==
  /\ stage = "idle" /\ modified
  /\ StartWrite(block_id, buf) /\ stage' = "flush" /\ target' = block_id
  /\ UNCHANGED <<buf, pos, block_id, modified, out, sought>>

(* write_block has returned.                                               *)
Flushed ==
  /\ stage = "flush" /\ at = "ready" /\ target # Nowhere
  /\ modified' = FALSE
  /\ IF target = block_id
     THEN stage' = "idle" /\ UNCHANGED <<sd, block_id>>
     ELSE StartRead(target) /\ stage' = "fill" /\ block_id' = target
  /\ UNCHANGED <<buf, pos, target, out, sought>>

(* read_block has returned.                                                *)
Filled ==
  /\ stage = "fill" /\ at = "ready"
  /\ buf' = chunk /\ stage' = "idle" /\ chunk' = Blank
  /\ UNCHANGED <<card, cells, at, index, job, pos, block_id, modified, target, out, sought>>

(* seek, with Start and with Current.                                      *)
SeekTo(c) ==
  /\ pos' = c % BLOCK_SZ
  /\ IF c \div BLOCK_SZ # block_id
     THEN Leave(c \div BLOCK_SZ)
     ELSE UNCHANGED <<sd, block_id, modified, stage, target>>
  /\ out' = <<>> /\ UNCHANGED buf
SeekStart(c) == stage = "idle" /\ SeekTo(c) /\ sought' = TRUE
SeekCurrent(i) ==
  /\ stage = "idle" /\ sought /\ block_id * BLOCK_SZ + pos + i \in 0 .. Capacity
  /\ SeekTo(block_id * BLOCK_SZ + pos + i) /\ UNCHANGED sought

Transferred(len) == IF len < BLOCK_SZ - pos THEN len ELSE BLOCK_SZ - pos

(* read: what is left of the buffer; when the position is then one short   *)
(* of the block, the next block is fetched, and nothing is left to read    *)
(* from it.  The length returned is that of the caller's buffer, whose     *)
(* tail may not have been touched (here: it holds the caller's old bytes). *)
Read(len) ==
  /\ stage = "idle"
  /\ LET n == Transferred(len) IN
     /\ \E stale \in Bytes : out' = [i \in 1 .. len |-> IF i <= n THEN buf[pos + i - 1] ELSE stale]
     /\ IF pos + n = BLOCK_SZ - 1
        THEN Leave(block_id + 1) /\ pos' = 0 /\ sought' = FALSE
        ELSE pos' = pos + n /\ UNCHANGED <<sd, block_id, modified, stage, target, sought>>
     /\ UNCHANGED buf

(* write: the same, except that when the position is then one short of the *)
(* block, the loop over the "rest" of the caller's buffer starts past its  *)
(* end, unless that buffer is empty.                                       *)
WriteMarking(len, mark) ==
  /\ stage = "idle"
  /\ LET n == Transferred(len) IN
     /\ \E bytes \in [1 .. n -> Bytes] :
          buf' = [o \in Offsets |-> IF o \in pos .. pos + n - 1 THEN bytes[o - pos + 1] ELSE buf[o]]
     /\ IF pos + n # BLOCK_SZ - 1
        THEN /\ pos' = pos + n /\ modified' = (modified \/ mark)
             /\ UNCHANGED <<sd, block_id, stage, target>>
        ELSE IF len = 0
        THEN pos' = 0 /\ Leave(block_id + 1)
        ELSE /\ pos' = pos + n /\ modified' = TRUE
             /\ StartWrite(block_id, buf') /\ stage' = "flush" /\ target' = Nowhere
             /\ UNCHANGED block_id
     /\ out' = <<>> /\ UNCHANGED sought
(* Mutant: modified is only set by a write from the block's start.         *)
WriteUnmarked(len) == WriteMarking(len, pos = 0)
Write(len) == WriteMarking(len, Transferred(len) > 0)

(* The unwrap of the driver's Err, and the index out of bounds.            *)
Panic ==
  /\ stage \in {"new", "flush", "fill"} /\ at = "err"
  /\ stage' = "panic" /\ Forgotten /\ UNCHANGED sd
OutOfBounds ==
  /\ stage = "flush" /\ at = "ready" /\ target = Nowhere
  /\ stage' = "panic" /\ Forgotten /\ UNCHANGED sd

PowerCut == stage # "off" /\ SdStops /\ stage' = "off" /\ Forgotten

(* A step of the driver or the card.                                       *)
Device == SdNext /\ UNCHANGED cache
-----------------------------------------------------------------------------
Common ==
  \/ New \/ NewFills \/ Flush \/ Flushed \/ Filled \/ Panic \/ OutOfBounds
  \/ PowerCut \/ Device
  \/ \E c \in 0 .. Capacity - 1 : SeekStart(c)

Next ==
  \/ Common
  \/ \E i \in -1 .. 1 : SeekCurrent(i)
  \/ \E len \in 1 .. BLOCK_SZ :
       sought /\ pos + len <= BLOCK_SZ /\ (Read(len) \/ Write(len))

NextAny == Common \/ \E len \in 0 .. MaxLen : Read(len) \/ Write(len)

(* The driver goes on while it is in a call, the card ends every write,    *)
(* and the cache goes on with what the driver returned.                    *)
Fairness == WF_vars(Device) /\ WF_vars(NewFills \/ Flushed \/ Filled \/ Panic \/ OutOfBounds)

Spec == Init /\ [][Next]_vars /\ Fairness
SpecAny == Init /\ [][NextAny]_vars /\ Fairness
-----------------------------------------------------------------------------
InMemory == stage \in {"idle", "flush"}
Block(s) == IF InMemory /\ s = block_id THEN buf ELSE cells[s]

Image == [a \in 0 .. Capacity - 1 |-> Block(a \div BLOCK_SZ)[a % BLOCK_SZ]]
Saved == [a \in 0 .. Capacity - 1 |-> cells[a \div BLOCK_SZ][a % BLOCK_SZ]]
Place == IF stage \in {"flush", "fill"} /\ target # Nowhere THEN target ELSE block_id
Cursor == Place * BLOCK_SZ + pos - (IF sought THEN 0 ELSE 1)

FD == INSTANCE FlatDisk WITH
  Size <- Capacity, BlockSize <- BLOCK_SZ, image <- Image, saved <- Saved, cursor <- Cursor

(* The cache implements a flat disk: reads return what was last written at *)
(* the cursor, seeks and accesses move it as they say, and a power cut or  *)
(* a panic undoes at most the changes to the one block that is in memory.  *)
ImplementsFlatDisk == FD!Spec

(* While the flag is clear the buffer and the card agree, so leaving the   *)
(* block without a write loses nothing.                                    *)
CleanMeansSaved == stage = "idle" /\ ~modified => buf = cells[block_id]

(* block/mod.rs:94: a write that fills the buffered block goes on.         *)
WriteReturns == target # Nowhere
=============================================================================
