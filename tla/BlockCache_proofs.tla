-------------------------- MODULE BlockCache_proofs --------------------------
(***************************************************************************)
(* Proofs that the block cache never forgets a change and that the driver  *)
(* moves data only with a ready card, for every card, block size, number   *)
(* of retries and length of an access, and for the accesses of fatfs as    *)
(* well as for any others; and that the cache over the card, with power    *)
(* cuts and failing commands, implements a flat disk.                      *)
(***************************************************************************)
EXTENDS BlockCache, FiniteSetTheorems, TLAPS

(* Leaves that name no prover are Zenon's; those that reason about numbers, *)
(* records or updates of functions name the SMT solver.                     *)
USE ZenonT(60)

NextEither == Next \/ NextAny

CardType == [mode : {"off", "idle", "ready"}, hc : BOOLEAN, app : BOOLEAN, sends : 0 .. 255]

(* The parts of the types that the invariant needs.                        *)
Typed ==
  /\ card \in CardType
  /\ cells \in [Sectors -> Contents] /\ chunk \in Contents
  /\ buf \in Contents /\ block_id \in Nat /\ modified \in BOOLEAN /\ pos \in 0 .. BLOCK_SZ
  /\ target \in Nat \cup {Nowhere}

(* What the driver is doing, given what the cache waits for.  While the    *)
(* block is being written the command holds it, and afterwards the card    *)
(* does; while one is being read the command names it, and afterwards the  *)
(* driver's chunk is what the card holds.                                  *)
InStep ==
  /\ stage = "off" => at = "off" /\ ~modified
  /\ stage = "panic" => at \in {"ready", "err"}
  /\ stage = "new" => at \notin {"off", "CMD17", "CMD24", "busy"} /\ ~modified
  /\ stage = "idle" => at = "ready"
  /\ stage = "fill" =>
       /\ at \in {"CMD17", "ready", "err"} /\ ~modified
       /\ at = "CMD17" => job.sector = block_id
       /\ at = "ready" => chunk = cells[block_id]
  /\ stage = "flush" =>
       /\ at \in {"CMD24", "busy", "ready", "err"}
       /\ at = "CMD24" => job.sector = block_id /\ job.data = buf
       /\ at \in {"busy", "ready"} => cells[block_id] = buf
  /\ stage \in {"off", "panic", "new", "idle", "fill", "flush"}

IInv == Typed /\ InStep /\ ReadyWhenUsed /\ CleanMeansSaved
-----------------------------------------------------------------------------
(* Blank is a content.                                                     *)
LEMMA BlankType == Blank \in Contents
BY CardAssumption DEF Blank

(* The card's record keeps its type and its capacity.                      *)
LEMMA CardRecord ==
  ASSUME NEW c \in CardType
  PROVE  /\ Quiet(c) \in CardType /\ Quiet(c).hc = c.hc /\ Quiet(c).mode = c.mode
         /\ Plain(c) \in CardType /\ Plain(c).hc = c.hc /\ Plain(c).mode = c.mode
         /\ [c EXCEPT !.app = TRUE] \in CardType /\ [c EXCEPT !.app = TRUE].hc = c.hc
         /\ [c EXCEPT !.app = TRUE].mode = c.mode
         /\ \A m \in {"off", "idle", "ready"} :
              [c EXCEPT !.mode = m] \in CardType /\ [c EXCEPT !.mode = m].hc = c.hc
         /\ \A b \in 0 .. 255 : [c EXCEPT !.sends = b] \in CardType
<1>1. Quiet(c) \in CardType /\ Quiet(c).hc = c.hc /\ Quiet(c).mode = c.mode
  BY SMTT(40) DEF CardType, Quiet, NoAnswer
<1>2. Plain(c) \in CardType /\ Plain(c).hc = c.hc /\ Plain(c).mode = c.mode
  BY <1>1 DEF CardType, Plain
<1>3. /\ [c EXCEPT !.app = TRUE] \in CardType /\ [c EXCEPT !.app = TRUE].hc = c.hc
      /\ [c EXCEPT !.app = TRUE].mode = c.mode
  BY DEF CardType
<1>4. \A m \in {"off", "idle", "ready"} :
        [c EXCEPT !.mode = m] \in CardType /\ [c EXCEPT !.mode = m].hc = c.hc
  BY DEF CardType
<1>5. \A b \in 0 .. 255 : [c EXCEPT !.sends = b] \in CardType
  BY DEF CardType
<1> QED
  BY <1>1, <1>2, <1>3, <1>4, <1>5

(* A command leaves the card a card of the same capacity, and only CMD0    *)
(* and ACMD41 change its mode.                                             *)
LEMMA ExchangeKeeps ==
  ASSUME card \in CardType,
         NEW cmd \in {"CMD0", "CMD8", "CMD55", "ACMD41", "CMD58", "CMD9", "CMD10", "CMD17", "CMD24"},
         NEW x \in Exchanges(cmd)
  PROVE  /\ x.c \in CardType /\ x.c.hc = card.hc
         /\ cmd \notin {"CMD0", "ACMD41"} => x.c.mode = card.mode
<1> DEFINE Kept(c) == /\ c \in CardType /\ c.hc = card.hc
                      /\ cmd \notin {"CMD0", "ACMD41"} => c.mode = card.mode
           App == [Plain(card) EXCEPT !.app = TRUE]
           To(m) == [Plain(card) EXCEPT !.mode = m]
<1>1. Kept(card) /\ Kept(Quiet(card)) /\ Kept(Plain(card)) /\ Kept(App)
  BY CardRecord
<1>2. cmd \in {"CMD0", "ACMD41"} => \A m \in {"off", "idle", "ready"} : Kept(To(m))
  BY CardRecord
<1>3. card.mode \in {"off", "idle", "ready"}
  BY DEF CardType
<1>4. \A y \in Carries(cmd) : Kept(y.c)
  <2> HIDE DEF Kept
  <2>1. CASE cmd = "CMD0"
    BY <1>2, <2>1, SMTT(40) DEF Carries
  <2>2. CASE cmd \in {"CMD8", "CMD58", "CMD9", "CMD10", "CMD17", "CMD24"}
    BY <1>1, <2>2, SMTT(40) DEF Carries
  <2>3. CASE cmd = "CMD55"
    <3>1. Carries(cmd) = {[c |-> App, r |-> R1(card)]}
      BY <2>3 DEF Carries
    <3> HIDE DEF App
    <3> QED
      BY <1>1, <3>1, SMTT(40)
  <2>4. CASE cmd = "ACMD41"
    <3> SUFFICES ASSUME NEW y \in Carries(cmd)
                 PROVE  Kept(y.c)
      OBVIOUS
    <3>1. CASE card.app
      <4>1. Carries(cmd) = {[c |-> To(m), r |-> R1(To(m))] : m \in {card.mode, "ready"}}
        BY <2>4, <3>1 DEF Carries
      <4>2. PICK m \in {card.mode, "ready"} : y = [c |-> To(m), r |-> R1(To(m))]
        BY <4>1
      <4>3. y.c = To(m) /\ m \in {"off", "idle", "ready"}
        BY <4>2, <1>3
      <4> QED
        BY <1>2, <2>4, <4>3
    <3>2. CASE ~card.app
      BY <1>1, <2>4, <3>2, SMTT(40) DEF Carries
    <3> QED
      BY <3>1, <3>2
  <2> QED
    BY <2>1, <2>2, <2>3, <2>4
<1>5. Kept(x.c)
  <2> HIDE DEF Kept
  <2> QED
    BY <1>1, <1>4, SMTT(40) DEF Exchanges
<1> QED
  BY <1>5
-----------------------------------------------------------------------------
InitSteps == {"CMD0", "CMD8", "CMD55", "ACMD41", "CMD58", "CMD9", "CMD10"}

(* A step of init keeps the invariant if it claims a ready card only of a  *)
(* card that is.                                                           *)
LEMMA InitStepKeeps ==
  ASSUME IInv, at \in InitSteps, UNCHANGED <<cells, job, chunk, cache>>,
         card' \in CardType, at' \in InitSteps \cup {"ready", "err"},
         at' \in {"CMD9", "CMD10", "ready"} => card'.mode = "ready" /\ card'.hc
  PROVE  IInv'
<1>1. stage = "new" /\ stage' = "new" /\ ~modified /\ modified' = modified
  BY DEF IInv, InStep, InitSteps, cache
<1>2. Typed'
  BY DEF IInv, Typed, cache
<1>3. InStep'
  BY <1>1 DEF InStep, InitSteps
<1>4. ReadyWhenUsed'
  BY DEF ReadyWhenUsed, InitSteps
<1>5. CleanMeansSaved'
  BY <1>1 DEF CleanMeansSaved
<1> QED
  BY <1>2, <1>3, <1>4, <1>5 DEF IInv

(* Every step of the driver keeps the invariant.                           *)
LEMMA DeviceKeeps ==
  ASSUME IInv, Device
  PROVE  IInv'
<1> USE DEF Device
<1>0. card \in CardType
  BY DEF IInv, Typed
<1>1. CASE Reset
  BY <1>0, <1>1, ExchangeKeeps, InitStepKeeps DEF Reset, InitSteps
<1>2. CASE CheckVoltage
  BY <1>0, <1>2, ExchangeKeeps, InitStepKeeps DEF CheckVoltage, InitSteps
<1>3. CASE AppCommand
  BY <1>0, <1>3, ExchangeKeeps, InitStepKeeps DEF AppCommand, InitSteps
<1>4. CASE Initiate
  BY <1>0, <1>4, ExchangeKeeps, InitStepKeeps DEF Initiate, InitSteps
<1>5. CASE ReadOcr
  BY <1>0, <1>5, ExchangeKeeps, InitStepKeeps DEF ReadOcr, InitSteps, CapacityBit
<1>6. CASE GetRegister
  BY <1>0, <1>6, ExchangeKeeps, InitStepKeeps, SMTT(40) DEF GetRegister, InitSteps, IInv, ReadyWhenUsed
<1>7. CASE ReadSector
  <2>1. PICK x \in Exchanges("CMD17") : card' = x.c
    BY <1>7 DEF ReadSector
  <2>2. card' \in CardType /\ card'.hc = card.hc /\ card'.mode = card.mode
    BY <1>0, <2>1, ExchangeKeeps
  <2>3. /\ at = "CMD17" /\ cells' = cells /\ stage = "fill" /\ ~modified /\ job.sector = block_id
        /\ \/ at' = "ready" /\ job.sector \in Sectors /\ chunk' = cells[job.sector]
           \/ at' = "err" /\ chunk' = chunk
    BY <1>7 DEF ReadSector, IInv, InStep
  <2>4. Typed'
    BY <2>2, <2>3 DEF IInv, Typed, cache
  <2>5. InStep'
    BY <2>3 DEF InStep, cache
  <2>6. ReadyWhenUsed' /\ CleanMeansSaved'
    BY <2>2, <2>3 DEF IInv, ReadyWhenUsed, CleanMeansSaved, cache
  <2> QED
    BY <2>4, <2>5, <2>6 DEF IInv
<1>8. CASE WriteSector
  <2>1. PICK x \in Exchanges("CMD24") : card' = x.c
    BY <1>8 DEF WriteSector
  <2>2. card' \in CardType /\ card'.hc = card.hc /\ card'.mode = card.mode
    BY <1>0, <2>1, ExchangeKeeps
  <2>3. /\ at = "CMD24" /\ chunk' = chunk /\ stage = "flush" /\ job.sector = block_id /\ job.data = buf
        /\ \/ /\ at' \in {"busy", "err"} /\ job.sector \in Sectors
              /\ cells' = [cells EXCEPT ![job.sector] = job.data]
           \/ at' = "err" /\ cells' = cells
    BY <1>8 DEF WriteSector, IInv, InStep
  <2>4. Typed'
    BY <2>2, <2>3 DEF IInv, Typed, cache
  <2>5. InStep'
    BY <2>3 DEF IInv, Typed, InStep, cache
  <2>6. ReadyWhenUsed' /\ CleanMeansSaved'
    BY <2>2, <2>3 DEF IInv, ReadyWhenUsed, CleanMeansSaved, cache
  <2> QED
    BY <2>4, <2>5, <2>6 DEF IInv
<1>9. CASE NoLongerBusy
  BY <1>9 DEF NoLongerBusy, IInv, Typed, InStep, ReadyWhenUsed, CleanMeansSaved, cache
<1> QED
  BY <1>1, <1>2, <1>3, <1>4, <1>5, <1>6, <1>7, <1>8, <1>9 DEF SdNext

(* Leaving a block, by a write of it if it was modified.                   *)
LEMMA LeaveKeeps ==
  ASSUME IInv, NEW b \in Nat, stage = "idle", Leave(b), buf' = buf, pos' \in 0 .. BLOCK_SZ
  PROVE  IInv'
<1>1. CASE modified
  BY <1>1, SMTT(40) DEF Leave, StartWrite, NoJob, IInv, Typed, InStep, ReadyWhenUsed, CleanMeansSaved
<1>2. CASE ~modified
  BY <1>2 DEF Leave, StartRead, NoJob, IInv, Typed, InStep, ReadyWhenUsed, CleanMeansSaved
<1> QED
  BY <1>1, <1>2

(* A restart forgets the buffer, not the card.                             *)
LEMMA ForgottenKeeps ==
  ASSUME IInv, Forgotten, card' \in CardType, UNCHANGED cells, chunk' \in Contents,
         \/ stage' = "off" /\ at' = "off"
         \/ stage' = "panic" /\ at' \in {"ready", "err"} /\ at' = at /\ card' = card
  PROVE  IInv'
<1>1. Typed'
  <2>1. 0 \in 0 .. BLOCK_SZ
    BY CacheAssumption, SMTT(40)
  <2>2. cells' \in [Sectors -> Contents]
    BY DEF IInv, Typed
  <2> QED
    BY BlankType, <2>1, <2>2 DEF Forgotten, Typed
<1>2. InStep'
  BY DEF InStep, Forgotten
<1>3. ReadyWhenUsed' /\ CleanMeansSaved'
  BY DEF IInv, ReadyWhenUsed, CleanMeansSaved
<1> QED
  BY <1>1, <1>2, <1>3 DEF IInv

(* Seeks go to a natural offset of a natural block.                        *)
LEMMA SeekKeeps ==
  ASSUME IInv, NEW c \in Nat, stage = "idle", SeekTo(c)
  PROVE  IInv'
<1>1. c % BLOCK_SZ \in 0 .. BLOCK_SZ /\ c \div BLOCK_SZ \in Nat
  BY CacheAssumption, SMTT(40)
<1>2. CASE c \div BLOCK_SZ # block_id
  BY <1>1, <1>2, LeaveKeeps DEF SeekTo
<1>3. CASE c \div BLOCK_SZ = block_id
  BY <1>1, <1>3 DEF SeekTo, IInv, Typed, InStep, ReadyWhenUsed, CleanMeansSaved, sd, driver
<1> QED
  BY <1>2, <1>3

(* What an access transfers lies in the buffer.                            *)
LEMMA TransferredRange ==
  ASSUME pos \in 0 .. BLOCK_SZ, NEW len \in Nat
  PROVE  Transferred(len) \in Nat /\ pos + Transferred(len) \in 0 .. BLOCK_SZ
BY CacheAssumption, SMTT(40) DEF Transferred

(* A read, of any length.                                                  *)
LEMMA ReadKeeps ==
  ASSUME IInv, NEW len \in Nat, Read(len)
  PROVE  IInv'
<1>1. pos + Transferred(len) \in 0 .. BLOCK_SZ /\ 0 \in 0 .. BLOCK_SZ /\ block_id + 1 \in Nat
  BY TransferredRange, CacheAssumption, SMTT(40) DEF IInv, Typed
<1>2. CASE pos + Transferred(len) = BLOCK_SZ - 1
  BY <1>1, <1>2, LeaveKeeps DEF Read
<1>3. CASE pos + Transferred(len) # BLOCK_SZ - 1
  BY <1>1, <1>3 DEF Read, IInv, Typed, InStep, ReadyWhenUsed, CleanMeansSaved, sd, driver
<1> QED
  BY <1>2, <1>3

(* A write, of any length.  The flag is set unless nothing was changed.    *)
LEMMA WriteKeeps ==
  ASSUME IInv, NEW len \in Nat, Write(len)
  PROVE  IInv'
<1> DEFINE n == Transferred(len)
<1>1. /\ n \in Nat /\ pos + n \in 0 .. BLOCK_SZ /\ 0 \in 0 .. BLOCK_SZ /\ block_id + 1 \in Nat
      /\ len = 0 => n = 0
  BY TransferredRange, CacheAssumption, SMTT(40) DEF IInv, Typed, Transferred
<1>2. PICK bytes \in [1 .. n -> Bytes] :
        buf' = [o \in Offsets |-> IF o \in pos .. pos + n - 1 THEN bytes[o - pos + 1] ELSE buf[o]]
  BY DEF Write, WriteMarking
<1>3. buf \in [Offsets -> Bytes] /\ Contents = [Offsets -> Bytes] /\ Offsets \subseteq Nat /\ pos \in Nat
  BY CacheAssumption, SMTT(40) DEF IInv, Typed, Offsets
<1> HIDE DEF n
<1>4. buf' \in Contents
  <2>1. \A o \in Offsets : o \in pos .. pos + n - 1 => o - pos + 1 \in 1 .. n
    BY <1>1, <1>3, SMTT(40)
  <2> QED
    BY <1>2, <1>3, <2>1
<1>5. n = 0 => buf' = buf
  <2>1. n = 0 => \A o \in Offsets : o \notin pos .. pos + n - 1
    BY <1>3, SMTT(40)
  <2> QED
    BY <1>2, <1>3, <2>1
<1>6. CASE pos + n # BLOCK_SZ - 1
  <2>1. /\ stage = "idle" /\ pos' = pos + n /\ modified' = (modified \/ n > 0)
        /\ UNCHANGED <<sd, block_id, stage, target>>
    BY <1>6 DEF Write, WriteMarking, n
  <2>2. Typed'
    BY <1>1, <1>4, <2>1 DEF IInv, Typed, sd, driver
  <2>3. InStep' /\ ReadyWhenUsed'
    BY <2>1 DEF IInv, InStep, ReadyWhenUsed, sd, driver
  <2>4. CleanMeansSaved'
    <3>1. ~(n > 0) => n = 0
      BY <1>1, SMTT(40)
    <3>2. ~modified' => ~modified /\ ~(n > 0)
      BY <2>1, ZenonT(60)
    <3> QED
      BY <1>5, <2>1, <3>1, <3>2 DEF IInv, CleanMeansSaved, sd, driver
  <2> QED
    BY <2>2, <2>3, <2>4 DEF IInv
<1>7. CASE pos + n = BLOCK_SZ - 1 /\ len = 0
  BY <1>1, <1>5, <1>7, LeaveKeeps DEF Write, WriteMarking, n
<1>8. CASE pos + n = BLOCK_SZ - 1 /\ len # 0
  <2>1. /\ stage = "idle" /\ pos' = pos + n /\ modified' = TRUE
        /\ StartWrite(block_id, buf') /\ stage' = "flush" /\ block_id' = block_id
        /\ target' = Nowhere
    BY <1>8 DEF Write, WriteMarking, n
  <2> QED
    BY <1>1, <1>4, <2>1 DEF StartWrite, IInv, Typed, InStep, ReadyWhenUsed, CleanMeansSaved
<1> QED
  BY <1>6, <1>7, <1>8

(* The steps that both specifications have.                                *)
LEMMA CommonKeeps ==
  ASSUME IInv, Common
  PROVE  IInv'
<1>1. CASE New
  BY <1>1 DEF New, StartInit, InitSteps, IInv, Typed, InStep, ReadyWhenUsed, CleanMeansSaved
<1>2. CASE NewFills
  BY <1>2 DEF NewFills, StartRead, NoJob, IInv, Typed, InStep, ReadyWhenUsed, CleanMeansSaved
<1>3. CASE Flush
  BY <1>3 DEF Flush, StartWrite, IInv, Typed, InStep, ReadyWhenUsed, CleanMeansSaved
<1>4. CASE Flushed
  BY <1>4 DEF Flushed, StartRead, NoJob, IInv, Typed, InStep, ReadyWhenUsed, CleanMeansSaved, sd, driver
<1>5. CASE Filled
  BY <1>5, BlankType DEF Filled, IInv, Typed, InStep, ReadyWhenUsed, CleanMeansSaved
<1>6. CASE Panic
  BY <1>6, ForgottenKeeps DEF Panic, sd, driver, IInv, Typed
<1>7. CASE PowerCut
  <2>1. \/ card' = [Plain(card) EXCEPT !.mode = "off"]
        \/ \E b \in {1, 127, 255} : card' = [card EXCEPT !.sends = b]
    BY <1>7 DEF PowerCut, SdStops, NoAnswer
  <2>2. card \in CardType /\ Plain(card) \in CardType
    BY CardRecord DEF IInv, Typed
  <2>3. card' \in CardType
    <3>1. CASE card' = [Plain(card) EXCEPT !.mode = "off"]
      BY <2>2, <3>1, CardRecord
    <3>2. CASE \E b \in {1, 127, 255} : card' = [card EXCEPT !.sends = b]
      <4>1. \A b \in 0 .. 255 : [card EXCEPT !.sends = b] \in CardType
        BY <2>2, CardRecord
      <4>2. \A b \in {1, 127, 255} : b \in 0 .. 255
        BY SMTT(40)
      <4>3. PICK b \in {1, 127, 255} : card' = [card EXCEPT !.sends = b]
        BY <3>2
      <4> QED
        BY <4>1, <4>2, <4>3
    <3> QED
      BY <2>1, <3>1, <3>2
  <2> QED
    BY <1>7, <2>3, BlankType, ForgottenKeeps DEF PowerCut, SdStops
<1>8. CASE Device
  BY <1>8, DeviceKeeps
<1>9. CASE \E c \in 0 .. Capacity - 1 : SeekStart(c)
  BY <1>9, SeekKeeps, SMTT(40) DEF SeekStart
<1>10. CASE OutOfBounds
  BY <1>10, ForgottenKeeps DEF OutOfBounds, sd, driver, IInv, Typed
<1> QED
  BY <1>1, <1>2, <1>3, <1>4, <1>5, <1>6, <1>7, <1>8, <1>9, <1>10 DEF Common
-----------------------------------------------------------------------------
(* The invariant holds initially.                                          *)
LEMMA InitEstablishes == Init => IInv
<1> SUFFICES ASSUME Init PROVE IInv
  OBVIOUS
<1>1. card \in CardType
  <2>1. card \in [mode : {"off", "ready"}, hc : BOOLEAN, app : {FALSE}, sends : {NoAnswer}]
    BY DEF Init, SdInit
  <2>2. {NoAnswer} \subseteq 0 .. 255 /\ {FALSE} \subseteq BOOLEAN
    BY SMTT(40) DEF NoAnswer
  <2> QED
    BY <2>1, <2>2 DEF CardType
<1>2. 0 \in 0 .. BLOCK_SZ
  BY CacheAssumption, SMTT(40)
<1>3. cells \in [Sectors -> Contents]
  BY BlankType DEF Init, SdInit
<1> QED
  BY <1>1, <1>2, <1>3, BlankType DEF Init, SdInit, IInv, Typed, InStep, ReadyWhenUsed, CleanMeansSaved

(* Every step of either specification keeps it.                            *)
LEMMA StepKeeps == IInv /\ [NextEither]_vars => IInv'
<1> SUFFICES ASSUME IInv, [NextEither]_vars PROVE IInv'
  OBVIOUS
<1>1. CASE Common
  BY <1>1, CommonKeeps
<1>2. CASE \E i \in -1 .. 1 : SeekCurrent(i)
  <2>1. PICK i \in -1 .. 1 : SeekCurrent(i)
    BY <1>2
  <2>2. stage = "idle" /\ block_id * BLOCK_SZ + pos + i \in Nat /\ SeekTo(block_id * BLOCK_SZ + pos + i)
    BY <2>1, SMTT(40) DEF SeekCurrent
  <2> QED
    BY <2>2, SeekKeeps
<1>3. CASE \E len \in Nat : Read(len) \/ Write(len)
  BY <1>3, ReadKeeps, WriteKeeps
<1>4. CASE UNCHANGED vars
  BY <1>4 DEF vars, sd, driver, cache, IInv, Typed, InStep, ReadyWhenUsed, CleanMeansSaved
<1> QED
  BY <1>1, <1>2, <1>3, <1>4, CacheAssumption, SMTT(40) DEF NextEither, Next, NextAny

(* Whatever the file system reads, writes and seeks to, and whatever the   *)
(* card answers, a buffer that is not marked modified agrees with the      *)
(* card: flush and seek, which then write nothing, lose no change.         *)
THEOREM NothingForgotten == SpecAny => []CleanMeansSaved
<1>1. IInv /\ [NextAny]_vars => IInv'
  BY StepKeeps DEF NextEither
<1>2. IInv => CleanMeansSaved
  BY DEF IInv
<1> QED
  BY InitEstablishes, <1>1, <1>2, PTL DEF SpecAny

(* The driver reads and writes sectors only with a card that is            *)
(* initialised and addresses whole sectors, however many commands of init  *)
(* were lost, repeated or answered by the end of an old transfer.          *)
THEOREM OnlyReadyCards == SpecAny => []ReadyWhenUsed
<1>1. IInv /\ [NextAny]_vars => IInv'
  BY StepKeeps DEF NextEither
<1>2. IInv => ReadyWhenUsed
  BY DEF IInv
<1> QED
  BY InitEstablishes, <1>1, <1>2, PTL DEF SpecAny

(* Both for the accesses that fatfs makes.                                 *)
THEOREM FatAccessesSafe == Spec => [](CleanMeansSaved /\ ReadyWhenUsed)
<1>1. IInv /\ [Next]_vars => IInv'
  BY StepKeeps DEF NextEither
<1>2. IInv => CleanMeansSaved /\ ReadyWhenUsed
  BY DEF IInv
<1> QED
  BY InitEstablishes, <1>1, <1>2, PTL DEF Spec
-----------------------------------------------------------------------------
(* The flat disk.                                                          *)

N == Cardinality(Sectors)

(* Sectors are numbered from 0.                                            *)
LEMMA SectorNumbers == N \in Nat /\ Sectors = 0 .. N - 1
BY CacheAssumption, FS_CardinalityType DEF N

(* A block has at least two bytes.                                         *)
LEMMA BlockSize == BLOCK_SZ \in Nat /\ BLOCK_SZ > 1
BY CacheAssumption, SMTT(40)

(* An address is a block number and an offset.                             *)
LEMMA Split ==
  ASSUME NEW a \in Nat
  PROVE  /\ a \div BLOCK_SZ \in Nat /\ a % BLOCK_SZ \in 0 .. BLOCK_SZ - 1
         /\ a = (a \div BLOCK_SZ) * BLOCK_SZ + (a % BLOCK_SZ)
<1>1. a \div BLOCK_SZ \in Nat
  BY BlockSize, SMTT(40)
<1>2. a % BLOCK_SZ \in 0 .. BLOCK_SZ - 1
  BY BlockSize, SMTT(40)
<1>3. a = (a \div BLOCK_SZ) * BLOCK_SZ + (a % BLOCK_SZ)
  BY BlockSize, SMTT(40)
<1> QED
  BY <1>1, <1>2, <1>3

(* Multiplication by the block size is monotonic.                          *)
LEMMA Scaled ==
  ASSUME NEW p \in Nat, NEW q \in Nat, p < q
  PROVE  p * BLOCK_SZ + BLOCK_SZ <= q * BLOCK_SZ
<1>1. PICK d \in Nat : q = p + 1 + d
  <2>1. q - p - 1 \in Nat /\ q = p + 1 + (q - p - 1)
    BY SMTT(40)
  <2> QED
    BY <2>1
<1>2. q * BLOCK_SZ = p * BLOCK_SZ + BLOCK_SZ + d * BLOCK_SZ
  BY <1>1, CacheAssumption, SMTT(40)
<1>3. d * BLOCK_SZ >= 0
  BY CacheAssumption, SMTT(40)
<1>4. q * BLOCK_SZ \in Int /\ p * BLOCK_SZ \in Int /\ d * BLOCK_SZ \in Int
  BY CacheAssumption, SMTT(40)
<1> QED
  BY <1>2, <1>3, <1>4, CacheAssumption, SMTT(40)

(* ... and no other number and offset make it up.                          *)
LEMMA SplitUnique ==
  ASSUME NEW q \in Nat, NEW o \in Offsets
  PROVE  (q * BLOCK_SZ + o) \div BLOCK_SZ = q /\ (q * BLOCK_SZ + o) % BLOCK_SZ = o
<1> DEFINE a == q * BLOCK_SZ + o
           k == a \div BLOCK_SZ
           m == a % BLOCK_SZ
<1>1. a \in Nat /\ o \in 0 .. BLOCK_SZ - 1
  BY CacheAssumption, SMTT(40) DEF Offsets
<1>2. k \in Nat /\ m \in 0 .. BLOCK_SZ - 1 /\ a = k * BLOCK_SZ + m
  BY <1>1, Split
<1>3. k * BLOCK_SZ \in Int /\ q * BLOCK_SZ \in Int /\ BLOCK_SZ \in Nat
  BY <1>2, CacheAssumption, SMTT(40)
<1>4. a = q * BLOCK_SZ + o
  OBVIOUS
<1> HIDE DEF a, k, m
<1>5. ~(k < q)
  BY <1>1, <1>2, <1>3, <1>4, Scaled, SMTT(40)
<1>6. ~(q < k)
  BY <1>1, <1>2, <1>3, <1>4, Scaled, SMTT(40)
<1>7. k = q
  BY <1>2, <1>5, <1>6, SMTT(40)
<1>8. m = o
  BY <1>1, <1>2, <1>3, <1>4, <1>7, SMTT(40)
<1> QED
  BY <1>7, <1>8 DEF a, k, m

(* An address of the disk is an offset in one of the card's sectors.       *)
LEMMA AddressSplit ==
  ASSUME NEW a \in 0 .. Capacity - 1
  PROVE  a \in Nat /\ a \div BLOCK_SZ \in Sectors /\ a % BLOCK_SZ \in Offsets
<1> DEFINE k == a \div BLOCK_SZ
           m == a % BLOCK_SZ
<1>1. N * BLOCK_SZ \in Nat /\ Capacity = N * BLOCK_SZ /\ a \in Nat /\ a < N * BLOCK_SZ
  BY SectorNumbers, BlockSize, SMTT(40) DEF N, Capacity
<1>2. k \in Nat /\ m \in 0 .. BLOCK_SZ - 1 /\ a = k * BLOCK_SZ + m
  BY <1>1, Split
<1> HIDE DEF k, m
<1>3. k * BLOCK_SZ \in Nat
  BY <1>2, BlockSize, SMTT(40)
<1>4. ~(N <= k)
  <2>1. CASE N = k
    BY <1>1, <1>2, <1>3, <2>1, BlockSize, SMTT(40)
  <2>2. CASE N < k
    BY <1>1, <1>2, <1>3, <2>2, BlockSize, Scaled, SectorNumbers, SMTT(40)
  <2> QED
    BY <1>2, <2>1, <2>2, SectorNumbers, SMTT(40)
<1> QED
  BY <1>1, <1>2, <1>4, SectorNumbers, SMTT(40) DEF k, m, Offsets

(* A place in a sector of the card, or its end, lies within the disk.      *)
LEMMA AddressJoin ==
  ASSUME NEW q \in Sectors, NEW n \in Nat, n <= BLOCK_SZ
  PROVE  q * BLOCK_SZ + n \in Nat /\ q * BLOCK_SZ + n <= Capacity
<1>1. q \in Nat /\ q < N
  BY SectorNumbers, SMTT(40)
<1>2. q * BLOCK_SZ + BLOCK_SZ <= N * BLOCK_SZ
  BY <1>1, SectorNumbers, Scaled
<1>3. q * BLOCK_SZ \in Nat /\ N * BLOCK_SZ \in Nat /\ Capacity = N * BLOCK_SZ
  BY <1>1, SectorNumbers, BlockSize, SMTT(40) DEF Capacity, N
<1> QED
  BY <1>2, <1>3, BlockSize, SMTT(40)
-----------------------------------------------------------------------------
(* Where the block in memory is, and where an operation is moving.         *)
Placed ==
  /\ sought \in BOOLEAN
  /\ stage \in {"off", "new", "fill"} => target = block_id
  /\ stage \in {"idle", "flush"} => block_id \in Sectors
  /\ stage = "fill" /\ at = "ready" => block_id \in Sectors

RInv == IInv /\ Placed

(* The cache starts placed on block 0.                                     *)
LEMMA PlacedInit == Init => Placed
BY DEF Init, Placed

(* Leaving a block moves the cache to the block it is to go to.            *)
LEMMA LeavePlaced ==
  ASSUME RInv, NEW b \in Nat, stage = "idle", Leave(b), sought' \in BOOLEAN
  PROVE  Placed'
BY DEF RInv, IInv, Placed, Leave, StartWrite, StartRead

(* Every step leaves the cache placed.                                     *)
LEMMA PlacedKept ==
  ASSUME RInv, Next
  PROVE  Placed'
<1> USE DEF RInv
<1>1. CASE New
  BY <1>1 DEF New, StartInit, Placed
<1>2. CASE NewFills
  BY <1>2 DEF NewFills, StartRead, Placed
<1>3. CASE Flush
  BY <1>3 DEF Flush, StartWrite, Placed, IInv, Typed
<1>4. CASE Flushed
  BY <1>4 DEF Flushed, StartRead, Placed, sd, driver
<1>5. CASE Filled
  BY <1>5 DEF Filled, Placed
<1>6. CASE Panic
  BY <1>6 DEF Panic, Forgotten, Placed
<1>7. CASE PowerCut
  BY <1>7 DEF PowerCut, Forgotten, Placed
<1>8. CASE Device
  <2>1. CASE ReadSector
    BY <1>8, <2>1 DEF Device, ReadSector, IInv, InStep, Placed, cache
  <2>2. CASE ~ReadSector
    <3>1. stage = "fill" => at \in {"CMD17", "ready", "err"}
      BY DEF IInv, InStep
    <3>2. stage = "fill" => FALSE
      BY <1>8, <2>2, <3>1 DEF Device, SdNext, Reset, CheckVoltage, AppCommand, Initiate, ReadOcr,
                              GetRegister, WriteSector, NoLongerBusy
    <3> QED
      BY <1>8, <3>2 DEF Device, Placed, cache
  <2> QED
    BY <2>1, <2>2
<1>9. CASE \E c \in Nat : stage = "idle" /\ SeekTo(c) /\ sought' \in BOOLEAN
  <2>1. PICK c \in Nat : stage = "idle" /\ SeekTo(c) /\ sought' \in BOOLEAN
    BY <1>9
  <2>2. c \div BLOCK_SZ \in Nat
    BY Split
  <2>3. CASE c \div BLOCK_SZ # block_id
    BY <2>1, <2>2, <2>3, LeavePlaced DEF SeekTo
  <2>4. CASE c \div BLOCK_SZ = block_id
    BY <2>1, <2>4 DEF SeekTo, Placed
  <2> QED
    BY <2>3, <2>4
<1>10. CASE \E len \in 1 .. BLOCK_SZ : Read(len)
  <2>1. PICK len \in 1 .. BLOCK_SZ : Read(len)
    BY <1>10
  <2>2. block_id + 1 \in Nat
    BY SMTT(40) DEF IInv, Typed
  <2>3. CASE pos + Transferred(len) = BLOCK_SZ - 1
    BY <2>1, <2>2, <2>3, LeavePlaced DEF Read
  <2>4. CASE pos + Transferred(len) # BLOCK_SZ - 1
    BY <2>1, <2>4 DEF Read, Placed
  <2> QED
    BY <2>3, <2>4
<1>11. CASE \E len \in 1 .. BLOCK_SZ : Write(len)
  <2>1. \A len \in 1 .. BLOCK_SZ : len # 0
    BY SMTT(40)
  <2> QED
    BY <1>11, <2>1 DEF Write, WriteMarking, Placed
<1>12. CASE OutOfBounds
  BY <1>12 DEF OutOfBounds, Forgotten, Placed
<1>13. CASE \E c \in 0 .. Capacity - 1 : SeekStart(c)
  BY <1>9, <1>13, SMTT(40) DEF SeekStart
<1>14. CASE \E i \in -1 .. 1 : SeekCurrent(i)
  <2>1. PICK i \in -1 .. 1 : SeekCurrent(i)
    BY <1>14
  <2> DEFINE c == block_id * BLOCK_SZ + pos + i
  <2>2. c \in Nat /\ stage = "idle" /\ SeekTo(c) /\ sought' \in BOOLEAN
    BY <2>1, SMTT(40) DEF SeekCurrent, Placed
  <2> HIDE DEF c
  <2> QED
    BY <1>9, <2>2
<1> QED
  BY <1>1, <1>2, <1>3, <1>4, <1>5, <1>6, <1>7, <1>8, <1>9, <1>10, <1>11, <1>12, <1>13, <1>14
  DEF Next, Common
-----------------------------------------------------------------------------
(* The disk as seen is the same when each block is.                        *)
LEMMA ImageSame ==
  ASSUME \A b \in Sectors : Block(b)' = Block(b)
  PROVE  Image' = Image
BY AddressSplit DEF Image

(* The disk as saved is the same when the card's cells are.                *)
LEMMA SavedSame ==
  ASSUME cells' = cells
  PROVE  Saved' = Saved
BY DEF Saved

(* Leaving a block does not show: unless it was modified, the card already *)
(* holds it.                                                               *)
LEMMA LeaveShows ==
  ASSUME RInv, NEW b \in Nat, stage = "idle", Leave(b), buf' = buf
  PROVE  Image' = Image /\ Saved' = Saved /\ Place' = b
<1>1. CASE modified
  <2>1. stage' = "flush" /\ block_id' = block_id /\ cells' = cells /\ target' = b
    BY <1>1 DEF Leave, StartWrite
  <2>2. \A k \in Sectors : Block(k)' = Block(k)
    BY <2>1 DEF Block, InMemory
  <2>3. Place' = b
    BY <2>1, SMTT(40) DEF Place, Nowhere
  <2> QED
    BY <2>1, <2>2, <2>3, ImageSame, SavedSame
<1>2. CASE ~modified
  <2>1. stage' = "fill" /\ cells' = cells /\ target' = b /\ buf = cells[block_id]
    BY <1>2 DEF Leave, StartRead, RInv, IInv, CleanMeansSaved
  <2>2. \A k \in Sectors : Block(k)' = Block(k)
    BY <2>1 DEF Block, InMemory
  <2>3. Place' = b
    BY <2>1, SMTT(40) DEF Place, Nowhere
  <2> QED
    BY <2>1, <2>2, <2>3, ImageSame, SavedSame
<1> QED
  BY <1>1, <1>2

(* A step that does not show.                                              *)
Unseen == Image' = Image /\ Saved' = Saved /\ Cursor' = Cursor /\ out' = out

(* A step of the driver or the card does not show, or saves the block that *)
(* is being flushed, and with it all the disk.                             *)
LEMMA DeviceShows ==
  ASSUME RInv, Device
  PROVE  Unseen \/ (Image' = Image /\ Saved' = Image /\ Cursor' = Cursor /\ out' = out)
<1>1. Cursor' = Cursor /\ out' = out
  BY DEF Device, cache, Cursor, Place
<1>2. CASE cells' = cells
  <2>1. \A b \in Sectors : Block(b)' = Block(b)
    BY <1>2 DEF Block, InMemory, Device, cache
  <2> QED
    BY <1>1, <1>2, <2>1, ImageSame, SavedSame DEF Unseen
<1>3. CASE cells' # cells
  <2>1. at = "CMD24" /\ cells' = [cells EXCEPT ![job.sector] = job.data]
    BY <1>3 DEF Device, SdNext, Reset, CheckVoltage, AppCommand, Initiate, ReadOcr, GetRegister,
                ReadSector, WriteSector, NoLongerBusy
  <2>2. stage = "flush" /\ job.sector = block_id /\ job.data = buf
    BY <2>1 DEF RInv, IInv, InStep
  <2>3. \A b \in Sectors : cells'[b] = Block(b) /\ Block(b)' = Block(b)
    BY <2>1, <2>2 DEF Block, InMemory, Device, cache, RInv, IInv, Typed
  <2>4. Saved' = Image
    BY <2>3, AddressSplit DEF Saved, Image
  <2> QED
    BY <1>1, <2>3, <2>4, ImageSame
<1> QED
  BY <1>2, <1>3

(* A seek moves the cursor to the place it names.                          *)
LEMMA SeekShows ==
  ASSUME RInv, NEW c \in 0 .. Capacity, stage = "idle", SeekTo(c), sought'
  PROVE  FD!Next
<1>1. /\ c \in Nat /\ c \div BLOCK_SZ \in Nat /\ c % BLOCK_SZ \in Nat
      /\ c = (c \div BLOCK_SZ) * BLOCK_SZ + (c % BLOCK_SZ)
  BY Split, BlockSize, SMTT(40)
<1>2. Image' = Image /\ Saved' = Saved /\ Place' = c \div BLOCK_SZ
  <2>1. CASE c \div BLOCK_SZ # block_id
    BY <1>1, <2>1, LeaveShows DEF SeekTo
  <2>2. CASE c \div BLOCK_SZ = block_id
    <3>1. UNCHANGED <<sd, block_id, stage, buf>>
      BY <2>2 DEF SeekTo
    <3>2. \A b \in Sectors : Block(b)' = Block(b)
      BY <3>1 DEF Block, InMemory, sd
    <3> QED
      BY <2>2, <3>1, <3>2, ImageSame, SavedSame DEF Place, sd
  <2> QED
    BY <2>1, <2>2
<1>3. Cursor' = c
  BY <1>1, <1>2, SMTT(40) DEF Cursor, SeekTo
<1>4. FD!Seek(c)
  BY <1>2, <1>3 DEF FD!Seek, SeekTo
<1> QED
  BY <1>4 DEF FD!Next

(* In the block in memory, the cursor and the next offsets.                *)
LEMMA CursorAddresses ==
  ASSUME RInv, stage = "idle", sought, NEW n \in Nat, pos + n <= BLOCK_SZ
  PROVE  /\ Cursor = block_id * BLOCK_SZ + pos /\ Cursor \in Nat /\ Cursor + n <= Capacity
         /\ block_id \in Nat /\ block_id \in Sectors /\ pos \in Nat
         /\ \A o \in pos .. pos + n - 1 :
              /\ o \in Offsets /\ block_id * BLOCK_SZ + o \in 0 .. Capacity - 1
              /\ (block_id * BLOCK_SZ + o) \div BLOCK_SZ = block_id
              /\ (block_id * BLOCK_SZ + o) % BLOCK_SZ = o
<1>1. block_id \in Nat /\ block_id \in Sectors /\ pos \in Nat /\ pos <= BLOCK_SZ
  BY BlockSize, SMTT(40) DEF RInv, IInv, Typed, Placed
<1>2. block_id * BLOCK_SZ \in Nat /\ Capacity \in Nat
  BY <1>1, BlockSize, SectorNumbers, SMTT(40) DEF Capacity, N
<1>3. Cursor = block_id * BLOCK_SZ + pos
  BY <1>1, <1>2, SMTT(40) DEF Cursor, Place
<1>4. Cursor + n <= Capacity
  <2>1. pos + n \in Nat
    BY <1>1, SMTT(40)
  <2>2. block_id * BLOCK_SZ + (pos + n) <= Capacity
    BY <1>1, <2>1, AddressJoin
  <2> QED
    BY <1>1, <1>2, <1>3, <2>2, SMTT(40)
<1>5. ASSUME NEW o \in pos .. pos + n - 1
      PROVE  /\ o \in Offsets /\ block_id * BLOCK_SZ + o \in 0 .. Capacity - 1
             /\ (block_id * BLOCK_SZ + o) \div BLOCK_SZ = block_id
             /\ (block_id * BLOCK_SZ + o) % BLOCK_SZ = o
  <2>1. o \in Nat /\ o + 1 \in Nat /\ o + 1 <= BLOCK_SZ /\ o \in Offsets
    BY <1>1, BlockSize, SMTT(40) DEF Offsets
  <2>2. block_id * BLOCK_SZ + (o + 1) <= Capacity
    BY <1>1, <2>1, AddressJoin
  <2>3. block_id * BLOCK_SZ + o \in 0 .. Capacity - 1
    BY <1>2, <2>1, <2>2, SMTT(40)
  <2> QED
    BY <1>1, <2>1, <2>3, SplitUnique
<1> QED
  BY <1>1, <1>2, <1>3, <1>4, <1>5, SMTT(40)

(* A read that stays in the block returns what the disk holds.             *)
LEMMA ReadShows ==
  ASSUME RInv, NEW len \in 1 .. BLOCK_SZ, sought, pos + len <= BLOCK_SZ, Read(len)
  PROVE  FD!Next
<1>1. stage = "idle" /\ len \in Nat /\ Transferred(len) = len
  BY BlockSize, SMTT(40) DEF Read, Transferred, RInv, IInv, Typed
<1>2. /\ Cursor = block_id * BLOCK_SZ + pos /\ Cursor \in Nat /\ Cursor + len <= Capacity
      /\ block_id \in Nat /\ block_id \in Sectors /\ pos \in Nat
      /\ \A o \in pos .. pos + len - 1 :
           /\ o \in Offsets /\ block_id * BLOCK_SZ + o \in 0 .. Capacity - 1
           /\ (block_id * BLOCK_SZ + o) \div BLOCK_SZ = block_id
           /\ (block_id * BLOCK_SZ + o) % BLOCK_SZ = o
  BY <1>1, CursorAddresses
<1>3. block_id * BLOCK_SZ \in Nat
  BY <1>2, BlockSize, SMTT(40)
<1>4. out' = [i \in 1 .. len |-> Image[Cursor + i - 1]]
  <2>1. out' = [i \in 1 .. len |-> buf[pos + i - 1]]
    BY <1>1, SMTT(40) DEF Read
  <2>2. ASSUME NEW i \in 1 .. len
        PROVE  Image[Cursor + i - 1] = buf[pos + i - 1]
    <3> DEFINE o == pos + i - 1
    <3>1. o \in pos .. pos + len - 1 /\ Cursor + i - 1 = block_id * BLOCK_SZ + o
      BY <1>1, <1>2, <1>3, SMTT(40)
    <3> HIDE DEF o
    <3>2. Image[block_id * BLOCK_SZ + o] = Block(block_id)[o]
      BY <1>2, <3>1 DEF Image
    <3> QED
      BY <1>1, <3>1, <3>2 DEF Block, InMemory, o
  <2> QED
    BY <2>1, <2>2
<1>5. Image' = Image /\ Saved' = Saved /\ Cursor' = Cursor + len
  <2>1. CASE pos + len = BLOCK_SZ - 1
    <3>1. Leave(block_id + 1) /\ pos' = 0 /\ ~sought' /\ buf' = buf /\ block_id + 1 \in Nat
      BY <1>1, <1>2, <2>1, SMTT(40) DEF Read
    <3>2. Image' = Image /\ Saved' = Saved /\ Place' = block_id + 1
      BY <1>1, <3>1, LeaveShows
    <3>3. (block_id + 1) * BLOCK_SZ = block_id * BLOCK_SZ + BLOCK_SZ
      BY <1>2, BlockSize, SMTT(40)
    <3> QED
      BY <1>1, <1>2, <1>3, <2>1, <3>1, <3>2, <3>3, BlockSize, SMTT(40) DEF Cursor
  <2>2. CASE pos + len # BLOCK_SZ - 1
    <3>1. pos' = pos + len /\ UNCHANGED <<sd, block_id, stage, sought, buf>>
      BY <1>1, <2>2 DEF Read
    <3>2. \A b \in Sectors : Block(b)' = Block(b)
      BY <3>1 DEF Block, InMemory, sd
    <3>3. Cursor' = block_id * BLOCK_SZ + (pos + len)
      BY <1>1, <1>2, <1>3, <3>1, SMTT(40) DEF Cursor, Place
    <3> QED
      BY <1>1, <1>2, <1>3, <3>1, <3>2, <3>3, ImageSame, SavedSame, SMTT(40) DEF sd
  <2> QED
    BY <2>1, <2>2
<1>6. FD!Read(len)
  BY <1>2, <1>4, <1>5 DEF FD!Read
<1> QED
  BY <1>6 DEF FD!Next

(* A write that stays in the block changes the bytes from the cursor on    *)
(* and leaves all others alone.                                            *)
LEMMA WriteShows ==
  ASSUME RInv, NEW len \in 1 .. BLOCK_SZ, sought, pos + len <= BLOCK_SZ, Write(len)
  PROVE  FD!Next
<1>1. stage = "idle" /\ len \in Nat /\ Transferred(len) = len
  BY BlockSize, SMTT(40) DEF Write, WriteMarking, Transferred, RInv, IInv, Typed
<1>2. /\ Cursor = block_id * BLOCK_SZ + pos /\ Cursor \in Nat /\ Cursor + len <= Capacity
      /\ block_id \in Nat /\ block_id \in Sectors /\ pos \in Nat
      /\ \A o \in pos .. pos + len - 1 :
           /\ o \in Offsets /\ block_id * BLOCK_SZ + o \in 0 .. Capacity - 1
           /\ (block_id * BLOCK_SZ + o) \div BLOCK_SZ = block_id
           /\ (block_id * BLOCK_SZ + o) % BLOCK_SZ = o
  BY <1>1, CursorAddresses
<1>3. block_id * BLOCK_SZ \in Nat
  BY <1>2, BlockSize, SMTT(40)
<1>4. PICK bytes \in [1 .. len -> Bytes] :
        buf' = [o \in Offsets |-> IF o \in pos .. pos + len - 1 THEN bytes[o - pos + 1] ELSE buf[o]]
  BY <1>1 DEF Write, WriteMarking
<1>5. /\ pos' = pos + len /\ cells' = cells /\ block_id' = block_id
      /\ stage' = "idle" \/ (stage' = "flush" /\ target' = Nowhere)
      /\ sought' = sought /\ out' = <<>>
  <2>1. len # 0
    BY SMTT(40)
  <2>2. CASE pos + len # BLOCK_SZ - 1
    <3>1. /\ pos' = pos + len /\ cells' = cells /\ block_id' = block_id /\ stage' = stage
          /\ sought' = sought /\ out' = <<>>
      BY <1>1, <2>2 DEF Write, WriteMarking, sd
    <3> QED
      BY <1>1, <3>1
  <2>3. CASE pos + len = BLOCK_SZ - 1
    BY <1>1, <2>1, <2>3 DEF Write, WriteMarking, StartWrite
  <2> QED
    BY <2>2, <2>3
<1>6. Cursor' = Cursor + len /\ Saved' = Saved
  <2>1. Cursor' = block_id * BLOCK_SZ + (pos + len)
    BY <1>1, <1>2, <1>3, <1>5, SMTT(40) DEF Cursor, Place
  <2> QED
    BY <1>1, <1>2, <1>3, <1>5, <2>1, SavedSame, SMTT(40)
<1> DEFINE new == [j \in 0 .. len - 1 |-> bytes[j + 1]]
           Changed(a) == IF a \in Cursor .. Cursor + len - 1 THEN new[a - Cursor] ELSE Image[a]
<1>7. new \in [0 .. len - 1 -> Bytes]
  BY <1>1, SMTT(40)
<1>8. ASSUME NEW a \in 0 .. Capacity - 1
      PROVE  Image'[a] = Changed(a)
  <2> DEFINE k == a \div BLOCK_SZ
             m == a % BLOCK_SZ
  <2>1. k \in Sectors /\ m \in Offsets /\ a \in Nat /\ k \in Nat /\ a = k * BLOCK_SZ + m
    BY AddressSplit, Split
  <2>2. Image'[a] = Block(k)'[m] /\ Image[a] = Block(k)[m]
    BY DEF Image
  <2>3. m \in Nat /\ m < BLOCK_SZ
    BY <2>1, BlockSize, SMTT(40) DEF Offsets
  <2>4. k = a \div BLOCK_SZ
    OBVIOUS
  <2> HIDE DEF k, m, new
  <2>5. CASE a \in Cursor .. Cursor + len - 1
    <3> DEFINE o == a - block_id * BLOCK_SZ
    <3>1. o \in pos .. pos + len - 1 /\ a = block_id * BLOCK_SZ + o /\ o - pos = a - Cursor
      <4> DEFINE base == block_id * BLOCK_SZ
      <4>1. base \in Nat /\ Cursor = base + pos /\ o = a - base
        BY <1>2, <1>3
      <4>2. a \in Nat /\ len \in Nat /\ pos \in Nat /\ a >= Cursor /\ a <= Cursor + len - 1
        BY <1>1, <1>2, <2>1, <2>5, SMTT(40)
      <4>3. a = base + o
        BY <4>1, <4>2, SMTT(40)
      <4> HIDE DEF base
      <4>4. o \in pos .. pos + len - 1 /\ o - pos = a - Cursor
        BY <4>1, <4>2, SMTT(40)
      <4> QED
        BY <4>3, <4>4 DEF base
    <3>2. k = block_id /\ m = o /\ o \in Offsets
      <4> HIDE DEF o
      <4> QED
        BY <1>2, <3>1 DEF k, m
    <3>3. Image'[a] = buf'[o]
      BY <1>1, <1>5, <2>2, <3>2 DEF Block, InMemory
    <3>4. buf'[o] = bytes[o - pos + 1]
      <4> HIDE DEF o
      <4> QED
        BY <1>4, <3>1, <3>2
    <3>5. new[a - Cursor] = bytes[o - pos + 1]
      <4>1. a - Cursor \in 0 .. len - 1
        BY <1>1, <1>2, <2>1, <2>5, SMTT(40)
      <4> QED
        BY <3>1, <4>1 DEF new
    <3> QED
      BY <2>5, <3>3, <3>4, <3>5
  <2>6. CASE a \notin Cursor .. Cursor + len - 1
    <3>1. CASE k # block_id
      BY <1>5, <2>2, <2>6, <3>1 DEF Block, InMemory
    <3>2. CASE k = block_id
      <4>1. m \notin pos .. pos + len - 1
        BY <1>1, <1>2, <1>3, <2>1, <2>3, <2>6, <3>2, SMTT(40)
      <4>2. buf'[m] = buf[m]
        BY <1>4, <2>1, <4>1
      <4> QED
        BY <1>1, <1>5, <2>2, <2>6, <3>2, <4>2 DEF Block, InMemory
    <3> QED
      BY <3>1, <3>2
  <2> QED
    BY <2>5, <2>6
<1>9. Image' = [a \in 0 .. Capacity - 1 |-> Changed(a)]
  <2> HIDE DEF Changed
  <2>1. Image' = [a \in 0 .. Capacity - 1 |-> Image'[a]]
    BY DEF Image
  <2> QED
    BY <1>8, <2>1
<1>10. FD!OneBlockUnsaved'
  <2>1. ASSUME NEW a \in 0 .. Capacity - 1, Image'[a] # Saved'[a]
        PROVE  a \div BLOCK_SZ = block_id
    BY <1>5, <2>1 DEF Image, Saved, Block, InMemory
  <2> QED
    BY <2>1 DEF FD!OneBlockUnsaved, FD!Addresses
<1>11. \E b \in [0 .. len - 1 -> Bytes] :
         Image' = [a \in 0 .. Capacity - 1 |->
                     IF a \in Cursor .. Cursor + len - 1 THEN b[a - Cursor] ELSE Image[a]]
  <2> HIDE DEF new
  <2> QED
    BY <1>7, <1>9
<1>12. FD!Write(len)
  BY <1>2, <1>5, <1>6, <1>10, <1>11 DEF FD!Write, FD!Addresses
<1> QED
  BY <1>12 DEF FD!Next

(* The steps of the cache between the calls do not show.                   *)
LEMMA InsideUnseen ==
  ASSUME RInv, New \/ NewFills \/ Flush \/ Flushed \/ Filled
  PROVE  Unseen
<1> USE DEF RInv
<1>1. cells' = cells /\ pos' = pos /\ sought' = sought /\ out' = out
  BY DEF New, NewFills, Flush, Flushed, Filled, StartInit, StartRead, StartWrite, sd
<1>2. Place' = Place
  BY DEF New, NewFills, Flush, Flushed, Filled, Place, Nowhere, Placed, IInv, Typed
<1>3. \A b \in Sectors : Block(b)' = Block(b)
  <2>1. CASE New \/ NewFills
    BY <1>1, <2>1 DEF New, NewFills, Block, InMemory
  <2>2. CASE Flush
    BY <1>1, <2>2 DEF Flush, Block, InMemory
  <2>3. CASE Flushed
    <3>1. cells[block_id] = buf
      BY <2>3 DEF Flushed, IInv, InStep
    <3> QED
      BY <1>1, <2>3, <3>1 DEF Flushed, Block, InMemory
  <2>4. CASE Filled
    <3>1. chunk = cells[block_id]
      BY <2>4 DEF Filled, IInv, InStep
    <3> QED
      BY <1>1, <2>4, <3>1 DEF Filled, Block, InMemory
  <2> QED
    BY <2>1, <2>2, <2>3, <2>4
<1> QED
  BY <1>1, <1>2, <1>3, ImageSame, SavedSame DEF Unseen, Cursor

(* A stop of the machine leaves what the card holds.                       *)
LEMMA StopShows ==
  ASSUME Panic \/ OutOfBounds \/ PowerCut
  PROVE  FD!Next
<1>1. cells' = cells /\ Forgotten /\ stage' \in {"off", "panic"}
  BY DEF Panic, OutOfBounds, PowerCut, SdStops, sd
<1>2. Cursor' = 0
  BY <1>1, BlockSize, SMTT(40) DEF Cursor, Place, Forgotten
<1>3. Image' = Saved /\ Saved' = Saved
  BY <1>1 DEF Image, Saved, Block, InMemory
<1>4. FD!PowerCut
  BY <1>1, <1>2, <1>3 DEF FD!PowerCut, Forgotten
<1> QED
  BY <1>4 DEF FD!Next
-----------------------------------------------------------------------------
(* The initial states are those of a flat disk.                            *)
LEMMA InitShows == Init => FD!Init
<1> SUFFICES ASSUME Init PROVE FD!Init
  OBVIOUS
<1>1. cells \in [Sectors -> Contents]
  BY BlankType DEF Init, SdInit
<1>2. \A a \in 0 .. Capacity - 1 : cells[a \div BLOCK_SZ][a % BLOCK_SZ] \in Bytes
  BY <1>1, AddressSplit, CacheAssumption DEF Offsets
<1>3. Saved \in [0 .. Capacity - 1 -> Bytes]
  BY <1>2 DEF Saved
<1>4. Image = Saved
  BY DEF Image, Saved, Block, InMemory, Init
<1>5. Cursor = 0
  BY BlockSize, SMTT(40) DEF Cursor, Place, Init
<1> QED
  BY <1>3, <1>4, <1>5 DEF FD!Init, FD!Addresses, Init

(* Every step of the cache or the card is a step of the flat disk, or does *)
(* not show.                                                               *)
LEMMA StepShows ==
  ASSUME RInv, Next
  PROVE  FD!Next \/ UNCHANGED FD!vars
<1>1. CASE New \/ NewFills \/ Flush \/ Flushed \/ Filled
  BY <1>1, InsideUnseen DEF Unseen, FD!vars
<1>2. CASE Panic \/ OutOfBounds \/ PowerCut
  BY <1>2, StopShows
<1>3. CASE Device
  BY <1>3, DeviceShows DEF Unseen, FD!vars, FD!Next, FD!Save
<1>4. CASE \E c \in 0 .. Capacity - 1 : SeekStart(c)
  <2>1. PICK c \in 0 .. Capacity - 1 : SeekStart(c)
    BY <1>4
  <2>2. c \in 0 .. Capacity
    BY SectorNumbers, BlockSize, SMTT(40) DEF Capacity, N
  <2> QED
    BY <2>1, <2>2, SeekShows DEF SeekStart
<1>5. CASE \E i \in -1 .. 1 : SeekCurrent(i)
  <2>1. PICK i \in -1 .. 1 : SeekCurrent(i)
    BY <1>5
  <2> DEFINE c == block_id * BLOCK_SZ + pos + i
  <2>2. c \in 0 .. Capacity /\ stage = "idle" /\ SeekTo(c) /\ sought'
    BY <2>1 DEF SeekCurrent
  <2> HIDE DEF c
  <2> QED
    BY <2>2, SeekShows
<1>6. CASE \E len \in 1 .. BLOCK_SZ : sought /\ pos + len <= BLOCK_SZ /\ Read(len)
  BY <1>6, ReadShows
<1>7. CASE \E len \in 1 .. BLOCK_SZ :
             sought /\ pos + len <= BLOCK_SZ /\ Write(len)
  BY <1>7, WriteShows
<1> QED
  BY <1>1, <1>2, <1>3, <1>4, <1>5, <1>6, <1>7 DEF Next, Common

(* The block cache of drivers/block/mod.rs over the SD card implements a   *)
(* flat disk under the accesses fatfs makes: what is read is what was last *)
(* written there, whatever was flushed and fetched in between, and a power *)
(* cut or a failed command undoes changes of one block only.               *)
THEOREM CacheIsFlatDisk == Spec => ImplementsFlatDisk
<1>1. Init => RInv
  BY InitEstablishes, PlacedInit DEF RInv
<1>2. RInv /\ [Next]_vars => RInv'
  <2> SUFFICES ASSUME RInv, [Next]_vars PROVE RInv'
    OBVIOUS
  <2>1. CASE Next
    BY <2>1, StepKeeps, PlacedKept DEF RInv, NextEither
  <2>2. CASE UNCHANGED vars
    <3>1. IInv'
      BY <2>2, StepKeeps DEF RInv
    <3>2. Placed'
      BY <2>2 DEF RInv, Placed, vars, cache, sd, driver
    <3> QED
      BY <3>1, <3>2 DEF RInv
  <2> QED
    BY <2>1, <2>2
<1>3. RInv /\ [Next]_vars => [FD!Next]_(FD!vars)
  <2> SUFFICES ASSUME RInv, [Next]_vars PROVE FD!Next \/ UNCHANGED FD!vars
    OBVIOUS
  <2>1. CASE Next
    BY <2>1, StepShows
  <2>2. CASE UNCHANGED vars
    <3>1. cells' = cells /\ UNCHANGED cache
      BY <2>2 DEF vars, sd
    <3>2. \A b \in Sectors : Block(b)' = Block(b)
      BY <3>1 DEF Block, InMemory, cache
    <3>3. Cursor' = Cursor /\ out' = out
      BY <3>1 DEF Cursor, Place, cache
    <3> QED
      BY <3>1, <3>2, <3>3, ImageSame, SavedSame DEF FD!vars
  <2> QED
    BY <2>1, <2>2
<1> QED
  BY <1>1, <1>2, <1>3, InitShows, PTL DEF Spec, ImplementsFlatDisk, FD!Spec
=============================================================================
