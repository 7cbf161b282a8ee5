------------------------------- MODULE SdCard -------------------------------
(***************************************************************************)
(* The SD card driver of kernel/src/drivers/block/sdcard.rs and the card   *)
(* at the other end of the SPI bus.  One step is one command: send_cmd,    *)
(* what get_response makes of the card's answer, and end_cmd, which        *)
(* deselects the card and so discards what it has not sent.  The card may  *)
(* leave any command unanswered, and carry it out or not.  A card that was *)
(* in use before a restart has not been powered down: it is still ready,   *)
(* and may still be sending data.                                          *)
(***************************************************************************)
EXTENDS Integers, Sequences

CONSTANTS
  Sectors,   \* the sectors of the card
  Contents,  \* the contents of a sector
  Tries      \* the 255 of init's two loops

ASSUME CardAssumption == Tries \in Nat \ {0} /\ Sectors \subseteq Nat /\ Contents # {}

VARIABLES
  card,   \* external: mode and capacity, CMD55 was last, the byte it still sends
  cells,  \* external: what the sectors hold
  at,     \* the command the driver sends next; "ready" between calls, "err" after Err
  index,  \* init's countdown
  job,    \* the sector and data of the call
  chunk   \* the data_buf of read_sector
driver == <<at, index, job, chunk>>
sd == <<card, cells, driver>>

NoAnswer == 255
StartBlock == 254  \* SD_START_DATA_SINGLE_BLOCK_READ

Blank == CHOOSE x \in Contents : TRUE
NoJob == [sector |-> 0, data |-> Blank]

Steps == {"off", "CMD0", "CMD8", "CMD55", "ACMD41", "CMD58", "CMD9", "CMD10", "ready",
          "CMD17", "CMD24", "busy", "err"}

SdTypeOK ==
  /\ card \in [mode : {"off", "idle", "ready"}, hc : BOOLEAN, app : BOOLEAN, sends : 0 .. 255]
  /\ cells \in [Sectors -> Contents]
  /\ at \in Steps /\ index \in 0 .. Tries
  /\ job \in [sector : Nat, data : Contents] /\ chunk \in Contents

(* A blank card, cold or left ready by an earlier run of the kernel.       *)
SdInit ==
  /\ card \in [mode : {"off", "ready"}, hc : BOOLEAN, app : {FALSE}, sends : {NoAnswer}]
  /\ cells = [s \in Sectors |-> Blank]
  /\ at = "off" /\ index = 0 /\ chunk = Blank /\ job = NoJob

-----------------------------------------------------------------------------
(* The card.  R1 is 1 in the idle state and 0 afterwards, and an error     *)
(* sets other bits.                                                        *)
R1(c) == IF c.mode = "idle" THEN 1 ELSE 0
Illegal(c) == R1(c) + 4

(* A card that sends nothing, and one that was not just told CMD55.        *)
Quiet(c) == [c EXCEPT !.sends = NoAnswer]
Plain(c) == [Quiet(c) EXCEPT !.app = FALSE]

(* The state the card goes to and the R1 it answers with.                  *)
Carries(cmd) ==
  LET plain == Plain(card)
      To(mode) == [plain EXCEPT !.mode = mode]
  IN CASE cmd = "CMD0" -> {[c |-> To("idle"), r |-> 1]}
       [] cmd = "CMD8" -> {[c |-> plain, r |-> R1(card)], [c |-> plain, r |-> Illegal(card)]}
       [] cmd = "CMD55" -> {[c |-> [plain EXCEPT !.app = TRUE], r |-> R1(card)]}
       [] cmd = "ACMD41" /\ card.app -> {[c |-> To(m), r |-> R1(To(m))] : m \in {card.mode, "ready"}}
       [] cmd = "ACMD41" /\ ~card.app -> {[c |-> plain, r |-> Illegal(card)]}
       [] cmd = "CMD58" -> {[c |-> plain, r |-> R1(card)]}
       [] OTHER -> {[c |-> plain, r |-> IF card.mode = "ready" THEN 0 ELSE Illegal(card)]}

(* send_cmd, get_response and end_cmd: the card and the driver's result.   *)
(* A card in mid-transfer takes no notice of a command.                    *)
Exchanges(cmd) ==
  IF card.sends # NoAnswer
  THEN {[c |-> Quiet(card), r |-> card.sends]}
  ELSE Carries(cmd) \cup {[c |-> x.c, r |-> NoAnswer] : x \in Carries(cmd)}
                    \cup {[c |-> card, r |-> NoAnswer]}

(* The CCS bit of the OCR, which counts once the card is ready.            *)
CapacityBit(c) == c.hc /\ c.mode = "ready"
-----------------------------------------------------------------------------
(* init, up to the reply to CMD0.                                          *)
Reset ==
  /\ at = "CMD0"
  /\ \E x \in Exchanges("CMD0") :
       card' = x.c /\ at' = IF x.r = 1 THEN "CMD8" ELSE "err"
  /\ UNCHANGED <<cells, index, job, chunk>>

CheckVoltage ==
  /\ at = "CMD8"
  /\ \E x \in Exchanges("CMD8") :
       card' = x.c /\ at' = IF x.r = 1 THEN "CMD55" ELSE "err"
  /\ index' = Tries
  /\ UNCHANGED <<cells, job, chunk>>

(* The first loop: CMD55 and ACMD41 until the card says that it is ready.  *)
AppCommand ==
  /\ at = "CMD55"
  /\ \E x \in Exchanges("CMD55") :
       card' = x.c /\ at' = IF x.r = 1 THEN "ACMD41" ELSE "err"
  /\ UNCHANGED <<cells, index, job, chunk>>

InitiateForever ==  \* mutant: index is not decremented
  /\ at = "ACMD41"
  /\ \E x \in Exchanges("ACMD41") :
       card' = x.c /\ at' = IF x.r = 0 THEN "CMD58" ELSE "CMD55"
  /\ UNCHANGED <<cells, index, job, chunk>>
Initiate ==
  /\ at = "ACMD41"
  /\ \E x \in Exchanges("ACMD41") :
       /\ card' = x.c
       /\ at' = IF x.r = 0 THEN "CMD58" ELSE IF index = 1 THEN "err" ELSE "CMD55"
       /\ index' = IF x.r = 0 THEN Tries ELSE index - 1
  /\ UNCHANGED <<cells, job, chunk>>

(* The second loop: CMD58 until it is answered, then the capacity bit.     *)
ReadOcrOnce ==  \* mutant: the capacity bit is looked at in the first frame, answered or not
  /\ at = "CMD58"
  /\ \E x \in Exchanges("CMD58") :
       card' = x.c /\ at' = IF x.r = NoAnswer \/ CapacityBit(x.c) THEN "CMD9" ELSE "err"
  /\ index' = 0 /\ UNCHANGED <<cells, job, chunk>>
ReadOcr ==
  /\ at = "CMD58"
  /\ \E x \in Exchanges("CMD58") :
       /\ card' = x.c
       /\ at' = IF x.r = 0 THEN (IF CapacityBit(x.c) THEN "CMD9" ELSE "err")
                ELSE IF index = 1 THEN "err" ELSE "CMD58"
       /\ index' = IF x.r = 0 THEN 0 ELSE index - 1
  /\ UNCHANGED <<cells, job, chunk>>

(* get_cardinfo: get_csdregister and get_cidregister, each R1 and then the *)
(* start token, which the card may fail to send.                           *)
GetRegister ==
  /\ at \in {"CMD9", "CMD10"}
  /\ \E x \in Exchanges(at), token \in {StartBlock, NoAnswer} :
       /\ card' = x.c
       /\ at' = IF x.r = 0 /\ token = StartBlock
                THEN (IF at = "CMD9" THEN "CMD10" ELSE "ready") ELSE "err"
  /\ UNCHANGED <<cells, index, job, chunk>>
-----------------------------------------------------------------------------
(* SDCardWrapper::read_block and write_block, as called by the cache.      *)
StartInit == at' = "CMD0" /\ UNCHANGED <<card, cells, index, job, chunk>>
StartRead(s) ==
  at = "ready" /\ at' = "CMD17" /\ job' = [NoJob EXCEPT !.sector = s]
  /\ UNCHANGED <<card, cells, index, chunk>>
StartWrite(s, x) ==
  at = "ready" /\ at' = "CMD24" /\ job' = [sector |-> s, data |-> x]
  /\ UNCHANGED <<card, cells, index, chunk>>

(* read_sector of one sector.  The CRC is read and ignored.                *)
ReadSector ==
  /\ at = "CMD17"
  /\ \E x \in Exchanges("CMD17"), token \in {StartBlock, NoAnswer} :
       /\ card' = x.c
       /\ IF x.r = 0 /\ job.sector \in Sectors /\ token = StartBlock
          THEN at' = "ready" /\ chunk' = cells[job.sector]
          ELSE at' = "err" /\ chunk' = chunk
  /\ job' = NoJob /\ UNCHANGED <<cells, index>>

(* write_sector of one sector.  After R1 the data follows; the card says   *)
(* at once whether it has taken it, and is then busy; that response can be *)
(* lost too.                                                               *)
WriteSector ==
  /\ at = "CMD24"
  /\ \E x \in Exchanges("CMD24"), taken, accepted \in BOOLEAN :
       /\ card' = x.c
       /\ IF x.r = 0 /\ job.sector \in Sectors /\ taken
          THEN /\ at' = IF accepted THEN "busy" ELSE "err"
               /\ cells' = [cells EXCEPT ![job.sector] = job.data]
          ELSE at' = "err" /\ cells' = cells
  /\ job' = NoJob /\ UNCHANGED <<index, chunk>>

(* get_dataresponse's wait while the card holds the line low, and Ok.      *)
NoLongerBusy == at = "busy" /\ at' = "ready" /\ UNCHANGED <<card, cells, index, job, chunk>>

SdNext ==
  \/ Reset \/ CheckVoltage \/ AppCommand \/ Initiate \/ ReadOcr \/ GetRegister
  \/ ReadSector \/ WriteSector \/ NoLongerBusy

(* The power is cut or the machine restarts: the card keeps its sectors,   *)
(* and if only the machine restarts, its mode and its transfer.            *)
SdStops ==
  /\ at' = "off" /\ index' = 0 /\ job' = NoJob /\ chunk' = Blank /\ UNCHANGED cells
  /\ card' \in {[Plain(card) EXCEPT !.mode = "off"]}
               \cup {[card EXCEPT !.sends = b] : b \in IF at = "CMD17" THEN {1, 127} ELSE {NoAnswer}}
-----------------------------------------------------------------------------
(* The driver moves data only with a card that has finished its            *)
(* initialisation and addresses whole sectors, whatever of the             *)
(* initialisation went unanswered and whatever a card left over from       *)
(* before a restart was still sending.                                     *)
ReadyWhenUsed ==
  at \in {"CMD9", "CMD10", "ready", "CMD17", "CMD24", "busy"} => card.mode = "ready" /\ card.hc

(* Every call returns: init's retries are bounded, no read waits for ever, *)
(* and a write returns once the card is no longer busy.                    *)
DriverReturns ==
  LET Returned == at \in {"off", "ready", "err"} IN ~Returned ~> Returned
=============================================================================
