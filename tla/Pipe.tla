-------------------------------- MODULE Pipe --------------------------------
(***************************************************************************)
(* Pipes among the threads of Tasks: the byte queue and its two ends in    *)
(* the processes' descriptor tables, Condvar and its queue of waiting      *)
(* threads, and ProcessInner's lock, which sys_read holds while it blocks. *)
(* Everything else that takes the lock of another process's inner, the     *)
(* activate of a switch and the exit of a child, spins while it is held.   *)
(***************************************************************************)
EXTENDS Tasks

CONSTANTS
  ReadLen,  \* the length of the buffers passed to read
  WriteLen, \* the length of the buffers passed to write
  MaxBytes  \* bound: the bytes written to one pipe

ASSUME PipeAssumption == ReadLen \in Nat \ {0} /\ WriteLen \in Nat \ {0} /\ MaxBytes \in Nat

VARIABLES
  rd,        \* the processes with the read end open
  wr,        \* the processes with the write end open
  data,      \* PipeRead::data; the i-th byte written is i
  sent,      \* the number of bytes written
  got,       \* history: the bytes read
  waitq,     \* Condvar::wait_queue
  locked,    \* the processes whose inner is locked by a suspended thread
  spinning   \* the hart spins on such a lock, with interrupts off
pipe == <<rd, wr, data, sent, got, waitq, locked, spinning>>
all == <<vars, pipe>>

PipeTypeOK ==
  /\ TypeOK
  /\ rd \subseteq Tids /\ wr \subseteq Tids /\ locked \subseteq Tids
  /\ data \in Seq(1 .. MaxBytes) /\ sent \in 0 .. MaxBytes
  /\ got \in Seq(1 .. MaxBytes)
  /\ waitq \in Seq(Tids \cup {None})
  /\ spinning \in BOOLEAN

PipeInit ==
  /\ Init
  /\ rd = {} /\ wr = {} /\ locked = {}
  /\ data = <<>> /\ sent = 0 /\ got = <<>>
  /\ waitq = <<>> /\ spinning = FALSE

Others == <<sie, cur, pool, next, proc, current, recycled, events, programs>>
-----------------------------------------------------------------------------
(* sys_pipe2 (bound: one pipe at a time).                                  *)
Pipe2 ==
  /\ Running("user") /\ rd = {} /\ wr = {}
  /\ rd' = {cur} /\ wr' = {cur}
  /\ data' = <<>> /\ sent' = 0 /\ got' = <<>> /\ waitq' = <<>>
  /\ UNCHANGED <<vars, locked, spinning>>

(* PipeRead::read with bytes in the queue.                                 *)
ReadFromBack ==  \* mutant: pop_back
  /\ Running("user") /\ cur \in rd /\ data # <<>>
  /\ data' = SubSeq(data, 1, Len(data) - 1)
  /\ got' = Append(got, data[Len(data)])
  /\ UNCHANGED <<vars, rd, wr, sent, waitq, locked, spinning>>
Read ==
  /\ Running("user") /\ cur \in rd /\ data # <<>>
  /\ LET n == IF Len(data) < ReadLen THEN Len(data) ELSE ReadLen
     IN /\ data' = SubSeq(data, n + 1, Len(data))
        /\ got' = got \o SubSeq(data, 1, n)
  /\ UNCHANGED <<vars, rd, wr, sent, waitq, locked, spinning>>

(* With none: Condvar::wait, and then 0 when there is no write end (the    *)
(* status stays), or a switch with ProcessInner's lock held.  The loop     *)
(* after that switch is never reached: schedule spins in activate first.   *)
(* (Bound: the queue, which a read at the end lengthens each time.)        *)
Waits == [thread EXCEPT ![cur].status = "Waiting"]
ReadEof ==
  /\ Running("user") /\ cur \in rd /\ data = <<>> /\ wr = {}
  /\ cur \notin Range(waitq) /\ Len(waitq) < MaxTid
  /\ thread' = Waits
  /\ waitq' = Append(waitq, cur)
  /\ UNCHANGED <<Others, rd, wr, data, sent, got, locked, spinning>>
ReadBlocks ==
  /\ Running("user") /\ cur \in rd /\ data = <<>> /\ wr # {}
  /\ thread' = [Waits EXCEPT ![cur].at = "read"]
  /\ waitq' = Append(waitq, cur)
  /\ locked' = locked \cup {cur}
  /\ cur' = Kernel /\ sie' = FALSE
  /\ UNCHANGED <<pool, next, proc, current, recycled, events, programs,
                 rd, wr, data, sent, got, spinning>>

(* PipeWrite::write while there is a read end: every byte is queued, and   *)
(* notify_all makes the waiting threads Ready that still exist.            *)
Notified(S) == [t \in Tids |->
  IF t \in S THEN [thread[t] EXCEPT !.status = "Ready"] ELSE thread[t]]
WriteNotifiesOne ==  \* mutant: notify_one
  /\ Running("user") /\ cur \in wr /\ rd # {} /\ sent + WriteLen <= MaxBytes
  /\ data' = data \o [i \in 1 .. WriteLen |-> sent + i]
  /\ sent' = sent + WriteLen
  /\ thread' = IF waitq = <<>> THEN thread ELSE Notified({Head(waitq)})
  /\ waitq' = IF waitq = <<>> THEN waitq ELSE Tail(waitq)
  /\ UNCHANGED <<Others, rd, wr, got, locked, spinning>>
Write ==
  /\ Running("user") /\ cur \in wr /\ rd # {} /\ sent + WriteLen <= MaxBytes
  /\ data' = data \o [i \in 1 .. WriteLen |-> sent + i]
  /\ sent' = sent + WriteLen
  /\ thread' = Notified(Range(waitq))
  /\ waitq' = <<>>
  /\ UNCHANGED <<Others, rd, wr, got, locked, spinning>>

(* sys_close.                                                              *)
CloseRead ==
  /\ Running("user") /\ cur \in rd
  /\ rd' = rd \ {cur}
  /\ UNCHANGED <<vars, wr, data, sent, got, waitq, locked, spinning>>
CloseWrite ==
  /\ Running("user") /\ cur \in wr
  /\ wr' = wr \ {cur}
  /\ UNCHANGED <<vars, rd, data, sent, got, waitq, locked, spinning>>
-----------------------------------------------------------------------------
(* A clone shares the parent's descriptors, and a process dropped with its *)
(* thread closes them; a Weak<Thread> in the queue upgrades no more.       *)
CloneShares ==
  /\ Clone
  /\ rd' = IF cur \in rd THEN rd \cup {NewTid} ELSE rd
  /\ wr' = IF cur \in wr THEN wr \cup {NewTid} ELSE wr
  /\ UNCHANGED <<data, sent, got, waitq, locked, spinning>>
DropCloses ==
  LET gone == {t \in Tids : thread'[t].at = "none"}
  IN /\ rd' = rd \ gone /\ wr' = wr \ gone
     /\ waitq' = [i \in DOMAIN waitq |-> IF waitq[i] \in gone THEN None ELSE waitq[i]]
     /\ UNCHANGED <<data, sent, got, locked, spinning>>

(* SpinLock::lock on an inner that a suspended reader holds: activate in   *)
(* schedule, and a child's exit.                                           *)
ActivateSpins ==
  /\ cur = Kernel /\ next = None /\ pool # <<>>
  /\ Head(pool) \in locked /\ thread[Head(pool)].status = "Ready"
ExitSpins == Running("user") /\ proc[cur].parent \in locked
Spin ==
  /\ ~spinning /\ (ActivateSpins \/ ExitSpins)
  /\ spinning' = TRUE
  /\ UNCHANGED <<vars, rd, wr, data, sent, got, waitq, locked>>

ScheduleStep ==
  /\ ~spinning /\ ~ActivateSpins
  /\ Schedule /\ DropCloses
ResumeStep == ~spinning /\ Resume /\ DropCloses
SyscallStep ==
  /\ ~spinning
  /\ SchedYield \/ (Exit /\ ~ExitSpins) \/ Register \/ \E pid \in Pids : Wait4(pid)
  /\ DropCloses
PipeCall ==
  /\ ~spinning
  /\ \/ Pipe2 \/ Read \/ ReadEof \/ ReadBlocks \/ Write
     \/ CloseRead \/ CloseWrite \/ CloneShares
TimerStep == ~spinning /\ Timer /\ UNCHANGED pipe
Stopped == (spinning \/ Shutdown) /\ UNCHANGED all

PipeNext ==
  ScheduleStep \/ ResumeStep \/ SyscallStep \/ PipeCall \/ Spin \/ TimerStep \/ Stopped

PipeSpec == PipeInit /\ [][PipeNext]_all

PipeFairness ==
  /\ WF_all(ScheduleStep \/ (ActivateSpins /\ Spin)) /\ WF_all(ResumeStep)
  /\ WF_all(~spinning /\ (\E S \in SUBSET events : Preempt(S)) /\ UNCHANGED pipe)
  /\ \A t \in Tids : SF_all(~spinning /\ Fires(t) /\ UNCHANGED pipe)
PipeFairSpec == PipeSpec /\ PipeFairness
-----------------------------------------------------------------------------
(* The readers together get the bytes written, in order, each once.        *)
PipeFifo == got \o data = [i \in 1 .. sent |-> i]

(* A reader that sleeps is in the condition variable's queue and the pipe  *)
(* is empty: no byte arrives between its look and its sleep, and a second  *)
(* reader cannot leave it behind with data.                                *)
ReaderWillWake ==
  \A t \in Tids : thread[t].at = "read" /\ thread[t].status = "Waiting" =>
    t \in Range(waitq) /\ data = <<>>

(* condvar.rs:10-11: a thread is blocked while it waits for an event; a    *)
(* read of a pipe comes back once there are bytes for it.                  *)
BlockedReadReturns ==
  \A t \in Tids : thread[t].at = "read" /\ data # <<>> ~> thread[t].at # "read"

(* pipe.rs:88: when there is no write end, read returns 0.                 *)
EofReturns ==
  \A t \in Tids : thread[t].at = "read" /\ wr = {} ~> thread[t].at # "read"

(* sys_wait4's comment: the scheduler looks at the status, and a thread is *)
(* put to sleep by it; so a thread in user code, which is not asleep, is   *)
(* Ready, or it never runs again once preempted.                           *)
UserIsReady == \A t \in Tids : thread[t].at = "user" => thread[t].status = "Ready"
=============================================================================
