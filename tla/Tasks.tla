-------------------------------- MODULE Tasks -------------------------------
(***************************************************************************)
(* Threads, processes and the scheduler: the FIFO pool and the loop of the *)
(* schedule thread, the references that keep a Thread alive, tids and      *)
(* their reuse, clone, exit, wait4, sched_yield, nanosleep, and the timer  *)
(* that preempts user code and wakes sleepers.  A process has one thread,  *)
(* and its pid is the tid of that thread.                                  *)
(*                                                                         *)
(* The kernel is never preempted: a syscall runs until it switches, and a  *)
(* timer interrupt in it only runs the callbacks that are due.  So a       *)
(* syscall is one step up to its switch, cut where such an interrupt       *)
(* matters.  Memory, files and the contents of trap frames are elsewhere.  *)
(***************************************************************************)
EXTENDS Naturals, Sequences, FiniteSets, Functions

CONSTANTS
  MaxTid,    \* bound: the highest tid the model hands out
  MaxChildren,  \* bound: the children a process has not waited for
  Pids,      \* the pids passed to wait4, 0 for -1
  Programs,  \* the number of programs switch_to_schedule is given
  None       \* no thread, no argument

ASSUME TasksAssumption ==
  /\ MaxTid \in Nat \ {0} /\ MaxChildren \in Nat /\ Programs \in Nat
  /\ Pids \subseteq 0 .. MaxTid /\ None \notin Nat

Kernel == 0                \* the schedule thread, and the kernel process
Tids == 1 .. MaxTid
Any == Kernel              \* wait4's pid == -1: no child has the kernel's pid

VARIABLES
  cur,       \* the running thread
  sie,       \* sstatus.SIE while a thread runs in the kernel
  pool,      \* FifoScheduler::pool
  next,      \* schedule's next_thread
  thread,    \* per tid: ThreadInner::status; where the thread is; and the
             \* pid wait4 waits for or the new_thread that clone holds
  proc,      \* per tid: ProcessInner::parent, child_exited (the pids), and
             \* the number of wake_callbacks
  current,   \* TidAllocator::current
  recycled,  \* TidAllocator::recycled
  events,    \* the threads with a callback in TIMER
  programs   \* the programs schedule has still to start
vars == <<cur, sie, pool, next, thread, proc, current, recycled, events, programs>>

Status == {"Ready", "Waiting", "Zombie"}
(* In user code; after switch_to in clone; after yield_to_sched in wait4,  *)
(* in nanosleep and in a read of a pipe; nanosleep before status = Waiting.*)
Places == {"user", "clone", "wait", "sleep", "read", "register", "exit", "none"}

NoThread == [status |-> "Zombie", at |-> "none", arg |-> None]
NewThread == [status |-> "Ready", at |-> "user", arg |-> None]
NoProc == [parent |-> None, exited |-> <<>>, callbacks |-> 0]

TypeOK ==
  /\ cur \in Tids \cup {Kernel}
  /\ sie \in BOOLEAN
  /\ pool \in Seq(Tids)
  /\ next \in Tids \cup {None}
  /\ thread \in [Tids -> [status : Status, at : Places, arg : Tids \cup {Any, None}]]
  /\ proc \in [Tids -> [parent : Tids \cup {Kernel, None}, exited : Seq(Tids),
                        callbacks : Nat]]
  /\ current \in 1 .. MaxTid + 1
  /\ recycled \in Seq(Tids)
  /\ events \subseteq Tids
  /\ programs \in 0 .. Programs

Init ==
  /\ cur = Kernel /\ sie = FALSE
  /\ pool = <<>> /\ next = None
  /\ thread = [t \in Tids |-> NoThread]
  /\ proc = [t \in Tids |-> NoProc]
  /\ current = 1 /\ recycled = <<>>
  /\ events = {}
  /\ programs = Programs

Running(place) == cur \in Tids /\ thread[cur].at = place
-----------------------------------------------------------------------------
(* TidAllocator::alloc takes the tid recycled last.                        *)
NewTid == IF recycled = <<>> THEN current ELSE recycled[Len(recycled)]
AllocTidKept ==  \* mutant: the tid stays in the list
  /\ NewTid <= MaxTid
  /\ current' = IF recycled = <<>> THEN current + 1 ELSE current
  /\ UNCHANGED recycled
AllocTid ==
  /\ NewTid <= MaxTid
  /\ IF recycled = <<>>
     THEN current' = current + 1 /\ UNCHANGED recycled
     ELSE recycled' = SubSeq(recycled, 1, Len(recycled) - 1) /\ UNCHANGED current

(* The Arcs of a thread: in the pool, in schedule's loop, and in the       *)
(* sys_clone that made it.  (sys_exit's own is not counted: from_raw.)     *)
Arcs(p, n, th) == Range(p) \cup ({n} \ {None})
                    \cup {th[t].arg : t \in {u \in Tids : th[u].at = "clone"}}
Held == Arcs(pool, next, thread)

(* Thread::drop, Tid::drop and with them the process, when the Arc of t    *)
(* that this step drops is the last.  th and pr are what the step makes of *)
(* thread and proc.  A Weak to the process upgrades to nothing from now on.*)
Drop(t, th, pr) ==
  IF t \in Arcs(pool', next', th)
  THEN thread' = th /\ proc' = pr /\ UNCHANGED recycled
  ELSE /\ thread' = [th EXCEPT ![t] = NoThread]
       /\ proc' = [c \in Tids |->
            IF c = t THEN NoProc
            ELSE IF pr[c].parent = t THEN [pr[c] EXCEPT !.parent = None] ELSE pr[c]]
       /\ recycled' = Append(recycled, t)
-----------------------------------------------------------------------------
(* schedule: the end of the loop's body drops next_thread, get_next takes  *)
(* the head of the pool and puts it back at the tail, and a Ready thread   *)
(* is switched to.                                                         *)
DropNext ==
  /\ cur = Kernel /\ next # None
  /\ next' = None
  /\ UNCHANGED <<cur, sie, pool, current, events, programs>>
  /\ Drop(next, thread, proc)

GetNextUncloned ==  \* mutant: the pool's own Arc is all there is
  /\ cur = Kernel /\ next = None /\ pool # <<>>
  /\ LET t == Head(pool)
     IN /\ pool' = Append(Tail(pool), t)
        /\ cur' = IF thread[t].status = "Ready" THEN t ELSE Kernel
        /\ sie' = (sie \/ (thread[t].status = "Ready" /\ thread[t].at = "user"))
  /\ UNCHANGED <<next, thread, proc, current, recycled, events, programs>>
GetNextAtHead ==  \* mutant: the thread goes back to the head
  /\ cur = Kernel /\ next = None /\ pool # <<>>
  /\ LET t == Head(pool)
     IN /\ next' = t /\ UNCHANGED pool
        /\ cur' = IF thread[t].status = "Ready" THEN t ELSE Kernel
        /\ sie' = (sie \/ (thread[t].status = "Ready" /\ thread[t].at = "user"))
  /\ UNCHANGED <<thread, proc, current, recycled, events, programs>>
GetNext ==
  /\ cur = Kernel /\ next = None /\ pool # <<>>
  /\ LET t == Head(pool)
     IN /\ pool' = Append(Tail(pool), t)
        /\ next' = t
        /\ cur' = IF thread[t].status = "Ready" THEN t ELSE Kernel
        /\ sie' = (sie \/ (thread[t].status = "Ready" /\ thread[t].at = "user"))
  /\ UNCHANGED <<thread, proc, current, recycled, events, programs>>

(* Thread::new_thread for the next program, when get_next found nothing.   *)
NextProgram ==
  /\ cur = Kernel /\ next = None /\ pool = <<>> /\ programs > 0
  /\ AllocTid
  /\ pool' = <<NewTid>>
  /\ thread' = [thread EXCEPT ![NewTid] = NewThread]
  /\ proc' = [proc EXCEPT ![NewTid] = [NoProc EXCEPT !.parent = Kernel]]
  /\ programs' = programs - 1
  /\ UNCHANGED <<cur, sie, next, events>>

(* The program list is done: shutdown.                                     *)
Shutdown ==
  /\ cur = Kernel /\ next = None /\ pool = <<>> /\ programs = 0
  /\ UNCHANGED vars
-----------------------------------------------------------------------------
(* Timer::expire for the callbacks of S, each of which makes its thread    *)
(* Ready whatever it is doing.                                             *)
ExpireKeeps(S) ==  \* mutant: the callback stays registered
  /\ thread' = [t \in Tids |->
       IF t \in S THEN [thread[t] EXCEPT !.status = "Ready"] ELSE thread[t]]
  /\ UNCHANGED events
Expire(S) ==
  /\ thread' = [t \in Tids |->
       IF t \in S THEN [thread[t] EXCEPT !.status = "Ready"] ELSE thread[t]]
  /\ events' = events \ S

(* handle_trap for the timer, in the kernel and in user code: from user    *)
(* code it goes on to the scheduler, with interrupts off.                  *)
Tick(S) ==
  /\ sie /\ S # {} /\ (cur = Kernel \/ Running("register"))
  /\ Expire(S)
  /\ UNCHANGED <<cur, sie, pool, next, proc, current, recycled, programs>>
Preempt(S) ==
  /\ Running("user")
  /\ Expire(S)
  /\ cur' = Kernel /\ sie' = FALSE
  /\ UNCHANGED <<pool, next, proc, current, recycled, programs>>
-----------------------------------------------------------------------------
(* A syscall starts with interrupts on.  One resumed after a switch goes   *)
(* on with the SIE it finds, and a return to user code sets it.            *)
ToScheduler == cur' = Kernel
Return == sie' = TRUE /\ UNCHANGED cur
Returned == [thread EXCEPT ![cur] = [status |-> @.status, at |-> "user", arg |-> None]]

SchedYield ==
  /\ Running("user") /\ ToScheduler /\ sie' = TRUE
  /\ UNCHANGED <<pool, next, thread, proc, current, recycled, events, programs>>

Children == {t \in Tids : proc[t].parent = cur /\ thread[t].status # "Zombie"}
MayClone == Len(proc[cur].exited) + Cardinality(Children) < MaxChildren

(* sys_clone: the child runs first, straight to user code, and the parent  *)
(* holds new_thread until it runs again.                                   *)
Clone ==
  /\ Running("user") /\ MayClone /\ AllocTid
  /\ pool' = Append(pool, NewTid)
  /\ thread' = [[thread EXCEPT ![NewTid] = NewThread]
                   EXCEPT ![cur] = [status |-> "Ready", at |-> "clone", arg |-> NewTid]]
  /\ proc' = [proc EXCEPT ![NewTid] = [NoProc EXCEPT !.parent = cur]]
  /\ cur' = NewTid
  /\ UNCHANGED <<sie, next, events, programs>>
CloneReturn ==
  /\ Running("clone") /\ Return
  /\ UNCHANGED <<pool, next, current, events, programs>>
  /\ Drop(thread[cur].arg, Returned, proc)

(* FifoScheduler::remove_thread, which asserts that the pool has the       *)
(* thread once.                                                            *)
RemoveThread(p, t) ==
  LET i == CHOOSE j \in DOMAIN p : p[j] = t
  IN SubSeq(p, 1, i - 1) \o SubSeq(p, i + 1, Len(p))

(* sys_exit: leave the pool, tell the parent if its process still exists,  *)
(* pop one of its callbacks and run it.  (What the kernel process is told  *)
(* nobody reads.)                                                          *)
Reported(pr, p) ==
  [pr EXCEPT ![p] = [parent |-> @.parent, exited |-> Append(@.exited, cur),
                     callbacks |-> IF @.callbacks > 0 THEN @.callbacks - 1 ELSE 0]]
ExitUnwoken ==  \* mutant: the callback is popped but not called
  LET p == proc[cur].parent
      th == [thread EXCEPT ![cur] = [status |-> "Zombie", at |-> "exit", arg |-> None]]
  IN /\ Running("user") /\ ToScheduler /\ sie' = TRUE
     /\ pool' = RemoveThread(pool, cur)
     /\ UNCHANGED <<next, current, events, programs>>
     /\ Drop(cur, th, IF p \in Tids THEN Reported(proc, p) ELSE proc)
Exit ==
  LET p == proc[cur].parent
      woken == p \in Tids /\ proc[p].callbacks > 0
      th == [thread EXCEPT ![cur] = [status |-> "Zombie", at |-> "exit", arg |-> None]]
  IN /\ Running("user") /\ ToScheduler /\ sie' = TRUE
     /\ pool' = RemoveThread(pool, cur)
     /\ UNCHANGED <<next, current, events, programs>>
     /\ Drop(cur, IF woken THEN [th EXCEPT ![p].status = "Ready"] ELSE th,
             IF p \in Tids THEN Reported(proc, p) ELSE proc)

(* sys_wait4's loop: with pid = -1 the last of child_exited is taken, with *)
(* a pid all its entries; else a callback is pushed, and the thread waits. *)
Matches(pid, c) == pid \in {Any, c}
Remaining(s, pid) == IF pid = Any THEN SubSeq(s, 1, Len(s) - 1)
                     ELSE SelectSeq(s, LAMBDA c : c # pid)
Reap(pid) ==
  /\ \E i \in DOMAIN proc[cur].exited : Matches(pid, proc[cur].exited[i])
  /\ proc' = [proc EXCEPT ![cur].exited = Remaining(@, pid)]
  /\ thread' = Returned
  /\ Return
Block(pid) ==
  /\ ~ \E i \in DOMAIN proc[cur].exited : Matches(pid, proc[cur].exited[i])
  /\ proc' = [proc EXCEPT ![cur].callbacks = @ + 1]
  /\ thread' = [thread EXCEPT ![cur] = [status |-> "Waiting", at |-> "wait", arg |-> pid]]
  /\ ToScheduler
Wait4(pid) ==
  /\ Running("user")
  /\ Reap(pid) \/ (Block(pid) /\ sie' = TRUE)
  /\ UNCHANGED <<pool, next, current, recycled, events, programs>>
Wait4Loop ==
  /\ Running("wait")
  /\ Reap(thread[cur].arg) \/ (Block(thread[cur].arg) /\ UNCHANGED sie)
  /\ UNCHANGED <<pool, next, current, recycled, events, programs>>

(* sys_nanosleep: the callback is registered before the status is set.     *)
Register ==
  /\ Running("user") /\ sie' = TRUE
  /\ events' = events \cup {cur}
  /\ thread' = [thread EXCEPT ![cur].at = "register"]
  /\ UNCHANGED <<cur, pool, next, proc, current, recycled, programs>>
SleepMasked ==  \* mutant: the yield happens with a LockGuard alive
  /\ Running("register") /\ ToScheduler /\ sie' = FALSE
  /\ thread' = [thread EXCEPT ![cur] = [status |-> "Waiting", at |-> "sleep", arg |-> @.arg]]
  /\ UNCHANGED <<pool, next, proc, current, recycled, events, programs>>
Sleep ==
  /\ Running("register") /\ ToScheduler
  /\ thread' = [thread EXCEPT ![cur] = [status |-> "Waiting", at |-> "sleep", arg |-> @.arg]]
  /\ UNCHANGED <<sie, pool, next, proc, current, recycled, events, programs>>
SleepReturn ==
  /\ Running("sleep") /\ Return
  /\ thread' = [thread EXCEPT ![cur].at = "user"]
  /\ UNCHANGED <<pool, next, proc, current, recycled, events, programs>>
-----------------------------------------------------------------------------
Schedule == DropNext \/ GetNext \/ NextProgram
Resume == CloneReturn \/ Wait4Loop \/ Sleep \/ SleepReturn
Syscall ==
  \/ SchedYield \/ Clone \/ Exit \/ Register
  \/ \E pid \in Pids : Wait4(pid)
Timer == \E S \in SUBSET events : Tick(S) \/ Preempt(S)

Next == Schedule \/ Shutdown \/ Resume \/ Syscall \/ Timer
Spec == Init /\ [][Next]_vars

(* The kernel goes on, user code is interrupted, and a deadline passes: an *)
(* interrupt that is pending is taken as soon as the hart allows it.       *)
Fires(t) == \E S \in SUBSET events : t \in S /\ (Tick(S) \/ Preempt(S))
Fairness ==
  /\ WF_vars(Schedule) /\ WF_vars(Resume)
  /\ WF_vars(\E S \in SUBSET events : Preempt(S))
  /\ \A t \in Tids : SF_vars(Fires(t))
FairSpec == Spec /\ Fairness
-----------------------------------------------------------------------------
(* Every tid handed out is in use by one thread that something still       *)
(* holds, or recycled once: none is used twice and none is lost, and the   *)
(* asserts of TidAllocator::dealloc hold.                                  *)
TidAccounting ==
  /\ \A i, j \in DOMAIN recycled : i # j => recycled[i] # recycled[j]
  /\ Held \cap Range(recycled) = {}
  /\ Held \cup Range(recycled) = 1 .. current - 1
  /\ \A t \in Tids : thread[t].at # "none" <=> t \in Held

(* The pool holds every thread that has not exited, once: the assert of    *)
(* remove_thread holds and no thread is lost to the scheduler.             *)
PoolExact ==
  /\ \A i, j \in DOMAIN pool : i # j => pool[i] # pool[j]
  /\ Range(pool) = {t \in Tids : thread[t].status # "Zombie"}

(* Whatever a thread does in the kernel, an Arc other than its own keeps   *)
(* it, and the kernel stack it runs on, until it has switched away: so     *)
(* sys_exit may go on after remove_thread.                                 *)
RunsOnLiveStack == [][(cur \in Tids) => (cur \in Held')]_vars

(* A parent asleep in wait4 has no exited child it waits for, and one      *)
(* callback that wakes it: no exit falls between its look and its sleep.   *)
WaiterWillWake ==
  \A t \in Tids :
    IF thread[t].at = "wait" /\ thread[t].status = "Waiting"
    THEN /\ proc[t].callbacks = 1
         /\ ~ \E c \in Range(proc[t].exited) : Matches(thread[t].arg, c)
    ELSE proc[t].callbacks = 0

(* The threads that TIMER's callbacks point at exist and are in nanosleep: *)
(* no callback outlives its thread or wakes it out of another wait.        *)
CallbacksLive == \A t \in events : thread[t].at \in {"register", "sleep"}

(* When the schedule thread runs with interrupts off, some thread can run: *)
(* it never spins where no timer interrupt can make a thread Ready.        *)
IdleInterruptible ==
  cur = Kernel /\ ~sie /\ pool # <<>> => \E t \in Tids : thread[t].status = "Ready"

(* Every Ready thread gets its turn (get_next, preemption).                *)
ReadyRuns == \A t \in Tids : thread[t].status = "Ready" ~> cur = t

(* wait4 returns once a child that it waits for has exited.                *)
WaitReturns ==
  \A t \in Tids :
    thread[t].at = "wait" /\ (\E c \in Range(proc[t].exited) : Matches(thread[t].arg, c))
      ~> thread[t].at = "user"

(* nanosleep returns.                                                      *)
SleepReturns == \A t \in Tids : thread[t].at = "sleep" ~> thread[t].at = "user"
=============================================================================
