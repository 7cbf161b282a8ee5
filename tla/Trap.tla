-------------------------------- MODULE Trap --------------------------------
(***************************************************************************)
(* Traps and context switches on the single hart: __trap, handle_trap and  *)
(* __restore, with the sstatus bits and sscratch they work on, and the     *)
(* switches between user threads and the scheduler thread, which save no   *)
(* CSR.  A timer interrupt can arrive at any point where the hart lets it. *)
(***************************************************************************)
EXTENDS Naturals, Sequences

CONSTANTS
  Threads,  \* the user threads
  Sched,    \* the scheduler thread
  None      \* sscratch = 0

VARIABLES
  mode,      \* the privilege the hart runs at: "U" | "S"
  cur,       \* whose kernel stack get_current_thread() would look at
  spp,       \* sstatus.SPP
  spie,      \* sstatus.SPIE
  sie,       \* sstatus.SIE
  sscratch,  \* None, or the address above a trap frame: a thread and the
             \* number of trap frames left on its stack there
  frames,    \* the trap frames on each kernel stack, innermost first
  pc,        \* where each thread is
  saved,     \* the SIE bit in the LockGuard a thread holds
  halted     \* a trap that wrote its frame over another one
vars == <<mode, cur, spp, spie, sie, sscratch, frames, pc, saved, halted>>

(* Where a thread can be: in user code; at the start of handle_trap with   *)
(* one of three causes; in a syscall, with or without a LockGuard; in the  *)
(* page fault handler; after the timer path's yield_to_sched; at __restore *)
(* (trap.asm:74), before csrw sstatus (:81) and before sret (:95).         *)
Points == {"none", "user", "timer", "ecall", "pagefault", "kernel", "locked",
           "fault", "resumed", "restore", "restore_context", "sret", "schedule"}

Mode == {"U", "S"}
Frame == [spp : Mode, spie : BOOLEAN, sie : BOOLEAN, at : Points]
Top(t) == [thread |-> t, depth |-> 0]

(* 0 is not the address of a kernel stack.                                 *)
ASSUME ThreadsAssumption ==
  Sched \notin Threads /\ \A t \in Threads \cup {Sched} : None # Top(t)

TypeOK ==
  /\ mode \in Mode /\ spp \in Mode
  /\ cur \in Threads \cup {Sched}
  /\ spie \in BOOLEAN /\ sie \in BOOLEAN /\ halted \in BOOLEAN
  /\ sscratch \in {None} \cup [thread : Threads \cup {Sched}, depth : Nat]
  /\ frames \in [Threads \cup {Sched} -> Seq(Frame)]
  /\ pc \in [Threads \cup {Sched} -> Points]
  /\ saved \in [Threads -> BOOLEAN]

(* switch_to_schedule.                                                     *)
Init ==
  /\ mode = "S" /\ cur = Sched
  /\ spp = "U" /\ spie = FALSE /\ sie = FALSE
  /\ sscratch = None
  /\ frames = [t \in Threads \cup {Sched} |-> <<>>]
  /\ pc = [t \in Threads \cup {Sched} |-> IF t = Sched THEN "schedule" ELSE "none"]
  /\ saved = [t \in Threads |-> FALSE]
  /\ halted = FALSE

At(point) == mode = "S" /\ ~halted /\ pc[cur] = point
Goto(point) == pc' = [pc EXCEPT ![cur] = point]
csrs == <<spp, spie, sie, sscratch>>
-----------------------------------------------------------------------------
(* The hardware's part of a trap and __trap up to the call of handle_trap: *)
(* one step, as SIE is off.  The frame goes to the address in sscratch, or *)
(* below the stack pointer if that is 0.                                   *)
Fits == sscratch = IF mode = "U" THEN Top(cur) ELSE None
Trap(point) ==
  /\ ~halted /\ Fits
  /\ frames' = [frames EXCEPT ![cur] =
       <<[spp |-> mode, spie |-> sie, sie |-> FALSE, at |-> pc[cur]]>> \o @]
  /\ spp' = mode /\ spie' = sie /\ sie' = FALSE
  /\ mode' = "S" /\ sscratch' = None
  /\ Goto(point)
  /\ UNCHANGED <<cur, saved, halted>>

TimerInterrupt == (mode = "U" \/ sie) /\ Trap("timer")
UserEnvCall == mode = "U" /\ Trap("ecall")
UserFault == mode = "U" /\ Trap("pagefault")
(* The kernel stores to a copy-on-write page of the program.               *)
KernelFault == At("kernel") /\ Trap("pagefault")

(* A trap where the frame goes over memory in use: the model stops here.   *)
Overwrite ==
  /\ ~halted /\ ~Fits
  /\ mode = "U" \/ sie \/ At("kernel")
  /\ halted' = TRUE
  /\ UNCHANGED <<mode, cur, csrs, frames, pc, saved>>
-----------------------------------------------------------------------------
(* Thread::switch_to, yield_to_sched: no CSR is saved or restored.         *)
SwitchTo(t) == cur' = t /\ UNCHANGED <<mode, csrs, saved, halted>>

(* handle_trap, the timer path: yield when user code was interrupted, and  *)
(* return without clear_sie.  Mutants: yield whatever was interrupted; set *)
(* SIE before the timer path too.                                          *)
HandleTimerAlwaysYields ==
  /\ At("timer") /\ Goto("resumed") /\ SwitchTo(Sched)
  /\ UNCHANGED frames
HandleTimerEnabled ==
  /\ At("timer") /\ Goto("restore") /\ sie' = TRUE
  /\ UNCHANGED <<mode, cur, spp, spie, sscratch, frames, saved, halted>>
HandleTimer ==
  /\ At("timer")
  /\ \/ /\ Head(frames[cur]).spp = "U"
        /\ Goto("resumed") /\ SwitchTo(Sched)
        /\ UNCHANGED frames
     \/ /\ Head(frames[cur]).spp = "S"
        /\ Goto("restore")
        /\ UNCHANGED <<mode, cur, csrs, frames, saved, halted>>
Resume ==
  /\ At("resumed") /\ Goto("restore")
  /\ UNCHANGED <<mode, cur, csrs, frames, saved, halted>>

(* The other causes run with SIE set, and clear it at the end.             *)
EnableAndHandle(from, to) ==
  /\ At(from) /\ Goto(to) /\ sie' = TRUE
  /\ UNCHANGED <<mode, cur, spp, spie, sscratch, frames, saved, halted>>
HandleEcall == EnableAndHandle("ecall", "kernel")
HandleFault == EnableAndHandle("pagefault", "fault")
Finish(from) ==
  /\ At(from) /\ Goto("restore") /\ sie' = FALSE
  /\ UNCHANGED <<mode, cur, spp, spie, sscratch, frames, saved, halted>>

(* __restore: the branch looks at the live SPP, the rest at the frame.     *)
(* Mutants: the branch is inverted; sscratch is set one frame too high.    *)
RestoreInverted ==
  /\ At("restore") /\ Goto("restore_context")
  /\ sscratch' = IF spp = "S" THEN [thread |-> cur, depth |-> Len(frames[cur]) - 1]
                 ELSE sscratch
  /\ UNCHANGED <<mode, cur, spp, spie, sie, frames, saved, halted>>
Restore ==
  /\ At("restore") /\ Goto("restore_context")
  /\ sscratch' = IF spp = "U" THEN [thread |-> cur, depth |-> Len(frames[cur]) - 1]
                 ELSE sscratch
  /\ UNCHANGED <<mode, cur, spp, spie, sie, frames, saved, halted>>
RestoreContext ==
  /\ At("restore_context") /\ Goto("sret")
  /\ LET f == Head(frames[cur])
     IN spp' = f.spp /\ spie' = f.spie /\ sie' = f.sie
  /\ UNCHANGED <<mode, cur, sscratch, frames, saved, halted>>
(* Mutant: a jump back to the kernel in the place of sret.                 *)
SretJumps ==
  /\ At("sret")
  /\ mode' = spp /\ sie' = spie /\ spie' = TRUE /\ spp' = spp
  /\ Goto(Head(frames[cur]).at)
  /\ frames' = [frames EXCEPT ![cur] = Tail(@)]
  /\ UNCHANGED <<cur, sscratch, saved, halted>>
Sret ==
  /\ At("sret")
  /\ mode' = spp /\ sie' = spie /\ spie' = TRUE /\ spp' = "U"
  /\ Goto(Head(frames[cur]).at)
  /\ frames' = [frames EXCEPT ![cur] = Tail(@)]
  /\ UNCHANGED <<cur, sscratch, saved, halted>>
-----------------------------------------------------------------------------
(* SpinLock::lock and the drop of its guard, for a lock that a syscall may *)
(* hold across a switch (a blocking read holds the process's).             *)
Lock ==
  /\ At("kernel") /\ Goto("locked")
  /\ saved' = [saved EXCEPT ![cur] = sie] /\ sie' = FALSE
  /\ UNCHANGED <<mode, cur, spp, spie, sscratch, frames, halted>>
Unlock ==
  /\ At("locked") /\ Goto("kernel")
  /\ sie' = (sie \/ saved[cur])
  /\ saved' = [saved EXCEPT ![cur] = FALSE]
  /\ UNCHANGED <<mode, cur, spp, spie, sscratch, frames, halted>>

(* sched_yield, wait4, nanosleep, a blocking read.                         *)
Yield ==
  /\ (At("kernel") \/ At("locked")) /\ cur \in Threads
  /\ SwitchTo(Sched) /\ UNCHANGED <<pc, frames>>

(* TrapFrameImpl::init: a copy of the live sstatus with SPP and SPIE set.  *)
(* alloc_user_stack has dropped the process's lock by then, so SIE is as   *)
(* the syscall, or the schedule thread, has it.                            *)
InitFrame == [spp |-> "U", spie |-> TRUE, sie |-> sie, at |-> "user"]

(* sys_clone: the child gets the parent's outermost frame and runs first,  *)
(* straight from __restore.                                                *)
Clone(c) ==
  /\ At("kernel") /\ pc[c] = "none"
  /\ pc' = [pc EXCEPT ![c] = "restore"]
  /\ frames' = [frames EXCEPT ![c] = <<frames[cur][Len(frames[cur])]>>]
  /\ SwitchTo(c)

(* sys_execve: the stack is abandoned for a new frame at its top.          *)
Execve ==
  /\ At("kernel") /\ Goto("restore")
  /\ frames' = [frames EXCEPT ![cur] = <<InitFrame>>]
  /\ UNCHANGED <<mode, cur, csrs, saved, halted>>

Exit ==
  /\ At("kernel") /\ Goto("none")
  /\ frames' = [frames EXCEPT ![cur] = <<>>]
  /\ SwitchTo(Sched)

(* schedule: a first thread when there is none, and the dispatch of one.   *)
NewThread(c) ==
  /\ At("schedule") /\ \A t \in Threads : pc[t] = "none"
  /\ pc' = [pc EXCEPT ![c] = "restore"]
  /\ frames' = [frames EXCEPT ![c] = <<InitFrame>>]
  /\ UNCHANGED <<mode, cur, csrs, saved, halted>>
Dispatch(t) ==
  /\ At("schedule") /\ pc[t] # "none"
  /\ SwitchTo(t) /\ UNCHANGED <<pc, frames>>

Next ==
  \/ TimerInterrupt \/ UserEnvCall \/ UserFault \/ KernelFault \/ Overwrite
  \/ HandleTimer \/ Resume \/ HandleEcall \/ HandleFault
  \/ Finish("kernel") \/ Finish("fault")
  \/ Restore \/ RestoreContext \/ Sret
  \/ Lock \/ Unlock \/ Yield \/ Execve \/ Exit
  \/ \E c \in Threads : Clone(c) \/ NewThread(c) \/ Dispatch(c)
  \/ halted /\ UNCHANGED vars

Spec == Init /\ [][Next]_vars
-----------------------------------------------------------------------------
(* The debug_asserts before every __switch: SPP says user, whatever traps  *)
(* were nested before (switch_to, schedule, sys_execve).                   *)
SppUserAtSwitch ==
  mode = "S" /\ pc[cur] \in {"kernel", "locked", "schedule"} => spp = "U"

(* User code runs with sscratch at the empty kernel stack of its own       *)
(* thread, so that the next __trap saves it there (__restore, and every    *)
(* switch between the two).                                                *)
UserStackReady == mode = "U" => sscratch = Top(cur) /\ frames[cur] = <<>>

(* A thread that is not running has exactly the frame of its last entry    *)
(* from user code: no switch happens inside a nested trap (handle_trap     *)
(* yields for the timer only when SPP says user).                          *)
SwitchedOutermost ==
  \A t \in Threads : t # cur /\ pc[t] # "none" => Len(frames[t]) = 1

(* Traps nest at most three deep, a syscall, a page fault in it and the    *)
(* timer, so a kernel stack holds at most three trap frames.               *)
NestingBounded == \A t \in Threads \cup {Sched} : Len(frames[t]) <= 3

(* trap.asm:27-31: when the kernel can be interrupted, sscratch is 0, so   *)
(* that __trap tells a trap from the kernel from one from user code.       *)
SscratchTellsMode == mode = "S" /\ sie => sscratch = None

(* trap_context.rs:96-97: the sstatus of a frame keeps interrupts off from *)
(* the moment __restore puts it back until sret.                           *)
RestoredMasked == At("sret") => ~sie

(* trap.asm:70-71: __restore sets sscratch when it returns to user code    *)
(* and leaves it 0 when it returns to the kernel: the live SPP it branches *)
(* on is the SPP of the frame it restores.                                 *)
RestoreBranch == At("restore") => spp = Head(frames[cur]).spp
=============================================================================
