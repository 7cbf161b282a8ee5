---------------------------- MODULE Trap_proofs -----------------------------
(***************************************************************************)
(* The kernel stacks of Trap, for any number of threads: what is on the    *)
(* stack of the running thread at every point of the trap code, and that   *)
(* every other thread left exactly the frame of its last entry.            *)
(***************************************************************************)
EXTENDS Trap, TLAPS

(* Leaves that name no prover are Zenon's; those that reason about numbers, *)
(* records or updates of functions name the SMT solver.                     *)
USE ZenonT(60)

(* A frame that leads to user code, and one made by a trap from the        *)
(* kernel at one of the places given.                                      *)
Outer(f) == f.spp = "U" /\ f.at = "user"
Inner(f, places) == f.spp = "S" /\ f.at \in places /\ ~f.sie

(* A thread that does not run: not there, or switched away from in the     *)
(* syscall or timer interrupt that user code entered the kernel with, or   *)
(* not started.                                                            *)
Absent(t) == frames[t] = <<>> /\ pc[t] = "none"
Parked(t) ==
  /\ Len(frames[t]) = 1 /\ Outer(frames[t][1])
  /\ pc[t] \in {"resumed", "restore", "kernel", "locked"}

(* The running thread, by the number of frames on its stack: in user code, *)
(* in the handler of a trap from there, in one of a trap in that, which is *)
(* the timer or a page fault in a syscall, or in a timer interrupt in the  *)
(* page fault.                                                             *)
InUser(t) ==
  /\ mode = "U" /\ frames[t] = <<>> /\ pc[t] = "user"
  /\ spp = "U" /\ sscratch = Top(t)
InOuter(t) ==
  /\ mode = "S" /\ Len(frames[t]) = 1 /\ Outer(frames[t][1])
  /\ pc[t] \in Points \ {"none", "user", "schedule"}
  /\ spp = "U"
  /\ pc[t] \in {"timer", "ecall", "pagefault"} => ~sie
  /\ pc[t] \in {"restore_context", "sret"} => sscratch = Top(t)
InNested(t) ==
  /\ mode = "S" /\ Len(frames[t]) = 2 /\ Outer(frames[t][2])
  /\ Inner(frames[t][1], {"kernel", "locked", "fault", "resumed", "restore"})
  /\ pc[t] \in {"timer", "pagefault", "fault", "restore", "restore_context", "sret"}
  /\ pc[t] \in {"pagefault", "fault"} => frames[t][1].at = "kernel"
  /\ pc[t] # "fault" => ~sie
  /\ pc[t] = "sret" => spp = "S"
InThird(t) ==
  /\ mode = "S" /\ Len(frames[t]) = 3 /\ Outer(frames[t][3])
  /\ Inner(frames[t][2], {"kernel"}) /\ Inner(frames[t][1], {"fault"})
  /\ pc[t] \in {"timer", "restore", "restore_context", "sret"}
  /\ ~sie
  /\ pc[t] = "sret" => spp = "S"

(* The scheduler thread, in its loop and in a timer interrupt of that.     *)
SchedLoops == frames[Sched] = <<>> /\ pc[Sched] = "schedule"
SchedRuns ==
  /\ mode = "S"
  /\ \/ SchedLoops /\ spp = "U"
     \/ /\ Len(frames[Sched]) = 1 /\ Inner(frames[Sched][1], {"schedule"})
        /\ pc[Sched] \in {"timer", "restore", "restore_context", "sret"}
        /\ ~sie
        /\ pc[Sched] = "sret" => spp = "S"

Stacks ==
  /\ \A t \in Threads \ {cur} : Absent(t) \/ Parked(t)
  /\ cur \in Threads => SchedLoops /\ (InUser(cur) \/ InOuter(cur) \/ InNested(cur) \/ InThird(cur))
  /\ cur = Sched => SchedRuns
-----------------------------------------------------------------------------
(* What pushing and popping a frame does to a stack.                       *)
LEMMA Push ==
  ASSUME NEW s \in Seq(Frame), NEW f \in Frame
  PROVE  /\ <<f>> \o s \in Seq(Frame) /\ Len(<<f>> \o s) = Len(s) + 1
         /\ (<<f>> \o s)[1] = f /\ \A i \in 1 .. Len(s) : (<<f>> \o s)[i + 1] = s[i]
BY SMTT(40)

(* What RESTORE leaves on a stack of frames.                               *)
LEMMA Pop ==
  ASSUME NEW s \in Seq(Frame), Len(s) > 0
  PROVE  /\ Tail(s) \in Seq(Frame) /\ Len(Tail(s)) = Len(s) - 1
         /\ Head(s) = s[1] /\ s[1] \in Frame
         /\ \A i \in 1 .. Len(s) - 1 : Tail(s)[i] = s[i + 1]
BY SMTT(40)

(* A stack of one frame.                                                   *)
LEMMA Single ==
  ASSUME NEW f \in Frame
  PROVE  <<f>> \in Seq(Frame) /\ Len(<<f>>) = 1 /\ <<f>>[1] = f
BY SMTT(40)

(* An empty stack.                                                         *)
LEMMA NoFrames == ASSUME NEW s \in Seq(Frame) PROVE Len(s) = 0 <=> s = <<>>
BY SMTT(40)

(* A step that keeps the running thread and touches nobody else's stack.   *)
LEMMA SameThread ==
  ASSUME TypeOK, Stacks, cur' = cur,
         \A t \in Threads \cup {Sched} : t # cur => frames'[t] = frames[t] /\ pc'[t] = pc[t],
         cur \in Threads => (InUser(cur) \/ InOuter(cur) \/ InNested(cur) \/ InThird(cur))',
         cur = Sched => SchedRuns'
  PROVE  Stacks'
<1>1. \A t \in Threads \ {cur} : (Absent(t) \/ Parked(t))'
  BY DEF Stacks, Absent, Parked
<1>2. cur \in Threads => SchedLoops'
  BY ThreadsAssumption DEF Stacks, SchedLoops
<1>3. QED BY <1>1, <1>2 DEF Stacks

(* __trap: one frame more, by the privilege and the place it came from.    *)
LEMMA TrapStacks ==
  ASSUME TypeOK, Stacks, NEW p \in {"timer", "ecall", "pagefault"}, Trap(p),
         \/ mode = "U"
         \/ sie /\ p = "timer"
         \/ At("kernel") /\ p = "pagefault"
  PROVE  TypeOK' /\ Stacks'
<1> DEFINE f == [spp |-> mode, spie |-> sie, sie |-> FALSE, at |-> pc[cur]]
<1>0. /\ f \in Frame /\ f.spp = mode /\ f.at = pc[cur] /\ f.sie = FALSE
      /\ frames[cur] \in Seq(Frame) /\ cur \in Threads \cup {Sched}
  BY DEF TypeOK, Frame
<1> HIDE DEF f
<1>1. /\ frames' = [frames EXCEPT ![cur] = <<f>> \o frames[cur]]
      /\ pc' = [pc EXCEPT ![cur] = p] /\ mode' = "S" /\ spp' = mode /\ sie' = FALSE
      /\ sscratch' = None /\ spie' = sie /\ UNCHANGED <<cur, saved, halted>>
  BY DEF Trap, Goto, f
<1>2. TypeOK'
  BY <1>0, <1>1, Push DEF TypeOK, Mode, Points
<1>3. /\ Len(frames'[cur]) = Len(frames[cur]) + 1 /\ frames'[cur][1] = f
      /\ \A i \in 1 .. Len(frames[cur]) : frames'[cur][i + 1] = frames[cur][i]
      /\ pc'[cur] = p
  BY <1>0, <1>1, Push, SMTT(40) DEF TypeOK
<1>4. \A t \in Threads \cup {Sched} : t # cur => frames'[t] = frames[t] /\ pc'[t] = pc[t]
  BY <1>1 DEF TypeOK
<1>5. ASSUME cur = Sched PROVE SchedRuns'
  <2>1. SchedLoops /\ mode = "S" /\ p = "timer"
    BY <1>5, ThreadsAssumption DEF Stacks, SchedRuns, SchedLoops, At
  <2>2. QED BY <1>0, <1>1, <1>3, <1>5, <2>1, SMTT(40) DEF SchedRuns, SchedLoops, Inner
<1>6. ASSUME cur \in Threads
      PROVE  (InUser(cur) \/ InOuter(cur) \/ InNested(cur) \/ InThird(cur))'
  <2>1. CASE InUser(cur)
    BY <1>0, <1>1, <1>3, <2>1, SMTT(40) DEF InUser, InOuter, Outer, Points
  <2>2. CASE InOuter(cur)
    <3>1. pc[cur] \in {"kernel", "locked", "fault", "resumed", "restore"}
      BY <1>6, <2>2, ThreadsAssumption DEF InOuter, At, Trap, Fits, Points
    <3>2. InNested(cur)'
      BY <1>0, <1>1, <1>3, <2>2, <3>1, SMTT(40) DEF InOuter, InNested, Outer, Inner, Points, At
    <3>3. QED BY <3>2
  <2>3. CASE InNested(cur)
    BY <1>0, <1>1, <1>3, <2>3, SMTT(40) DEF InNested, InThird, Outer, Inner, At
  <2>4. CASE InThird(cur)
    BY <2>4 DEF InThird, At
  <2>5. QED BY <1>6, <2>1, <2>2, <2>3, <2>4 DEF Stacks
<1>7. Stacks'
  BY <1>1, <1>4, <1>5, <1>6, SameThread
<1>8. QED BY <1>2, <1>7

(* A step of handle_trap, of a syscall or of __restore that goes on on its *)
(* own stack: only the place changes, and SPP, SIE or sscratch.            *)
LEMMA MoveStacks ==
  ASSUME TypeOK, Stacks,
         \/ HandleTimer /\ Head(frames[cur]).spp = "S"
         \/ Resume \/ HandleEcall \/ HandleFault \/ Finish("kernel") \/ Finish("fault")
         \/ Restore \/ RestoreContext \/ Lock \/ Unlock
  PROVE  Stacks'
<1> DEFINE Runs == InUser(cur) \/ InOuter(cur) \/ InNested(cur) \/ InThird(cur)
<1>0. /\ cur \in Threads \cup {Sched} /\ frames[cur] \in Seq(Frame)
      /\ cur \in Threads => Runs
      /\ cur = Sched => SchedRuns
  BY DEF TypeOK, Stacks
<1>1. Len(frames[cur]) > 0 => Head(frames[cur]) = frames[cur][1]
  BY <1>0, Pop
<1>2. frames[cur] = <<>> => Len(frames[cur]) = 0
  BY <1>0, NoFrames
<1>3. SUFFICES /\ UNCHANGED <<cur, frames>>
               /\ \A t \in Threads \cup {Sched} : t # cur => pc'[t] = pc[t]
               /\ cur \in Threads => Runs'
               /\ cur = Sched => SchedRuns'
  BY SameThread
<1> USE DEF InUser, InOuter, InNested, InThird, SchedRuns, SchedLoops, Outer, Inner, At, Points
<1>4. CASE HandleTimer /\ Head(frames[cur]).spp = "S"
  BY <1>0, <1>1, <1>2, <1>4, SMTT(40) DEF HandleTimer, Goto, csrs, TypeOK
<1>5. CASE Resume
  BY <1>0, <1>1, <1>2, <1>5 DEF Resume, Goto, csrs, TypeOK
<1>6. CASE HandleEcall
  BY <1>0, <1>1, <1>2, <1>6 DEF HandleEcall, EnableAndHandle, Goto, csrs, TypeOK
<1>7. CASE HandleFault
  BY <1>0, <1>1, <1>2, <1>7 DEF HandleFault, EnableAndHandle, Goto, csrs, TypeOK
<1>8. CASE Finish("kernel") \/ Finish("fault")
  BY <1>0, <1>1, <1>2, <1>8, SMTT(40) DEF Finish, Goto, csrs, TypeOK
<1>9. CASE Restore
  <2>1. Len(frames[cur]) = 1 /\ spp = "U" => sscratch' = Top(cur)
    BY <1>9, SMTT(40) DEF Restore, Top
  <2>2. QED BY <1>0, <1>1, <1>2, <1>9, <2>1 DEF Restore, Goto, csrs, TypeOK
<1>10. CASE RestoreContext
  BY <1>0, <1>1, <1>2, <1>10, SMTT(40) DEF RestoreContext, Goto, csrs, TypeOK
<1>11. CASE Lock
  BY <1>0, <1>1, <1>2, <1>11 DEF Lock, Goto, csrs, TypeOK
<1>12. CASE Unlock
  BY <1>0, <1>1, <1>2, <1>12 DEF Unlock, Goto, csrs, TypeOK
<1>13. QED BY <1>4, <1>5, <1>6, <1>7, <1>8, <1>9, <1>10, <1>11, <1>12

(* sret: the innermost frame is popped, to the kernel or to user code.     *)
LEMMA SretStacks ==
  ASSUME TypeOK, Stacks, Sret
  PROVE  Stacks'
<1> DEFINE Runs == InUser(cur) \/ InOuter(cur) \/ InNested(cur) \/ InThird(cur)
<1>0. /\ cur \in Threads \cup {Sched} /\ frames[cur] \in Seq(Frame)
      /\ cur \in Threads => Runs
      /\ cur = Sched => SchedRuns
      /\ mode = "S" /\ pc[cur] = "sret"
  BY DEF TypeOK, Stacks, Sret, At
<1>1. Len(frames[cur]) > 0
  BY <1>0, SMTT(40) DEF InUser, InOuter, InNested, InThird, SchedRuns, SchedLoops
<1> DEFINE f == frames[cur][1]
           rest == Tail(frames[cur])
<1>2. /\ rest \in Seq(Frame) /\ Len(rest) = Len(frames[cur]) - 1
      /\ \A i \in 1 .. Len(frames[cur]) - 1 : rest[i] = frames[cur][i + 1]
      /\ f \in Frame /\ Head(frames[cur]) = f
  BY <1>0, <1>1, Pop
<1>3. Len(rest) = 0 => rest = <<>>
  BY <1>2, NoFrames
<1> HIDE DEF f, rest
<1>4. /\ pc' = [pc EXCEPT ![cur] = f.at]
      /\ frames' = [frames EXCEPT ![cur] = rest]
      /\ mode' = spp /\ spp' = "U" /\ sie' = spie /\ UNCHANGED <<cur, sscratch>>
  BY <1>2 DEF Sret, Goto, rest
<1>5. /\ pc'[cur] = f.at /\ frames'[cur] = rest
      /\ \A t \in Threads \cup {Sched} : t # cur => frames'[t] = frames[t] /\ pc'[t] = pc[t]
  BY <1>0, <1>4 DEF TypeOK
<1>6. ASSUME cur = Sched PROVE SchedRuns'
  BY <1>0, <1>1, <1>2, <1>3, <1>4, <1>5, <1>6, SMTT(40) DEF SchedRuns, SchedLoops, Inner, f
<1>7. ASSUME cur \in Threads PROVE Runs'
  <2>1. CASE InOuter(cur)
    <3>1. InUser(cur)'
      BY <1>0, <1>2, <1>3, <1>4, <1>5, <2>1, SMTT(40) DEF InOuter, InUser, Outer, f
    <3>2. QED BY <3>1
  <2>2. CASE InNested(cur)
    <3>1. rest[1] = frames[cur][2]
      BY <1>2, <2>2, SMTT(40) DEF InNested
    <3>2. InOuter(cur)'
      BY <1>0, <1>2, <1>4, <1>5, <2>2, <3>1, SMTT(40) DEF InNested, InOuter, Outer, Inner, Points, f
    <3>3. QED BY <3>2
  <2>3. CASE InThird(cur)
    <3>1. rest[1] = frames[cur][2] /\ rest[2] = frames[cur][3]
      BY <1>2, <2>3, SMTT(40) DEF InThird
    <3>2. InNested(cur)'
      BY <1>0, <1>2, <1>4, <1>5, <2>3, <3>1, SMTT(40) DEF InNested, InThird, Outer, Inner, f
    <3>3. QED BY <3>2
  <2>4. QED BY <1>0, <1>7, <2>1, <2>2, <2>3 DEF InUser
<1>8. QED BY <1>4, <1>5, <1>6, <1>7, SameThread

(* switch_to and yield_to_sched: the thread that stops running is parked   *)
(* or gone, and the one that starts finds SPP as it needs it.              *)
LEMMA SwitchStacks ==
  ASSUME TypeOK, Stacks,
         \/ HandleTimer /\ Head(frames[cur]).spp = "U"
         \/ Yield \/ Exit
         \/ \E t \in Threads : Dispatch(t)
  PROVE  Stacks'
<1> DEFINE Runs == InUser(cur) \/ InOuter(cur) \/ InNested(cur) \/ InThird(cur)
<1>0. /\ cur \in Threads \cup {Sched} /\ frames[cur] \in Seq(Frame)
      /\ cur \in Threads => Runs /\ SchedLoops
      /\ cur = Sched => SchedRuns
      /\ \A t \in Threads \ {cur} : Absent(t) \/ Parked(t)
      /\ Sched \notin Threads
  BY ThreadsAssumption DEF TypeOK, Stacks
<1>1. Len(frames[cur]) > 0 => Head(frames[cur]) = frames[cur][1]
  BY <1>0, Pop
<1>2. frames[cur] = <<>> => Len(frames[cur]) = 0
  BY <1>0, NoFrames
<1>3. CASE \/ HandleTimer /\ Head(frames[cur]).spp = "U"
           \/ Yield \/ Exit
  <2>1. cur \in Threads /\ InOuter(cur)
    BY <1>0, <1>1, <1>2, <1>3, SMTT(40) DEF HandleTimer, Yield, Exit, At, InUser, InOuter, InNested, InThird,
       SchedRuns, SchedLoops, Outer, Inner
  <2>2. /\ cur' = Sched /\ mode' = "S" /\ spp' = "U"
        /\ \A t \in Threads \cup {Sched} : t # cur => frames'[t] = frames[t] /\ pc'[t] = pc[t]
    BY <1>3, <2>1 DEF HandleTimer, Yield, Exit, SwitchTo, Goto, csrs, InOuter, Outer, TypeOK
  <2>3. SchedRuns'
    BY <1>0, <2>1, <2>2 DEF SchedRuns, SchedLoops
  <2>4. \A t \in Threads : t = cur => (Absent(t) \/ Parked(t))'
    BY <1>3, <2>1 DEF HandleTimer, Yield, Exit, Goto, TypeOK, At, InOuter, Absent, Parked
  <2>5. \A t \in Threads : t # cur => (Absent(t) \/ Parked(t))'
    BY <1>0, <2>2 DEF Absent, Parked
  <2>6. QED BY <1>0, <2>2, <2>3, <2>4, <2>5 DEF Stacks
<1>4. CASE \E t \in Threads : Dispatch(t)
  <2>1. PICK t \in Threads : Dispatch(t)
    BY <1>4
  <2>2. cur = Sched /\ SchedLoops /\ spp = "U" /\ Parked(t)
    BY <1>0, <2>1 DEF Dispatch, At, InUser, InOuter, InNested, InThird, SchedRuns, Absent
  <2>3. /\ cur' = t /\ UNCHANGED <<frames, pc, mode, spp, sie, sscratch>> /\ mode = "S"
    BY <2>1 DEF Dispatch, SwitchTo, csrs, At
  <2>4. InOuter(t)' /\ SchedLoops'
    BY <2>2, <2>3 DEF Parked, InOuter, SchedLoops, Points
  <2>5. \A u \in Threads \ {t} : (Absent(u) \/ Parked(u))'
    BY <1>0, <2>2, <2>3 DEF Absent, Parked
  <2>6. QED BY <1>0, <2>3, <2>4, <2>5 DEF Stacks
<1>5. QED BY <1>3, <1>4

(* sys_clone and sys_execve: the new frame is one of a trap from user code. *)
LEMMA CloneStacks ==
  ASSUME TypeOK, Stacks, NEW c \in Threads, Clone(c)
  PROVE  Stacks'
<1>1. /\ cur \in Threads /\ SchedLoops /\ InOuter(cur) /\ pc[cur] = "kernel" /\ c # cur
      /\ \A t \in Threads \ {cur} : Absent(t) \/ Parked(t)
  BY ThreadsAssumption DEF TypeOK, Stacks, Clone, At, InUser, InOuter, InNested, InThird,
     SchedRuns, SchedLoops
<1> DEFINE f == frames[cur][1]
<1>2. f \in Frame /\ Len(frames[cur]) = 1 /\ Outer(f)
  <2>1. frames[cur] \in Seq(Frame) /\ Len(frames[cur]) = 1 /\ Outer(f)
    BY <1>1 DEF TypeOK, InOuter
  <2>2. QED BY <2>1, Pop, SMTT(40)
<1>3. frames' = [frames EXCEPT ![c] = <<f>>]
  BY <1>2 DEF Clone
<1> HIDE DEF f
<1>4. /\ cur' = c /\ UNCHANGED <<mode, spp, spie, sie, sscratch, saved, halted>>
      /\ frames'[c] = <<f>> /\ pc'[c] = "restore"
      /\ \A t \in Threads \cup {Sched} : t # c => frames'[t] = frames[t] /\ pc'[t] = pc[t]
  BY <1>3 DEF Clone, SwitchTo, csrs, TypeOK
<1>5. InOuter(c)'
  BY <1>1, <1>2, <1>4, Single DEF InOuter, Points
<1>6. SchedLoops'
  BY <1>1, <1>4, ThreadsAssumption DEF SchedLoops
<1>7. \A t \in Threads : t = cur => Parked(t)'
  BY <1>1, <1>4 DEF InOuter, Parked
<1>8. \A t \in Threads : t # cur /\ t # c => (Absent(t) \/ Parked(t))'
  BY <1>1, <1>4 DEF Absent, Parked
<1>9. QED BY <1>4, <1>5, <1>6, <1>7, <1>8, ThreadsAssumption DEF Stacks

(* The frame a new thread or a new program starts from is one of user      *)
(* code.                                                                   *)
LEMMA NewFrame == ASSUME TypeOK PROVE InitFrame \in Frame /\ Outer(InitFrame)
BY DEF TypeOK, InitFrame, Frame, Outer, Mode, Points

(* execve replaces the frame of the system call by that of the new         *)
(* program.                                                                *)
LEMMA ExecveStacks ==
  ASSUME TypeOK, Stacks, Execve
  PROVE  Stacks'
<1>1. cur \in Threads /\ InOuter(cur) /\ pc[cur] = "kernel"
  BY ThreadsAssumption DEF TypeOK, Stacks, Execve, At, InUser, InOuter, InNested, InThird,
     SchedRuns, SchedLoops
<1>2. /\ UNCHANGED <<mode, cur, spp, spie, sie, sscratch>>
      /\ frames'[cur] = <<InitFrame>> /\ pc'[cur] = "restore"
      /\ \A t \in Threads \cup {Sched} : t # cur => frames'[t] = frames[t] /\ pc'[t] = pc[t]
  BY <1>1 DEF Execve, Goto, csrs, TypeOK
<1>3. InOuter(cur)'
  BY <1>1, <1>2, NewFrame, Single DEF InOuter, Points
<1>4. QED BY <1>1, <1>2, <1>3, SameThread, ThreadsAssumption

(* Thread::new_thread.                                                     *)
LEMMA NewThreadStacks ==
  ASSUME TypeOK, Stacks, NEW c \in Threads, NewThread(c)
  PROVE  Stacks'
<1>1. cur = Sched /\ SchedRuns /\ pc[cur] = "schedule" /\ mode = "S"
      /\ \A t \in Threads \ {cur} : Absent(t) \/ Parked(t)
  BY DEF TypeOK, Stacks, NewThread, At, InUser, InOuter, InNested, InThird, SchedRuns
<1>2. /\ UNCHANGED <<mode, cur, spp, spie, sie, sscratch>>
      /\ frames'[c] = <<InitFrame>> /\ pc'[c] = "restore"
      /\ \A t \in Threads \cup {Sched} : t # c => frames'[t] = frames[t] /\ pc'[t] = pc[t]
  BY <1>1 DEF NewThread, csrs, TypeOK
<1>3. Parked(c)'
  BY <1>2, NewFrame, Single DEF Parked
<1>4. \A t \in Threads : t # c => (Absent(t) \/ Parked(t))'
  BY <1>1, <1>2, ThreadsAssumption DEF Absent, Parked
<1>5. SchedRuns'
  BY <1>1, <1>2, ThreadsAssumption DEF SchedRuns, SchedLoops
<1>6. QED BY <1>1, <1>2, <1>3, <1>4, <1>5, ThreadsAssumption DEF Stacks
-----------------------------------------------------------------------------
(* The steps that keep the types without looking at the stacks, and those  *)
(* that push, pop or replace frames.                                       *)
LEMMA MoveTypes ==
  ASSUME TypeOK, Stacks,
         \/ HandleTimer \/ Resume \/ HandleEcall \/ HandleFault
         \/ Finish("kernel") \/ Finish("fault")
         \/ Restore \/ RestoreContext \/ Lock \/ Unlock \/ Yield \/ Overwrite
         \/ \E t \in Threads : Dispatch(t)
  PROVE  TypeOK'
<1>0. cur \in Threads \cup {Sched} /\ frames[cur] \in Seq(Frame) /\ Sched \notin Threads
  BY ThreadsAssumption DEF TypeOK
<1>1. mode = "S" /\ pc[cur] # "schedule" =>
        Len(frames[cur]) > 0 /\ Head(frames[cur]) \in Frame /\ Len(frames[cur]) - 1 \in Nat
  BY <1>0, Pop, SMTT(40) DEF Stacks, InUser, InOuter, InNested, InThird, SchedRuns, SchedLoops
<1>2. pc[cur] \in {"kernel", "locked"} => cur \in Threads
  BY <1>0 DEF Stacks, SchedRuns, SchedLoops
<1>3. CASE HandleTimer \/ Resume \/ HandleEcall \/ HandleFault \/ Finish("kernel") \/ Finish("fault")
  BY <1>0, <1>3 DEF TypeOK, HandleTimer, Resume, HandleEcall, HandleFault, EnableAndHandle, Finish,
     Goto, SwitchTo, csrs, Points
<1>4. CASE Restore
  <2>1. sscratch' \in {None} \cup [thread : Threads \cup {Sched}, depth : Nat]
    BY <1>0, <1>1, <1>4 DEF TypeOK, Restore, At
  <2>2. pc' \in [Threads \cup {Sched} -> Points]
    BY <1>0, <1>4 DEF TypeOK, Restore, Goto, Points
  <2>3. QED BY <1>4, <2>1, <2>2 DEF TypeOK, Restore
<1>5. CASE RestoreContext
  <2> DEFINE f == Head(frames[cur])
  <2>1. f.spp \in Mode /\ f.spie \in BOOLEAN /\ f.sie \in BOOLEAN
    BY <1>1, <1>5 DEF Frame, RestoreContext, At
  <2>2. pc' \in [Threads \cup {Sched} -> Points]
    BY <1>0, <1>5 DEF TypeOK, RestoreContext, Goto, Points
  <2>3. spp' = f.spp /\ spie' = f.spie /\ sie' = f.sie
    BY <1>5 DEF RestoreContext
  <2> HIDE DEF f
  <2>4. QED BY <1>5, <2>1, <2>2, <2>3 DEF TypeOK, RestoreContext
<1>6. CASE Lock
  BY <1>0, <1>2, <1>6 DEF TypeOK, Lock, At, Goto, Points
<1>7. CASE Unlock
  BY <1>0, <1>2, <1>7 DEF TypeOK, Unlock, At, Goto, Points
<1>8. CASE Yield \/ Overwrite \/ \E t \in Threads : Dispatch(t)
  BY <1>0, <1>8 DEF TypeOK, Yield, Overwrite, Dispatch, SwitchTo, csrs
<1>9. QED BY <1>3, <1>4, <1>5, <1>6, <1>7, <1>8

(* The steps that put frames on stacks or take them off put well-formed    *)
(* ones there.                                                             *)
LEMMA FrameTypes ==
  ASSUME TypeOK, Stacks,
         Sret \/ Execve \/ Exit \/ \E c \in Threads : Clone(c) \/ NewThread(c)
  PROVE  TypeOK'
<1>0. cur \in Threads \cup {Sched} /\ frames[cur] \in Seq(Frame)
  BY DEF TypeOK
<1>1. pc[cur] \in {"sret", "kernel"} /\ mode = "S" =>
        /\ Len(frames[cur]) > 0 /\ Head(frames[cur]) \in Frame /\ Tail(frames[cur]) \in Seq(Frame)
        /\ frames[cur][Len(frames[cur])] \in Frame
  BY <1>0, Pop, SMTT(40) DEF Stacks, InUser, InOuter, InNested, InThird, SchedRuns, SchedLoops
<1>2. CASE Sret
  <2>1. frames' \in [Threads \cup {Sched} -> Seq(Frame)]
    BY <1>0, <1>1, <1>2 DEF TypeOK, Sret, At
  <2>2. pc' \in [Threads \cup {Sched} -> Points]
    BY <1>0, <1>1, <1>2 DEF TypeOK, Sret, At, Goto, Frame
  <2>3. QED BY <1>2, <2>1, <2>2 DEF TypeOK, Sret, Mode
<1>3. CASE Execve
  BY <1>0, <1>3, NewFrame, Single DEF TypeOK, Execve, Goto, csrs, Points
<1>4. CASE Exit
  BY <1>0, <1>4, SMTT(40) DEF TypeOK, Exit, Goto, SwitchTo, csrs, Points
<1>5. ASSUME NEW c \in Threads, Clone(c) PROVE TypeOK'
  BY <1>0, <1>1, <1>5, Single DEF TypeOK, Clone, At, SwitchTo, csrs, Points
<1>6. ASSUME NEW c \in Threads, NewThread(c) PROVE TypeOK'
  BY <1>0, <1>6, NewFrame, Single DEF TypeOK, NewThread, csrs, Points
<1>7. QED BY <1>2, <1>3, <1>4, <1>5, <1>6
-----------------------------------------------------------------------------
(* The kernel starts in the scheduler's thread, with empty stacks.         *)
LEMMA InitStacks == Init => TypeOK /\ Stacks
<1> SUFFICES ASSUME Init PROVE TypeOK /\ Stacks
  OBVIOUS
<1>1. TypeOK
  <2>1. frames \in [Threads \cup {Sched} -> Seq(Frame)]
    BY SMTT(40) DEF Init
  <2>2. pc \in [Threads \cup {Sched} -> Points]
    BY DEF Init, Points
  <2>3. QED BY <2>1, <2>2 DEF Init, TypeOK, Mode
<1>2. Stacks
  BY ThreadsAssumption DEF Init, Stacks, Absent, SchedRuns, SchedLoops
<1>3. QED BY <1>1, <1>2

(* Every step of every thread keeps the stacks in shape.                   *)
LEMMA NextStacks == TypeOK /\ Stacks /\ [Next]_vars => TypeOK' /\ Stacks'
<1> SUFFICES ASSUME TypeOK, Stacks, [Next]_vars PROVE TypeOK' /\ Stacks'
  OBVIOUS
<1>1. CASE TimerInterrupt \/ UserEnvCall \/ UserFault \/ KernelFault
  BY <1>1, TrapStacks DEF TimerInterrupt, UserEnvCall, UserFault, KernelFault
<1>2. CASE HandleTimer
  BY <1>2, MoveTypes, MoveStacks, SwitchStacks DEF HandleTimer
<1>3. CASE \/ Resume \/ HandleEcall \/ HandleFault \/ Finish("kernel") \/ Finish("fault")
           \/ Restore \/ RestoreContext \/ Lock \/ Unlock
  BY <1>3, MoveTypes, MoveStacks
<1>4. CASE Yield \/ \E t \in Threads : Dispatch(t)
  BY <1>4, MoveTypes, SwitchStacks
<1>5. CASE Sret
  BY <1>5, FrameTypes, SretStacks
<1>6. CASE Exit
  BY <1>6, FrameTypes, SwitchStacks
<1>7. CASE Execve
  BY <1>7, FrameTypes, ExecveStacks
<1>8. CASE \E c \in Threads : Clone(c) \/ NewThread(c)
  BY <1>8, FrameTypes, CloneStacks, NewThreadStacks
<1>9. CASE Overwrite
  <2>1. UNCHANGED <<mode, cur, spp, spie, sie, sscratch, frames, pc>>
    BY <1>9 DEF Overwrite, csrs
  <2>2. Stacks'
    BY <2>1 DEF Stacks, Absent, Parked, InUser, InOuter, InNested, InThird, SchedRuns, SchedLoops
  <2>3. QED BY <1>9, <2>2, MoveTypes
<1>10. CASE UNCHANGED vars
  BY <1>10 DEF vars, TypeOK, Stacks, Absent, Parked, InUser, InOuter, InNested, InThird,
     SchedRuns, SchedLoops
<1>11. QED
  BY <1>1, <1>2, <1>3, <1>4, <1>5, <1>6, <1>7, <1>8, <1>9, <1>10 DEF Next

(* The kernel stacks are as Stacks says at every moment, for any number of *)
(* threads and however interrupts, faults and switches interleave.         *)
THEOREM StacksKept == Spec => [](TypeOK /\ Stacks)
<1>1. QED BY InitStacks, NextStacks, PTL DEF Spec

(* User code always runs with sscratch at the empty kernel stack of its    *)
(* own thread (__restore, switch_to).                                      *)
THEOREM UserStackAlwaysReady == Spec => []UserStackReady
<1>1. TypeOK /\ Stacks => UserStackReady
  BY DEF TypeOK, Stacks, UserStackReady, InUser, InOuter, InNested, InThird, SchedRuns
<1>2. QED BY <1>1, StacksKept, PTL

(* No thread is switched away from inside a nested trap.                   *)
THEOREM AlwaysSwitchedOutermost == Spec => []SwitchedOutermost
<1>1. TypeOK /\ Stacks => SwitchedOutermost
  BY DEF Stacks, SwitchedOutermost, Absent, Parked
<1>2. QED BY <1>1, StacksKept, PTL

(* The debug_asserts on SPP before the switches hold.                      *)
THEOREM SppAlwaysUserAtSwitch == Spec => []SppUserAtSwitch
<1>1. TypeOK /\ Stacks => SppUserAtSwitch
  BY DEF TypeOK, Stacks, SppUserAtSwitch, InUser, InOuter, InNested, InThird, SchedRuns, SchedLoops
<1>2. QED BY <1>1, StacksKept, PTL

(* No kernel stack ever holds more than three trap frames.                 *)
THEOREM NestingAlwaysBounded == Spec => []NestingBounded
<1>1. TypeOK /\ Stacks => NestingBounded
  <2> SUFFICES ASSUME TypeOK, Stacks, NEW t \in Threads \cup {Sched} PROVE Len(frames[t]) <= 3
    BY DEF NestingBounded
  <2>1. frames[t] \in Seq(Frame) /\ (frames[t] = <<>> => Len(frames[t]) = 0)
    BY NoFrames DEF TypeOK
  <2>2. frames[t] = <<>> \/ Len(frames[t]) = 1 \/ Len(frames[t]) = 2 \/ Len(frames[t]) = 3
    BY DEF TypeOK, Stacks, Absent, Parked, InUser, InOuter, InNested, InThird, SchedRuns, SchedLoops
  <2>3. Len(frames[t]) \in {0, 1, 2, 3}
    BY <2>1, <2>2
  <2>4. \A n \in {0, 1, 2, 3} : n <= 3
    BY SMTT(40)
  <2>5. QED BY <2>3, <2>4
<1>2. QED BY <1>1, StacksKept, PTL
=============================================================================
