---------------------------- MODULE Pipe_proofs -----------------------------
(***************************************************************************)
(* For every number of tids, children and programs: the theorems about     *)
(* Tasks, from one inductive invariant that relates the pool, the Arcs,    *)
(* the tid allocator, the statuses and what is to wake each thread.        *)
(*                                                                         *)
(* For every number of threads and every length of the buffers: no byte is *)
(* lost, repeated or reordered by a pipe, and no reader sleeps with bytes  *)
(* in it.  The invariant of Tasks holds in the composition too.            *)
(***************************************************************************)
EXTENDS Pipe, SequenceTheorems, TLAPS

(* Leaves that name no prover are Zenon's; those that reason about numbers, *)
(* records or updates of functions name the SMT solver.                     *)
USE ZenonT(60)

Distinct(s) == \A i, j \in DOMAIN s : i # j => s[i] # s[j]

ThreadRec == [status : Status, at : Places, arg : Tids \cup {Any, None}]
Types ==
  /\ cur \in Tids \cup {Kernel} /\ sie \in BOOLEAN
  /\ pool \in Seq(Tids) /\ next \in Tids \cup {None}
  /\ thread \in [Tids -> ThreadRec]
  /\ DOMAIN proc = Tids
  /\ \A t \in Tids :
       /\ DOMAIN proc[t] = {"parent", "exited", "callbacks"}
       /\ proc[t].parent \in Tids \cup {Kernel, None} /\ proc[t].callbacks \in Nat
  /\ current \in 1 .. MaxTid + 1 /\ recycled \in Seq(Tids)
  /\ events \subseteq Tids

(* A thread is out of the pool exactly once it has exited.                 *)
ZombiesOut == \A t \in Tids : thread[t].status = "Zombie" <=> thread[t].at \in {"none", "exit"}

ClonedBy(u, t) == thread[u].at = "clone" /\ thread[u].arg = t

(* The running thread is the one that schedule holds, or one that its      *)
(* parent in sys_clone holds and that has not left since it was made; it   *)
(* has not exited, and if it was waiting it is no more.                    *)
RunningHeld ==
  cur \in Tids =>
    /\ next = cur \/ (thread[cur].at \in {"user", "register"} /\ \E u \in Tids : ClonedBy(u, cur))
    /\ thread[cur].status # "Zombie"
    /\ thread[cur].at \notin {"user", "register"} => thread[cur].status = "Ready"

NotOwnParent == \A t \in Tids : proc[t].parent # t
WokenOnce == \A t \in events : thread[t].at = "sleep" => thread[t].status = "Waiting"

TasksInv ==
  /\ Types /\ TidAccounting /\ PoolExact /\ ZombiesOut /\ RunningHeld /\ NotOwnParent
  /\ WaiterWillWake /\ CallbacksLive /\ WokenOnce

(* With interrupts off some thread is ready in user code, and not running, *)
(* or there is none at all.                                                *)
ReadyInUser ==
  /\ cur \in Tids => thread[cur].status = "Ready"
  /\ ~sie => \/ cur = Kernel /\ pool = <<>>
             \/ \E t \in Tids \ {cur} : thread[t].status = "Ready" /\ thread[t].at = "user"
-----------------------------------------------------------------------------
(* What the queue operations do to the elements of a list without repeats. *)
LEMMA AppendFacts ==
  ASSUME NEW S, NEW s \in Seq(S), NEW e \in S, Distinct(s), e \notin Range(s)
  PROVE  /\ Append(s, e) \in Seq(S) /\ Distinct(Append(s, e))
         /\ Range(Append(s, e)) = Range(s) \cup {e}
<1>1. /\ Append(s, e) \in Seq(S) /\ Len(Append(s, e)) = Len(s) + 1 /\ Len(s) \in Nat
      /\ \A i \in 1 .. Len(s) : Append(s, e)[i] = s[i]
      /\ Append(s, e)[Len(s) + 1] = e
      /\ DOMAIN s = 1 .. Len(s) /\ DOMAIN Append(s, e) = 1 .. Len(s) + 1
  BY SMTT(40)
<1>2. \A i \in 1 .. Len(s) + 1 : i \in 1 .. Len(s) \/ i = Len(s) + 1
  BY <1>1, SMTT(40)
<1>3. Distinct(Append(s, e))
  BY <1>1, <1>2 DEF Distinct, Range
<1>4. Range(Append(s, e)) \subseteq Range(s) \cup {e}
  BY <1>1, <1>2 DEF Range
<1>5. Range(s) \cup {e} \subseteq Range(Append(s, e))
  <2>1. Len(s) + 1 \in 1 .. Len(s) + 1 /\ \A i \in 1 .. Len(s) : i \in 1 .. Len(s) + 1
    BY <1>1, SMTT(40)
  <2>2. QED BY <1>1, <2>1 DEF Range
<1>6. QED BY <1>1, <1>3, <1>4, <1>5

(* Vec::pop.                                                               *)
LEMMA PopFacts ==
  ASSUME NEW S, NEW s \in Seq(S), Distinct(s), s # <<>>
  PROVE  LET e == s[Len(s)]
             r == SubSeq(s, 1, Len(s) - 1)
         IN /\ e \in S /\ e \in Range(s) /\ r \in Seq(S) /\ Distinct(r)
            /\ Range(r) = Range(s) \ {e}
<1> DEFINE n == Len(s)
           e == s[n]
           r == SubSeq(s, 1, n - 1)
<1>1. /\ n \in Nat /\ n > 0 /\ DOMAIN s = 1 .. n /\ n \in 1 .. n
      /\ \A i \in 1 .. n : s[i] \in S
  BY SMTT(40)
<1>2. /\ r \in Seq(S) /\ Len(r) = n - 1 /\ DOMAIN r = 1 .. n - 1
      /\ \A i \in 1 .. n - 1 : r[i] = s[i]
  BY <1>1, SMTT(40)
<1> HIDE DEF n, r
<1>3. \A i \in 1 .. n : (i \in 1 .. n - 1 <=> i # n)
  BY <1>1, SMTT(40)
<1>4. \A i \in 1 .. n - 1 : i \in 1 .. n
  BY <1>1, SMTT(40)
<1>5. Distinct(r)
  BY <1>1, <1>2, <1>4 DEF Distinct
<1>6. e \in Range(s)
  BY <1>1 DEF Range
<1>7. Range(r) = Range(s) \ {e}
  BY <1>1, <1>2, <1>3, <1>4, SMTT(40) DEF Range, Distinct
<1>8. QED BY <1>1, <1>2, <1>5, <1>6, <1>7 DEF n, r

(* get_next: pop_front and push_back of the same thread.                   *)
LEMMA RotateFacts ==
  ASSUME NEW S, NEW s \in Seq(S), Distinct(s), s # <<>>
  PROVE  LET r == Append(Tail(s), Head(s))
         IN /\ Head(s) \in S /\ Head(s) \in Range(s) /\ r \in Seq(S) /\ Distinct(r)
            /\ Range(r) = Range(s)
<1> DEFINE n == Len(s)
           r == Append(Tail(s), Head(s))
<1>1. /\ n \in Nat /\ n > 0 /\ DOMAIN s = 1 .. n /\ 1 \in 1 .. n
      /\ \A i \in 1 .. n : s[i] \in S
      /\ Head(s) = s[1]
  BY SMTT(40)
<1>2. /\ Tail(s) \in Seq(S) /\ Len(Tail(s)) = n - 1
      /\ \A i \in 1 .. n - 1 : Tail(s)[i] = s[i + 1]
  BY <1>1, SMTT(40)
<1>3. /\ r \in Seq(S) /\ Len(r) = n /\ DOMAIN r = 1 .. n /\ r[n] = s[1]
      /\ \A i \in 1 .. n - 1 : r[i] = s[i + 1]
  BY <1>1, <1>2, SMTT(40)
<1> HIDE DEF n, r
<1>4. /\ \A i \in 1 .. n : i # n => i \in 1 .. n - 1 /\ i + 1 \in 1 .. n
      /\ \A i \in 1 .. n : i # 1 => i - 1 \in 1 .. n - 1 /\ i - 1 \in 1 .. n /\ (i - 1) + 1 = i
      /\ \A i, j \in 1 .. n - 1 : i # j => i + 1 # j + 1
      /\ \A i \in 1 .. n - 1 : i + 1 # 1
      /\ n \in 1 .. n
  BY <1>1, SMTT(40)
<1>5. Distinct(r)
  <2> SUFFICES ASSUME NEW i \in 1 .. n, NEW j \in 1 .. n, i # j PROVE r[i] # r[j]
    BY <1>3 DEF Distinct
  <2>1. CASE i = n
    BY <1>1, <1>3, <1>4, <2>1, SMTT(40) DEF Distinct
  <2>2. CASE j = n
    BY <1>1, <1>3, <1>4, <2>2, SMTT(40) DEF Distinct
  <2>3. CASE i # n /\ j # n
    <3>1. /\ i \in 1 .. n - 1 /\ j \in 1 .. n - 1 /\ i + 1 # j + 1
          /\ i + 1 \in 1 .. n /\ j + 1 \in 1 .. n
      BY <1>4, <2>3
    <3>2. r[i] = s[i + 1] /\ r[j] = s[j + 1]
      BY <1>3, <3>1
    <3>3. s[i + 1] # s[j + 1]
      BY <1>1, <3>1 DEF Distinct
    <3>4. QED BY <3>2, <3>3
  <2>4. QED BY <2>1, <2>2, <2>3
<1>6. Range(r) \subseteq Range(s)
  <2> SUFFICES ASSUME NEW i \in 1 .. n PROVE r[i] \in Range(s)
    BY <1>3 DEF Range
  <2>1. CASE i = n
    BY <1>1, <1>3, <2>1 DEF Range
  <2>2. CASE i # n
    BY <1>1, <1>3, <1>4, <2>2, SMTT(40) DEF Range
  <2>3. QED BY <2>1, <2>2
<1>7. Range(s) \subseteq Range(r)
  <2> SUFFICES ASSUME NEW i \in 1 .. n PROVE s[i] \in Range(r)
    BY <1>1 DEF Range
  <2>1. CASE i = 1
    BY <1>3, <1>4, <2>1 DEF Range
  <2>2. CASE i # 1
    BY <1>3, <1>4, <2>2, SMTT(40) DEF Range
  <2>3. QED BY <2>1, <2>2
<1>8. QED BY <1>1, <1>3, <1>5, <1>6, <1>7 DEF n, r, Range

(* remove_thread takes out the one occurrence.                             *)
LEMMA RemoveFacts ==
  ASSUME NEW S, NEW s \in Seq(S), Distinct(s), NEW e \in Range(s)
  PROVE  /\ RemoveThread(s, e) \in Seq(S) /\ Distinct(RemoveThread(s, e))
         /\ Range(RemoveThread(s, e)) = Range(s) \ {e}
<1> DEFINE n == Len(s)
           k == CHOOSE j \in DOMAIN s : s[j] = e
           r == RemoveThread(s, e)
<1>1. /\ n \in Nat /\ DOMAIN s = 1 .. n
      /\ \A i \in 1 .. n : s[i] \in S
  BY SMTT(40)
<1>2. k \in 1 .. n /\ s[k] = e
  BY <1>1 DEF Range
<1>3. r = SubSeq(s, 1, k - 1) \o SubSeq(s, k + 1, n)
  BY DEF RemoveThread
<1> HIDE DEF k
<1> HIDE DEF n, r
<1> DEFINE low == SubSeq(s, 1, k - 1)
           high == SubSeq(s, k + 1, n)
<1>4. /\ low \in Seq(S) /\ Len(low) = k - 1
      /\ \A i \in 1 .. k - 1 : low[i] = s[i]
  <2>1. k - 1 \in Int /\ 1 \in Int /\ \A i \in 1 .. k - 1 : s[i] \in S
    BY <1>1, <1>2, SMTT(40)
  <2>2. /\ low \in Seq(S) /\ Len(low) = (IF 1 <= k - 1 THEN (k - 1) - 1 + 1 ELSE 0)
        /\ \A i \in 1 .. (k - 1) - 1 + 1 : low[i] = s[1 + i - 1]
    BY <2>1, SubSeqProperties, SMTT(40)
  <2> HIDE DEF low
  <2>3. QED BY <1>1, <1>2, <2>2, SMTT(40)
<1>5. /\ high \in Seq(S) /\ Len(high) = n - k
      /\ \A i \in 1 .. n - k : high[i] = s[i + k]
  <2>1. k + 1 \in Int /\ n \in Int /\ \A i \in k + 1 .. n : s[i] \in S
    BY <1>1, <1>2, SMTT(40)
  <2>2. /\ high \in Seq(S) /\ Len(high) = (IF k + 1 <= n THEN n - (k + 1) + 1 ELSE 0)
        /\ \A i \in 1 .. n - (k + 1) + 1 : high[i] = s[(k + 1) + i - 1]
    BY <2>1, SubSeqProperties, SMTT(40)
  <2> HIDE DEF high
  <2>3. \A i \in 1 .. n - k : (k + 1) + i - 1 = i + k /\ i \in 1 .. n - (k + 1) + 1
    BY <1>1, <1>2, SMTT(40)
  <2>4. Len(high) = n - k
    BY <1>1, <1>2, <2>2, SMTT(40)
  <2>5. QED BY <2>2, <2>3, <2>4
<1> HIDE DEF low, high
<1>6. /\ r \in Seq(S) /\ Len(r) = n - 1 /\ DOMAIN r = 1 .. n - 1
      /\ \A i \in 1 .. n - 1 : r[i] = IF i < k THEN s[i] ELSE s[i + 1]
  <2>1. r = low \o high
    BY <1>3 DEF low, high
  <2>2. /\ r \in Seq(S) /\ Len(r) = Len(low) + Len(high)
        /\ \A i \in 1 .. Len(low) + Len(high) :
              r[i] = IF i <= Len(low) THEN low[i] ELSE high[i - Len(low)]
    BY <1>4, <1>5, <2>1, ConcatProperties
  <2>3. Len(r) = n - 1
    BY <1>1, <1>2, <1>4, <1>5, <2>2, SMTT(40)
  <2>4. ASSUME NEW i \in 1 .. n - 1 PROVE r[i] = IF i < k THEN s[i] ELSE s[i + 1]
    <3>1. CASE i < k
      <4>1. i <= Len(low) /\ i \in 1 .. k - 1
        BY <1>1, <1>2, <1>4, <3>1, SMTT(40)
      <4>2. QED BY <1>1, <1>2, <1>4, <1>5, <2>2, <3>1, <4>1, SMTT(40)
    <3>2. CASE ~(i < k)
      <4>1. ~(i <= Len(low)) /\ i - (k - 1) \in 1 .. n - k /\ (i - (k - 1)) + k = i + 1
        BY <1>1, <1>2, <1>4, <3>2, SMTT(40)
      <4>2. r[i] = high[i - (k - 1)]
        BY <1>1, <1>2, <1>4, <1>5, <2>2, <4>1, SMTT(40)
      <4>3. QED BY <1>5, <3>2, <4>1, <4>2
    <3>3. QED BY <3>1, <3>2
  <2>5. DOMAIN r = 1 .. Len(r)
    BY <2>2, SMTT(40)
  <2>6. QED BY <2>2, <2>3, <2>4, <2>5
<1> DEFINE to(i) == IF i < k THEN i ELSE i + 1
           from(i) == IF i < k THEN i ELSE i - 1
<1>7. /\ \A i \in 1 .. n - 1 : to(i) \in 1 .. n /\ to(i) # k /\ r[i] = s[to(i)]
      /\ \A i, j \in 1 .. n - 1 : i # j => to(i) # to(j)
      /\ \A i \in 1 .. n : i # k => from(i) \in 1 .. n - 1 /\ to(from(i)) = i
  BY <1>1, <1>2, <1>6, SMTT(40)
<1> HIDE DEF to, from
<1>8. Distinct(r)
  BY <1>1, <1>6, <1>7, SMTT(40) DEF Distinct
<1>9. Range(r) \subseteq Range(s) \ {e}
  <2> SUFFICES ASSUME NEW i \in 1 .. n - 1 PROVE r[i] \in Range(s) /\ r[i] # e
    BY <1>6 DEF Range
  <2>1. to(i) \in 1 .. n /\ to(i) # k /\ r[i] = s[to(i)]
    BY <1>7
  <2>2. QED BY <1>1, <1>2, <2>1 DEF Range, Distinct
<1>10. Range(s) \ {e} \subseteq Range(r)
  <2> SUFFICES ASSUME NEW i \in 1 .. n, s[i] # e PROVE s[i] \in Range(r)
    BY <1>1 DEF Range
  <2>1. i # k /\ from(i) \in 1 .. n - 1 /\ r[from(i)] = s[i]
    BY <1>2, <1>7
  <2>2. QED BY <1>6, <2>1 DEF Range
<1>11. QED BY <1>6, <1>8, <1>9, <1>10 DEF r
-----------------------------------------------------------------------------
(* The constants of the module as the proofs use them.                     *)
LEMMA TidFacts ==
  /\ Kernel \notin Tids /\ None \notin Tids /\ None # Kernel /\ None # Any
  /\ Tids \subseteq Nat /\ \A t \in Tids : t # Kernel
BY TasksAssumption, SMTT(40) DEF Kernel, Tids, Any

(* Who holds a thread.                                                     *)
LEMMA ArcsIff ==
  ASSUME NEW p, NEW n, NEW th, NEW x
  PROVE  x \in Arcs(p, n, th) <=>
           \/ x \in Range(p)
           \/ x = n /\ n # None
           \/ \E u \in Tids : th[u].at = "clone" /\ th[u].arg = x
BY DEF Arcs

(* A thread that exists, is not being created and has not exited.          *)
Lives(r) == r.at \notin {"none", "exit", "clone"} /\ r.status # "Zombie"

(* A step that leaves the pool and the arcs alone, and changes threads     *)
(* only from one place where they live to another.                         *)
LEMMA QuietStep ==
  ASSUME TasksInv, UNCHANGED <<pool, next, current, recycled>>,
         thread' \in [Tids -> ThreadRec],
         \A t \in Tids : thread'[t] = thread[t] \/ (Lives(thread[t]) /\ Lives(thread'[t]))
  PROVE  /\ Held' = Held /\ TidAccounting' /\ PoolExact' /\ ZombiesOut'
         /\ \A u, t \in Tids : ClonedBy(u, t)' <=> ClonedBy(u, t)
<1>1. \A t \in Tids : /\ thread'[t].at = "clone" <=> thread[t].at = "clone"
                      /\ thread'[t].at = "clone" => thread'[t].arg = thread[t].arg
                      /\ thread'[t].at = "none" <=> thread[t].at = "none"
                      /\ thread'[t].at \in {"none", "exit"} <=> thread[t].at \in {"none", "exit"}
                      /\ thread'[t].status = "Zombie" <=> thread[t].status = "Zombie"
  BY DEF Lives
<1>2. \A x : x \in Held' <=> x \in Held
  BY <1>1, ArcsIff, SMTT(40) DEF Held
<1>3. Held' = Held
  BY <1>2
<1>4. TidAccounting'
  BY <1>1, <1>3 DEF TasksInv, TidAccounting
<1>5. PoolExact'
  BY <1>1 DEF TasksInv, PoolExact
<1>6. ZombiesOut'
  BY <1>1 DEF TasksInv, ZombiesOut
<1>7. QED BY <1>1, <1>3, <1>4, <1>5, <1>6 DEF ClonedBy

(* TidAllocator::alloc hands out a tid that nobody has.                    *)
LEMMA AllocFacts ==
  ASSUME Types, TidAccounting, AllocTid
  PROVE  /\ NewTid \in Tids /\ NewTid \notin Held /\ thread[NewTid].at = "none"
         /\ current' \in 1 .. MaxTid + 1 /\ recycled' \in Seq(Tids)
         /\ Distinct(recycled') /\ (Held \cup {NewTid}) \cap Range(recycled') = {}
         /\ Held \cup {NewTid} \cup Range(recycled') = 1 .. current' - 1
<1>0. /\ Distinct(recycled) /\ recycled \in Seq(Tids) /\ current \in 1 .. MaxTid + 1
      /\ Held \cap Range(recycled) = {} /\ Held \cup Range(recycled) = 1 .. current - 1
      /\ \A t \in Tids : thread[t].at # "none" <=> t \in Held
  BY DEF Types, TidAccounting, Distinct
<1>1. CASE recycled = <<>>
  <2>1. NewTid = current /\ current <= MaxTid /\ current' = current + 1 /\ recycled' = recycled
    BY <1>1 DEF AllocTid, NewTid
  <2>2. /\ NewTid \in Tids /\ NewTid \notin 1 .. current - 1
        /\ 1 .. current' - 1 = (1 .. current - 1) \cup {NewTid}
        /\ current' \in 1 .. MaxTid + 1
    BY <1>0, <2>1, TasksAssumption, SMTT(40) DEF Tids
  <2>3. QED BY <1>0, <2>1, <2>2
<1>2. CASE recycled # <<>>
  <2>1. /\ NewTid = recycled[Len(recycled)] /\ current' = current
        /\ recycled' = SubSeq(recycled, 1, Len(recycled) - 1)
    BY <1>2 DEF AllocTid, NewTid
  <2>2. /\ NewTid \in Tids /\ NewTid \in Range(recycled) /\ recycled' \in Seq(Tids)
        /\ Distinct(recycled') /\ Range(recycled') = Range(recycled) \ {NewTid}
    BY <1>0, <1>2, <2>1, PopFacts
  <2>3. QED BY <1>0, <2>1, <2>2
<1>3. QED BY <1>1, <1>2

(* Thread::drop: the tid of a thread that nothing holds any more, and only *)
(* of one that has exited, goes back to the allocator.                     *)
LEMMA DropFacts ==
  ASSUME NEW t \in Tids, NEW th \in [Tids -> ThreadRec], NEW pr,
         Types, TidAccounting, UNCHANGED current, Drop(t, th, pr),
         Arcs(pool', next', th) \cup {t} = Held,
         \A u \in Tids : th[u].at # "none" <=> thread[u].at # "none",
         t \notin Arcs(pool', next', th) => th[t].at = "exit",
         DOMAIN pr = Tids,
         \A u \in Tids : /\ DOMAIN pr[u] = {"parent", "exited", "callbacks"}
                         /\ pr[u].parent \in Tids \cup {Kernel, None}
  PROVE  /\ TidAccounting' /\ Held' = Arcs(pool', next', th)
         /\ recycled' \in Seq(Tids) /\ thread' \in [Tids -> ThreadRec]
         /\ \A u \in Tids : \/ thread'[u] = th[u]
                            \/ u = t /\ th[u].at = "exit" /\ thread'[u] = NoThread
         /\ DOMAIN proc' = Tids
         /\ \A u \in Tids :
              \/ proc'[u] = NoProc /\ thread'[u] = NoThread
              \/ /\ DOMAIN proc'[u] = {"parent", "exited", "callbacks"}
                 /\ proc'[u].parent \in {pr[u].parent, None}
                 /\ proc'[u].exited = pr[u].exited /\ proc'[u].callbacks = pr[u].callbacks
                 /\ thread'[u] = th[u]
<1>0. /\ Distinct(recycled) /\ recycled \in Seq(Tids)
      /\ Held \cap Range(recycled) = {} /\ Held \cup Range(recycled) = 1 .. current - 1
      /\ \A u \in Tids : thread[u].at # "none" <=> u \in Held
  BY DEF Types, TidAccounting, Distinct
<1> DEFINE A == Arcs(pool', next', th)
<1>1. CASE t \in A
  <2>1. thread' = th /\ proc' = pr /\ recycled' = recycled
    BY <1>1 DEF Drop
  <2>2. Held' = A /\ A = Held
    BY <1>1, <2>1 DEF Held
  <2>3. TidAccounting'
    BY <1>0, <2>1, <2>2 DEF TidAccounting, Distinct
  <2>4. QED BY <1>0, <2>1, <2>2, <2>3
<1>2. CASE t \notin A
  <2>1. /\ thread' = [th EXCEPT ![t] = NoThread] /\ recycled' = Append(recycled, t)
        /\ proc' = [c \in Tids |->
             IF c = t THEN NoProc
             ELSE IF pr[c].parent = t THEN [pr[c] EXCEPT !.parent = None] ELSE pr[c]]
    BY <1>2 DEF Drop
  <2>2. NoThread \in ThreadRec
    BY DEF NoThread, ThreadRec, Status, Places
  <2>3. thread' \in [Tids -> ThreadRec] /\ \A u \in Tids : thread'[u] = IF u = t THEN NoThread ELSE th[u]
    BY <2>1, <2>2
  <2>4. th[t].at = "exit" /\ NoThread.at = "none"
    BY <1>2 DEF NoThread
  <2>5. \A u \in Tids : /\ th[u].at = "clone" <=> thread'[u].at = "clone"
                        /\ th[u].at = "clone" => th[u].arg = thread'[u].arg
    BY <2>3, <2>4
  <2>6. ASSUME NEW x PROVE x \in Held' <=> x \in A
    <3>1. Held' = Arcs(pool', next', thread')
      BY DEF Held
    <3>2. x \in Held' <=> \/ x \in Range(pool')
                          \/ x = next' /\ next' # None
                          \/ \E u \in Tids : thread'[u].at = "clone" /\ thread'[u].arg = x
      BY <3>1, ArcsIff, SMTT(40)
    <3>3. x \in A <=> \/ x \in Range(pool')
                      \/ x = next' /\ next' # None
                      \/ \E u \in Tids : th[u].at = "clone" /\ th[u].arg = x
      BY ArcsIff, SMTT(40)
    <3>4. (\E u \in Tids : th[u].at = "clone" /\ th[u].arg = x)
            <=> (\E u \in Tids : thread'[u].at = "clone" /\ thread'[u].arg = x)
      BY <2>5, ZenonT(60)
    <3>5. QED BY <3>2, <3>3, <3>4, ZenonT(60)
  <2>7. Held' = A
    BY <2>6
  <2>8. Held = A \cup {t} /\ t \notin Range(recycled)
    BY <1>0
  <2>9. /\ recycled' \in Seq(Tids) /\ Distinct(recycled')
        /\ Range(recycled') = Range(recycled) \cup {t}
    BY <1>0, <2>1, <2>8, AppendFacts, SMTT(40)
  <2>10. \A u \in Tids : thread'[u].at # "none" <=> u \in Held'
    BY <1>0, <1>2, <2>3, <2>4, <2>7, <2>8
  <2>11. /\ Held' \cap Range(recycled') = {}
         /\ Held' \cup Range(recycled') = 1 .. current' - 1
    <3>1. Held \cap Range(recycled) = {} /\ Held \cup Range(recycled) = 1 .. current' - 1 /\ t \notin A
      BY <1>0, <1>2
    <3>2. QED BY ONLY <2>7, <2>8, <2>9, <3>1, ZenonT(60)
  <2>12. TidAccounting'
    BY <2>9, <2>10, <2>11 DEF TidAccounting, Distinct
  <2>13. ASSUME NEW u \in Tids
         PROVE  \/ proc'[u] = NoProc /\ thread'[u] = NoThread
                \/ /\ DOMAIN proc'[u] = {"parent", "exited", "callbacks"}
                   /\ proc'[u].parent \in {pr[u].parent, None}
                   /\ proc'[u].exited = pr[u].exited /\ proc'[u].callbacks = pr[u].callbacks
                   /\ thread'[u] = th[u]
    <3>1. CASE u = t
      BY <2>1, <2>3, <3>1
    <3>2. CASE u # t /\ pr[u].parent = t
      <4>1. proc'[u] = [pr[u] EXCEPT !.parent = None]
        BY <2>1, <3>2
      <4>2. QED BY <2>3, <3>2, <4>1
    <3>3. CASE u # t /\ pr[u].parent # t
      BY <2>1, <2>3, <3>3
    <3>4. QED BY <3>1, <3>2, <3>3
  <2>14. QED BY <2>1, <2>3, <2>4, <2>7, <2>9, <2>12, <2>13
<1>3. QED BY <1>1, <1>2
-----------------------------------------------------------------------------
(* The timer: the callbacks of S find their threads in nanosleep.          *)
LEMMA ExpireFacts ==
  ASSUME TasksInv, NEW S \in SUBSET events, Expire(S)
  PROVE  /\ thread' \in [Tids -> ThreadRec]
         /\ \A t \in Tids : thread'[t].at = thread[t].at /\ thread'[t].arg = thread[t].arg
         /\ \A t \in Tids \ S : thread'[t] = thread[t]
         /\ \A t \in S : /\ thread'[t].status = "Ready" /\ Lives(thread[t]) /\ Lives(thread'[t])
                         /\ thread[t].at \in {"register", "sleep"}
<1>1. S \subseteq Tids /\ \A t \in S : thread[t].at \in {"register", "sleep"}
  BY DEF TasksInv, Types, CallbacksLive
<1>2. \A t \in S : thread[t].status # "Zombie"
  BY <1>1 DEF TasksInv, ZombiesOut
<1>3. \A t \in Tids : thread[t] \in ThreadRec
  BY DEF TasksInv, Types
<1>4. \A t \in Tids : thread'[t] = IF t \in S THEN [thread[t] EXCEPT !.status = "Ready"] ELSE thread[t]
  BY DEF Expire
<1>5. thread' = [t \in Tids |-> thread'[t]]
  BY DEF Expire
<1>6. \A r \in ThreadRec : /\ [r EXCEPT !.status = "Ready"] \in ThreadRec
                           /\ [r EXCEPT !.status = "Ready"].status = "Ready"
                           /\ [r EXCEPT !.status = "Ready"].at = r.at
                           /\ [r EXCEPT !.status = "Ready"].arg = r.arg
  BY DEF ThreadRec, Status
<1>7. thread' \in [Tids -> ThreadRec]
  BY <1>3, <1>4, <1>5, <1>6
<1>8. \A t \in Tids : thread'[t].at = thread[t].at /\ thread'[t].arg = thread[t].arg
  BY <1>3, <1>4, <1>6
<1>9. ASSUME NEW t \in S PROVE thread'[t].status = "Ready"
  <2>1. thread'[t] = [thread[t] EXCEPT !.status = "Ready"] /\ thread[t] \in ThreadRec
    BY <1>1, <1>3, <1>4
  <2>2. QED BY <1>6, <2>1
<1>10. \A t \in S : Lives(thread[t]) /\ Lives(thread'[t])
  BY <1>1, <1>2, <1>8, <1>9 DEF Lives
<1>11. QED BY <1>1, <1>4, <1>7, <1>8, <1>9, <1>10

(* handle_trap for the timer.                                              *)
LEMMA TimerInv ==
  ASSUME TasksInv, NEW S \in SUBSET events, Tick(S) \/ Preempt(S)
  PROVE  TasksInv'
<1>1. /\ Expire(S) /\ UNCHANGED <<pool, next, proc, current, recycled>> /\ events' = events \ S
      /\ cur' \in {cur, Kernel} /\ sie' \in {sie, FALSE}
  BY DEF Tick, Preempt, Expire
<1>2. /\ thread' \in [Tids -> ThreadRec]
      /\ \A t \in Tids : thread'[t].at = thread[t].at /\ thread'[t].arg = thread[t].arg
      /\ \A t \in Tids \ S : thread'[t] = thread[t]
      /\ \A t \in S : /\ thread'[t].status = "Ready" /\ Lives(thread[t]) /\ Lives(thread'[t])
                      /\ thread[t].at \in {"register", "sleep"}
  BY <1>1, ExpireFacts
<1>3. /\ TidAccounting' /\ PoolExact' /\ ZombiesOut'
      /\ \A u, t \in Tids : ClonedBy(u, t)' <=> ClonedBy(u, t)
  BY <1>1, <1>2, QuietStep
<1>4. Types'
  BY <1>1, <1>2 DEF TasksInv, Types
<1>5. RunningHeld'
  BY <1>1, <1>2, <1>3, TidFacts, SMTT(40) DEF TasksInv, Types, RunningHeld, Lives
<1>6. NotOwnParent'
  BY <1>1 DEF TasksInv, NotOwnParent
<1>7. WaiterWillWake'
  BY <1>1, <1>2 DEF TasksInv, WaiterWillWake
<1>8. CallbacksLive' /\ WokenOnce'
  BY <1>1, <1>2, SMTT(40) DEF TasksInv, Types, CallbacksLive, WokenOnce
<1>9. QED BY <1>3, <1>4, <1>5, <1>6, <1>7, <1>8 DEF TasksInv

(* A step in which the running thread goes on in the kernel, or to user    *)
(* code, or blocks: r is what becomes of it.                               *)
LEMMA OwnStep ==
  ASSUME TasksInv, NEW r \in ThreadRec, cur \in Tids,
         thread' = [thread EXCEPT ![cur] = r], Lives(thread[cur]), Lives(r),
         UNCHANGED <<pool, next, current, recycled>>
  PROVE  /\ Held' = Held /\ TidAccounting' /\ PoolExact' /\ ZombiesOut'
         /\ \A u, t \in Tids : ClonedBy(u, t)' <=> ClonedBy(u, t)
         /\ thread' \in [Tids -> ThreadRec] /\ thread'[cur] = r
         /\ \A t \in Tids \ {cur} : thread'[t] = thread[t]
<1>1. thread \in [Tids -> ThreadRec]
  BY DEF TasksInv, Types
<1>2. /\ thread' \in [Tids -> ThreadRec] /\ thread'[cur] = r
      /\ \A t \in Tids \ {cur} : thread'[t] = thread[t]
  BY <1>1
<1>3. \A t \in Tids : thread'[t] = thread[t] \/ (Lives(thread[t]) /\ Lives(thread'[t]))
  BY <1>2
<1>4. QED BY <1>2, <1>3, QuietStep

(* sched_yield.                                                            *)
LEMMA YieldInv ==
  ASSUME TasksInv, SchedYield
  PROVE  TasksInv'
<1>1. /\ cur' = Kernel /\ sie' = TRUE
      /\ UNCHANGED <<pool, next, thread, proc, current, recycled, events>>
  BY DEF SchedYield, ToScheduler
<1>2. thread' \in [Tids -> ThreadRec]
  BY <1>1 DEF TasksInv, Types
<1>3. TidAccounting' /\ PoolExact' /\ ZombiesOut'
  BY <1>1, <1>2, QuietStep
<1>4. Types' /\ RunningHeld'
  BY <1>1, TidFacts DEF TasksInv, Types, RunningHeld
<1>5. NotOwnParent' /\ WaiterWillWake' /\ CallbacksLive' /\ WokenOnce'
  BY <1>1 DEF TasksInv, NotOwnParent, WaiterWillWake, CallbacksLive, WokenOnce
<1>6. QED BY <1>3, <1>4, <1>5 DEF TasksInv

(* nanosleep.                                                              *)
LEMMA SleepInv ==
  ASSUME TasksInv, Register \/ Sleep \/ SleepReturn
  PROVE  TasksInv'
<1>0. /\ cur \in Tids /\ thread[cur] \in ThreadRec /\ thread \in [Tids -> ThreadRec]
      /\ sie \in BOOLEAN
      /\ UNCHANGED <<pool, next, proc, current, recycled>>
  BY DEF TasksInv, Types, Register, Sleep, SleepReturn, Running
<1>1. Lives(thread[cur])
  BY DEF TasksInv, RunningHeld, Register, Sleep, SleepReturn, Running, Lives
<1>2. PICK r \in ThreadRec :
        /\ thread' = [thread EXCEPT ![cur] = r] /\ Lives(r)
        /\ \/ /\ thread[cur].at = "user" /\ r.at = "register" /\ r.status = thread[cur].status
              /\ events' = events \cup {cur} /\ cur' = cur /\ sie' \in BOOLEAN
           \/ /\ thread[cur].at = "register" /\ r.at = "sleep" /\ r.status = "Waiting"
              /\ events' = events /\ cur' = Kernel /\ sie' \in BOOLEAN
           \/ /\ thread[cur].at = "sleep" /\ r.at = "user" /\ r.status = thread[cur].status
              /\ events' = events /\ cur' = cur /\ sie' \in BOOLEAN
  <2>1. CASE Register
    <3>1. [thread[cur] EXCEPT !.at = "register"] \in ThreadRec
      BY <1>0 DEF ThreadRec, Places
    <3>2. thread' = [thread EXCEPT ![cur] = [thread[cur] EXCEPT !.at = "register"]]
      BY <1>0, <2>1 DEF Register
    <3>3. QED BY <1>0, <1>1, <2>1, <3>1, <3>2 DEF Register, Running, Lives, ThreadRec
  <2>2. CASE Sleep
    <3>1. [status |-> "Waiting", at |-> "sleep", arg |-> thread[cur].arg] \in ThreadRec
      BY <1>0 DEF ThreadRec, Places, Status
    <3>2. thread' = [thread EXCEPT ![cur] = [status |-> "Waiting", at |-> "sleep", arg |-> thread[cur].arg]]
      BY <1>0, <2>2 DEF Sleep
    <3>3. QED BY <1>0, <1>1, <2>2, <3>1, <3>2 DEF Sleep, Running, Lives, ToScheduler
  <2>3. CASE SleepReturn
    <3>1. [thread[cur] EXCEPT !.at = "user"] \in ThreadRec
      BY <1>0 DEF ThreadRec, Places
    <3>2. thread' = [thread EXCEPT ![cur] = [thread[cur] EXCEPT !.at = "user"]]
      BY <1>0, <2>3 DEF SleepReturn
    <3>3. QED BY <1>0, <1>1, <2>3, <3>1, <3>2 DEF SleepReturn, Running, Lives, ThreadRec, Return
  <2>4. QED BY <2>1, <2>2, <2>3
<1>3. /\ TidAccounting' /\ PoolExact' /\ ZombiesOut'
      /\ \A u, t \in Tids : ClonedBy(u, t)' <=> ClonedBy(u, t)
      /\ thread' \in [Tids -> ThreadRec] /\ thread'[cur] = r
      /\ \A t \in Tids \ {cur} : thread'[t] = thread[t]
  BY <1>0, <1>1, <1>2, OwnStep
<1>4. Types'
  BY <1>0, <1>2, <1>3 DEF TasksInv, Types
<1>5. RunningHeld'
  BY <1>0, <1>1, <1>2, <1>3, TidFacts DEF TasksInv, RunningHeld, Lives
<1>6. NotOwnParent' /\ WaiterWillWake'
  BY <1>0, <1>2, <1>3 DEF TasksInv, NotOwnParent, WaiterWillWake
<1>7. CallbacksLive'
  <2> SUFFICES ASSUME NEW t \in events' PROVE thread'[t].at \in {"register", "sleep"}
    BY DEF CallbacksLive
  <2>1. CASE t # cur
    <3>1. t \in events /\ t \in Tids
      BY <1>2, <2>1 DEF TasksInv, Types
    <3>2. QED BY <1>3, <2>1, <3>1 DEF TasksInv, CallbacksLive
  <2>2. CASE t = cur
    <3>1. cur \in events => ~(thread[cur].at = "sleep")
      <4>1. thread[cur].at = "sleep" => thread[cur].status = "Ready"
        BY <1>0 DEF TasksInv, RunningHeld
      <4>2. QED BY <4>1 DEF TasksInv, WokenOnce
    <3>2. r.at \in {"register", "sleep"}
      BY <1>2, <2>2, <3>1
    <3>3. QED BY <1>3, <2>2, <3>2
  <2>3. QED BY <2>1, <2>2
<1>8. WokenOnce'
  BY <1>0, <1>2, <1>3 DEF TasksInv, Types, WokenOnce
<1>9. QED BY <1>3, <1>4, <1>5, <1>6, <1>7, <1>8 DEF TasksInv

(* wait4: a child is reaped, or the parent goes to sleep with a callback.  *)
LEMMA WaitInv ==
  ASSUME TasksInv, Wait4Loop \/ \E pid \in Pids : Wait4(pid)
  PROVE  TasksInv'
<1>0. /\ cur \in Tids /\ thread[cur] \in ThreadRec /\ thread \in [Tids -> ThreadRec]
      /\ sie \in BOOLEAN /\ DOMAIN proc = Tids
      /\ \A t \in Tids :
           /\ DOMAIN proc[t] = {"parent", "exited", "callbacks"}
           /\ proc[t].parent \in Tids \cup {Kernel, None} /\ proc[t].callbacks \in Nat
      /\ UNCHANGED <<pool, next, current, recycled, events>>
  BY DEF TasksInv, Types, Wait4Loop, Wait4, Running
<1>1. Lives(thread[cur]) /\ thread[cur].at \in {"user", "wait"}
  BY DEF TasksInv, RunningHeld, Wait4Loop, Wait4, Running, Lives
<1>2. PICK pid \in Tids \cup {Any, None} :
        Reap(pid) \/ (Block(pid) /\ sie' \in BOOLEAN)
  <2>1. CASE Wait4Loop
    BY <1>0, <2>1 DEF Wait4Loop, ThreadRec
  <2>2. CASE \E pid \in Pids : Wait4(pid)
    <3>1. Pids \subseteq Tids \cup {Any, None}
      BY TasksAssumption, SMTT(40) DEF Tids, Any, Kernel
    <3>2. QED BY <2>2, <3>1 DEF Wait4
  <2>3. QED BY <2>1, <2>2
<1>3. proc[cur].callbacks = 0
  BY <1>0, <1>1 DEF TasksInv, RunningHeld, WaiterWillWake
<1>4. PICK r \in ThreadRec :
        /\ thread' = [thread EXCEPT ![cur] = r] /\ Lives(r) /\ sie' \in BOOLEAN
        /\ DOMAIN proc' = Tids /\ \A t \in Tids \ {cur} : proc'[t] = proc[t]
        /\ DOMAIN proc'[cur] = {"parent", "exited", "callbacks"}
        /\ proc'[cur].parent = proc[cur].parent
        /\ \/ /\ r.at = "user" /\ r.status = thread[cur].status /\ cur' = cur
              /\ proc'[cur].callbacks = 0
           \/ /\ r.at = "wait" /\ r.status = "Waiting" /\ r.arg = pid /\ cur' = Kernel
              /\ proc'[cur].callbacks = 1
              /\ ~ \E c \in Range(proc'[cur].exited) : Matches(pid, c)
  <2>1. CASE Reap(pid)
    <3> DEFINE r == [status |-> thread[cur].status, at |-> "user", arg |-> None]
    <3>1. r \in ThreadRec /\ Lives(r) /\ r.at = "user" /\ r.status = thread[cur].status
      BY <1>0, <1>1 DEF ThreadRec, Places, Lives
    <3>2. thread' = [thread EXCEPT ![cur] = r]
      BY <1>0, <2>1 DEF Reap, Returned
    <3>3. /\ DOMAIN proc' = Tids /\ \A t \in Tids \ {cur} : proc'[t] = proc[t]
          /\ proc'[cur] = [proc[cur] EXCEPT !.exited = Remaining(@, pid)]
      BY <1>0, <2>1 DEF Reap
    <3>4. /\ DOMAIN proc'[cur] = {"parent", "exited", "callbacks"}
          /\ proc'[cur].parent = proc[cur].parent /\ proc'[cur].callbacks = proc[cur].callbacks
      BY <1>0, <3>3
    <3>5. cur' = cur /\ sie' \in BOOLEAN
      BY <2>1 DEF Reap, Return
    <3> HIDE DEF r
    <3>6. QED BY <1>3, <3>1, <3>2, <3>3, <3>4, <3>5
  <2>2. CASE Block(pid) /\ sie' \in BOOLEAN
    <3> DEFINE r == [status |-> "Waiting", at |-> "wait", arg |-> pid]
    <3>1. r \in ThreadRec /\ Lives(r) /\ r.at = "wait" /\ r.status = "Waiting" /\ r.arg = pid
      BY DEF ThreadRec, Places, Lives, Status
    <3>2. thread' = [thread EXCEPT ![cur] = r]
      BY <1>0, <2>2 DEF Block
    <3>3. /\ DOMAIN proc' = Tids /\ \A t \in Tids \ {cur} : proc'[t] = proc[t]
          /\ proc'[cur] = [proc[cur] EXCEPT !.callbacks = @ + 1]
      BY <1>0, <2>2 DEF Block
    <3>4. /\ DOMAIN proc'[cur] = {"parent", "exited", "callbacks"}
          /\ proc'[cur].parent = proc[cur].parent /\ proc'[cur].exited = proc[cur].exited
          /\ proc'[cur].callbacks = 1
      BY <1>0, <1>3, <3>3, SMTT(40)
    <3>5. cur' = Kernel
      BY <2>2 DEF Block, ToScheduler
    <3>6. ~ \E c \in Range(proc'[cur].exited) : Matches(pid, c)
      BY <2>2, <3>4 DEF Block, Range
    <3> HIDE DEF r
    <3>7. QED BY <2>2, <3>1, <3>2, <3>3, <3>4, <3>5, <3>6
  <2>3. QED BY <1>2, <2>1, <2>2
<1>5. /\ TidAccounting' /\ PoolExact' /\ ZombiesOut'
      /\ \A u, t \in Tids : ClonedBy(u, t)' <=> ClonedBy(u, t)
      /\ thread' \in [Tids -> ThreadRec] /\ thread'[cur] = r
      /\ \A t \in Tids \ {cur} : thread'[t] = thread[t]
  BY <1>0, <1>1, <1>4, OwnStep
<1>6. Types'
  BY <1>0, <1>4, <1>5, SMTT(40) DEF TasksInv, Types
<1>7. RunningHeld'
  BY <1>0, <1>1, <1>4, <1>5, TidFacts, SMTT(40) DEF TasksInv, RunningHeld, Lives
<1>8. NotOwnParent'
  BY <1>0, <1>4 DEF TasksInv, NotOwnParent
<1>9. ASSUME NEW t \in Tids
      PROVE  IF thread'[t].at = "wait" /\ thread'[t].status = "Waiting"
             THEN /\ proc'[t].callbacks = 1
                  /\ ~ \E c \in Range(proc'[t].exited) : Matches(thread'[t].arg, c)
             ELSE proc'[t].callbacks = 0
  <2>1. CASE t = cur
    BY <1>4, <1>5, <2>1
  <2>2. CASE t # cur
    <3>1. thread'[t] = thread[t] /\ proc'[t] = proc[t]
      BY <1>4, <1>5, <2>2
    <3>2. QED BY <3>1 DEF TasksInv, WaiterWillWake
  <2>3. QED BY <2>1, <2>2
<1>10. CallbacksLive' /\ WokenOnce'
  BY <1>0, <1>1, <1>5 DEF TasksInv, Types, CallbacksLive, WokenOnce
<1>11. WaiterWillWake'
  BY <1>9 DEF WaiterWillWake
<1>12. QED BY <1>5, <1>6, <1>7, <1>8, <1>10, <1>11 DEF TasksInv
-----------------------------------------------------------------------------
(* The loop of schedule.                                                   *)
LEMMA GetNextInv ==
  ASSUME TasksInv, GetNext
  PROVE  TasksInv'
<1> DEFINE t == Head(pool)
<1>0. /\ cur = Kernel /\ next = None /\ pool # <<>> /\ pool \in Seq(Tids) /\ sie \in BOOLEAN
      /\ Distinct(pool) /\ pool' = Append(Tail(pool), t) /\ next' = t
      /\ cur' = IF thread[t].status = "Ready" THEN t ELSE Kernel
      /\ sie' \in BOOLEAN
      /\ UNCHANGED <<thread, proc, current, recycled, events>>
  BY DEF TasksInv, Types, PoolExact, Distinct, GetNext
<1>1. /\ pool' \in Seq(Tids) /\ Distinct(pool') /\ Range(pool') = Range(pool) /\ t \in Tids /\ t \in Range(pool)
  BY <1>0, RotateFacts
<1> HIDE DEF t
<1>2. \A x : x \in Held' <=> x \in Held
  BY <1>0, <1>1, ArcsIff, SMTT(40) DEF Held
<1>3. Held' = Held
  BY <1>2
<1>4. TidAccounting' /\ PoolExact' /\ ZombiesOut'
  BY <1>0, <1>1, <1>3 DEF TasksInv, TidAccounting, PoolExact, ZombiesOut, Distinct
<1>5. Types'
  BY <1>0, <1>1 DEF TasksInv, Types
<1>6. RunningHeld'
  BY <1>0, <1>1, TidFacts DEF RunningHeld
<1>7. NotOwnParent' /\ WaiterWillWake' /\ CallbacksLive' /\ WokenOnce'
  BY <1>0 DEF TasksInv, NotOwnParent, WaiterWillWake, CallbacksLive, WokenOnce
<1>8. QED BY <1>4, <1>5, <1>6, <1>7 DEF TasksInv

(* Thread::new_thread for the next program.                                *)
LEMMA NextProgramInv ==
  ASSUME TasksInv, NextProgram
  PROVE  TasksInv'
<1> DEFINE n == NewTid
<1>0. /\ cur = Kernel /\ next = None /\ pool = <<>> /\ AllocTid /\ pool' = <<n>>
      /\ thread' = [thread EXCEPT ![n] = NewThread]
      /\ proc' = [proc EXCEPT ![n] = [NoProc EXCEPT !.parent = Kernel]]
      /\ UNCHANGED <<cur, sie, next, events>>
  BY DEF NextProgram
<1>1. /\ n \in Tids /\ n \notin Held /\ thread[n].at = "none"
      /\ current' \in 1 .. MaxTid + 1 /\ recycled' \in Seq(Tids)
      /\ Distinct(recycled') /\ (Held \cup {n}) \cap Range(recycled') = {}
      /\ Held \cup {n} \cup Range(recycled') = 1 .. current' - 1
  BY <1>0, AllocFacts DEF TasksInv
<1> HIDE DEF n
<1>2. NewThread \in ThreadRec /\ NewThread.at = "user" /\ NewThread.status = "Ready"
  BY DEF NewThread, ThreadRec, Status, Places
<1>3. /\ thread' \in [Tids -> ThreadRec] /\ thread'[n] = NewThread
      /\ \A t \in Tids \ {n} : thread'[t] = thread[t]
  BY <1>0, <1>1, <1>2 DEF TasksInv, Types
<1>4. /\ DOMAIN proc' = Tids /\ \A t \in Tids \ {n} : proc'[t] = proc[t]
      /\ DOMAIN proc'[n] = {"parent", "exited", "callbacks"}
      /\ proc'[n].parent = Kernel /\ proc'[n].callbacks = 0
  BY <1>0, <1>1 DEF TasksInv, Types, NoProc
<1>5. pool' \in Seq(Tids) /\ Distinct(pool') /\ Range(pool') = {n} /\ Range(pool) = {}
  BY <1>0, <1>1, SMTT(40) DEF Distinct, Range
<1>6. \A t \in Tids : /\ thread'[t].at = "clone" <=> thread[t].at = "clone"
                      /\ thread'[t].at = "clone" => thread'[t].arg = thread[t].arg
  BY <1>1, <1>2, <1>3
<1>7. Held' = Held \cup {n}
  <2>1. ASSUME NEW x PROVE x \in Held' <=> x \in Held \cup {n}
    <3>1. x \in Held' <=> \/ x = n
                          \/ \E u \in Tids : thread'[u].at = "clone" /\ thread'[u].arg = x
      <4>1. Held' = Arcs(pool', next', thread')
        BY DEF Held
      <4>2. x \in Held' <=> \/ x \in Range(pool') \/ (x = next' /\ next' # None)
                            \/ \E u \in Tids : thread'[u].at = "clone" /\ thread'[u].arg = x
        BY <4>1, ArcsIff, SMTT(40)
      <4>3. QED BY <1>0, <1>5, <4>2
    <3>2. x \in Held <=> \E u \in Tids : thread[u].at = "clone" /\ thread[u].arg = x
      BY <1>0, <1>5, ArcsIff, SMTT(40) DEF Held
    <3>3. QED BY <1>6, <3>1, <3>2
  <2>2. QED BY <2>1
<1>8. TidAccounting'
  BY <1>1, <1>2, <1>3, <1>7 DEF TasksInv, TidAccounting, Distinct
<1>9. PoolExact' /\ ZombiesOut'
  <2>1. \A t \in Tids : thread[t].status = "Zombie"
    BY <1>5 DEF TasksInv, PoolExact
  <2>2. \A t \in Tids : thread'[t].status # "Zombie" <=> t = n
    BY <1>1, <1>2, <1>3, <2>1
  <2>3. PoolExact'
    BY <1>1, <1>5, <2>2 DEF PoolExact, Distinct
  <2>4. ZombiesOut'
    BY <1>2, <1>3, <2>1, <2>2 DEF TasksInv, ZombiesOut
  <2>5. QED BY <2>3, <2>4
<1>10. Types' /\ RunningHeld'
  BY <1>0, <1>1, <1>3, <1>4, <1>5, TidFacts, SMTT(40) DEF TasksInv, Types, RunningHeld
<1>11. NotOwnParent'
  BY <1>1, <1>4, TidFacts DEF TasksInv, NotOwnParent
<1>12. WaiterWillWake'
  BY <1>2, <1>3, <1>4, SMTT(40) DEF TasksInv, WaiterWillWake
<1>13. CallbacksLive' /\ WokenOnce'
  BY <1>0, <1>1, <1>3 DEF TasksInv, Types, CallbacksLive, WokenOnce
<1>14. QED BY <1>8, <1>9, <1>10, <1>11, <1>12, <1>13 DEF TasksInv

(* The end of the body of the loop drops next_thread.                      *)
LEMMA DropNextInv ==
  ASSUME TasksInv, DropNext
  PROVE  TasksInv'
<1>0. /\ cur = Kernel /\ next \in Tids /\ next' = None /\ Drop(next, thread, proc)
      /\ thread \in [Tids -> ThreadRec] /\ DOMAIN proc = Tids
      /\ \A t \in Tids :
           /\ DOMAIN proc[t] = {"parent", "exited", "callbacks"}
           /\ proc[t].parent \in Tids \cup {Kernel, None}
      /\ UNCHANGED <<cur, sie, pool, current, events>>
  BY DEF TasksInv, Types, DropNext
<1> DEFINE A == Arcs(pool', next', thread)
<1>1. A \cup {next} = Held
  <2>1. \A x : x \in Held <=> x \in A \cup {next}
    BY <1>0, ArcsIff, TidFacts, SMTT(40) DEF Held
  <2>2. QED BY <2>1
<1>2. next \notin A => thread[next].at = "exit"
  <2>1. next \notin A => next \notin Range(pool)
    BY <1>0, ArcsIff
  <2>2. next \notin Range(pool) => thread[next].at \in {"none", "exit"}
    BY <1>0 DEF TasksInv, PoolExact, ZombiesOut
  <2>3. thread[next].at # "none"
    BY <1>0, <1>1 DEF TasksInv, TidAccounting
  <2>4. QED BY <2>1, <2>2, <2>3
<1>3. /\ TidAccounting' /\ recycled' \in Seq(Tids) /\ thread' \in [Tids -> ThreadRec]
      /\ \A u \in Tids : \/ thread'[u] = thread[u]
                         \/ u = next /\ thread[u].at = "exit" /\ thread'[u] = NoThread
      /\ DOMAIN proc' = Tids
      /\ \A u \in Tids :
           \/ proc'[u] = NoProc /\ thread'[u] = NoThread
           \/ /\ DOMAIN proc'[u] = {"parent", "exited", "callbacks"}
              /\ proc'[u].parent \in {proc[u].parent, None}
              /\ proc'[u].exited = proc[u].exited /\ proc'[u].callbacks = proc[u].callbacks
              /\ thread'[u] = thread[u]
  BY <1>0, <1>1, <1>2, DropFacts, SMTT(40) DEF TasksInv
<1>4. /\ NoThread.at = "none" /\ NoThread.status = "Zombie"
      /\ DOMAIN NoProc = {"parent", "exited", "callbacks"}
      /\ NoProc.parent = None /\ NoProc.callbacks = 0
  BY DEF NoThread, NoProc
<1>5. PoolExact' /\ ZombiesOut'
  BY <1>0, <1>3, <1>4, SMTT(40) DEF TasksInv, PoolExact, ZombiesOut
<1>6. Types' /\ RunningHeld'
  <2>1. \A t \in Tids :
          /\ DOMAIN proc'[t] = {"parent", "exited", "callbacks"}
          /\ proc'[t].parent \in Tids \cup {Kernel, None} /\ proc'[t].callbacks \in Nat
    BY <1>0, <1>3, <1>4, SMTT(40) DEF TasksInv, Types
  <2>2. Types'
    BY <1>0, <1>3, <2>1 DEF TasksInv, Types
  <2>3. QED BY <1>0, <2>2, TidFacts DEF RunningHeld
<1>7. NotOwnParent'
  BY <1>0, <1>3, <1>4, TidFacts, SMTT(40) DEF TasksInv, NotOwnParent
<1>8. WaiterWillWake'
  <2> SUFFICES ASSUME NEW t \in Tids
               PROVE  (IF thread[t].at = "wait" /\ thread[t].status = "Waiting"
                       THEN /\ proc[t].callbacks = 1
                            /\ ~ \E c \in Range(proc[t].exited) : Matches(thread[t].arg, c)
                       ELSE proc[t].callbacks = 0)'
    BY DEF WaiterWillWake
  <2>1. CASE proc'[t] = NoProc /\ thread'[t] = NoThread
    BY <1>4, <2>1
  <2>2. CASE /\ proc'[t].exited = proc[t].exited /\ proc'[t].callbacks = proc[t].callbacks
             /\ thread'[t] = thread[t]
    BY <2>2 DEF TasksInv, WaiterWillWake
  <2>3. QED BY <1>3, <2>1, <2>2
<1>9. CallbacksLive' /\ WokenOnce'
  BY <1>0, <1>3 DEF TasksInv, Types, CallbacksLive, WokenOnce
<1>10. QED BY <1>3, <1>5, <1>6, <1>7, <1>8, <1>9 DEF TasksInv
-----------------------------------------------------------------------------
(* sys_clone, up to the switch to the child.                               *)
LEMMA CloneInv ==
  ASSUME TasksInv, Clone
  PROVE  TasksInv'
<1> DEFINE n == NewTid
           c == [status |-> "Ready", at |-> "clone", arg |-> n]
<1>0. /\ cur \in Tids /\ thread[cur].at = "user" /\ AllocTid /\ pool' = Append(pool, n)
      /\ thread' = [[thread EXCEPT ![n] = NewThread] EXCEPT ![cur] = c]
      /\ proc' = [proc EXCEPT ![n] = [NoProc EXCEPT !.parent = cur]]
      /\ cur' = n /\ UNCHANGED <<sie, next, events>>
  BY DEF Clone, Running
<1>1. /\ n \in Tids /\ n \notin Held /\ thread[n].at = "none"
      /\ current' \in 1 .. MaxTid + 1 /\ recycled' \in Seq(Tids)
      /\ Distinct(recycled') /\ (Held \cup {n}) \cap Range(recycled') = {}
      /\ Held \cup {n} \cup Range(recycled') = 1 .. current' - 1
  BY <1>0, AllocFacts DEF TasksInv
<1> HIDE DEF n
<1>2. /\ NewThread \in ThreadRec /\ NewThread.at = "user" /\ NewThread.status = "Ready"
      /\ c \in ThreadRec /\ c.at = "clone" /\ c.status = "Ready" /\ c.arg = n
  BY <1>1 DEF NewThread, ThreadRec, Status, Places
<1> HIDE DEF c
<1>3. n # cur
  BY <1>0, <1>1
<1>4. /\ thread' \in [Tids -> ThreadRec] /\ thread'[n] = NewThread /\ thread'[cur] = c
      /\ \A t \in Tids \ {n, cur} : thread'[t] = thread[t]
  BY <1>0, <1>1, <1>2, <1>3 DEF TasksInv, Types
<1>5. /\ DOMAIN proc' = Tids /\ \A t \in Tids \ {n} : proc'[t] = proc[t]
      /\ DOMAIN proc'[n] = {"parent", "exited", "callbacks"}
      /\ proc'[n].parent = cur /\ proc'[n].callbacks = 0
  BY <1>0, <1>1 DEF TasksInv, Types, NoProc
<1>6. n \notin Range(pool)
  BY <1>1, ArcsIff DEF Held
<1>7. pool' \in Seq(Tids) /\ Distinct(pool') /\ Range(pool') = Range(pool) \cup {n}
  <2>1. pool \in Seq(Tids) /\ Distinct(pool)
    BY DEF TasksInv, Types, PoolExact, Distinct
  <2>2. QED BY <1>0, <1>1, <1>6, <2>1, AppendFacts, SMTT(40)
<1>8. Held' = Held \cup {n}
  <2>1. ASSUME NEW x PROVE x \in Held' <=> x \in Held \cup {n}
    <3>1. x \in Held' <=> \/ x \in Range(pool) \/ x = n \/ (x = next /\ next # None)
                          \/ \E u \in Tids : thread'[u].at = "clone" /\ thread'[u].arg = x
      <4>1. Held' = Arcs(pool', next', thread')
        BY DEF Held
      <4>2. x \in Held' <=> \/ x \in Range(pool') \/ (x = next' /\ next' # None)
                            \/ \E u \in Tids : thread'[u].at = "clone" /\ thread'[u].arg = x
        BY <4>1, ArcsIff, SMTT(40)
      <4>3. QED BY <1>0, <1>7, <4>2
    <3>2. x \in Held <=> \/ x \in Range(pool) \/ (x = next /\ next # None)
                         \/ \E u \in Tids : thread[u].at = "clone" /\ thread[u].arg = x
      BY ArcsIff, SMTT(40) DEF Held
    <3>3. \A u \in Tids : (thread'[u].at = "clone" /\ thread'[u].arg = x) =>
                           x = n \/ (thread[u].at = "clone" /\ thread[u].arg = x)
      BY <1>2, <1>4
    <3>4. \A u \in Tids : (thread[u].at = "clone" /\ thread[u].arg = x) =>
                           (thread'[u].at = "clone" /\ thread'[u].arg = x)
      BY <1>0, <1>1, <1>4
    <3>5. QED BY <3>1, <3>2, <3>3, <3>4
  <2>2. QED BY <2>1
<1>9. TidAccounting'
  <2>1. \A t \in Tids : thread'[t].at # "none" <=> t \in Held'
    BY <1>0, <1>1, <1>2, <1>4, <1>8 DEF TasksInv, TidAccounting
  <2>2. QED BY <1>1, <1>8, <2>1 DEF TidAccounting, Distinct
<1>10. PoolExact' /\ ZombiesOut'
  <2>1. thread[n].status = "Zombie" /\ thread[cur].status # "Zombie"
    BY <1>0, <1>1 DEF TasksInv, ZombiesOut
  <2>2. \A t \in Tids : thread'[t].status # "Zombie" <=> t = n \/ thread[t].status # "Zombie"
    BY <1>2, <1>4, <2>1
  <2>3. Range(pool') = {t \in Tids : thread'[t].status # "Zombie"}
    BY <1>1, <1>7, <2>2 DEF TasksInv, PoolExact
  <2>4. PoolExact'
    BY <1>7, <2>3 DEF PoolExact, Distinct
  <2>5. ZombiesOut'
    <3> SUFFICES ASSUME NEW t \in Tids PROVE (thread[t].status = "Zombie" <=> thread[t].at \in {"none", "exit"})'
      BY DEF ZombiesOut
    <3>1. CASE t = n \/ t = cur
      BY <1>2, <1>4, <3>1
    <3>2. CASE t \notin {n, cur}
      BY <1>4, <3>2 DEF TasksInv, ZombiesOut
    <3>3. QED BY <3>1, <3>2
  <2>6. QED BY <2>4, <2>5
<1>11. Types'
  BY <1>0, <1>1, <1>4, <1>5, <1>7, SMTT(40) DEF TasksInv, Types
<1>12. RunningHeld'
  BY <1>0, <1>1, <1>2, <1>4 DEF RunningHeld, ClonedBy
<1>13. NotOwnParent'
  BY <1>1, <1>3, <1>5 DEF TasksInv, NotOwnParent
<1>14. WaiterWillWake'
  <2> SUFFICES ASSUME NEW t \in Tids
               PROVE  (IF thread[t].at = "wait" /\ thread[t].status = "Waiting"
                       THEN /\ proc[t].callbacks = 1
                            /\ ~ \E x \in Range(proc[t].exited) : Matches(thread[t].arg, x)
                       ELSE proc[t].callbacks = 0)'
    BY DEF WaiterWillWake
  <2>1. CASE t = n
    BY <1>2, <1>4, <1>5, <2>1
  <2>2. CASE t = cur
    <3>1. proc[cur].callbacks = 0
      BY <1>0 DEF TasksInv, WaiterWillWake
    <3>2. QED BY <1>2, <1>3, <1>4, <1>5, <2>2, <3>1
  <2>3. CASE t \notin {n, cur}
    <3>1. thread'[t] = thread[t] /\ proc'[t] = proc[t]
      BY <1>4, <1>5, <2>3
    <3>2. QED BY <3>1 DEF TasksInv, WaiterWillWake
  <2>4. QED BY <2>1, <2>2, <2>3
<1>15. CallbacksLive' /\ WokenOnce'
  BY <1>0, <1>1, <1>4 DEF TasksInv, Types, CallbacksLive, WokenOnce
<1>16. QED BY <1>9, <1>10, <1>11, <1>12, <1>13, <1>14, <1>15 DEF TasksInv

(* What a tid in use may be.                                               *)
LEMMA HeldTids ==
  ASSUME Types, TidAccounting
  PROVE  Held \subseteq Tids
BY TasksAssumption, SMTT(40) DEF Types, TidAccounting, Tids

(* sys_clone after the switch drops new_thread.                            *)
LEMMA CloneReturnInv ==
  ASSUME TasksInv, CloneReturn
  PROVE  TasksInv'
<1> DEFINE c == thread[cur].arg
           r == [status |-> thread[cur].status, at |-> "user", arg |-> None]
<1>0. /\ cur \in Tids /\ thread[cur].at = "clone" /\ Drop(c, Returned, proc)
      /\ thread \in [Tids -> ThreadRec] /\ DOMAIN proc = Tids
      /\ \A t \in Tids :
           /\ DOMAIN proc[t] = {"parent", "exited", "callbacks"}
           /\ proc[t].parent \in Tids \cup {Kernel, None}
      /\ cur' = cur /\ sie' = TRUE
      /\ UNCHANGED <<pool, next, current, events>>
  BY DEF TasksInv, Types, CloneReturn, Running, Return
<1>1. c \in Held /\ c \in Tids
  <2>1. c \in Held
    BY <1>0, ArcsIff DEF Held
  <2>2. QED BY <2>1, HeldTids DEF TasksInv
<1>2. /\ r \in ThreadRec /\ r.at = "user" /\ r.status = thread[cur].status
      /\ Returned = [thread EXCEPT ![cur] = r]
  BY <1>0 DEF Returned, ThreadRec, Places
<1> HIDE DEF r, c
<1>3. /\ Returned \in [Tids -> ThreadRec] /\ Returned[cur] = r
      /\ \A t \in Tids \ {cur} : Returned[t] = thread[t]
  BY <1>0, <1>2
<1> DEFINE A == Arcs(pool', next', Returned)
<1>4. A \cup {c} = Held
  <2>1. ASSUME NEW x PROVE x \in Held <=> x \in A \cup {c}
    <3>1. x \in A <=> \/ x \in Range(pool) \/ (x = next /\ next # None)
                      \/ \E u \in Tids : Returned[u].at = "clone" /\ Returned[u].arg = x
      BY <1>0, ArcsIff, SMTT(40)
    <3>2. x \in Held <=> \/ x \in Range(pool) \/ (x = next /\ next # None)
                         \/ \E u \in Tids : thread[u].at = "clone" /\ thread[u].arg = x
      BY ArcsIff, SMTT(40) DEF Held
    <3>3. \A u \in Tids : (Returned[u].at = "clone" /\ Returned[u].arg = x) =>
                           (thread[u].at = "clone" /\ thread[u].arg = x)
      BY <1>2, <1>3
    <3>4. \A u \in Tids : (thread[u].at = "clone" /\ thread[u].arg = x) =>
                           x = c \/ (Returned[u].at = "clone" /\ Returned[u].arg = x)
      BY <1>3 DEF c
    <3>5. QED BY <1>1, <3>1, <3>2, <3>3, <3>4
  <2>2. QED BY <2>1
<1>5. c \notin A => Returned[c].at = "exit"
  <2>1. c \notin A => c \notin Range(pool)
    BY <1>0, ArcsIff
  <2>2. c \notin Range(pool) => thread[c].at \in {"none", "exit"}
    BY <1>1 DEF TasksInv, PoolExact, ZombiesOut
  <2>3. thread[c].at # "none"
    BY <1>1 DEF TasksInv, TidAccounting
  <2>4. QED BY <1>0, <1>1, <1>3, <2>1, <2>2, <2>3
<1>6. \A u \in Tids : Returned[u].at # "none" <=> thread[u].at # "none"
  BY <1>0, <1>2, <1>3
<1>7. /\ TidAccounting' /\ recycled' \in Seq(Tids) /\ thread' \in [Tids -> ThreadRec]
      /\ \A u \in Tids : \/ thread'[u] = Returned[u]
                         \/ u = c /\ Returned[u].at = "exit" /\ thread'[u] = NoThread
      /\ DOMAIN proc' = Tids
      /\ \A u \in Tids :
           \/ proc'[u] = NoProc /\ thread'[u] = NoThread
           \/ /\ DOMAIN proc'[u] = {"parent", "exited", "callbacks"}
              /\ proc'[u].parent \in {proc[u].parent, None}
              /\ proc'[u].exited = proc[u].exited /\ proc'[u].callbacks = proc[u].callbacks
              /\ thread'[u] = Returned[u]
  BY <1>0, <1>1, <1>3, <1>4, <1>5, <1>6, DropFacts, SMTT(40) DEF TasksInv
<1>8. /\ NoThread.at = "none" /\ NoThread.status = "Zombie"
      /\ DOMAIN NoProc = {"parent", "exited", "callbacks"}
      /\ NoProc.parent = None /\ NoProc.callbacks = 0
  BY DEF NoThread, NoProc
<1>9. thread'[cur] = r
  BY <1>0, <1>2, <1>3, <1>7
<1>10. PoolExact' /\ ZombiesOut'
  <2>1. \A t \in Tids : thread'[t].status = "Zombie" <=> thread[t].status = "Zombie"
    BY <1>2, <1>3, <1>7, <1>8, SMTT(40) DEF TasksInv, ZombiesOut
  <2>2. PoolExact'
    BY <1>0, <2>1 DEF TasksInv, PoolExact
  <2>3. ZombiesOut'
    BY <1>0, <1>2, <1>3, <1>7, <1>8, SMTT(40) DEF TasksInv, ZombiesOut
  <2>4. QED BY <2>2, <2>3
<1>11. Types'
  <2>1. \A t \in Tids :
          /\ DOMAIN proc'[t] = {"parent", "exited", "callbacks"}
          /\ proc'[t].parent \in Tids \cup {Kernel, None} /\ proc'[t].callbacks \in Nat
    BY <1>0, <1>7, <1>8, SMTT(40) DEF TasksInv, Types
  <2>2. QED BY <1>0, <1>7, <2>1 DEF TasksInv, Types
<1>12. RunningHeld'
  BY <1>0, <1>2, <1>9 DEF TasksInv, RunningHeld
<1>13. NotOwnParent'
  BY <1>0, <1>7, <1>8, TidFacts, SMTT(40) DEF TasksInv, NotOwnParent
<1>14. WaiterWillWake'
  <2> SUFFICES ASSUME NEW t \in Tids
               PROVE  (IF thread[t].at = "wait" /\ thread[t].status = "Waiting"
                       THEN /\ proc[t].callbacks = 1
                            /\ ~ \E x \in Range(proc[t].exited) : Matches(thread[t].arg, x)
                       ELSE proc[t].callbacks = 0)'
    BY DEF WaiterWillWake
  <2>1. CASE proc'[t] = NoProc /\ thread'[t] = NoThread
    BY <1>8, <2>1
  <2>2. CASE /\ proc'[t].exited = proc[t].exited /\ proc'[t].callbacks = proc[t].callbacks
             /\ thread'[t] = Returned[t] /\ t # cur
    BY <1>3, <2>2 DEF TasksInv, WaiterWillWake
  <2>3. CASE proc'[t].callbacks = proc[t].callbacks /\ t = cur
    BY <1>0, <1>2, <1>9, <2>3 DEF TasksInv, WaiterWillWake
  <2>4. QED BY <1>7, <2>1, <2>2, <2>3
<1>15. CallbacksLive' /\ WokenOnce'
  BY <1>0, <1>2, <1>3, <1>7, SMTT(40) DEF TasksInv, Types, CallbacksLive, WokenOnce
<1>16. QED BY <1>7, <1>10, <1>11, <1>12, <1>13, <1>14, <1>15 DEF TasksInv

(* sys_exit: the thread leaves the pool, and what still holds it is the    *)
(* loop of schedule or its parent's sys_clone.                             *)
LEMMA ExitInv ==
  ASSUME TasksInv, Exit
  PROVE  TasksInv' /\ cur \in Held'
<1> DEFINE p == proc[cur].parent
           woken == p \in Tids /\ proc[p].callbacks > 0
           z == [status |-> "Zombie", at |-> "exit", arg |-> None]
           th == [thread EXCEPT ![cur] = z]
           TH == IF woken THEN [th EXCEPT ![p].status = "Ready"] ELSE th
           PR == IF p \in Tids THEN Reported(proc, p) ELSE proc
<1>0. /\ cur \in Tids /\ thread[cur].at = "user" /\ cur' = Kernel /\ sie' = TRUE
      /\ pool' = RemoveThread(pool, cur) /\ UNCHANGED <<next, current, events>>
      /\ Drop(cur, TH, PR)
  BY DEF Exit, Running, ToScheduler
<1>1. /\ thread \in [Tids -> ThreadRec] /\ DOMAIN proc = Tids
      /\ \A t \in Tids :
           /\ DOMAIN proc[t] = {"parent", "exited", "callbacks"}
           /\ proc[t].parent \in Tids \cup {Kernel, None} /\ proc[t].callbacks \in Nat
      /\ pool \in Seq(Tids) /\ Distinct(pool)
  BY DEF TasksInv, Types, PoolExact, Distinct
<1>2. p # cur /\ proc[cur].callbacks = 0 /\ thread[cur].status # "Zombie"
  BY <1>0 DEF TasksInv, NotOwnParent, WaiterWillWake, ZombiesOut
<1>3. /\ pool' \in Seq(Tids) /\ Distinct(pool') /\ Range(pool') = Range(pool) \ {cur}
      /\ cur \in Range(pool)
  <2>1. cur \in Range(pool)
    BY <1>0, <1>2 DEF TasksInv, PoolExact
  <2>2. QED BY <1>0, <1>1, <2>1, RemoveFacts
<1>4. woken => p \in Tids /\ thread[p].at = "wait" /\ thread[p].status = "Waiting" /\ proc[p].callbacks = 1
  <2>1. ASSUME woken PROVE p \in Tids /\ proc[p].callbacks # 0
    BY <1>1, <2>1, SMTT(40)
  <2>2. QED BY <2>1 DEF TasksInv, WaiterWillWake
<1>5. z \in ThreadRec /\ z.at = "exit" /\ z.status = "Zombie"
  BY DEF ThreadRec, Places, Status
<1> HIDE DEF z
<1>6. /\ th \in [Tids -> ThreadRec] /\ th[cur] = z
      /\ \A t \in Tids \ {cur} : th[t] = thread[t]
  BY <1>0, <1>1, <1>5
<1> HIDE DEF th
<1>7. /\ TH \in [Tids -> ThreadRec] /\ TH[cur] = z
      /\ \A t \in Tids \ {cur} : TH[t].at = thread[t].at /\ TH[t].arg = thread[t].arg
      /\ \A t \in Tids \ {cur} : TH[t] = thread[t] \/ (woken /\ t = p)
      /\ woken => TH[p].status = "Ready"
  <2>1. CASE woken
    <3>1. /\ p \in Tids /\ th[p] \in ThreadRec
          /\ TH = [th EXCEPT ![p] = [th[p] EXCEPT !.status = "Ready"]]
      BY <1>4, <1>6, <2>1
    <3>2. \A r \in ThreadRec : /\ [r EXCEPT !.status = "Ready"] \in ThreadRec
                               /\ [r EXCEPT !.status = "Ready"].status = "Ready"
                               /\ [r EXCEPT !.status = "Ready"].at = r.at
                               /\ [r EXCEPT !.status = "Ready"].arg = r.arg
      BY DEF ThreadRec, Status
    <3>3. [th[p] EXCEPT !.status = "Ready"] \in ThreadRec
      BY <3>1, <3>2
    <3> DEFINE q == [th[p] EXCEPT !.status = "Ready"]
    <3>4. q \in ThreadRec /\ q.status = "Ready" /\ q.at = th[p].at /\ q.arg = th[p].arg
      BY <3>1, <3>2
    <3>5. TH = [th EXCEPT ![p] = q]
      BY <3>1
    <3> HIDE DEF q, TH
    <3>6. TH \in [Tids -> ThreadRec] /\ TH[p] = q /\ \A t \in Tids \ {p} : TH[t] = th[t]
      BY <1>6, <3>1, <3>4, <3>5
    <3>7. QED BY <1>2, <1>6, <2>1, <3>1, <3>4, <3>6, SMTT(40)
  <2>2. CASE ~woken
    <3>1. TH = th
      BY <2>2
    <3> HIDE DEF TH
    <3>2. QED BY <1>6, <2>2, <3>1
  <2>3. QED BY <2>1, <2>2
<1>8. /\ DOMAIN PR = Tids
      /\ \A t \in Tids : DOMAIN PR[t] = {"parent", "exited", "callbacks"} /\ PR[t].parent = proc[t].parent
      /\ \A t \in Tids \ {p} : PR[t] = proc[t]
      /\ p \in Tids => PR[p].callbacks = IF proc[p].callbacks > 0 THEN proc[p].callbacks - 1 ELSE 0
  <2>1. CASE p \in Tids
    <3> DEFINE q == [parent |-> proc[p].parent, exited |-> Append(proc[p].exited, cur),
                     callbacks |-> IF proc[p].callbacks > 0 THEN proc[p].callbacks - 1 ELSE 0]
    <3>1. PR = [proc EXCEPT ![p] = q]
      BY <1>1, <2>1 DEF Reported
    <3>2. /\ DOMAIN q = {"parent", "exited", "callbacks"} /\ q.parent = proc[p].parent
          /\ q.callbacks = IF proc[p].callbacks > 0 THEN proc[p].callbacks - 1 ELSE 0
      OBVIOUS
    <3> HIDE DEF PR, q
    <3>3. DOMAIN PR = Tids /\ PR[p] = q /\ \A t \in Tids \ {p} : PR[t] = proc[t]
      BY <1>1, <2>1, <3>1
    <3>4. QED BY <1>1, <2>1, <3>2, <3>3
  <2>2. CASE p \notin Tids
    BY <1>1, <2>2
  <2>3. QED BY <2>1, <2>2
<1> HIDE DEF woken, TH, PR
<1> DEFINE A == Arcs(pool', next', TH)
<1>9. \A u \in Tids : /\ TH[u].at = "clone" <=> thread[u].at = "clone"
                      /\ TH[u].at = "clone" => TH[u].arg = thread[u].arg
  BY <1>0, <1>5, <1>7
<1>10. ASSUME NEW x
       PROVE  x \in A <=> \/ x \in Range(pool) \ {cur} \/ (x = next /\ next # None)
                          \/ \E u \in Tids : thread[u].at = "clone" /\ thread[u].arg = x
  <2>1. x \in A <=> \/ x \in Range(pool') \/ (x = next' /\ next' # None)
                    \/ \E u \in Tids : TH[u].at = "clone" /\ TH[u].arg = x
    BY ArcsIff, SMTT(40)
  <2>2. QED BY <1>0, <1>3, <1>9, <2>1
<1>11. A \cup {cur} = Held
  <2>1. ASSUME NEW x PROVE x \in Held <=> x \in A \cup {cur}
    <3>1. x \in Held <=> \/ x \in Range(pool) \/ (x = next /\ next # None)
                         \/ \E u \in Tids : thread[u].at = "clone" /\ thread[u].arg = x
      BY ArcsIff, SMTT(40) DEF Held
    <3>2. QED BY <1>3, <1>10, <3>1
  <2>2. QED BY <2>1
<1>12. cur \in A
  <2>1. next = cur \/ \E u \in Tids : thread[u].at = "clone" /\ thread[u].arg = cur
    BY <1>0 DEF TasksInv, RunningHeld, ClonedBy
  <2>2. QED BY <1>0, <1>10, <2>1, TidFacts
<1>13. \A u \in Tids : TH[u].at # "none" <=> thread[u].at # "none"
  BY <1>0, <1>5, <1>7
<1>14. thread' = TH /\ proc' = PR /\ recycled' = recycled
  BY <1>0, <1>12 DEF Drop
<1>15. Held' = Held
  <2>1. Held' = A
    BY <1>14 DEF Held
  <2>2. QED BY <1>11, <1>12, <2>1
<1>16. TidAccounting'
  BY <1>0, <1>13, <1>14, <1>15 DEF TasksInv, TidAccounting
<1>17. PoolExact' /\ ZombiesOut'
  <2>1. \A t \in Tids : thread'[t].status = "Zombie" <=> t = cur \/ thread[t].status = "Zombie"
    BY <1>4, <1>5, <1>7, <1>14
  <2>2. Range(pool') = {t \in Tids : thread'[t].status # "Zombie"}
    BY <1>3, <2>1 DEF TasksInv, PoolExact
  <2>3. PoolExact'
    BY <1>3, <2>2 DEF PoolExact, Distinct
  <2>4. ZombiesOut'
    BY <1>5, <1>7, <1>14, <2>1 DEF TasksInv, ZombiesOut
  <2>5. QED BY <2>3, <2>4
<1>18. Types'
  <2>1. \A t \in Tids :
          /\ DOMAIN proc'[t] = {"parent", "exited", "callbacks"}
          /\ proc'[t].parent \in Tids \cup {Kernel, None} /\ proc'[t].callbacks \in Nat
    <3> SUFFICES ASSUME NEW t \in Tids PROVE PR[t].callbacks \in Nat
      BY <1>1, <1>8, <1>14
    <3>1. CASE t = p
      BY <1>1, <1>8, <3>1, SMTT(40)
    <3>2. CASE t # p
      BY <1>1, <1>8, <3>2
    <3>3. QED BY <3>1, <3>2
  <2>2. QED BY <1>0, <1>3, <1>7, <1>8, <1>14, <2>1 DEF TasksInv, Types
<1>19. RunningHeld' /\ NotOwnParent'
  BY <1>0, <1>8, <1>14, TidFacts DEF TasksInv, RunningHeld, NotOwnParent
<1>20. WaiterWillWake'
  <2> SUFFICES ASSUME NEW t \in Tids
               PROVE  (IF thread[t].at = "wait" /\ thread[t].status = "Waiting"
                       THEN /\ proc[t].callbacks = 1
                            /\ ~ \E x \in Range(proc[t].exited) : Matches(thread[t].arg, x)
                       ELSE proc[t].callbacks = 0)'
    BY DEF WaiterWillWake
  <2>1. CASE t = cur
    BY <1>2, <1>5, <1>7, <1>8, <1>14, <2>1
  <2>2. CASE t = p /\ woken
    BY <1>4, <1>7, <1>8, <1>14, <2>2, SMTT(40)
  <2>3. CASE t = p /\ ~woken
    <3>1. proc[t].callbacks = 0
      BY <1>1, <2>3, SMTT(40) DEF woken
    <3>2. ~(thread[t].at = "wait" /\ thread[t].status = "Waiting")
      BY <3>1, SMTT(40) DEF TasksInv, WaiterWillWake
    <3>3. thread'[t] = thread[t] /\ proc'[t].callbacks = 0
      BY <1>2, <1>7, <1>8, <1>14, <2>3, <3>1, SMTT(40)
    <3>4. QED BY <3>2, <3>3
  <2>4. CASE t \notin {cur, p}
    <3>1. thread'[t] = thread[t] /\ proc'[t] = proc[t]
      BY <1>7, <1>8, <1>14, <2>4
    <3>2. QED BY <3>1 DEF TasksInv, WaiterWillWake
  <2>5. QED BY <2>1, <2>2, <2>3, <2>4
<1>21. CallbacksLive' /\ WokenOnce'
  <2>1. ASSUME NEW t \in events PROVE thread'[t] = thread[t]
    <3>1. t \in Tids /\ thread[t].at \in {"register", "sleep"}
      BY DEF TasksInv, Types, CallbacksLive
    <3>2. t # cur
      BY <1>0, <3>1
    <3>3. ~(woken /\ t = p)
      BY <1>4, <3>1
    <3>4. QED BY <1>7, <1>14, <3>1, <3>2, <3>3
  <2>2. QED BY <1>0, <2>1 DEF TasksInv, CallbacksLive, WokenOnce
<1>22. QED BY <1>11, <1>12, <1>15, <1>16, <1>17, <1>18, <1>19, <1>20, <1>21 DEF TasksInv
-----------------------------------------------------------------------------
(* At boot there are no threads.                                           *)
LEMMA InitInv ==
  ASSUME Init
  PROVE  TasksInv /\ ReadyInUser
<1>0. /\ NoThread \in ThreadRec /\ NoThread.at = "none" /\ NoThread.status = "Zombie"
      /\ DOMAIN NoProc = {"parent", "exited", "callbacks"}
      /\ NoProc.parent = None /\ NoProc.callbacks = 0
  BY DEF NoThread, NoProc, ThreadRec, Status, Places
<1>1. /\ cur = Kernel /\ sie = FALSE /\ pool = <<>> /\ next = None /\ current = 1
      /\ recycled = <<>> /\ events = {} /\ thread \in [Tids -> ThreadRec] /\ DOMAIN proc = Tids
      /\ \A t \in Tids : thread[t] = NoThread /\ proc[t] = NoProc
  BY <1>0 DEF Init
<1>2. Range(pool) = {} /\ Range(recycled) = {} /\ Distinct(pool) /\ Distinct(recycled)
  BY <1>1, SMTT(40) DEF Range, Distinct
<1>3. Held = {}
  <2>1. \A x : x \notin Held
    BY <1>0, <1>1, <1>2, ArcsIff, SMTT(40) DEF Held
  <2>2. QED BY <2>1
<1>4. Types
  <2>1. <<>> \in Seq(Tids) /\ 1 \in 1 .. MaxTid + 1
    BY TasksAssumption, SMTT(40)
  <2>2. \A t \in Tids :
          /\ DOMAIN proc[t] = {"parent", "exited", "callbacks"}
          /\ proc[t].parent \in Tids \cup {Kernel, None} /\ proc[t].callbacks \in Nat
    BY <1>0, <1>1, SMTT(40)
  <2>3. QED BY <1>1, <2>1, <2>2 DEF Types
<1>5. TidAccounting /\ PoolExact /\ ZombiesOut
  <2>1. 1 .. current - 1 = {}
    BY <1>1, SMTT(40)
  <2>2. QED BY <1>0, <1>1, <1>2, <1>3, <2>1 DEF TidAccounting, PoolExact, ZombiesOut, Distinct
<1>6. RunningHeld /\ NotOwnParent /\ WaiterWillWake /\ CallbacksLive /\ WokenOnce
  BY <1>0, <1>1, TidFacts DEF RunningHeld, NotOwnParent, WaiterWillWake, CallbacksLive, WokenOnce
<1>7. ReadyInUser
  BY <1>1, TidFacts DEF ReadyInUser
<1>8. QED BY <1>4, <1>5, <1>6, <1>7 DEF TasksInv

(* The invariant is about these variables only.                            *)
LEMMA StutterInv ==
  ASSUME TasksInv, UNCHANGED vars
  PROVE  TasksInv'
BY SMTT(40) DEF TasksInv, Types, TidAccounting, PoolExact, ZombiesOut, ClonedBy, RunningHeld, NotOwnParent,
       WaiterWillWake, CallbacksLive, WokenOnce, Held, vars

(* Every step keeps the invariant.                                         *)
LEMMA NextInv ==
  ASSUME TasksInv, Next
  PROVE  TasksInv'
<1>1. CASE Schedule
  BY <1>1, DropNextInv, GetNextInv, NextProgramInv DEF Schedule
<1>2. CASE Shutdown
  <2>1. UNCHANGED vars
    BY <1>2 DEF Shutdown
  <2>2. QED BY <2>1, StutterInv
<1>3. CASE Resume
  BY <1>3, CloneReturnInv, WaitInv, SleepInv DEF Resume
<1>4. CASE Syscall
  BY <1>4, YieldInv, CloneInv, ExitInv, SleepInv, WaitInv DEF Syscall
<1>5. CASE Timer
  BY <1>5, TimerInv DEF Timer
<1>6. QED BY <1>1, <1>2, <1>3, <1>4, <1>5 DEF Next

(* ... and never leaves the schedule thread spinning with interrupts off.  *)
LEMMA NextReady ==
  ASSUME TasksInv, ReadyInUser, Next
  PROVE  ReadyInUser'
<1>0. /\ cur \in Tids \cup {Kernel} /\ sie \in BOOLEAN /\ thread \in [Tids -> ThreadRec]
      /\ cur \in Tids => thread[cur].status = "Ready"
  BY DEF TasksInv, Types, ReadyInUser
<1>1. ASSUME NEW S \in SUBSET events, Tick(S) PROVE ReadyInUser'
  <2>1. /\ Expire(S) /\ cur' = cur /\ sie' = sie /\ sie
    BY <1>1 DEF Tick
  <2>2. cur \in Tids => thread'[cur].status = "Ready"
    BY <1>0, <2>1, ExpireFacts
  <2>3. QED BY <2>1, <2>2 DEF ReadyInUser
<1>2. ASSUME NEW S \in SUBSET events, Preempt(S) PROVE ReadyInUser'
  <2>1. /\ Expire(S) /\ cur' = Kernel /\ cur \in Tids /\ thread[cur].at = "user"
    BY <1>2 DEF Preempt, Running
  <2>2. thread'[cur].at = "user" /\ thread'[cur].status = "Ready"
    BY <1>0, <2>1, ExpireFacts
  <2>3. QED BY <2>1, <2>2, TidFacts DEF ReadyInUser
<1>3. CASE GetNext
  <2> DEFINE t == Head(pool)
  <2>0. pool # <<>> /\ pool \in Seq(Tids)
    BY <1>3 DEF GetNext, TasksInv, Types
  <2>1. t \in Tids
    BY <2>0, SMTT(40)
  <2>2. /\ cur = Kernel /\ thread' = thread
        /\ cur' = IF thread[t].status = "Ready" THEN t ELSE Kernel
        /\ sie' = (sie \/ (thread[t].status = "Ready" /\ thread[t].at = "user"))
    BY <1>3 DEF GetNext
  <2> HIDE DEF t
  <2>3. cur' \in Tids => thread'[cur'].status = "Ready"
    BY <2>1, <2>2, TidFacts
  <2>4. ASSUME ~sie' PROVE \E u \in Tids \ {cur'} : thread'[u].status = "Ready" /\ thread'[u].at = "user"
    <3>1. PICK u \in Tids : thread[u].status = "Ready" /\ thread[u].at = "user"
      BY <2>0, <2>2, <2>4 DEF ReadyInUser
    <3>2. u # t /\ u # Kernel
      BY <2>2, <2>4, <3>1, TidFacts
    <3>3. QED BY <2>2, <3>1, <3>2
  <2>5. QED BY <2>3, <2>4 DEF ReadyInUser
<1>4. CASE NextProgram
  <2>1. /\ cur' = Kernel /\ NewTid \in Tids /\ thread' = [thread EXCEPT ![NewTid] = NewThread]
    BY <1>4, AllocFacts DEF NextProgram, TasksInv
  <2>2. thread'[NewTid].status = "Ready" /\ thread'[NewTid].at = "user"
    BY <1>0, <2>1 DEF NewThread
  <2>3. QED BY <2>1, <2>2, TidFacts DEF ReadyInUser
<1>5. CASE DropNext
  <2>1. /\ cur = Kernel /\ UNCHANGED <<cur, sie, pool>> /\ Drop(next, thread, proc)
    BY <1>5 DEF DropNext
  <2>2. next \in Tids
    BY <1>5 DEF DropNext, TasksInv, Types
  <2>3. next \notin Arcs(pool', next', thread) => thread[next].status = "Zombie"
    BY <2>1, <2>2, ArcsIff DEF TasksInv, PoolExact
  <2>4. \A u \in Tids : thread[u].status = "Ready" => thread'[u] = thread[u]
    BY <1>0, <2>1, <2>2, <2>3 DEF Drop
  <2>5. QED BY <2>1, <2>4, TidFacts DEF ReadyInUser
<1>6. CASE Shutdown
  BY <1>6 DEF Shutdown, vars, ReadyInUser
<1>7. CASE SchedYield \/ Exit
  BY <1>7, TidFacts DEF SchedYield, Exit, ToScheduler, ReadyInUser
<1>8. CASE Register \/ SleepReturn
  <2>1. cur \in Tids /\ cur' = cur /\ sie' = TRUE
    BY <1>8 DEF Register, SleepReturn, Running, Return
  <2>2. thread'[cur].status = thread[cur].status
    BY <1>0, <1>8, <2>1 DEF Register, SleepReturn, ThreadRec
  <2>3. QED BY <1>0, <2>1, <2>2 DEF ReadyInUser
<1>9. CASE CloneReturn
  <2>1. /\ cur \in Tids /\ cur' = cur /\ sie' = TRUE /\ thread[cur].at = "clone"
        /\ UNCHANGED <<pool, next>> /\ Drop(thread[cur].arg, Returned, proc)
    BY <1>9 DEF CloneReturn, Running, Return
  <2>2. Returned[cur].status = "Ready" /\ Returned \in [Tids -> ThreadRec]
    BY <1>0, <2>1 DEF Returned, ThreadRec, Places, Status
  <2>3. thread[cur].status # "Zombie"
    BY <2>1 DEF TasksInv, RunningHeld
  <2>4. cur \in Range(pool)
    BY <2>1, <2>3 DEF TasksInv, PoolExact
  <2>5. cur \in Arcs(pool', next', Returned)
    BY <2>1, <2>4, ArcsIff
  <2>6. thread'[cur] = Returned[cur]
    BY <2>1, <2>2, <2>5 DEF Drop
  <2>7. QED BY <2>1, <2>2, <2>6 DEF ReadyInUser
<1>10. ASSUME NEW pid, Reap(pid), cur \in Tids PROVE ReadyInUser'
  <2>1. cur' = cur /\ sie' = TRUE
    BY <1>10 DEF Reap, Return
  <2>2. thread'[cur].status = thread[cur].status
    BY <1>0, <1>10 DEF Reap, Returned
  <2>3. QED BY <1>0, <1>10, <2>1, <2>2 DEF ReadyInUser
<1>11. ASSUME cur \in Tids, sie' \in {TRUE, sie}, cur' = Kernel,
              \A t \in Tids \ {cur} : thread'[t] = thread[t]
       PROVE  ReadyInUser'
  <2>1. cur # Kernel /\ cur' \notin Tids
    BY <1>11, TidFacts
  <2>2. ASSUME ~sie' PROVE \E t \in Tids \ {cur'} : thread'[t].status = "Ready" /\ thread'[t].at = "user"
    <3>1. ~sie
      BY <1>11, <2>2
    <3>2. PICK t \in Tids \ {cur} : thread[t].status = "Ready" /\ thread[t].at = "user"
      BY <2>1, <3>1 DEF ReadyInUser
    <3>3. QED BY <1>11, <2>1, <3>2
  <2>3. QED BY <2>1, <2>2 DEF ReadyInUser
<1>12. CASE Wait4Loop \/ \E pid \in Pids : Wait4(pid)
  <2>1. cur \in Tids
    BY <1>12 DEF Wait4Loop, Wait4, Running
  <2>2. PICK pid : Reap(pid) \/ (Block(pid) /\ sie' \in {TRUE, sie})
    BY <1>12 DEF Wait4Loop, Wait4
  <2>3. CASE Block(pid) /\ sie' \in {TRUE, sie}
    <3>1. cur' = Kernel /\ \A t \in Tids \ {cur} : thread'[t] = thread[t]
      BY <1>0, <2>1, <2>3 DEF Block, ToScheduler
    <3>2. QED BY <1>11, <2>1, <2>3, <3>1
  <2>4. QED BY <1>10, <2>1, <2>2, <2>3
<1>13. CASE Sleep
  <2>1. /\ cur \in Tids /\ sie' = sie /\ cur' = Kernel
        /\ \A t \in Tids \ {cur} : thread'[t] = thread[t]
    BY <1>0, <1>13 DEF Sleep, Running, ToScheduler
  <2>2. QED BY <1>11, <2>1
<1>14. CASE Clone
  <2> DEFINE n == NewTid
             c == [status |-> "Ready", at |-> "clone", arg |-> n]
  <2>1. /\ cur \in Tids /\ thread[cur].at = "user" /\ sie' = sie /\ cur' = n
        /\ thread' = [[thread EXCEPT ![n] = NewThread] EXCEPT ![cur] = c]
    BY <1>14 DEF Clone, Running
  <2>2. n \in Tids /\ thread[n].at = "none"
    BY <1>14, AllocFacts DEF Clone, TasksInv
  <2> HIDE DEF n, c
  <2>3. /\ thread'[n] = NewThread /\ \A t \in Tids \ {n, cur} : thread'[t] = thread[t]
    BY <1>0, <2>1, <2>2
  <2>4. thread'[n].status = "Ready"
    BY <2>3, SMTT(40) DEF NewThread
  <2>5. ASSUME ~sie PROVE \E t \in Tids \ {n} : thread'[t].status = "Ready" /\ thread'[t].at = "user"
    <3>1. PICK t \in Tids \ {cur} : thread[t].status = "Ready" /\ thread[t].at = "user"
      BY <2>1, <2>5, TidFacts DEF ReadyInUser
    <3>2. QED BY <2>2, <2>3, <3>1
  <2>6. QED BY <2>1, <2>4, <2>5 DEF ReadyInUser
<1>15. CASE Schedule
  BY <1>3, <1>4, <1>5, <1>15 DEF Schedule
<1>16. CASE Resume
  BY <1>8, <1>9, <1>12, <1>13, <1>16 DEF Resume
<1>17. CASE Syscall
  BY <1>7, <1>8, <1>12, <1>14, <1>17 DEF Syscall
<1>18. CASE Timer
  BY <1>1, <1>2, <1>18 DEF Timer
<1>19. QED BY <1>6, <1>15, <1>16, <1>17, <1>18 DEF Next
-----------------------------------------------------------------------------
(* In every state that the kernel reaches from boot, threads, tids, the    *)
(* pool and what is to wake a thread agree with each other.                *)
THEOREM TasksAgree == Spec => [](TasksInv /\ ReadyInUser)
<1>1. Init => TasksInv /\ ReadyInUser
  BY InitInv
<1>2. TasksInv /\ ReadyInUser /\ [Next]_vars => (TasksInv /\ ReadyInUser)'
  <2>1. ASSUME TasksInv, ReadyInUser, UNCHANGED vars PROVE ReadyInUser'
    BY <2>1 DEF ReadyInUser, vars
  <2>2. QED BY <2>1, NextInv, NextReady, StutterInv
<1>3. QED BY <1>1, <1>2, PTL DEF Spec

(* Thread::new_thread, Tid::drop: every tid handed out is in use by one    *)
(* thread that something holds, or recycled once.                          *)
THEOREM TidsAccounted == Spec => []TidAccounting
<1>1. TasksInv /\ ReadyInUser => TidAccounting
  BY DEF TasksInv
<1>2. QED BY <1>1, TasksAgree, PTL

(* FifoScheduler: the pool has every thread that has not exited, once, so  *)
(* remove_thread finds the thread it is called for.                        *)
THEOREM PoolAlwaysExact == Spec => []PoolExact
<1>1. TasksInv /\ ReadyInUser => PoolExact
  BY DEF TasksInv
<1>2. QED BY <1>1, TasksAgree, PTL

(* sys_wait4: no exit falls between a parent's look at its children and    *)
(* its sleep, and each sleeping parent has the one callback that wakes it. *)
THEOREM WaitersWake == Spec => []WaiterWillWake
<1>1. TasksInv /\ ReadyInUser => WaiterWillWake
  BY DEF TasksInv
<1>2. QED BY <1>1, TasksAgree, PTL

(* sys_nanosleep: a callback of TIMER finds its thread in nanosleep.       *)
THEOREM TimerCallbacksLive == Spec => []CallbacksLive
<1>1. TasksInv /\ ReadyInUser => CallbacksLive
  BY DEF TasksInv
<1>2. QED BY <1>1, TasksAgree, PTL

(* schedule: with interrupts off it has a thread to run.                   *)
THEOREM SchedulerInterruptible == Spec => []IdleInterruptible
<1>1. TasksInv /\ ReadyInUser => IdleInterruptible
  BY DEF ReadyInUser, IdleInterruptible
<1>2. QED BY <1>1, TasksAgree, PTL

(* sys_exit and the rest of the kernel: no step drops the last Arc of the  *)
(* thread that takes it, so the kernel stack it runs on stays.             *)
THEOREM StacksStayLive == Spec => RunsOnLiveStack
<1>1. ASSUME TasksInv, Next, cur \in Tids PROVE cur \in Held'
  <2>0. thread \in [Tids -> ThreadRec] /\ cur # Kernel
    BY <1>1, TidFacts DEF TasksInv, Types
  <2>1. CASE Exit
    BY <1>1, <2>1, ExitInv
  <2>2. CASE ~Exit
    <3>1. thread'[cur].at # "none"
      <4>1. CASE Schedule \/ Shutdown
        BY <2>0, <4>1 DEF Schedule, DropNext, GetNext, NextProgram, Shutdown
      <4>2. CASE Timer
        <5>1. PICK S \in SUBSET events : Expire(S) /\ cur \in Tids
          BY <1>1, <4>2 DEF Timer, Tick, Preempt
        <5>2. thread[cur].at # "none"
          BY <1>1, <4>2, SMTT(40) DEF Timer, Tick, Preempt, Running, Kernel, Tids
        <5>3. QED BY <1>1, <5>1, <5>2, ExpireFacts
      <4>3. CASE Wait4Loop \/ \E pid \in Pids : Wait4(pid)
        <5>1. PICK pid : Reap(pid) \/ Block(pid)
          BY <4>3 DEF Wait4Loop, Wait4
        <5>2. QED BY <1>1, <2>0, <5>1, SMTT(40) DEF Reap, Block, Returned
      <4>4. CASE Sleep \/ SleepReturn \/ Register \/ SchedYield
        BY <1>1, <2>0, <4>4, SMTT(40) DEF Sleep, SleepReturn, Register, SchedYield, Running, ThreadRec
      <4>5. CASE Clone
        BY <1>1, <2>0, <4>5 DEF Clone
      <4>6. CASE CloneReturn
        <5>1. /\ thread[cur].at = "clone" /\ UNCHANGED <<pool, next>>
              /\ Drop(thread[cur].arg, Returned, proc)
          BY <4>6 DEF CloneReturn, Running
        <5>2. Returned[cur].at = "user" /\ DOMAIN Returned = Tids
          BY <1>1, <2>0 DEF Returned
        <5>3. cur \in Range(pool)
          BY <1>1, <5>1 DEF TasksInv, PoolExact, ZombiesOut
        <5>4. cur \in Arcs(pool', next', Returned)
          BY <5>1, <5>3, ArcsIff
        <5>5. thread'[cur] = Returned[cur]
          BY <1>1, <5>1, <5>2, <5>4 DEF Drop
        <5>6. QED BY <5>2, <5>5
      <4>7. QED BY <1>1, <2>2, <4>1, <4>2, <4>3, <4>4, <4>5, <4>6 DEF Next, Resume, Syscall
    <3>2. TidAccounting'
      BY <1>1, NextInv DEF TasksInv
    <3>3. QED BY <1>1, <3>1, <3>2 DEF TidAccounting
  <2>3. QED BY <2>1, <2>2
<1>2. TasksInv /\ ReadyInUser /\ [Next]_vars => [(cur \in Tids) => (cur \in Held')]_vars
  BY <1>1
<1>3. QED BY <1>2, TasksAgree, PTL DEF Spec, RunsOnLiveStack

-----------------------------------------------------------------------------
(***************************************************************************)
(* A pipe between threads of Tasks.                                        *)
(***************************************************************************)

PipeTypes ==
  /\ rd \subseteq Tids /\ wr \subseteq Tids
  /\ waitq \in Seq(Tids \cup {None})
  /\ data \in Seq(Nat) /\ got \in Seq(Nat) /\ sent \in Nat

(* A blocked reader has the read end open and its process locked, so it    *)
(* does not run; and while there is a write end, whoever is in the queue   *)
(* of the condition variable is blocked in read.                           *)
Blocked ==
  /\ \A t \in Tids : thread[t].at = "read" => t \in rd /\ t \in locked /\ t # cur
  /\ wr # {} => \A t \in Range(waitq) \cap Tids : thread[t].at = "read"

PipeInv == TasksInv /\ PipeTypes /\ Blocked /\ ReaderWillWake
-----------------------------------------------------------------------------
(* No step of Tasks makes or changes a blocked reader.                     *)
ReadersKept ==
  \A t \in Tids : /\ thread'[t].at = "read" <=> thread[t].at = "read"
                  /\ thread[t].at = "read" => thread'[t] = thread[t]

(* Thread::drop does not, if the thread it drops is none.                  *)
LEMMA DropKeeps ==
  ASSUME NEW t \in Tids, NEW th \in [Tids -> ThreadRec], NEW pr, Drop(t, th, pr),
         th[t].at = "read" => t \in Arcs(pool', next', th)
  PROVE  \A u \in Tids : /\ thread'[u].at = "read" <=> th[u].at = "read"
                         /\ th[u].at = "read" => thread'[u] = th[u]
BY SMTT(40) DEF Drop, NoThread

(* A blocked reader is in the pool.                                        *)
LEMMA ReaderInPool ==
  ASSUME TasksInv, NEW t \in Tids, thread[t].at = "read"
  PROVE  t \in Range(pool)
BY DEF TasksInv, PoolExact, ZombiesOut

(* The steps of Tasks, one after the other.                                *)
LEMMA TasksKeepReaders ==
  ASSUME TasksInv, Schedule \/ Resume \/ Syscall \/ Timer
  PROVE  ReadersKept
<1>0. thread \in [Tids -> ThreadRec]
  BY DEF TasksInv, Types
<1>1. CASE Schedule
  <2>1. CASE DropNext
    <3>1. next \in Tids /\ Drop(next, thread, proc) /\ pool' = pool
      BY <2>1 DEF DropNext, TasksInv, Types
    <3>2. thread[next].at = "read" => next \in Arcs(pool', next', thread)
      BY <3>1, ReaderInPool, ArcsIff
    <3>3. QED BY <1>0, <3>1, <3>2, DropKeeps DEF ReadersKept
  <2>2. CASE GetNext
    BY <2>2 DEF GetNext, ReadersKept
  <2>3. CASE NextProgram
    <3>1. NewTid \in Tids /\ thread[NewTid].at = "none" /\ thread' = [thread EXCEPT ![NewTid] = NewThread]
      BY <2>3, AllocFacts DEF NextProgram, TasksInv
    <3>2. QED BY <1>0, <3>1 DEF NewThread, ReadersKept
  <2>4. QED BY <1>1, <2>1, <2>2, <2>3 DEF Schedule
<1>2. CASE CloneReturn
  <2>1. /\ cur \in Tids /\ thread[cur].at = "clone" /\ UNCHANGED <<pool, next>>
        /\ Drop(thread[cur].arg, Returned, proc)
    BY <1>2 DEF CloneReturn, Running
  <2>2. thread[cur].arg \in Tids
    <3>1. thread[cur].arg \in Held
      BY <2>1, ArcsIff DEF Held
    <3>2. QED BY <3>1, HeldTids DEF TasksInv
  <2>3. /\ Returned \in [Tids -> ThreadRec] /\ Returned[cur].at = "user"
        /\ \A t \in Tids \ {cur} : Returned[t] = thread[t]
    BY <1>0, <2>1 DEF Returned, ThreadRec, Places
  <2>4. Returned[thread[cur].arg].at = "read" => thread[cur].arg \in Arcs(pool', next', Returned)
    BY <2>1, <2>2, <2>3, ReaderInPool, ArcsIff, SMTT(40)
  <2>5. \A u \in Tids : /\ thread'[u].at = "read" <=> Returned[u].at = "read"
                        /\ Returned[u].at = "read" => thread'[u] = Returned[u]
    BY <2>1, <2>2, <2>3, <2>4, DropKeeps
  <2>6. QED BY <2>1, <2>3, <2>5 DEF ReadersKept
<1>3. CASE Exit
  <2> DEFINE p == proc[cur].parent
             woken == p \in Tids /\ proc[p].callbacks > 0
             z == [status |-> "Zombie", at |-> "exit", arg |-> None]
             th == [thread EXCEPT ![cur] = z]
             TH == IF woken THEN [th EXCEPT ![p].status = "Ready"] ELSE th
  <2>1. /\ cur \in Tids /\ thread[cur].at = "user"
        /\ Drop(cur, TH, IF p \in Tids THEN Reported(proc, p) ELSE proc)
    BY <1>3 DEF Exit, Running
  <2>2. p # cur /\ (woken => p \in Tids /\ thread[p].at = "wait")
    <3>1. ASSUME woken PROVE p \in Tids /\ proc[p].callbacks # 0
      BY <3>1, SMTT(40) DEF TasksInv, Types
    <3>2. QED BY <2>1, <3>1 DEF TasksInv, NotOwnParent, WaiterWillWake
  <2>3. z \in ThreadRec /\ z.at = "exit"
    BY DEF ThreadRec, Places, Status
  <2> HIDE DEF z
  <2>4. th \in [Tids -> ThreadRec] /\ th[cur] = z /\ \A t \in Tids \ {cur} : th[t] = thread[t]
    BY <1>0, <2>1, <2>3
  <2> HIDE DEF th
  <2>5. /\ TH \in [Tids -> ThreadRec] /\ TH[cur] = z
        /\ \A t \in Tids \ {cur} : TH[t].at = thread[t].at
        /\ \A t \in Tids \ {cur} : TH[t] = thread[t] \/ thread[t].at = "wait"
    <3>1. CASE woken
      <4>1. p \in Tids /\ th[p] \in ThreadRec
        BY <2>2, <2>4, <3>1
      <4> DEFINE q == [th[p] EXCEPT !.status = "Ready"]
      <4>2. q \in ThreadRec /\ q.at = th[p].at
        BY <4>1 DEF ThreadRec, Status
      <4>3. TH = [th EXCEPT ![p] = q]
        BY <3>1
      <4> HIDE DEF q, TH
      <4>4. TH \in [Tids -> ThreadRec] /\ TH[p] = q /\ \A t \in Tids \ {p} : TH[t] = th[t]
        BY <2>4, <4>1, <4>2, <4>3
      <4>5. TH[cur] = z
        BY <2>1, <2>2, <2>4, <4>4
      <4>6. \A t \in Tids \ {cur} : TH[t].at = thread[t].at /\ (TH[t] = thread[t] \/ t = p)
        BY <2>4, <4>2, <4>4
      <4>7. thread[p].at = "wait"
        BY <2>2, <3>1
      <4>8. QED BY <4>4, <4>5, <4>6, <4>7
    <3>2. CASE ~woken
      <4>1. TH = th
        BY <3>2
      <4> HIDE DEF TH
      <4>2. QED BY <2>4, <4>1
    <3>3. QED BY <3>1, <3>2
  <2> HIDE DEF TH
  <2>6. \A u \in Tids : /\ thread'[u].at = "read" <=> TH[u].at = "read"
                        /\ TH[u].at = "read" => thread'[u] = TH[u]
    BY <2>1, <2>3, <2>5, DropKeeps
  <2>7. QED BY <2>1, <2>3, <2>5, <2>6 DEF ReadersKept
<1>4. CASE Timer
  <2>1. PICK S \in SUBSET events : Expire(S)
    BY <1>4 DEF Timer, Tick, Preempt
  <2>2. QED BY <2>1, ExpireFacts DEF ReadersKept
<1>5. CASE Clone
  <2>1. NewTid \in Tids /\ thread[NewTid].at = "none"
    BY <1>5, AllocFacts DEF Clone, TasksInv
  <2> DEFINE c == [status |-> "Ready", at |-> "clone", arg |-> NewTid]
  <2>2. /\ cur \in Tids /\ thread[cur].at = "user"
        /\ thread' = [[thread EXCEPT ![NewTid] = NewThread] EXCEPT ![cur] = c]
    BY <1>5 DEF Clone, Running
  <2>3. c.at = "clone" /\ NewThread.at = "user"
    BY DEF NewThread
  <2> HIDE DEF c
  <2>4. /\ thread'[NewTid] = NewThread /\ thread'[cur] = c
        /\ \A t \in Tids \ {NewTid, cur} : thread'[t] = thread[t]
    BY <1>0, <2>1, <2>2
  <2>5. QED BY <2>1, <2>2, <2>3, <2>4 DEF ReadersKept
<1>6. CASE Wait4Loop \/ \E pid \in Pids : Wait4(pid)
  <2>1. cur \in Tids /\ thread[cur].at \in {"user", "wait"}
    BY <1>6 DEF Wait4Loop, Wait4, Running
  <2>2. PICK pid : Reap(pid) \/ Block(pid)
    BY <1>6 DEF Wait4Loop, Wait4
  <2>3. thread'[cur].at \in {"user", "wait"} /\ \A t \in Tids \ {cur} : thread'[t] = thread[t]
    BY <1>0, <2>1, <2>2, SMTT(40) DEF Reap, Block, Returned
  <2>4. QED BY <2>1, <2>3 DEF ReadersKept
<1>7. CASE Sleep \/ SleepReturn \/ Register \/ SchedYield
  <2>1. cur \in Tids /\ thread[cur].at \in {"user", "register", "sleep"}
    BY <1>7 DEF Sleep, SleepReturn, Register, SchedYield, Running
  <2>2. thread'[cur].at \in {"user", "register", "sleep"} /\ \A t \in Tids \ {cur} : thread'[t] = thread[t]
    BY <1>0, <1>7, <2>1, SMTT(40) DEF Sleep, SleepReturn, Register, SchedYield, ThreadRec
  <2>3. QED BY <2>1, <2>2 DEF ReadersKept
<1>8. QED BY <1>1, <1>2, <1>3, <1>4, <1>5, <1>6, <1>7 DEF Resume, Syscall
-----------------------------------------------------------------------------
(* A step of Tasks in which the processes that go close their ends.        *)
LEMMA DropClosesInv ==
  ASSUME PipeInv, TasksInv', ReadersKept, DropCloses,
         \A t \in Tids : thread[t].at = "read" => t # cur'
  PROVE  PipeInv'
<1> DEFINE gone == {t \in Tids : thread'[t].at = "none"}
<1>1. /\ rd' = rd \ gone /\ wr' = wr \ gone
      /\ waitq' = [i \in DOMAIN waitq |-> IF waitq[i] \in gone THEN None ELSE waitq[i]]
      /\ UNCHANGED <<data, sent, got, locked>>
  BY DEF DropCloses
<1>2. \A t \in Tids : thread'[t].at = "read" => t \notin gone
  OBVIOUS
<1> HIDE DEF gone
<1>3. waitq \in Seq(Tids \cup {None})
  BY DEF PipeInv, PipeTypes
<1>4. /\ waitq' \in Seq(Tids \cup {None}) /\ DOMAIN waitq' = DOMAIN waitq
      /\ \A i \in DOMAIN waitq : waitq'[i] = IF waitq[i] \in gone THEN None ELSE waitq[i]
  BY <1>1, <1>3, SMTT(40)
<1>5. \A t \in Tids : t \in Range(waitq') <=> t \in Range(waitq) /\ t \notin gone
  <2>1. \A t \in Tids : t \in Range(waitq') => t \in Range(waitq) /\ t \notin gone
    BY <1>4, TidFacts DEF Range
  <2>2. \A t \in Tids : t \in Range(waitq) /\ t \notin gone => t \in Range(waitq')
    BY <1>4 DEF Range
  <2>3. QED BY <2>1, <2>2
<1>6. PipeTypes'
  BY <1>1, <1>4 DEF PipeInv, PipeTypes
<1>7. Blocked'
  <2>1. \A t \in Tids : thread'[t].at = "read" => t \in rd' /\ t \in locked' /\ t # cur'
    BY <1>1, <1>2 DEF PipeInv, Blocked, ReadersKept
  <2>2. wr' # {} => \A t \in Range(waitq') \cap Tids : thread'[t].at = "read"
    BY <1>1, <1>5 DEF PipeInv, Blocked, ReadersKept
  <2>3. QED BY <2>1, <2>2 DEF Blocked
<1>8. ReaderWillWake'
  BY <1>1, <1>2, <1>5 DEF PipeInv, ReaderWillWake, ReadersKept
<1>9. QED BY <1>6, <1>7, <1>8 DEF PipeInv

(* A step that leaves the threads alone.                                   *)
LEMMA PipeOnlyInv ==
  ASSUME PipeInv, UNCHANGED vars, PipeTypes', Blocked', ReaderWillWake'
  PROVE  PipeInv'
BY StutterInv DEF PipeInv

(* The running thread gets a status or a place in read.                    *)
LEMMA ReaderStep ==
  ASSUME TasksInv, NEW r \in ThreadRec, cur \in Tids, thread[cur].at = "user",
         thread' = [thread EXCEPT ![cur] = r], r.status = "Waiting",
         \/ r.at = "user" /\ cur' = cur
         \/ r.at = "read" /\ cur' = Kernel,
         sie' \in BOOLEAN, UNCHANGED <<pool, next, proc, current, recycled, events>>
  PROVE  /\ TasksInv' /\ thread'[cur] = r
         /\ \A t \in Tids \ {cur} : thread'[t] = thread[t]
<1>1. Lives(thread[cur]) /\ Lives(r)
  BY DEF TasksInv, RunningHeld, Lives
<1>2. /\ TidAccounting' /\ PoolExact' /\ ZombiesOut'
      /\ \A u, t \in Tids : ClonedBy(u, t)' <=> ClonedBy(u, t)
      /\ thread' \in [Tids -> ThreadRec] /\ thread'[cur] = r
      /\ \A t \in Tids \ {cur} : thread'[t] = thread[t]
  BY <1>1, OwnStep
<1>3. Types'
  BY <1>2 DEF TasksInv, Types
<1>4. RunningHeld'
  BY <1>2, TidFacts DEF TasksInv, RunningHeld
<1>5. NotOwnParent' /\ WaiterWillWake'
  BY <1>2 DEF TasksInv, NotOwnParent, WaiterWillWake
<1>6. CallbacksLive' /\ WokenOnce'
  BY <1>2 DEF TasksInv, Types, CallbacksLive, WokenOnce
<1>7. QED BY <1>2, <1>3, <1>4, <1>5, <1>6 DEF TasksInv

(* push_back.                                                              *)
LEMMA AppendRange ==
  ASSUME NEW S, NEW s \in Seq(S), NEW e \in S
  PROVE  Append(s, e) \in Seq(S) /\ Range(Append(s, e)) = Range(s) \cup {e}
<1> DEFINE a == Append(s, e)
           n == Len(s)
<1>1. /\ a \in Seq(S) /\ n \in Nat /\ DOMAIN s = 1 .. n /\ DOMAIN a = 1 .. n + 1
      /\ a[n + 1] = e /\ \A i \in 1 .. n : a[i] = s[i]
  BY SMTT(40)
<1> HIDE DEF a, n
<1>2. \A i : i \in 1 .. n + 1 <=> i \in 1 .. n \/ i = n + 1
  BY <1>1, SMTT(40)
<1>3. Range(a) = Range(s) \cup {e}
  BY <1>1, <1>2 DEF Range
<1>4. QED BY <1>1, <1>3 DEF a

(* A queue read in part.                                                   *)
LEMMA Cut ==
  ASSUME NEW S, NEW s \in Seq(S), NEW n \in Nat, n <= Len(s)
  PROVE  LET a == SubSeq(s, 1, n)
             b == SubSeq(s, n + 1, Len(s))
         IN a \in Seq(S) /\ b \in Seq(S) /\ a \o b = s
<1> DEFINE m == Len(s)
           a == SubSeq(s, 1, n)
           b == SubSeq(s, n + 1, m)
<1>0. m \in Nat /\ DOMAIN s = 1 .. m /\ \A i \in 1 .. m : s[i] \in S
  BY SMTT(40)
<1>1. n <= m
  OBVIOUS
<1> HIDE DEF m
<1>2. /\ 1 .. n \subseteq 1 .. m /\ n + 1 \in Nat /\ m - (n + 1) + 1 = m - n /\ m - n \in Nat
      /\ \A i \in 1 .. m - n : n + i \in 1 .. m /\ n + 1 + i - 1 = n + i
      /\ n - 1 + 1 = n /\ \A i \in 1 .. n : 1 + i - 1 = i
  BY <1>0, <1>1, SMTT(40)
<1>3. a \in Seq(S) /\ Len(a) = n /\ \A i \in 1 .. n : a[i] = s[i]
  BY <1>0, <1>1, <1>2, SubSeqProperties, SMTT(40)
<1>4. b \in Seq(S) /\ Len(b) = m - n /\ \A i \in 1 .. m - n : b[i] = s[n + i]
  BY <1>0, <1>1, <1>2, SubSeqProperties, SMTT(40)
<1> HIDE DEF a, b
<1>5. /\ a \o b \in Seq(S) /\ Len(a \o b) = n + (m - n)
      /\ \A i \in 1 .. n + (m - n) : (a \o b)[i] = IF i <= n THEN a[i] ELSE b[i - n]
  <2>1. /\ a \o b \in Seq(S) /\ Len(a \o b) = Len(a) + Len(b)
        /\ \A i \in 1 .. Len(a) + Len(b) : (a \o b)[i] = IF i <= Len(a) THEN a[i] ELSE b[i - Len(a)]
    BY <1>3, <1>4, ConcatProperties
  <2>2. QED BY <1>3, <1>4, <2>1
<1>6. n + (m - n) = m
  BY <1>0, SMTT(40)
<1>7. ASSUME NEW i \in 1 .. m PROVE (a \o b)[i] = s[i]
  <2>1. CASE i <= n
    <3>1. i \in 1 .. n
      BY <1>0, <2>1, SMTT(40)
    <3>2. QED BY <1>3, <1>5, <1>6, <2>1, <3>1
  <2>2. CASE ~(i <= n)
    <3>1. i - n \in 1 .. m - n /\ n + (i - n) = i
      BY <1>0, <2>2, SMTT(40)
    <3>2. QED BY <1>4, <1>5, <1>6, <2>2, <3>1
  <2>3. QED BY <2>1, <2>2
<1>8. a \o b = s
  BY <1>0, <1>5, <1>6, <1>7, SeqEqual DEF m
<1>9. QED BY <1>3, <1>4, <1>8 DEF a, b, m

(* The calls on the pipe, and sys_clone, which shares its ends.           *)
LEMMA CallInv ==
  ASSUME PipeInv, PipeCall
  PROVE  PipeInv'
<1>0. /\ thread \in [Tids -> ThreadRec] /\ waitq \in Seq(Tids \cup {None})
      /\ data \in Seq(Nat) /\ got \in Seq(Nat) /\ sent \in Nat
      /\ rd \subseteq Tids /\ wr \subseteq Tids /\ sie \in BOOLEAN
  BY DEF PipeInv, TasksInv, Types, PipeTypes
<1>1. CASE Pipe2
  <2>1. \A t \in Tids : thread[t].at # "read"
    BY <1>1 DEF Pipe2, PipeInv, Blocked
  <2>2. /\ cur \in Tids /\ UNCHANGED vars /\ rd' = {cur} /\ wr' = {cur} /\ data' = <<>> /\ sent' = 0
        /\ got' = <<>> /\ waitq' = <<>>
    BY <1>1 DEF Pipe2, Running
  <2>3. PipeTypes' /\ Range(waitq') = {}
    BY <2>2, SMTT(40) DEF PipeTypes, Range
  <2>4. Blocked' /\ ReaderWillWake'
    BY <2>1, <2>2, <2>3 DEF Blocked, ReaderWillWake, vars
  <2>5. QED BY <2>2, <2>3, <2>4, PipeOnlyInv
<1>2. CASE Read
  <2> DEFINE n == IF Len(data) < ReadLen THEN Len(data) ELSE ReadLen
  <2>1. /\ data # <<>> /\ data' = SubSeq(data, n + 1, Len(data)) /\ got' = got \o SubSeq(data, 1, n)
        /\ UNCHANGED <<vars, rd, wr, sent, waitq, locked>>
    BY <1>2 DEF Read
  <2>2. n \in Nat /\ n <= Len(data)
    BY <1>0, PipeAssumption, SMTT(40)
  <2> HIDE DEF n
  <2>3. data' \in Seq(Nat) /\ SubSeq(data, 1, n) \in Seq(Nat)
    BY <1>0, <2>1, <2>2, Cut
  <2>4. got' \in Seq(Nat)
    BY <1>0, <2>1, <2>3, SMTT(40)
  <2>5. PipeTypes'
    BY <2>1, <2>3, <2>4 DEF PipeInv, PipeTypes
  <2>6. Blocked' /\ ReaderWillWake'
    BY <2>1 DEF PipeInv, Blocked, ReaderWillWake, vars
  <2>7. QED BY <2>1, <2>5, <2>6, PipeOnlyInv
<1>3. CASE ReadEof
  <2> DEFINE r == [thread[cur] EXCEPT !.status = "Waiting"]
  <2>1. /\ cur \in Tids /\ thread[cur].at = "user" /\ wr = {} /\ waitq' = Append(waitq, cur)
        /\ UNCHANGED <<Others, rd, wr, data, sent, got, locked>> /\ thread[cur] \in ThreadRec
    BY <1>0, <1>3 DEF ReadEof, Running
  <2>2. thread' = [thread EXCEPT ![cur] = r]
    BY <1>0, <1>3, <2>1 DEF ReadEof, Waits
  <2>3. r \in ThreadRec /\ r.status = "Waiting" /\ r.at = "user"
    BY <2>1 DEF ThreadRec, Status
  <2> HIDE DEF r
  <2>4. TasksInv' /\ thread'[cur] = r /\ \A t \in Tids \ {cur} : thread'[t] = thread[t]
    BY <1>0, <2>1, <2>2, <2>3, ReaderStep DEF Others, PipeInv
  <2>5. waitq' \in Seq(Tids \cup {None}) /\ Range(waitq') = Range(waitq) \cup {cur}
    <3>1. cur \in Tids \cup {None} /\ waitq \in Seq(Tids \cup {None})
      BY <1>0, <2>1
    <3>2. /\ Append(waitq, cur) \in Seq(Tids \cup {None})
          /\ Range(Append(waitq, cur)) = Range(waitq) \cup {cur}
      BY <3>1, AppendRange, SMTT(40)
    <3>3. QED BY <2>1, <3>2
  <2>6. PipeTypes'
    BY <2>1, <2>5 DEF PipeInv, PipeTypes
  <2>7. Blocked'
    BY <2>1, <2>3, <2>4 DEF PipeInv, Blocked, Others
  <2>8. ReaderWillWake'
    BY <2>1, <2>3, <2>4, <2>5 DEF PipeInv, ReaderWillWake
  <2>9. QED BY <2>4, <2>6, <2>7, <2>8 DEF PipeInv
<1>4. CASE ReadBlocks
  <2> DEFINE r == [[thread[cur] EXCEPT !.status = "Waiting"] EXCEPT !.at = "read"]
  <2>1. /\ cur \in Tids /\ thread[cur].at = "user" /\ cur \in rd /\ wr # {} /\ data = <<>>
        /\ waitq' = Append(waitq, cur) /\ cur' = Kernel /\ sie' = FALSE /\ locked' = locked \cup {cur}
        /\ UNCHANGED <<pool, next, proc, current, recycled, events, rd, wr, data, sent, got>>
        /\ thread[cur] \in ThreadRec
    BY <1>0, <1>4 DEF ReadBlocks, Running
  <2>2. thread' = [thread EXCEPT ![cur] = r]
    BY <1>0, <1>4, <2>1 DEF ReadBlocks, Waits
  <2>3. r \in ThreadRec /\ r.status = "Waiting" /\ r.at = "read"
    BY <2>1 DEF ThreadRec, Status, Places
  <2> HIDE DEF r
  <2>4. TasksInv' /\ thread'[cur] = r /\ \A t \in Tids \ {cur} : thread'[t] = thread[t]
    BY <2>1, <2>2, <2>3, ReaderStep DEF PipeInv
  <2>5. waitq' \in Seq(Tids \cup {None}) /\ Range(waitq') = Range(waitq) \cup {cur}
    BY <1>0, <2>1, AppendRange, SMTT(40)
  <2>6. PipeTypes'
    BY <2>1, <2>5 DEF PipeInv, PipeTypes
  <2>7. Blocked'
    BY <2>1, <2>3, <2>4, <2>5, TidFacts DEF PipeInv, Blocked
  <2>8. ReaderWillWake'
    BY <2>1, <2>3, <2>4, <2>5 DEF PipeInv, ReaderWillWake
  <2>9. QED BY <2>4, <2>6, <2>7, <2>8 DEF PipeInv
<1>5. CASE Write
  <2>1. /\ cur \in Tids /\ thread[cur].at = "user" /\ wr # {} /\ waitq' = <<>>
        /\ data' = data \o [i \in 1 .. WriteLen |-> sent + i] /\ sent' = sent + WriteLen
        /\ thread' = Notified(Range(waitq)) /\ UNCHANGED <<Others, rd, wr, got, locked>>
    BY <1>5 DEF Write, Running
  <2>2. \A t \in Range(waitq) \cap Tids : thread[t].at = "read" /\ thread[t].status # "Zombie"
    BY <2>1 DEF PipeInv, Blocked, TasksInv, ZombiesOut
  <2>3. \A t \in Tids : thread'[t] = IF t \in Range(waitq) THEN [thread[t] EXCEPT !.status = "Ready"] ELSE thread[t]
    BY <2>1 DEF Notified
  <2>4. \A t \in ThreadRec : /\ [t EXCEPT !.status = "Ready"] \in ThreadRec
                             /\ [t EXCEPT !.status = "Ready"].status = "Ready"
                             /\ [t EXCEPT !.status = "Ready"].at = t.at
                             /\ [t EXCEPT !.status = "Ready"].arg = t.arg
    BY DEF ThreadRec, Status
  <2>5. /\ thread' \in [Tids -> ThreadRec]
        /\ \A t \in Tids : thread'[t].at = thread[t].at
        /\ \A t \in Tids : t \notin Range(waitq) => thread'[t] = thread[t]
        /\ \A t \in Tids : t \in Range(waitq) => thread'[t].status = "Ready"
    <3>1. \A t \in Tids : thread[t] \in ThreadRec
      BY <1>0
    <3>2. \A t \in Tids : thread'[t] \in ThreadRec
      BY <2>3, <2>4, <3>1
    <3>3. thread' = [t \in Tids |-> thread'[t]]
      BY <2>1 DEF Notified
    <3>4. thread' \in [Tids -> ThreadRec]
      BY <3>2, <3>3
    <3>5. QED BY <2>3, <2>4, <3>1, <3>4
  <2>6. \A t \in Tids : thread'[t] = thread[t] \/ (Lives(thread[t]) /\ Lives(thread'[t]))
    BY <2>2, <2>5 DEF Lives
  <2>7. UNCHANGED <<cur, sie, pool, next, proc, current, recycled, events>>
    BY <2>1 DEF Others
  <2>8. /\ TidAccounting' /\ PoolExact' /\ ZombiesOut'
        /\ \A u, t \in Tids : ClonedBy(u, t)' <=> ClonedBy(u, t)
    BY <2>5, <2>6, <2>7, QuietStep DEF PipeInv
  <2>9. thread'[cur] = thread[cur]
    BY <2>1, <2>2, <2>5
  <2>10. TasksInv'
    <3>1. Types'
      BY <2>5, <2>7 DEF PipeInv, TasksInv, Types
    <3>2. RunningHeld'
      BY <2>7, <2>8, <2>9 DEF PipeInv, TasksInv, RunningHeld
    <3>3. NotOwnParent' /\ WaiterWillWake'
      BY <2>2, <2>5, <2>7 DEF PipeInv, TasksInv, NotOwnParent, WaiterWillWake
    <3>4. CallbacksLive' /\ WokenOnce'
      BY <2>2, <2>5, <2>7, SMTT(40) DEF PipeInv, TasksInv, Types, CallbacksLive, WokenOnce
    <3>5. QED BY <2>8, <3>1, <3>2, <3>3, <3>4 DEF TasksInv
  <2>11. PipeTypes' /\ Range(waitq') = {}
    <3>1. [i \in 1 .. WriteLen |-> sent + i] \in Seq(Nat) /\ sent' \in Nat
      BY <1>0, <2>1, PipeAssumption, SMTT(40)
    <3>2. data' \in Seq(Nat)
      BY <1>0, <2>1, <3>1, SMTT(40)
    <3>3. QED BY <2>1, <3>1, <3>2, SMTT(40) DEF PipeInv, PipeTypes, Range
  <2>12. Blocked'
    BY <2>1, <2>5, <2>7, <2>11 DEF PipeInv, Blocked
  <2>13. ReaderWillWake'
    BY <2>2, <2>5 DEF PipeInv, ReaderWillWake
  <2>14. QED BY <2>10, <2>11, <2>12, <2>13 DEF PipeInv
<1>6. CASE CloseRead
  <2>1. /\ thread[cur].at = "user" /\ cur \in Tids /\ rd' = rd \ {cur}
        /\ UNCHANGED <<vars, wr, data, sent, got, waitq, locked>>
    BY <1>6 DEF CloseRead, Running
  <2>2. PipeTypes'
    BY <2>1 DEF PipeInv, PipeTypes
  <2>3. Blocked' /\ ReaderWillWake'
    BY <2>1 DEF PipeInv, Blocked, ReaderWillWake, vars
  <2>4. QED BY <2>1, <2>2, <2>3, PipeOnlyInv
<1>7. CASE CloseWrite
  <2>1. /\ wr' = wr \ {cur} /\ UNCHANGED <<vars, rd, data, sent, got, waitq, locked>>
    BY <1>7 DEF CloseWrite
  <2>2. PipeTypes'
    BY <2>1 DEF PipeInv, PipeTypes
  <2>3. Blocked' /\ ReaderWillWake'
    BY <2>1 DEF PipeInv, Blocked, ReaderWillWake, vars
  <2>4. QED BY <2>1, <2>2, <2>3, PipeOnlyInv
<1>8. CASE CloneShares
  <2>1. /\ Clone /\ rd \subseteq rd' /\ rd' \subseteq rd \cup {NewTid} /\ wr' \subseteq wr \cup {NewTid}
        /\ (wr' # {} => wr # {}) /\ UNCHANGED <<data, sent, got, waitq, locked>>
    BY <1>8 DEF CloneShares
  <2>2. NewTid \in Tids /\ thread[NewTid].at = "none" /\ cur' = NewTid
    BY <2>1, AllocFacts DEF Clone, PipeInv, TasksInv
  <2>3. TasksInv' /\ ReadersKept
    BY <2>1, CloneInv, TasksKeepReaders DEF PipeInv, Syscall
  <2>4. PipeTypes'
    BY <2>1, <2>2 DEF PipeInv, PipeTypes
  <2>5. Blocked' /\ ReaderWillWake'
    BY <2>1, <2>2, <2>3 DEF PipeInv, Blocked, ReaderWillWake, ReadersKept
  <2>6. QED BY <2>3, <2>4, <2>5 DEF PipeInv
<1>9. QED BY <1>1, <1>2, <1>3, <1>4, <1>5, <1>6, <1>7, <1>8 DEF PipeCall
-----------------------------------------------------------------------------
(* The composition keeps the invariant of Tasks and the pipe's own.        *)
LEMMA PipeNextInv ==
  ASSUME PipeInv, [PipeNext]_all
  PROVE  PipeInv'
<1>0. \A t \in Tids : thread[t].at = "read" => t \in locked /\ t # cur
  BY DEF PipeInv, Blocked
<1>1. CASE ScheduleStep
  <2>1. Schedule /\ DropCloses /\ ~ActivateSpins
    BY <1>1 DEF ScheduleStep
  <2>2. TasksInv' /\ ReadersKept
    BY <2>1, NextInv, TasksKeepReaders DEF PipeInv, Next
  <2>3. ASSUME NEW t \in Tids, thread[t].at = "read" PROVE t # cur'
    <3>1. CASE DropNext \/ NextProgram
      BY <3>1, TidFacts DEF DropNext, NextProgram
    <3>2. CASE GetNext
      <4>1. /\ cur = Kernel /\ next = None /\ pool # <<>>
            /\ cur' = IF thread[Head(pool)].status = "Ready" THEN Head(pool) ELSE Kernel
        BY <3>2 DEF GetNext
      <4>2. thread[Head(pool)].status = "Ready" => Head(pool) \notin locked
        BY <2>1, <4>1 DEF ActivateSpins
      <4>3. QED BY <1>0, <2>3, <4>1, <4>2, TidFacts
    <3>3. QED BY <2>1, <3>1, <3>2 DEF Schedule
  <2>4. QED BY <2>1, <2>2, <2>3, DropClosesInv
<1>2. CASE ResumeStep \/ SyscallStep
  <2>1. /\ DropCloses
        /\ Resume \/ SchedYield \/ Exit \/ Register \/ \E pid \in Pids : Wait4(pid)
    BY <1>2 DEF ResumeStep, SyscallStep
  <2>2. TasksInv' /\ ReadersKept
    BY <2>1, NextInv, TasksKeepReaders DEF PipeInv, Next, Syscall
  <2>3. cur' \in {cur, Kernel}
    BY <2>1 DEF Resume, CloneReturn, Wait4Loop, Sleep, SleepReturn, SchedYield, Exit,
                Register, Wait4, ToScheduler, Return, Reap, Block
  <2>4. QED BY <1>0, <2>1, <2>2, <2>3, TidFacts, DropClosesInv
<1>3. CASE PipeCall
  BY <1>3, CallInv
<1>4. CASE Spin
  <2>1. UNCHANGED <<vars, rd, wr, data, sent, got, waitq, locked>>
    BY <1>4 DEF Spin
  <2>2. PipeTypes' /\ Blocked' /\ ReaderWillWake'
    BY <2>1 DEF PipeInv, PipeTypes, Blocked, ReaderWillWake, vars
  <2>3. QED BY <2>1, <2>2, PipeOnlyInv
<1>5. CASE TimerStep
  <2>1. Timer /\ UNCHANGED <<rd, wr, data, sent, got, waitq, locked>>
    BY <1>5 DEF TimerStep, pipe
  <2>2. TasksInv' /\ ReadersKept
    BY <2>1, NextInv, TasksKeepReaders DEF PipeInv, Next
  <2>3. cur' \in {cur, Kernel}
    BY <2>1 DEF Timer, Tick, Preempt
  <2>4. PipeTypes'
    BY <2>1 DEF PipeInv, PipeTypes
  <2>5. Blocked' /\ ReaderWillWake'
    BY <2>1, <2>2, <2>3, TidFacts DEF PipeInv, Blocked, ReaderWillWake, ReadersKept
  <2>6. QED BY <2>2, <2>4, <2>5 DEF PipeInv
<1>6. CASE Stopped \/ UNCHANGED all
  <2>1. UNCHANGED <<vars, rd, wr, data, sent, got, waitq, locked>>
    BY <1>6 DEF Stopped, all, pipe
  <2>2. PipeTypes' /\ Blocked' /\ ReaderWillWake'
    BY <2>1 DEF PipeInv, PipeTypes, Blocked, ReaderWillWake, vars
  <2>3. QED BY <2>1, <2>2, PipeOnlyInv
<1>7. QED BY <1>1, <1>2, <1>3, <1>4, <1>5, <1>6 DEF PipeNext

(* At boot there is no pipe.                                               *)
LEMMA PipeInitInv ==
  ASSUME PipeInit
  PROVE  PipeInv /\ PipeFifo
<1>1. TasksInv /\ \A t \in Tids : thread[t].at = "none"
  BY InitInv DEF PipeInit, Init, NoThread
<1>2. /\ rd = {} /\ wr = {} /\ data = <<>> /\ sent = 0 /\ got = <<>> /\ waitq = <<>>
  BY DEF PipeInit
<1>3. PipeTypes /\ Blocked /\ ReaderWillWake
  BY <1>1, <1>2, SMTT(40) DEF PipeTypes, Blocked, ReaderWillWake
<1>4. PipeFifo
  <2>1. got \o data = <<>>
    BY <1>2, SMTT(40)
  <2>2. [i \in 1 .. 0 |-> i] = <<>>
    BY SMTT(40)
  <2>3. QED BY <1>2, <2>1, <2>2 DEF PipeFifo
<1>5. QED BY <1>1, <1>3, <1>4 DEF PipeInv

(* PipeRead::read and PipeWrite::write move bytes from one end of the      *)
(* history to the other.                                                   *)
LEMMA PipeNextFifo ==
  ASSUME PipeInv, PipeFifo, [PipeNext]_all
  PROVE  PipeFifo'
<1>0. data \in Seq(Nat) /\ got \in Seq(Nat) /\ sent \in Nat
  BY DEF PipeInv, PipeTypes
<1>1. CASE Read
  <2> DEFINE n == IF Len(data) < ReadLen THEN Len(data) ELSE ReadLen
  <2>1. /\ data' = SubSeq(data, n + 1, Len(data)) /\ got' = got \o SubSeq(data, 1, n)
        /\ sent' = sent
    BY <1>1 DEF Read
  <2>2. n \in Nat /\ n <= Len(data)
    BY <1>0, PipeAssumption, SMTT(40)
  <2> HIDE DEF n
  <2>3. /\ SubSeq(data, 1, n) \in Seq(Nat) /\ data' \in Seq(Nat)
        /\ SubSeq(data, 1, n) \o data' = data
    BY <1>0, <2>1, <2>2, Cut
  <2>4. got' \o data' = got \o data
    <3> DEFINE a == SubSeq(data, 1, n)
    <3>1. a \in Seq(Nat) /\ a \o data' = data /\ got' = got \o a /\ data' \in Seq(Nat)
      BY <2>1, <2>3
    <3> HIDE DEF a
    <3>2. (got \o a) \o data' = got \o (a \o data')
      <4> DEFINE S == Nat
      <4>1. got \in Seq(S) /\ a \in Seq(S) /\ data' \in Seq(S)
        BY <1>0, <3>1
      <4> HIDE DEF S
      <4>2. QED BY <4>1, ConcatAssociative, SMTT(40)
    <3>3. QED BY <3>1, <3>2
  <2>5. QED BY <2>1, <2>4 DEF PipeFifo
<1>2. CASE Write
  <2> DEFINE w == [i \in 1 .. WriteLen |-> sent + i]
             h == [i \in 1 .. sent |-> i]
             k == [i \in 1 .. sent + WriteLen |-> i]
  <2>1. data' = data \o w /\ sent' = sent + WriteLen /\ got' = got
    BY <1>2 DEF Write
  <2>2. /\ w \in Seq(Nat) /\ Len(w) = WriteLen /\ \A i \in 1 .. WriteLen : w[i] = sent + i
        /\ h \in Seq(Nat) /\ Len(h) = sent /\ \A i \in 1 .. sent : h[i] = i
        /\ k \in Seq(Nat) /\ Len(k) = sent + WriteLen /\ \A i \in 1 .. sent + WriteLen : k[i] = i
    BY <1>0, PipeAssumption, SMTT(40)
  <2>3. got \o data = h
    BY DEF PipeFifo
  <2> HIDE DEF w, h, k
  <2>4. got' \o data' = h \o w
    <3> DEFINE S == Nat
    <3>1. got \in Seq(S) /\ data \in Seq(S) /\ w \in Seq(S)
      BY <1>0, <2>2
    <3> HIDE DEF S
    <3>2. (got \o data) \o w = got \o (data \o w)
      BY <3>1, ConcatAssociative, SMTT(40)
    <3>3. QED BY <2>1, <2>3, <3>2
  <2>5. /\ h \o w \in Seq(Nat) /\ Len(h \o w) = sent + WriteLen
        /\ \A i \in 1 .. sent + WriteLen : (h \o w)[i] = IF i <= sent THEN h[i] ELSE w[i - sent]
    <3>0. h \in Seq(Nat) /\ w \in Seq(Nat)
      BY <2>2
    <3>1. /\ h \o w \in Seq(Nat) /\ Len(h \o w) = Len(h) + Len(w)
          /\ \A i \in 1 .. Len(h) + Len(w) : (h \o w)[i] = IF i <= Len(h) THEN h[i] ELSE w[i - Len(h)]
      BY <3>0, ConcatProperties
    <3>2. QED BY <2>2, <3>1
  <2>6. ASSUME NEW i \in 1 .. sent + WriteLen PROVE (h \o w)[i] = i
    <3>1. CASE i <= sent
      <4>1. i \in 1 .. sent
        BY <1>0, <3>1, PipeAssumption, SMTT(40)
      <4>2. QED BY <2>2, <2>5, <3>1, <4>1
    <3>2. CASE ~(i <= sent)
      <4>1. i - sent \in 1 .. WriteLen /\ sent + (i - sent) = i
        BY <1>0, <3>2, PipeAssumption, SMTT(40)
      <4>2. QED BY <2>2, <2>5, <3>2, <4>1
    <3>3. QED BY <3>1, <3>2
  <2>7. h \o w = k
    BY <2>2, <2>5, <2>6, SeqEqual
  <2>8. QED BY <2>1, <2>4, <2>7 DEF PipeFifo, k
<1>3. CASE Pipe2
  <2>1. data' = <<>> /\ sent' = 0 /\ got' = <<>>
    BY <1>3 DEF Pipe2
  <2>2. got' \o data' = <<>> /\ [i \in 1 .. 0 |-> i] = <<>>
    BY <2>1, SMTT(40)
  <2>3. QED BY <2>1, <2>2 DEF PipeFifo
<1>4. CASE ~(Read \/ Write \/ Pipe2)
  <2>1. UNCHANGED <<data, sent, got>>
    BY <1>4 DEF PipeNext, ScheduleStep, ResumeStep, SyscallStep, PipeCall, Spin, TimerStep, Stopped,
                DropCloses, ReadEof, ReadBlocks, CloseRead, CloseWrite, CloneShares, pipe, all
  <2>2. QED BY <2>1 DEF PipeFifo
<1>5. QED BY <1>1, <1>2, <1>3, <1>4

(* Tasks and the pipe together, in every state the kernel reaches.         *)
THEOREM PipeAgrees == PipeSpec => [](PipeInv /\ PipeFifo)
<1>1. PipeInit => PipeInv /\ PipeFifo
  BY PipeInitInv
<1>2. PipeInv /\ PipeFifo /\ [PipeNext]_all => (PipeInv /\ PipeFifo)'
  BY PipeNextInv, PipeNextFifo
<1>3. QED BY <1>1, <1>2, PTL DEF PipeSpec

(* PipeRead::read, PipeWrite::write: the readers together get the bytes    *)
(* written, in order, each once.                                           *)
THEOREM PipeAlwaysFifo == PipeSpec => []PipeFifo
BY PipeAgrees, PTL

(* Condvar: a reader that sleeps is in the queue, and the pipe is empty.   *)
THEOREM ReadersWake == PipeSpec => []ReaderWillWake
<1>1. PipeInv /\ PipeFifo => ReaderWillWake
  BY DEF PipeInv
<1>2. QED BY <1>1, PipeAgrees, PTL
=============================================================================
