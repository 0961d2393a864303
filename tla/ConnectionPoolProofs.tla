-------------------------- MODULE ConnectionPoolProofs -------------------------
(***************************************************************************)
(* Proofs about ConnectionPool for any number of coroutines and any size   *)
(* of the pool: the safety invariants, and that the pool implements the    *)
(* safety part of FairLease.                                               *)
(*                                                                         *)
(* Besides the properties the proof needs to know that the queues and the  *)
(* coroutines agree (InLine): a coroutine has one job at the strand exactly*)
(* while it is posted, and is among the waiters, once, exactly while it    *)
(* waits. Without it a hand-over could reach a coroutine that has a        *)
(* connection already.                                                     *)
(***************************************************************************)
EXTENDS ConnectionPool, SequenceTheorems, TLAPS

In(s, x)   == \E i \in 1..Len(s) : s[i] = x
Once(s, x) == \A i, j \in 1..Len(s) : s[i] = x /\ s[j] = x => i = j

(* The queues and the coroutines agree. The parameters are the values of    *)
(* strand, waiters, pool, at and holds, also halfway through a job.         *)
InLine(jobs, queue, where) ==
    \A t \in Tasks :
        /\ In(jobs, GetJob(t)) <=> where[t] = "posted"
        /\ In(queue, t) <=> where[t] = "waiting"
        /\ Once(jobs, GetJob(t)) /\ Once(queue, t)

(* OnePlace, in the words of In and Once. *)
Placed(jobs, idle, has) ==
    \A k \in Conns :
        /\ In(idle, k) \/ In(jobs, PutJob(k)) \/ \E t \in Tasks : has[t] = k
        /\ In(idle, k) => ~In(jobs, PutJob(k))
        /\ \A t \in Tasks : has[t] = k => ~In(idle, k) /\ ~In(jobs, PutJob(k))
        /\ Once(idle, k) /\ Once(jobs, PutJob(k))
        /\ \A s, t \in Tasks : has[s] = k /\ has[t] = k => s = t

IInv ==
    /\ TypeOK
    /\ InLine(strand, waiters, at)
    /\ Placed(strand, pool, holds)
    /\ NoLostWakeup /\ OwnResult

--------------------------------------------------------------------------------
(* Queues. *)

(* What push_back, async_receive or a post to the strand adds is in the     *)
(* queue, after everything else.                                            *)
LEMMA AppendIn ==
    ASSUME NEW S, NEW s \in Seq(S), NEW e \in S, NEW x, NEW y
    PROVE  /\ Append(s, e) \in Seq(S)
           /\ In(Append(s, e), x) <=> In(s, x) \/ x = e
           /\ Once(Append(s, e), x) <=> Once(s, x) /\ (x = e => ~In(s, x))
           /\ Precedes(Append(s, e), x, y) <=> Precedes(s, x, y) \/ (In(s, x) /\ y = e)
<1> DEFINE n == Len(s)
           a == Append(s, e)
<1>1. /\ a \in Seq(S) /\ n \in Nat /\ Len(a) = n + 1 /\ a[n + 1] = e
      /\ \A i \in 1..n : a[i] = s[i]
  BY AppendProperties, LenProperties
<1> HIDE DEF n, a
<1>2. In(a, x) <=> In(s, x) \/ x = e
  BY <1>1 DEF In, n
<1>3. Once(a, x) <=> Once(s, x) /\ (x = e => ~In(s, x))
  BY <1>1 DEF In, Once, n
<1>4. Precedes(a, x, y) <=> Precedes(s, x, y) \/ (In(s, x) /\ y = e)
  <2>1. ASSUME NEW j \in 1..(n + 1), a[j] = y, NEW i \in 1..(j - 1), a[i] = x
        PROVE  Precedes(s, x, y) \/ (In(s, x) /\ y = e)
    <3>1. i \in 1..n /\ s[i] = x
      BY <1>1, <2>1
    <3>2. CASE j = n + 1
      BY <1>1, <2>1, <3>1, <3>2 DEF In, n
    <3>3. CASE j # n + 1
      <4>1. j \in 1..n /\ s[j] = y
        BY <1>1, <2>1, <3>3
      <4> QED
        BY <2>1, <3>1, <4>1 DEF Precedes, n
    <3> QED
      BY <3>2, <3>3
  <2>2. ASSUME NEW j \in 1..n, s[j] = y, NEW i \in 1..(j - 1), s[i] = x
        PROVE  Precedes(a, x, y)
    <3>1. j \in 1..(n + 1) /\ a[j] = y /\ i \in 1..(j - 1) /\ a[i] = x
      BY <1>1, <2>2
    <3> QED
      BY <1>1, <3>1 DEF Precedes
  <2>3. ASSUME NEW i \in 1..n, s[i] = x, y = e
        PROVE  Precedes(a, x, y)
    <3>1. n + 1 \in 1..(n + 1) /\ a[n + 1] = y /\ i \in 1..((n + 1) - 1) /\ a[i] = x
      BY <1>1, <2>3
    <3> QED
      BY <1>1, <3>1 DEF Precedes
  <2>4. Precedes(a, x, y) => Precedes(s, x, y) \/ (In(s, x) /\ y = e)
    BY <1>1, <2>1 DEF Precedes
  <2>5. Precedes(s, x, y) => Precedes(a, x, y)
    BY <2>2 DEF Precedes, n
  <2>6. In(s, x) /\ y = e => Precedes(a, x, y)
    BY <2>3 DEF In, n
  <2> QED
    BY <2>4, <2>5, <2>6
<1> QED
  BY <1>1, <1>2, <1>3, <1>4 DEF a

(* What a queue has is its head or in the rest of it, and the head is ahead *)
(* of all the rest.                                                         *)
LEMMA TailIn ==
    ASSUME NEW S, NEW s \in Seq(S), s # <<>>, NEW x, NEW y
    PROVE  /\ Head(s) \in S /\ Tail(s) \in Seq(S)
           /\ In(s, x) <=> x = Head(s) \/ In(Tail(s), x)
           /\ Once(s, x) <=> Once(Tail(s), x) /\ (x = Head(s) => ~In(Tail(s), x))
           /\ Precedes(s, x, y) <=> Precedes(Tail(s), x, y) \/ (x = Head(s) /\ In(Tail(s), y))
<1> DEFINE n == Len(s)
           u == Tail(s)
<1>1. /\ u \in Seq(S) /\ n \in Nat \ {0} /\ Len(u) = n - 1 /\ Head(s) = s[1] /\ Head(s) \in S
      /\ \A i \in 1..(n - 1) : u[i] = s[i + 1]
  BY HeadTailProperties, EmptySeq
<1> HIDE DEF n, u
<1>2. \A j \in 1..n : j = 1 \/ (j - 1 \in 1..(n - 1) /\ s[j] = u[j - 1])
  BY <1>1
<1>3. In(s, x) <=> x = Head(s) \/ In(u, x)
  <2>1. ASSUME NEW i \in 1..n, s[i] = x PROVE x = Head(s) \/ In(u, x)
    BY <1>1, <1>2, <2>1 DEF In
  <2>2. ASSUME NEW i \in 1..(n - 1), u[i] = x PROVE \E j \in 1..n : s[j] = x
    <3>1. i + 1 \in 1..n /\ s[i + 1] = x
      BY <1>1, <2>2
    <3> QED
      BY <3>1
  <2>3. 1 \in 1..n /\ s[1] = Head(s)
    BY <1>1
  <2> QED
    BY <1>1, <2>1, <2>2, <2>3 DEF In, n
<1>4. Once(s, x) <=> Once(u, x) /\ (x = Head(s) => ~In(u, x))
  <2>1. ASSUME Once(s, x) PROVE Once(u, x) /\ (x = Head(s) => ~In(u, x))
    <3>1. \A i \in 1..(n - 1) : i + 1 \in 1..n /\ i + 1 # 1 /\ u[i] = s[i + 1]
      BY <1>1
    <3>2. \A i, j \in 1..(n - 1) : u[i] = x /\ u[j] = x => i + 1 = j + 1
      BY <2>1, <3>1 DEF Once, n
    <3>3. ASSUME x = Head(s), NEW i \in 1..(n - 1), u[i] = x PROVE FALSE
      BY <1>1, <2>1, <3>1, <3>3 DEF Once, n
    <3> QED
      BY <1>1, <3>2, <3>3 DEF Once, In
  <2>2. ASSUME Once(u, x), x = Head(s) => ~In(u, x),
               NEW i \in 1..n, NEW j \in 1..n, s[i] = x, s[j] = x
        PROVE  i = j
    <3>1. CASE i = 1
      BY <1>1, <1>2, <2>2, <3>1 DEF In
    <3>2. CASE j = 1
      BY <1>1, <1>2, <2>2, <3>2 DEF In
    <3>3. CASE i # 1 /\ j # 1
      <4>1. i - 1 = j - 1
        BY <1>1, <1>2, <2>2, <3>3 DEF Once
      <4> QED
        BY <4>1
    <3> QED
      BY <3>1, <3>2, <3>3
  <2> QED
    BY <2>1, <2>2 DEF Once, n
<1>5. Precedes(s, x, y) <=> Precedes(u, x, y) \/ (x = Head(s) /\ In(u, y))
  <2>1. ASSUME NEW j \in 1..n, s[j] = y, NEW i \in 1..(j - 1), s[i] = x
        PROVE  Precedes(u, x, y) \/ (x = Head(s) /\ In(u, y))
    <3>1. j - 1 \in 1..(n - 1) /\ u[j - 1] = y
      BY <1>1, <1>2, <2>1
    <3>2. CASE i = 1
      BY <1>1, <2>1, <3>1, <3>2 DEF In
    <3>3. CASE i # 1
      <4>1. i - 1 \in 1..((j - 1) - 1) /\ u[i - 1] = x
        BY <1>1, <1>2, <2>1, <3>3, SMTT(30)
      <4> QED
        BY <1>1, <3>1, <4>1 DEF Precedes
    <3> QED
      BY <3>2, <3>3
  <2>2. ASSUME NEW j \in 1..(n - 1), u[j] = y, NEW i \in 1..(j - 1), u[i] = x
        PROVE  Precedes(s, x, y)
    <3>1. j + 1 \in 1..n /\ s[j + 1] = y /\ i + 1 \in 1..((j + 1) - 1) /\ s[i + 1] = x
      BY <1>1, <2>2
    <3> QED
      BY <3>1 DEF Precedes, n
  <2>3. ASSUME NEW j \in 1..(n - 1), u[j] = y, x = Head(s)
        PROVE  Precedes(s, x, y)
    <3>1. j + 1 \in 1..n /\ s[j + 1] = y /\ 1 \in 1..((j + 1) - 1) /\ s[1] = x
      BY <1>1, <2>3
    <3> QED
      BY <3>1 DEF Precedes, n
  <2>4. Precedes(s, x, y) => Precedes(u, x, y) \/ (x = Head(s) /\ In(u, y))
    BY <2>1 DEF Precedes, n
  <2>5. Precedes(u, x, y) => Precedes(s, x, y)
    BY <1>1, <2>2 DEF Precedes
  <2>6. x = Head(s) /\ In(u, y) => Precedes(s, x, y)
    BY <1>1, <2>3 DEF In
  <2> QED
    BY <2>4, <2>5, <2>6
<1> QED
  BY <1>1, <1>3, <1>4, <1>5 DEF u

--------------------------------------------------------------------------------
(* The steps of a lease, for the queues as they are halfway through a job.  *)

(* The jobs of two coroutines, or of two connections, are different.        *)
LEMMA JobsDiffer ==
    /\ \A t \in Tasks : GetJob(t) \in Jobs
    /\ \A k \in Conns : PutJob(k) \in Jobs
    /\ \A s, t : GetJob(s) = GetJob(t) => s = t
    /\ \A k, l : PutJob(k) = PutJob(l) => k = l
    /\ \A t, k : GetJob(t) # PutJob(k)
BY DEF GetJob, PutJob, Jobs

(* GetConnection posts a job for a coroutine that had none. *)
LEMMA PostKeeps ==
    ASSUME NEW jobs \in Seq(Jobs), NEW queue, NEW idle,
           NEW where \in [Tasks -> Places], NEW has,
           NEW t \in Tasks, where[t] = "idle",
           InLine(jobs, queue, where), Placed(jobs, idle, has)
    PROVE  /\ InLine(Append(jobs, GetJob(t)), queue, [where EXCEPT ![t] = "posted"])
           /\ Placed(Append(jobs, GetJob(t)), idle, has)
<1> DEFINE more == Append(jobs, GetJob(t))
<1>1. \A x : /\ In(more, x) <=> In(jobs, x) \/ x = GetJob(t)
             /\ Once(more, x) <=> Once(jobs, x) /\ (x = GetJob(t) => ~In(jobs, x))
  BY AppendIn, JobsDiffer
<1> HIDE DEF more
<1>2. InLine(more, queue, [where EXCEPT ![t] = "posted"])
  BY <1>1, JobsDiffer DEF InLine
<1>3. Placed(more, idle, has)
  BY <1>1, JobsDiffer DEF Placed
<1> QED
  BY <1>2, <1>3 DEF more

(* A coroutine that has a connection gives it back: ReturnConnection posts. *)
LEMMA ReleaseKeeps ==
    ASSUME NEW jobs \in Seq(Jobs), NEW queue, NEW idle,
           NEW where \in [Tasks -> Places], NEW has \in [Tasks -> Conns \cup {NoConn}],
           NEW t \in Tasks, where[t] \in {"given", "await"},
           NEW k \in Conns, has[t] = k,
           InLine(jobs, queue, where), Placed(jobs, idle, has)
    PROVE  /\ InLine(Append(jobs, PutJob(k)), queue, [where EXCEPT ![t] = "idle"])
           /\ Placed(Append(jobs, PutJob(k)), idle, [has EXCEPT ![t] = NoConn])
<1> DEFINE more == Append(jobs, PutJob(k))
<1>1. \A x : /\ In(more, x) <=> In(jobs, x) \/ x = PutJob(k)
             /\ Once(more, x) <=> Once(jobs, x) /\ (x = PutJob(k) => ~In(jobs, x))
  BY AppendIn, JobsDiffer
<1> HIDE DEF more
<1>2. InLine(more, queue, [where EXCEPT ![t] = "idle"])
  BY <1>1, JobsDiffer DEF InLine
<1>3. NoConn \notin Conns
  BY PoolAssumption DEF Conns, NoConn
<1>4. Placed(more, idle, [has EXCEPT ![t] = NoConn])
  BY <1>1, <1>3, JobsDiffer DEF Placed
<1> QED
  BY <1>2, <1>4 DEF more

(* GetConnection takes the oldest idle connection. *)
LEMMA TakeKeeps ==
    ASSUME NEW jobs \in Seq(Jobs), NEW queue, NEW idle \in Seq(Conns),
           NEW where \in [Tasks -> Places], NEW has \in [Tasks -> Conns \cup {NoConn}],
           NEW t \in Tasks, jobs # <<>>, Head(jobs) = GetJob(t), idle # <<>>,
           has[t] = NoConn,
           InLine(jobs, queue, where), Placed(jobs, idle, has)
    PROVE  /\ where[t] = "posted"
           /\ InLine(Tail(jobs), queue, [where EXCEPT ![t] = "given"])
           /\ Placed(Tail(jobs), Tail(idle), [has EXCEPT ![t] = Head(idle)])
<1> DEFINE rest == Tail(jobs)
           left == Tail(idle)
<1>1. \A x : /\ In(jobs, x) <=> x = GetJob(t) \/ In(rest, x)
             /\ Once(jobs, x) <=> Once(rest, x) /\ (x = GetJob(t) => ~In(rest, x))
  BY TailIn
<1>2. /\ Head(idle) \in Conns
      /\ \A x : /\ In(idle, x) <=> x = Head(idle) \/ In(left, x)
                /\ Once(idle, x) <=> Once(left, x) /\ (x = Head(idle) => ~In(left, x))
  BY TailIn
<1> HIDE DEF rest, left
<1>3. where[t] = "posted"
  BY <1>1 DEF InLine
<1>4. InLine(rest, queue, [where EXCEPT ![t] = "given"])
  BY <1>1, <1>3, JobsDiffer DEF InLine
<1>5. NoConn \notin Conns
  BY PoolAssumption DEF Conns, NoConn
<1>6. Placed(rest, left, [has EXCEPT ![t] = Head(idle)])
  BY <1>1, <1>2, <1>5, JobsDiffer DEF Placed
<1> QED
  BY <1>3, <1>4, <1>6 DEF rest, left

(* GetConnection finds the pool empty and waits. *)
LEMMA WaitKeeps ==
    ASSUME NEW jobs \in Seq(Jobs), NEW queue \in Seq(Tasks), NEW idle,
           NEW where \in [Tasks -> Places], NEW has,
           NEW t \in Tasks, jobs # <<>>, Head(jobs) = GetJob(t),
           InLine(jobs, queue, where), Placed(jobs, idle, has)
    PROVE  /\ InLine(Tail(jobs), Append(queue, t), [where EXCEPT ![t] = "waiting"])
           /\ Placed(Tail(jobs), idle, has)
<1> DEFINE rest == Tail(jobs)
           more == Append(queue, t)
<1>1. \A x : /\ In(jobs, x) <=> x = GetJob(t) \/ In(rest, x)
             /\ Once(jobs, x) <=> Once(rest, x) /\ (x = GetJob(t) => ~In(rest, x))
  BY TailIn
<1>2. \A x : /\ In(more, x) <=> In(queue, x) \/ x = t
             /\ Once(more, x) <=> Once(queue, x) /\ (x = t => ~In(queue, x))
  BY AppendIn
<1> HIDE DEF rest, more
<1>3. InLine(rest, more, [where EXCEPT ![t] = "waiting"])
  BY <1>1, <1>2, JobsDiffer DEF InLine
<1>4. Placed(rest, idle, has)
  BY <1>1, JobsDiffer DEF Placed
<1> QED
  BY <1>3, <1>4 DEF rest, more

(* ReturnConnection hands the connection to the coroutine that has waited   *)
(* longest.                                                                 *)
LEMMA HandOverKeeps ==
    ASSUME NEW jobs \in Seq(Jobs), NEW queue \in Seq(Tasks), NEW idle,
           NEW where \in [Tasks -> Places], NEW has \in [Tasks -> Conns \cup {NoConn}],
           NEW k \in Conns, jobs # <<>>, Head(jobs) = PutJob(k), queue # <<>>,
           \A t \in Tasks : where[t] = "waiting" => has[t] = NoConn,
           InLine(jobs, queue, where), Placed(jobs, idle, has)
    PROVE  /\ Head(queue) \in Tasks /\ where[Head(queue)] = "waiting"
           /\ InLine(Tail(jobs), Tail(queue), [where EXCEPT ![Head(queue)] = "given"])
           /\ Placed(Tail(jobs), idle, [has EXCEPT ![Head(queue)] = k])
<1> DEFINE rest == Tail(jobs)
           left == Tail(queue)
           t    == Head(queue)
<1>1. \A x : /\ In(jobs, x) <=> x = PutJob(k) \/ In(rest, x)
             /\ Once(jobs, x) <=> Once(rest, x) /\ (x = PutJob(k) => ~In(rest, x))
  BY TailIn
<1>2. /\ t \in Tasks
      /\ \A x : /\ In(queue, x) <=> x = t \/ In(left, x)
                /\ Once(queue, x) <=> Once(left, x) /\ (x = t => ~In(left, x))
  BY TailIn
<1> HIDE DEF rest, left, t
<1>3. where[t] = "waiting"
  BY <1>2 DEF InLine
<1>4. InLine(rest, left, [where EXCEPT ![t] = "given"])
  BY <1>1, <1>2, <1>3, JobsDiffer DEF InLine
<1>5. NoConn \notin Conns
  BY PoolAssumption DEF Conns, NoConn
<1>6. Placed(rest, idle, [has EXCEPT ![t] = k])
  BY <1>1, <1>2, <1>3, <1>5, JobsDiffer DEF Placed
<1> QED
  BY <1>2, <1>3, <1>4, <1>6 DEF rest, left, t

(* ReturnConnection finds nobody waiting and pushes the connection back.    *)
LEMMA PushBackKeeps ==
    ASSUME NEW jobs \in Seq(Jobs), NEW queue, NEW idle \in Seq(Conns),
           NEW where \in [Tasks -> Places], NEW has,
           NEW k \in Conns, jobs # <<>>, Head(jobs) = PutJob(k),
           InLine(jobs, queue, where), Placed(jobs, idle, has)
    PROVE  /\ InLine(Tail(jobs), queue, where)
           /\ Placed(Tail(jobs), Append(idle, k), has)
<1> DEFINE rest == Tail(jobs)
           more == Append(idle, k)
<1>1. \A x : /\ In(jobs, x) <=> x = PutJob(k) \/ In(rest, x)
             /\ Once(jobs, x) <=> Once(rest, x) /\ (x = PutJob(k) => ~In(rest, x))
  BY TailIn
<1>2. \A x : /\ In(more, x) <=> In(idle, x) \/ x = k
             /\ Once(more, x) <=> Once(idle, x) /\ (x = k => ~In(idle, x))
  BY AppendIn
<1> HIDE DEF rest, more
<1>3. InLine(rest, queue, where)
  BY <1>1, JobsDiffer DEF InLine
<1>4. Placed(rest, more, has)
  BY <1>1, <1>2, JobsDiffer DEF Placed
<1> QED
  BY <1>3, <1>4 DEF rest, more

--------------------------------------------------------------------------------
(* SendQuery, of a coroutine t that has just been given k (by GetConnection *)
(* in the same job, or by a hand-over before): whether the command is       *)
(* accepted or refused, the invariant holds afterwards.                     *)
LEMMA SendQueryKeeps ==
    ASSUME IInv, NEW t \in Tasks, NEW k \in Conns, NEW jobs \in Seq(Jobs),
           at[t] # "await", SendQuery(t, k, jobs), UNCHANGED <<waiters, bad>>,
           pool' \in Seq(Conns), NoLostWakeup',
           InLine(jobs, waiters, [at EXCEPT ![t] = "given"]),
           Placed(jobs, pool', [holds EXCEPT ![t] = k])
    PROVE  IInv'
<1> DEFINE where == [at EXCEPT ![t] = "given"]
           has   == [holds EXCEPT ![t] = k]
<1>0. /\ TypeOK /\ OwnResult
      /\ where \in [Tasks -> Places] /\ where[t] = "given"
      /\ has \in [Tasks -> Conns \cup {NoConn}] /\ has[t] = k
      /\ InLine(jobs, waiters, where) /\ Placed(jobs, pool', has)
      /\ NoConn \notin Conns
  BY PoolAssumption DEF IInv, TypeOK, Places, Conns, NoConn
<1>1. CASE /\ k \in bad \/ query[k] # NoTask
           /\ Release(t, k, jobs) /\ UNCHANGED query
  <2>1. at' = [where EXCEPT ![t] = "idle"] /\ holds' = [has EXCEPT ![t] = NoConn]
    BY <1>0, <1>1 DEF Release, TypeOK
  <2>2. strand' = Append(jobs, PutJob(k)) /\ strand' \in Seq(Jobs)
    BY <1>1, JobsDiffer, AppendIn DEF Release
  <2> HIDE DEF where, has
  <2>3. InLine(strand', waiters, at') /\ Placed(strand', pool', holds')
    BY <1>0, <2>1, <2>2, ReleaseKeeps
  <2> USE DEF where, has
  <2>4. TypeOK'
    BY <1>0, <1>1, <2>2 DEF Release, TypeOK, Places
  <2>5. OwnResult'
    BY <1>0, <1>1 DEF Release, OwnResult, TypeOK
  <2> QED
    BY <2>3, <2>4, <2>5 DEF IInv
<1>2. CASE /\ query[k] = NoTask
           /\ query' = [query EXCEPT ![k] = t]
           /\ at' = [at EXCEPT ![t] = "await"]
           /\ holds' = [holds EXCEPT ![t] = k]
           /\ strand' = jobs
  <2>1. InLine(strand', waiters, at') /\ Placed(strand', pool', holds')
    BY <1>0, <1>2 DEF InLine, TypeOK
  <2>2. TypeOK'
    BY <1>0, <1>2 DEF TypeOK, Places
  <2>3. \A s \in Tasks : s # t => holds[s] # k
    BY <1>0 DEF Placed, TypeOK
  <2>4. OwnResult'
    BY <1>0, <1>2, <2>3 DEF OwnResult, TypeOK
  <2> QED
    BY <2>1, <2>2, <2>4 DEF IInv
<1> QED
  BY <1>1, <1>2 DEF SendQuery

(* Every step of the strand, of the coroutines and of the connections keeps *)
(* the invariant.                                                           *)
LEMMA InvStep ==
    ASSUME IInv, [Next]_vars PROVE IInv'
<1>0. /\ TypeOK /\ NoLostWakeup /\ OwnResult
      /\ InLine(strand, waiters, at) /\ Placed(strand, pool, holds)
      /\ NoConn \notin Conns
  BY PoolAssumption DEF IInv, Conns, NoConn
<1>1. ASSUME NEW t \in Tasks, GetConnection(t) PROVE IInv'
  <2> USE <1>0, <1>1 DEF GetConnection
  <2>1. strand' \in Seq(Jobs)
    BY JobsDiffer, AppendIn DEF TypeOK
  <2>2. TypeOK'
    BY <2>1 DEF TypeOK, Places
  <2>3. InLine(strand', waiters', at') /\ Placed(strand', pool', holds')
    BY PostKeeps DEF TypeOK
  <2>4. NoLostWakeup' /\ OwnResult'
    BY DEF NoLostWakeup, OwnResult, TypeOK
  <2> QED
    BY <2>2, <2>3, <2>4 DEF IInv
<1>2. ASSUME NEW t \in Tasks, RunGet(t) PROVE IInv'
  <2>0. strand # <<>> /\ Head(strand) = GetJob(t) /\ Tail(strand) \in Seq(Jobs)
    BY <1>0, <1>2, TailIn DEF RunGet, TypeOK
  <2>1. CASE /\ pool # <<>> /\ pool' = Tail(pool)
             /\ SendQuery(t, Head(pool), Tail(strand)) /\ UNCHANGED <<waiters, bad>>
    <3>1. at[t] = "posted" /\ holds[t] = NoConn
      <4>1. In(strand, GetJob(t))
        BY <1>0, <2>0, TailIn DEF TypeOK
      <4> QED
        BY <1>0, <4>1 DEF InLine, TypeOK
    <3>2. Head(pool) \in Conns /\ pool' \in Seq(Conns)
      BY <1>0, <2>1, TailIn DEF TypeOK
    <3>3. /\ InLine(Tail(strand), waiters, [at EXCEPT ![t] = "given"])
          /\ Placed(Tail(strand), pool', [holds EXCEPT ![t] = Head(pool)])
      BY <1>0, <2>0, <2>1, <3>1, TakeKeeps DEF TypeOK
    <3>4. NoLostWakeup'
      BY <1>0, <2>1 DEF NoLostWakeup
    <3> QED
      BY <2>0, <2>1, <3>1, <3>2, <3>3, <3>4, SendQueryKeeps
  <2>2. CASE /\ pool = <<>> /\ waiters' = Append(waiters, t)
             /\ at' = [at EXCEPT ![t] = "waiting"] /\ strand' = Tail(strand)
             /\ UNCHANGED <<pool, holds, query, bad>>
    <3>1. at[t] = "posted"
      <4>1. In(strand, GetJob(t))
        BY <1>0, <2>0, TailIn DEF TypeOK
      <4> QED
        BY <1>0, <4>1 DEF InLine
    <3>2. waiters' \in Seq(Tasks)
      BY <1>0, <2>2, AppendIn DEF TypeOK
    <3>3. TypeOK'
      BY <1>0, <2>0, <2>2, <3>1, <3>2 DEF TypeOK, Places
    <3>4. InLine(strand', waiters', at') /\ Placed(strand', pool', holds')
      BY <1>0, <2>0, <2>2, WaitKeeps DEF TypeOK
    <3>5. NoLostWakeup' /\ OwnResult'
      BY <1>0, <2>2, <3>1 DEF NoLostWakeup, OwnResult, TypeOK
    <3> QED
      BY <3>3, <3>4, <3>5 DEF IInv
  <2> QED
    BY <1>2, <2>1, <2>2 DEF RunGet
<1>3. ASSUME NEW k \in Conns, RunPut(k) PROVE IInv'
  <2>0. /\ strand # <<>> /\ Head(strand) = PutJob(k)
        /\ strand' = Tail(strand) /\ strand' \in Seq(Jobs)
        /\ UNCHANGED <<query, bad>>
    BY <1>0, <1>3, TailIn DEF RunPut, TypeOK
  <2>1. CASE /\ waiters # <<>> /\ waiters' = Tail(waiters)
             /\ at' = [at EXCEPT ![Head(waiters)] = "given"]
             /\ holds' = [holds EXCEPT ![Head(waiters)] = k]
             /\ UNCHANGED pool
    <3>1. /\ strand \in Seq(Jobs) /\ waiters \in Seq(Tasks) /\ at \in [Tasks -> Places]
          /\ holds \in [Tasks -> Conns \cup {NoConn}]
          /\ \A t \in Tasks : at[t] = "waiting" => holds[t] = NoConn
      BY <1>0 DEF TypeOK
    <3>2. /\ Head(waiters) \in Tasks /\ at[Head(waiters)] = "waiting"
          /\ InLine(Tail(strand), Tail(waiters), [at EXCEPT ![Head(waiters)] = "given"])
          /\ Placed(Tail(strand), pool, [holds EXCEPT ![Head(waiters)] = k])
      BY <1>0, <2>0, <2>1, <3>1, HandOverKeeps
    <3>3. /\ Head(waiters) \in Tasks /\ at[Head(waiters)] = "waiting"
          /\ InLine(strand', waiters', at') /\ Placed(strand', pool', holds')
      BY <2>0, <2>1, <3>2
    <3>4. waiters' \in Seq(Tasks)
      BY <1>0, <2>1, TailIn DEF TypeOK
    <3>5. TypeOK'
      BY <1>0, <2>0, <2>1, <3>3, <3>4 DEF TypeOK, Places
    <3>6. NoLostWakeup'
      BY <1>0, <2>1 DEF NoLostWakeup
    <3>7. OwnResult'
      BY <1>0, <2>0, <2>1, <3>3 DEF OwnResult, TypeOK
    <3> QED
      BY <3>3, <3>5, <3>6, <3>7 DEF IInv
  <2>2. CASE waiters = <<>> /\ pool' = Append(pool, k) /\ UNCHANGED <<waiters, at, holds>>
    <3>1. InLine(strand', waiters', at') /\ Placed(strand', pool', holds')
      BY <1>0, <2>0, <2>2, PushBackKeeps DEF TypeOK
    <3>2. pool' \in Seq(Conns)
      BY <1>0, <2>2, AppendIn DEF TypeOK
    <3>3. TypeOK'
      BY <1>0, <2>0, <2>2, <3>2 DEF TypeOK
    <3>4. NoLostWakeup' /\ OwnResult'
      BY <1>0, <2>0, <2>2 DEF NoLostWakeup, OwnResult
    <3> QED
      BY <3>1, <3>3, <3>4 DEF IInv
  <2> QED
    BY <1>3, <2>1, <2>2 DEF RunPut
<1>4. ASSUME NEW t \in Tasks, Resume(t) PROVE IInv'
  <2>0. /\ at[t] = "given" /\ SendQuery(t, holds[t], strand)
        /\ UNCHANGED <<pool, waiters, bad>>
    BY <1>4 DEF Resume
  <2>1. /\ holds[t] \in Conns /\ strand \in Seq(Jobs)
        /\ at = [at EXCEPT ![t] = "given"] /\ holds = [holds EXCEPT ![t] = holds[t]]
    BY <1>0, <2>0 DEF TypeOK
  <2>2. pool' \in Seq(Conns) /\ NoLostWakeup'
    BY <1>0, <2>0 DEF TypeOK, NoLostWakeup
  <2>3. /\ InLine(strand, waiters, [at EXCEPT ![t] = "given"])
        /\ Placed(strand, pool', [holds EXCEPT ![t] = holds[t]])
    BY <1>0, <2>0, <2>1
  <2> QED
    BY <2>0, <2>1, <2>2, <2>3, SendQueryKeeps
<1>5. ASSUME NEW t \in Tasks, AwaitResponse(t) PROVE IInv'
  <2>0. /\ at[t] = "await" /\ Release(t, holds[t], strand)
        /\ UNCHANGED <<pool, waiters, bad>>
        /\ \/ query' = [query EXCEPT ![holds[t]] = NoTask]
           \/ holds[t] \in bad /\ UNCHANGED query
    BY <1>5 DEF AwaitResponse
  <2>1. holds[t] \in Conns
    BY <1>0, <2>0 DEF TypeOK
  <2>2. InLine(strand', waiters', at') /\ Placed(strand', pool', holds')
    BY <1>0, <2>0, <2>1, ReleaseKeeps DEF Release, TypeOK
  <2>3. strand' \in Seq(Jobs)
    BY <1>0, <2>0, <2>1, JobsDiffer, AppendIn DEF Release, TypeOK
  <2>4. TypeOK'
    BY <1>0, <2>0, <2>1, <2>3 DEF Release, TypeOK, Places
  <2>5. \A s \in Tasks : s # t => holds[s] # holds[t]
    BY <1>0, <2>1 DEF Placed
  <2>6. OwnResult'
    BY <1>0, <2>0, <2>1, <2>5 DEF Release, OwnResult, TypeOK
  <2>7. NoLostWakeup'
    BY <1>0, <2>0 DEF NoLostWakeup
  <2> QED
    BY <2>2, <2>4, <2>6, <2>7 DEF IInv
<1>6. ASSUME NEW k \in Conns, Lose(k) PROVE IInv'
  <2>1. UNCHANGED <<strand, pool, waiters, at, holds, query>> /\ bad' = bad \cup {k}
    BY <1>6 DEF Lose
  <2>2. TypeOK' /\ NoLostWakeup' /\ OwnResult'
    BY <1>0, <2>1 DEF TypeOK, NoLostWakeup, OwnResult
  <2> QED
    BY <1>0, <2>1, <2>2 DEF IInv
<1>7. CASE UNCHANGED vars
  BY <1>0, <1>7 DEF IInv, vars, TypeOK, NoLostWakeup, OwnResult
<1> QED
  BY <1>1, <1>2, <1>3, <1>4, <1>5, <1>6, <1>7 DEF Next, StrandStep, TaskStep

--------------------------------------------------------------------------------
(* The inductive invariant holds in every state, however the strand, the    *)
(* coroutines and lost connections interleave.                              *)
THEOREM Invariance == Spec => []IInv
<1>1. Init => IInv
  <2> SUFFICES ASSUME Init PROVE IInv
    OBVIOUS
  <2>1. pool \in Seq(Conns) /\ Len(pool) = PoolSize /\ \A k \in Conns : pool[k] = k
    BY PoolAssumption DEF Init, Conns
  <2>2. TypeOK
    BY <2>1 DEF Init, TypeOK, Places
  <2>3. \A x : ~In(<<>>, x) /\ Once(<<>>, x)
    BY DEF In, Once
  <2>4. InLine(strand, waiters, at)
    BY <2>3 DEF Init, InLine
  <2>5. \A k \in Conns : In(pool, k) /\ Once(pool, k) /\ k # NoConn
    BY <2>1, PoolAssumption DEF In, Once, Conns, NoConn
  <2>6. Placed(strand, pool, holds)
    BY <2>3, <2>5 DEF Init, Placed
  <2>7. NoLostWakeup /\ OwnResult
    BY DEF Init, NoLostWakeup, OwnResult
  <2> QED
    BY <2>2, <2>4, <2>6, <2>7 DEF IInv
<1>2. IInv /\ [Next]_vars => IInv'
  BY InvStep
<1> QED
  BY <1>1, <1>2, PTL DEF Spec

(* Types; a coroutine has a connection exactly from the moment it is given  *)
(* one until its PooledConnection is destroyed.                             *)
THEOREM TypeCorrect == Spec => []TypeOK
<1>1. IInv => TypeOK
  BY DEF IInv
<1> QED
  BY <1>1, Invariance, PTL

(* GetConnection, ReturnConnection and every error path of a query leave    *)
(* each connection in exactly one place.                                    *)
THEOREM OnePlaceAlways == Spec => []OnePlace
<1>1. IInv => OnePlace
  BY DEF IInv, Placed, OnePlace, InPool, Returning, HeldBy, In, Once
<1> QED
  BY <1>1, Invariance, PTL

(* No coroutine is suspended in async_receive while pool_ has a connection. *)
THEOREM NoLostWakeupAlways == Spec => []NoLostWakeup
<1>1. IInv => NoLostWakeup
  BY DEF IInv
<1> QED
  BY <1>1, Invariance, PTL

(* FetchRawResult reads the result of the command that its own coroutine    *)
(* sent, and leaves nothing unread on a connection that is alive.           *)
THEOREM OwnResultAlways == Spec => []OwnResult
<1>1. IInv => OwnResult
  BY DEF IInv
<1> QED
  BY <1>1, Invariance, PTL

--------------------------------------------------------------------------------
(* The refinement of FairLease: who has asked, in which order, and who has  *)
(* which connection, again also for the queues halfway through a job.       *)

AskedOf(where) == {t \in Tasks : where[t] \in {"posted", "waiting"}}
Before(jobs, queue, where, s, t) ==
    \/ Precedes(queue, s, t)
    \/ where[s] = "waiting" /\ where[t] = "posted"
    \/ Precedes(jobs, GetJob(s), GetJob(t))
AheadOf(jobs, queue, where) ==
    {e \in AskedOf(where) \X AskedOf(where) : Before(jobs, queue, where, e[1], e[2])}
Joined(ahead, asked, t) == ahead \cup (asked \X {t})
Served(ahead, t)        == {e \in ahead : e[1] # t}
First(ahead, asked, t)  == t \in asked /\ \A s \in asked : <<s, t>> \notin ahead
LesseeOf(has) ==
    [k \in Conns |-> IF \E t \in Tasks : has[t] = k
                     THEN CHOOSE t \in Tasks : has[t] = k ELSE NoTask]

(* Two elements of a queue, one of which precedes the other, are in it. *)
LEMMA PrecedesIn ==
    ASSUME NEW S, NEW s \in Seq(S), NEW x, NEW y, Precedes(s, x, y)
    PROVE  In(s, x) /\ In(s, y)
<1>1. PICK j \in 1..Len(s) : s[j] = y /\ \E i \in 1..(j - 1) : s[i] = x
  BY DEF Precedes
<1>2. PICK i \in 1..(j - 1) : s[i] = x
  BY <1>1
<1>3. i \in 1..Len(s)
  BY LenProperties
<1> QED
  BY <1>1, <1>2, <1>3 DEF In

(* Two sets of pairs of tasks with the same pairs are equal. *)
LEMMA PairSets ==
    ASSUME NEW A \in SUBSET (Tasks \X Tasks), NEW B \in SUBSET (Tasks \X Tasks),
           \A s, t \in Tasks : <<s, t>> \in A <=> <<s, t>> \in B
    PROVE  A = B
<1>1. \A e \in Tasks \X Tasks : e \in A <=> e \in B
  OBVIOUS
<1> QED
  BY <1>1

(* The order of the requests, pair by pair. *)
LEMMA AheadPairs ==
    ASSUME NEW jobs, NEW queue, NEW where
    PROVE  /\ AheadOf(jobs, queue, where) \in SUBSET (Tasks \X Tasks)
           /\ \A s, t \in Tasks :
                 <<s, t>> \in AheadOf(jobs, queue, where) <=>
                     /\ s \in AskedOf(where) /\ t \in AskedOf(where)
                     /\ Before(jobs, queue, where, s, t)
BY DEF AheadOf, AskedOf

(* A request made by GetConnection is behind all earlier ones. *)
LEMMA PostIsLast ==
    ASSUME NEW jobs \in Seq(Jobs), NEW queue \in Seq(Tasks),
           NEW where \in [Tasks -> Places], NEW t \in Tasks, where[t] = "idle",
           InLine(jobs, queue, where)
    PROVE  AheadOf(Append(jobs, GetJob(t)), queue, [where EXCEPT ![t] = "posted"]) =
               Joined(AheadOf(jobs, queue, where), AskedOf(where), t)
<1> DEFINE more == Append(jobs, GetJob(t))
           next == [where EXCEPT ![t] = "posted"]
           A    == AheadOf(more, queue, next)
           B    == Joined(AheadOf(jobs, queue, where), AskedOf(where), t)
<1>1. AskedOf(next) = AskedOf(where) \cup {t}
  BY DEF AskedOf
<1>2. \A x, y : Precedes(more, x, y) <=> Precedes(jobs, x, y) \/ (In(jobs, x) /\ y = GetJob(t))
  BY AppendIn, JobsDiffer
<1>3. \A x, y : /\ Precedes(jobs, x, y) => In(jobs, x) /\ In(jobs, y)
                /\ Precedes(queue, x, y) => In(queue, x) /\ In(queue, y)
  BY PrecedesIn
<1>4. \A s \in Tasks : /\ In(jobs, GetJob(s)) <=> where[s] = "posted"
                       /\ In(queue, s) <=> where[s] = "waiting"
  BY DEF InLine
<1>5. ASSUME NEW s \in Tasks, NEW u \in Tasks
      PROVE  <<s, u>> \in A <=> <<s, u>> \in B
  <2>1. <<s, u>> \in A <=>
            /\ s \in AskedOf(next) /\ u \in AskedOf(next)
            /\ Before(more, queue, next, s, u)
    BY AheadPairs
  <2>2. <<s, u>> \in B <=>
            \/ /\ s \in AskedOf(where) /\ u \in AskedOf(where)
               /\ Before(jobs, queue, where, s, u)
            \/ s \in AskedOf(where) /\ u = t
    BY AheadPairs DEF Joined
  <2> HIDE DEF more, A, B
  <2>3. next[t] = "posted" /\ \A v \in Tasks : v # t => next[v] = where[v]
    OBVIOUS
  <2>4. CASE u = t
    <3>1. Precedes(more, GetJob(s), GetJob(u)) <=> where[s] = "posted"
      BY <1>2, <1>3, <1>4, <2>4
    <3>2. ~Precedes(queue, s, u)
      BY <1>3, <1>4, <2>4
    <3> QED
      BY <1>1, <2>1, <2>2, <2>3, <2>4, <3>1, <3>2 DEF Before, AskedOf
  <2>5. CASE u # t
    <3>1. Precedes(more, GetJob(s), GetJob(u)) <=> Precedes(jobs, GetJob(s), GetJob(u))
      BY <1>2, <2>5, JobsDiffer
    <3>2. CASE s = t
      <4>1. ~Precedes(queue, s, u) /\ ~Precedes(jobs, GetJob(s), GetJob(u))
        BY <1>3, <1>4, <3>2
      <4> QED
        BY <1>1, <2>1, <2>2, <2>3, <2>5, <3>1, <3>2, <4>1 DEF Before, AskedOf
    <3>3. CASE s # t
      BY <1>1, <2>1, <2>2, <2>3, <2>5, <3>1, <3>3 DEF Before
    <3> QED
      BY <3>2, <3>3
  <2> QED
    BY <2>4, <2>5
<1>6. A \in SUBSET (Tasks \X Tasks) /\ B \in SUBSET (Tasks \X Tasks)
  <2>1. AskedOf(where) \X {t} \in SUBSET (Tasks \X Tasks)
    BY DEF AskedOf
  <2> QED
    BY <2>1, AheadPairs DEF Joined
<1> HIDE DEF A, B
<1>7. A = B
  BY <1>5, <1>6, PairSets
<1> QED
  BY <1>1, <1>7 DEF A, B, more

(* A job that gives a connection back, posted or run, changes no order.     *)
LEMMA PutJobNoMatter ==
    ASSUME NEW jobs \in Seq(Jobs), NEW queue, NEW where, NEW k \in Conns
    PROVE  /\ AheadOf(Append(jobs, PutJob(k)), queue, where) = AheadOf(jobs, queue, where)
           /\ jobs # <<>> /\ Head(jobs) = PutJob(k) =>
                 AheadOf(Tail(jobs), queue, where) = AheadOf(jobs, queue, where)
<1>1. \A s, t : Precedes(Append(jobs, PutJob(k)), GetJob(s), GetJob(t)) <=>
                   Precedes(jobs, GetJob(s), GetJob(t))
  <2>1. PutJob(k) \in Jobs /\ \A t : GetJob(t) # PutJob(k)
    BY JobsDiffer
  <2>2. \A x, y : Precedes(Append(jobs, PutJob(k)), x, y) <=>
                     Precedes(jobs, x, y) \/ (In(jobs, x) /\ y = PutJob(k))
    BY <2>1, AppendIn
  <2> QED
    BY <2>1, <2>2
<1>2. ASSUME jobs # <<>>, Head(jobs) = PutJob(k)
      PROVE  \A s, t : Precedes(Tail(jobs), GetJob(s), GetJob(t)) <=>
                          Precedes(jobs, GetJob(s), GetJob(t))
  BY <1>2, TailIn, JobsDiffer
<1>3. AheadOf(Append(jobs, PutJob(k)), queue, where) = AheadOf(jobs, queue, where)
  BY <1>1 DEF AheadOf, Before
<1>4. ASSUME jobs # <<>>, Head(jobs) = PutJob(k)
      PROVE  AheadOf(Tail(jobs), queue, where) = AheadOf(jobs, queue, where)
  BY <1>2, <1>4 DEF AheadOf, Before
<1> QED
  BY <1>3, <1>4

(* The order depends only on who is posted and who waits. *)
LEMMA OnlyAskingMatters ==
    ASSUME NEW jobs, NEW queue, NEW where, NEW then,
           \A t \in Tasks : \/ then[t] = where[t]
                            \/ /\ then[t] \notin {"posted", "waiting"}
                               /\ where[t] \notin {"posted", "waiting"}
    PROVE  /\ AskedOf(then) = AskedOf(where)
           /\ AheadOf(jobs, queue, then) = AheadOf(jobs, queue, where)
<1>1. AskedOf(then) = AskedOf(where)
  BY DEF AskedOf
<1>2. \A s, t \in AskedOf(where) :
          Before(jobs, queue, then, s, t) <=> Before(jobs, queue, where, s, t)
  BY DEF AskedOf, Before
<1> QED
  BY <1>1, <1>2 DEF AheadOf

(* Moving from the strand to the waiters, a coroutine keeps its turn.       *)
LEMMA WaitKeepsTurn ==
    ASSUME NEW jobs \in Seq(Jobs), NEW queue \in Seq(Tasks),
           NEW where \in [Tasks -> Places], NEW t \in Tasks,
           jobs # <<>>, Head(jobs) = GetJob(t), InLine(jobs, queue, where)
    PROVE  /\ AskedOf([where EXCEPT ![t] = "waiting"]) = AskedOf(where)
           /\ AheadOf(Tail(jobs), Append(queue, t), [where EXCEPT ![t] = "waiting"]) =
                 AheadOf(jobs, queue, where)
<1> DEFINE rest == Tail(jobs)
           more == Append(queue, t)
           then == [where EXCEPT ![t] = "waiting"]
           A    == AheadOf(rest, more, then)
           B    == AheadOf(jobs, queue, where)
<1>1. \A x, y : /\ In(jobs, x) <=> x = GetJob(t) \/ In(rest, x)
                /\ Once(jobs, x) => (x = GetJob(t) => ~In(rest, x))
                /\ Precedes(jobs, x, y) <=>
                      Precedes(rest, x, y) \/ (x = GetJob(t) /\ In(rest, y))
  BY TailIn
<1>2. \A x, y : Precedes(more, x, y) <=> Precedes(queue, x, y) \/ (In(queue, x) /\ y = t)
  BY AppendIn
<1>3. \A x, y : Precedes(rest, x, y) => In(rest, x) /\ In(rest, y)
  BY TailIn, PrecedesIn
<1>4. \A x, y : Precedes(queue, x, y) => In(queue, x) /\ In(queue, y)
  BY PrecedesIn
<1>5. \A s \in Tasks : /\ In(jobs, GetJob(s)) <=> where[s] = "posted"
                       /\ In(queue, s) <=> where[s] = "waiting"
                       /\ Once(jobs, GetJob(s))
  BY DEF InLine
<1>6. where[t] = "posted" /\ \A s \in Tasks : In(rest, GetJob(s)) <=> where[s] = "posted" /\ s # t
  BY <1>1, <1>5, JobsDiffer
<1>7. AskedOf(then) = AskedOf(where)
  BY <1>6 DEF AskedOf
<1>8. then[t] = "waiting" /\ \A s \in Tasks : s # t => then[s] = where[s]
  OBVIOUS
<1>9. ASSUME NEW s \in Tasks, NEW u \in Tasks
      PROVE  <<s, u>> \in A <=> <<s, u>> \in B
  <2>1. <<s, u>> \in A <=> /\ s \in AskedOf(where) /\ u \in AskedOf(where)
                           /\ Before(rest, more, then, s, u)
    BY <1>7, AheadPairs
  <2>2. <<s, u>> \in B <=> /\ s \in AskedOf(where) /\ u \in AskedOf(where)
                           /\ Before(jobs, queue, where, s, u)
    BY AheadPairs
  <2> HIDE DEF rest, more, then, A, B
  <2>3. Precedes(jobs, GetJob(s), GetJob(u)) <=>
            \/ Precedes(rest, GetJob(s), GetJob(u))
            \/ s = t /\ where[u] = "posted" /\ u # t
    BY <1>1, <1>6, JobsDiffer
  <2>4. Precedes(more, s, u) <=>
            \/ Precedes(queue, s, u)
            \/ where[s] = "waiting" /\ u = t
    BY <1>2, <1>5
  <2>5. CASE s = t
    <3>1. ~Precedes(queue, s, u) /\ ~Precedes(rest, GetJob(s), GetJob(u))
      BY <1>3, <1>4, <1>5, <1>6, <2>5
    <3> QED
      BY <1>6, <1>8, <2>1, <2>2, <2>3, <2>4, <2>5, <3>1 DEF Before
  <2>6. CASE s # t /\ u = t
    <3>1. ~Precedes(queue, s, u) /\ ~Precedes(rest, GetJob(s), GetJob(u))
      BY <1>3, <1>4, <1>5, <1>6, <2>6
    <3> QED
      BY <1>6, <1>8, <2>1, <2>2, <2>3, <2>4, <2>6, <3>1 DEF Before
  <2>7. CASE s # t /\ u # t
    BY <1>6, <1>8, <2>1, <2>2, <2>3, <2>4, <2>7 DEF Before
  <2> QED
    BY <2>5, <2>6, <2>7
<1>10. A \in SUBSET (Tasks \X Tasks) /\ B \in SUBSET (Tasks \X Tasks)
  BY AheadPairs
<1> HIDE DEF A, B
<1>11. A = B
  BY <1>9, <1>10, PairSets
<1> QED
  BY <1>7, <1>11 DEF A, B, rest, more, then

(* With nobody waiting, the coroutine whose job the strand runs is first,   *)
(* and leaves the line to the others as it was.                             *)
LEMMA TakeIsFirst ==
    ASSUME NEW jobs \in Seq(Jobs), NEW where \in [Tasks -> Places], NEW t \in Tasks,
           jobs # <<>>, Head(jobs) = GetJob(t),
           NEW queue \in Seq(Tasks), InLine(jobs, queue, where),
           \A s \in Tasks : where[s] # "waiting"
    PROVE  /\ First(AheadOf(jobs, queue, where), AskedOf(where), t)
           /\ AheadOf(Tail(jobs), queue, [where EXCEPT ![t] = "idle"]) =
                 Served(AheadOf(jobs, queue, where), t)
<1> DEFINE rest == Tail(jobs)
           then == [where EXCEPT ![t] = "idle"]
           A    == AheadOf(rest, queue, then)
           B    == Served(AheadOf(jobs, queue, where), t)
<1>1. \A x, y : /\ In(jobs, x) <=> x = GetJob(t) \/ In(rest, x)
                /\ Once(jobs, x) => (x = GetJob(t) => ~In(rest, x))
                /\ Precedes(jobs, x, y) <=>
                      Precedes(rest, x, y) \/ (x = GetJob(t) /\ In(rest, y))
  BY TailIn
<1>2. \A x, y : Precedes(rest, x, y) => In(rest, x) /\ In(rest, y)
  BY TailIn, PrecedesIn
<1>3. \A s \in Tasks : \A y : ~Precedes(queue, s, y)
  BY PrecedesIn DEF InLine
<1>4. \A s \in Tasks : /\ In(jobs, GetJob(s)) <=> where[s] = "posted"
                       /\ where[s] # "waiting"
                       /\ Once(jobs, GetJob(s))
  BY DEF InLine
<1>5. where[t] = "posted" /\ \A s \in Tasks : In(rest, GetJob(s)) <=> where[s] = "posted" /\ s # t
  BY <1>1, <1>4, JobsDiffer
<1>6. then[t] = "idle" /\ \A s \in Tasks : s # t => then[s] = where[s]
  OBVIOUS
<1>7. t \in AskedOf(where) /\ AskedOf(then) = AskedOf(where) \ {t}
  BY <1>5 DEF AskedOf
<1>8. ASSUME NEW s \in Tasks, NEW u \in Tasks
      PROVE  /\ <<s, t>> \notin AheadOf(jobs, queue, where)
             /\ <<s, u>> \in A <=> <<s, u>> \in B
  <2>1. <<s, u>> \in A <=> /\ s \in AskedOf(then) /\ u \in AskedOf(then)
                           /\ Before(rest, queue, then, s, u)
    BY AheadPairs
  <2>2. \A v \in Tasks : <<s, v>> \in AheadOf(jobs, queue, where) <=>
                            /\ s \in AskedOf(where) /\ v \in AskedOf(where)
                            /\ Before(jobs, queue, where, s, v)
    BY AheadPairs
  <2>3. <<s, u>> \in B <=> <<s, u>> \in AheadOf(jobs, queue, where) /\ s # t
    BY DEF Served
  <2> HIDE DEF rest, A, B
  <2>4. \A v \in Tasks : Before(jobs, queue, where, s, v) <=>
                            \/ Precedes(rest, GetJob(s), GetJob(v))
                            \/ s = t /\ where[v] = "posted" /\ v # t
    BY <1>1, <1>3, <1>4, <1>5, JobsDiffer DEF Before
  <2>5. \A v \in Tasks : Precedes(rest, GetJob(s), GetJob(v)) => s # t /\ v # t
    BY <1>2, <1>5
  <2>6. <<s, t>> \notin AheadOf(jobs, queue, where)
    BY <2>2, <2>4, <2>5
  <2>7. CASE s # t /\ u # t
    <3>1. Before(rest, queue, then, s, u) <=> Precedes(rest, GetJob(s), GetJob(u))
      BY <1>3, <1>4, <1>6, <2>7 DEF Before
    <3> QED
      BY <1>7, <2>1, <2>2, <2>3, <2>4, <2>6, <2>7, <3>1
  <2>8. CASE s = t \/ u = t
    BY <1>7, <2>1, <2>3, <2>6, <2>8
  <2> QED
    BY <2>6, <2>7, <2>8
<1>9. A \in SUBSET (Tasks \X Tasks) /\ B \in SUBSET (Tasks \X Tasks)
  BY AheadPairs DEF Served
<1>10. \A s \in AskedOf(where) : s \in Tasks
  BY DEF AskedOf
<1>11. \A s \in Tasks, u \in Tasks : <<s, u>> \in A <=> <<s, u>> \in B
  BY <1>8
<1>12. \A s \in AskedOf(where) : <<s, t>> \notin AheadOf(jobs, queue, where)
  BY <1>8, <1>10
<1> HIDE DEF A, B
<1>13. A = B
  BY <1>9, <1>11, PairSets
<1> QED
  BY <1>7, <1>12, <1>13 DEF A, B, rest, First

(* The coroutine that ReturnConnection resumes is first, and leaves the     *)
(* line to the others as it was.                                            *)
LEMMA HandOverToFirst ==
    ASSUME NEW jobs \in Seq(Jobs), NEW queue \in Seq(Tasks), queue # <<>>,
           NEW where \in [Tasks -> Places], InLine(jobs, queue, where)
    PROVE  LET t    == Head(queue)
               then == [where EXCEPT ![t] = "given"]
           IN  /\ t \in AskedOf(where)
               /\ \A s \in AskedOf(where) : <<s, t>> \notin AheadOf(jobs, queue, where)
               /\ AskedOf(then) = AskedOf(where) \ {t}
               /\ AheadOf(jobs, Tail(queue), then) =
                     Served(AheadOf(jobs, queue, where), t)
<1> DEFINE t    == Head(queue)
           rest == Tail(queue)
           then == [where EXCEPT ![t] = "given"]
           A    == AheadOf(jobs, rest, then)
           B    == Served(AheadOf(jobs, queue, where), t)
<1>1. /\ t \in Tasks
      /\ \A x, y : /\ In(queue, x) <=> x = t \/ In(rest, x)
                   /\ Once(queue, x) => (x = t => ~In(rest, x))
                   /\ Precedes(queue, x, y) <=>
                         Precedes(rest, x, y) \/ (x = t /\ In(rest, y))
  BY TailIn
<1>2. \A x, y : Precedes(rest, x, y) => In(rest, x) /\ In(rest, y)
  BY TailIn, PrecedesIn
<1>3. \A x, y : Precedes(jobs, x, y) => In(jobs, x) /\ In(jobs, y)
  BY PrecedesIn
<1> HIDE DEF t, rest
<1>4. \A s \in Tasks : /\ In(jobs, GetJob(s)) <=> where[s] = "posted"
                       /\ In(queue, s) <=> where[s] = "waiting"
                       /\ Once(queue, s)
  BY DEF InLine
<1>5. where[t] = "waiting" /\ \A s \in Tasks : In(rest, s) <=> where[s] = "waiting" /\ s # t
  BY <1>1, <1>4
<1>6. then[t] = "given" /\ \A s \in Tasks : s # t => then[s] = where[s]
  BY <1>1
<1>7. t \in AskedOf(where) /\ AskedOf(then) = AskedOf(where) \ {t}
  BY <1>1, <1>5 DEF AskedOf
<1>8. ASSUME NEW s \in Tasks, NEW u \in Tasks
      PROVE  /\ <<s, t>> \notin AheadOf(jobs, queue, where)
             /\ <<s, u>> \in A <=> <<s, u>> \in B
  <2>1. <<s, u>> \in A <=> /\ s \in AskedOf(then) /\ u \in AskedOf(then)
                           /\ Before(jobs, rest, then, s, u)
    BY AheadPairs
  <2>2. \A v \in Tasks : <<s, v>> \in AheadOf(jobs, queue, where) <=>
                            /\ s \in AskedOf(where) /\ v \in AskedOf(where)
                            /\ Before(jobs, queue, where, s, v)
    BY AheadPairs
  <2>3. <<s, u>> \in B <=> <<s, u>> \in AheadOf(jobs, queue, where) /\ s # t
    BY DEF Served
  <2> HIDE DEF then, A, B
  <2>4. ~Precedes(queue, s, t)
    BY <1>1, <1>2, <1>5
  <2>5. ~Precedes(jobs, GetJob(s), GetJob(t))
    BY <1>1, <1>3, <1>4, <1>5
  <2>6. <<s, t>> \notin AheadOf(jobs, queue, where)
    BY <1>1, <1>5, <2>2, <2>4, <2>5 DEF Before
  <2>7. CASE s # t /\ u # t
    <3>1. Precedes(queue, s, u) <=> Precedes(rest, s, u)
      BY <1>1, <2>7
    <3>2. Before(jobs, rest, then, s, u) <=> Before(jobs, queue, where, s, u)
      BY <1>6, <2>7, <3>1 DEF Before
    <3> QED
      BY <1>7, <2>1, <2>2, <2>3, <2>6, <2>7, <3>2
  <2>8. CASE s = t \/ u = t
    BY <1>7, <2>1, <2>3, <2>6, <2>8
  <2> QED
    BY <2>6, <2>7, <2>8
<1>9. A \in SUBSET (Tasks \X Tasks) /\ B \in SUBSET (Tasks \X Tasks)
  BY AheadPairs DEF Served
<1>10. \A s \in AskedOf(where) : s \in Tasks
  BY DEF AskedOf
<1>11. \A s \in Tasks, u \in Tasks : <<s, u>> \in A <=> <<s, u>> \in B
  BY <1>8
<1>12. \A s \in AskedOf(where) : <<s, t>> \notin AheadOf(jobs, queue, where)
  BY <1>8, <1>10
<1> HIDE DEF A, B
<1>13. A = B
  BY <1>9, <1>11, PairSets
<1> QED
  BY <1>7, <1>12, <1>13 DEF A, B, then, t, rest

(* A lease begins: nobody had the connection, and now t has it. *)
LEMMA LeaseBegins ==
    ASSUME NEW has \in [Tasks -> Conns \cup {NoConn}], NEW t \in Tasks, NEW k \in Conns,
           has[t] = NoConn, \A s \in Tasks : has[s] # k
    PROVE  /\ LesseeOf(has)[k] = NoTask
           /\ LesseeOf([has EXCEPT ![t] = k]) = [LesseeOf(has) EXCEPT ![k] = t]
<1> DEFINE then == [has EXCEPT ![t] = k]
<1>0. NoConn \notin Conns
  BY PoolAssumption DEF Conns, NoConn
<1>1. then[t] = k /\ \A s \in Tasks : s # t => then[s] = has[s]
  OBVIOUS
<1> HIDE DEF then
<1>2. LesseeOf(then)[k] = t
  <2>1. \A s \in Tasks : then[s] = k <=> s = t
    BY <1>1
  <2> QED
    BY <2>1 DEF LesseeOf
<1>3. ASSUME NEW l \in Conns, l # k PROVE LesseeOf(then)[l] = LesseeOf(has)[l]
  <2>1. \A s \in Tasks : then[s] = l <=> has[s] = l
    BY <1>0, <1>1, <1>3
  <2>2. (CHOOSE s \in Tasks : then[s] = l) = (CHOOSE s \in Tasks : has[s] = l)
    BY <2>1
  <2> QED
    BY <2>1, <2>2 DEF LesseeOf
<1>4. LesseeOf(has)[k] = NoTask
  BY DEF LesseeOf
<1>5. LesseeOf(then) = [LesseeOf(has) EXCEPT ![k] = t]
  <2>1. DOMAIN LesseeOf(then) = Conns /\ DOMAIN LesseeOf(has) = Conns
    BY DEF LesseeOf
  <2>2. LesseeOf(then) = [l \in Conns |-> LesseeOf(then)[l]]
    BY DEF LesseeOf
  <2> QED
    BY <1>2, <1>3, <2>1, <2>2
<1> QED
  BY <1>4, <1>5 DEF then

(* A lease ends: t had the connection, and now nobody has it. *)
LEMMA LeaseEnds ==
    ASSUME NEW has \in [Tasks -> Conns \cup {NoConn}], NEW t \in Tasks, NEW k \in Conns,
           has[t] = k, \A s \in Tasks : has[s] = k => s = t
    PROVE  /\ LesseeOf(has)[k] # NoTask
           /\ LesseeOf([has EXCEPT ![t] = NoConn]) = [LesseeOf(has) EXCEPT ![k] = NoTask]
<1> DEFINE then == [has EXCEPT ![t] = NoConn]
<1>0. NoConn \notin Conns /\ NoTask \notin Tasks
  BY PoolAssumption DEF Conns, NoConn
<1>1. then[t] = NoConn /\ \A s \in Tasks : s # t => then[s] = has[s]
  OBVIOUS
<1> HIDE DEF then
<1>2. LesseeOf(has)[k] \in Tasks
  BY DEF LesseeOf
<1>3. LesseeOf(then)[k] = NoTask
  <2>1. \A s \in Tasks : then[s] # k
    BY <1>0, <1>1
  <2> QED
    BY <2>1 DEF LesseeOf
<1>4. ASSUME NEW l \in Conns, l # k PROVE LesseeOf(then)[l] = LesseeOf(has)[l]
  <2>1. \A s \in Tasks : then[s] = l <=> has[s] = l
    BY <1>0, <1>1, <1>4
  <2>2. (CHOOSE s \in Tasks : then[s] = l) = (CHOOSE s \in Tasks : has[s] = l)
    BY <2>1
  <2> QED
    BY <2>1, <2>2 DEF LesseeOf
<1>5. LesseeOf(then) = [LesseeOf(has) EXCEPT ![k] = NoTask]
  BY <1>3, <1>4, ZenonT(30) DEF LesseeOf
<1> QED
  BY <1>0, <1>2, <1>5 DEF then

(* Every step of the pool is a step of FairLease, or changes nothing there. *)
LEMMA LeaseStep ==
    ASSUME IInv, [Next]_vars PROVE [Lease!LeaseNext]_(Lease!leaseVars)
<1>0. /\ strand \in Seq(Jobs) /\ pool \in Seq(Conns) /\ waiters \in Seq(Tasks)
      /\ at \in [Tasks -> Places] /\ holds \in [Tasks -> Conns \cup {NoConn}]
      /\ \A t \in Tasks : holds[t] = NoConn <=> at[t] \notin {"given", "await"}
      /\ InLine(strand, waiters, at) /\ Placed(strand, pool, holds)
      /\ pool = <<>> \/ waiters = <<>>
  BY DEF IInv, TypeOK, NoLostWakeup
<1>1. /\ Asked = AskedOf(at) /\ Asked' = AskedOf(at')
      /\ Ahead = AheadOf(strand, waiters, at) /\ Ahead' = AheadOf(strand', waiters', at')
      /\ Lessee = LesseeOf(holds) /\ Lessee' = LesseeOf(holds')
  BY DEF Asked, AskedOf, Ahead, AheadOf, Before, Lessee, LesseeOf, HeldBy
<1>2. ASSUME NEW t \in Tasks, GetConnection(t) PROVE Lease!LeaseNext
  <2>0. /\ at[t] = "idle" /\ at' = [at EXCEPT ![t] = "posted"] /\ UNCHANGED waiters
        /\ strand' = Append(strand, GetJob(t))
    BY <1>2 DEF GetConnection
  <2>1. Asked' = Asked \cup {t} /\ Ahead' = Ahead \cup (Asked \X {t})
    <3>0. at[t] = "idle"
      BY <2>0
    <3>1. AheadOf(Append(strand, GetJob(t)), waiters, [at EXCEPT ![t] = "posted"]) =
              Joined(AheadOf(strand, waiters, at), AskedOf(at), t)
      BY <1>0, <3>0, PostIsLast
    <3>2. AskedOf(at') = AskedOf(at) \cup {t}
      BY <1>0, <2>0 DEF AskedOf
    <3> QED
      BY <1>1, <2>0, <3>1, <3>2 DEF Joined
  <2>2. t \notin Asked /\ UNCHANGED Lessee
    BY <1>1, <1>2 DEF GetConnection, AskedOf
  <2>3. ASSUME NEW k \in Conns PROVE Lessee[k] # t
    BY <1>0, <1>1, <1>2, <2>3, PoolAssumption, SMTT(30)
       DEF GetConnection, LesseeOf, Conns, NoConn
  <2> QED
    BY <2>1, <2>2, <2>3 DEF Lease!LeaseNext, Lease!Request
<1>3. ASSUME NEW t \in Tasks, NEW k \in Conns, holds[t] = k,
             Release(t, k, strand), UNCHANGED waiters
      PROVE  Lease!LeaseNext
  <2>1. \A s \in Tasks : holds[s] = k => s = t
    BY <1>0, <1>3 DEF Placed
  <2>2. Lessee[k] # NoTask /\ Lessee' = [Lessee EXCEPT ![k] = NoTask]
    BY <1>0, <1>1, <1>3, <2>1, LeaseEnds DEF Release
  <2>3. NoConn \notin Conns
    BY PoolAssumption DEF Conns, NoConn
  <2>4. \A s \in Tasks : \/ at'[s] = at[s]
                         \/ /\ at'[s] \notin {"posted", "waiting"}
                            /\ at[s] \notin {"posted", "waiting"}
    BY <1>0, <1>3, <2>3 DEF Release
  <2>5. Asked' = Asked /\ AheadOf(strand, waiters, at') = Ahead
    BY <1>1, <2>4, OnlyAskingMatters
  <2>6. Ahead' = AheadOf(strand, waiters, at')
    BY <1>0, <1>1, <1>3, PutJobNoMatter DEF Release
  <2> QED
    BY <2>2, <2>5, <2>6 DEF Lease!LeaseNext, Lease!Release
<1>4. ASSUME NEW t \in Tasks, RunGet(t) PROVE [Lease!LeaseNext]_(Lease!leaseVars)
  <2>0. strand # <<>> /\ Head(strand) = GetJob(t) /\ Tail(strand) \in Seq(Jobs)
    BY <1>0, <1>4, TailIn DEF RunGet
  <2>1. CASE pool # <<>> /\ SendQuery(t, Head(pool), Tail(strand)) /\ UNCHANGED waiters
    <3> DEFINE k == Head(pool)
    <3>1. waiters = <<>> /\ k \in Conns /\ In(pool, k)
      BY <1>0, <2>1, TailIn
    <3>2. \A s \in Tasks : holds[s] # k
      BY <1>0, <3>1 DEF Placed
    <3>3. In(strand, GetJob(t)) /\ at[t] = "posted" /\ holds[t] = NoConn
      <4>1. In(strand, GetJob(t))
        BY <1>0, <2>0, TailIn
      <4> QED
        BY <1>0, <4>1 DEF InLine
    <3>4. /\ Lessee[k] = NoTask
          /\ LesseeOf([holds EXCEPT ![t] = k]) = [Lessee EXCEPT ![k] = t]
      BY <1>0, <1>1, <3>1, <3>2, <3>3, LeaseBegins, ZenonT(30)
    <3> HIDE DEF k
    <3>5. ASSUME NEW place \in {"idle", "await"}, at' = [at EXCEPT ![t] = place]
          PROVE  /\ t \in Asked /\ \A s \in Asked : <<s, t>> \notin Ahead
                 /\ Asked' = Asked \ {t}
                 /\ AheadOf(Tail(strand), waiters, at') = Served(Ahead, t)
      <4>1. \A s \in Tasks : at[s] # "waiting"
        BY <1>0, <3>1 DEF InLine, In
      <4>2. /\ First(AheadOf(strand, waiters, at), AskedOf(at), t)
            /\ AheadOf(Tail(strand), waiters, [at EXCEPT ![t] = "idle"]) =
                  Served(AheadOf(strand, waiters, at), t)
        BY <1>0, <2>0, <4>1, TakeIsFirst
      <4> DEFINE free == [at EXCEPT ![t] = "idle"]
      <4>3. \A s \in Tasks : \/ at'[s] = free[s]
                             \/ /\ at'[s] \notin {"posted", "waiting"}
                                /\ free[s] \notin {"posted", "waiting"}
        BY <1>0, <3>5
      <4> HIDE DEF free
      <4>4. /\ AskedOf(at') = AskedOf(free)
            /\ AheadOf(Tail(strand), waiters, at') = AheadOf(Tail(strand), waiters, free)
        BY <4>3, OnlyAskingMatters
      <4>5. AskedOf(at') = AskedOf(at) \ {t}
        BY <1>0, <3>5 DEF AskedOf
      <4> QED
        BY <1>1, <4>2, <4>4, <4>5 DEF free, First
    <3>6. CASE Release(t, k, Tail(strand))
      <4>1. AheadOf(strand', waiters, at') = AheadOf(Tail(strand), waiters, at')
        BY <2>0, <3>1, <3>6, PutJobNoMatter DEF Release
      <4>2. at' = [at EXCEPT ![t] = "idle"] /\ holds' = holds
        BY <1>0, <3>3, <3>6 DEF Release
      <4>3. Lease!Serve(t) /\ UNCHANGED Lessee
        BY <1>1, <2>1, <3>5, <4>1, <4>2 DEF Lease!Serve, Served
      <4>4. Lease!Spend(k, t)
        BY <3>4, <4>3 DEF Lease!Spend
      <4> QED
        BY <3>1, <4>4 DEF Lease!LeaseNext, Lease!GrantStep
    <3>7. CASE /\ at' = [at EXCEPT ![t] = "await"]
               /\ holds' = [holds EXCEPT ![t] = k]
               /\ strand' = Tail(strand)
      <4>1. Lease!Serve(t)
        BY <1>1, <2>1, <3>5, <3>7 DEF Lease!Serve, Served
      <4>2. Lease!Grant(k, t)
        BY <1>1, <3>4, <3>7, <4>1 DEF Lease!Grant
      <4> QED
        BY <3>1, <4>2 DEF Lease!LeaseNext, Lease!GrantStep
    <3> QED
      BY <2>1, <3>6, <3>7 DEF SendQuery, k
  <2>2. CASE /\ waiters' = Append(waiters, t)
             /\ at' = [at EXCEPT ![t] = "waiting"] /\ strand' = Tail(strand)
             /\ UNCHANGED holds
    <3>1. Asked' = Asked /\ Ahead' = Ahead
      <4>1. /\ AskedOf([at EXCEPT ![t] = "waiting"]) = AskedOf(at)
            /\ AheadOf(Tail(strand), Append(waiters, t), [at EXCEPT ![t] = "waiting"]) =
                  AheadOf(strand, waiters, at)
        BY <1>0, <2>0, WaitKeepsTurn, ZenonT(30)
      <4> QED
        BY <1>1, <2>2, <4>1
    <3>2. Lessee' = Lessee
      BY <1>1, <2>2
    <3> QED
      BY <3>1, <3>2 DEF Lease!leaseVars
  <2> QED
    BY <1>4, <2>1, <2>2 DEF RunGet
<1>5. ASSUME NEW k \in Conns, RunPut(k) PROVE [Lease!LeaseNext]_(Lease!leaseVars)
  <2>0. strand # <<>> /\ Head(strand) = PutJob(k) /\ strand' = Tail(strand)
    BY <1>5 DEF RunPut
  <2>1. AheadOf(strand', waiters', at') = AheadOf(strand, waiters', at')
    BY <1>0, <2>0, PutJobNoMatter
  <2>2. CASE /\ waiters # <<>> /\ waiters' = Tail(waiters)
             /\ at' = [at EXCEPT ![Head(waiters)] = "given"]
             /\ holds' = [holds EXCEPT ![Head(waiters)] = k]
    <3> DEFINE t == Head(waiters)
    <3>1. t \in Tasks /\ In(waiters, t)
      BY <1>0, <2>2, TailIn
    <3>2. holds[t] = NoConn
      BY <1>0, <3>1 DEF InLine
    <3>3. \A s \in Tasks : holds[s] # k
      <4>1. In(strand, PutJob(k))
        BY <1>0, <2>0, TailIn
      <4> QED
        BY <1>0, <4>1 DEF Placed
    <3>4. /\ t \in Asked /\ \A s \in Asked : <<s, t>> \notin Ahead
          /\ AskedOf(at') = Asked \ {t}
          /\ AheadOf(strand, waiters', at') = Served(Ahead, t)
      BY <1>0, <1>1, <2>2, HandOverToFirst
    <3> HIDE DEF t
    <3>5. Lease!Serve(t)
      BY <1>1, <2>1, <3>4 DEF Lease!Serve, Served
    <3>6. Lessee[k] = NoTask /\ Lessee' = [Lessee EXCEPT ![k] = t]
      BY <1>0, <1>1, <2>2, <3>1, <3>2, <3>3, LeaseBegins, ZenonT(30) DEF t
    <3>7. Lease!Grant(k, t)
      BY <3>5, <3>6 DEF Lease!Grant
    <3> QED
      BY <3>1, <3>7 DEF Lease!LeaseNext, Lease!GrantStep
  <2>3. CASE UNCHANGED <<waiters, at, holds>>
    BY <1>1, <2>1, <2>3 DEF Lease!leaseVars
  <2> QED
    BY <1>5, <2>2, <2>3 DEF RunPut
<1>6. ASSUME NEW t \in Tasks, Resume(t) PROVE [Lease!LeaseNext]_(Lease!leaseVars)
  <2>0. /\ at[t] = "given" /\ holds[t] \in Conns
        /\ SendQuery(t, holds[t], strand) /\ UNCHANGED waiters
    BY <1>0, <1>6 DEF Resume
  <2>1. CASE Release(t, holds[t], strand)
    BY <1>3, <2>0, <2>1
  <2>2. CASE /\ at' = [at EXCEPT ![t] = "await"]
             /\ holds' = [holds EXCEPT ![t] = holds[t]]
             /\ strand' = strand
    <3>1. \A s \in Tasks : \/ at'[s] = at[s]
                           \/ /\ at'[s] \notin {"posted", "waiting"}
                              /\ at[s] \notin {"posted", "waiting"}
      BY <1>0, <2>0, <2>2
    <3>2. AskedOf(at') = Asked /\ AheadOf(strand, waiters, at') = Ahead
      BY <1>1, <3>1, OnlyAskingMatters
    <3>3. holds' = holds
      BY <1>0, <2>2
    <3> QED
      BY <1>1, <2>0, <2>2, <3>2, <3>3 DEF Lease!leaseVars
  <2> QED
    BY <2>0, <2>1, <2>2 DEF SendQuery
<1>7. ASSUME NEW t \in Tasks, AwaitResponse(t) PROVE Lease!LeaseNext
  <2>1. holds[t] \in Conns
    BY <1>0, <1>7 DEF AwaitResponse
  <2> QED
    BY <1>3, <1>7, <2>1 DEF AwaitResponse
<1>8. ASSUME UNCHANGED <<strand, waiters, at, holds>> PROVE UNCHANGED Lease!leaseVars
  BY <1>1, <1>8 DEF Lease!leaseVars
<1> QED
  BY <1>2, <1>4, <1>5, <1>6, <1>7, <1>8 DEF Next, StrandStep, TaskStep, Lose, vars

(* The pool implements the safety part of FairLease: connections are leased *)
(* exclusively, and strictly in the order in which GetConnection was        *)
(* called.                                                                  *)
THEOREM LeasedInOrderAlways == Spec => LeasedInOrder
<1>1. Init => Lease!LeaseInit
  <2> SUFFICES ASSUME Init PROVE Lease!LeaseInit
    OBVIOUS
  <2>1. Asked = {} /\ Ahead = {}
    BY DEF Init, Asked, Ahead
  <2>2. \A k \in Conns, t \in Tasks : holds[t] # k
    <3>1. \A t \in Tasks : holds[t] = NoConn
      BY DEF Init
    <3>2. NoConn \notin Conns
      BY PoolAssumption DEF Conns, NoConn
    <3> QED
      BY <3>1, <3>2
  <2>3. Lessee = [k \in Conns |-> NoTask]
    BY <2>2 DEF Lessee, HeldBy
  <2> QED
    BY <2>1, <2>3 DEF Lease!LeaseInit
<1>2. IInv /\ [Next]_vars => [Lease!LeaseNext]_(Lease!leaseVars)
  BY LeaseStep
<1> QED
  BY <1>1, <1>2, Invariance, PTL DEF Spec, LeasedInOrder, Lease!LeaseSafety

================================================================================
