----------------------------- MODULE ConnectionPool ----------------------------
(***************************************************************************)
(* infrastructure/persistence/postgresql: AsyncConnectionPool and the      *)
(* PQConnections it lends to the UserDao coroutines.                       *)
(*                                                                         *)
(* pool_ and the waiter queue of waiters_channel_ have no lock; they are   *)
(* touched only by jobs of strand_, which run one at a time in the order   *)
(* they were posted. GetConnection posts the rest of the calling coroutine *)
(* to the strand, so the coroutine runs inside the strand's job until its  *)
(* next suspension: up to async_receive if the pool is empty, else through *)
(* SendQuery up to the first async_wait. A coroutine that async_receive    *)
(* resumes was posted by try_send to its own executor and runs outside of  *)
(* the strand, at any later time.                                          *)
(***************************************************************************)
EXTENDS Naturals, Sequences

CONSTANTS
    Tasks,       \* coroutines that run one UserDao operation after another
    NoTask,
    PoolSize     \* DbPoolConfig::pool_size

ASSUME PoolAssumption ==
    /\ PoolSize \in Nat \ {0}     \* the constructor throws otherwise
    /\ NoTask \notin Tasks

Conns  == 1..PoolSize
NoConn == 0

VARIABLES
    strand,      \* jobs posted to strand_, oldest first
    pool,        \* pool_: the idle connections
    waiters,     \* coroutines suspended in waiters_channel_.async_receive
    at,          \* at[t]: where the coroutine of t is
    holds,       \* holds[t]: the connection t has, or that is on its way to t
    query,       \* query[k]: whose command libpq has in progress on k
    bad          \* connections whose server side is gone

vars == <<strand, pool, waiters, at, holds, query, bad>>

GetJob(t) == [op |-> "get", task |-> t, conn |-> NoConn]
PutJob(k) == [op |-> "put", task |-> NoTask, conn |-> k]
Jobs      == {GetJob(t) : t \in Tasks} \cup {PutJob(k) : k \in Conns}
Places    == {"idle", "posted", "waiting", "given", "await"}

(* Types; and a coroutine has a connection exactly from the moment it is    *)
(* given one until its PooledConnection is destroyed.                       *)
TypeOK ==
    /\ strand \in Seq(Jobs)
    /\ pool \in Seq(Conns)
    /\ waiters \in Seq(Tasks)
    /\ at \in [Tasks -> Places]
    /\ holds \in [Tasks -> Conns \cup {NoConn}]
    /\ \A t \in Tasks : holds[t] = NoConn <=> at[t] \notin {"given", "await"}
    /\ query \in [Conns -> Tasks \cup {NoTask}]
    /\ bad \subseteq Conns

(* AsyncConnectionPool::Init has connected and pushed every connection. *)
Init ==
    /\ strand = <<>>
    /\ pool = [k \in Conns |-> k]
    /\ waiters = <<>>
    /\ at = [t \in Tasks |-> "idle"]
    /\ holds = [t \in Tasks |-> NoConn]
    /\ query = [k \in Conns |-> NoTask]
    /\ bad = {}

--------------------------------------------------------------------------------
(* GetConnection, first statement: post(strand_, use_awaitable). *)
GetConnection(t) ==
    /\ at[t] = "idle"
    /\ at' = [at EXCEPT ![t] = "posted"]
    /\ strand' = Append(strand, GetJob(t))
    /\ UNCHANGED <<pool, waiters, holds, query, bad>>

(* Mutant: the coroutine still refers to the connection it gave back. *)
Release_KeepHold(t, k, jobs) ==
    /\ strand' = Append(jobs, PutJob(k))
    /\ at' = [at EXCEPT ![t] = "idle"]
    /\ holds' = [holds EXCEPT ![t] = k]

(* The PooledConnection of t goes out of scope while strand holds jobs: the *)
(* ConnectionReleaser calls ReturnConnection, which posts to the strand.    *)
Release(t, k, jobs) ==
    /\ strand' = Append(jobs, PutJob(k))
    /\ at' = [at EXCEPT ![t] = "idle"]
    /\ holds' = [holds EXCEPT ![t] = NoConn]

(* Mutant: a connection whose send failed is not given back. *)
SendQuery_Leak(t, k, jobs) ==
    \/ /\ k \in bad \/ query[k] # NoTask
       /\ strand' = jobs
       /\ at' = [at EXCEPT ![t] = "idle"]
       /\ holds' = [holds EXCEPT ![t] = NoConn]
       /\ UNCHANGED query
    \/ /\ query[k] = NoTask
       /\ query' = [query EXCEPT ![k] = t]
       /\ at' = [at EXCEPT ![t] = "await"]
       /\ holds' = [holds EXCEPT ![t] = k]
       /\ strand' = jobs

(* SendQuery by t on k. PQsendQueryParams fails if the connection is known  *)
(* to be bad or has a command in progress: the exception unwinds the DAO    *)
(* coroutine, which releases k. A bad connection not yet known to be bad    *)
(* accepts the command.                                                     *)
SendQuery(t, k, jobs) ==
    \/ /\ k \in bad \/ query[k] # NoTask
       /\ Release(t, k, jobs)
       /\ UNCHANGED query
    \/ /\ query[k] = NoTask
       /\ query' = [query EXCEPT ![k] = t]
       /\ at' = [at EXCEPT ![t] = "await"]
       /\ holds' = [holds EXCEPT ![t] = k]
       /\ strand' = jobs

(* The strand runs the rest of GetConnection for t. *)
RunGet(t) ==
    /\ strand # <<>> /\ Head(strand) = GetJob(t)
    /\ \/ /\ pool # <<>>
          /\ pool' = Tail(pool)
          /\ SendQuery(t, Head(pool), Tail(strand))
          /\ UNCHANGED <<waiters, bad>>
       \/ /\ pool = <<>>
          /\ waiters' = Append(waiters, t)
          /\ at' = [at EXCEPT ![t] = "waiting"]
          /\ strand' = Tail(strand)
          /\ UNCHANGED <<pool, holds, query, bad>>

(* Mutant: the connection goes back to pool_ whether or not anyone waits. *)
RunPut_NoHandover(k) ==
    /\ strand # <<>> /\ Head(strand) = PutJob(k)
    /\ strand' = Tail(strand)
    /\ pool' = Append(pool, k)
    /\ UNCHANGED <<waiters, at, holds, query, bad>>

(* Mutant: pushed back even when the try_send handed it to a waiter. *)
RunPut_PushAlways(k) ==
    /\ strand # <<>> /\ Head(strand) = PutJob(k)
    /\ strand' = Tail(strand)
    /\ pool' = Append(pool, k)
    /\ IF waiters # <<>>
       THEN /\ waiters' = Tail(waiters)
            /\ at' = [at EXCEPT ![Head(waiters)] = "given"]
            /\ holds' = [holds EXCEPT ![Head(waiters)] = k]
       ELSE UNCHANGED <<waiters, at, holds>>
    /\ UNCHANGED <<query, bad>>

(* Mutant: the youngest waiter is served first. *)
RunPut_Lifo(k) ==
    /\ strand # <<>> /\ Head(strand) = PutJob(k)
    /\ strand' = Tail(strand)
    /\ IF waiters # <<>>
       THEN /\ waiters' = SubSeq(waiters, 1, Len(waiters) - 1)
            /\ at' = [at EXCEPT ![waiters[Len(waiters)]] = "given"]
            /\ holds' = [holds EXCEPT ![waiters[Len(waiters)]] = k]
            /\ UNCHANGED pool
       ELSE /\ pool' = Append(pool, k)
            /\ UNCHANGED <<waiters, at, holds>>
    /\ UNCHANGED <<query, bad>>

(* The strand runs the job of ReturnConnection: try_send to the longest     *)
(* waiting coroutine, which is then posted to the asio pool, else push_back.*)
RunPut(k) ==
    /\ strand # <<>> /\ Head(strand) = PutJob(k)
    /\ strand' = Tail(strand)
    /\ \/ /\ waiters # <<>>
          /\ waiters' = Tail(waiters)
          /\ at' = [at EXCEPT ![Head(waiters)] = "given"]
          /\ holds' = [holds EXCEPT ![Head(waiters)] = k]
          /\ UNCHANGED pool
       \/ /\ waiters = <<>>
          /\ pool' = Append(pool, k)
          /\ UNCHANGED <<waiters, at, holds>>
    /\ UNCHANGED <<query, bad>>

(* The coroutine resumes from async_receive and goes on to SendQuery. *)
Resume(t) ==
    /\ at[t] = "given"
    /\ SendQuery(t, holds[t], strand)
    /\ UNCHANGED <<pool, waiters, bad>>

(* Mutant: FetchRawResult stops at the first result instead of the null.    *)
AwaitResponse_NoDrain(t) ==
    LET k == holds[t] IN
    /\ at[t] = "await"
    /\ Release(t, k, strand)
    /\ UNCHANGED <<pool, waiters, query, bad>>

(* AwaitResponse, FetchRawResult and MapResultToExpected: on a live         *)
(* connection the result (rows or an SQL error) is read to its end, so that *)
(* libpq is idle again; on a lost one PQconsumeInput fails (exception), or  *)
(* libpq reports the loss as an error result. Then k is released.           *)
AwaitResponse(t) ==
    LET k == holds[t] IN
    /\ at[t] = "await"
    /\ Release(t, k, strand)
    /\ \/ query' = [query EXCEPT ![k] = NoTask]
       \/ k \in bad /\ UNCHANGED query
    /\ UNCHANGED <<pool, waiters, bad>>

(* External: the server side of a connection goes away. Nothing in the code *)
(* reconnects.                                                              *)
Lose(k) ==
    /\ k \notin bad
    /\ bad' = bad \cup {k}
    /\ UNCHANGED <<strand, pool, waiters, at, holds, query>>

--------------------------------------------------------------------------------
StrandStep  == (\E t \in Tasks : RunGet(t)) \/ (\E k \in Conns : RunPut(k))
TaskStep(t) == Resume(t) \/ AwaitResponse(t)

Next ==
    \/ StrandStep
    \/ \E t \in Tasks : GetConnection(t) \/ TaskStep(t)
    \/ \E k \in Conns : Lose(k)

(* The asio threads run posted handlers, and PostgreSQL answers a query or  *)
(* its connection is seen to be lost. Nobody has to ask for a connection,   *)
(* and no connection has to break.                                          *)
Fairness == WF_vars(StrandStep) /\ \A t \in Tasks : WF_vars(TaskStep(t))

Spec     == Init /\ [][Next]_vars
FairSpec == Spec /\ Fairness

--------------------------------------------------------------------------------
(* Properties. *)

InPool(k)    == \E i \in 1..Len(pool) : pool[i] = k
Returning(k) == \E i \in 1..Len(strand) : strand[i] = PutJob(k)
HeldBy(k, t) == holds[t] = k

(* Every connection is in one place: idle in the pool, on its way back, or  *)
(* with one task. No exception, lost connection or hand-over duplicates or  *)
(* leaks one.                                                               *)
OnePlace ==
    \A k \in Conns :
        /\ InPool(k) => ~Returning(k) /\ \A t \in Tasks : ~HeldBy(k, t)
        /\ Returning(k) => \A t \in Tasks : ~HeldBy(k, t)
        /\ InPool(k) \/ Returning(k) \/ \E t \in Tasks : HeldBy(k, t)
        /\ \A i, j \in 1..Len(pool) : pool[i] = k /\ pool[j] = k => i = j
        /\ \A i, j \in 1..Len(strand) :
              strand[i] = PutJob(k) /\ strand[j] = PutJob(k) => i = j
        /\ \A s, t \in Tasks : HeldBy(k, s) /\ HeldBy(k, t) => s = t

(* The check of pool_ in GetConnection and the one of the waiters in        *)
(* ReturnConnection never miss each other: no coroutine waits while a       *)
(* connection is idle.                                                      *)
NoLostWakeup == pool = <<>> \/ waiters = <<>>

(* A connection that is lent out has no unread result of somebody else: a   *)
(* task reads the rows of its own query. A connection with a command still  *)
(* in progress comes back only if it is lost.                               *)
OwnResult ==
    /\ \A t \in Tasks : at[t] = "await" =>
          query[holds[t]] = t
    /\ \A k \in Conns : query[k] = NoTask \/ k \in bad \/ \E t \in Tasks :
          at[t] = "await" /\ holds[t] = k

(* The requests in the order they were made: waiting ones, then the ones    *)
(* whose job is still queued at the strand.                                 *)
Precedes(s, x, y) == \E j \in 1..Len(s) : s[j] = y /\ \E i \in 1..(j - 1) : s[i] = x
Asked == {t \in Tasks : at[t] \in {"posted", "waiting"}}
Ahead == {e \in Asked \X Asked :
             \/ Precedes(waiters, e[1], e[2])
             \/ at[e[1]] = "waiting" /\ at[e[2]] = "posted"
             \/ Precedes(strand, GetJob(e[1]), GetJob(e[2]))}

Lessee == [k \in Conns |->
             IF \E t \in Tasks : HeldBy(k, t)
             THEN CHOOSE t \in Tasks : HeldBy(k, t) ELSE NoTask]

Lease == INSTANCE FairLease WITH
             Free <- NoTask, asked <- Asked, ahead <- Ahead, lessee <- Lessee

(* The pool leases connections exclusively and strictly in the order of the *)
(* requests: try_send never passes over an older async_receive, and no      *)
(* newcomer takes the connection that is meant for a waiter.                *)
LeasedInOrder == Lease!LeaseSafety

(* ... and it keeps no free connection from a request for good.             *)
ImplementsLease == Lease!LeaseSpec

(* Every database operation ends, also when connections are lost. *)
OperationsEnd == \A t \in Tasks : at[t] = "posted" ~> at[t] = "idle"

================================================================================
