---------------------------- MODULE ServerLifecycle ----------------------------
(***************************************************************************)
(* Start and end of the process: main, the constructor of Application with *)
(* the configuration file it reads, Application::Run and ~Application,     *)
(* AsioThreadPool::Run and Stop, the Init of RedisClient and of            *)
(* AsyncConnectionPool, UserServiceServer::Run and Shutdown.               *)
(*                                                                         *)
(* Each step of the start may throw; the exception unwinds main and the    *)
(* destructor of Application shuts down whatever has been started so far.  *)
(* Once all is started main blocks in server_->Wait() for good: the code   *)
(* has no signal handler and nobody else calls Shutdown.                   *)
(*                                                                         *)
(* The life of a CallData is the one of CallDataAdapter with less detail,  *)
(* plus what a shutdown of the server and of the queue does to it.         *)
(***************************************************************************)
EXTENDS AppConfig, FiniteSets

CONSTANTS
    Files,         \* the configuration files the process may be started with
    Hardware,      \* what std::thread::hardware_concurrency() may return
    Methods,       \* the RPC methods whose CallDatas are followed
    CallDatas, MethodOf, NoCallData,
    Workers,       \* gRPC worker threads and threads of AsioThreadPool; like
    AsioThreads    \* the CallDatas, as many as any of the files asks for

ASSUME LifecycleAssumption ==
    /\ NoCallData \notin CallDatas
    /\ Methods \subseteq AllMethods /\ MethodOf \in [CallDatas -> Methods]
    /\ Hardware \subseteq Nat /\ IsFiniteSet(CallDatas \cup Workers \cup AsioThreads)
    /\ \A n \in Hardware, file \in Files :
          Accepts(file) =>
             /\ AutoCpuCores(n) <= Cardinality(AsioThreads)
             /\ Config(file, n).workers <= Cardinality(Workers)
             /\ \A m \in Methods :
                   file.rpc_limits[m] <= Cardinality({d \in CallDatas : MethodOf[d] = m})

(* A field that is read as a number is one, see AppConfig. *)
ASSUME FilesAssumption ==
    \A file \in Files :
        Accepts(file) => /\ file.server.worker_threads \in Int
                         /\ file.redis.pool_size \in Int /\ file.postgresql.pool_size \in Int
                         /\ \A m \in AllMethods : file.rpc_limits[m] \in Int

VARIABLES
    hw,         \* hardware_concurrency()
    config,     \* what was read from the file
    main,       \* what the main thread does next
    crash,      \* why the process was aborted, or "no"
    guard,      \* AsioThreadPool::work_guard_ is set
    stopped,    \* ioc_->stop() was called
    asio,       \* the asio threads that are running
    redisRuns,  \* the async_run of the Redis connections have been started
    redis,      \* how many Redis connections have answered PING
    db,         \* how many PostgreSQL connections are open
    server,     \* UserServiceServer::server_
    cq,         \* UserServiceServer::cq_
    live,       \* the worker threads that are running
    begun,      \* worker_threads_: the worker threads that were started
    data,       \* data[d]: where CallData d is
    hand        \* hand[w]: the CallData that worker w is working on

pool  == <<guard, stopped, asio>>
infra == <<redisRuns, redis, db>>
grpc  == <<server, cq>>
env   == <<hw, config>>
vars  == <<hw, config, main, crash, guard, stopped, asio, redisRuns, redis, db, server, cq,
           live, begun, data, hand>>

NoConfig == [workers |-> 0, redisPool |-> 0, dbPool |-> 0, limit |-> [m \in AllMethods |-> 0]]
Starting == {"construct", "poolRun", "redisInit", "dbInit", "startServer", "seed", "listen"}
Stopping == {"shutdown", "awaitCalls", "cqShutdown", "join", "poolStop", "poolJoin"}
Events   == {"request", "done", "refused"}  \* places where the tag of d is in the queue
InFlight == {"request", "processing", "running", "sending"}  \* d has an open call

(* Types; and a worker that works on a CallData is a running thread.        *)
TypeOK ==
    /\ hw \in Hardware
    /\ config.workers \in 0..Cardinality(Workers)
    /\ config.redisPool \in 0..1000 /\ config.dbPool \in 0..1000
    /\ config.limit \in [AllMethods -> Nat]
    /\ main \in Starting \cup {"serving"} \cup Stopping \cup {"exit"}
    /\ crash \in {"no", "server is null", "queue is shut down"}
    /\ guard \in BOOLEAN /\ stopped \in BOOLEAN
    /\ asio \subseteq AsioThreads
    /\ redisRuns \in BOOLEAN /\ redis \in 0..config.redisPool /\ db \in 0..config.dbPool
    /\ server \in {"none", "up", "closing", "down"}
    /\ cq \in {"none", "open", "shutdown"}
    /\ begun \subseteq Workers /\ live \subseteq begun
    /\ data \in [CallDatas -> {"none", "listening", "recycling"} \cup Events \cup InFlight]
    /\ hand \in [Workers -> CallDatas \cup {NoCallData}]
    /\ \A w \in Workers : hand[w] # NoCallData => w \in live

Init ==
    /\ hw \in Hardware /\ config = NoConfig
    /\ main = "construct" /\ crash = "no"
    /\ guard = FALSE /\ stopped = FALSE /\ asio = {}
    /\ redisRuns = FALSE /\ redis = 0 /\ db = 0
    /\ server = "none" /\ cq = "none"
    /\ live = {} /\ begun = {}
    /\ data = [d \in CallDatas |-> "none"]
    /\ hand = [w \in Workers |-> NoCallData]

--------------------------------------------------------------------------------
(* The start: Application::Application and Application::Run. *)

(* The exception leaves Run and main's try block: ~Application begins. *)
Throw == main' = "shutdown"

(* The constructors of RedisClient and AsyncConnectionPool do not throw. *)
RedisClientBuilds(c)    == c.redisPool > 0
ConnectionPoolBuilds(c) == c.dbPool > 0

Builds(file) ==
    /\ Accepts(file)
    /\ RedisClientBuilds(Config(file, hw)) /\ ConnectionPoolBuilds(Config(file, hw))

(* The constructor; when it throws (a file that is not accepted) there is   *)
(* no Application to destroy.                                               *)
Construct ==
    /\ main = "construct"
    /\ \E file \in Files :
          \/ Builds(file) /\ config' = Config(file, hw) /\ main' = "poolRun"
          \/ ~Builds(file) /\ UNCHANGED config /\ main' = "exit"
    /\ UNCHANGED <<hw, crash, pool, infra, grpc, live, begun, data, hand>>

(* AsioThreadPool::Run: one thread after the other; creating one may fail. *)
RunThreadPool ==
    /\ main = "poolRun"
    /\ guard' = TRUE
    /\ \/ /\ Cardinality(asio) < AutoCpuCores(hw)
          /\ \/ \E t \in AsioThreads \ asio : asio' = asio \cup {t} /\ UNCHANGED main
             \/ Throw /\ UNCHANGED asio
       \/ Cardinality(asio) = AutoCpuCores(hw) /\ main' = "redisInit" /\ UNCHANGED asio
    /\ UNCHANGED <<env, crash, stopped, infra, grpc, live, begun, data, hand>>

(* Mutant: the loop goes one past the last connection. *)
RedisInit_OnePast ==
    /\ main = "redisInit" /\ asio # {}
    /\ redisRuns' = TRUE
    /\ \/ redis <= config.redisPool /\ redis' = redis + 1 /\ UNCHANGED main
       \/ redis = config.redisPool /\ main' = "dbInit" /\ UNCHANGED redis
    /\ UNCHANGED <<env, crash, pool, db, grpc, live, begun, data, hand>>

(* Ping: an error, Null or another string than PONG all count as failure.   *)
Ping == {"PONG", "failed"}

(* RedisClient::Init: async_run on every connection, then PING one by one;  *)
(* the first failure throws. A PING to a Redis that cannot be reached waits *)
(* for as long as that lasts.                                               *)
RedisInit ==
    /\ main = "redisInit" /\ asio # {}
    /\ redisRuns' = TRUE
    /\ \/ /\ redis < config.redisPool
          /\ \E answer \in Ping :
                \/ answer = "PONG" /\ redis' = redis + 1 /\ UNCHANGED main
                \/ answer # "PONG" /\ Throw /\ UNCHANGED redis
       \/ redis = config.redisPool /\ main' = "dbInit" /\ UNCHANGED redis
    /\ UNCHANGED <<env, crash, pool, db, grpc, live, begun, data, hand>>

(* Mutant: the server is started without waiting for init_future. *)
DbInit_NotAwaited ==
    /\ main = "dbInit" /\ asio # {}
    /\ main' = "startServer"
    /\ UNCHANGED <<env, crash, pool, infra, grpc, live, begun, data, hand>>

(* PQConnection::AsyncConnect waits for the socket as PQconnectPoll asks,   *)
(* until that has come to one of these.                                     *)
AsyncConnect == {"PGRES_POLLING_OK", "PGRES_POLLING_FAILED"}

(* AsyncConnectionPool::Init: one AsyncConnect after the other. *)
DbInit ==
    /\ main = "dbInit" /\ asio # {}
    /\ \/ /\ db < config.dbPool
          /\ \E status \in AsyncConnect :
                \/ status = "PGRES_POLLING_OK" /\ db' = db + 1 /\ UNCHANGED main
                \/ status # "PGRES_POLLING_OK" /\ Throw /\ UNCHANGED db
       \/ db = config.dbPool /\ main' = "startServer" /\ UNCHANGED db
    /\ UNCHANGED <<env, crash, pool, redisRuns, redis, grpc, live, begun, data, hand>>

(* StartServer: BuildAndStart returns null when the port is taken, and the  *)
(* code does not look.                                                      *)
StartServer ==
    /\ main = "startServer"
    /\ cq' = "open"
    /\ server' \in {"up", "none"}
    /\ main' = "seed"
    /\ UNCHANGED <<env, crash, pool, infra, live, begun, data, hand>>

Seeded(m) == Cardinality({d \in CallDatas : MethodOf[d] = m /\ data[d] # "none"})

(* SeedCallData: RequestX on a service without server is undefined.         *)
SeedCallData ==
    /\ main = "seed"
    /\ \/ /\ server = "none"
          /\ crash' = "server is null"
          /\ UNCHANGED <<main, data>>
       \/ /\ server = "up"
          /\ \E d \in CallDatas :
                /\ data[d] = "none"
                /\ Seeded(MethodOf[d]) < config.limit[MethodOf[d]]
                /\ data' = [data EXCEPT ![d] = "listening"]
          /\ UNCHANGED <<main, crash>>
       \/ /\ server = "up"
          /\ \A m \in Methods : Seeded(m) = config.limit[m]
          /\ main' = "listen"
          /\ UNCHANGED <<crash, data>>
    /\ UNCHANGED <<env, pool, infra, grpc, live, begun, hand>>

(* StartListeningThread: one thread after the other; creating one may fail. *)
StartListeningThread ==
    /\ main = "listen"
    /\ \/ /\ Cardinality(begun) < config.workers
          /\ \/ \E w \in Workers \ begun :
                   begun' = begun \cup {w} /\ live' = live \cup {w} /\ UNCHANGED main
             \/ Throw /\ UNCHANGED <<begun, live>>
       \/ Cardinality(begun) = config.workers /\ main' = "serving" /\ UNCHANGED <<begun, live>>
    /\ UNCHANGED <<env, crash, pool, infra, grpc, data, hand>>

--------------------------------------------------------------------------------
(* The end: UserServiceServer::Shutdown and AsioThreadPool::Stop. *)

(* Mutant: only the queue is shut down, not the server. *)
ShutdownServer_Forgotten ==
    /\ main = "shutdown"
    /\ main' = "cqShutdown"
    /\ UNCHANGED <<env, crash, pool, infra, grpc, live, begun, data, hand>>

(* server_->Shutdown(): registered CallDatas come back with ok = false. *)
ShutdownServer ==
    /\ main = "shutdown"
    /\ IF server = "none"
       THEN main' = "cqShutdown" /\ UNCHANGED <<server, data>>
       ELSE /\ server' = "closing"
            /\ data' = [d \in CallDatas |->
                           IF data[d] = "listening" THEN "refused" ELSE data[d]]
            /\ main' = "awaitCalls"
    /\ UNCHANGED <<env, crash, pool, infra, cq, live, begun, hand>>

(* ... and it returns when no call is in flight any more. *)
AwaitCalls ==
    /\ main = "awaitCalls"
    /\ \A d \in CallDatas : data[d] \notin InFlight
    /\ server' = "down"
    /\ main' = "cqShutdown"
    /\ UNCHANGED <<env, crash, pool, infra, cq, live, begun, data, hand>>

ShutdownCq ==
    /\ main = "cqShutdown"
    /\ cq' = IF cq = "none" THEN cq ELSE "shutdown"
    /\ main' = "join"
    /\ UNCHANGED <<env, crash, pool, infra, server, live, begun, data, hand>>

(* Mutant: nobody empties the queue of a server without workers. *)
JoinOrDrain_NoDrain ==
    /\ main = "join"
    /\ live = {}
    /\ main' = "poolStop"
    /\ UNCHANGED <<env, crash, pool, infra, grpc, live, begun, data, hand>>

(* Join the worker threads; without any, take what is left in the queue.    *)
JoinOrDrain ==
    /\ main = "join"
    /\ IF begun # {}
       THEN live = {} /\ UNCHANGED data
       ELSE data' = [d \in CallDatas |-> IF data[d] \in Events THEN "none" ELSE data[d]]
    /\ main' = "poolStop"
    /\ UNCHANGED <<env, crash, pool, infra, grpc, live, begun, hand>>

(* Mutant: only the work guard is released. *)
StopPool_GuardOnly ==
    /\ main = "poolStop"
    /\ guard' = FALSE
    /\ main' = IF guard THEN "poolJoin" ELSE "exit"
    /\ UNCHANGED <<env, crash, stopped, asio, infra, grpc, live, begun, data, hand>>

(* AsioThreadPool::Stop, up to the joins. *)
StopPool ==
    /\ main = "poolStop"
    /\ IF guard THEN stopped' = TRUE /\ main' = "poolJoin"
                ELSE main' = "exit" /\ UNCHANGED stopped
    /\ guard' = FALSE
    /\ UNCHANGED <<env, crash, asio, infra, grpc, live, begun, data, hand>>

(* All asio threads are joined; the members are destroyed, main returns.    *)
JoinPool ==
    /\ main = "poolJoin" /\ asio = {}
    /\ main' = "exit"
    /\ UNCHANGED <<env, crash, pool, infra, grpc, live, begun, data, hand>>

(* ioc->run() returns: stopped, or out of work (the async_run of the Redis  *)
(* connections never end by themselves).                                    *)
AsioThreadEnds(t) ==
    /\ t \in asio
    /\ \/ stopped
       \/ ~guard /\ ~redisRuns /\ \A d \in CallDatas : data[d] # "running"
    /\ asio' = asio \ {t}
    /\ UNCHANGED <<env, main, crash, guard, stopped, infra, grpc, live, begun, data, hand>>

--------------------------------------------------------------------------------
(* The service while it runs. *)

(* External: gRPC gives a call to a registered CallData. *)
Bind(d) ==
    /\ server = "up" /\ data[d] = "listening"
    /\ data' = [data EXCEPT ![d] = "request"]
    /\ UNCHANGED <<env, main, crash, pool, infra, grpc, live, begun, hand>>

(* External: a Finish ends, or fails because the caller is gone. *)
SendReply(d) ==
    /\ data[d] = "sending"
    /\ \E e \in {"done", "refused"} : data' = [data EXCEPT ![d] = e]
    /\ UNCHANGED <<env, main, crash, pool, infra, grpc, live, begun, hand>>

(* HandleRpc: Next returns a tag; Proceed processes or recycles it. *)
HandleRpc(w) ==
    /\ w \in live /\ hand[w] = NoCallData
    /\ \E d \in CallDatas :
          /\ data[d] \in Events
          /\ data' = [data EXCEPT ![d] = IF data[d] = "request" THEN "processing"
                                         ELSE "recycling"]
          /\ hand' = [hand EXCEPT ![w] = d]
    /\ UNCHANGED <<env, main, crash, pool, infra, grpc, live, begun>>

(* Next returns false: the queue is shut down and nothing is pending. *)
WorkerEnds(w) ==
    /\ w \in live /\ hand[w] = NoCallData
    /\ cq = "shutdown"
    /\ \A d \in CallDatas : data[d] \in {"none", "processing", "recycling", "running"}
    /\ live' = live \ {w}
    /\ UNCHANGED <<env, main, crash, pool, infra, grpc, begun, data, hand>>

(* HandleProcess: co_spawn, or the Finish of a failed authentication. *)
HandleProcess(w) ==
    /\ hand[w] # NoCallData /\ data[hand[w]] = "processing"
    /\ \E place \in {"running", "sending"} : data' = [data EXCEPT ![hand[w]] = place]
    /\ hand' = [hand EXCEPT ![w] = NoCallData]
    /\ UNCHANGED <<env, main, crash, pool, infra, grpc, live, begun>>

(* External: a queue that is shut down goes on for as long as other         *)
(* registrations are in it. ("refused" may also stand for a failed Finish,  *)
(* so this says where the queue may go on, not where it must.)              *)
QueueGoesOn(d) == cq # "shutdown" \/ \E e \in CallDatas \ {d} : data[e] = "refused"

(* HandleFinish registers the CallData again, whatever made it come back: a *)
(* server that is shut down refuses at once, and so the CallData comes back *)
(* again and again; a queue that has ended accepts no operation and gRPC    *)
(* aborts the process.                                                      *)
HandleFinish(w) ==
    /\ hand[w] # NoCallData /\ data[hand[w]] = "recycling"
    /\ \/ /\ QueueGoesOn(hand[w])
          /\ data' = [data EXCEPT ![hand[w]] = IF server = "up" THEN "listening"
                                               ELSE "refused"]
          /\ hand' = [hand EXCEPT ![w] = NoCallData]
          /\ UNCHANGED crash
       \/ /\ cq = "shutdown"
          /\ crash' = "queue is shut down"
          /\ UNCHANGED <<data, hand>>
    /\ UNCHANGED <<env, main, pool, infra, grpc, live, begun>>

(* A coroutine ends on an asio thread and calls Finish. *)
OnLogicFinished(d) ==
    /\ data[d] = "running" /\ asio # {}
    /\ data' = [data EXCEPT ![d] = "sending"]
    /\ UNCHANGED <<env, main, crash, pool, infra, grpc, live, begun, hand>>

--------------------------------------------------------------------------------
MainStep ==
    \/ Construct \/ RunThreadPool \/ RedisInit \/ DbInit
    \/ StartServer \/ SeedCallData \/ StartListeningThread
    \/ ShutdownServer \/ AwaitCalls \/ ShutdownCq \/ JoinOrDrain
    \/ StopPool \/ JoinPool

WorkerStep(w) == HandleRpc(w) \/ WorkerEnds(w) \/ HandleProcess(w) \/ HandleFinish(w)

Next ==
    /\ crash = "no" /\ main # "exit"
    /\ \/ MainStep
       \/ \E t \in AsioThreads : AsioThreadEnds(t)
       \/ \E d \in CallDatas : Bind(d) \/ SendReply(d) \/ OnLogicFinished(d)
       \/ \E w \in Workers : WorkerStep(w)

(* Threads keep running, sends and coroutines end; but no connection has to *)
(* be established and nobody has to call.                                   *)
Running(A) == crash = "no" /\ main # "exit" /\ A

Fairness ==
    /\ WF_vars(Running(MainStep /\ main \notin {"redisInit", "dbInit"}))
    /\ \A t \in AsioThreads : WF_vars(Running(AsioThreadEnds(t)))
    /\ \A d \in CallDatas : WF_vars(Running(SendReply(d))) /\ WF_vars(Running(OnLogicFinished(d)))
    /\ \A w \in Workers : WF_vars(Running(WorkerStep(w)))

Spec     == Init /\ [][Next]_vars
FairSpec == Spec /\ Fairness

--------------------------------------------------------------------------------
(* Properties. *)

(* "Wait synchronously: listening may begin only when initialisation is     *)
(* complete" (Application::Run): a call, and the business logic it runs,    *)
(* never meets a Redis or database pool that is not fully connected.        *)
ListenAfterInit ==
    (\E d \in CallDatas : data[d] \in InFlight) => redis = config.redisPool /\ db = config.dbPool

(* Whatever file was accepted on whatever machine: main never waits for a   *)
(* coroutine that no thread runs, and a process that serves can serve every *)
(* method: a CallData takes the call, a worker handles it, connections to   *)
(* Redis and to the database are there for its coroutine.                   *)
ReadyToServe ==
    /\ main \in {"redisInit", "dbInit", "serving"} => asio # {}
    /\ main = "serving" => /\ begun # {} /\ redis > 0 /\ db > 0
                           /\ \A m \in Methods : Seeded(m) > 0

(* "By now no new task comes in" (~Application): once server_->Shutdown()   *)
(* is over, also while workers still take tags from the queue, no coroutine *)
(* of a call runs and no worker can spawn one, so that neither the end of   *)
(* the queue nor AsioThreadPool::Stop cuts one off.                         *)
NoCoroutineCutOff ==
    main \in {"cqShutdown", "join", "poolStop", "poolJoin", "exit"} =>
        \A d \in CallDatas : data[d] \notin {"processing", "running"}

(* When the process ends in order, no thread is left, and the queue is      *)
(* empty, as its destructor demands (comment in UserServiceServer::         *)
(* Shutdown); also when the start failed half-way.                          *)
CleanExit ==
    main = "exit" => /\ asio = {} /\ live = {}
                     /\ \A d \in CallDatas : data[d] \notin Events \cup {"sending"}

(* If the infrastructure or the thread pool cannot be started, the process  *)
(* ends, although Redis connections keep reconnecting on the pool.          *)
FailedInitExits == (main = "shutdown" /\ cq = "none") ~> main = "exit"

(* "Shutdown waits until the worker threads are joined, which ensures       *)
(* safety" (~Application): no CallData is registered with a queue that has  *)
(* ended.                                                                   *)
SafeShutdown == crash # "queue is shut down"

(* "The program is destroyed normally" when the server is up and no worker  *)
(* thread has been started (comment in UserServiceServer::Shutdown).        *)
HalfStartedExits == (main = "shutdown" /\ begun = {}) ~> main = "exit"

================================================================================
