-------------------------- MODULE ServerLifecycleProofs ------------------------
(***************************************************************************)
(* Proofs about ServerLifecycle, for any set of configuration files, any   *)
(* hardware and any number of CallDatas and threads.                       *)
(*                                                                         *)
(* The properties speak of single moments: a call in flight, a process     *)
(* that serves, a pool that is stopped, a process that exits. None of them *)
(* is preserved by the steps on its own. The inductive invariant says what *)
(* each phase of main has behind it: which parts are up, which are not yet *)
(* or no longer, and where a CallData can still be.                        *)
(***************************************************************************)
EXTENDS ServerLifecycle, FiniteSetTheorems, TLAPS

Working == {"redisInit", "dbInit", "startServer", "seed", "listen", "serving"}
Before  == {"construct", "poolRun", "redisInit", "dbInit", "startServer"}
Closing == {"shutdown", "awaitCalls", "cqShutdown", "join", "poolStop"}
Ending  == {"cqShutdown", "join", "poolStop", "poolJoin", "exit"}
Joined  == {"poolStop", "poolJoin", "exit"}

Phases == Starting \cup {"serving"} \cup Stopping \cup {"exit"}
Places == {"none", "listening", "recycling"} \cup Events \cup InFlight

(* TypeOK, in three parts. *)
ConfigType ==
    /\ hw \in Hardware
    /\ config.workers \in 0..Cardinality(Workers)
    /\ config.redisPool \in 0..1000 /\ config.dbPool \in 0..1000
    /\ config.limit \in [AllMethods -> Nat]
    /\ redis \in 0..config.redisPool /\ db \in 0..config.dbPool

PhaseType ==
    /\ main \in Phases
    /\ crash \in {"no", "server is null", "queue is shut down"}
    /\ guard \in BOOLEAN /\ stopped \in BOOLEAN /\ redisRuns \in BOOLEAN
    /\ asio \subseteq AsioThreads
    /\ server \in {"none", "up", "closing", "down"}
    /\ cq \in {"none", "open", "shutdown"}

DataType ==
    /\ begun \subseteq Workers /\ live \subseteq begun
    /\ data \in [CallDatas -> Places]
    /\ hand \in [Workers -> CallDatas \cup {NoCallData}]
    /\ \A w \in Workers : hand[w] # NoCallData => w \in live

(* A process past its constructor has a configuration that it can run with. *)
ConfigOK ==
    /\ main = "construct" => redis = 0 /\ db = 0
    /\ main \notin {"construct", "exit"} =>
          /\ config.workers > 0 /\ config.redisPool > 0 /\ config.dbPool > 0
          /\ \A m \in AllMethods : config.limit[m] > 0

(* The asio threads run from AsioThreadPool::Run to AsioThreadPool::Stop.   *)
PoolOK ==
    /\ main = "construct" => asio = {}
    /\ main = "poolRun" => (asio # {} => guard)
    /\ main \in Working \cup Closing => guard
    /\ main \in Working => asio # {}
    /\ main = "exit" => asio = {}
    /\ stopped => main \in {"poolJoin", "exit"}

(* Redis and the database are connected before there is a server. *)
InfraOK ==
    /\ main \in {"dbInit", "startServer"} => redis = config.redisPool
    /\ main = "startServer" => db = config.dbPool
    /\ main \in {"seed", "listen", "serving"} => redis = config.redisPool /\ db = config.dbPool
    /\ server # "none" => redis = config.redisPool /\ db = config.dbPool

(* How far the server and its queue are. *)
ServerOK ==
    /\ main \in Before => server = "none" /\ cq = "none"
    /\ main \in {"seed", "shutdown"} => server \in {"none", "up"}
    /\ main \in {"listen", "serving"} => server = "up"
    /\ main = "awaitCalls" => server = "closing"
    /\ main \in Ending => server \in {"none", "down"}
    /\ cq = "shutdown" => main \in {"join"} \cup Joined

(* Where a CallData can be. *)
DataOK ==
    /\ server = "none" => \A d \in CallDatas : data[d] = "none"
    /\ server \in {"closing", "down"} => \A d \in CallDatas : data[d] # "listening"
    /\ server = "down" => \A d \in CallDatas : data[d] \notin InFlight

(* Every method has a CallData once SeedCallData is through. *)
SeededOK ==
    main \in {"listen", "serving"} =>
        \A m \in Methods : \E d \in CallDatas : MethodOf[d] = m /\ data[d] # "none"

(* A worker leaves only when the queue is empty for good. *)
WorkersOK ==
    /\ main = "construct" => live = {}
    /\ main = "serving" => begun # {}
    /\ live # begun => cq = "shutdown" /\ \A d \in CallDatas : data[d] \notin Events
    /\ main \in Joined => live = {} /\ \A d \in CallDatas : data[d] \notin Events

IInv ==
    /\ ConfigType /\ PhaseType /\ DataType
    /\ ConfigOK /\ PoolOK /\ InfraOK /\ ServerOK /\ DataOK /\ SeededOK /\ WorkersOK

--------------------------------------------------------------------------------
(* A set of threads or CallDatas has someone in it when its size says so. *)
LEMMA SomeoneThere ==
    ASSUME NEW S, IsFiniteSet(S)
    PROVE  Cardinality(S) \in Nat /\ (Cardinality(S) > 0 <=> S # {})
BY FS_CardinalityType, FS_EmptySet

(* The threads and the CallDatas of a method are finitely many. *)
LEMMA Finitely ==
    /\ \A S \in SUBSET AsioThreads : IsFiniteSet(S)
    /\ \A S \in SUBSET Workers : IsFiniteSet(S)
    /\ \A S \in SUBSET CallDatas : IsFiniteSet(S)
BY LifecycleAssumption, FS_Subset

(* Pools of 1 to 1000 connections, at least one thread, at least one        *)
(* CallData of each method.                                                 *)
Runnable(c) ==
    /\ c.workers \in 0..Cardinality(Workers) /\ c.workers > 0
    /\ c.redisPool \in 0..1000 /\ c.redisPool > 0
    /\ c.dbPool \in 0..1000 /\ c.dbPool > 0
    /\ c.limit \in [AllMethods -> Nat] /\ \A m \in AllMethods : c.limit[m] > 0

(* What the process makes of a file that it accepts can be run with. *)
LEMMA ConfigRuns ==
    ASSUME NEW file \in Files, Accepts(file), NEW n \in Hardware
    PROVE  Runnable(Config(file, n))
<1>1. /\ file.server.worker_threads \in Int /\ file.redis.pool_size \in Int
      /\ file.postgresql.pool_size \in Int /\ \A m \in AllMethods : file.rpc_limits[m] \in Int
  BY FilesAssumption
<1>2. file.server.worker_threads >= 0
  BY DEF Accepts, ParseServerConfig
<1>3. 0 < file.redis.pool_size /\ file.redis.pool_size <= 1000
  BY DEF Accepts, ParseRedisConfig, PoolSizeOK
<1>4. 0 < file.postgresql.pool_size /\ file.postgresql.pool_size <= 1000
  BY DEF Accepts, ParseDbConfig, PoolSizeOK
<1>5. \A m \in AllMethods : file.rpc_limits[m] > 0
  BY DEF Accepts, ParseRpcLimitsConfig
<1>6. n \in Nat /\ Config(file, n).workers <= Cardinality(Workers) /\ Cardinality(Workers) \in Nat
  BY LifecycleAssumption, Finitely, SomeoneThere
<1>7. Config(file, n).workers \in Nat /\ Config(file, n).workers > 0
  <2>1. PICK k \in Nat : k = file.server.worker_threads
    BY <1>1, <1>2
  <2>2. Config(file, n).workers = ThreadCount(k, n)
    BY <2>1 DEF Config
  <2>3. n \in Nat => ThreadCount(k, n) \in Nat /\ ThreadCount(k, n) > 0
    BY DEF ThreadCount, AutoCpuCores
  <2> QED
    BY <1>6, <2>2, <2>3
<1>8. /\ Config(file, n).redisPool = file.redis.pool_size
      /\ Config(file, n).dbPool = file.postgresql.pool_size
      /\ Config(file, n).limit = [m \in AllMethods |-> file.rpc_limits[m]]
  BY DEF Config
<1>9. /\ Config(file, n).redisPool \in 0..1000 /\ Config(file, n).redisPool > 0
      /\ Config(file, n).dbPool \in 0..1000 /\ Config(file, n).dbPool > 0
  <2>1. PICK p \in Int : p = file.redis.pool_size
    BY <1>1
  <2>2. PICK q \in Int : q = file.postgresql.pool_size
    BY <1>1
  <2>3. 0 < p /\ p <= 1000
    BY <1>3, <2>1
  <2>4. 0 < q /\ q <= 1000
    BY <1>4, <2>2
  <2>5. p \in 0..1000 /\ p > 0 /\ q \in 0..1000 /\ q > 0
    BY <2>3, <2>4
  <2> QED
    BY <1>8, <2>1, <2>2, <2>5
<1>10. /\ Config(file, n).limit \in [AllMethods -> Nat]
       /\ \A m \in AllMethods : Config(file, n).limit[m] > 0
  BY <1>1, <1>5, <1>8
<1>11. Config(file, n).workers \in 0..Cardinality(Workers)
  BY <1>6, <1>7
<1> QED
  BY <1>7, <1>9, <1>10, <1>11 DEF Runnable

--------------------------------------------------------------------------------
(* The start. *)

USE DEF Starting, Stopping, Working, Before, Closing, Ending, Joined, pool, infra, grpc, env

(* A step that leaves the configuration and the connections alone keeps     *)
(* their types ...                                                          *)
LEMMA ConfigTypeKept ==
    ASSUME IInv, UNCHANGED <<hw, config, redis, db>>
    PROVE  ConfigType'
BY DEF IInv, ConfigType

(* ... and, once the constructor is through, a configuration to run with.    *)
LEMMA ConfigKept ==
    ASSUME IInv, UNCHANGED <<config, redis, db>>,
           main' = main \/ (main' # "construct" /\ main \notin {"construct", "exit"})
    PROVE  ConfigOK'
BY DEF IInv, ConfigOK

(* What serves a call changes nothing of how far main is, of the threads of  *)
(* the pool and of the server.                                               *)
LEMMA ProcessKept ==
    ASSUME IInv, crash' \in {crash, "queue is shut down"},
           UNCHANGED <<main, guard, stopped, redisRuns, asio, server, cq, config, redis, db>>
    PROVE  PhaseType' /\ PoolOK' /\ InfraOK' /\ ServerOK'
<1>1. PhaseType'
  BY DEF IInv, PhaseType
<1>2. PoolOK'
  BY DEF IInv, PoolOK
<1>3. InfraOK' /\ ServerOK'
  BY DEF IInv, InfraOK, ServerOK
<1> QED
  BY <1>1, <1>2, <1>3

(* The constructor leaves a configuration to run with, or no process. *)
LEMMA ConstructKeeps == ASSUME IInv, Construct PROVE IInv'
<1>1. PICK file \in Files : \/ Builds(file) /\ config' = Config(file, hw) /\ main' = "poolRun"
                            \/ ~Builds(file) /\ UNCHANGED config /\ main' = "exit"
  BY DEF Construct
<1>2. main = "construct" /\ hw \in Hardware /\ redis = 0 /\ db = 0
  BY DEF Construct, IInv, ConfigType, ConfigOK
<1>3. UNCHANGED <<hw, crash, guard, stopped, asio, redisRuns, redis, db, server, cq,
                  live, begun, data, hand>>
  BY DEF Construct
<1>4. CASE Builds(file) /\ config' = Config(file, hw) /\ main' = "poolRun"
  <2>1. Runnable(config')
    BY <1>2, <1>4, ConfigRuns DEF Builds
  <2>2. ConfigType'
    <3>1. \A p \in 0..1000 : 0 \in 0..p
      OBVIOUS
    <3> QED
      BY <1>2, <1>3, <2>1, <3>1, ZenonT(30) DEF Runnable, ConfigType
  <2>3. PhaseType' /\ DataType'
    BY <1>3, <1>4 DEF IInv, PhaseType, DataType, Phases
  <2>4. ConfigOK' /\ PoolOK' /\ InfraOK' /\ ServerOK'
    BY <1>2, <1>3, <1>4, <2>1 DEF IInv, ConfigOK, PoolOK, InfraOK, ServerOK, Runnable
  <2>5. DataOK' /\ SeededOK' /\ WorkersOK'
    BY <1>2, <1>3, <1>4 DEF IInv, ServerOK, DataOK, SeededOK, WorkersOK
  <2> QED
    BY <2>2, <2>3, <2>4, <2>5 DEF IInv
<1>5. CASE UNCHANGED config /\ main' = "exit"
  <2>1. ConfigType'
    BY <1>3, <1>5, ConfigTypeKept
  <2>4. PhaseType' /\ DataType'
    BY <1>3, <1>5 DEF IInv, PhaseType, DataType, Phases
  <2>2. ConfigOK' /\ PoolOK' /\ InfraOK' /\ ServerOK'
    BY <1>2, <1>3, <1>5 DEF IInv, ConfigOK, PoolOK, InfraOK, ServerOK
  <2>3. DataOK' /\ SeededOK' /\ WorkersOK'
    BY <1>2, <1>3, <1>5 DEF IInv, ServerOK, DataOK, SeededOK, WorkersOK, Events
  <2> QED
    BY <2>1, <2>2, <2>3, <2>4 DEF IInv
<1> QED
  BY <1>1, <1>4, <1>5

(* AsioThreadPool::Run leaves at least one thread running, held by the work *)
(* guard.                                                                   *)
LEMMA RunThreadPoolKeeps == ASSUME IInv, RunThreadPool PROVE IInv'
<1>1. ConfigType'
  BY ConfigTypeKept DEF RunThreadPool, Throw
<1>2. PhaseType'
  BY DEF IInv, PhaseType, Phases, RunThreadPool, Throw
<1>3. DataType'
  BY DEF IInv, DataType, Places, InFlight, Events, RunThreadPool, Throw
<1>4. ConfigOK'
  BY ConfigKept DEF RunThreadPool, Throw
<1>5. InfraOK'
  BY DEF IInv, InfraOK, ServerOK, RunThreadPool, Throw
<1>6. PoolOK'
  <2>1. CASE Cardinality(asio) = AutoCpuCores(hw) /\ main' = "redisInit" /\ UNCHANGED asio
    <3>1. hw \in Nat /\ IsFiniteSet(asio)
      BY LifecycleAssumption, Finitely DEF IInv, ConfigType, PhaseType
    <3>2. AutoCpuCores(hw) > 0
      BY <3>1 DEF AutoCpuCores
    <3>3. asio # {}
      BY <2>1, <3>1, <3>2, SomeoneThere
    <3> QED
      BY <2>1, <3>3 DEF IInv, PhaseType, PoolOK, RunThreadPool
  <2>2. CASE main' \in {"poolRun", "shutdown"}
    BY <2>2 DEF IInv, PhaseType, PoolOK, RunThreadPool
  <2> QED
    BY <2>1, <2>2 DEF RunThreadPool, Throw
<1>7. ServerOK'
  BY DEF IInv, PhaseType, ServerOK, RunThreadPool, Throw
<1>8. DataOK'
  BY DEF IInv, DataType, ServerOK, DataOK, InFlight, Events, RunThreadPool, Throw
<1>9. SeededOK'
  BY DEF IInv, DataType, ServerOK, SeededOK, Events, RunThreadPool, Throw
<1>10. WorkersOK'
  BY DEF IInv, DataType, ServerOK, DataOK, WorkersOK, InFlight, Events, RunThreadPool, Throw
<1> QED
  BY <1>1, <1>2, <1>3, <1>4, <1>5, <1>6, <1>7, <1>8, <1>9, <1>10 DEF IInv

(* RedisClient::Init pings the connections one by one: either every   *)
(* connection is up or main turns to the shutdown with no server yet. *)
LEMMA RedisInitKeeps == ASSUME IInv, RedisInit PROVE IInv'
<1>1. ConfigType'
  <2>1. PICK p \in 0..1000 : p = config.redisPool
    BY DEF IInv, ConfigType
  <2>2. redis \in 0..p /\ (redis' = redis \/ (redis < p /\ redis' = redis + 1))
    BY <2>1 DEF IInv, ConfigType, RedisInit, Throw
  <2>3. redis' \in 0..p
    BY <2>2
  <2>4. UNCHANGED <<hw, config, db>>
    BY DEF RedisInit
  <2> QED
    BY <2>1, <2>3, <2>4 DEF IInv, ConfigType
<1>2. PhaseType'
  BY DEF IInv, PhaseType, Phases, RedisInit, Throw
<1>3. DataType'
  BY DEF IInv, DataType, Places, InFlight, Events, RedisInit, Throw
<1>4. ConfigOK'
  BY DEF IInv, ConfigOK, RedisInit, Throw
<1>5. InfraOK'
  BY DEF IInv, InfraOK, ServerOK, RedisInit, Throw
<1>6. PoolOK'
  BY DEF IInv, PhaseType, PoolOK, RedisInit, Throw
<1>7. ServerOK'
  BY DEF IInv, PhaseType, ServerOK, RedisInit, Throw
<1>8. DataOK'
  BY DEF IInv, DataType, ServerOK, DataOK, InFlight, Events, RedisInit, Throw
<1>9. SeededOK'
  BY DEF IInv, DataType, ServerOK, SeededOK, Events, RedisInit, Throw
<1>10. WorkersOK'
  BY DEF IInv, DataType, ServerOK, DataOK, WorkersOK, InFlight, Events, RedisInit, Throw
<1> QED
  BY <1>1, <1>2, <1>3, <1>4, <1>5, <1>6, <1>7, <1>8, <1>9, <1>10 DEF IInv

(* The database pool is initialised with Redis connected: every connection *)
(* is up, or main gives up.                                                *)
LEMMA DbInitKeeps == ASSUME IInv, DbInit PROVE IInv'
<1>1. ConfigType'
  <2>1. PICK p \in 0..1000 : p = config.dbPool
    BY DEF IInv, ConfigType
  <2>2. db \in 0..p /\ (db' = db \/ (db < p /\ db' = db + 1))
    BY <2>1 DEF IInv, ConfigType, DbInit, Throw
  <2>3. db' \in 0..p
    BY <2>2
  <2>4. UNCHANGED <<hw, config, redis>>
    BY DEF DbInit
  <2> QED
    BY <2>1, <2>3, <2>4 DEF IInv, ConfigType
<1>2. PhaseType'
  BY DEF IInv, PhaseType, Phases, DbInit, Throw
<1>3. DataType'
  BY DEF IInv, DataType, Places, InFlight, Events, DbInit, Throw
<1>4. ConfigOK'
  BY DEF IInv, ConfigOK, DbInit, Throw
<1>5. InfraOK'
  BY DEF IInv, InfraOK, ServerOK, DbInit, Throw
<1>6. PoolOK'
  BY DEF IInv, PhaseType, PoolOK, DbInit, Throw
<1>7. ServerOK'
  BY DEF IInv, PhaseType, ServerOK, DbInit, Throw
<1>8. DataOK'
  BY DEF IInv, DataType, ServerOK, DataOK, InFlight, Events, DbInit, Throw
<1>9. SeededOK'
  BY DEF IInv, DataType, ServerOK, SeededOK, Events, DbInit, Throw
<1>10. WorkersOK'
  BY DEF IInv, DataType, ServerOK, DataOK, WorkersOK, InFlight, Events, DbInit, Throw
<1> QED
  BY <1>1, <1>2, <1>3, <1>4, <1>5, <1>6, <1>7, <1>8, <1>9, <1>10 DEF IInv

(* UserServiceServer's builder opens the queue and the server once both *)
(* pools are full; nothing is seeded yet.                               *)
LEMMA StartServerKeeps == ASSUME IInv, StartServer PROVE IInv'
<1>1. ConfigType'
  BY ConfigTypeKept DEF StartServer
<1>2. PhaseType'
  BY DEF IInv, PhaseType, Phases, StartServer
<1>3. DataType'
  BY DEF IInv, DataType, Places, InFlight, Events, StartServer
<1>4. ConfigOK'
  BY ConfigKept DEF StartServer
<1>5. InfraOK'
  BY DEF IInv, InfraOK, ServerOK, StartServer
<1>6. PoolOK'
  BY DEF IInv, PhaseType, PoolOK, StartServer
<1>7. ServerOK'
  BY DEF IInv, PhaseType, ServerOK, StartServer
<1>8. DataOK'
  BY DEF IInv, DataType, ServerOK, DataOK, InFlight, Events, StartServer
<1>9. SeededOK'
  BY DEF IInv, DataType, ServerOK, SeededOK, Events, StartServer
<1>10. WorkersOK'
  BY DEF IInv, DataType, ServerOK, DataOK, WorkersOK, InFlight, Events, StartServer
<1> QED
  BY <1>1, <1>2, <1>3, <1>4, <1>5, <1>6, <1>7, <1>8, <1>9, <1>10 DEF IInv

(* Every manager starts its CallDatas, so no method is left without one *)
(* when main goes on.                                                   *)
LEMMA SeedCallDataKeeps == ASSUME IInv, SeedCallData PROVE IInv'
<1>1. ConfigType'
  BY ConfigTypeKept DEF SeedCallData
<1>2. PhaseType'
  BY DEF IInv, PhaseType, Phases, SeedCallData
<1>3. DataType'
  BY DEF IInv, DataType, Places, InFlight, Events, SeedCallData
<1>4. ConfigOK'
  BY ConfigKept DEF SeedCallData
<1>5. InfraOK'
  BY DEF IInv, InfraOK, ServerOK, SeedCallData
<1>6. PoolOK'
  BY DEF IInv, PhaseType, PoolOK, SeedCallData
<1>7. ServerOK'
  BY DEF IInv, PhaseType, ServerOK, SeedCallData
<1>8. DataOK'
  BY DEF IInv, DataType, ServerOK, DataOK, InFlight, Events, SeedCallData
<1>9. SeededOK'
  <2>1. CASE main' # "listen"
    BY <2>1 DEF IInv, SeededOK, SeedCallData
  <2>2. CASE main' = "listen"
    <3>1. UNCHANGED data /\ main = "seed" /\ \A m \in Methods : Seeded(m) = config.limit[m]
      BY <2>2 DEF SeedCallData
    <3>2. ASSUME NEW m \in Methods
          PROVE  \E d \in CallDatas : MethodOf[d] = m /\ data[d] # "none"
      <4> DEFINE S == {d \in CallDatas : MethodOf[d] = m /\ data[d] # "none"}
      <4>1. m \in AllMethods
        BY LifecycleAssumption
      <4>2. config.limit[m] > 0
        BY <3>1, <4>1 DEF IInv, ConfigOK
      <4>3. Cardinality(S) > 0 /\ IsFiniteSet(S)
        BY <3>1, <4>2, Finitely DEF Seeded
      <4>4. S # {}
        BY <4>3, SomeoneThere
      <4> QED
        BY <4>4
    <3> QED
      BY <3>1, <3>2 DEF SeededOK
  <2> QED
    BY <2>1, <2>2
<1>10. WorkersOK'
  BY DEF IInv, DataType, ServerOK, DataOK, WorkersOK, InFlight, Events, SeedCallData
<1> QED
  BY <1>1, <1>2, <1>3, <1>4, <1>5, <1>6, <1>7, <1>8, <1>9, <1>10 DEF IInv

(* The workers begin when every method has its CallDatas, and there is at *)
(* least one of them.                                                     *)
LEMMA StartListeningThreadKeeps == ASSUME IInv, StartListeningThread PROVE IInv'
<1>1. ConfigType'
  BY ConfigTypeKept DEF StartListeningThread, Throw
<1>2. PhaseType'
  BY DEF IInv, PhaseType, Phases, StartListeningThread, Throw
<1>3. DataType'
  BY DEF IInv, DataType, Places, InFlight, Events, StartListeningThread, Throw
<1>4. ConfigOK'
  BY ConfigKept DEF StartListeningThread, Throw
<1>5. InfraOK'
  BY DEF IInv, InfraOK, ServerOK, StartListeningThread, Throw
<1>6. PoolOK'
  BY DEF IInv, PhaseType, PoolOK, StartListeningThread, Throw
<1>7. ServerOK'
  BY DEF IInv, PhaseType, ServerOK, StartListeningThread, Throw
<1>8. DataOK'
  BY DEF IInv, DataType, ServerOK, DataOK, InFlight, Events, StartListeningThread, Throw
<1>9. SeededOK'
  BY DEF IInv, DataType, ServerOK, SeededOK, Events, StartListeningThread, Throw
<1>10. WorkersOK'
  <2>1. main = "listen" /\ cq # "shutdown" /\ live = begun /\ UNCHANGED <<cq, data>>
    BY DEF IInv, ServerOK, WorkersOK, StartListeningThread
  <2>2. CASE Cardinality(begun) = config.workers /\ main' = "serving" /\ UNCHANGED <<begun, live>>
    <3>1. config.workers > 0 /\ IsFiniteSet(begun)
      BY <2>1, Finitely DEF IInv, ConfigOK, DataType
    <3>2. begun # {}
      BY <2>2, <3>1, SomeoneThere
    <3> QED
      BY <2>1, <2>2, <3>2 DEF WorkersOK
  <2>3. CASE main' \in {"listen", "shutdown"} /\ live' = begun'
    BY <2>1, <2>3 DEF WorkersOK
  <2> QED
    BY <2>1, <2>2, <2>3 DEF StartListeningThread, Throw
<1> QED
  BY <1>1, <1>2, <1>3, <1>4, <1>5, <1>6, <1>7, <1>8, <1>9, <1>10 DEF IInv

(* server_->Shutdown hands every waiting CallData back; a start that failed *)
(* has none.                                                                *)
LEMMA ShutdownServerKeeps == ASSUME IInv, ShutdownServer PROVE IInv'
<1>1. ConfigType'
  BY ConfigTypeKept DEF ShutdownServer
<1>2. PhaseType'
  BY DEF IInv, PhaseType, Phases, ShutdownServer
<1>3. DataType'
  BY DEF IInv, DataType, Places, InFlight, Events, ShutdownServer
<1>4. ConfigOK'
  BY ConfigKept DEF ShutdownServer
<1>5. InfraOK'
  BY DEF IInv, InfraOK, ServerOK, ShutdownServer
<1>6. PoolOK'
  BY DEF IInv, PhaseType, PoolOK, ShutdownServer
<1>7. ServerOK'
  BY DEF IInv, PhaseType, ServerOK, ShutdownServer
<1>8. DataOK'
  BY DEF IInv, DataType, ServerOK, DataOK, InFlight, Events, ShutdownServer
<1>9. SeededOK'
  BY DEF IInv, DataType, ServerOK, SeededOK, Events, ShutdownServer
<1>10. WorkersOK'
  BY DEF IInv, DataType, ServerOK, DataOK, WorkersOK, InFlight, Events, ShutdownServer
<1> QED
  BY <1>1, <1>2, <1>3, <1>4, <1>5, <1>6, <1>7, <1>8, <1>9, <1>10 DEF IInv

(* Shutdown returns only once no call is in flight. *)
LEMMA AwaitCallsKeeps == ASSUME IInv, AwaitCalls PROVE IInv'
<1>1. ConfigType'
  BY ConfigTypeKept DEF AwaitCalls
<1>2. PhaseType'
  BY DEF IInv, PhaseType, Phases, AwaitCalls
<1>3. DataType'
  BY DEF IInv, DataType, Places, InFlight, Events, AwaitCalls
<1>4. ConfigOK'
  BY ConfigKept DEF AwaitCalls
<1>5. InfraOK'
  BY DEF IInv, InfraOK, ServerOK, AwaitCalls
<1>6. PoolOK'
  BY DEF IInv, PhaseType, PoolOK, AwaitCalls
<1>7. ServerOK'
  BY DEF IInv, PhaseType, ServerOK, AwaitCalls
<1>8. DataOK'
  BY DEF IInv, DataType, ServerOK, DataOK, InFlight, Events, AwaitCalls
<1>9. SeededOK'
  BY DEF IInv, DataType, ServerOK, SeededOK, Events, AwaitCalls
<1>10. WorkersOK'
  BY DEF IInv, DataType, ServerOK, DataOK, WorkersOK, InFlight, Events, AwaitCalls
<1> QED
  BY <1>1, <1>2, <1>3, <1>4, <1>5, <1>6, <1>7, <1>8, <1>9, <1>10 DEF IInv

(* The queue is shut down after the server, if there is one. *)
LEMMA ShutdownCqKeeps == ASSUME IInv, ShutdownCq PROVE IInv'
<1>1. ConfigType'
  BY ConfigTypeKept DEF ShutdownCq
<1>2. PhaseType'
  BY DEF IInv, PhaseType, Phases, ShutdownCq
<1>3. DataType'
  BY DEF IInv, DataType, Places, InFlight, Events, ShutdownCq
<1>4. ConfigOK'
  BY ConfigKept DEF ShutdownCq
<1>5. InfraOK'
  BY DEF IInv, InfraOK, ServerOK, ShutdownCq
<1>6. PoolOK'
  BY DEF IInv, PhaseType, PoolOK, ShutdownCq
<1>7. ServerOK'
  BY DEF IInv, PhaseType, ServerOK, ShutdownCq
<1>8. DataOK'
  BY DEF IInv, DataType, ServerOK, DataOK, InFlight, Events, ShutdownCq
<1>9. SeededOK'
  BY DEF IInv, DataType, ServerOK, SeededOK, Events, ShutdownCq
<1>10. WorkersOK'
  BY DEF IInv, DataType, ServerOK, DataOK, WorkersOK, InFlight, Events, ShutdownCq
<1> QED
  BY <1>1, <1>2, <1>3, <1>4, <1>5, <1>6, <1>7, <1>8, <1>9, <1>10 DEF IInv

(* The queue is empty for good, and every worker has left, when main goes *)
(* on.                                                                    *)
LEMMA JoinOrDrainKeeps == ASSUME IInv, JoinOrDrain PROVE IInv'
<1>1. ConfigType'
  BY ConfigTypeKept DEF JoinOrDrain
<1>2. PhaseType'
  BY DEF IInv, PhaseType, Phases, JoinOrDrain
<1>3. DataType'
  BY DEF IInv, DataType, Places, InFlight, Events, JoinOrDrain
<1>4. ConfigOK'
  BY ConfigKept DEF JoinOrDrain
<1>5. InfraOK'
  BY DEF IInv, InfraOK, ServerOK, JoinOrDrain
<1>6. PoolOK'
  BY DEF IInv, PhaseType, PoolOK, JoinOrDrain
<1>7. ServerOK'
  BY DEF IInv, PhaseType, ServerOK, JoinOrDrain
<1>8. DataOK'
  BY DEF IInv, DataType, ServerOK, DataOK, InFlight, Events, JoinOrDrain
<1>9. SeededOK'
  BY DEF IInv, DataType, ServerOK, SeededOK, Events, JoinOrDrain
<1>10. WorkersOK'
  BY DEF IInv, DataType, ServerOK, DataOK, WorkersOK, InFlight, Events, JoinOrDrain
<1> QED
  BY <1>1, <1>2, <1>3, <1>4, <1>5, <1>6, <1>7, <1>8, <1>9, <1>10 DEF IInv

(* AsioThreadPool::Stop comes after the server and its queue are down. *)
LEMMA StopPoolKeeps == ASSUME IInv, StopPool PROVE IInv'
<1>1. ConfigType'
  BY ConfigTypeKept DEF StopPool
<1>2. PhaseType'
  BY DEF IInv, PhaseType, Phases, StopPool
<1>3. DataType'
  BY DEF IInv, DataType, Places, InFlight, Events, StopPool
<1>4. ConfigOK'
  BY ConfigKept DEF StopPool
<1>5. InfraOK'
  BY DEF IInv, InfraOK, ServerOK, StopPool
<1>6. PoolOK'
  BY DEF IInv, PhaseType, PoolOK, StopPool
<1>7. ServerOK'
  BY DEF IInv, PhaseType, ServerOK, StopPool
<1>8. DataOK'
  BY DEF IInv, DataType, ServerOK, DataOK, InFlight, Events, StopPool
<1>9. SeededOK'
  BY DEF IInv, DataType, ServerOK, SeededOK, Events, StopPool
<1>10. WorkersOK'
  BY DEF IInv, DataType, ServerOK, DataOK, WorkersOK, InFlight, Events, StopPool
<1> QED
  BY <1>1, <1>2, <1>3, <1>4, <1>5, <1>6, <1>7, <1>8, <1>9, <1>10 DEF IInv

(* main exits when the last asio thread has returned from run(). *)
LEMMA JoinPoolKeeps == ASSUME IInv, JoinPool PROVE IInv'
<1>1. ConfigType'
  BY ConfigTypeKept DEF JoinPool
<1>2. PhaseType'
  BY DEF IInv, PhaseType, Phases, JoinPool
<1>3. DataType'
  BY DEF IInv, DataType, Places, InFlight, Events, JoinPool
<1>4. ConfigOK'
  BY ConfigKept DEF JoinPool
<1>5. InfraOK'
  BY DEF IInv, InfraOK, ServerOK, JoinPool
<1>6. PoolOK'
  BY DEF IInv, PhaseType, PoolOK, JoinPool
<1>7. ServerOK'
  BY DEF IInv, PhaseType, ServerOK, JoinPool
<1>8. DataOK'
  BY DEF IInv, DataType, ServerOK, DataOK, InFlight, Events, JoinPool
<1>9. SeededOK'
  BY DEF IInv, DataType, ServerOK, SeededOK, Events, JoinPool
<1>10. WorkersOK'
  BY DEF IInv, DataType, ServerOK, DataOK, WorkersOK, InFlight, Events, JoinPool
<1> QED
  BY <1>1, <1>2, <1>3, <1>4, <1>5, <1>6, <1>7, <1>8, <1>9, <1>10 DEF IInv

(* An asio thread leaves run() only without the work guard or after stop(). *)
LEMMA AsioThreadEndsKeeps ==
    ASSUME NEW t \in AsioThreads, IInv, AsioThreadEnds(t) PROVE IInv'
<1>1. ConfigType'
  BY ConfigTypeKept DEF AsioThreadEnds
<1>2. PhaseType'
  BY DEF IInv, PhaseType, Phases, AsioThreadEnds
<1>3. DataType'
  BY DEF IInv, DataType, Places, InFlight, Events, AsioThreadEnds
<1>4. ConfigOK'
  BY ConfigKept DEF AsioThreadEnds
<1>5. InfraOK'
  BY DEF IInv, InfraOK, ServerOK, AsioThreadEnds
<1>6. PoolOK'
  BY DEF IInv, PhaseType, PoolOK, AsioThreadEnds
<1>7. ServerOK'
  BY DEF IInv, PhaseType, ServerOK, AsioThreadEnds
<1>8. DataOK'
  BY DEF IInv, DataType, ServerOK, DataOK, InFlight, Events, AsioThreadEnds
<1>9. SeededOK'
  BY DEF IInv, DataType, ServerOK, SeededOK, Events, AsioThreadEnds
<1>10. WorkersOK'
  BY DEF IInv, DataType, ServerOK, DataOK, WorkersOK, InFlight, Events, AsioThreadEnds
<1> QED
  BY <1>1, <1>2, <1>3, <1>4, <1>5, <1>6, <1>7, <1>8, <1>9, <1>10 DEF IInv

(* An arriving call takes a CallData that listens, so the server is up. *)
LEMMA BindKeeps ==
    ASSUME NEW d \in CallDatas, IInv, Bind(d) PROVE IInv'
<1>1. ConfigType'
  BY ConfigTypeKept DEF Bind
<1>2. DataType'
  BY DEF IInv, DataType, Places, InFlight, Events, Bind
<1>3. ConfigOK'
  BY ConfigKept DEF Bind
<1>4. PhaseType' /\ PoolOK' /\ InfraOK' /\ ServerOK'
  BY ProcessKept DEF Bind
<1>5. DataOK'
  BY DEF IInv, DataType, ServerOK, DataOK, InFlight, Events, Bind
<1>6. SeededOK'
  BY DEF IInv, DataType, ServerOK, SeededOK, Events, Bind
<1>7. WorkersOK'
  BY DEF IInv, DataType, ServerOK, DataOK, WorkersOK, InFlight, Events, Bind
<1> QED
  BY <1>1, <1>2, <1>3, <1>4, <1>5, <1>6, <1>7 DEF IInv

(* The reply is out, or the client is gone: the tag comes back as an event. *)
LEMMA SendReplyKeeps ==
    ASSUME NEW d \in CallDatas, IInv, SendReply(d) PROVE IInv'
<1>1. ConfigType'
  BY ConfigTypeKept DEF SendReply
<1>2. DataType'
  BY DEF IInv, DataType, Places, InFlight, Events, SendReply
<1>3. ConfigOK'
  BY ConfigKept DEF SendReply
<1>4. PhaseType' /\ PoolOK' /\ InfraOK' /\ ServerOK'
  BY ProcessKept DEF SendReply
<1>5. DataOK'
  BY DEF IInv, DataType, ServerOK, DataOK, InFlight, Events, SendReply
<1>6. SeededOK'
  BY DEF IInv, DataType, ServerOK, SeededOK, Events, SendReply
<1>7. WorkersOK'
  BY DEF IInv, DataType, ServerOK, DataOK, WorkersOK, InFlight, Events, SendReply
<1> QED
  BY <1>1, <1>2, <1>3, <1>4, <1>5, <1>6, <1>7 DEF IInv

(* A coroutine that ends calls Finish: its call is still in flight. *)
LEMMA OnLogicFinishedKeeps ==
    ASSUME NEW d \in CallDatas, IInv, OnLogicFinished(d) PROVE IInv'
<1>1. ConfigType'
  BY ConfigTypeKept DEF OnLogicFinished
<1>2. DataType'
  BY DEF IInv, DataType, Places, InFlight, Events, OnLogicFinished
<1>3. ConfigOK'
  BY ConfigKept DEF OnLogicFinished
<1>4. PhaseType' /\ PoolOK' /\ InfraOK' /\ ServerOK'
  BY ProcessKept DEF OnLogicFinished
<1>5. DataOK'
  BY DEF IInv, DataType, ServerOK, DataOK, InFlight, Events, OnLogicFinished
<1>6. SeededOK'
  BY DEF IInv, DataType, ServerOK, SeededOK, Events, OnLogicFinished
<1>7. WorkersOK'
  BY DEF IInv, DataType, ServerOK, DataOK, WorkersOK, InFlight, Events, OnLogicFinished
<1> QED
  BY <1>1, <1>2, <1>3, <1>4, <1>5, <1>6, <1>7 DEF IInv

(* A worker takes an event from the queue; it is not among those that left. *)
LEMMA HandleRpcKeeps ==
    ASSUME NEW w \in Workers, IInv, HandleRpc(w) PROVE IInv'
<1>1. ConfigType'
  BY ConfigTypeKept DEF HandleRpc
<1>2. DataType'
  BY DEF IInv, DataType, Places, InFlight, Events, HandleRpc
<1>3. ConfigOK'
  BY ConfigKept DEF HandleRpc
<1>4. PhaseType' /\ PoolOK' /\ InfraOK' /\ ServerOK'
  BY ProcessKept DEF HandleRpc
<1>5. DataOK'
  BY DEF IInv, DataType, ServerOK, DataOK, InFlight, Events, HandleRpc
<1>6. SeededOK'
  BY DEF IInv, DataType, ServerOK, SeededOK, Events, HandleRpc
<1>7. WorkersOK'
  BY DEF IInv, DataType, ServerOK, DataOK, WorkersOK, InFlight, Events, HandleRpc
<1> QED
  BY <1>1, <1>2, <1>3, <1>4, <1>5, <1>6, <1>7 DEF IInv

(* A worker leaves when Next returns false: the queue is shut down and *)
(* empty.                                                              *)
LEMMA WorkerEndsKeeps ==
    ASSUME NEW w \in Workers, IInv, WorkerEnds(w) PROVE IInv'
<1>1. ConfigType'
  BY ConfigTypeKept DEF WorkerEnds
<1>2. DataType'
  BY DEF IInv, DataType, Places, InFlight, Events, WorkerEnds
<1>3. ConfigOK'
  BY ConfigKept DEF WorkerEnds
<1>4. PhaseType' /\ PoolOK' /\ InfraOK' /\ ServerOK'
  BY ProcessKept DEF WorkerEnds
<1>5. DataOK'
  BY DEF IInv, DataType, ServerOK, DataOK, InFlight, Events, WorkerEnds
<1>6. SeededOK'
  BY DEF IInv, DataType, ServerOK, SeededOK, Events, WorkerEnds
<1>7. WorkersOK'
  BY DEF IInv, DataType, ServerOK, DataOK, WorkersOK, InFlight, Events, WorkerEnds
<1> QED
  BY <1>1, <1>2, <1>3, <1>4, <1>5, <1>6, <1>7 DEF IInv

(* HandleProcess spawns the coroutine, or finishes a call that is not      *)
(* authenticated: the call stays in flight.                                *)
LEMMA HandleProcessKeeps ==
    ASSUME NEW w \in Workers, IInv, HandleProcess(w) PROVE IInv'
<1>1. ConfigType'
  BY ConfigTypeKept DEF HandleProcess
<1>2. DataType'
  BY DEF IInv, DataType, Places, InFlight, Events, HandleProcess
<1>3. ConfigOK'
  BY ConfigKept DEF HandleProcess
<1>4. PhaseType' /\ PoolOK' /\ InfraOK' /\ ServerOK'
  BY ProcessKept DEF HandleProcess
<1>5. DataOK'
  BY DEF IInv, DataType, ServerOK, DataOK, InFlight, Events, HandleProcess
<1>6. SeededOK'
  BY DEF IInv, DataType, ServerOK, SeededOK, Events, HandleProcess
<1>7. WorkersOK'
  BY DEF IInv, DataType, ServerOK, DataOK, WorkersOK, InFlight, Events, HandleProcess
<1> QED
  BY <1>1, <1>2, <1>3, <1>4, <1>5, <1>6, <1>7 DEF IInv

(* HandleFinish registers the CallData again: it listens while the server is *)
(* up and comes back refused afterwards; a queue that a worker has left has  *)
(* ended and takes none.                                                     *)
LEMMA HandleFinishKeeps ==
    ASSUME NEW w \in Workers, IInv, HandleFinish(w) PROVE IInv'
<1>1. ConfigType'
  BY ConfigTypeKept DEF HandleFinish
<1>2. DataType'
  BY DEF IInv, DataType, Places, InFlight, Events, HandleFinish, QueueGoesOn
<1>3. ConfigOK'
  BY ConfigKept DEF HandleFinish
<1>4. PhaseType' /\ PoolOK' /\ InfraOK' /\ ServerOK'
  BY ProcessKept DEF HandleFinish
<1>5. DataOK'
  BY DEF IInv, DataType, ServerOK, DataOK, InFlight, Events, HandleFinish
<1>6. SeededOK'
  <2>1. \A d \in CallDatas : data[d] # "none" => data'[d] # "none"
    BY DEF IInv, DataType, HandleFinish
  <2>2. UNCHANGED main
    BY DEF HandleFinish
  <2> QED
    BY <2>1, <2>2 DEF IInv, SeededOK
<1>7. WorkersOK'
  BY DEF IInv, DataType, ServerOK, DataOK, WorkersOK, InFlight, Events, HandleFinish, QueueGoesOn
<1> QED
  BY <1>1, <1>2, <1>3, <1>4, <1>5, <1>6, <1>7 DEF IInv

--------------------------------------------------------------------------------
(* The invariant is preserved, action by action. *)
LEMMA InvStep == IInv /\ [Next]_vars => IInv'
<1> SUFFICES ASSUME IInv, [Next]_vars PROVE IInv'
  OBVIOUS
<1>1. CASE MainStep
  BY <1>1, ConstructKeeps, RunThreadPoolKeeps, RedisInitKeeps, DbInitKeeps, StartServerKeeps,
     SeedCallDataKeeps, StartListeningThreadKeeps, ShutdownServerKeeps, AwaitCallsKeeps,
     ShutdownCqKeeps, JoinOrDrainKeeps, StopPoolKeeps, JoinPoolKeeps DEF MainStep
<1>2. ASSUME NEW t \in AsioThreads, AsioThreadEnds(t) PROVE IInv'
  BY <1>2, AsioThreadEndsKeeps
<1>3. ASSUME NEW d \in CallDatas, Bind(d) \/ SendReply(d) \/ OnLogicFinished(d) PROVE IInv'
  BY <1>3, BindKeeps, SendReplyKeeps, OnLogicFinishedKeeps
<1>4. ASSUME NEW w \in Workers, WorkerStep(w) PROVE IInv'
  BY <1>4, HandleRpcKeeps, WorkerEndsKeeps, HandleProcessKeeps, HandleFinishKeeps DEF WorkerStep
<1>5. CASE UNCHANGED vars
  <2>0. ConfigType'
    BY <1>5 DEF vars, IInv, ConfigType
  <2>1. PhaseType'
    BY <1>5 DEF vars, IInv, PhaseType
  <2>2. DataType'
    BY <1>5 DEF vars, IInv, DataType
  <2>3. ConfigOK' /\ PoolOK'
    BY <1>5 DEF vars, IInv, ConfigOK, PoolOK
  <2>4. InfraOK' /\ ServerOK'
    BY <1>5 DEF vars, IInv, InfraOK, ServerOK
  <2>5. DataOK' /\ SeededOK'
    BY <1>5 DEF vars, IInv, DataOK, SeededOK
  <2>6. WorkersOK'
    BY <1>5 DEF vars, IInv, WorkersOK
  <2> QED
    BY <2>0, <2>1, <2>2, <2>3, <2>4, <2>5, <2>6 DEF IInv
<1> QED
  BY <1>1, <1>2, <1>3, <1>4, <1>5 DEF Next

(* The invariant of this module holds in every reachable state. *)
THEOREM Invariance == Spec => []IInv
<1>1. Init => IInv
  <2> SUFFICES ASSUME Init PROVE IInv
    OBVIOUS
  <2>1. Cardinality(Workers) \in Nat
    BY Finitely, SomeoneThere
  <2>2. ConfigType
    BY <2>1 DEF Init, ConfigType, NoConfig
  <2>3. PhaseType /\ DataType
    BY DEF Init, PhaseType, Phases, DataType, Places
  <2>4. ConfigOK /\ PoolOK /\ InfraOK /\ ServerOK
    BY DEF Init, ConfigOK, PoolOK, InfraOK, ServerOK
  <2>5. DataOK /\ SeededOK /\ WorkersOK
    BY DEF Init, DataOK, SeededOK, WorkersOK
  <2> QED
    BY <2>2, <2>3, <2>4, <2>5 DEF IInv
<1> QED
  BY <1>1, InvStep, PTL DEF Spec

(* The types, for every accepted file: the numbers of connections, threads  *)
(* and CallDatas stay within what the file asks for.                        *)
THEOREM TypeCorrect == Spec => []TypeOK
<1>1. IInv => TypeOK
  BY DEF IInv, ConfigType, PhaseType, DataType, TypeOK, Phases, Places
<1> QED
  BY <1>1, Invariance, PTL

(* Application::Run: no call is taken before all connections to Redis and   *)
(* to the database are up.                                                  *)
THEOREM ListenAfterInitAlways == Spec => []ListenAfterInit
<1>1. IInv => ListenAfterInit
  BY DEF IInv, InfraOK, DataOK, ListenAfterInit, InFlight
<1> QED
  BY <1>1, Invariance, PTL

(* Whatever file is accepted on whatever machine, a process that serves has *)
(* threads, connections and a CallData for every method.                    *)
THEOREM ReadyToServeAlways == Spec => []ReadyToServe
<1>1. IInv => ReadyToServe
  <2> SUFFICES ASSUME IInv PROVE ReadyToServe
    OBVIOUS
  <2>1. main \in {"redisInit", "dbInit", "serving"} => asio # {}
    BY DEF IInv, PoolOK
  <2>2. ASSUME main = "serving" PROVE begun # {} /\ redis > 0 /\ db > 0
    BY <2>2 DEF IInv, WorkersOK, InfraOK, ConfigOK
  <2>3. ASSUME main = "serving", NEW m \in Methods PROVE Seeded(m) > 0
    <3> DEFINE S == {d \in CallDatas : MethodOf[d] = m /\ data[d] # "none"}
    <3>1. S # {} /\ IsFiniteSet(S)
      BY <2>3, Finitely DEF IInv, SeededOK
    <3>2. Cardinality(S) > 0
      BY <3>1, SomeoneThere
    <3> QED
      BY <3>2 DEF Seeded
  <2> QED
    BY <2>1, <2>2, <2>3 DEF ReadyToServe
<1> QED
  BY <1>1, Invariance, PTL

(* ~Application: once server_->Shutdown() is over no worker can spawn a     *)
(* coroutine any more and none is running.                                  *)
THEOREM NoCoroutineCutOffAlways == Spec => []NoCoroutineCutOff
<1>1. IInv => NoCoroutineCutOff
  BY DEF IInv, ServerOK, DataOK, NoCoroutineCutOff, InFlight, Ending
<1> QED
  BY <1>1, Invariance, PTL

(* However far the start came, a process that exits leaves no thread and no *)
(* event in the queue behind.                                               *)
THEOREM CleanExitAlways == Spec => []CleanExit
<1>1. IInv => CleanExit
  BY DEF IInv, PoolOK, ServerOK, DataOK, WorkersOK, CleanExit, InFlight
<1> QED
  BY <1>1, Invariance, PTL

================================================================================
