# A TLA+ model of Photon-Commerce UserService

The repository holds one service that is written out in code, `UserService`
(C++20, asynchronous gRPC, Boost.Asio coroutines, libpq, Boost.Redis), with the
configuration of a gateway, an environment and load tests around it. This
directory models the service: how a call travels through threads, coroutines
and pools, what the business logic does between its awaits, and how the
process starts and ends. The modules are checked with TLC on small instances.
Every safety property that these runs check, and the refinement of each of the
three abstract specifications, is also proved: TLAPS checks the proofs for any
number of objects, threads, callers, connections and configuration files.

`PROJECT.json` lists components, runs, mutants, the source lines behind every
definition, findings, hazards and theorems.

## The system

One process, three kinds of threads, no lock of its own:

* the **main thread** starts everything and then blocks in `server_->Wait()`;
* **gRPC worker threads** run `UserServiceServer::HandleRpc`: take a tag from
  the completion queue and call `Proceed` on it;
* **asio threads** run coroutines: the business logic of a call, the jobs of
  the connection pool's strand, the Redis connections.

A call arrives at gRPC and is matched with a `CallData` that is registered for
its method. The tag of the `CallData` appears in the completion queue; a worker
authenticates the call (if the method asks for it) and spawns a coroutine on
the asio pool; the coroutine awaits Redis and PostgreSQL and ends in
`responder_.Finish`; the tag appears in the queue once more, and a worker resets
the `CallData` and registers it again.

| Component | State it keeps | Operations | What makes it correct |
|---|---|---|---|
| `CallData` (adapter/v2/call_data) | `status_`, `ctx_`, `request_`, `reply_`, `responder_`; no lock | `Proceed`, `HandleProcess`, `PerformAuthentication`, `HandleFinish`, `Reset`, `RunLogic`, `OnLogicFinished` | one owner at a time; no call lost, run twice or answered twice; no data of an earlier call in an answer |
| CallData managers | a fixed number of `CallData` per method | `Start`, `RegisterCallDataToCQ` | the pool does not shrink, waiting calls are not starved |
| `UserServiceServer` | `server_`, `cq_`, `worker_threads_` | `Run`, `StartServer`, `SeedCallData`, `StartListeningThread`, `HandleRpc`, `Shutdown` | serves only when everything is connected; ends in order from every stage |
| `Application`, `AsioThreadPool` | work guard, threads | `Run`, the destructor, `Run` and `Stop` | a failed start ends the process |
| `AsyncConnectionPool` | `pool_`, `waiters_channel_`, `strand_` | `Init`, `GetConnection`, `ReturnConnection`, the releaser | exclusive, leak-free, first-come first-served leases; no lost wake-up |
| `PQConnection` | a libpq connection | `AsyncConnect`, `SendQuery`, `AwaitResponse`, `FetchRawResult` | rows are read by the query they belong to |
| `UserDao`, users table | rows | three queries, `UNIQUE (phone_number)` | one user per phone |
| `VerificationCodeRepository` | codes in Redis, 300 s | `SaveCode`, `GetCode` | a code proves that it was sent to that phone for that purpose |
| `UserRepository` | cached users in Redis, 3600 s | `GetUserById` (cache-aside), `CreateUser`, `GetUserByPhoneNumber` | the cache never contradicts the table; Redis is optional for reads |
| `AuthService`, `BasicUserService` | none | `SendCode`, `LoginByCode`, `LoginByPassword`, `Register`, `GetUserInfo`, `UpdateUserInfo` | above, across all awaits |
| `RedisClient` | `request_counter_`, `conns_` with a strand each | `Init`, `Get`, `Set` | an answered command took effect once, on whatever connection; every command ends with one outcome |
| `AppConfig` | the parsed file | six `Parse...` functions | an accepted file gives every loop and pool a usable size |
| `util`, `User`, Consul registry | | | see "Not modelled" |

What is hard to test here, and what the properties are about: the object that
wanders between threads without a lock; reused memory between callers;
`Finish` racing the queue; a coroutine that goes to sleep while a connection is
given back; exceptions that leave a coroutine while it holds a connection;
check-then-insert across suspensions; commands that fail after, or long before,
they take effect; commands handed to a connection that is down; sizes at the
edge of what a configuration may say; a start that fails between any two steps.

## Modules

| Module | Stands for |
|---|---|
| `RpcServer` | abstract: what the adapter promises a caller |
| `CallDataAdapter` | CallData, managers, worker threads, coroutines |
| `CallDataAdapterProofs` | the proofs about `CallDataAdapter` |
| `FairLease` | abstract: what the connection pool promises |
| `ConnectionPool` | AsyncConnectionPool, PQConnection |
| `RedisCell` | abstract: what the Redis client promises about one key |
| `RedisClient` | RedisClient with its connections, and Boost.Redis as the code uses it |
| `UserAccounts` | SendCode, LoginByCode, Register, codes in Redis, users table |
| `UserReads` | GetUserById with its cache, LoginByPassword, GetUserInfo |
| `AppConfig` | AppConfig, as operators on a configuration file |
| `ServerLifecycle` | main, Application, AsioThreadPool, UserServiceServer from start to exit |
| `ConnectionPoolProofs`, `RedisClientProofs`, `UserAccountsProofs`, `UserReadsProofs`, `ServerLifecycleProofs` | the proofs about the module of that name |
| `MC...` | model values, symmetry sets and configuration files for TLC |

Definitions named `X_Something` behind a comment "Mutant" are wrong versions of
`X`: a plausible slip in that place of the code. Each property is
shown to be violated by one of them; they are not used by the specifications.

### CallDataAdapter and RpcServer

`status`, `call` (the contents of `ctx_` and `request_`) and `reply` are the
fields of the pooled objects. A payload is abstracted to the caller whose data it
holds, which is what leaks and mix-ups are about; `reply = NoClient` is a cleared
`reply_`. `listening`, `cq`, `tag`, `coro` and `finish` say where an object is:
with gRPC, in the queue, with a worker, with a coroutine, being sent.

There is one action per step after which another thread can get hold of the
object. `HandleProcess` is therefore two steps: authentication and
`status_ = FINISHED`, then either `co_spawn` (`CoSpawn`) or `Finish`
(`Reject`). `HandleFinish` is `Reset` and then `RegisterCallDataToCQ`.
`RunLogic` is the business coroutine: it fills in `reply_`, leaves it alone (a
business failure), or throws. `OnLogicFinished` is the completion handler.

gRPC is external: `Arrive`, `Cancel`, `Bind`, `SendReply`. The queue is a set,
because nothing in the code may rely on the order of events. A caller that has
gone away makes `Finish` complete with either flag.

`RpcServer` knows callers only: a call is invoked, accepted once, answered once
with one of `Allowed(c)`, or withdrawn. The mapping is the identity on the three
variables of the callers.

### ConnectionPool and FairLease

`strand` is the queue of jobs posted to `strand_`; one job runs at a time. Since
`GetConnection` posts its own continuation to the strand, a coroutine that
finds a connection runs on inside the job through `SendQuery` (`RunGet`); one
that finds none joins `waiters`. A job of `ReturnConnection` (`RunPut`) hands the
connection to the first waiter, which resumes later elsewhere (`Resume`), or puts
it back. Every way out of a database operation (rows, SQL error, exception)
passes through `Release`, the deleter of `PooledConnection`. `Lose` breaks a
connection at any time; nothing in the code repairs it.

`FairLease` knows which tasks have asked, who of them asked before whom
(`ahead`), and the lessee of each connection; a connection goes to a task that
nobody is ahead of. The mapping: a task has asked while its job is posted or it
waits; the waiters are in their order, ahead of everyone still in the strand, and
those are in the order of their jobs; the lessee of a connection is the task that
holds it.

### RedisClient and RedisCell

`RedisClient` is the client after `Init`, seen through the commands on one key. A
command takes the next connection in turn (`counter` is `request_counter_`, which
wraps around), is posted to the strand of that connection (`Begin`), and calls
`async_exec` when the strand gets to it (`Exec`); it ends in `Finish`, or in the
catch block (`Caught`) when the connection is lost. The rest is external, modelled
from how the client uses Boost.Redis (default `request::config`): requests of a
connection are pipelined, a lost connection fails them all, a request made while
the connection is down waits. That it waits is what `Init` itself relies on,
whose PING follows `async_run` at once. `orphans` are SETs written to a socket
that was then lost; the server may read them later.

`RedisCell` is one key with atomic commands: an answered command took effect
between call and answer; a SET reported as failed took effect, or does so at any
later time, or never. The mapping takes `store` for the cell and the reply that
is on its way for the effect of a command. `UserAccounts` and
`UserReads` use Redis with these outcomes (`LateSave`, `LateSet`), so what is
shown of the client and what its users assume are the same thing.

### UserAccounts

One action per `co_await`. `req` and `at` are the arguments and the suspension
point of each coroutine, `fresh` its local (the generated code or id). `users`
and `stored` are the table and the codes in Redis. `sent`, `tokens` and
`registered` record what left the process; they are history, read by properties
only. A failed INSERT may have taken effect or not, a failed SET may also take
effect later (`late`). Codes are presented by callers freely; `None` is a code that
was never generated. `valid[r]` is history too: every step (`Step`) is joined by
`Observe`, which notes whether Redis has had the code that `r` presents at some
moment since `r` began.

### UserReads

The same for reads. A user is abstracted to the password behind hash and salt. A
cache entry can be absent, readable or `Corrupt` (refused by `FromJson`). Rows
are never changed because no statement of the code updates or deletes one; this is
the reason why `CacheIsRow` can hold, and it would have to be reconsidered with
the first UPDATE. `existed` and `dbFailed` are history.

### AppConfig and ServerLifecycle

In `AppConfig` a file is a record of sections, each a record of fields; a field
that is missing or does not convert to its type is not in the record. Each
`Parse...` operator is the condition under which the function does not throw, and
`Config` what the getters hand on. `Construct` picks a file: one that is refused
ends the process, an accepted one sets the sizes that every later loop of the
start runs to (asio threads, Redis and database connections, CallDatas per
method, workers).

`main` goes through the steps of the start; each may throw, which leads to the
steps of `~Application`. The life of a CallData is that of `CallDataAdapter`
reduced to one place per object, plus what a shutdown of the server
(`refused` events) and of the queue does. A queue that is shut down goes on while
other registrations are in it (`QueueGoesOn`): `HandleFinish` then registers the
CallData again and gets it back refused; when none is left, gRPC aborts the
process. The process stops at `exit` or with
`crash`, so these runs do not check for deadlock; all others do.

## Runs

| Run | Checks |
|---|---|
| `adapter_safety` | `TypeOK`, `OneOwner`, `ServedOnce`, `OwnAnswer` |
| `adapter_liveness` | `CallsAnswered`, `PoolRefills`, `ImplementsRpc` |
| `pool` | `TypeOK`, `OnePlace`, `NoLostWakeup`, `OwnResult`, `LeasedInOrder`, `ImplementsLease`, `OperationsEnd` |
| `redis` | `TypeOK`, `ImplementsCell`, `CommandsEnd` |
| `accounts_race` | `TypeOK`, `RegisteredOnce`, `TokenNamesOwner`, `NoCodeForStrangers`, `CodeWasValid` |
| `accounts_codes` | `CodeWasValid` |
| `reads` | `TypeOK`, `CacheIsRow`, `LoginProved`, `ExistingUserFound`, `RedisNeverFatal` |
| `lifecycle` | `TypeOK`, `ListenAfterInit`, `ReadyToServe`, `NoCoroutineCutOff`, `CleanExit`, `FailedInitExits` |
| `accounts_saved`, `redis_outage`, `lifecycle_shutdown`, `lifecycle_half` | violated: see Findings |

What they show, in short. The adapter never lets two threads near one
CallData, whatever callers do, and never loses one; every call is answered although
a method has a single CallData and callers return again and again. The pool never
leaks, duplicates or withholds a connection, also when connections break, and
serves in order. The Redis client is linearizable per key for the commands it
answers, although they take different connections; what surfaces late is only
what was reported as failed. Cached users are not hurt by that, since rows never
change; a code may be: one that was replaced or has expired is valid again when its
late SET surfaces, and nothing in the code promises otherwise. Of racing
registrations one succeeds. A code serves only its phone and purpose, and only if
it was valid during the call. Redis failing or holding rubbish never turns into an
error or a missing user for a reader (though it may turn into a wait, see
Findings). Calls are accepted only when both stores are connected, an accepted
configuration never leaves a method without a CallData or a loop without a thread,
and a start that fails before the server is up ends the process.

A shutdown with live workers does not get to `AsioThreadPool::Stop` (finding 2), so
`CleanExit` is met by processes whose workers were never started. `NoCoroutineCutOff`
therefore speaks of all that follows `server_->Shutdown()`, where live workers still
take tags from the queue.

### Bounds

* Adapter, safety: two CallDatas, one of a method with authentication and one
  without, two workers, three callers. Two workers suffice for every race on one
  object (two threads), three callers for one being served per CallData and one
  waiting. Callers return without limit, so objects are recycled without limit.
  The proofs remove the bounds.
* Adapter, liveness: one CallData for three callers, the tightest pool; no
  symmetry, which liveness checking does not allow.
* Pool: two connections and four coroutines, so that two can wait at once and
  their order matters, and a coroutine that has released its connection competes
  with them again.
* Redis client: two coroutines, two values, two connections, so that commands on
  one key overlap on the same and on different connections. `CounterSize` stands
  for 2^64; at 3 it is no multiple of the two connections, so that the turn is
  broken at the wrap-around. Commands and losses of connections are unlimited;
  `orphans` is a set in which an element may stay after it took effect, which
  stands for any number of equal SETs. `redis_outage` needs one coroutine.
* Accounts: `accounts_race` has two requests on two phones, `accounts_codes` two
  requests on one phone with two codes that replace each other and one failed SET
  outstanding at a time (`MaxLate`; two codes and one late SET suffice for an old
  code to return over a new one). A slot is used again and again. Two ids: one row
  more than a phone may have. When both ids are used up no further user can be
  inserted; this is the bound on `GenerateUUID`.
* Reads: two requests, two ids, two passwords (the right and a wrong one).
* Lifecycle: two of everything, so that every loop can fail at the first, and
  after the first, round; two methods, one with up to two CallDatas. The files are
  one good file and every file that differs from it in one place: a section or
  field missing, or a value at the limit (ports 0, 1, 65535, 65536; pool sizes
  -1, 0, 1, 1000, 1001; counts -1 to 2; empty texts). 0, 1 or 2 cores.

Symmetry sets permute model values that the specifications treat alike; they are
used only in runs without liveness properties.

### Fairness

* `CallDataAdapter`: workers and asio threads keep running, sends end, and the
  business logic of a call ends (weak fairness). The last is what `OperationsEnd`
  and `CommandsEnd` show of its database and Redis operations, of which each
  request makes at most three in a row. gRPC hands out waiting calls and
  events first-come first-served, so that none is passed over for ever (strong
  fairness of `Bind` for each caller and of `Take` for each event). No caller has
  to call, and none has to be patient.
* `ConnectionPool`: posted handlers run, and PostgreSQL answers or the loss of the
  connection is noticed. The code has no timeout of its own, so this is an
  assumption on the environment. Weak fairness only; no coroutine has to ask.
* `RedisClient`: posted handlers run, an established connection writes, Redis
  answers or the connection is lost (`Progress`; Boost.Redis has a health check).
  `CommandsEnd` also assumes that a lost connection comes back (`RedisReturns`);
  `redis_outage` leaves exactly that out. Weak fairness only.
* `ServerLifecycle`: threads run, sends and coroutines end. The steps of
  `redisInit` and `dbInit` are not fair: nothing promises that a connection is
  ever established.

## Proofs

Each `...Proofs` module has the same shape: an inductive invariant `IInv`, a lemma
per action (or per way in which a step can change the state) that it is kept,
`Invariance` (`Spec => []IInv`), and a theorem per property. The constants are
arbitrary, except for the named assumptions:

| Assumption | Says | Why the code justifies it |
|---|---|---|
| `AdapterAssumption` | the dummies are no members, every CallData has a method | a CallData belongs to one manager |
| `PoolAssumption` | at least one connection; the dummy is no task | the constructor throws otherwise |
| `RedisAssumption` | at least one connection, a counter of at least one value; `GET`, `OK`, `error`, `refused` and the like are not values of the key | the constructor throws otherwise; replies and errors are of other types than values |
| `AccountsAssumption`, `ReadsAssumption` | `None`, `Corrupt` and a failed GET (`error`) are not phones, codes, ids or passwords | `optional` and `expected` keep them apart |
| `LifecycleAssumption`, `FilesAssumption` | the threads and CallDatas are finite sets with as many members as any accepted file asks for; the numbers of an accepted file are integers | the program creates them one by one; `as<int>` throws on anything else |

TLC evaluates them on every run. What each proof needs besides the properties:

* **`CallDataAdapterProofs`**: `TypeCorrect`, `OneOwnerAlways`,
  `ServedOnceAlways`, `OwnAnswerAlways`, and `Implements` (`Spec =>
  Rpc!RpcSafety`). `OneOwner` alone does not exclude a worker about to spawn a
  coroutine for a CallData that is also registered to be filled again, because
  which step a worker takes depends on `status_`; `OwnAnswer` depends on what
  `reply_` held four owners earlier. `IInv` adds what is known of an object in each
  place (`ListeningInv`, `QueuedInv`, `HeldInv`, `RunningInv`, `SendingInv`): for
  example that a registered object is blank and waits for processing, that an event
  with `ok = FALSE` always belongs to a finished call, and that a coroutine of a
  method with authentication runs only for a token that verifies. The proof goes
  along the owner: a step changes one CallData (`OneMoves`), all others are
  untouched (`Elsewhere`). The refinement maps `Bind` to `Accept`, `SendReply` to
  `Answer` or `Discard`, `Arrive` and `Cancel` to their namesakes, and everything
  else to a stutter; `SendingInv` makes `SendReply` an `Answer`.

* **`ConnectionPoolProofs`**: `TypeCorrect`, `OnePlaceAlways`,
  `NoLostWakeupAlways`, `OwnResultAlways`, `LeasedInOrderAlways`. `OnePlace` is not
  inductive: a hand-over could reach a coroutine that already has a connection. `InLine` excludes it: a
  coroutine has one job at the strand exactly while it is posted, and is among the
  waiters once, exactly while it waits. The lemmas on `Append`, `Tail` and `Precedes`
  say what a queue operation does to membership, uniqueness and order.
  `LeasedInOrderAlways` is `Spec => Lease!LeaseSafety`: a post is a `Request`, a job
  that finds a connection a `Grant` (or a `Spend`, when the connection turns out to
  be broken in the same job), the end of a `PooledConnection` a `Release`, a
  hand-over by `RunPut` a `Grant`, and moving from the strand to the waiters changes nobody's
  turn. That is where `NoLostWakeup` is used: a job that finds an idle connection has
  nobody waiting ahead of it.

* **`RedisClientProofs`**: `TypeCorrect` and `ImplementsCellAlways` (`Spec =>
  Cell!CellSpec`, all of `RedisCell`, which asks for no fairness). `TypeOK` says how
  many spots a command has; the proof tells them one by one (`Placed`), since a reply
  is given to the head of a pipeline and is the reply to that command only because no
  command is in two lines. The effect of a command is the step of the server that
  answers it; losing a connection turns the unanswered SETs into those that may
  still take effect.

* **`UserAccountsProofs`**: `TypeCorrect`, `RegisteredOnceAlways`,
  `TokenNamesOwnerAlways`, `NoCodeForStrangersAlways`, `CodeWasValidAlways` (an action
  property). The invariant says where a code can come from: what Redis has stored, may
  still store or is about to get was sent (`StoredWasSent`, `LateWasSent`), a request
  past `CheckCode` presented a code that was sent (`RequestOK`) and that Redis had
  since the request began (`PastCheck`, because only `CheckCode` lets a request go on:
  `CheckedNow`), and an id about to be
  inserted belongs to one request and has no row (`FreshIds`), so that a row is never
  written twice.

* **`UserReadsProofs`**: `TypeCorrect`, `CacheIsRowAlways`, `LoginProvedAlways`,
  `ExistingUserFoundAlways`, `RedisNeverFatalAlways`. `CacheIsRow` needs the same of
  every copy that may be written later: the one in the hands of a request that refills
  (`HandIsRow`) and the ones in SETs that failed (`LateIsRow`). `ExistingUserFound`
  needs that whoever existed, or has a token, has a row for good.

* **`ServerLifecycleProofs`**: `TypeCorrect`, `ListenAfterInitAlways`,
  `ReadyToServeAlways`, `NoCoroutineCutOffAlways`, `CleanExitAlways`. The properties
  speak of single moments; the invariant says what each phase of `main` has behind it
  (`ConfigOK`, `PoolOK`, `InfraOK`, `ServerOK`, `DataOK`, `SeededOK`, `WorkersOK`).
  `ConfigRuns` is the lemma on `AppConfig`: whatever file passes every `Parse...`
  function, on whatever hardware, gives at least one worker, 1 to 1000 connections of
  either kind and at least one CallData for each method.

### Only model-checked

* Everything under fairness, which these provers do not handle: `CallsAnswered`,
  `PoolRefills`, `OperationsEnd`, `CommandsEnd`, `FailedInitExits`, and the fairness
  halves of `ImplementsRpc` and `ImplementsLease` (their safety halves are
  `Implements` and `LeasedInOrderAlways`).
* The properties that are violated (Findings): there is nothing to prove, TLC shows
  the behaviour.

## Findings

1. **A code that was not stored is reported as saved** (`accounts_saved`,
   `SavedBeforeSuccess`). `SaveCode` returns nothing and only logs a failed SET;
   `SendCode` then logs "Verification code saved to Redis successfully" and
   answers success. The user has a code that can never match.
2. **Shutdown with live workers registers on a closed queue**
   (`lifecycle_shutdown`, `SafeShutdown`). `server_->Shutdown()` returns every
   registered tag with `ok = false`; `Proceed` takes that for a departed client
   and registers the object again, also after `cq_->Shutdown()`. With other
   registrations left the workers go round on refused ones; without, gRPC aborts the
   process. Either way they are not joined in order. Today this is
   reached only when `StartListeningThread` throws after its first thread, as
   nothing else shuts a running server down; a signal handler would make it common.
3. **A half-started server may not end** (`lifecycle_half`,
   `HalfStartedExits`). Without worker threads, `server_->Shutdown()` waits for a
   call that a seeded CallData has already accepted; the drain meant for this
   case comes after it.
4. **An outage of Redis does not degrade to the database** (`redis_outage`,
   `DegradesToDatabase`). `GetUserById` falls back to the database when a GET
   fails, "to keep availability high". But `async_exec` without
   `cancel_if_not_connected` or a timeout does not fail while the connection is
   down, it waits; nor does the client turn to a connection that is up. Only
   requests that were under way when the connection broke get an error.

Seen on the way, without a run: `listen_threads` is documented as the number of
listening threads (config/config.yaml:11), parsed and validated, and never used;
`StartListeningThread` starts `worker_threads` of them. The connection string is
put together without escaping (app_config.cc:206), so that a password with `@` or
`/` is accepted and fails later in `AsyncConnect`.

## Not modelled

* YAML text and the conversion of its scalars; addresses and names beyond being
  empty or not.
* The single polls of `PQConnection::AsyncConnect`: a loop of waits whose only
  effect is one of the two outcomes in `ServerLifecycle`.
* A PostgreSQL that neither answers nor closes the connection: the code has no
  timeout, so progress is an assumption of `ConnectionPool` and nothing of the
  code is left to check.
* Cryptography, JWT encoding, UUIDs and random codes: used as what they promise.
* Conversion of timestamps and status columns, JSON text, protobuf mapping and
  logging: no property depends on them.
* `UpdateUserInfo` (not implemented in the code), `User::ChangePassword` and
  `MarkAsDeleted` (without callers), `ConsulRegistry` (its only call is commented
  out), superseded versions that are not built, gateway configuration, scripts and
  load tests.
* A null `server_` after a failed `BuildAndStart` is a step of `ServerLifecycle`
  (`crash = "server is null"`) but no property: nothing says what should happen.

## Plan

All safety properties of the runs are proved. What is left:

1. The consequences of the abstract specifications for those who rely on them, as
   theorems about `RpcServer`, `FairLease` and `RedisCell` themselves (a caller
   has one answer, a connection one lessee and the order of requests is a strict
   order, an answered GET was the value at some time between call and answer).
2. Around the findings: that `SafeShutdown` holds as long as `StartListeningThread`
   does not throw after its first thread, and that the process can only hang in
   `awaitCalls` with a call that nobody serves.
3. That a file which `Accepts` accepts satisfies `PoolAssumption` and
   `RedisAssumption`, which ties the sizes of the pools to the configuration.

A composition of adapter and pool in one state space would only replace the
fairness of the adapter's business logic by that of the pool, which
`OperationsEnd` and `CommandsEnd` already state for one operation; it is left as
this argument.
