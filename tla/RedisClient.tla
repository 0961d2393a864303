------------------------------ MODULE RedisClient ------------------------------
(***************************************************************************)
(* infrastructure/state_storage/redis_dao: RedisClient after Init, seen    *)
(* through the commands on one key. A command picks a connection in turn   *)
(* (request_counter_), enters the strand of that connection and hands its  *)
(* request to async_exec.                                                  *)
(*                                                                         *)
(* Boost.Redis is external. It writes the waiting requests of a connection *)
(* in one go and matches replies to requests in their order. When the      *)
(* connection is lost all its requests fail, and a written one may still   *)
(* be read by the server from the old socket. A request handed over while  *)
(* the connection is down waits until it is up again: that is how the PING *)
(* of RedisClient::Init works, which is sent right after async_run.        *)
(***************************************************************************)
EXTENDS Naturals, Sequences, FiniteSets

CONSTANTS
    Tasks,         \* coroutines that run one Redis command after another
    Values,
    Absent,
    PoolSize,      \* RedisConfig::pool_size
    CounterSize    \* request_counter_ counts modulo this (2^64 in the code)

ASSUME RedisAssumption ==
    /\ PoolSize \in Nat \ {0}      \* the constructor throws otherwise
    /\ CounterSize \in Nat \ {0}
    /\ Absent \notin Values
    /\ {"GET", "none", "OK", "error", "refused", "pending"} \cap (Values \cup {Absent}) = {}

Conns == 0..(PoolSize - 1)

VARIABLES
    counter,   \* request_counter_
    call,      \* call[t]: the command t awaits: a value to SET, "GET", or "none"
    result,    \* result[t]: how the last command of t ended
    strand,    \* strand[k]: the coroutines posted to the strand of connection k
    up,        \* the connections that are established
    line,      \* line[k]: the requests of connection k, oldest first
    store,     \* the value of the key in Redis
    orphans    \* values of SETs left unread in sockets of lost connections

vars == <<counter, call, result, strand, up, line, store, orphans>>

Replies  == Values \cup {Absent, "OK", "refused"}   \* refused: an error or an odd type
Requests == [task : Tasks, written : BOOLEAN, reply : Replies \cup {"pending"}]

Spots(t) ==
    UNION {{<<"strand", k, i>> : i \in {j \in 1..Len(strand[k]) : strand[k][j] = t}} \cup
           {<<"line", k, i>> : i \in {j \in 1..Len(line[k]) : line[k][j].task = t}} :
           k \in Conns}

(* Types; and a command in progress is at one connection, in its strand or  *)
(* in its line of requests, once.                                           *)
TypeOK ==
    /\ counter \in 0..(CounterSize - 1)
    /\ call \in [Tasks -> Values \cup {"GET", "none"}]
    /\ result \in [Tasks -> Values \cup {Absent, "OK", "error", "none"}]
    /\ strand \in [Conns -> Seq(Tasks)]
    /\ up \subseteq Conns
    /\ line \in [Conns -> Seq(Requests)]
    /\ store \in Values \cup {Absent}
    /\ orphans \subseteq Values
    /\ \A t \in Tasks : /\ call[t] = "none" <=> Spots(t) = {}
                        /\ \A x, y \in Spots(t) : x = y

(* Init has started async_run on every connection and pinged each of them.  *)
Init ==
    /\ counter = 0
    /\ call = [t \in Tasks |-> "none"]
    /\ result = [t \in Tasks |-> "none"]
    /\ strand = [k \in Conns |-> <<>>]
    /\ up = Conns
    /\ line = [k \in Conns |-> <<>>]
    /\ store = Absent
    /\ orphans = {}

--------------------------------------------------------------------------------
(* RedisClient. *)

GetNextConnection == counter % PoolSize

(* Get and Set up to the post to the strand: fetch_add is one atomic step,  *)
(* and the counter wraps around.                                            *)
Begin(t, c) ==
    /\ call[t] = "none"
    /\ call' = [call EXCEPT ![t] = c]
    /\ result' = [result EXCEPT ![t] = "none"]
    /\ counter' = (counter + 1) % CounterSize
    /\ strand' = [strand EXCEPT ![GetNextConnection] = Append(@, t)]
    /\ UNCHANGED <<up, line, store, orphans>>

Get(t) == Begin(t, "GET")

Set(t) == \E v \in Values : Begin(t, v)

(* Mutant: the coroutine is resumed in the strand and forgets its request.  *)
Exec_NoRequest(k) ==
    /\ strand[k] # <<>>
    /\ strand' = [strand EXCEPT ![k] = Tail(@)]
    /\ UNCHANGED <<counter, call, result, up, line, store, orphans>>

(* Mutant: the strand runs the job that was posted last. *)
Exec_Lifo(k) ==
    LET n == Len(strand[k]) IN
    /\ n > 0
    /\ strand' = [strand EXCEPT ![k] = SubSeq(@, 1, n - 1)]
    /\ line' = [line EXCEPT ![k] =
                   Append(@, [task |-> strand[k][n], written |-> FALSE, reply |-> "pending"])]
    /\ UNCHANGED <<counter, call, result, up, store, orphans>>

(* The strand runs the coroutine, which calls async_exec and is suspended;  *)
(* nothing looks whether the connection is up.                              *)
Exec(k) ==
    /\ strand[k] # <<>>
    /\ strand' = [strand EXCEPT ![k] = Tail(@)]
    /\ line' = [line EXCEPT ![k] =
                   Append(@, [task |-> Head(strand[k]), written |-> FALSE, reply |-> "pending"])]
    /\ UNCHANGED <<counter, call, result, up, store, orphans>>

(* A string is the value, Null an absent key, an error or a reply of        *)
(* another type an error (and so it is for the ignored reply of a SET).     *)
ExtractResult(reply) == IF reply = "refused" THEN "error" ELSE reply

(* async_exec completes for the oldest request. *)
Finish(k) ==
    LET done == Head(line[k]) IN
    /\ line[k] # <<>> /\ done.reply # "pending"
    /\ call' = [call EXCEPT ![done.task] = "none"]
    /\ result' = [result EXCEPT ![done.task] = ExtractResult(done.reply)]
    /\ line' = [line EXCEPT ![k] = Tail(@)]
    /\ UNCHANGED <<counter, strand, up, store, orphans>>

(* Mutant: the catch block of Set reports success. *)
Caught_AsSuccess(failed) ==
    result' = [t \in Tasks |-> IF t \notin failed THEN result[t]
                               ELSE IF call[t] = "GET" THEN "error" ELSE "OK"]

(* The catch blocks of Get and Set: whatever async_exec throws is an error. *)
Caught(failed) == result' = [t \in Tasks |-> IF t \in failed THEN "error" ELSE result[t]]

--------------------------------------------------------------------------------
(* External: Boost.Redis, the network and the server. *)

Write(k) ==
    /\ k \in up /\ \E i \in 1..Len(line[k]) : ~line[k][i].written
    /\ line' = [line EXCEPT ![k] = [i \in 1..Len(@) |-> [@[i] EXCEPT !.written = TRUE]]]
    /\ UNCHANGED <<counter, call, result, strand, up, store, orphans>>

(* The server executes the oldest request it has not executed, or refuses.  *)
Serve(k) ==
    \E i \in 1..Len(line[k]) :
        LET c == call[line[k][i].task] IN
        /\ line[k][i].written /\ line[k][i].reply = "pending"
        /\ \A j \in 1..(i - 1) : line[k][j].reply # "pending"
        /\ \/ /\ c = "GET"
              /\ line' = [line EXCEPT ![k][i].reply = store]
              /\ UNCHANGED store
           \/ /\ c \in Values
              /\ line' = [line EXCEPT ![k][i].reply = "OK"]
              /\ store' = c
           \/ /\ line' = [line EXCEPT ![k][i].reply = "refused"]
              /\ UNCHANGED store
        /\ UNCHANGED <<counter, call, result, strand, up, orphans>>

(* The connection is lost: every request in its line fails. *)
LoseConnection(k) ==
    LET failed == {line[k][i].task : i \in 1..Len(line[k])}
        unread == {call[line[k][i].task] : i \in
                      {j \in 1..Len(line[k]) : line[k][j].written /\ line[k][j].reply = "pending"}}
    IN
    /\ k \in up
    /\ up' = up \ {k}
    /\ call' = [t \in Tasks |-> IF t \in failed THEN "none" ELSE call[t]]
    /\ Caught(failed)
    /\ line' = [line EXCEPT ![k] = <<>>]
    /\ orphans' = orphans \cup (unread \cap Values)
    /\ UNCHANGED <<counter, strand, store>>

Reconnect(k) ==
    /\ k \notin up
    /\ up' = up \cup {k}
    /\ UNCHANGED <<counter, call, result, strand, line, store, orphans>>

(* The server reads an old socket after all; another such SET of the same   *)
(* value may be left.                                                       *)
ServeOrphan(v) ==
    /\ v \in orphans
    /\ store' = v
    /\ orphans' \in {orphans, orphans \ {v}}
    /\ UNCHANGED <<counter, call, result, strand, up, line>>

Expire ==
    /\ store # Absent
    /\ store' = Absent
    /\ UNCHANGED <<counter, call, result, strand, up, line, orphans>>

--------------------------------------------------------------------------------
Next ==
    \/ \E t \in Tasks : Get(t) \/ Set(t)
    \/ \E k \in Conns : \/ Exec(k) \/ Finish(k)
                        \/ Write(k) \/ Serve(k) \/ LoseConnection(k) \/ Reconnect(k)
    \/ \E v \in Values : ServeOrphan(v)
    \/ Expire

(* The asio threads run posted handlers, an established connection writes   *)
(* what it is given, and the server answers or the connection is lost (the  *)
(* health check of Boost.Redis).                                            *)
Progress ==
    \A k \in Conns : WF_vars(Exec(k)) /\ WF_vars(Write(k)) /\ WF_vars(Serve(k)) /\ WF_vars(Finish(k))

(* Boost.Redis tries to connect again for as long as it takes; whether that *)
(* succeeds is up to Redis.                                                 *)
RedisReturns == \A k \in Conns : WF_vars(Reconnect(k))

Spec       == Init /\ [][Next]_vars
OutageSpec == Spec /\ Progress
FairSpec   == Spec /\ Progress /\ RedisReturns

--------------------------------------------------------------------------------
(* Properties. *)

(* What the command of t will be answered, once the server has executed it. *)
Executed(t) ==
    {line[s[2]][s[3]].reply : s \in {x \in Spots(t) : x[1] = "line"}} \ {"pending"}

Effect ==
    [t \in Tasks |-> IF Executed(t) = {} THEN "pending"
                     ELSE ExtractResult(CHOOSE x \in Executed(t) : TRUE)]

Cell == INSTANCE RedisCell WITH cell <- store, effect <- Effect, late <- orphans

(* Whatever connection a command takes and whenever one breaks, the client  *)
(* keeps the promise of RedisCell: an answered SET has taken effect and is  *)
(* what a later GET on any other connection sees, and only a failed SET may *)
(* surface late.                                                            *)
ImplementsCell == Cell!CellSpec

(* A command ends, also when the connection breaks before, while or after   *)
(* it is written, as long as Redis comes back.                              *)
CommandsEnd == \A t \in Tasks : call[t] # "none" ~> call[t] = "none"

(* "Degrade: only log, go on with the database, stay available"             *)
(* (GetUserById, when the GET fails): a GET comes back to its caller, who   *)
(* can then turn to the database, also while Redis stays away.              *)
DegradesToDatabase == \A t \in Tasks : call[t] = "GET" ~> call[t] = "none"

================================================================================
