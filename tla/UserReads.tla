------------------------------- MODULE UserReads -------------------------------
(***************************************************************************)
(* Reading a user by id: UserRepository::GetUserById with its cache-aside  *)
(* copy in Redis, and its two callers AuthService::LoginByPassword and     *)
(* BasicUserService::GetUserInfo. One action per co_await.                 *)
(*                                                                         *)
(* A user is abstracted to its password (the row's hash and salt); ToJson  *)
(* and FromJson keep it, and a cache entry that FromJson refuses is        *)
(* Corrupt. Rows are inserted by registrations and never changed: the code *)
(* has no update and no delete.                                            *)
(***************************************************************************)
EXTENDS Naturals, FiniteSets

CONSTANTS Requests, Ids, Passwords, None, Corrupt

ASSUME ReadsAssumption ==
    /\ None \notin Passwords /\ Corrupt \notin Passwords /\ None # Corrupt
    /\ "error" \notin Passwords       \* a failed GET is no entry: RedisError

VARIABLES
    rows,        \* rows[i]: the password of user i, None if there is no row
    cache,       \* cache[i]: what Redis has under user:info:i
    late,        \* <<i, x>>: a failed SET of the entry of i that may take effect
    tokens,      \* ids for which GenerateToken has made a token
    req,         \* req[r]: the request of r
    at,          \* at[r]: the await that r is suspended in
    user,        \* user[r]: the row r has read and is writing to the cache
    result,      \* result[r]: how r ended
    existed,     \* existed[r]: the row was there when r began
    dbFailed     \* dbFailed[r]: the database failed r

vars == <<rows, cache, late, tokens, req, at, user, result, existed, dbFailed>>

Ops     == {"LoginByPassword", "GetUserInfo"}
Results == {"none", "SUCCESS", "INTERNAL_ERROR", "USER_NOT_FOUND",
            "PASSWORD_INCORRECT", "exception"}

(* Types; and a request has a row in hand exactly while it refills the      *)
(* cache with it.                                                           *)
TypeOK ==
    /\ rows \in [Ids -> Passwords \cup {None}]
    /\ cache \in [Ids -> Passwords \cup {None, Corrupt}]
    /\ late \subseteq Ids \X Passwords
    /\ tokens \subseteq Ids
    /\ req \in [Requests -> [op : Ops, id : Ids, password : Passwords]]
    /\ at \in [Requests -> {"idle", "cacheGet", "dbGet", "cacheSet"}]
    /\ user \in [Requests -> Passwords \cup {None}]
    /\ \A r \in Requests : at[r] = "cacheSet" <=> user[r] # None
    /\ result \in [Requests -> Results]
    /\ existed \in [Requests -> BOOLEAN]
    /\ dbFailed \in [Requests -> BOOLEAN]

Init ==
    /\ rows = [i \in Ids |-> None]
    /\ cache = [i \in Ids |-> None]
    /\ late = {}
    /\ tokens = {}
    /\ \E i \in Ids, x \in Passwords :
          req = [r \in Requests |-> [op |-> "GetUserInfo", id |-> i, password |-> x]]
    /\ at = [r \in Requests |-> "idle"]
    /\ user = [r \in Requests |-> None]
    /\ result = [r \in Requests |-> "none"]
    /\ existed = [r \in Requests |-> FALSE]
    /\ dbFailed = [r \in Requests |-> FALSE]

--------------------------------------------------------------------------------
(* A registration inserts user i (module UserAccounts). *)
Insert(i) ==
    /\ rows[i] = None
    /\ \E x \in Passwords : rows' = [rows EXCEPT ![i] = x]
    /\ UNCHANGED <<cache, late, tokens, req, at, user, result, existed, dbFailed>>

(* External: Redis drops an entry after its 3600 s, and an entry may be     *)
(* unreadable ("corrupted or of an incompatible version").                  *)
Expire(i) ==
    /\ cache[i] # None
    /\ cache' = [cache EXCEPT ![i] = None]
    /\ UNCHANGED <<rows, late, tokens, req, at, user, result, existed, dbFailed>>

Damage(i) ==
    /\ cache[i] \in Passwords
    /\ cache' = [cache EXCEPT ![i] = Corrupt]
    /\ UNCHANGED <<rows, late, tokens, req, at, user, result, existed, dbFailed>>

--------------------------------------------------------------------------------
(* The callers. *)

Begin(r, op, i, x) ==
    /\ at[r] = "idle"
    /\ req' = [req EXCEPT ![r] = [op |-> op, id |-> i, password |-> x]]
    /\ at' = [at EXCEPT ![r] = "cacheGet"]
    /\ result' = [result EXCEPT ![r] = "none"]
    /\ existed' = [existed EXCEPT ![r] = rows[i] # None]
    /\ dbFailed' = [dbFailed EXCEPT ![r] = FALSE]
    /\ UNCHANGED <<rows, cache, late, tokens, user>>

LoginByPassword(r) ==
    \E i \in Ids, x \in Passwords : Begin(r, "LoginByPassword", i, x)

(* The user id comes from a token that PerformAuthentication has verified.  *)
GetUserInfo(r) ==
    \E i \in tokens, x \in Passwords : Begin(r, "GetUserInfo", i, x)

(* Mutant: the password is not compared. *)
VerifyPassword_Any(r, found) == TRUE

VerifyPassword(r, found) == req[r].password = found

(* The rest of LoginByPassword or GetUserInfo, once GetUserById has         *)
(* returned found (None: std::nullopt).                                     *)
Conclude(r, found) ==
    LET login == req[r].op = "LoginByPassword"
        good  == found # None /\ (login => VerifyPassword(r, found))
    IN
    /\ at' = [at EXCEPT ![r] = "idle"]
    /\ user' = [user EXCEPT ![r] = None]
    /\ result' = [result EXCEPT ![r] =
                     CASE found = None -> "USER_NOT_FOUND"
                       [] good         -> "SUCCESS"
                       [] OTHER        -> "PASSWORD_INCORRECT"]
    /\ tokens' = IF login /\ good THEN tokens \cup {req[r].id} ELSE tokens

Fail(r, code) ==
    /\ at' = [at EXCEPT ![r] = "idle"]
    /\ user' = [user EXCEPT ![r] = None]
    /\ result' = [result EXCEPT ![r] = code]
    /\ UNCHANGED tokens

--------------------------------------------------------------------------------
(* UserRepository::GetUserById *)

(* Mutant: the id is left out of the key. *)
CacheKey_NoId(i) == CHOOSE j \in Ids : TRUE

(* "user:info:" + id *)
CacheKey(i) == i

(* RedisClient::Get: the entry (None when there is no such key), or an      *)
(* error: a lost connection, an error reply, a reply of another type.       *)
RedisError == "error"
Get(i) == {cache[CacheKey(i)], RedisError}

(* User::FromJson: what an entry says of the user, or nothing. *)
FromJson(got) == IF got \in Passwords THEN got ELSE None

(* RedisClient::Set with an expiry takes effect now, later or never (module *)
(* RedisCell).                                                              *)
Set(i, row) ==
    \/ cache' = [cache EXCEPT ![CacheKey(i)] = row] /\ UNCHANGED late
    \/ late' \in {late, late \cup {<<CacheKey(i), row>>}} /\ UNCHANGED cache

(* External: Redis executes a SET after its failure was reported; another   *)
(* SET of the same entry may be left.                                       *)
LateSet ==
    \E e \in late :
        /\ cache' = [cache EXCEPT ![e[1]] = e[2]]
        /\ late' \in {late, late \ {e}}
        /\ UNCHANGED <<rows, tokens, req, at, user, result, existed, dbFailed>>

(* UserDao::GetUserById: the row, None if there is none. *)
GetUserById(i) == rows[i]

(* Mutant: a Redis error is returned to the caller. *)
CacheGet_ErrorIsFatal(r) ==
    /\ at[r] = "cacheGet"
    /\ \E got \in Get(req[r].id) :
          \/ got = RedisError /\ Fail(r, "INTERNAL_ERROR")
          \/ FromJson(got) # None /\ Conclude(r, got)
          \/ /\ FromJson(got) = None /\ got # RedisError
             /\ at' = [at EXCEPT ![r] = "dbGet"]
             /\ UNCHANGED <<tokens, user, result>>
    /\ UNCHANGED <<rows, cache, late, req, existed, dbFailed>>

(* Mutant: an absent or unreadable entry means that there is no user. *)
CacheGet_MissIsAbsent(r) ==
    /\ at[r] = "cacheGet"
    /\ \E got \in Get(req[r].id) : Conclude(r, FromJson(got))
    /\ UNCHANGED <<rows, cache, late, req, existed, dbFailed>>

(* A readable entry is returned; a missing or unreadable one, or an error   *)
(* of Redis, leads to the database.                                         *)
CacheGet(r) ==
    /\ at[r] = "cacheGet"
    /\ \E got \in Get(req[r].id) :
          \/ FromJson(got) # None /\ Conclude(r, FromJson(got))
          \/ /\ FromJson(got) = None
             /\ at' = [at EXCEPT ![r] = "dbGet"]
             /\ UNCHANGED <<tokens, user, result>>
    /\ UNCHANGED <<rows, cache, late, req, existed, dbFailed>>

(* Mutant: the row is not kept for the cache. *)
DbGet_Forget(r) ==
    /\ at[r] = "dbGet"
    /\ \/ rows[req[r].id] = None /\ Conclude(r, None)
       \/ /\ rows[req[r].id] # None
          /\ at' = [at EXCEPT ![r] = "cacheSet"]
          /\ UNCHANGED <<tokens, result, user>>
    /\ UNCHANGED <<rows, cache, late, req, existed, dbFailed>>

(* user_dao_->GetUserById: an error value or an exception ends the request, *)
(* an absent row is returned as it is, a row goes to the cache first.       *)
DbGet(r) ==
    LET found == GetUserById(req[r].id) IN
    /\ at[r] = "dbGet"
    /\ \/ /\ \E code \in {"INTERNAL_ERROR", "exception"} : Fail(r, code)
          /\ dbFailed' = [dbFailed EXCEPT ![r] = TRUE]
       \/ /\ found = None
          /\ Conclude(r, None)
          /\ UNCHANGED dbFailed
       \/ /\ found # None
          /\ at' = [at EXCEPT ![r] = "cacheSet"]
          /\ user' = [user EXCEPT ![r] = found]
          /\ UNCHANGED <<tokens, result, dbFailed>>
    /\ UNCHANGED <<rows, cache, late, req, existed>>

(* The refill. Whether the SET took effect, and whether it was confirmed,   *)
(* makes no difference: its outcome is only logged.                         *)
CacheSet(r) ==
    /\ at[r] = "cacheSet"
    /\ Set(req[r].id, user[r])
    /\ Conclude(r, user[r])
    /\ UNCHANGED <<rows, req, existed, dbFailed>>

--------------------------------------------------------------------------------
Resume(r) == CacheGet(r) \/ DbGet(r) \/ CacheSet(r)

Next ==
    \/ \E r \in Requests : LoginByPassword(r) \/ GetUserInfo(r) \/ Resume(r)
    \/ \E i \in Ids : Insert(i) \/ Expire(i) \/ Damage(i)
    \/ LateSet

Spec == Init /\ [][Next]_vars

--------------------------------------------------------------------------------
(* Properties. *)

(* A readable cache entry is the row it was copied from, however late a     *)
(* refill is written: the cache never answers for a user who has no row or  *)
(* with the data of another.                                                *)
CacheIsRow == \A i \in Ids : cache[i] \in Passwords => cache[i] = rows[i]

(* A token is made only for the right password of an existing user, also    *)
(* when the hash came from the cache.                                       *)
LoginProved ==
    \A r \in Requests :
        result[r] = "SUCCESS" =>
            /\ rows[req[r].id] # None
            /\ req[r].op = "LoginByPassword" => req[r].password = rows[req[r].id]

(* A user who existed when the request came in is found: a miss, a damaged  *)
(* entry or an outage of Redis is never taken for a missing user. The       *)
(* holder of a token therefore never sees USER_NOT_FOUND.                   *)
ExistingUserFound ==
    \A r \in Requests : result[r] = "USER_NOT_FOUND" =>
        ~existed[r] /\ req[r].op = "LoginByPassword"

(* Only the database can make a read fail: errors of Redis are ignored      *)
(* ("degrade: only log, go on with the database" in GetUserById).           *)
RedisNeverFatal ==
    \A r \in Requests : result[r] \in {"INTERNAL_ERROR", "exception"} => dbFailed[r]

================================================================================
