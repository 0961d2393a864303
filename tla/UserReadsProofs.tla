---------------------------- MODULE UserReadsProofs ----------------------------
(***************************************************************************)
(* Proofs about UserReads for any number of requests, users and passwords. *)
(*                                                                         *)
(* What has to be known besides the properties: every copy of a row that   *)
(* is under way (in the hands of a request that refills the cache, or in a *)
(* SET that Redis may still execute) is the row, and a row that was seen   *)
(* once is there for good.                                                 *)
(***************************************************************************)
EXTENDS UserReads, TLAPS

(* The copies that may be written to the cache later. *)
LateIsRow == \A e \in late : e[2] = rows[e[1]]
HandIsRow == \A r \in Requests : at[r] = "cacheSet" => user[r] = rows[req[r].id]

(* Whoever has a token has a row; so has whoever existed. *)
TokenHasRow  == \A i \in tokens : rows[i] # None
ExistsForGood ==
    \A r \in Requests :
        /\ existed[r] => rows[req[r].id] # None
        /\ at[r] # "idle" /\ req[r].op = "GetUserInfo" => existed[r]

IInv ==
    /\ TypeOK
    /\ CacheIsRow /\ LateIsRow /\ HandIsRow
    /\ TokenHasRow /\ ExistsForGood
    /\ LoginProved /\ ExistingUserFound /\ RedisNeverFatal

--------------------------------------------------------------------------------
(* Reading the cache either ends the request with the entry, or leads on to *)
(* the database; an error of Redis never passes for an entry.               *)
LEMMA CacheGetOutcomes ==
    ASSUME TypeOK, NEW r \in Requests, CacheGet(r)
    PROVE  /\ at[r] = "cacheGet"
           /\ UNCHANGED <<rows, cache, late, req, existed, dbFailed>>
           /\ \/ /\ cache[req[r].id] \in Passwords
                 /\ Conclude(r, cache[req[r].id])
              \/ /\ at' = [at EXCEPT ![r] = "dbGet"]
                 /\ UNCHANGED <<tokens, user, result>>
<1>1. PICK got \in {cache[req[r].id], "error"} :
          \/ FromJson(got) # None /\ Conclude(r, FromJson(got))
          \/ /\ FromJson(got) = None
             /\ at' = [at EXCEPT ![r] = "dbGet"]
             /\ UNCHANGED <<tokens, user, result>>
  BY Zenon DEF CacheGet, Get, CacheKey, RedisError
<1>2. CASE FromJson(got) # None /\ Conclude(r, FromJson(got))
  <2>1. got \in Passwords /\ FromJson(got) = got
    BY <1>2 DEF FromJson
  <2>2. got = cache[req[r].id]
    BY <1>1, <2>1, ReadsAssumption
  <2>3. Conclude(r, cache[req[r].id])
    BY <1>2, <2>1, <2>2, Zenon
  <2> QED
    BY <2>1, <2>2, <2>3, Zenon DEF CacheGet
<1>3. CASE FromJson(got) = None
  BY <1>1, <1>3 DEF CacheGet
<1> QED
  BY <1>1, <1>2, <1>3, Zenon

(* Every step of the requests, of the database and of Redis keeps the types *)
(* of the variables, and a request holds a row only while it refills.       *)
LEMMA TypeStep ==
    ASSUME TypeOK, [Next]_vars PROVE TypeOK'
<1> USE ReadsAssumption DEF TypeOK, Ops, Results
<1>1. ASSUME NEW r \in Requests, LoginByPassword(r) PROVE TypeOK'
  BY <1>1 DEF LoginByPassword, Begin
<1>2. ASSUME NEW r \in Requests, GetUserInfo(r) PROVE TypeOK'
  BY <1>2 DEF GetUserInfo, Begin
<1>0. ASSUME NEW r \in Requests, NEW x, Conclude(r, x)
      PROVE  /\ tokens' \subseteq Ids
             /\ at' = [at EXCEPT ![r] = "idle"] /\ user' = [user EXCEPT ![r] = None]
             /\ result' \in [Requests -> Results]
  <2>1. PICK c \in Results : result' = [result EXCEPT ![r] = c]
    BY <1>0 DEF Conclude, VerifyPassword
  <2> QED
    BY <1>0, <2>1 DEF Conclude
<1>3. ASSUME NEW r \in Requests, CacheGet(r) PROVE TypeOK'
  <2>1. UNCHANGED <<rows, cache, late, req, existed, dbFailed>> /\ at[r] = "cacheGet"
    BY <1>3, CacheGetOutcomes
  <2>2. CASE Conclude(r, cache[req[r].id])
    BY <1>0, <2>1, <2>2
  <2>3. CASE at' = [at EXCEPT ![r] = "dbGet"] /\ UNCHANGED <<tokens, user, result>>
    BY <2>1, <2>3
  <2> QED
    BY <1>3, <2>2, <2>3, CacheGetOutcomes
<1>4. ASSUME NEW r \in Requests, DbGet(r) PROVE TypeOK'
  <2>0. UNCHANGED <<rows, cache, late, req, existed>>
    BY <1>4 DEF DbGet
  <2>1. CASE Conclude(r, None) /\ UNCHANGED dbFailed
    BY <1>0, <2>0, <2>1
  <2>2. ASSUME NEW code \in {"INTERNAL_ERROR", "exception"}, Fail(r, code),
               dbFailed' = [dbFailed EXCEPT ![r] = TRUE]
        PROVE  TypeOK'
    BY <2>0, <2>2 DEF Fail
  <2>3. CASE /\ rows[req[r].id] # None
             /\ at' = [at EXCEPT ![r] = "cacheSet"]
             /\ user' = [user EXCEPT ![r] = rows[req[r].id]]
             /\ UNCHANGED <<tokens, result, dbFailed>>
    BY <2>0, <2>3
  <2> QED
    BY <1>4, <2>1, <2>2, <2>3 DEF DbGet, GetUserById
<1>5. ASSUME NEW r \in Requests, CacheSet(r) PROVE TypeOK'
  <2>1. /\ Conclude(r, user[r])
        /\ cache' \in [Ids -> Passwords \cup {None, Corrupt}]
        /\ late' \subseteq Ids \X Passwords
        /\ UNCHANGED <<rows, req, existed, dbFailed>>
    BY <1>5 DEF CacheSet, Set, CacheKey
  <2> QED
    BY <1>0, <2>1
<1>6. ASSUME NEW i \in Ids, Insert(i) \/ Expire(i) \/ Damage(i) PROVE TypeOK'
  BY <1>6 DEF Insert, Expire, Damage
<1>7. CASE LateSet
  BY <1>7 DEF LateSet
<1>8. CASE UNCHANGED vars
  BY <1>8 DEF vars
<1> QED
  BY <1>1, <1>2, <1>3, <1>4, <1>5, <1>6, <1>7, <1>8 DEF Next, Resume

(* Every step keeps the invariant. <1>2 is the common end of all requests:  *)
(* what GetUserById returned is the row.                                    *)
LEMMA InvStep ==
    ASSUME IInv, [Next]_vars PROVE IInv'
<1> USE ReadsAssumption DEF IInv
<1>0. TypeOK'
  BY TypeStep
<1>1. ASSUME NEW r \in Requests,
             NEW op \in Ops, NEW i \in Ids, NEW x \in Passwords, Begin(r, op, i, x),
             op = "GetUserInfo" => i \in tokens
      PROVE  IInv'
  <2> USE <1>1 DEF TypeOK, Begin
  <2>1. CacheIsRow' /\ LateIsRow' /\ TokenHasRow'
    BY DEF CacheIsRow, LateIsRow, TokenHasRow
  <2>2. HandIsRow'
    BY DEF HandIsRow
  <2>3. ExistsForGood'
    BY DEF ExistsForGood, TokenHasRow
  <2>4. LoginProved' /\ ExistingUserFound' /\ RedisNeverFatal'
    BY DEF LoginProved, ExistingUserFound, RedisNeverFatal
  <2> QED
    BY <1>0, <2>1, <2>2, <2>3, <2>4
<1>2. ASSUME NEW r \in Requests, NEW x \in Passwords \cup {None}, Conclude(r, x),
             at[r] # "idle", x = rows[req[r].id],
             UNCHANGED <<rows, req, existed, dbFailed>>
      PROVE  /\ TokenHasRow' /\ ExistsForGood' /\ HandIsRow'
             /\ LoginProved' /\ ExistingUserFound' /\ RedisNeverFatal'
  <2> USE <1>2 DEF TypeOK, Conclude, VerifyPassword
  <2>1. TokenHasRow'
    BY DEF TokenHasRow
  <2>2. ExistsForGood' /\ HandIsRow'
    BY DEF ExistsForGood, HandIsRow
  <2>3. LoginProved'
    BY DEF LoginProved
  <2>4. ExistingUserFound'
    BY DEF ExistingUserFound, ExistsForGood, Ops
  <2>5. RedisNeverFatal'
    BY DEF RedisNeverFatal
  <2> QED
    BY <2>1, <2>2, <2>3, <2>4, <2>5
<1>3. ASSUME NEW r \in Requests, CacheGet(r) PROVE IInv'
  <2>1. UNCHANGED <<rows, cache, late, req, existed, dbFailed>> /\ at[r] = "cacheGet"
    BY <1>3, CacheGetOutcomes
  <2>2. CacheIsRow' /\ LateIsRow'
    BY <2>1 DEF CacheIsRow, LateIsRow
  <2>3. CASE cache[req[r].id] \in Passwords /\ Conclude(r, cache[req[r].id])
    <3>1. cache[req[r].id] = rows[req[r].id]
      BY <2>3 DEF CacheIsRow, TypeOK
    <3> QED
      BY <1>0, <1>2, <2>1, <2>2, <2>3, <3>1
  <2>4. CASE at' = [at EXCEPT ![r] = "dbGet"] /\ UNCHANGED <<tokens, user, result>>
    <3>1. TokenHasRow' /\ ExistsForGood' /\ HandIsRow'
      BY <2>1, <2>4 DEF TokenHasRow, ExistsForGood, HandIsRow, TypeOK
    <3>2. LoginProved' /\ ExistingUserFound' /\ RedisNeverFatal'
      BY <2>1, <2>4 DEF LoginProved, ExistingUserFound, RedisNeverFatal
    <3> QED
      BY <1>0, <2>2, <3>1, <3>2
  <2> QED
    BY <1>3, <2>3, <2>4, CacheGetOutcomes
<1>4. ASSUME NEW r \in Requests, DbGet(r) PROVE IInv'
  <2>1. UNCHANGED <<rows, cache, late, req, existed>> /\ at[r] = "dbGet"
    BY <1>4 DEF DbGet
  <2>2. CacheIsRow' /\ LateIsRow'
    BY <2>1 DEF CacheIsRow, LateIsRow
  <2>3. ASSUME NEW code \in {"INTERNAL_ERROR", "exception"}, Fail(r, code),
               dbFailed' = [dbFailed EXCEPT ![r] = TRUE]
        PROVE  IInv'
    <3> USE <2>1, <2>3 DEF TypeOK, Fail
    <3>1. TokenHasRow' /\ ExistsForGood' /\ HandIsRow'
      BY DEF TokenHasRow, ExistsForGood, HandIsRow
    <3>2. LoginProved' /\ ExistingUserFound' /\ RedisNeverFatal'
      BY DEF LoginProved, ExistingUserFound, RedisNeverFatal
    <3> QED
      BY <1>0, <2>2, <3>1, <3>2
  <2>4. CASE rows[req[r].id] = None /\ Conclude(r, None) /\ UNCHANGED dbFailed
    BY <1>0, <1>2, <2>1, <2>2, <2>4
  <2>5. CASE /\ at' = [at EXCEPT ![r] = "cacheSet"]
             /\ user' = [user EXCEPT ![r] = rows[req[r].id]]
             /\ UNCHANGED <<tokens, result, dbFailed>>
    <3> USE <2>1, <2>5 DEF TypeOK
    <3>1. TokenHasRow' /\ ExistsForGood' /\ HandIsRow'
      BY DEF TokenHasRow, ExistsForGood, HandIsRow
    <3>2. LoginProved' /\ ExistingUserFound' /\ RedisNeverFatal'
      BY DEF LoginProved, ExistingUserFound, RedisNeverFatal
    <3> QED
      BY <1>0, <2>2, <3>1, <3>2
  <2> QED
    BY <1>4, <2>3, <2>4, <2>5 DEF DbGet, GetUserById
<1>5. ASSUME NEW r \in Requests, CacheSet(r) PROVE IInv'
  <2>1. /\ UNCHANGED <<rows, req, existed, dbFailed>> /\ at[r] = "cacheSet"
        /\ Conclude(r, user[r]) /\ Set(req[r].id, user[r])
    BY <1>5 DEF CacheSet
  <2>2. user[r] = rows[req[r].id] /\ user[r] \in Passwords \cup {None}
    BY <2>1 DEF HandIsRow, TypeOK
  <2>3. CacheIsRow'
    BY <2>1, <2>2 DEF CacheIsRow, Set, CacheKey, TypeOK
  <2>4. LateIsRow'
    BY <2>1, <2>2 DEF LateIsRow, Set, CacheKey, TypeOK
  <2> QED
    BY <1>0, <1>2, <2>1, <2>2, <2>3, <2>4
<1>6. ASSUME NEW i \in Ids, Insert(i) PROVE IInv'
  <2> USE <1>6 DEF TypeOK, Insert
  <2>1. \A j \in Ids : rows[j] # None => rows'[j] = rows[j]
    OBVIOUS
  <2>2. CacheIsRow' /\ LateIsRow' /\ HandIsRow'
    BY <2>1 DEF CacheIsRow, LateIsRow, HandIsRow
  <2>3. TokenHasRow' /\ ExistsForGood'
    BY <2>1 DEF TokenHasRow, ExistsForGood
  <2>4. LoginProved' /\ ExistingUserFound' /\ RedisNeverFatal'
    BY <2>1 DEF LoginProved, ExistingUserFound, RedisNeverFatal
  <2> QED
    BY <1>0, <2>2, <2>3, <2>4
<1>7. ASSUME NEW i \in Ids, Expire(i) \/ Damage(i) PROVE IInv'
  <2>1. CacheIsRow'
    BY <1>7 DEF CacheIsRow, TypeOK, Expire, Damage
  <2>2. UNCHANGED <<rows, late, tokens, req, at, user, result, existed, dbFailed>>
    BY <1>7 DEF Expire, Damage
  <2> QED
    BY <1>0, <2>1, <2>2 DEF LateIsRow, HandIsRow, TokenHasRow, ExistsForGood,
       LoginProved, ExistingUserFound, RedisNeverFatal
<1>8. CASE LateSet
  <2>1. CacheIsRow' /\ LateIsRow'
    BY <1>8 DEF CacheIsRow, LateIsRow, TypeOK, LateSet
  <2>2. UNCHANGED <<rows, tokens, req, at, user, result, existed, dbFailed>>
    BY <1>8 DEF LateSet
  <2> QED
    BY <1>0, <2>1, <2>2 DEF HandIsRow, TokenHasRow, ExistsForGood,
       LoginProved, ExistingUserFound, RedisNeverFatal
<1>9. CASE UNCHANGED vars
  BY <1>0, <1>9 DEF vars, CacheIsRow, LateIsRow, HandIsRow, TokenHasRow, ExistsForGood,
     LoginProved, ExistingUserFound, RedisNeverFatal
<1>10. ASSUME NEW r \in Requests, LoginByPassword(r) \/ GetUserInfo(r) PROVE IInv'
  BY <1>1, <1>10 DEF LoginByPassword, GetUserInfo, TypeOK, Ops
<1> QED
  BY <1>3, <1>4, <1>5, <1>6, <1>7, <1>8, <1>9, <1>10 DEF Next, Resume

--------------------------------------------------------------------------------
(* The inductive invariant of UserReads holds in every reachable state.     *)
THEOREM Invariance == Spec => []IInv
<1>1. Init => IInv
  BY ReadsAssumption DEF Init, IInv, TypeOK, Ops, Results, CacheIsRow, LateIsRow, HandIsRow,
     TokenHasRow, ExistsForGood, LoginProved, ExistingUserFound, RedisNeverFatal
<1>2. IInv /\ [Next]_vars => IInv'
  BY InvStep
<1> QED
  BY <1>1, <1>2, PTL DEF Spec

(* Types of the state of GetUserById and its callers.                       *)
THEOREM TypeCorrect == Spec => []TypeOK
<1>1. IInv => TypeOK
  BY DEF IInv
<1> QED
  BY <1>1, Invariance, PTL

(* A readable cache entry is the row it was copied from, whatever refills,  *)
(* expiries and late SETs come in between (UserRepository::GetUserById).    *)
THEOREM CacheIsRowAlways == Spec => []CacheIsRow
<1>1. IInv => CacheIsRow
  BY DEF IInv
<1> QED
  BY <1>1, Invariance, PTL

(* AuthService::LoginByPassword succeeds only with the password of an       *)
(* existing user, also when the hash comes from the cache.                  *)
THEOREM LoginProvedAlways == Spec => []LoginProved
<1>1. IInv => LoginProved
  BY DEF IInv
<1> QED
  BY <1>1, Invariance, PTL

(* No request is told that a user who existed when it began does not exist. *)
THEOREM ExistingUserFoundAlways == Spec => []ExistingUserFound
<1>1. IInv => ExistingUserFound
  BY DEF IInv
<1> QED
  BY <1>1, Invariance, PTL

(* Only a failure of the database makes a read fail.                        *)
THEOREM RedisNeverFatalAlways == Spec => []RedisNeverFatal
<1>1. IInv => RedisNeverFatal
  BY DEF IInv
<1> QED
  BY <1>1, Invariance, PTL

================================================================================
