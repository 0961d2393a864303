------------------------------ MODULE UserAccounts -----------------------------
(***************************************************************************)
(* Registration and code login: AuthService::SendCode and LoginByCode,     *)
(* BasicUserService::Register, the VerificationCodeRepository (Redis) and  *)
(* the users table behind UserRepository / UserDao (PostgreSQL).           *)
(*                                                                         *)
(* Each request is a coroutine; every co_await of Redis or of the database *)
(* is an action of its own, so requests interleave between the check of a  *)
(* phone number and the insertion of its user, between the choice of a     *)
(* code and its storage, and so on. An INSERT that is reported as failed   *)
(* may have taken effect; a SET that is reported as failed may also take   *)
(* effect later (module RedisCell).                                        *)
(***************************************************************************)
EXTENDS Naturals, FiniteSets

CONSTANTS
    Requests,    \* request slots, each used for one request after another
    Phones,
    Codes,       \* what the verification code generator can produce
    Ids,         \* user ids (bounds how many users there can be)
    MaxLate,     \* bounds how many failed SETs are outstanding at a time
    None

ASSUME AccountsAssumption ==
    /\ None \notin Phones \cup Codes \cup Ids
    /\ MaxLate \in Nat

VARIABLES
    users,       \* users[i]: the phone number of user i, None if no such row
    stored,      \* stored[u][p]: the code in Redis for usage u and phone p
    late,        \* <<u, p, k>>: a failed SET of k that may still take effect
    sent,        \* <<u, p, k>>: code k was sent to phone p for usage u
    tokens,      \* <<p, i>>: a token of user i was issued to whoever has phone p
    registered,  \* <<p, i>>: Register of p was answered with success and id i
    req,         \* req[r]: the request of r
    at,          \* at[r]: the await that r is suspended in
    fresh,       \* fresh[r]: the code that r has generated and Redis has not
                 \* stored, or the user id that it is about to insert
    result,      \* result[r]: the ErrorCode r ended with, or "exception"
    valid        \* valid[r]: Redis has had the code of r since r began

vars == <<users, stored, late, sent, tokens, registered, req, at, fresh, result, valid>>
world == <<users, stored, late, sent, tokens, registered>>

Usages  == {"USER_REGISTER", "USER_LOGIN", "RESET_PASSWORD"}
Ops     == {"SendCode", "LoginByCode", "Register"}
Places  == {"idle", "getCode", "find", "save", "create"}
Results == {"none", "SUCCESS", "INTERNAL_ERROR", "INVALID_ARGUMENT", "USER_NOT_FOUND",
            "USER_ALREADY_EXISTS", "VERIFICATION_CODE_MISMATCH", "exception"}
Triples == Usages \X Phones \X Codes

(* What a slot holds between two requests. *)
NoRequest == [op |-> "none", usage |-> "UNKNOWN", phone |-> None, code |-> None]

(* Types; and a request that awaits SaveCode has a code to save, one that   *)
(* awaits CreateUser has an id to insert.                                   *)
TypeOK ==
    /\ users \in [Ids -> Phones \cup {None}]
    /\ stored \in [Usages -> [Phones -> Codes \cup {None}]]
    /\ sent \subseteq Triples /\ late \subseteq Triples
    /\ tokens \subseteq Phones \X Ids
    /\ registered \subseteq Phones \X Ids
    /\ req \in [Requests -> [op : Ops, usage : Usages, phone : Phones,
                             code : Codes \cup {None}] \cup {NoRequest}]
    /\ \A r \in Requests : req[r] = NoRequest <=> at[r] = "idle"
    /\ at \in [Requests -> Places]
    /\ fresh \in [Requests -> Codes \cup Ids \cup {None}]
    /\ \A r \in Requests : /\ at[r] = "save" => fresh[r] \in Codes
                           /\ at[r] = "create" => fresh[r] \in Ids
    /\ result \in [Requests -> Results]
    /\ valid \in [Requests -> BOOLEAN]

Init ==
    /\ users = [i \in Ids |-> None]
    /\ stored = [u \in Usages |-> [p \in Phones |-> None]]
    /\ late = {} /\ sent = {} /\ tokens = {} /\ registered = {}
    /\ req = [r \in Requests |-> NoRequest]
    /\ at = [r \in Requests |-> "idle"]
    /\ fresh = [r \in Requests |-> None]
    /\ result = [r \in Requests |-> "none"]
    /\ valid = [r \in Requests |-> FALSE]

--------------------------------------------------------------------------------
(* Control of one request. *)

Goto(r, place)  == at' = [at EXCEPT ![r] = place] /\ UNCHANGED <<req, result>>
Return(r, code) == /\ at' = [at EXCEPT ![r] = "idle"]
                   /\ req' = [req EXCEPT ![r] = NoRequest]
                   /\ result' = [result EXCEPT ![r] = code]

Begin(r, op, u, p, k, place) ==
    /\ at[r] = "idle"
    /\ at' = [at EXCEPT ![r] = place]
    /\ req' = [req EXCEPT ![r] = [op |-> op, usage |-> u, phone |-> p, code |-> k]]
    /\ result' = [result EXCEPT ![r] = "none"]

(* The outcomes of GetUserByPhoneNumber for p: the user, no user, or an     *)
(* error value or exception of the connection.                              *)
GetUserByPhoneNumber(p) ==
    {"dberror", "exception"} \cup
    IF \E i \in Ids : users[i] = p THEN {"found"} ELSE {"absent"}

(* Mutant: the query does not select by phone number. *)
UserOf_Any(p) == CHOOSE i \in Ids : users[i] # None

UserOf(p) == CHOOSE i \in Ids : users[i] = p

--------------------------------------------------------------------------------
(* AuthService::SendCode *)

(* Mutant: the generated code is sent but not handed to SaveCode. *)
GenerateAndSend_Lost(r, u, p) ==
    /\ \E k \in Codes : sent' = sent \cup {<<u, p, k>>}
    /\ fresh' = [fresh EXCEPT ![r] = None]

(* Generate(6), send it (simulated by a log line), go on to SaveCode. *)
GenerateAndSend(r, u, p) ==
    /\ \E k \in Codes : /\ fresh' = [fresh EXCEPT ![r] = k]
                        /\ sent' = sent \cup {<<u, p, k>>}

SendCode(r) ==
    \E u \in Usages \cup {"UNKNOWN"}, p \in Phones :
        /\ \/ /\ u = "USER_REGISTER"
              /\ Begin(r, "SendCode", u, p, None, "save")
              /\ GenerateAndSend(r, u, p)
           \/ /\ u \in {"USER_LOGIN", "RESET_PASSWORD"}
              /\ Begin(r, "SendCode", u, p, None, "find")
              /\ fresh' = [fresh EXCEPT ![r] = None]
              /\ UNCHANGED sent
           \/ /\ u = "UNKNOWN" /\ at[r] = "idle"
              /\ Return(r, "INVALID_ARGUMENT")
              /\ fresh' = [fresh EXCEPT ![r] = None]
              /\ UNCHANGED sent
        /\ UNCHANGED <<users, stored, late, tokens, registered>>

(* Mutant: should_send_code is not heeded. *)
SendCodeFound_Always(r) ==
    /\ at[r] = "find" /\ req[r].op = "SendCode"
    /\ GenerateAndSend(r, req[r].usage, req[r].phone)
    /\ Goto(r, "save")
    /\ UNCHANGED <<users, stored, late, tokens, registered>>

SendCodeFound(r) ==
    LET q == req[r] IN
    /\ at[r] = "find" /\ q.op = "SendCode"
    /\ \E out \in GetUserByPhoneNumber(q.phone) :
          \/ out = "found" /\ GenerateAndSend(r, q.usage, q.phone) /\ Goto(r, "save")
          \/ /\ out # "found"
             /\ Return(r, CASE out = "dberror"   -> "INTERNAL_ERROR"
                            [] out = "exception" -> "exception"
                            [] out = "absent"    -> "SUCCESS")
             /\ UNCHANGED <<fresh, sent>>
    /\ UNCHANGED <<users, stored, late, tokens, registered>>

(* Mutant: one key for all usages. *)
GetKeyPrefixForUsage_Same(u) == "USER_REGISTER"

(* One key prefix per usage. *)
GetKeyPrefixForUsage(u) == u

Store(u, p, k) == stored' = [stored EXCEPT ![GetKeyPrefixForUsage(u)][p] = k]

(* SaveCode and the end of SendCode: the SET takes effect now, later or     *)
(* never; a failure that Redis reports is logged, and SendCode answers      *)
(* success.                                                                 *)
SaveCode(r) ==
    LET q == req[r] IN
    /\ at[r] = "save"
    /\ \/ /\ Store(q.usage, q.phone, fresh[r])
          /\ fresh' = [fresh EXCEPT ![r] = None]
          /\ UNCHANGED late
       \/ /\ Cardinality(late) < MaxLate
          /\ late' = late \cup {<<q.usage, q.phone, fresh[r]>>}
          /\ UNCHANGED <<stored, fresh>>
       \/ UNCHANGED <<stored, late, fresh>>
    /\ Return(r, "SUCCESS")
    /\ UNCHANGED <<users, sent, tokens, registered>>

(* External: Redis executes a SET after its failure was reported; another   *)
(* SET of the same code may be left.                                        *)
LateSave ==
    \E e \in late :
        /\ Store(e[1], e[2], e[3])
        /\ late' \in {late, late \ {e}}
        /\ UNCHANGED <<users, sent, tokens, registered, req, at, fresh, result>>

(* Redis expires a code (external; SaveCode sets EX 300). *)
ExpireCode(u, p) ==
    /\ stored[u][p] # None
    /\ stored' = [stored EXCEPT ![u][p] = None]
    /\ UNCHANGED <<users, late, sent, tokens, registered, req, at, fresh, result>>

--------------------------------------------------------------------------------
(* AuthService::LoginByCode and BasicUserService::Register *)

(* The caller may present any code; None stands for one never generated. *)
Login(r) ==
    \E p \in Phones, k \in Codes \cup {None} :
        /\ Begin(r, "LoginByCode", "USER_LOGIN", p, k, "getCode")
        /\ fresh' = [fresh EXCEPT ![r] = None]
        /\ UNCHANGED world

Register(r) ==
    \E p \in Phones, k \in Codes \cup {None} :
        /\ Begin(r, "Register", "USER_REGISTER", p, k, "getCode")
        /\ fresh' = [fresh EXCEPT ![r] = None]
        /\ UNCHANGED world

(* GetCode: the stored code, or nothing when the key is absent or expired,  *)
(* or when Redis fails.                                                     *)
GetCode(u, p) == {stored[GetKeyPrefixForUsage(u)][p], None}

(* Mutant: an unreadable code counts as no objection. *)
CheckCode_FailOpen(r) ==
    LET q == req[r] IN
    /\ at[r] = "getCode"
    /\ \E got \in GetCode(q.usage, q.phone) :
          IF got = q.code \/ got = None THEN Goto(r, "find")
          ELSE Return(r, "VERIFICATION_CODE_MISMATCH")
    /\ UNCHANGED <<world, fresh>>

(* The head of LoginByCode and of Register: anything but the code of the    *)
(* request ends it.                                                         *)
CheckCode(r) ==
    LET q == req[r] IN
    /\ at[r] = "getCode"
    /\ \E got \in GetCode(q.usage, q.phone) :
          IF got # None /\ got = q.code THEN Goto(r, "find")
          ELSE Return(r, "VERIFICATION_CODE_MISMATCH")
    /\ UNCHANGED <<world, fresh>>

(* GenerateToken: a token names the user id it is given, here noted with    *)
(* the phone whose holder receives it.                                      *)
GenerateToken(p, i) == <<p, i>>

LoginFound(r) ==
    LET p == req[r].phone IN
    /\ at[r] = "find" /\ req[r].op = "LoginByCode"
    /\ \E out \in GetUserByPhoneNumber(p) :
          /\ Return(r, CASE out = "dberror"   -> "INTERNAL_ERROR"
                         [] out = "exception" -> "exception"
                         [] out = "absent"    -> "USER_NOT_FOUND"
                         [] out = "found"     -> "SUCCESS")
          /\ tokens' = IF out = "found" THEN tokens \cup {GenerateToken(p, UserOf(p))} ELSE tokens
    /\ UNCHANGED <<users, stored, late, sent, registered, fresh>>

(* GenerateUUID never repeats an id that is in use. *)
UnusedIds == {i \in Ids : users[i] = None /\ \A r \in Requests :
                                               at[r] = "create" => fresh[r] # i}

RegisterFound(r) ==
    /\ at[r] = "find" /\ req[r].op = "Register"
    /\ \E out \in GetUserByPhoneNumber(req[r].phone) :
          \/ /\ out = "absent"
             /\ \E i \in UnusedIds : fresh' = [fresh EXCEPT ![r] = i]
             /\ Goto(r, "create")
          \/ /\ out # "absent"
             /\ Return(r, CASE out = "dberror"   -> "INTERNAL_ERROR"
                            [] out = "exception" -> "exception"
                            [] out = "found"     -> "USER_ALREADY_EXISTS")
             /\ UNCHANGED fresh
    /\ UNCHANGED world

(* Mutant: the table has no UNIQUE on phone_number. *)
PhoneFree_Always(p) == TRUE

(* phone_number ... UNIQUE in init_users.sql. *)
PhoneFree(p) == \A i \in Ids : users[i] # p

(* CreateUser and the end of Register: inserted; or refused by the UNIQUE   *)
(* constraint or another SQL error; or the connection is lost, before or    *)
(* after the row was written, which libpq reports as an error result or     *)
(* PQConnection as an exception.                                            *)
CreateUser(r) ==
    LET q == req[r]
        insert == /\ PhoneFree(q.phone)
                  /\ users' = [users EXCEPT ![fresh[r]] = q.phone]
    IN
    /\ at[r] = "create"
    /\ \/ /\ insert
          /\ registered' = registered \cup {<<q.phone, fresh[r]>>}
          /\ Return(r, "SUCCESS")
       \/ /\ insert \/ UNCHANGED users
          /\ Return(r, "INTERNAL_ERROR") \/ Return(r, "exception")
          /\ UNCHANGED registered
    /\ fresh' = [fresh EXCEPT ![r] = None]
    /\ UNCHANGED <<stored, late, sent, tokens>>

--------------------------------------------------------------------------------
Resume(r) == \/ SendCodeFound(r) \/ SaveCode(r) \/ CheckCode(r) \/ LoginFound(r)
             \/ RegisterFound(r) \/ CreateUser(r)

Step ==
    \/ \E r \in Requests : SendCode(r) \/ Login(r) \/ Register(r) \/ Resume(r)
    \/ \E u \in Usages, p \in Phones : ExpireCode(u, p)
    \/ LateSave

(* History: Redis has the code that r presents under the key of its purpose *)
(* and phone.                                                               *)
Present(r) ==
    /\ req[r].code # None
    /\ stored[GetKeyPrefixForUsage(req[r].usage)][req[r].phone] = req[r].code

Observe == valid' = [r \in Requests |-> at'[r] # "idle" /\ (valid[r] \/ Present(r)')]

Next == Step /\ Observe

Spec == Init /\ [][Next]_vars

--------------------------------------------------------------------------------
(* Properties. *)

(* Of several registrations of one phone number that race between the check *)
(* in Register and the INSERT, at most one is answered with success, and    *)
(* the id it was given is the row that the phone number has.                *)
RegisteredOnce ==
    /\ \A i, j \in Ids : users[i] = users[j] /\ users[i] # None => i = j
    /\ \A e \in registered : users[e[2]] = e[1]

(* A success of Register or LoginByCode was earned with a code that was     *)
(* sent to the same phone for the same purpose, and that Redis had for them *)
(* at some moment between the call and its answer: not with one that had    *)
(* expired, had been replaced or could not be read throughout. (A code that *)
(* expires after it was checked still counts.)                              *)
CodeWasValid ==
    [][\A r \in Requests :
          at[r] # "idle" /\ req[r].op # "SendCode" /\ result'[r] = "SUCCESS" =>
              valid[r] /\ <<req[r].usage, req[r].phone, req[r].code>> \in sent]_vars

(* A token names the user who owns the phone it was issued for. *)
TokenNamesOwner == \A e \in tokens : users[e[2]] = e[1]

(* A login or reset code goes only to the phone of a registered user        *)
(* ("suppressed ... for non-existent user" in SendCode).                    *)
NoCodeForStrangers ==
    \A e \in sent : e[1] # "USER_REGISTER" => \E i \in Ids : users[i] = e[2]

(* "Verification code saved to Redis successfully": what SendCode logs      *)
(* before it answers success.                                               *)
SavedBeforeSuccess ==
    \A r \in Requests :
        at[r] = "idle" /\ result[r] = "SUCCESS" => fresh[r] = None

================================================================================
