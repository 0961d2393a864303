-------------------------- MODULE UserAccountsProofs ---------------------------
(***************************************************************************)
(* Proofs about UserAccounts for any number of requests, phones, codes and *)
(* users.                                                                  *)
(*                                                                         *)
(* Besides the properties themselves the proof needs to know where a code  *)
(* can come from: whatever Redis has stored, may still store (a late SET)  *)
(* or is about to be given was sent, and a request that is past CheckCode  *)
(* presented such a code while Redis had it. And it needs to know that an  *)
(* id that a request is about to insert belongs to that request alone, so  *)
(* that a row, once written, is never written again.                       *)
(***************************************************************************)
EXTENDS UserAccounts, TLAPS

(* What is known of a request from the await it is in: it has no result     *)
(* yet, the code it saves was sent, past CheckCode it has presented a code  *)
(* that was sent, and the id it is about to insert has no row.              *)
RequestOK(r) ==
    LET q == req[r] IN
    /\ at[r] # "idle" => result[r] = "none"
    /\ at[r] = "save" => q.op = "SendCode" /\ <<q.usage, q.phone, fresh[r]>> \in sent
    /\ at[r] = "getCode" => q.op # "SendCode"
    /\ at[r] = "create" => q.op = "Register" /\ users[fresh[r]] = None
    /\ at[r] \in {"find", "create"} /\ q.op # "SendCode" =>
           <<q.usage, q.phone, q.code>> \in sent
RequestsOK == \A r \in Requests : RequestOK(r)

(* Since a request that is past CheckCode began, Redis has had its code. *)
PastCheck ==
    \A r \in Requests :
        at[r] \in {"find", "create"} /\ req[r].op # "SendCode" => valid[r]

(* No two requests are about to insert the same id. *)
FreshIds ==
    \A r, s \in Requests :
        at[r] = "create" /\ at[s] = "create" /\ fresh[r] = fresh[s] => r = s

(* Every code that is stored, or may be stored later, was sent. *)
StoredWasSent ==
    \A u \in Usages, p \in Phones :
        stored[u][p] # None => <<u, p, stored[u][p]>> \in sent
LateWasSent == late \subseteq sent

WorldOK ==
    /\ StoredWasSent /\ LateWasSent
    /\ RegisteredOnce /\ TokenNamesOwner /\ NoCodeForStrangers

IInv == TypeOK /\ RequestsOK /\ PastCheck /\ FreshIds /\ WorldOK

--------------------------------------------------------------------------------
(* A SET of a code changes the entry of its usage and phone and no other.   *)
LEMMA StoreEffect ==
    ASSUME stored \in [Usages -> [Phones -> Codes \cup {None}]],
           NEW u \in Usages, NEW p \in Phones, NEW k \in Codes \cup {None},
           Store(u, p, k)
    PROVE  /\ stored' \in [Usages -> [Phones -> Codes \cup {None}]]
           /\ \A v \in Usages, q \in Phones :
                 stored'[v][q] = IF v = u /\ q = p THEN k ELSE stored[v][q]
<1>1. stored' = [stored EXCEPT ![u] = [stored[u] EXCEPT ![p] = k]]
  BY DEF Store, GetKeyPrefixForUsage
<1>2. [stored[u] EXCEPT ![p] = k] \in [Phones -> Codes \cup {None}]
  OBVIOUS
<1> QED
  BY <1>1, <1>2

(* Every step of the requests and of Redis keeps the types, and a slot      *)
(* holds a request exactly while it is not idle. <1>1, <1>2 and <1>3 are    *)
(* the three ways in which a request can go on.                             *)
LEMMA TypeStep ==
    ASSUME TypeOK, [Next]_vars PROVE TypeOK'
<1> USE AccountsAssumption
<1> DEFINE Req    == [op : Ops, usage : Usages, phone : Phones, code : Codes \cup {None}]
           ReqsOK == /\ req \in [Requests -> Req \cup {NoRequest}]
                     /\ \A r \in Requests : req[r] = NoRequest <=> at[r] = "idle"
                     /\ at \in [Requests -> Places]
                     /\ result \in [Requests -> Results]
           FreshOK == /\ fresh \in [Requests -> Codes \cup Ids \cup {None}]
                      /\ \A r \in Requests : /\ at[r] = "save" => fresh[r] \in Codes
                                             /\ at[r] = "create" => fresh[r] \in Ids
           TablesOK == /\ users \in [Ids -> Phones \cup {None}]
                       /\ stored \in [Usages -> [Phones -> Codes \cup {None}]]
                       /\ sent \subseteq Triples /\ late \subseteq Triples
                       /\ tokens \subseteq Phones \X Ids
                       /\ registered \subseteq Phones \X Ids
<1>0. (ReqsOK /\ FreshOK /\ TablesOK) /\ (ReqsOK' /\ FreshOK' /\ TablesOK' => TypeOK')
  <2>1. valid' \in [Requests -> BOOLEAN]
    BY DEF TypeOK, Next, Observe, vars
  <2> QED
    BY <2>1 DEF TypeOK
<1>1. ASSUME NEW r \in Requests, NEW op \in Ops, NEW u \in Usages, NEW p \in Phones,
             NEW k \in Codes \cup {None}, NEW place \in Places \ {"idle"},
             Begin(r, op, u, p, k, place)
      PROVE  ReqsOK'
  <2>1. [op |-> op, usage |-> u, phone |-> p, code |-> k] \in Req
    OBVIOUS
  <2>2. NoRequest \notin Req
    BY DEF NoRequest, Ops
  <2> HIDE DEF Req
  <2> QED
    BY <1>0, <1>1, <2>1, <2>2 DEF Begin, Places, Results
<1>2. ASSUME NEW r \in Requests, NEW place \in Places \ {"idle"}, at[r] # "idle",
             Goto(r, place)
      PROVE  ReqsOK'
  BY <1>0, <1>2 DEF Goto, Places
<1>3. ASSUME NEW r \in Requests, NEW code \in Results, Return(r, code)
      PROVE  ReqsOK'
  BY <1>0, <1>3 DEF Return, Places
<1>4. ASSUME NEW r \in Requests, at[r] # "idle"
      PROVE  req[r] \in Req
  BY <1>0, <1>4
<1>5. ASSUME NEW r \in Requests, SendCode(r) PROVE TypeOK'
  <2>1. PICK u \in Usages \cup {"UNKNOWN"}, p \in Phones :
          /\ \/ /\ u = "USER_REGISTER"
                /\ Begin(r, "SendCode", u, p, None, "save")
                /\ GenerateAndSend(r, u, p)
             \/ /\ u \in {"USER_LOGIN", "RESET_PASSWORD"}
                /\ Begin(r, "SendCode", u, p, None, "find")
                /\ fresh' = [fresh EXCEPT ![r] = None]
                /\ UNCHANGED sent
             \/ /\ Return(r, "INVALID_ARGUMENT")
                /\ fresh' = [fresh EXCEPT ![r] = None]
                /\ UNCHANGED sent
          /\ UNCHANGED <<users, stored, late, tokens, registered>>
    BY <1>5 DEF SendCode
  <2>2. CASE u = "USER_REGISTER" /\ Begin(r, "SendCode", u, p, None, "save")
             /\ GenerateAndSend(r, u, p)
    <3>1. PICK k \in Codes : fresh' = [fresh EXCEPT ![r] = k] /\ sent' = sent \cup {<<u, p, k>>}
      BY <2>2 DEF GenerateAndSend
    <3>2. ReqsOK'
      BY <1>1, <2>2 DEF Ops, Usages, Places
    <3>3. FreshOK'
      BY <1>0, <2>2, <3>1 DEF Begin
    <3>4. TablesOK'
      BY <1>0, <2>1, <2>2, <3>1 DEF Triples, Usages
    <3> QED
      BY <1>0, <3>2, <3>3, <3>4
  <2>3. CASE u \in {"USER_LOGIN", "RESET_PASSWORD"} /\ Begin(r, "SendCode", u, p, None, "find")
             /\ fresh' = [fresh EXCEPT ![r] = None] /\ UNCHANGED sent
    <3>1. ReqsOK'
      BY <1>1, <2>3 DEF Ops, Usages, Places
    <3>2. FreshOK' /\ TablesOK'
      BY <1>0, <2>1, <2>3 DEF Begin
    <3> QED
      BY <1>0, <3>1, <3>2
  <2>4. CASE Return(r, "INVALID_ARGUMENT") /\ fresh' = [fresh EXCEPT ![r] = None]
             /\ UNCHANGED sent
    <3>1. ReqsOK'
      BY <1>3, <2>4 DEF Results
    <3>2. FreshOK' /\ TablesOK'
      BY <1>0, <2>1, <2>4 DEF Return
    <3> QED
      BY <1>0, <3>1, <3>2
  <2> QED
    BY <2>1, <2>2, <2>3, <2>4
<1>6. ASSUME NEW r \in Requests, Login(r) \/ Register(r) PROVE TypeOK'
  <2>1. PICK op \in {"LoginByCode", "Register"}, u \in {"USER_LOGIN", "USER_REGISTER"},
             p \in Phones, k \in Codes \cup {None} :
          /\ Begin(r, op, u, p, k, "getCode")
          /\ fresh' = [fresh EXCEPT ![r] = None]
          /\ UNCHANGED world
    BY <1>6 DEF Login, Register
  <2>2. ReqsOK'
    BY <1>1, <2>1 DEF Ops, Usages, Places
  <2>3. FreshOK' /\ TablesOK'
    BY <1>0, <2>1 DEF Begin, world
  <2> QED
    BY <1>0, <2>2, <2>3
<1>7. ASSUME NEW r \in Requests, SendCodeFound(r) PROVE TypeOK'
  <2>0. at[r] = "find" /\ UNCHANGED <<users, stored, late, tokens, registered>>
    BY <1>7 DEF SendCodeFound
  <2>1. CASE GenerateAndSend(r, req[r].usage, req[r].phone) /\ Goto(r, "save")
    <3>1. PICK k \in Codes : /\ fresh' = [fresh EXCEPT ![r] = k]
                             /\ sent' = sent \cup {<<req[r].usage, req[r].phone, k>>}
      BY <2>1 DEF GenerateAndSend
    <3>2. ReqsOK'
      BY <1>2, <2>0, <2>1 DEF Places
    <3>3. FreshOK'
      BY <1>0, <2>1, <3>1 DEF Goto
    <3>4. TablesOK'
      BY <1>0, <1>4, <2>0, <3>1 DEF Triples
    <3> QED
      BY <1>0, <3>2, <3>3, <3>4
  <2>2. ASSUME NEW code \in Results, Return(r, code), UNCHANGED <<fresh, sent>>
        PROVE  TypeOK'
    <3>1. ReqsOK'
      BY <1>3, <2>2
    <3>2. FreshOK' /\ TablesOK'
      BY <1>0, <2>0, <2>2 DEF Return
    <3> QED
      BY <1>0, <3>1, <3>2
  <2> QED
    BY <1>7, <2>1, <2>2 DEF SendCodeFound, GetUserByPhoneNumber, Results
<1>8. ASSUME NEW r \in Requests, SaveCode(r) PROVE TypeOK'
  <2>0. /\ at[r] = "save" /\ fresh[r] \in Codes /\ Return(r, "SUCCESS")
        /\ UNCHANGED <<users, sent, tokens, registered>>
    BY <1>0, <1>8 DEF SaveCode
  <2>1. ReqsOK'
    BY <1>3, <2>0 DEF Results
  <2>2. fresh' \in {fresh, [fresh EXCEPT ![r] = None]}
    BY <1>8 DEF SaveCode
  <2>3. FreshOK'
    BY <1>0, <2>0, <2>2 DEF Return
  <2>4. req[r].usage \in Usages /\ req[r].phone \in Phones
    BY <1>4, <2>0
  <2>5. late' \subseteq Triples
    BY <1>0, <1>8, <2>0, <2>4 DEF SaveCode, Triples
  <2>6. stored' \in [Usages -> [Phones -> Codes \cup {None}]]
    BY <1>0, <1>8, <2>0, <2>4, StoreEffect DEF SaveCode
  <2> QED
    BY <1>0, <2>0, <2>1, <2>3, <2>5, <2>6
<1>9. ASSUME NEW r \in Requests, CheckCode(r) PROVE TypeOK'
  <2>0. at[r] = "getCode" /\ UNCHANGED <<world, fresh>>
    BY <1>9 DEF CheckCode
  <2>1. Goto(r, "find") \/ Return(r, "VERIFICATION_CODE_MISMATCH")
    BY <1>9 DEF CheckCode
  <2>2. ReqsOK'
    BY <1>2, <1>3, <2>0, <2>1 DEF Results, Places
  <2>3. FreshOK' /\ TablesOK'
    BY <1>0, <2>0, <2>1 DEF Goto, Return, world
  <2> QED
    BY <1>0, <2>2, <2>3
<1>10. ASSUME NEW r \in Requests, LoginFound(r) PROVE TypeOK'
  <2>0. at[r] = "find" /\ UNCHANGED <<users, stored, late, sent, registered, fresh>>
    BY <1>10 DEF LoginFound
  <2>1. \E code \in Results : Return(r, code)
    BY <1>10 DEF LoginFound, GetUserByPhoneNumber, Results
  <2>2. ReqsOK'
    BY <1>3, <2>1
  <2>3. FreshOK'
    BY <1>0, <2>0, <2>1 DEF Return
  <2>4. req[r].phone \in Phones
    BY <1>4, <2>0
  <2>5. ASSUME \E i \in Ids : users[i] = req[r].phone
        PROVE  UserOf(req[r].phone) \in Ids
    BY <2>5 DEF UserOf
  <2>6. tokens' \subseteq Phones \X Ids
    BY <1>0, <1>10, <2>4, <2>5 DEF LoginFound, GetUserByPhoneNumber, GenerateToken
  <2> QED
    BY <1>0, <2>0, <2>2, <2>3, <2>6
<1>11. ASSUME NEW r \in Requests, RegisterFound(r) PROVE TypeOK'
  <2>0. at[r] = "find" /\ UNCHANGED world
    BY <1>11 DEF RegisterFound
  <2>1. TablesOK'
    BY <1>0, <2>0 DEF world
  <2>2. ASSUME NEW i \in UnusedIds, fresh' = [fresh EXCEPT ![r] = i], Goto(r, "create")
        PROVE  TypeOK'
    <3>1. ReqsOK'
      BY <1>2, <2>0, <2>2 DEF Places
    <3>2. FreshOK'
      BY <1>0, <2>2 DEF Goto, UnusedIds
    <3> QED
      BY <1>0, <2>1, <3>1, <3>2
  <2>3. ASSUME NEW code \in Results, Return(r, code), UNCHANGED fresh
        PROVE  TypeOK'
    <3>1. ReqsOK'
      BY <1>3, <2>3
    <3>2. FreshOK'
      BY <1>0, <2>3 DEF Return
    <3> QED
      BY <1>0, <2>1, <3>1, <3>2
  <2> QED
    BY <1>11, <2>2, <2>3 DEF RegisterFound, GetUserByPhoneNumber, Results
<1>12. ASSUME NEW r \in Requests, CreateUser(r) PROVE TypeOK'
  <2>0. /\ at[r] = "create" /\ fresh[r] \in Ids
        /\ fresh' = [fresh EXCEPT ![r] = None]
        /\ UNCHANGED <<stored, late, sent, tokens>>
    BY <1>0, <1>12 DEF CreateUser
  <2>1. \E code \in Results : Return(r, code)
    BY <1>12 DEF CreateUser, Results
  <2>2. ReqsOK'
    BY <1>3, <2>1
  <2>3. FreshOK'
    BY <1>0, <2>0, <2>1 DEF Return
  <2>4. req[r].phone \in Phones
    BY <1>4, <2>0
  <2>5. TablesOK'
    BY <1>0, <1>12, <2>0, <2>4 DEF CreateUser
  <2> QED
    BY <1>0, <2>2, <2>3, <2>5
<1>13. ASSUME NEW u \in Usages, NEW p \in Phones, ExpireCode(u, p) PROVE TypeOK'
  BY <1>0, <1>13 DEF ExpireCode
<1>14. CASE LateSave
  BY <1>0, <1>14, StoreEffect DEF LateSave, Triples
<1>15. CASE UNCHANGED vars
  BY <1>0, <1>15 DEF vars
<1> QED
  BY <1>5, <1>6, <1>7, <1>8, <1>9, <1>10, <1>11, <1>12, <1>13, <1>14, <1>15
     DEF Next, Step, Resume

(* A step of r leaves the other requests as they were: it touches only its  *)
(* own slot, never takes back a code that was sent, and never inserts the   *)
(* id that another request is about to insert.                              *)
LEMMA OthersUndisturbed ==
    ASSUME IInv, NEW r \in Requests, sent \subseteq sent',
           \A s \in Requests \ {r} : /\ at'[s] = at[s] /\ req'[s] = req[s]
                                     /\ fresh'[s] = fresh[s] /\ result'[s] = result[s],
           \/ UNCHANGED users
           \/ at[r] = "create" /\ \A i \in Ids \ {fresh[r]} : users'[i] = users[i],
           RequestOK(r)',
           at'[r] = "create" => \A s \in Requests : at[s] = "create" => fresh[s] # fresh'[r]
    PROVE  RequestsOK' /\ FreshIds'
<1>1. ASSUME NEW s \in Requests, s # r PROVE RequestOK(s)'
  <2>1. /\ at'[s] = at[s] /\ req'[s] = req[s]
        /\ fresh'[s] = fresh[s] /\ result'[s] = result[s]
    BY <1>1
  <2>2. at[s] = "create" => users'[fresh[s]] = users[fresh[s]]
    BY <1>1 DEF IInv, FreshIds, TypeOK
  <2>3. RequestOK(s)
    BY DEF IInv, RequestsOK
  <2> QED
    BY <2>1, <2>2, <2>3 DEF RequestOK
<1>2. RequestsOK'
  BY <1>1 DEF RequestsOK
<1>3. FreshIds'
  BY DEF IInv, FreshIds
<1> QED
  BY <1>2, <1>3

(* Begin, Goto and Return touch only the slot of the request. *)
LEMMA OwnSlot ==
    ASSUME NEW r, NEW s, s # r,
           \/ \E op, u, p, k, place : Begin(r, op, u, p, k, place)
           \/ \E place : Goto(r, place)
           \/ \E code : Return(r, code),
           TypeOK, s \in Requests
    PROVE  at'[s] = at[s] /\ req'[s] = req[s] /\ result'[s] = result[s]
BY DEF TypeOK, Begin, Goto, Return

(* A request that has returned, or that has just begun and awaits GetCode   *)
(* or the user of a SendCode, has promised nothing yet.                     *)
LEMMA NothingPromised ==
    ASSUME TypeOK, NEW r \in Requests,
           \/ \E code : Return(r, code)
           \/ \E op, u, p, k : op # "SendCode" /\ Begin(r, op, u, p, k, "getCode")
           \/ \E u, p, k : Begin(r, "SendCode", u, p, k, "find")
    PROVE  RequestOK(r)' /\ at'[r] # "create"
BY DEF TypeOK, Begin, Return, RequestOK

(* Only a CheckCode that finds the code of the request in Redis lets a      *)
(* login or a registration go on, and then the code is there.               *)
LEMMA CheckedNow ==
    ASSUME TypeOK, Step, NEW r \in Requests,
           at'[r] \in {"find", "create"}, req'[r].op # "SendCode"
    PROVE  (at[r] \in {"find", "create"} /\ req[r].op # "SendCode") \/ Present(r)'
<1>1. ASSUME UNCHANGED <<req, at>> PROVE at[r] \in {"find", "create"} /\ req[r].op # "SendCode"
  BY <1>1
<1>2. ASSUME NEW s \in Requests, s # r,
             \/ \E op, u, p, k, place : Begin(s, op, u, p, k, place)
             \/ \E place : Goto(s, place)
             \/ \E code : Return(s, code)
      PROVE  at[r] \in {"find", "create"} /\ req[r].op # "SendCode"
  BY <1>2, OwnSlot
<1>3. ASSUME NEW s \in Requests, SendCode(s)
      PROVE  at[r] \in {"find", "create"} /\ req[r].op # "SendCode"
  <2>1. \/ \E u, p, k, place : Begin(s, "SendCode", u, p, k, place)
        \/ \E code : Return(s, code)
    BY <1>3 DEF SendCode
  <2>2. s # r
    BY <2>1 DEF Begin, Return, TypeOK
  <2> QED
    BY <1>2, <2>1, <2>2
<1>4. ASSUME NEW s \in Requests, Login(s) \/ Register(s)
      PROVE  at[r] \in {"find", "create"} /\ req[r].op # "SendCode"
  <2>1. \E op, u, p, k : Begin(s, op, u, p, k, "getCode")
    BY <1>4 DEF Login, Register
  <2>2. s # r
    BY <2>1 DEF Begin, TypeOK
  <2> QED
    BY <1>2, <2>1, <2>2
<1>5. ASSUME NEW s \in Requests, SendCodeFound(s)
      PROVE  at[r] \in {"find", "create"} /\ req[r].op # "SendCode"
  <2>1. Goto(s, "save") \/ \E code : Return(s, code)
    BY <1>5 DEF SendCodeFound
  <2>2. s # r
    BY <2>1 DEF Goto, Return, TypeOK
  <2> QED
    BY <1>2, <2>1, <2>2
<1>6. ASSUME NEW s \in Requests, SaveCode(s) \/ LoginFound(s) \/ CreateUser(s)
      PROVE  at[r] \in {"find", "create"} /\ req[r].op # "SendCode"
  <2>1. \E code : Return(s, code)
    BY <1>6 DEF SaveCode, LoginFound, CreateUser
  <2>2. s # r
    BY <2>1 DEF Return, TypeOK
  <2> QED
    BY <1>2, <2>1, <2>2
<1>7. ASSUME NEW s \in Requests, RegisterFound(s)
      PROVE  at[r] \in {"find", "create"} /\ req[r].op # "SendCode"
  <2>1. /\ at[s] = "find" /\ req[s].op = "Register"
        /\ Goto(s, "create") \/ \E code : Return(s, code)
    BY <1>7 DEF RegisterFound
  <2> QED
    BY <1>2, <2>1
<1>8. ASSUME NEW s \in Requests, CheckCode(s)
      PROVE  (at[r] \in {"find", "create"} /\ req[r].op # "SendCode") \/ Present(r)'
  <2>1. \/ /\ req[s].code # None /\ req[s].code = stored[req[s].usage][req[s].phone]
           /\ Goto(s, "find") /\ UNCHANGED stored
        \/ Return(s, "VERIFICATION_CODE_MISMATCH")
    BY <1>8 DEF CheckCode, GetCode, GetKeyPrefixForUsage, world
  <2>2. CASE s = r
    <3>1. ~Return(r, "VERIFICATION_CODE_MISMATCH")
      BY DEF Return, TypeOK
    <3> QED
      BY <2>1, <2>2, <3>1 DEF Present, GetKeyPrefixForUsage, Goto
  <2>3. CASE s # r
    BY <1>2, <2>1, <2>3
  <2> QED
    BY <2>2, <2>3
<1> QED
  BY <1>1, <1>3, <1>4, <1>5, <1>6, <1>7, <1>8 DEF Step, Resume, ExpireCode, LateSave

(* Observe remembers it for as long as the request lasts. *)
LEMMA PastCheckStep ==
    ASSUME TypeOK, PastCheck, [Next]_vars PROVE PastCheck'
<1>1. CASE Next
  <2> SUFFICES ASSUME NEW r \in Requests,
                      at'[r] \in {"find", "create"}, req'[r].op # "SendCode"
               PROVE  valid'[r]
    BY DEF PastCheck
  <2>1. valid[r] \/ Present(r)'
    BY <1>1, CheckedNow DEF Next, PastCheck
  <2> QED
    BY <1>1, <2>1 DEF Next, Observe
<1>2. CASE UNCHANGED vars
  BY <1>2 DEF vars, PastCheck
<1> QED
  BY <1>1, <1>2

(* The code of a SendCode goes to the phone of a registered user, or for a  *)
(* registration; what is known of the tables stays true.                    *)
LEMMA SendingKeepsWorld ==
    ASSUME IInv, NEW u \in Usages, NEW p \in Phones, NEW k \in Codes,
           u = "USER_REGISTER" \/ \E i \in Ids : users[i] = p,
           sent' = sent \cup {<<u, p, k>>},
           UNCHANGED <<users, stored, late, tokens, registered>>
    PROVE  WorldOK'
<1> USE DEF IInv, WorldOK
<1>1. StoredWasSent' /\ LateWasSent'
  BY DEF StoredWasSent, LateWasSent
<1>2. RegisteredOnce' /\ TokenNamesOwner'
  BY DEF RegisteredOnce, TokenNamesOwner
<1>3. NoCodeForStrangers'
  BY DEF NoCodeForStrangers
<1> QED
  BY <1>1, <1>2, <1>3

(* Storing a code that was sent, now or late, keeps stored codes sent ones. *)
LEMMA StoringKeepsSent ==
    ASSUME TypeOK, StoredWasSent, UNCHANGED sent,
           NEW u \in Usages, NEW p \in Phones, NEW k \in Codes,
           <<u, p, k>> \in sent, Store(u, p, k)
    PROVE  StoredWasSent'
<1>1. \A v \in Usages, q \in Phones :
          stored'[v][q] = IF v = u /\ q = p THEN k ELSE stored[v][q]
  BY StoreEffect DEF TypeOK
<1> SUFFICES ASSUME NEW v \in Usages, NEW q \in Phones, stored'[v][q] # None
             PROVE  <<v, q, stored'[v][q]>> \in sent
  BY DEF StoredWasSent
<1>2. CASE v = u /\ q = p
  BY <1>1, <1>2
<1>3. CASE ~(v = u /\ q = p)
  BY <1>1, <1>3 DEF StoredWasSent
<1> QED
  BY <1>2, <1>3

(* Every step keeps the invariant. *)
LEMMA InvStep ==
    ASSUME IInv, [Next]_vars PROVE IInv'
<1> USE AccountsAssumption
<1>0. TypeOK /\ TypeOK' /\ PastCheck'
  BY TypeStep, PastCheckStep DEF IInv
<1>1. ASSUME UNCHANGED world PROVE WorldOK'
  BY <1>1 DEF IInv, WorldOK, world, StoredWasSent, LateWasSent, RegisteredOnce,
              TokenNamesOwner, NoCodeForStrangers
<1>2. ASSUME NEW r \in Requests, at[r] # "idle"
      PROVE  /\ req[r].op \in Ops /\ req[r].usage \in Usages
             /\ req[r].phone \in Phones /\ req[r].code \in Codes \cup {None}
  BY <1>0, <1>2 DEF TypeOK
<1>3. ASSUME NEW r \in Requests, SendCode(r) PROVE IInv'
  <2>1. PICK u \in Usages \cup {"UNKNOWN"}, p \in Phones :
          /\ \/ /\ u = "USER_REGISTER"
                /\ Begin(r, "SendCode", u, p, None, "save")
                /\ GenerateAndSend(r, u, p)
             \/ /\ u \in {"USER_LOGIN", "RESET_PASSWORD"}
                /\ Begin(r, "SendCode", u, p, None, "find")
                /\ fresh' = [fresh EXCEPT ![r] = None]
                /\ UNCHANGED sent
             \/ /\ Return(r, "INVALID_ARGUMENT")
                /\ fresh' = [fresh EXCEPT ![r] = None]
                /\ UNCHANGED sent
          /\ UNCHANGED <<users, stored, late, tokens, registered>>
    BY <1>3 DEF SendCode
  <2>2. CASE u = "USER_REGISTER" /\ Begin(r, "SendCode", u, p, None, "save")
             /\ GenerateAndSend(r, u, p)
    <3>1. PICK k \in Codes : fresh' = [fresh EXCEPT ![r] = k] /\ sent' = sent \cup {<<u, p, k>>}
      BY <2>2 DEF GenerateAndSend
    <3>2. RequestOK(r)' /\ at'[r] # "create"
      BY <1>0, <2>2, <3>1 DEF RequestOK, Begin, TypeOK
    <3>3. \A s \in Requests \ {r} : fresh'[s] = fresh[s]
      BY <1>0, <3>1 DEF TypeOK
    <3>4. \A s \in Requests \ {r} : at'[s] = at[s] /\ req'[s] = req[s] /\ result'[s] = result[s]
      BY <1>0, <2>2, OwnSlot
    <3>5. RequestsOK' /\ FreshIds'
      BY <2>1, <3>1, <3>2, <3>3, <3>4, OthersUndisturbed
    <3>6. WorldOK'
      BY <2>1, <2>2, <3>1, SendingKeepsWorld DEF Usages
    <3> QED
      BY <1>0, <3>5, <3>6 DEF IInv
  <2>3. CASE /\ \/ Begin(r, "SendCode", u, p, None, "find")
                \/ Return(r, "INVALID_ARGUMENT")
             /\ fresh' = [fresh EXCEPT ![r] = None] /\ UNCHANGED sent
    <3>1. RequestOK(r)' /\ at'[r] # "create"
      BY <1>0, <2>3, NothingPromised
    <3>2. \A s \in Requests \ {r} : fresh'[s] = fresh[s]
      BY <1>0, <2>3 DEF TypeOK
    <3>3. \A s \in Requests \ {r} : at'[s] = at[s] /\ req'[s] = req[s] /\ result'[s] = result[s]
      BY <1>0, <2>3, OwnSlot
    <3>4. RequestsOK' /\ FreshIds'
      BY <2>1, <2>3, <3>1, <3>2, <3>3, OthersUndisturbed
    <3> QED
      BY <1>0, <1>1, <2>1, <2>3, <3>4 DEF IInv, world
  <2> QED
    BY <2>1, <2>2, <2>3
<1>4. ASSUME NEW r \in Requests, Login(r) \/ Register(r) PROVE IInv'
  <2>1. PICK op \in {"LoginByCode", "Register"}, u \in {"USER_LOGIN", "USER_REGISTER"},
             p \in Phones, k \in Codes \cup {None} :
          /\ Begin(r, op, u, p, k, "getCode")
          /\ fresh' = [fresh EXCEPT ![r] = None]
          /\ UNCHANGED world
    BY <1>4 DEF Login, Register
  <2>2. RequestOK(r)' /\ at'[r] # "create"
    BY <1>0, <2>1, NothingPromised
  <2>3. \A s \in Requests \ {r} : fresh'[s] = fresh[s]
    BY <1>0, <2>1 DEF TypeOK
  <2>4. \A s \in Requests \ {r} : at'[s] = at[s] /\ req'[s] = req[s] /\ result'[s] = result[s]
    BY <1>0, <2>1, OwnSlot
  <2>5. RequestsOK' /\ FreshIds'
    BY <2>1, <2>2, <2>3, <2>4, OthersUndisturbed DEF world
  <2> QED
    BY <1>0, <1>1, <2>1, <2>5 DEF IInv
<1>5. ASSUME NEW r \in Requests, SendCodeFound(r) PROVE IInv'
  <2>0. /\ at[r] = "find" /\ req[r].op = "SendCode"
        /\ UNCHANGED <<users, stored, late, tokens, registered>>
    BY <1>5 DEF SendCodeFound
  <2>1. CASE /\ \E i \in Ids : users[i] = req[r].phone
             /\ GenerateAndSend(r, req[r].usage, req[r].phone) /\ Goto(r, "save")
    <3>1. PICK k \in Codes : /\ fresh' = [fresh EXCEPT ![r] = k]
                             /\ sent' = sent \cup {<<req[r].usage, req[r].phone, k>>}
      BY <2>1 DEF GenerateAndSend
    <3>2. RequestOK(r)' /\ at'[r] # "create"
      BY <1>0, <2>0, <2>1, <3>1 DEF IInv, RequestsOK, RequestOK, Goto, TypeOK
    <3>3. \A s \in Requests \ {r} : fresh'[s] = fresh[s]
      BY <1>0, <3>1 DEF TypeOK
    <3>4. \A s \in Requests \ {r} : at'[s] = at[s] /\ req'[s] = req[s] /\ result'[s] = result[s]
      BY <1>0, <2>1, OwnSlot
    <3>5. RequestsOK' /\ FreshIds'
      BY <2>0, <3>1, <3>2, <3>3, <3>4, OthersUndisturbed
    <3>6. WorldOK'
      BY <1>2, <2>0, <2>1, <3>1, SendingKeepsWorld
    <3> QED
      BY <1>0, <3>5, <3>6 DEF IInv
  <2>2. ASSUME NEW code, Return(r, code), UNCHANGED <<fresh, sent>>
        PROVE  IInv'
    <3>1. RequestOK(r)' /\ at'[r] # "create"
      BY <1>0, <2>2, NothingPromised
    <3>2. \A s \in Requests \ {r} : at'[s] = at[s] /\ req'[s] = req[s] /\ result'[s] = result[s]
      BY <1>0, <2>2, OwnSlot
    <3>3. RequestsOK' /\ FreshIds'
      BY <2>0, <2>2, <3>1, <3>2, OthersUndisturbed
    <3> QED
      BY <1>0, <1>1, <2>0, <2>2, <3>3 DEF IInv, world
  <2> QED
    BY <1>5, <2>1, <2>2 DEF SendCodeFound, GetUserByPhoneNumber
<1>6. ASSUME NEW r \in Requests, SaveCode(r) PROVE IInv'
  <2>1. /\ at[r] = "save" /\ Return(r, "SUCCESS")
        /\ UNCHANGED <<users, sent, tokens, registered>>
        /\ fresh' \in {fresh, [fresh EXCEPT ![r] = None]}
    BY <1>6 DEF SaveCode
  <2>2. /\ <<req[r].usage, req[r].phone, fresh[r]>> \in sent /\ fresh[r] \in Codes
        /\ req[r].usage \in Usages /\ req[r].phone \in Phones
    BY <1>0, <1>2, <2>1 DEF IInv, RequestsOK, RequestOK, TypeOK
  <2>3. RequestOK(r)' /\ at'[r] # "create"
    BY <1>0, <2>1, NothingPromised
  <2>4. \A s \in Requests \ {r} : fresh'[s] = fresh[s]
    BY <1>0, <2>1 DEF TypeOK
  <2>5. \A s \in Requests \ {r} : at'[s] = at[s] /\ req'[s] = req[s] /\ result'[s] = result[s]
    BY <1>0, <2>1, OwnSlot
  <2>6. RequestsOK' /\ FreshIds'
    BY <2>1, <2>3, <2>4, <2>5, OthersUndisturbed
  <2>7. LateWasSent'
    BY <1>6, <2>1, <2>2 DEF SaveCode, LateWasSent, IInv, WorldOK
  <2>8. StoredWasSent'
    <3>1. CASE Store(req[r].usage, req[r].phone, fresh[r])
      BY <1>0, <2>1, <2>2, <3>1, StoringKeepsSent DEF IInv, WorldOK
    <3>2. CASE UNCHANGED stored
      BY <2>1, <3>2 DEF StoredWasSent, IInv, WorldOK
    <3> QED
      BY <1>6, <3>1, <3>2 DEF SaveCode
  <2>9. RegisteredOnce' /\ TokenNamesOwner' /\ NoCodeForStrangers'
    BY <2>1 DEF IInv, WorldOK, RegisteredOnce, TokenNamesOwner, NoCodeForStrangers
  <2> QED
    BY <1>0, <2>6, <2>7, <2>8, <2>9 DEF IInv, WorldOK
<1>7. ASSUME NEW r \in Requests, CheckCode(r) PROVE IInv'
  <2>0. at[r] = "getCode" /\ UNCHANGED <<world, fresh>>
    BY <1>7 DEF CheckCode
  <2>1. \/ /\ req[r].code # None /\ req[r].code = stored[req[r].usage][req[r].phone]
           /\ Goto(r, "find")
        \/ Return(r, "VERIFICATION_CODE_MISMATCH")
    BY <1>7 DEF CheckCode, GetCode, GetKeyPrefixForUsage
  <2>2. req[r].usage \in Usages /\ req[r].phone \in Phones
    BY <1>2, <2>0
  <2>3. RequestOK(r)' /\ at'[r] # "create"
    <3>1. CASE /\ req[r].code # None /\ req[r].code = stored[req[r].usage][req[r].phone]
               /\ Goto(r, "find")
      <4>1. <<req[r].usage, req[r].phone, req[r].code>> \in sent
        BY <2>2, <3>1 DEF StoredWasSent, IInv, WorldOK
      <4> QED
        BY <1>0, <2>0, <3>1, <4>1 DEF Goto, RequestOK, RequestsOK, IInv, TypeOK, world
    <3>2. CASE Return(r, "VERIFICATION_CODE_MISMATCH")
      BY <1>0, <3>2, NothingPromised
    <3> QED
      BY <2>1, <3>1, <3>2
  <2>4. \A s \in Requests \ {r} : at'[s] = at[s] /\ req'[s] = req[s] /\ result'[s] = result[s]
    BY <1>0, <2>1, OwnSlot
  <2>5. RequestsOK' /\ FreshIds'
    BY <2>0, <2>3, <2>4, OthersUndisturbed DEF world
  <2> QED
    BY <1>0, <1>1, <2>0, <2>5 DEF IInv
<1>8. ASSUME NEW r \in Requests, LoginFound(r) PROVE IInv'
  <2>0. at[r] = "find" /\ UNCHANGED <<users, stored, late, sent, registered, fresh>>
    BY <1>8 DEF LoginFound
  <2>1. \E code : Return(r, code)
    BY <1>8 DEF LoginFound
  <2>2. RequestOK(r)' /\ at'[r] # "create"
    BY <1>0, <2>1, NothingPromised
  <2>3. \A s \in Requests \ {r} : at'[s] = at[s] /\ req'[s] = req[s] /\ result'[s] = result[s]
    BY <1>0, <2>1, OwnSlot
  <2>4. RequestsOK' /\ FreshIds'
    BY <2>0, <2>2, <2>3, OthersUndisturbed
  <2>5. TokenNamesOwner'
    <3>1. ASSUME \E i \in Ids : users[i] = req[r].phone
          PROVE  users[UserOf(req[r].phone)] = req[r].phone
      BY <3>1 DEF UserOf
    <3>2. \/ UNCHANGED tokens
          \/ /\ \E i \in Ids : users[i] = req[r].phone
             /\ tokens' = tokens \cup {<<req[r].phone, UserOf(req[r].phone)>>}
      BY <1>8 DEF LoginFound, GetUserByPhoneNumber, GenerateToken
    <3> QED
      BY <2>0, <3>1, <3>2 DEF TokenNamesOwner, IInv, WorldOK
  <2>6. StoredWasSent' /\ LateWasSent' /\ RegisteredOnce' /\ NoCodeForStrangers'
    BY <2>0 DEF IInv, WorldOK, StoredWasSent, LateWasSent, RegisteredOnce, NoCodeForStrangers
  <2> QED
    BY <1>0, <2>4, <2>5, <2>6 DEF IInv, WorldOK
<1>9. ASSUME NEW r \in Requests, RegisterFound(r) PROVE IInv'
  <2>0. at[r] = "find" /\ req[r].op = "Register" /\ UNCHANGED world
    BY <1>9 DEF RegisterFound
  <2>1. ASSUME NEW i \in UnusedIds, fresh' = [fresh EXCEPT ![r] = i], Goto(r, "create")
        PROVE  IInv'
    <3>1. RequestOK(r)' /\ fresh'[r] = i
      BY <1>0, <2>0, <2>1
         DEF Goto, RequestOK, RequestsOK, IInv, TypeOK, world, UnusedIds
    <3>2. \A s \in Requests \ {r} : fresh'[s] = fresh[s]
      BY <1>0, <2>1 DEF TypeOK
    <3>3. \A s \in Requests \ {r} : at'[s] = at[s] /\ req'[s] = req[s] /\ result'[s] = result[s]
      BY <1>0, <2>1, OwnSlot
    <3>4. \A s \in Requests : at[s] = "create" => fresh[s] # i
      BY DEF UnusedIds
    <3>5. RequestsOK' /\ FreshIds'
      BY <2>0, <3>1, <3>2, <3>3, <3>4, OthersUndisturbed DEF world
    <3> QED
      BY <1>0, <1>1, <2>0, <3>5 DEF IInv
  <2>2. ASSUME NEW code, Return(r, code), UNCHANGED fresh
        PROVE  IInv'
    <3>1. RequestOK(r)' /\ at'[r] # "create"
      BY <1>0, <2>2, NothingPromised
    <3>2. \A s \in Requests \ {r} : at'[s] = at[s] /\ req'[s] = req[s] /\ result'[s] = result[s]
      BY <1>0, <2>2, OwnSlot
    <3>3. RequestsOK' /\ FreshIds'
      BY <2>0, <2>2, <3>1, <3>2, OthersUndisturbed DEF world
    <3> QED
      BY <1>0, <1>1, <2>0, <3>3 DEF IInv
  <2> QED
    BY <1>9, <2>1, <2>2 DEF RegisterFound
<1>10. ASSUME NEW r \in Requests, CreateUser(r) PROVE IInv'
  <2>0. /\ at[r] = "create" /\ fresh[r] \in Ids /\ req[r].phone \in Phones
        /\ users[fresh[r]] = None
        /\ fresh' = [fresh EXCEPT ![r] = None]
        /\ UNCHANGED <<stored, late, sent, tokens>>
    BY <1>0, <1>2, <1>10 DEF CreateUser, TypeOK, IInv, RequestsOK, RequestOK
  <2>1. \E code : Return(r, code)
    BY <1>10 DEF CreateUser
  <2>2. RequestOK(r)' /\ at'[r] # "create"
    BY <1>0, <2>1, NothingPromised
  <2>3. \A s \in Requests \ {r} : fresh'[s] = fresh[s]
    BY <1>0, <2>0 DEF TypeOK
  <2>4. \A s \in Requests \ {r} : at'[s] = at[s] /\ req'[s] = req[s] /\ result'[s] = result[s]
    BY <1>0, <2>1, OwnSlot
  <2>5. \/ UNCHANGED <<users, registered>>
        \/ /\ PhoneFree(req[r].phone)
           /\ users' = [users EXCEPT ![fresh[r]] = req[r].phone]
           /\ registered' \in {registered, registered \cup {<<req[r].phone, fresh[r]>>}}
    BY <1>10 DEF CreateUser
  <2>6. UNCHANGED users \/ \A i \in Ids \ {fresh[r]} : users'[i] = users[i]
    BY <1>0, <2>5 DEF TypeOK
  <2>7. RequestsOK' /\ FreshIds'
    BY <2>0, <2>2, <2>3, <2>4, <2>6, OthersUndisturbed
  <2>8. \A i \in Ids : users[i] # None => users'[i] = users[i]
    BY <2>0, <2>6
  <2>9. StoredWasSent' /\ LateWasSent'
    BY <2>0 DEF IInv, WorldOK, StoredWasSent, LateWasSent
  <2>10. TokenNamesOwner' /\ NoCodeForStrangers'
    BY <1>0, <2>0, <2>8
       DEF IInv, WorldOK, TokenNamesOwner, NoCodeForStrangers, TypeOK, Triples
  <2>11. RegisteredOnce'
    <3>0. RegisteredOnce
      BY DEF IInv, WorldOK
    <3>1. CASE UNCHANGED <<users, registered>>
      BY <3>0, <3>1 DEF RegisteredOnce
    <3>2. CASE /\ PhoneFree(req[r].phone)
               /\ users' = [users EXCEPT ![fresh[r]] = req[r].phone]
               /\ registered' \in {registered, registered \cup {<<req[r].phone, fresh[r]>>}}
      <4>1. /\ users'[fresh[r]] = req[r].phone
            /\ \A i \in Ids : users[i] # req[r].phone
        BY <1>0, <2>0, <3>2 DEF PhoneFree, TypeOK
      <4>2. \A i \in Ids \ {fresh[r]} : users'[i] = users[i]
        BY <1>0, <3>2 DEF TypeOK
      <4>3. \A i, j \in Ids : users'[i] = users'[j] /\ users'[i] # None => i = j
        BY <3>0, <4>1, <4>2 DEF RegisteredOnce
      <4>4. \A e \in registered : users'[e[2]] = e[1]
        BY <1>0, <2>8, <3>0 DEF RegisteredOnce, TypeOK
      <4> QED
        BY <3>2, <4>1, <4>3, <4>4 DEF RegisteredOnce
    <3> QED
      BY <2>5, <3>1, <3>2
  <2> QED
    BY <1>0, <2>7, <2>9, <2>10, <2>11 DEF IInv, WorldOK
<1>11. ASSUME UNCHANGED <<users, sent, tokens, registered, req, at, fresh, result>>
       PROVE  /\ RequestsOK' /\ FreshIds' /\ RegisteredOnce'
              /\ TokenNamesOwner' /\ NoCodeForStrangers'
  BY <1>11 DEF IInv, WorldOK, RequestsOK, RequestOK, FreshIds, RegisteredOnce,
               TokenNamesOwner, NoCodeForStrangers
<1>12. ASSUME NEW u \in Usages, NEW p \in Phones, ExpireCode(u, p) PROVE IInv'
  <2>1. StoredWasSent' /\ LateWasSent'
    BY <1>0, <1>12 DEF ExpireCode, IInv, WorldOK, StoredWasSent, LateWasSent, TypeOK
  <2> QED
    BY <1>0, <1>11, <1>12, <2>1 DEF ExpireCode, IInv, WorldOK
<1>13. CASE LateSave
  <2>1. PICK e \in late :
            /\ Store(e[1], e[2], e[3]) /\ late' \in {late, late \ {e}}
            /\ UNCHANGED <<users, sent, tokens, registered, req, at, fresh, result>>
    BY <1>13 DEF LateSave
  <2>2. e \in sent /\ e = <<e[1], e[2], e[3]>>
        /\ e[1] \in Usages /\ e[2] \in Phones /\ e[3] \in Codes
    BY <1>0 DEF IInv, WorldOK, LateWasSent, TypeOK, Triples
  <2>3. StoredWasSent'
    BY <1>0, <2>1, <2>2, StoringKeepsSent DEF IInv, WorldOK
  <2>4. LateWasSent'
    BY <2>1 DEF IInv, WorldOK, LateWasSent
  <2> QED
    BY <1>0, <1>11, <2>1, <2>3, <2>4 DEF IInv, WorldOK
<1>14. CASE UNCHANGED vars
  BY <1>0, <1>1, <1>11, <1>14 DEF vars, world, IInv
<1> QED
  BY <1>3, <1>4, <1>5, <1>6, <1>7, <1>8, <1>9, <1>10, <1>12, <1>13, <1>14
     DEF Next, Step, Resume

--------------------------------------------------------------------------------
(* The inductive invariant holds in every state of every behaviour of the   *)
(* requests, of the users table and of Redis.                               *)
THEOREM Invariance == Spec => []IInv
<1>1. Init => IInv
  <2> SUFFICES ASSUME Init PROVE IInv
    OBVIOUS
  <2>1. TypeOK
    BY DEF Init, TypeOK, Places, Results
  <2>2. RequestsOK /\ PastCheck /\ FreshIds
    BY DEF Init, RequestsOK, RequestOK, PastCheck, FreshIds
  <2>3. StoredWasSent /\ LateWasSent
    BY DEF Init, StoredWasSent, LateWasSent
  <2>4. RegisteredOnce /\ TokenNamesOwner /\ NoCodeForStrangers
    BY DEF Init, RegisteredOnce, TokenNamesOwner, NoCodeForStrangers
  <2> QED
    BY <2>1, <2>2, <2>3, <2>4 DEF IInv, WorldOK
<1>2. IInv /\ [Next]_vars => IInv'
  BY InvStep
<1> QED
  BY <1>1, <1>2, PTL DEF Spec

(* Types; a request that awaits SaveCode has a code to save, one that       *)
(* awaits CreateUser an id to insert.                                       *)
THEOREM TypeCorrect == Spec => []TypeOK
<1>1. IInv => TypeOK
  BY DEF IInv
<1> QED
  BY <1>1, Invariance, PTL

(* However registrations of one phone race between the check in Register    *)
(* and the INSERT, one of them at most succeeds, and the id it returns is   *)
(* the row of the phone ever after.                                         *)
THEOREM RegisteredOnceAlways == Spec => []RegisteredOnce
<1>1. IInv => RegisteredOnce
  BY DEF IInv, WorldOK
<1> QED
  BY <1>1, Invariance, PTL

(* A token of LoginByCode names the user who owns the phone, ever after. *)
THEOREM TokenNamesOwnerAlways == Spec => []TokenNamesOwner
<1>1. IInv => TokenNamesOwner
  BY DEF IInv, WorldOK
<1> QED
  BY <1>1, Invariance, PTL

(* SendCode sends a login or reset code only to a registered user's phone. *)
THEOREM NoCodeForStrangersAlways == Spec => []NoCodeForStrangers
<1>1. IInv => NoCodeForStrangers
  BY DEF IInv, WorldOK
<1> QED
  BY <1>1, Invariance, PTL

(* A step that ends a login or a registration with success is the step of a *)
(* request that is past CheckCode; no other step sets its result.           *)
LEMMA EarnedStep ==
    ASSUME IInv, [Next]_vars, NEW r \in Requests,
           at[r] # "idle", req[r].op # "SendCode", result'[r] = "SUCCESS"
    PROVE  valid[r] /\ <<req[r].usage, req[r].phone, req[r].code>> \in sent
<1>0. TypeOK /\ RequestOK(r) /\ result[r] = "none"
  BY DEF IInv, RequestsOK, RequestOK
<1>1. ASSUME NEW s \in Requests,
             SendCode(s) \/ Login(s) \/ Register(s) \/ Resume(s)
      PROVE  s = r
  <2>1. ASSUME SendCode(s) PROVE s = r
    BY <1>0, <2>1, OwnSlot DEF SendCode
  <2>2. ASSUME Login(s) \/ Register(s) PROVE s = r
    BY <1>0, <2>2, OwnSlot DEF Login, Register
  <2>3. ASSUME Resume(s) PROVE s = r
    <3>1. \/ \E place : Goto(s, place)
          \/ \E code : Return(s, code)
      BY <2>3 DEF Resume, SendCodeFound, SaveCode, CheckCode, LoginFound, RegisterFound,
                  CreateUser
    <3> QED
      BY <1>0, <3>1, OwnSlot
  <2> QED
    BY <1>1, <2>1, <2>2, <2>3
<1>2. SendCode(r) \/ Login(r) \/ Register(r) \/ Resume(r)
  <2>1. result' # result
    BY <1>0
  <2> QED
    BY <1>1, <2>1 DEF Next, Step, vars, ExpireCode, LateSave
<1>3. ~SendCode(r) /\ ~Login(r) /\ ~Register(r)
  BY DEF SendCode, Login, Register, Begin
<1>4. ~SendCodeFound(r) /\ ~SaveCode(r)
  BY <1>0 DEF SendCodeFound, SaveCode, RequestOK
<1>5. ~CheckCode(r)
  BY <1>0 DEF CheckCode, Goto, Return, TypeOK
<1>6. at[r] \in {"find", "create"}
  BY <1>2, <1>3, <1>4, <1>5 DEF Resume, LoginFound, RegisterFound, CreateUser
<1> QED
  BY <1>0, <1>6 DEF RequestOK, IInv, PastCheck

(* A success of Register or LoginByCode was earned with a code that was     *)
(* sent to the same phone for the same purpose and that Redis had for them  *)
(* while the call went on, whatever expired, failed, was late or was        *)
(* overwritten in between.                                                  *)
THEOREM CodeWasValidAlways == Spec => CodeWasValid
<1>1. IInv /\ [Next]_vars =>
        [\A r \in Requests :
            at[r] # "idle" /\ req[r].op # "SendCode" /\ result'[r] = "SUCCESS" =>
                valid[r] /\ <<req[r].usage, req[r].phone, req[r].code>> \in sent]_vars
  BY EarnedStep
<1> QED
  BY <1>1, Invariance, PTL DEF Spec, CodeWasValid

================================================================================
