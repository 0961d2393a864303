---------------------------- MODULE CallDataAdapter ----------------------------
(***************************************************************************)
(* The asynchronous gRPC adapter of UserService: the pooled CallData       *)
(* objects (adapter/v2/call_data), the managers that register them with    *)
(* the server completion queue (adapter/v2/call_data_manager), the worker  *)
(* threads of UserServiceServer::HandleRpc that drain the queue, and the   *)
(* coroutines that the workers spawn on the asio pool.                     *)
(*                                                                         *)
(* A CallData is a piece of shared memory without a lock. It wanders from  *)
(* gRPC (waiting for a request), through the completion queue, a worker    *)
(* thread, an asio thread, gRPC again (sending the reply), the queue and   *)
(* a worker that resets and re-registers it. The model has one action per  *)
(* step after which another thread can get hold of the object.             *)
(*                                                                         *)
(* gRPC itself is external: Arrive, Cancel, Bind and SendReply say how the *)
(* code uses it. It promises no order between events, so waiting calls and *)
(* the completion queue are sets; their fairness is in Fairness below.     *)
(***************************************************************************)
EXTENDS Naturals, FiniteSets

CONSTANTS
    CallDatas,    \* all pooled CallData objects, of every manager
    NoCallData,
    Workers,      \* the threads running HandleRpc
    Clients,      \* callers; each has at most one call outstanding
    NoClient,
    Methods,
    AuthMethods,  \* methods whose CallData class sets kRequiresAuth
    MethodOf      \* MethodOf[d]: the method whose manager owns CallData d

ASSUME AdapterAssumption ==
    /\ NoCallData \notin CallDatas
    /\ NoClient \notin Clients
    /\ AuthMethods \subseteq Methods
    /\ MethodOf \in [CallDatas -> Methods]

VARIABLES
    client,       \* client[c]: how far the call of c is
    ask,          \* ask[c]: method and whether the authorization token verifies
    answer,       \* answer[c]: what c received for its last call
    status,       \* CallData::status_
    call,         \* CallData::ctx_ and request_: the call they hold
    reply,        \* CallData::reply_: whose data its payload fields hold
    listening,    \* CallDatas whose Request<Method>() gRPC has not answered yet
    cq,           \* ServerCompletionQueue: the events <<tag, ok>> in it
    pc,           \* pc[w]: what worker w does next
    tag,          \* tag[w]: the CallData that w has taken from the queue
    ok,           \* ok[w]: the flag that came with it
    coro,         \* coro[d]: the coroutine co_spawned for d, and its uid
    finish        \* finish[d]: the responder_.Finish in flight for d

clientVars == <<client, ask, answer>>
dataVars   == <<status, call, reply>>
workerVars == <<pc, tag, ok>>
vars == <<client, ask, answer, status, call, reply, listening, cq,
          pc, tag, ok, coro, finish>>

Rpc == INSTANCE RpcServer

Event(d, b) == [cd |-> d, ok |-> b]
Events      == [cd : CallDatas, ok : BOOLEAN]
WorkerSteps == {"next", "proceed", "spawn", "reject", "reset", "register"}
CoroSteps   == {"none", "run", "done", "thrown"}
Whom        == Clients \cup {NoClient}
NoCoro      == [at |-> "none", uid |-> NoClient]
NoFinish    == [to |-> NoClient, code |-> "OK", payload |-> NoClient]

(* Types; and a worker has a CallData exactly while it is inside Proceed.   *)
TypeOK ==
    /\ client \in [Clients -> Rpc!ClientStates]
    /\ ask \in [Clients -> Rpc!Asks]
    /\ answer \in [Clients -> Rpc!Answers]
    /\ status \in [CallDatas -> {"WAIT_PROCESSING", "FINISHED"}]
    /\ call \in [CallDatas -> Whom]
    /\ reply \in [CallDatas -> Whom]
    /\ listening \subseteq CallDatas
    /\ cq \subseteq Events
    /\ pc \in [Workers -> WorkerSteps]
    /\ tag \in [Workers -> CallDatas \cup {NoCallData}]
    /\ ok \in [Workers -> BOOLEAN]
    /\ \A w \in Workers : tag[w] = NoCallData <=> pc[w] = "next"
    /\ coro \in [CallDatas -> [at : CoroSteps, uid : Whom]]
    /\ finish \in [CallDatas -> [to : Whom, code : Rpc!Codes, payload : Whom]]

--------------------------------------------------------------------------------
(* CallDataManager::Start for every manager, as SeedCallData runs it before *)
(* the first worker thread starts: each CallData is constructed and         *)
(* registered.                                                              *)
Init ==
    /\ Rpc!RpcInit
    /\ status = [d \in CallDatas |-> "WAIT_PROCESSING"]
    /\ call = [d \in CallDatas |-> NoClient]
    /\ reply = [d \in CallDatas |-> NoClient]
    /\ listening = CallDatas
    /\ cq = {}
    /\ pc = [w \in Workers |-> "next"]
    /\ tag = [w \in Workers |-> NoCallData]
    /\ ok = [w \in Workers |-> TRUE]
    /\ coro = [d \in CallDatas |-> NoCoro]
    /\ finish = [d \in CallDatas |-> NoFinish]

--------------------------------------------------------------------------------
(* Callers and gRPC (external). *)

Arrive(c) ==
    /\ Rpc!Invoke(c)
    /\ UNCHANGED <<status, call, reply, listening, cq, pc, tag, ok, coro, finish>>

Cancel(c) ==
    /\ Rpc!Cancel(c)
    /\ UNCHANGED <<status, call, reply, listening, cq, pc, tag, ok, coro, finish>>

(* gRPC matches a waiting call with a registered CallData of its method: it *)
(* fills the context and request and queues the tag.                        *)
Bind(d, c) ==
    /\ d \in listening
    /\ client[c] = "waiting"
    /\ ask[c].method = MethodOf[d]
    /\ listening' = listening \ {d}
    /\ call' = [call EXCEPT ![d] = c]
    /\ client' = [client EXCEPT ![c] = "accepted"]
    /\ cq' = cq \cup {Event(d, TRUE)}
    /\ UNCHANGED <<ask, answer, status, reply, pc, tag, ok, coro, finish>>

(* The Finish operation ends and its tag is queued. The caller has the      *)
(* answer, unless it is gone: then the operation fails or went nowhere.     *)
SendReply(d) ==
    LET f == finish[d] IN
    /\ f # NoFinish
    /\ finish' = [finish EXCEPT ![d] = NoFinish]
    /\ \/ /\ client[f.to] = "accepted"
          /\ client' = [client EXCEPT ![f.to] = "answered"]
          /\ answer' = [answer EXCEPT
                           ![f.to] = [code |-> f.code, payload |-> f.payload]]
          /\ cq' = cq \cup {Event(d, TRUE)}
       \/ /\ client[f.to] = "gone"
          /\ client' = [client EXCEPT ![f.to] = "idle"]
          /\ \E b \in BOOLEAN : cq' = cq \cup {Event(d, b)}
          /\ UNCHANGED answer
    /\ UNCHANGED <<ask, status, call, reply, listening, pc, tag, ok, coro>>

--------------------------------------------------------------------------------
(* Worker threads: UserServiceServer::HandleRpc. *)

(* cq_->Next(&tag, &ok) returns an event. *)
HandleRpc(w) ==
    /\ pc[w] = "next"
    /\ \E e \in cq :
          /\ cq' = cq \ {e}
          /\ tag' = [tag EXCEPT ![w] = e.cd]
          /\ ok' = [ok EXCEPT ![w] = e.ok]
    /\ pc' = [pc EXCEPT ![w] = "proceed"]
    /\ UNCHANGED <<client, ask, answer, status, call, reply, listening, coro,
                   finish>>

(* JwtUtil::VerifyToken on the token of c: signature, issuer and expiry.    *)
VerifyToken(c) == ask[c].authOk

(* Mutant: a token that does not verify still names its user. *)
PerformAuthentication_Any(d) == call[d]

(* PerformAuthentication on the context of d: the user that the token       *)
(* names, or nobody.                                                        *)
PerformAuthentication(d) ==
    IF VerifyToken(call[d]) THEN call[d] ELSE NoClient

KRequiresAuth(d) == MethodOf[d] \in AuthMethods

(* Mutant: the status_ update left to the asio thread (trap 1). *)
HandleProcess_NoStatus(w) ==
    /\ pc' = [pc EXCEPT ![w] =
                 IF KRequiresAuth(tag[w]) /\ PerformAuthentication(tag[w]) = NoClient
                 THEN "reject" ELSE "spawn"]
    /\ UNCHANGED status

(* HandleProcess up to the point where another thread can see the CallData: *)
(* authenticate, then status_ = FINISHED, in that order on every path.      *)
HandleProcess(w) ==
    LET d == tag[w] IN
    /\ pc' = [pc EXCEPT ![w] =
                 IF KRequiresAuth(d) /\ PerformAuthentication(d) = NoClient
                 THEN "reject" ELSE "spawn"]
    /\ status' = [status EXCEPT ![d] = "FINISHED"]

(* Mutant: the tag of a failed operation is dropped. *)
Proceed_DropFailed(w) ==
    /\ pc[w] = "proceed"
    /\ IF ~ok[w]
       THEN /\ pc' = [pc EXCEPT ![w] = "next"]
            /\ tag' = [tag EXCEPT ![w] = NoCallData]
            /\ ok' = [ok EXCEPT ![w] = TRUE]
            /\ UNCHANGED status
       ELSE /\ IF status[tag[w]] = "FINISHED"
               THEN pc' = [pc EXCEPT ![w] = "reset"] /\ UNCHANGED status
               ELSE HandleProcess(w)
            /\ UNCHANGED <<tag, ok>>
    /\ UNCHANGED <<client, ask, answer, call, reply, listening, cq, coro, finish>>

(* Proceed: a failed operation or a finished call recycles the CallData, a  *)
(* new request is processed.                                                *)
Proceed(w) ==
    /\ pc[w] = "proceed"
    /\ IF ~ok[w] \/ status[tag[w]] = "FINISHED"
       THEN pc' = [pc EXCEPT ![w] = "reset"] /\ UNCHANGED status
       ELSE HandleProcess(w)
    /\ UNCHANGED <<client, ask, answer, call, reply, listening, cq, tag, ok,
                   coro, finish>>

(* Mutant: the worker keeps the CallData after giving it away. *)
BackToNext_KeepTag(w) ==
    /\ pc' = [pc EXCEPT ![w] = "next"]
    /\ UNCHANGED <<tag, ok>>

(* HandleRpc's loop goes round; tag and ok are dead until Next fills them. *)
BackToNext(w) ==
    /\ pc' = [pc EXCEPT ![w] = "next"]
    /\ tag' = [tag EXCEPT ![w] = NoCallData]
    /\ ok' = [ok EXCEPT ![w] = TRUE]

(* The end of HandleProcess: the coroutine is handed to the asio pool with  *)
(* the user id in its closure.                                              *)
CoSpawn(w) ==
    LET d == tag[w] IN
    /\ pc[w] = "spawn"
    /\ coro' = [coro EXCEPT ![d] =
                   [at  |-> "run",
                    uid |-> IF KRequiresAuth(d) THEN PerformAuthentication(d)
                            ELSE NoClient]]
    /\ BackToNext(w)
    /\ UNCHANGED <<client, ask, answer, status, call, reply, listening, cq, finish>>

(* Mutant: no return after the Finish of a failed authentication. *)
Reject_FallThrough(w) ==
    /\ pc[w] = "reject"
    /\ finish' = [finish EXCEPT ![tag[w]] =
                     [to |-> call[tag[w]], code |-> "UNAUTHENTICATED",
                      payload |-> NoClient]]
    /\ pc' = [pc EXCEPT ![w] = "spawn"]
    /\ UNCHANGED <<client, ask, answer, status, call, reply, listening, cq, tag,
                   ok, coro>>

(* HandleProcess when authentication failed: Finish from the worker thread. *)
Reject(w) ==
    LET d == tag[w] IN
    /\ pc[w] = "reject"
    /\ finish' = [finish EXCEPT ![d] = [to |-> call[d], code |-> "UNAUTHENTICATED",
                                        payload |-> NoClient]]
    /\ BackToNext(w)
    /\ UNCHANGED <<client, ask, answer, status, call, reply, listening, cq, coro>>

(* Mutant: Reset() leaves reply_ as it is. *)
Reset_KeepReply(w) ==
    /\ pc[w] = "reset"
    /\ status' = [status EXCEPT ![tag[w]] = "WAIT_PROCESSING"]
    /\ call' = [call EXCEPT ![tag[w]] = NoClient]
    /\ pc' = [pc EXCEPT ![w] = "register"]
    /\ UNCHANGED <<client, ask, answer, reply, listening, cq, tag, ok, coro, finish>>

(* HandleFinish before the registration: status_ and Reset(). *)
Reset(w) ==
    LET d == tag[w] IN
    /\ pc[w] = "reset"
    /\ status' = [status EXCEPT ![d] = "WAIT_PROCESSING"]
    /\ call' = [call EXCEPT ![d] = NoClient]
    /\ reply' = [reply EXCEPT ![d] = NoClient]
    /\ pc' = [pc EXCEPT ![w] = "register"]
    /\ UNCHANGED <<client, ask, answer, listening, cq, tag, ok, coro, finish>>

(* The end of HandleFinish: from here on gRPC may fill the CallData again.  *)
RegisterCallDataToCQ(w) ==
    /\ pc[w] = "register"
    /\ listening' = listening \cup {tag[w]}
    /\ BackToNext(w)
    /\ UNCHANGED <<client, ask, answer, status, call, reply, cq, coro, finish>>

--------------------------------------------------------------------------------
(* Coroutines on the asio pool. *)

(* RunLogic / RunSpecificLogic: the service call answers, and the payload   *)
(* fields of reply_ (token, user info) are written on success only; or it   *)
(* throws before anything is written.                                       *)
RunLogic(d) ==
    /\ coro[d].at = "run"
    /\ \/ /\ coro' = [coro EXCEPT ![d] = [at |-> "done", uid |-> coro[d].uid]]
          /\ \/ reply' = [reply EXCEPT ![d] = IF KRequiresAuth(d) THEN coro[d].uid
                                              ELSE call[d]]
             \/ UNCHANGED reply
       \/ /\ coro' = [coro EXCEPT ![d] = [at |-> "thrown", uid |-> coro[d].uid]]
          /\ UNCHANGED reply
    /\ UNCHANGED <<client, ask, answer, status, call, listening, cq, pc, tag, ok,
                   finish>>

(* Mutant: an exception of the logic is logged and no Finish is issued. *)
OnLogicFinished_LogOnly(d) ==
    /\ coro[d].at \in {"done", "thrown"}
    /\ IF coro[d].at = "done"
       THEN finish' = [finish EXCEPT ![d] = [to |-> call[d], code |-> "OK",
                                             payload |-> reply[d]]]
       ELSE UNCHANGED finish
    /\ coro' = [coro EXCEPT ![d] = NoCoro]
    /\ UNCHANGED <<client, ask, answer, status, call, reply, listening, cq, pc,
                   tag, ok>>

(* OnLogicFinished: Finish with OK and reply_, or with INTERNAL; gRPC sends *)
(* no message with a status other than OK.                                  *)
OnLogicFinished(d) ==
    /\ coro[d].at \in {"done", "thrown"}
    /\ finish' = [finish EXCEPT ![d] =
                     IF coro[d].at = "done"
                     THEN [to |-> call[d], code |-> "OK", payload |-> reply[d]]
                     ELSE [to |-> call[d], code |-> "INTERNAL", payload |-> NoClient]]
    /\ coro' = [coro EXCEPT ![d] = NoCoro]
    /\ UNCHANGED <<client, ask, answer, status, call, reply, listening, cq, pc,
                   tag, ok>>

--------------------------------------------------------------------------------
WorkerStep(w) ==
    \/ HandleRpc(w) \/ Proceed(w) \/ CoSpawn(w) \/ Reject(w)
    \/ Reset(w) \/ RegisterCallDataToCQ(w)

AsioStep(d) == RunLogic(d) \/ OnLogicFinished(d)

Next ==
    \/ \E c \in Clients : Arrive(c) \/ Cancel(c)
    \/ \E d \in CallDatas, c \in Clients : Bind(d, c)
    \/ \E d \in CallDatas : SendReply(d) \/ AsioStep(d)
    \/ \E w \in Workers : WorkerStep(w)

(* Take(e): some worker takes event e. gRPC hands out events and waiting    *)
(* calls first-come first-served, which the strong fairness of Take and     *)
(* Bind stands for; threads keep running, sends end, and the business logic *)
(* ends (its awaits are the subject of other modules). Nobody has to call.  *)
Take(e) == e \in cq /\ cq' = cq \ {e} /\ \E w \in Workers : HandleRpc(w)

Fairness ==
    /\ \A w \in Workers : WF_vars(Proceed(w) \/ CoSpawn(w) \/ Reject(w) \/ Reset(w)
                                     \/ RegisterCallDataToCQ(w))
    /\ \A e \in Events : SF_vars(Take(e))
    /\ \A c \in Clients : SF_vars(\E d \in CallDatas : Bind(d, c))
    /\ \A d \in CallDatas : WF_vars(AsioStep(d)) /\ WF_vars(SendReply(d))

Spec     == Init /\ [][Next]_vars
FairSpec == Spec /\ Fairness

--------------------------------------------------------------------------------
(* Properties. *)

Queued(d)  == \E e \in cq : e.cd = d
Held(d)    == \E w \in Workers : tag[w] = d
Running(d) == coro[d] # NoCoro
Sending(d) == finish[d] # NoFinish

InOnePlace(d) ==
    /\ d \in listening => ~(Queued(d) \/ Held(d) \/ Running(d) \/ Sending(d))
    /\ Queued(d)  => ~(Held(d) \/ Running(d) \/ Sending(d))
    /\ Held(d)    => ~(Running(d) \/ Sending(d))
    /\ Running(d) => ~Sending(d)
    /\ d \in listening \/ Queued(d) \/ Held(d) \/ Running(d) \/ Sending(d)
OneEvent(d)  == \A e, f \in cq : e.cd = d /\ f.cd = d => e = f
OneWorker(d) == \A v, w \in Workers : tag[v] = d /\ tag[w] = d => v = w

(* A CallData has no lock, so its fields are safe only because it is always *)
(* in exactly one place: registered with gRPC, one event in the queue, one  *)
(* worker thread, one coroutine, or one reply being sent (the two traps in  *)
(* the comment of HandleProcess are about losing this). And it is always    *)
(* somewhere: none leaks out of the pool.                                   *)
OneOwner == \A d \in CallDatas : InOnePlace(d) /\ OneEvent(d) /\ OneWorker(d)

(* The call whose context d holds has not been completed yet. *)
InService(d) ==
    /\ call[d] # NoClient
    /\ \/ status[d] = "WAIT_PROCESSING"
       \/ Running(d) \/ Sending(d)
       \/ \E w \in Workers : tag[w] = d /\ pc[w] \in {"spawn", "reject"}

(* Every call gRPC has accepted is in the hands of one CallData until it is *)
(* completed, and a CallData works only on a call that is still open: no    *)
(* call is dropped by a Reset, run twice, or answered twice.                *)
ServedOnce ==
    /\ \A d \in CallDatas : InService(d) => client[call[d]] \in {"accepted", "gone"}
    /\ \A c \in Clients : client[c] \in {"accepted", "gone"} =>
          \E d \in CallDatas : InService(d) /\ call[d] = c
    /\ \A d, x \in CallDatas :
          InService(d) /\ InService(x) /\ call[d] = call[x] => d = x

(* A caller is answered with nothing but its own data, and a method that    *)
(* requires authentication reveals nothing without a token that verifies:   *)
(* what Reset() clears reply_ for ("prevent data leaks").                   *)
OwnAnswer == \A c \in Clients : client[c] = "answered" => answer[c] \in Rpc!Allowed(c)

(* What is known of a CallData in each place it can be in. With TypeOK,     *)
(* OneOwner, ServedOnce and OwnAnswer it is inductive.                      *)
Blank(d)  == call[d] = NoClient /\ reply[d] = NoClient
Cleared(d) == KRequiresAuth(d) => ask[call[d]].authOk

ListeningInv(d) == d \in listening => status[d] = "WAIT_PROCESSING" /\ Blank(d)

QueuedInv(d) == \A e \in cq : e.cd = d =>
    /\ call[d] # NoClient
    /\ status[d] = "WAIT_PROCESSING" => e.ok /\ reply[d] = NoClient

HeldInv(d) == \A w \in Workers : tag[w] = d =>
    /\ pc[w] = "proceed" =>
          /\ call[d] # NoClient
          /\ status[d] = "WAIT_PROCESSING" => ok[w] /\ reply[d] = NoClient
    /\ pc[w] \in {"spawn", "reject"} =>
          /\ status[d] = "FINISHED" /\ call[d] # NoClient /\ reply[d] = NoClient
          /\ pc[w] = "spawn" <=> Cleared(d)
    /\ pc[w] = "reset" => status[d] = "FINISHED"
    /\ pc[w] = "register" => status[d] = "WAIT_PROCESSING" /\ Blank(d)

RunningInv(d) == Running(d) =>
    /\ status[d] = "FINISHED" /\ call[d] # NoClient /\ Cleared(d)
    /\ coro[d].at # "none"
    /\ coro[d].uid = (IF KRequiresAuth(d) THEN call[d] ELSE NoClient)
    /\ reply[d] \in {NoClient, call[d]}
    /\ coro[d].at # "done" => reply[d] = NoClient

SendingInv(d) == Sending(d) =>
    /\ status[d] = "FINISHED" /\ call[d] # NoClient /\ finish[d].to = call[d]
    /\ [code |-> finish[d].code, payload |-> finish[d].payload]
          \in Rpc!Allowed(call[d])

MethodInv(d) == InService(d) => ask[call[d]].method = MethodOf[d]

PlaceInv(d) ==
    /\ ListeningInv(d) /\ QueuedInv(d) /\ HeldInv(d)
    /\ RunningInv(d) /\ SendingInv(d) /\ MethodInv(d)

CallDataInv(d) == InOnePlace(d) /\ OneEvent(d) /\ OneWorker(d) /\ PlaceInv(d)

IInv == TypeOK /\ (\A d \in CallDatas : CallDataInv(d)) /\ ServedOnce /\ OwnAnswer

(* A call that is not withdrawn is answered, however few CallDatas its      *)
(* method has: the bounded pool delays callers but starves none.            *)
CallsAnswered == \A c \in Clients :
    client[c] = "waiting" ~> client[c] \in {"answered", "idle"}

(* Every CallData comes back to listen: client disconnects, failures and    *)
(* rejected tokens do not shrink the pool.                                  *)
PoolRefills == \A d \in CallDatas : []<>(d \in listening)

(* The adapter implements the promise made to callers. *)
ImplementsRpc == Rpc!RpcSpec

================================================================================
