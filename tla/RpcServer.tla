------------------------------- MODULE RpcServer -------------------------------
(***************************************************************************)
(* What the gRPC adapter of UserService promises its callers, without the  *)
(* machinery (CallData pool, completion queue, worker threads, asio pool)  *)
(* that delivers it: a call is taken in once, answered at most once, with  *)
(* data of its own caller only, and only after authentication where the    *)
(* method asks for it; and a call nobody withdraws is answered.            *)
(*                                                                         *)
(* CallDataAdapter is shown to implement this specification.               *)
(***************************************************************************)
CONSTANTS
    Clients,      \* callers; each has at most one call outstanding
    NoClient,     \* "nobody": an empty payload
    Methods,      \* the rpc methods of the two services
    AuthMethods   \* the methods whose CallData sets kRequiresAuth

VARIABLES
    client,       \* client[c]: how far c's current call is
    ask,          \* ask[c]: the method called and whether its token verifies
    answer        \* answer[c]: status and payload c received last

rpcVars == <<client, ask, answer>>

ClientStates == {"idle", "waiting", "accepted", "gone", "answered"}
Codes        == {"OK", "UNAUTHENTICATED", "INTERNAL"}
Asks         == [method : Methods, authOk : BOOLEAN]
Answers      == [code : Codes, payload : Clients \cup {NoClient}]
NoAnswer     == [code |-> "OK", payload |-> NoClient]

RpcTypeOK ==
    /\ client \in [Clients -> ClientStates]
    /\ ask \in [Clients -> Asks]
    /\ answer \in [Clients -> Answers]

RpcInit ==
    /\ client = [c \in Clients |-> "idle"]
    /\ \E m \in Methods :
          ask = [c \in Clients |-> [method |-> m, authOk |-> FALSE]]
    /\ answer = [c \in Clients |-> NoAnswer]

(* The call of c may not run its business logic: its method requires       *)
(* authentication and its token does not verify.                           *)
Refused(c) == ask[c].method \in AuthMethods /\ ~ask[c].authOk

(* The answers that c's current call may get. A business failure is an OK  *)
(* status without payload, an exception of the logic is INTERNAL.          *)
Allowed(c) ==
    IF Refused(c)
    THEN {[code |-> "UNAUTHENTICATED", payload |-> NoClient]}
    ELSE {[code |-> "OK", payload |-> c],
          [code |-> "OK", payload |-> NoClient],
          [code |-> "INTERNAL", payload |-> NoClient]}

Invoke(c) ==
    /\ client[c] \in {"idle", "answered"}
    /\ client' = [client EXCEPT ![c] = "waiting"]
    /\ \E a \in Asks : ask' = [ask EXCEPT ![c] = a]
    /\ answer' = [answer EXCEPT ![c] = NoAnswer]

(* The caller disconnects: a call the server has not taken in disappears,  *)
(* one it has taken in is served in vain.                                  *)
Cancel(c) ==
    /\ \/ client[c] = "waiting"  /\ client' = [client EXCEPT ![c] = "idle"]
       \/ client[c] = "accepted" /\ client' = [client EXCEPT ![c] = "gone"]
    /\ UNCHANGED <<ask, answer>>

Accept(c) ==
    /\ client[c] = "waiting"
    /\ client' = [client EXCEPT ![c] = "accepted"]
    /\ UNCHANGED <<ask, answer>>

Answer(c) ==
    /\ client[c] = "accepted"
    /\ client' = [client EXCEPT ![c] = "answered"]
    /\ \E a \in Allowed(c) : answer' = [answer EXCEPT ![c] = a]
    /\ UNCHANGED ask

(* The server is done with a call whose caller is gone. *)
Discard(c) ==
    /\ client[c] = "gone"
    /\ client' = [client EXCEPT ![c] = "idle"]
    /\ UNCHANGED <<ask, answer>>

RpcNext == \E c \in Clients :
    Invoke(c) \/ Cancel(c) \/ Accept(c) \/ Answer(c) \/ Discard(c)

RpcFairness == \A c \in Clients :
    /\ WF_rpcVars(Accept(c))
    /\ WF_rpcVars(Answer(c) \/ Discard(c))

RpcSafety == RpcInit /\ [][RpcNext]_rpcVars
RpcSpec   == RpcSafety /\ RpcFairness

================================================================================
