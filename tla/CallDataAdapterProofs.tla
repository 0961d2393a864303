------------------------- MODULE CallDataAdapterProofs -------------------------
(***************************************************************************)
(* Proofs about CallDataAdapter for any number of CallDatas, workers,      *)
(* callers and methods. IInv says, for every place a CallData can be in,   *)
(* what its status_, context, reply_ and coroutine then hold (CallDataInv),*)
(* and adds ServedOnce and OwnAnswer. A step moves one CallData: the lemma *)
(* of the step shows CallDataInv of the one that moves, Elsewhere keeps it *)
(* for all others, and OneMoves puts the two together.                     *)
(***************************************************************************)
EXTENDS CallDataAdapter, TLAPS

(* What gRPC queues for a CallData is an event. *)
LEMMA EventType ==
    \A d \in CallDatas : \A b \in BOOLEAN : Event(d, b) \in Events
BY Zenon DEF Event, Events

(* Every step of callers, gRPC, worker threads and coroutines keeps the     *)
(* types of the variables.                                                  *)
LEMMA TypeStep ==
    ASSUME TypeOK, [Next]_vars PROVE TypeOK'
<1> USE AdapterAssumption DEF TypeOK, Rpc!ClientStates, Rpc!Asks, Rpc!Answers, Rpc!Codes,
        WorkerSteps, CoroSteps, Whom, NoCoro, NoFinish
<1>1. ASSUME NEW c \in Clients, Arrive(c) PROVE TypeOK'
  BY <1>1 DEF Arrive, Rpc!Invoke, Rpc!NoAnswer
<1>2. ASSUME NEW c \in Clients, Cancel(c) PROVE TypeOK'
  BY <1>2 DEF Cancel, Rpc!Cancel
<1>3. ASSUME NEW d \in CallDatas, NEW c \in Clients, Bind(d, c) PROVE TypeOK'
  <2>1. cq' \in SUBSET Events
    BY <1>3, EventType DEF Bind
  <2> QED
    BY <1>3, <2>1 DEF Bind
<1>4. ASSUME NEW d \in CallDatas, SendReply(d) PROVE TypeOK'
  <2>1. PICK b \in BOOLEAN : cq' = cq \cup {Event(d, b)}
    BY <1>4, Zenon DEF SendReply
  <2>2. cq' \in SUBSET Events
    BY <2>1, EventType
  <2>3. answer' \in [Clients -> Rpc!Answers]
    <3>1. [code |-> finish[d].code, payload |-> finish[d].payload] \in Rpc!Answers
      OBVIOUS
    <3>2. \/ answer' = answer
          \/ answer' = [answer EXCEPT ![finish[d].to] =
                [code |-> finish[d].code, payload |-> finish[d].payload]]
      BY <1>4, Zenon DEF SendReply
    <3> QED
      BY <3>1, <3>2
  <2>4. client' \in [Clients -> Rpc!ClientStates]
    BY <1>4, ZenonT(30) DEF SendReply
  <2>5. finish' \in [CallDatas -> [to : Whom, code : Rpc!Codes, payload : Whom]]
    BY <1>4 DEF SendReply
  <2> QED
    BY <1>4, <2>2, <2>3, <2>4, <2>5 DEF SendReply
<1>5. ASSUME NEW d \in CallDatas, RunLogic(d) PROVE TypeOK'
  <2>1. coro' \in [CallDatas -> [at : CoroSteps, uid : Whom]]
    BY <1>5 DEF RunLogic
  <2>2. reply' \in [CallDatas -> Whom]
    <3>1. coro[d].uid \in Whom /\ call[d] \in Whom
      OBVIOUS
    <3>2. \/ reply' = reply
          \/ \E x \in {coro[d].uid, call[d]} : reply' = [reply EXCEPT ![d] = x]
      BY <1>5 DEF RunLogic, KRequiresAuth
    <3> QED
      BY <3>1, <3>2
  <2> QED
    BY <1>5, <2>1, <2>2 DEF RunLogic
<1>6. ASSUME NEW d \in CallDatas, OnLogicFinished(d) PROVE TypeOK'
  BY <1>6 DEF OnLogicFinished
<1>7. ASSUME NEW w \in Workers, HandleRpc(w) PROVE TypeOK'
  BY <1>7 DEF HandleRpc, Events
<1>8. ASSUME NEW w \in Workers, Proceed(w) PROVE TypeOK'
  <2>1. pc' \in [Workers -> WorkerSteps]
    BY <1>8, SMTT(30) DEF Proceed, HandleProcess, KRequiresAuth, PerformAuthentication, VerifyToken
  <2>2. status' \in [CallDatas -> {"WAIT_PROCESSING", "FINISHED"}]
    BY <1>8 DEF Proceed, HandleProcess
  <2>3. \A v \in Workers : tag'[v] = NoCallData <=> pc'[v] = "next"
    BY <1>8 DEF Proceed, HandleProcess
  <2> QED
    BY <1>8, <2>1, <2>2, <2>3 DEF Proceed
<1>9. ASSUME NEW w \in Workers, CoSpawn(w) PROVE TypeOK'
  BY <1>9 DEF CoSpawn, BackToNext, PerformAuthentication, VerifyToken
<1>10. ASSUME NEW w \in Workers, Reject(w) PROVE TypeOK'
  BY <1>10 DEF Reject, BackToNext
<1>11. ASSUME NEW w \in Workers, Reset(w) PROVE TypeOK'
  BY <1>11 DEF Reset
<1>12. ASSUME NEW w \in Workers, RegisterCallDataToCQ(w) PROVE TypeOK'
  BY <1>12 DEF RegisterCallDataToCQ, BackToNext
<1>13. CASE UNCHANGED vars
  BY <1>13 DEF vars
<1> QED
  BY <1>1, <1>2, <1>3, <1>4, <1>5, <1>6, <1>7, <1>8, <1>9, <1>10, <1>11, <1>12, <1>13
  DEF Next, WorkerStep, AsioStep

(* CallData x, and whoever has it, are left alone by a step. *)
Untouched(x) ==
    /\ status'[x] = status[x] /\ call'[x] = call[x] /\ reply'[x] = reply[x]
    /\ coro'[x] = coro[x] /\ finish'[x] = finish[x]
    /\ x \in listening' <=> x \in listening
    /\ \A e \in Events : e.cd = x => (e \in cq' <=> e \in cq)
    /\ \A w \in Workers : tag'[w] = x <=> tag[w] = x
    /\ \A w \in Workers : tag[w] = x => pc'[w] = pc[w] /\ ok'[w] = ok[w]
    /\ InService(x) => ask'[call[x]] = ask[call[x]]

(* A step that touches neither CallData x nor the call it serves keeps all  *)
(* that is known of x.                                                      *)
LEMMA Elsewhere ==
    ASSUME TypeOK, TypeOK', NEW x \in CallDatas, CallDataInv(x), Untouched(x)
    PROVE  CallDataInv(x)' /\ (InService(x)' <=> InService(x))
<1>1. /\ Queued(x)' <=> Queued(x)
      /\ Held(x)' <=> Held(x)
      /\ Running(x)' <=> Running(x)
      /\ Sending(x)' <=> Sending(x)
  BY DEF TypeOK, Untouched, Queued, Held, Running, Sending
<1>2. InService(x)' <=> InService(x)
  BY <1>1 DEF TypeOK, InService, Untouched
<1>3. InOnePlace(x)' /\ OneEvent(x)' /\ OneWorker(x)'
  BY <1>1 DEF TypeOK, CallDataInv, InOnePlace, OneEvent, OneWorker, Untouched
<1>4. ListeningInv(x)'
  BY DEF CallDataInv, PlaceInv, ListeningInv, Blank, Untouched
<1>5. QueuedInv(x)'
  BY DEF TypeOK, CallDataInv, PlaceInv, QueuedInv, Untouched
<1>6. HeldInv(x)'
  BY DEF TypeOK, CallDataInv, PlaceInv, HeldInv, Blank, Cleared, InService, Untouched,
         KRequiresAuth
<1>7. RunningInv(x)'
  BY <1>1 DEF CallDataInv, PlaceInv, RunningInv, Cleared, InService, Untouched, KRequiresAuth
<1>8. SendingInv(x)'
  BY <1>1 DEF CallDataInv, PlaceInv, SendingInv, InService, Untouched,
              Rpc!Allowed, Rpc!Refused
<1>9. MethodInv(x)'
  BY <1>2 DEF CallDataInv, PlaceInv, MethodInv, Untouched
<1> QED
  BY <1>2, <1>3, <1>4, <1>5, <1>6, <1>7, <1>8, <1>9 DEF CallDataInv, PlaceInv

(* A step that leaves every CallData in service with its call, and every    *)
(* accepted call open, keeps ServedOnce.                                    *)
LEMMA ServedFrame ==
    ASSUME TypeOK, ServedOnce,
           \A x \in CallDatas : InService(x)' <=> InService(x),
           \A x \in CallDatas : InService(x) => call'[x] = call[x],
           \A c \in Clients : client'[c] \in {"accepted", "gone"}
                                <=> client[c] \in {"accepted", "gone"}
    PROVE  ServedOnce'
<1>1. \A x \in CallDatas : InService(x) => call[x] \in Clients
  BY DEF TypeOK, Whom, InService
<1> QED
  BY <1>1 DEF ServedOnce

(* What most steps have in common: one CallData d moves on, the others and  *)
(* the callers are left alone.                                              *)
LEMMA OneMoves ==
    ASSUME IInv, TypeOK', NEW d \in CallDatas, UNCHANGED clientVars,
           \A x \in CallDatas \ {d} : Untouched(x),
           CallDataInv(d)',
           InService(d)' <=> InService(d),
           InService(d) => call'[d] = call[d]
    PROVE  IInv'
<1>1. \A x \in CallDatas \ {d} :
         CallDataInv(x)' /\ (InService(x)' <=> InService(x)) /\ call'[x] = call[x]
  BY Elsewhere DEF IInv, Untouched
<1>2. \A x \in CallDatas : CallDataInv(x)'
  BY <1>1
<1>3. ServedOnce'
  BY <1>1, ServedFrame DEF IInv, clientVars
<1>4. OwnAnswer'
  BY DEF IInv, OwnAnswer, Rpc!Allowed, Rpc!Refused, clientVars
<1> QED
  BY <1>2, <1>3, <1>4 DEF IInv

(* HandleRpc moves the one event of a CallData to the one worker that took it. *)
LEMMA HandleRpcStep ==
    ASSUME IInv, NEW w \in Workers, HandleRpc(w) PROVE IInv'
<1>1. TypeOK /\ TypeOK'
  BY TypeStep DEF IInv, Next, WorkerStep
<1>2. PICK e \in cq : /\ cq' = cq \ {e}
                      /\ tag' = [tag EXCEPT ![w] = e.cd]
                      /\ ok' = [ok EXCEPT ![w] = e.ok]
  BY DEF HandleRpc
<1> DEFINE d == e.cd
<1>3. d \in CallDatas /\ e \in Events
  BY <1>1 DEF TypeOK, Events
<1> HIDE DEF d
<1>4. CallDataInv(d) /\ tag[w] = NoCallData
  BY <1>1, <1>3 DEF IInv, TypeOK, HandleRpc
<1>5. \A x \in CallDatas \ {d} : Untouched(x)
  BY <1>1, <1>2, <1>3, <1>4, AdapterAssumption DEF TypeOK, Untouched, HandleRpc, d
<1>6. Queued(d) /\ ~Queued(d)' /\ ~Held(d) /\ Held(d)'
      /\ \A v \in Workers : tag'[v] = d <=> v = w
  BY <1>1, <1>2, <1>3, <1>4 DEF TypeOK, CallDataInv, InOnePlace, OneEvent, Queued, Held, d
<1>7. /\ Running(d)' <=> Running(d)
      /\ Sending(d)' <=> Sending(d)
      /\ InService(d)' <=> InService(d)
  BY <1>1, <1>6 DEF TypeOK, Running, Sending, InService, Held, HandleRpc
<1>8. InOnePlace(d)' /\ OneEvent(d)' /\ OneWorker(d)'
  BY <1>4, <1>6, <1>7 DEF CallDataInv, InOnePlace, OneEvent, OneWorker, Queued, HandleRpc
<1>9. PlaceInv(d)'
  BY <1>1, <1>2, <1>3, <1>4, <1>6, <1>7, <1>8
  DEF TypeOK, CallDataInv, PlaceInv, ListeningInv, QueuedInv, HeldInv, RunningInv, SendingInv, MethodInv,
      Queued, InOnePlace, HandleRpc, d
<1> QED
  BY <1>1, <1>3, <1>5, <1>7, <1>8, <1>9, OneMoves DEF CallDataInv, HandleRpc, clientVars

(* Proceed keeps the CallData with its worker and decides between           *)
(* processing and recycling from ok and status_.                            *)
LEMMA ProceedStep ==
    ASSUME IInv, NEW w \in Workers, Proceed(w) PROVE IInv'
<1>1. TypeOK /\ TypeOK'
  BY TypeStep DEF IInv, Next, WorkerStep
<1>2. PICK d \in CallDatas : tag[w] = d
  BY <1>1 DEF TypeOK, Proceed
<1>3. CallDataInv(d) /\ Held(d) /\ \A v \in Workers : tag[v] = d => v = w
  BY <1>2 DEF IInv, CallDataInv, OneWorker, Held
<1>4. ~Queued(d) /\ d \notin listening /\ ~Running(d) /\ ~Sending(d)
  BY <1>3 DEF CallDataInv, InOnePlace
<1>5. \A x \in CallDatas \ {d} : Untouched(x)
  BY <1>1, <1>2, AdapterAssumption DEF TypeOK, Untouched, Proceed, HandleProcess
<1>6. ~Queued(d)' /\ ~Running(d)' /\ ~Sending(d)' /\ Held(d)'
  BY <1>1, <1>2, <1>3, <1>4, AdapterAssumption
  DEF TypeOK, Queued, Held, Running, Sending, NoCoro, NoFinish, CallDataInv, PlaceInv,
      HeldInv, Proceed, HandleProcess
<1>7. /\ InService(d)' <=> InService(d)
      /\ InService(d) => call'[d] = call[d]
  BY <1>1, <1>2, <1>3, <1>4, <1>6
  DEF TypeOK, InService, CallDataInv, PlaceInv, HeldInv, Blank, Proceed, HandleProcess
<1>8. InOnePlace(d)' /\ OneEvent(d)' /\ OneWorker(d)'
  BY <1>3, <1>6 DEF CallDataInv, InOnePlace, OneEvent, OneWorker, Queued, Held,
                    Proceed, HandleProcess
<1>9. PlaceInv(d)'
  BY <1>1, <1>2, <1>3, <1>4, <1>6, <1>7, AdapterAssumption
  DEF TypeOK, CallDataInv, PlaceInv, ListeningInv, QueuedInv, HeldInv, RunningInv, SendingInv,
      MethodInv, Queued, Held, Blank, Cleared, KRequiresAuth, PerformAuthentication, VerifyToken, Whom,
      Rpc!Allowed, Rpc!Refused, Proceed, HandleProcess
<1> QED
  BY <1>1, <1>2, <1>5, <1>6, <1>7, <1>8, <1>9, OneMoves
  DEF CallDataInv, Proceed, HandleProcess, clientVars

(* co_spawn hands the CallData from the worker to its coroutine, with       *)
(* status_ already FINISHED.                                                *)
LEMMA CoSpawnStep ==
    ASSUME IInv, NEW w \in Workers, CoSpawn(w) PROVE IInv'
<1>1. TypeOK /\ TypeOK'
  BY TypeStep DEF IInv, Next, WorkerStep
<1>2. PICK d \in CallDatas : tag[w] = d
  BY <1>1 DEF TypeOK, CoSpawn
<1>3. CallDataInv(d) /\ Held(d) /\ \A v \in Workers : tag[v] = d => v = w
  BY <1>2 DEF IInv, CallDataInv, OneWorker, Held
<1>4. ~Queued(d) /\ d \notin listening /\ ~Running(d) /\ ~Sending(d)
  BY <1>3 DEF CallDataInv, InOnePlace
<1>5. \A x \in CallDatas \ {d} : Untouched(x)
  <2>1. \A x \in CallDatas \ {d} : coro'[x] = coro[x]
    BY <1>1, <1>2 DEF TypeOK, CoSpawn
  <2>2. UNCHANGED <<ask, status, call, reply, listening, cq, finish>> /\ BackToNext(w)
    BY DEF CoSpawn
  <2> QED
    BY <1>1, <1>2, <2>1, <2>2, AdapterAssumption, ZenonT(30) DEF TypeOK, Untouched, BackToNext
<1>6. ~Queued(d)' /\ Running(d)' /\ ~Sending(d)' /\ ~Held(d)'
  BY <1>1, <1>2, <1>3, <1>4, AdapterAssumption
  DEF TypeOK, Queued, Held, Running, Sending, NoCoro, NoFinish, CallDataInv, PlaceInv,
      HeldInv, CoSpawn, BackToNext
<1>7. /\ InService(d)' <=> InService(d)
      /\ InService(d) => call'[d] = call[d]
  BY <1>1, <1>2, <1>3, <1>4, <1>6
  DEF TypeOK, InService, CallDataInv, PlaceInv, HeldInv, Blank, CoSpawn, BackToNext
<1>8. InOnePlace(d)' /\ OneEvent(d)' /\ OneWorker(d)'
  BY <1>3, <1>6 DEF CallDataInv, InOnePlace, OneEvent, OneWorker, Queued, Held,
                    CoSpawn, BackToNext
<1>9. PlaceInv(d)'
  BY <1>1, <1>2, <1>3, <1>4, <1>6, <1>7, AdapterAssumption
  DEF TypeOK, CallDataInv, PlaceInv, ListeningInv, QueuedInv, HeldInv, RunningInv, SendingInv,
      MethodInv, Queued, Held, Blank, Cleared, KRequiresAuth, PerformAuthentication, VerifyToken, Whom,
      Rpc!Allowed, Rpc!Refused, CoSpawn, BackToNext
<1> QED
  BY <1>1, <1>2, <1>5, <1>6, <1>7, <1>8, <1>9, OneMoves
  DEF CallDataInv, CoSpawn, BackToNext, clientVars

(* The Finish of a failed authentication hands the CallData to gRPC, with   *)
(* the one answer the call may get.                                         *)
LEMMA RejectStep ==
    ASSUME IInv, NEW w \in Workers, Reject(w) PROVE IInv'
<1>1. TypeOK /\ TypeOK'
  BY TypeStep DEF IInv, Next, WorkerStep
<1>2. PICK d \in CallDatas : tag[w] = d
  BY <1>1 DEF TypeOK, Reject
<1>3. CallDataInv(d) /\ Held(d) /\ \A v \in Workers : tag[v] = d => v = w
  BY <1>2 DEF IInv, CallDataInv, OneWorker, Held
<1>4. ~Queued(d) /\ d \notin listening /\ ~Running(d) /\ ~Sending(d)
  BY <1>3 DEF CallDataInv, InOnePlace
<1>5. \A x \in CallDatas \ {d} : Untouched(x)
  <2>1. \A x \in CallDatas \ {d} : finish'[x] = finish[x]
    BY <1>1, <1>2 DEF TypeOK, Reject
  <2>2. UNCHANGED <<ask, status, call, reply, listening, cq, coro>> /\ BackToNext(w)
    BY DEF Reject
  <2> QED
    BY <1>1, <1>2, <2>1, <2>2, AdapterAssumption, ZenonT(30) DEF TypeOK, Untouched, BackToNext
<1>6. ~Queued(d)' /\ ~Running(d)' /\ Sending(d)' /\ ~Held(d)'
  BY <1>1, <1>2, <1>3, <1>4, AdapterAssumption
  DEF TypeOK, Queued, Held, Running, Sending, NoCoro, NoFinish, CallDataInv, PlaceInv,
      HeldInv, Reject, BackToNext
<1>7. /\ InService(d)' <=> InService(d)
      /\ InService(d) => call'[d] = call[d]
  BY <1>1, <1>2, <1>3, <1>4, <1>6
  DEF TypeOK, InService, CallDataInv, PlaceInv, HeldInv, Blank, Reject, BackToNext
<1>8. InOnePlace(d)' /\ OneEvent(d)' /\ OneWorker(d)'
  BY <1>3, <1>6 DEF CallDataInv, InOnePlace, OneEvent, OneWorker, Queued, Held,
                    Reject, BackToNext
<1>9. PlaceInv(d)'
  <2>1. /\ pc[w] = "reject" /\ InService(d)
        /\ call[d] \in Clients /\ status[d] = "FINISHED"
        /\ finish'[d] = [to |-> call[d], code |-> "UNAUTHENTICATED",
                         payload |-> NoClient]
    BY <1>1, <1>2, <1>3
    DEF TypeOK, Whom, CallDataInv, PlaceInv, HeldInv, InService, Reject
  <2>2. Rpc!Refused(call[d])
    BY <1>2, <1>3, <2>1
    DEF CallDataInv, PlaceInv, HeldInv, MethodInv, Cleared, KRequiresAuth, Rpc!Refused
  <2>3. Rpc!Allowed(call[d])' = {[code |-> "UNAUTHENTICATED", payload |-> NoClient]}
    BY <2>2 DEF Rpc!Allowed, Rpc!Refused, Reject
  <2>4. SendingInv(d)'
    BY <2>1, <2>3, AdapterAssumption DEF SendingInv, Reject
  <2>5. MethodInv(d)'
    BY <1>3, <1>7, <2>1 DEF CallDataInv, PlaceInv, MethodInv, Reject
  <2> QED
    BY <1>4, <1>6, <2>4, <2>5
    DEF PlaceInv, ListeningInv, QueuedInv, HeldInv, RunningInv, Queued, Held, Reject
<1> QED
  BY <1>1, <1>2, <1>5, <1>6, <1>7, <1>8, <1>9, OneMoves
  DEF CallDataInv, Reject, BackToNext, clientVars

(* Reset() leaves a CallData that serves nobody without data of anybody.    *)
LEMMA ResetStep ==
    ASSUME IInv, NEW w \in Workers, Reset(w) PROVE IInv'
<1>1. TypeOK /\ TypeOK'
  BY TypeStep DEF IInv, Next, WorkerStep
<1>2. PICK d \in CallDatas : tag[w] = d
  BY <1>1 DEF TypeOK, Reset
<1>3. CallDataInv(d) /\ Held(d) /\ \A v \in Workers : tag[v] = d => v = w
  BY <1>2 DEF IInv, CallDataInv, OneWorker, Held
<1>4. ~Queued(d) /\ d \notin listening /\ ~Running(d) /\ ~Sending(d)
  BY <1>3 DEF CallDataInv, InOnePlace
<1>5. \A x \in CallDatas \ {d} : Untouched(x)
  BY <1>1, <1>2, AdapterAssumption DEF TypeOK, Untouched, Reset
<1>6. ~Queued(d)' /\ ~Running(d)' /\ ~Sending(d)' /\ Held(d)'
  BY <1>1, <1>2, <1>3, <1>4, AdapterAssumption
  DEF TypeOK, Queued, Held, Running, Sending, NoCoro, NoFinish, CallDataInv, PlaceInv,
      HeldInv, Reset
<1>7. /\ InService(d)' <=> InService(d)
      /\ InService(d) => call'[d] = call[d]
  BY <1>1, <1>2, <1>3, <1>4, <1>6
  DEF TypeOK, InService, CallDataInv, PlaceInv, HeldInv, Blank, Reset
<1>8. InOnePlace(d)' /\ OneEvent(d)' /\ OneWorker(d)'
  BY <1>3, <1>6 DEF CallDataInv, InOnePlace, OneEvent, OneWorker, Queued, Held,
                    Reset
<1>9. PlaceInv(d)'
  BY <1>1, <1>2, <1>3, <1>4, <1>6, <1>7, AdapterAssumption
  DEF TypeOK, CallDataInv, PlaceInv, ListeningInv, QueuedInv, HeldInv, RunningInv, SendingInv,
      MethodInv, Queued, Held, Blank, Cleared, KRequiresAuth, PerformAuthentication, VerifyToken, Whom,
      Rpc!Allowed, Rpc!Refused, Reset
<1> QED
  BY <1>1, <1>2, <1>5, <1>6, <1>7, <1>8, <1>9, OneMoves
  DEF CallDataInv, Reset, clientVars

(* RegisterCallDataToCQ gives gRPC a blank CallData.                        *)
LEMMA RegisterStep ==
    ASSUME IInv, NEW w \in Workers, RegisterCallDataToCQ(w) PROVE IInv'
<1>1. TypeOK /\ TypeOK'
  BY TypeStep DEF IInv, Next, WorkerStep
<1>2. PICK d \in CallDatas : tag[w] = d
  BY <1>1 DEF TypeOK, RegisterCallDataToCQ
<1>3. CallDataInv(d) /\ Held(d) /\ \A v \in Workers : tag[v] = d => v = w
  BY <1>2 DEF IInv, CallDataInv, OneWorker, Held
<1>4. ~Queued(d) /\ d \notin listening /\ ~Running(d) /\ ~Sending(d)
  BY <1>3 DEF CallDataInv, InOnePlace
<1>5. \A x \in CallDatas \ {d} : Untouched(x)
  BY <1>1, <1>2, AdapterAssumption, ZenonT(30) DEF TypeOK, Untouched, RegisterCallDataToCQ, BackToNext
<1>6. ~Queued(d)' /\ ~Running(d)' /\ ~Sending(d)' /\ ~Held(d)'
  BY <1>1, <1>2, <1>3, <1>4, AdapterAssumption
  DEF TypeOK, Queued, Held, Running, Sending, NoCoro, NoFinish, CallDataInv, PlaceInv,
      HeldInv, RegisterCallDataToCQ, BackToNext
<1>7. /\ InService(d)' <=> InService(d)
      /\ InService(d) => call'[d] = call[d]
  BY <1>1, <1>2, <1>3, <1>4, <1>6
  DEF TypeOK, InService, CallDataInv, PlaceInv, HeldInv, Blank, RegisterCallDataToCQ, BackToNext
<1>8. InOnePlace(d)' /\ OneEvent(d)' /\ OneWorker(d)'
  BY <1>3, <1>6 DEF CallDataInv, InOnePlace, OneEvent, OneWorker, Queued, Held,
                    RegisterCallDataToCQ, BackToNext
<1>9. PlaceInv(d)'
  BY <1>1, <1>2, <1>3, <1>4, <1>6, <1>7, AdapterAssumption
  DEF TypeOK, CallDataInv, PlaceInv, ListeningInv, QueuedInv, HeldInv, RunningInv, SendingInv,
      MethodInv, Queued, Held, Blank, Cleared, KRequiresAuth, PerformAuthentication, VerifyToken, Whom,
      Rpc!Allowed, Rpc!Refused, RegisterCallDataToCQ, BackToNext
<1> QED
  BY <1>1, <1>2, <1>5, <1>6, <1>7, <1>8, <1>9, OneMoves
  DEF CallDataInv, RegisterCallDataToCQ, BackToNext, clientVars

(* RunLogic writes only the data of the caller into reply_.                 *)
LEMMA RunLogicStep ==
    ASSUME IInv, NEW d \in CallDatas, RunLogic(d) PROVE IInv'
<1>1. TypeOK /\ TypeOK'
  BY TypeStep DEF IInv, Next, AsioStep
<1>2. CallDataInv(d) /\ Running(d)
  BY DEF IInv, RunLogic, Running, NoCoro
<1>3. ~Queued(d) /\ d \notin listening /\ ~Held(d) /\ ~Sending(d)
  BY <1>2 DEF CallDataInv, InOnePlace
<1>4. \A x \in CallDatas \ {d} : Untouched(x)
  BY <1>1 DEF TypeOK, Untouched, RunLogic
<1>5. /\ coro'[d].at \in {"done", "thrown"} /\ coro'[d].uid = coro[d].uid
      /\ reply'[d] \in {reply[d], IF KRequiresAuth(d) THEN coro[d].uid ELSE call[d]}
      /\ coro'[d].at # "done" => reply'[d] = reply[d]
  BY <1>1 DEF TypeOK, RunLogic, KRequiresAuth
<1>6. ~Queued(d)' /\ ~Held(d)' /\ Running(d)' /\ ~Sending(d)'
  BY <1>3, <1>5 DEF Queued, Held, Running, Sending, NoCoro, RunLogic
<1>7. /\ InService(d)' <=> InService(d)
      /\ InService(d) => call'[d] = call[d]
  BY <1>2, <1>6 DEF InService, RunLogic
<1>8. InOnePlace(d)' /\ OneEvent(d)' /\ OneWorker(d)'
  BY <1>2, <1>3, <1>6 DEF CallDataInv, InOnePlace, OneEvent, OneWorker, RunLogic
<1>9. PlaceInv(d)'
  <2>1. RunningInv(d)'
    BY <1>2, <1>5 DEF CallDataInv, PlaceInv, RunningInv, Cleared, KRequiresAuth, RunLogic
  <2>2. MethodInv(d)'
    BY <1>2, <1>7 DEF CallDataInv, PlaceInv, MethodInv, RunLogic
  <2> QED
    BY <1>3, <1>6, <2>1, <2>2
    DEF PlaceInv, ListeningInv, QueuedInv, HeldInv, SendingInv, Queued, Held, RunLogic
<1> QED
  BY <1>1, <1>4, <1>7, <1>8, <1>9, OneMoves DEF CallDataInv, RunLogic, clientVars

(* OnLogicFinished hands the CallData to gRPC with an answer its call may get. *)
LEMMA OnLogicFinishedStep ==
    ASSUME IInv, NEW d \in CallDatas, OnLogicFinished(d) PROVE IInv'
<1>1. TypeOK /\ TypeOK'
  BY TypeStep DEF IInv, Next, AsioStep
<1>2. CallDataInv(d) /\ Running(d) /\ InService(d) /\ call[d] \in Clients
  BY <1>1 DEF IInv, TypeOK, Whom, OnLogicFinished, Running, NoCoro, CallDataInv, PlaceInv,
              RunningInv, InService
<1>3. ~Queued(d) /\ d \notin listening /\ ~Held(d) /\ ~Sending(d)
  BY <1>2 DEF CallDataInv, InOnePlace
<1>4. \A x \in CallDatas \ {d} : Untouched(x)
  BY <1>1 DEF TypeOK, Untouched, OnLogicFinished
<1>5. /\ coro'[d] = NoCoro
      /\ finish'[d] = IF coro[d].at = "done"
            THEN [to |-> call[d], code |-> "OK", payload |-> reply[d]]
            ELSE [to |-> call[d], code |-> "INTERNAL", payload |-> NoClient]
  BY <1>1 DEF TypeOK, OnLogicFinished
<1>6. ~Queued(d)' /\ ~Held(d)' /\ ~Running(d)' /\ Sending(d)'
  BY <1>2, <1>3, <1>5, AdapterAssumption
  DEF Queued, Held, Running, Sending, NoFinish, OnLogicFinished
<1>7. /\ InService(d)' <=> InService(d)
      /\ InService(d) => call'[d] = call[d]
  BY <1>2, <1>6 DEF InService, OnLogicFinished
<1>8. InOnePlace(d)' /\ OneEvent(d)' /\ OneWorker(d)'
  BY <1>2, <1>3, <1>6 DEF CallDataInv, InOnePlace, OneEvent, OneWorker, OnLogicFinished
<1>9. PlaceInv(d)'
  <2>1. ~Rpc!Refused(call[d])
    BY <1>2 DEF CallDataInv, PlaceInv, RunningInv, MethodInv, Cleared, KRequiresAuth,
                Rpc!Refused
  <2>2. Rpc!Allowed(call[d])' = {[code |-> "OK", payload |-> call[d]],
                                 [code |-> "OK", payload |-> NoClient],
                                 [code |-> "INTERNAL", payload |-> NoClient]}
    BY <2>1 DEF Rpc!Allowed, Rpc!Refused, OnLogicFinished
  <2>3. SendingInv(d)'
    BY <1>2, <1>5, <2>2 DEF SendingInv, CallDataInv, PlaceInv, RunningInv, OnLogicFinished
  <2>4. MethodInv(d)'
    BY <1>2, <1>7 DEF CallDataInv, PlaceInv, MethodInv, OnLogicFinished
  <2> QED
    BY <1>3, <1>6, <2>3, <2>4
    DEF PlaceInv, ListeningInv, QueuedInv, HeldInv, RunningInv, Queued, Held, OnLogicFinished
<1> QED
  BY <1>1, <1>4, <1>7, <1>8, <1>9, OneMoves DEF CallDataInv, OnLogicFinished, clientVars

(* A new call concerns no CallData yet.                                     *)
LEMMA ArriveStep ==
    ASSUME IInv, NEW c \in Clients, Arrive(c) PROVE IInv'
<1>1. TypeOK /\ TypeOK'
  BY TypeStep DEF IInv, Next
<1>2. \A x \in CallDatas : InService(x) => call[x] \in Clients /\ call[x] # c
  BY <1>1 DEF IInv, TypeOK, Whom, ServedOnce, InService, Arrive, Rpc!Invoke
<1>3. \A x \in CallDatas : Untouched(x)
  BY <1>1, <1>2 DEF TypeOK, Untouched, Arrive, Rpc!Invoke
<1>4. \A x \in CallDatas : CallDataInv(x)' /\ (InService(x)' <=> InService(x))
  BY <1>1, <1>3, Elsewhere DEF IInv
<1>5. ServedOnce'
  BY <1>1, <1>4, ServedFrame DEF IInv, TypeOK, Arrive, Rpc!Invoke
<1>6. OwnAnswer'
  BY <1>1 DEF IInv, TypeOK, OwnAnswer, Rpc!Allowed, Rpc!Refused, Arrive, Rpc!Invoke
<1> QED
  BY <1>1, <1>4, <1>5, <1>6 DEF IInv

(* A caller that leaves takes nothing away from the CallData serving it.    *)
LEMMA CancelStep ==
    ASSUME IInv, NEW c \in Clients, Cancel(c) PROVE IInv'
<1>1. TypeOK /\ TypeOK'
  BY TypeStep DEF IInv, Next
<1>2. \A x \in CallDatas : Untouched(x)
  BY DEF Untouched, Cancel, Rpc!Cancel
<1>3. \A x \in CallDatas : CallDataInv(x)' /\ (InService(x)' <=> InService(x))
  BY <1>1, <1>2, Elsewhere DEF IInv
<1>4. ServedOnce'
  BY <1>1, <1>3, ServedFrame DEF IInv, TypeOK, Cancel, Rpc!Cancel
<1>5. OwnAnswer'
  BY <1>1 DEF IInv, TypeOK, OwnAnswer, Rpc!Allowed, Rpc!Refused, Cancel, Rpc!Cancel
<1> QED
  BY <1>1, <1>3, <1>4, <1>5 DEF IInv

(* gRPC gives a waiting call to one registered CallData.                    *)
LEMMA BindStep ==
    ASSUME IInv, NEW d \in CallDatas, NEW c \in Clients, Bind(d, c) PROVE IInv'
<1>1. TypeOK /\ TypeOK'
  BY TypeStep DEF IInv, Next
<1>2. PICK e \in Events : e.cd = d /\ e.ok /\ cq' = cq \cup {e}
  BY EventType DEF Event, Bind
<1>3. CallDataInv(d) /\ ~Queued(d) /\ ~Held(d) /\ ~Running(d) /\ ~Sending(d)
      /\ status[d] = "WAIT_PROCESSING" /\ call[d] = NoClient /\ reply[d] = NoClient
  BY DEF IInv, CallDataInv, InOnePlace, PlaceInv, ListeningInv, Blank, Bind
<1>4. \A x \in CallDatas \ {d} : Untouched(x)
  BY <1>1, <1>2 DEF TypeOK, Untouched, Bind
<1>5. \A x \in CallDatas \ {d} :
         CallDataInv(x)' /\ (InService(x)' <=> InService(x)) /\ call'[x] = call[x]
  BY <1>1, <1>4, Elsewhere DEF IInv, Untouched
<1>6. Queued(d)' /\ ~Held(d)' /\ ~Running(d)' /\ ~Sending(d)' /\ d \notin listening'
  BY <1>2, <1>3 DEF Queued, Held, Running, Sending, Bind
<1>7. call'[d] = c /\ InService(d)' /\ ~InService(d)
  BY <1>1, <1>3, AdapterAssumption DEF TypeOK, InService, Bind
<1>8. CallDataInv(d)'
  <2>1. InOnePlace(d)' /\ OneWorker(d)'
    BY <1>3, <1>6 DEF CallDataInv, InOnePlace, OneWorker, Bind
  <2>2. OneEvent(d)'
    BY <1>2, <1>3 DEF OneEvent, Queued
  <2>3. QueuedInv(d)'
    BY <1>2, <1>3, <1>7, AdapterAssumption DEF QueuedInv, Queued, Bind
  <2>4. MethodInv(d)'
    BY <1>7 DEF MethodInv, Bind
  <2> QED
    BY <1>6, <2>1, <2>2, <2>3, <2>4
    DEF CallDataInv, PlaceInv, ListeningInv, HeldInv, RunningInv, SendingInv, Held
<1>9. ServedOnce'
  <2>1. client' = [client EXCEPT ![c] = "accepted"] /\ client[c] = "waiting"
    BY DEF Bind
  <2>2. \A x \in CallDatas : InService(x) => call[x] \in Clients \ {c}
    <3>1. \A x \in CallDatas : InService(x) => call[x] \in Clients
      BY <1>1 DEF TypeOK, Whom, InService
    <3>2. \A x \in CallDatas : InService(x) => call[x] # c
      BY <2>1 DEF IInv, ServedOnce
    <3> QED
      BY <3>1, <3>2
  <2>3. \A x \in CallDatas : InService(x)' => client'[call'[x]] \in {"accepted", "gone"}
    <3>1. ASSUME NEW x \in CallDatas, InService(x)'
          PROVE  client'[call'[x]] \in {"accepted", "gone"}
      <4>1. client'[c] = "accepted" /\ \A a \in Clients \ {c} : client'[a] = client[a]
        BY <1>1, <2>1 DEF TypeOK
      <4>2. CASE x = d
        BY <4>1, <4>2, <1>7
      <4>3. CASE x # d
        <5>1. InService(x) /\ call'[x] = call[x] /\ call[x] \in Clients \ {c}
          BY <3>1, <4>3, <1>5, <2>2
        <5> QED
          BY <5>1, <4>1 DEF IInv, ServedOnce
      <4> QED
        BY <4>2, <4>3
    <3> QED
      BY <3>1
  <2>4. ASSUME NEW b \in Clients, client'[b] \in {"accepted", "gone"}
        PROVE  \E x \in CallDatas : InService(x)' /\ call'[x] = b
    <3>1. CASE b = c
      BY <3>1, <1>7
    <3>2. CASE b # c
      <4>1. PICK x \in CallDatas : InService(x) /\ call[x] = b
        BY <3>2, <2>1, <2>4, <1>1 DEF IInv, TypeOK, ServedOnce
      <4> QED
        BY <4>1, <1>5, <1>7
    <3> QED
      BY <3>1, <3>2
  <2>5. \A x, y \in CallDatas :
           InService(x)' /\ InService(y)' /\ call'[x] = call'[y] => x = y
    BY <1>5, <1>7, <2>2 DEF IInv, ServedOnce
  <2> QED
    BY <2>3, <2>4, <2>5 DEF ServedOnce
<1>10. OwnAnswer'
  BY <1>1 DEF IInv, TypeOK, OwnAnswer, Rpc!Allowed, Rpc!Refused, Bind
<1> QED
  BY <1>1, <1>5, <1>8, <1>9, <1>10 DEF IInv

(* The end of Finish completes the call and queues the CallData, which      *)
(* serves nobody from then on.                                              *)
LEMMA SendReplyStep ==
    ASSUME IInv, NEW d \in CallDatas, SendReply(d) PROVE IInv'
<1>1. TypeOK /\ TypeOK'
  BY TypeStep DEF IInv, Next
<1>2. CallDataInv(d) /\ Sending(d) /\ InService(d)
      /\ status[d] = "FINISHED" /\ call[d] \in Clients /\ finish[d].to = call[d]
      /\ [code |-> finish[d].code, payload |-> finish[d].payload] \in Rpc!Allowed(call[d])
  <2>1. CallDataInv(d) /\ Sending(d)
    BY DEF IInv, Sending, SendReply
  <2>2. /\ status[d] = "FINISHED" /\ call[d] # NoClient /\ finish[d].to = call[d]
        /\ [code |-> finish[d].code, payload |-> finish[d].payload] \in Rpc!Allowed(call[d])
    BY <2>1 DEF CallDataInv, PlaceInv, SendingInv
  <2>3. call[d] \in Clients
    BY <1>1, <2>2 DEF TypeOK, Whom
  <2> QED
    BY <2>1, <2>2, <2>3 DEF InService
<1>3. ~Queued(d) /\ ~Held(d) /\ ~Running(d) /\ d \notin listening
  BY <1>2 DEF CallDataInv, InOnePlace
<1>4. PICK b \in BOOLEAN : cq' = cq \cup {Event(d, b)}
  BY Zenon DEF SendReply
<1>5. PICK e \in Events : e.cd = d /\ cq' = cq \cup {e}
  BY <1>4, EventType DEF Event
<1>6. \A x \in CallDatas \ {d} : Untouched(x)
  BY <1>1, <1>5 DEF TypeOK, Untouched, SendReply
<1>7. \A x \in CallDatas \ {d} :
         CallDataInv(x)' /\ (InService(x)' <=> InService(x)) /\ call'[x] = call[x]
  BY <1>1, <1>6, Elsewhere DEF IInv, Untouched
<1>8. Queued(d)' /\ ~Held(d)' /\ ~Running(d)' /\ ~Sending(d)' /\ d \notin listening'
  BY <1>1, <1>3, <1>5 DEF TypeOK, Queued, Held, Running, Sending, SendReply
<1>9. ~InService(d)' /\ call'[d] = call[d] /\ status'[d] = "FINISHED"
  BY <1>2, <1>8 DEF InService, Held, SendReply
<1>10. CallDataInv(d)'
  <2>1. InOnePlace(d)' /\ OneWorker(d)'
    BY <1>2, <1>8 DEF CallDataInv, InOnePlace, OneWorker, SendReply
  <2>2. OneEvent(d)'
    BY <1>3, <1>5 DEF OneEvent, Queued
  <2>3. QueuedInv(d)'
    BY <1>2, <1>9, AdapterAssumption DEF QueuedInv
  <2> QED
    BY <1>8, <1>9, <2>1, <2>2, <2>3
    DEF CallDataInv, PlaceInv, ListeningInv, HeldInv, RunningInv, SendingInv, MethodInv, Held
<1>11. /\ client'[call[d]] \in {"answered", "idle"}
       /\ \A a \in Clients \ {call[d]} : client'[a] = client[a]
  BY <1>1, <1>2 DEF TypeOK, SendReply
<1>12. ServedOnce'
  <2>1. \A x \in CallDatas \ {d} : InService(x) => call[x] \in Clients \ {call[d]}
    BY <1>1, <1>2 DEF IInv, TypeOK, Whom, ServedOnce, InService
  <2>2. \A x \in CallDatas : InService(x)' => client'[call'[x]] \in {"accepted", "gone"}
    BY <1>7, <1>9, <1>11, <2>1 DEF IInv, ServedOnce
  <2>3. ASSUME NEW a \in Clients, client'[a] \in {"accepted", "gone"}
        PROVE  \E x \in CallDatas : InService(x)' /\ call'[x] = a
    <3>1. a # call[d]
      BY <2>3, <1>11
    <3>2. PICK x \in CallDatas : InService(x) /\ call[x] = a
      BY <3>1, <2>3, <1>11 DEF IInv, ServedOnce
    <3> QED
      BY <3>1, <3>2, <1>7
  <2>4. \A x, y \in CallDatas :
           InService(x)' /\ InService(y)' /\ call'[x] = call'[y] => x = y
    BY <1>7, <1>9 DEF IInv, ServedOnce
  <2> QED
    BY <2>2, <2>3, <2>4 DEF ServedOnce
<1>13. OwnAnswer'
  <2>1. \A a \in Clients : Rpc!Allowed(a)' = Rpc!Allowed(a)
    BY DEF Rpc!Allowed, Rpc!Refused, SendReply
  <2>2. \A a \in Clients \ {call[d]} : answer'[a] = answer[a]
    BY <1>1, <1>2 DEF TypeOK, SendReply
  <2>3. client'[call[d]] = "answered" =>
           answer'[call[d]] = [code |-> finish[d].code, payload |-> finish[d].payload]
    BY <1>1, <1>2 DEF TypeOK, SendReply
  <2> QED
    BY <1>2, <1>11, <2>1, <2>2, <2>3 DEF IInv, OwnAnswer
<1> QED
  BY <1>1, <1>7, <1>10, <1>12, <1>13 DEF IInv

(* What CallDataManager::Start sets up satisfies the invariant.             *)
LEMMA InitInv == Init => IInv
<1> SUFFICES ASSUME Init PROVE IInv
  OBVIOUS
<1> USE AdapterAssumption
<1>1. TypeOK
  BY DEF Init, Rpc!RpcInit, TypeOK, Rpc!ClientStates, Rpc!Asks, Rpc!Answers, Rpc!Codes,
         Rpc!NoAnswer, WorkerSteps, CoroSteps, Whom, Events, NoCoro, NoFinish
<1>2. \A d \in CallDatas : CallDataInv(d) /\ ~InService(d)
  BY DEF Init, CallDataInv, InOnePlace, OneEvent, OneWorker, PlaceInv, ListeningInv, QueuedInv,
         HeldInv, RunningInv, SendingInv, MethodInv, InService, Queued, Held, Running, Sending, Blank
<1>3. ServedOnce /\ OwnAnswer
  BY <1>2 DEF Init, Rpc!RpcInit, ServedOnce, OwnAnswer
<1> QED
  BY <1>1, <1>2, <1>3 DEF IInv

(* Every step of the system preserves the invariant.                        *)
LEMMA Inductive == IInv /\ [Next]_vars => IInv'
<1> SUFFICES ASSUME IInv, [Next]_vars PROVE IInv'
  OBVIOUS
<1>1. CASE UNCHANGED vars
  <2>1. TypeOK /\ TypeOK'
    BY TypeStep DEF IInv
  <2>2. \A x \in CallDatas : Untouched(x)
    BY <1>1 DEF vars, Untouched
  <2>3. \A x \in CallDatas : CallDataInv(x)' /\ (InService(x)' <=> InService(x))
    BY <2>1, <2>2, Elsewhere DEF IInv
  <2>4. ServedOnce'
    BY <1>1, <2>1, <2>3, ServedFrame DEF IInv, vars
  <2>5. OwnAnswer'
    BY <1>1 DEF IInv, OwnAnswer, Rpc!Allowed, Rpc!Refused, vars
  <2> QED
    BY <2>1, <2>3, <2>4, <2>5 DEF IInv
<1> QED
  BY <1>1, ArriveStep, CancelStep, BindStep, SendReplyStep, RunLogicStep, OnLogicFinishedStep,
     HandleRpcStep, ProceedStep, CoSpawnStep, RejectStep, ResetStep, RegisterStep
  DEF Next, WorkerStep, AsioStep

(* The whole inductive invariant holds in every state of every execution,   *)
(* for any number of CallDatas, worker threads, callers and methods.        *)
THEOREM Invariance == Spec => []IInv
  BY InitInv, Inductive, PTL DEF Spec

(* Every variable keeps its type; in particular a worker holds a CallData   *)
(* exactly while it is inside Proceed.                                      *)
THEOREM TypeCorrect == Spec => []TypeOK
<1>1. IInv => TypeOK
  BY DEF IInv
<1> QED
  BY <1>1, Invariance, PTL

(* No two threads ever have the same CallData, and none leaks: the          *)
(* ownership discipline of Proceed, co_spawn, Finish and                    *)
(* RegisterCallDataToCQ holds in every state.                               *)
THEOREM OneOwnerAlways == Spec => []OneOwner
<1>1. IInv => OneOwner
  BY DEF IInv, CallDataInv, OneOwner
<1> QED
  BY <1>1, Invariance, PTL

(* Every call that gRPC has accepted is served by exactly one CallData      *)
(* until it is completed, whatever the threads, cancellations and failed    *)
(* sends do.                                                                *)
THEOREM ServedOnceAlways == Spec => []ServedOnce
<1>1. IInv => ServedOnce
  BY DEF IInv
<1> QED
  BY <1>1, Invariance, PTL

(* No caller ever receives data of another call, nor protected data without *)
(* a token that verifies: Reset() and the order of HandleProcess suffice.   *)
THEOREM OwnAnswerAlways == Spec => []OwnAnswer
<1>1. IInv => OwnAnswer
  BY DEF IInv
<1> QED
  BY <1>1, Invariance, PTL

(* Every step of the adapter is, for its callers, a step of RpcServer or    *)
(* none at all: Bind takes a call in, SendReply answers or discards it, and *)
(* everything worker and asio threads do in between is invisible.           *)
LEMMA RpcStep ==
    IInv /\ [Next]_vars => [Rpc!RpcNext]_(Rpc!rpcVars)
<1> SUFFICES ASSUME IInv, [Next]_vars PROVE [Rpc!RpcNext]_(Rpc!rpcVars)
  OBVIOUS
<1>1. ASSUME NEW c \in Clients, Arrive(c) \/ Cancel(c) PROVE Rpc!RpcNext
  BY <1>1 DEF Arrive, Cancel, Rpc!RpcNext
<1>2. ASSUME NEW d \in CallDatas, NEW c \in Clients, Bind(d, c) PROVE Rpc!RpcNext
  BY <1>2 DEF Bind, Rpc!Accept, Rpc!RpcNext
<1>3. ASSUME NEW d \in CallDatas, SendReply(d) PROVE Rpc!RpcNext
  <2>1. PICK c : c = call[d]
    OBVIOUS
  <2>2. Sending(d) /\ SendingInv(d)
    BY <1>3 DEF IInv, CallDataInv, PlaceInv, Sending, SendReply
  <2>3. /\ c \in Clients /\ finish[d].to = c
        /\ [code |-> finish[d].code, payload |-> finish[d].payload] \in Rpc!Allowed(c)
    BY <2>1, <2>2 DEF IInv, TypeOK, Whom, SendingInv
  <2>4. UNCHANGED ask
    BY <1>3 DEF SendReply
  <2>5. \/ /\ client[c] = "accepted"
           /\ client' = [client EXCEPT ![c] = "answered"]
           /\ answer' = [answer EXCEPT
                  ![c] = [code |-> finish[d].code, payload |-> finish[d].payload]]
        \/ /\ client[c] = "gone"
           /\ client' = [client EXCEPT ![c] = "idle"]
           /\ UNCHANGED answer
    BY <1>3, <2>3 DEF SendReply
  <2>6. Rpc!Answer(c) \/ Rpc!Discard(c)
    BY <2>3, <2>4, <2>5 DEF Rpc!Answer, Rpc!Discard
  <2> QED
    BY <2>3, <2>6 DEF Rpc!RpcNext
<1>4. ASSUME NEW d \in CallDatas, AsioStep(d) PROVE UNCHANGED Rpc!rpcVars
  BY <1>4 DEF AsioStep, RunLogic, OnLogicFinished, Rpc!rpcVars
<1>5. ASSUME NEW w \in Workers, WorkerStep(w) PROVE UNCHANGED Rpc!rpcVars
  BY <1>5 DEF WorkerStep, HandleRpc, Proceed, CoSpawn, Reject, Reset, RegisterCallDataToCQ,
              Rpc!rpcVars
<1>6. CASE UNCHANGED vars
  BY <1>6 DEF vars, Rpc!rpcVars
<1> QED
  BY <1>1, <1>2, <1>3, <1>4, <1>5, <1>6 DEF Next

(* The adapter implements the safety part of RpcServer, the promise that    *)
(* UserService makes to callers; the fairness part is left to TLC.          *)
THEOREM Implements == Spec => Rpc!RpcSafety
<1>1. Init => Rpc!RpcInit
  BY DEF Init
<1> QED
  BY <1>1, Invariance, RpcStep, PTL DEF Spec, Rpc!RpcSafety

================================================================================
