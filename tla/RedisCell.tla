------------------------------- MODULE RedisCell -------------------------------
(***************************************************************************)
(* What RedisClient promises its callers about one key, whichever          *)
(* connection a command takes and whenever connections break:              *)
(*  - a command that is answered took effect at one moment between the     *)
(*    call and the answer;                                                 *)
(*  - a SET that is reported as failed took effect before the report, or   *)
(*    takes effect at some later time, even after newer SETs, or never;    *)
(*  - nothing but a SET or its expiry changes the key.                     *)
(* UserAccounts and UserReads use Redis with exactly these outcomes.       *)
(***************************************************************************)
CONSTANTS Tasks, Values, Absent

VARIABLES
    cell,      \* the value of the key, Absent if there is none
    call,      \* call[t]: the value that t sets, "GET", or "none"
    effect,    \* effect[t]: what the command of t will be answered, or "pending"
    result,    \* result[t]: how the last command of t ended
    late       \* values of failed SETs that may still take effect

vars == <<cell, call, effect, result, late>>

CellInit ==
    /\ cell = Absent
    /\ call = [t \in Tasks |-> "none"]
    /\ effect = [t \in Tasks |-> "pending"]
    /\ result = [t \in Tasks |-> "none"]
    /\ late = {}

Call(t, c) ==
    /\ call[t] = "none"
    /\ call' = [call EXCEPT ![t] = c]
    /\ result' = [result EXCEPT ![t] = "none"]
    /\ UNCHANGED <<cell, effect, late>>

(* The moment of the command; the server may refuse it. *)
TakeEffect(t) ==
    /\ call[t] # "none" /\ effect[t] = "pending"
    /\ \/ /\ call[t] = "GET"
          /\ effect' = [effect EXCEPT ![t] = cell]
          /\ UNCHANGED cell
       \/ /\ call[t] \in Values
          /\ effect' = [effect EXCEPT ![t] = "OK"]
          /\ cell' = call[t]
       \/ /\ effect' = [effect EXCEPT ![t] = "error"]
          /\ UNCHANGED cell
    /\ UNCHANGED <<call, result, late>>

Return(t, answer) ==
    /\ call[t] # "none"
    /\ call' = [call EXCEPT ![t] = "none"]
    /\ effect' = [effect EXCEPT ![t] = "pending"]
    /\ result' = [result EXCEPT ![t] = answer]
    /\ UNCHANGED cell

Answer(t) == effect[t] # "pending" /\ Return(t, effect[t]) /\ UNCHANGED late

Fails == {t \in Tasks : call[t] # "none"}

(* The commands of some tasks fail together; of the SETs that had not taken *)
(* effect any may do so later.                                              *)
Fail ==
    \E F \in (SUBSET Fails) \ {{}} :
        /\ call' = [t \in Tasks |-> IF t \in F THEN "none" ELSE call[t]]
        /\ effect' = [t \in Tasks |-> IF t \in F THEN "pending" ELSE effect[t]]
        /\ result' = [t \in Tasks |-> IF t \in F THEN "error" ELSE result[t]]
        /\ \E L \in SUBSET {call[t] : t \in {f \in F : effect[f] = "pending"}} :
              late' = late \cup (L \cap Values)
        /\ UNCHANGED cell

LateEffect(v) ==
    /\ v \in late
    /\ cell' = v
    /\ late' \in {late, late \ {v}}
    /\ UNCHANGED <<call, effect, result>>

Expire ==
    /\ cell' = Absent
    /\ UNCHANGED <<call, effect, result, late>>

CellNext ==
    \/ \E t \in Tasks : TakeEffect(t) \/ Answer(t) \/ \E c \in Values \cup {"GET"} : Call(t, c)
    \/ Fail \/ Expire
    \/ \E v \in Values : LateEffect(v)

CellSpec == CellInit /\ [][CellNext]_vars
================================================================================
