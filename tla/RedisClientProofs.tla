---------------------------- MODULE RedisClientProofs ---------------------------
(***************************************************************************)
(* Proofs about RedisClient for any number of coroutines, values and       *)
(* connections, and any width of the request counter: the types with the   *)
(* one place of every command, and that the client implements RedisCell.   *)
(*                                                                         *)
(* The inductive invariant is the type invariant with the places of a      *)
(* command told one by one (Placed). The refinement needs it: a reply is   *)
(* given to the command at the head of a line, and it is the reply to      *)
(* that command only because no command is in two lines.                   *)
(***************************************************************************)
EXTENDS RedisClient, SequenceTheorems, TLAPS

Results == Values \cup {Absent, "OK", "error", "none"}

(* The places of a command. The parameters are values of strand and line.   *)
Posted(s, k, i, t) == i \in 1..Len(s[k]) /\ s[k][i] = t
InLine(l, k, i, t) == i \in 1..Len(l[k]) /\ l[k][i].task = t

(* A command in progress, and no other, has a place, and only one. *)
OnePlace(c, s, l, t) ==
    /\ c # "none" =>
          \E k \in Conns, i \in Nat : Posted(s, k, i, t) \/ InLine(l, k, i, t)
    /\ \A k \in Conns, i \in Nat : Posted(s, k, i, t) \/ InLine(l, k, i, t) => c # "none"
    /\ \A k, m \in Conns, i, j \in Nat :
          /\ Posted(s, k, i, t) /\ Posted(s, m, j, t) => k = m /\ i = j
          /\ InLine(l, k, i, t) /\ InLine(l, m, j, t) => k = m /\ i = j
          /\ ~(Posted(s, k, i, t) /\ InLine(l, m, j, t))

Placed(calls, s, l) == \A t \in Tasks : OnePlace(calls[t], s, l, t)

Types ==
    /\ counter \in 0..(CounterSize - 1)
    /\ call \in [Tasks -> Values \cup {"GET", "none"}]
    /\ result \in [Tasks -> Results]
    /\ strand \in [Conns -> Seq(Tasks)]
    /\ up \subseteq Conns
    /\ line \in [Conns -> Seq(Requests)]
    /\ store \in Values \cup {Absent}
    /\ orphans \subseteq Values

IInv == Types /\ Placed(call, strand, line)

--------------------------------------------------------------------------------
(* The operators of the model. *)

(* request_counter_ modulo the size of the pool names a connection. *)
LEMMA NextConnection ==
    ASSUME counter \in 0..(CounterSize - 1)
    PROVE  /\ GetNextConnection \in Conns
           /\ (counter + 1) % CounterSize \in 0..(CounterSize - 1)
BY RedisAssumption DEF GetNextConnection, Conns

(* The words that mark a command or a reply are not values of the key. *)
LEMMA WordsAreNotValues ==
    \A v \in Values \cup {Absent} :
        /\ v # "GET" /\ v # "none" /\ v # "OK" /\ v # "error"
        /\ v # "refused" /\ v # "pending"
BY RedisAssumption

(* What ExtractResult makes of a reply is a result, and never "pending". *)
LEMMA ExtractResultType ==
    ASSUME NEW reply \in Replies
    PROVE  ExtractResult(reply) \in Results /\ ExtractResult(reply) # "pending"
BY WordsAreNotValues DEF Replies, ExtractResult, Results

(* The spots of a command, one by one. *)
LEMMA SpotsAre ==
    ASSUME NEW t, NEW x
    PROVE  x \in Spots(t) <=>
               \E k \in Conns, i \in Nat :
                   \/ x = <<"strand", k, i>> /\ Posted(strand, k, i, t)
                   \/ x = <<"line", k, i>> /\ InLine(line, k, i, t)
BY DEF Spots, Posted, InLine

--------------------------------------------------------------------------------
(* The queues of the connections. *)

(* What a post, async_exec, the strand and a completion do to the places:   *)
(* one more at the end of the queue of k, or all of them one place further. *)
PostedLast(s, r, k, t) ==
    \A m \in Conns, i \in Nat : \A u :
        Posted(r, m, i, u) <=> Posted(s, m, i, u) \/ (m = k /\ i = Len(s[k]) + 1 /\ u = t)

LinedLast(l, r, k, q) ==
    /\ r[k][Len(l[k]) + 1] = q
    /\ \A m \in Conns, i \in Nat : \A u :
          /\ InLine(r, m, i, u) <=>
                 InLine(l, m, i, u) \/ (m = k /\ i = Len(l[k]) + 1 /\ u = q.task)
          /\ InLine(l, m, i, u) => r[m][i] = l[m][i]

PostedUp(s, r, k) ==
    /\ Posted(s, k, 1, Head(s[k]))
    /\ \A m \in Conns, i \in Nat : \A u :
          /\ m # k => (Posted(r, m, i, u) <=> Posted(s, m, i, u))
          /\ Posted(r, k, i, u) => i # 0 /\ Posted(s, k, i + 1, u)
          /\ Posted(s, k, i, u) => IF i = 1 THEN u = Head(s[k])
                                   ELSE i - 1 \in Nat /\ Posted(r, k, i - 1, u)

LinedUp(l, r, k) ==
    /\ InLine(l, k, 1, Head(l[k]).task) /\ Head(l[k]) = l[k][1]
    /\ \A m \in Conns, i \in Nat : \A u :
          /\ m # k => r[m] = l[m] /\ (InLine(r, m, i, u) <=> InLine(l, m, i, u))
          /\ InLine(r, k, i, u) =>
                 i # 0 /\ InLine(l, k, i + 1, u) /\ r[k][i] = l[k][i + 1]
          /\ InLine(l, k, i, u) =>
                 IF i = 1 THEN u = Head(l[k]).task
                 ELSE i - 1 \in Nat /\ InLine(r, k, i - 1, u) /\ r[k][i - 1] = l[k][i]

(* A post adds the coroutine at the end of one strand. *)
LEMMA PostAdds ==
    ASSUME NEW s \in [Conns -> Seq(Tasks)], NEW k \in Conns, NEW t \in Tasks
    PROVE  PostedLast(s, [s EXCEPT ![k] = Append(@, t)], k, t)
<1>1. /\ Append(s[k], t) \in Seq(Tasks) /\ Len(s[k]) \in Nat
      /\ Len(Append(s[k], t)) = Len(s[k]) + 1 /\ Append(s[k], t)[Len(s[k]) + 1] = t
      /\ \A i \in 1..Len(s[k]) : Append(s[k], t)[i] = s[k][i]
  BY AppendProperties, LenProperties
<1> QED
  BY <1>1 DEF Posted, PostedLast

(* async_exec adds a request of the coroutine at the end of one line. *)
LEMMA ExecAdds ==
    ASSUME NEW l \in [Conns -> Seq(Requests)], NEW k \in Conns, NEW q \in Requests
    PROVE  LinedLast(l, [l EXCEPT ![k] = Append(@, q)], k, q)
<1>1. /\ Append(l[k], q) \in Seq(Requests) /\ Len(l[k]) \in Nat
      /\ Len(Append(l[k], q)) = Len(l[k]) + 1 /\ Append(l[k], q)[Len(l[k]) + 1] = q
      /\ \A i \in 1..Len(l[k]) : Append(l[k], q)[i] = l[k][i]
  BY AppendProperties, LenProperties
<1> QED
  BY <1>1 DEF InLine, LinedLast

(* The strand runs its oldest job, and the others move up. *)
LEMMA StrandRuns ==
    ASSUME NEW s \in [Conns -> Seq(Tasks)], NEW k \in Conns, s[k] # <<>>
    PROVE  PostedUp(s, [s EXCEPT ![k] = Tail(@)], k)
<1>1. /\ Tail(s[k]) \in Seq(Tasks) /\ Len(s[k]) \in Nat \ {0}
      /\ Head(s[k]) \in Tasks /\ Head(s[k]) = s[k][1] /\ Len(Tail(s[k])) = Len(s[k]) - 1
      /\ \A i \in 1..(Len(s[k]) - 1) : Tail(s[k])[i] = s[k][i + 1]
  BY HeadTailProperties, EmptySeq
<1> QED
  BY <1>1 DEF Posted, PostedUp

(* The oldest request of a connection leaves, and the others move up. *)
LEMMA LineMoves ==
    ASSUME NEW l \in [Conns -> Seq(Requests)], NEW k \in Conns, l[k] # <<>>
    PROVE  LinedUp(l, [l EXCEPT ![k] = Tail(@)], k)
<1>1. /\ Tail(l[k]) \in Seq(Requests) /\ Len(l[k]) \in Nat \ {0}
      /\ Head(l[k]) \in Requests /\ Head(l[k]) = l[k][1] /\ Len(Tail(l[k])) = Len(l[k]) - 1
      /\ \A i \in 1..(Len(l[k]) - 1) : Tail(l[k])[i] = l[k][i + 1]
  BY HeadTailProperties, EmptySeq
<1> QED
  BY <1>1 DEF InLine, LinedUp

(* The requests stay where they are, and their replies are y at place n of  *)
(* the line of k and what they were elsewhere.                              *)
SameLine(l, r) == \A m \in Conns, i \in Nat : \A u : InLine(r, m, i, u) <=> InLine(l, m, i, u)

SameReplies(l, r) ==
    \A m \in Conns, i \in Nat : \A u : InLine(l, m, i, u) => r[m][i].reply = l[m][i].reply

RepliesBut(l, r, k, n, y) ==
    \A m \in Conns, i \in Nat : \A u :
        InLine(l, m, i, u) => r[m][i].reply = IF m = k /\ i = n THEN y ELSE l[m][i].reply

(* A line after a write. *)
Marked(q) == [i \in 1..Len(q) |-> [q[i] EXCEPT !.written = TRUE]]

(* A write marks the requests of one line and changes nothing else in them. *)
LEMMA WriteMarks ==
    ASSUME NEW l \in [Conns -> Seq(Requests)], NEW k \in Conns, NEW r,
           r = [l EXCEPT ![k] = Marked(l[k])]
    PROVE  r \in [Conns -> Seq(Requests)] /\ SameLine(l, r) /\ SameReplies(l, r)
<1> DEFINE n == Len(l[k])
           w == Marked(l[k])
<1>1. n \in Nat /\ \A i \in 1..n : l[k][i] \in Requests
  BY LenProperties, ElementOfSeq
<1>2. \A i \in 1..n : /\ w[i] \in Requests
                      /\ w[i].task = l[k][i].task /\ w[i].reply = l[k][i].reply
  BY <1>1 DEF Requests, Marked
<1>3. w \in Seq(Requests) /\ Len(w) = n
  BY <1>1, <1>2 DEF Marked
<1> HIDE DEF w
<1>4. r \in [Conns -> Seq(Requests)] /\ r[k] = w /\ \A m \in Conns : m # k => r[m] = l[m]
  BY <1>3 DEF w
<1> QED
  BY <1>2, <1>3, <1>4 DEF InLine, SameLine, SameReplies

(* The server answers one request and changes nothing else in the lines. *)
LEMMA ServeAnswers ==
    ASSUME NEW l \in [Conns -> Seq(Requests)], NEW k \in Conns, NEW n \in 1..Len(l[k]),
           NEW y \in Replies, NEW r, r = [l EXCEPT ![k][n].reply = y]
    PROVE  r \in [Conns -> Seq(Requests)] /\ SameLine(l, r) /\ RepliesBut(l, r, k, n, y)
<1> DEFINE q == [l[k][n] EXCEPT !.reply = y]
           w == [l[k] EXCEPT ![n] = q]
<1>1. l[k][n] \in Requests
  BY ElementOfSeq
<1>2. q \in Requests /\ q.task = l[k][n].task /\ q.reply = y
  BY <1>1 DEF Requests
<1> HIDE DEF q
<1>3. /\ w \in Seq(Requests) /\ Len(w) = Len(l[k])
      /\ \A i \in 1..Len(l[k]) : w[i] = IF i = n THEN q ELSE l[k][i]
  BY <1>2, ExceptSeq
<1>4. r = [l EXCEPT ![k] = w]
  BY DEF q
<1> HIDE DEF w
<1>5. r \in [Conns -> Seq(Requests)] /\ r[k] = w /\ \A m \in Conns : m # k => r[m] = l[m]
  BY <1>3, <1>4
<1>6. SameLine(l, r) /\ RepliesBut(l, r, k, n, y)
  BY <1>2, <1>3, <1>5 DEF InLine, SameLine, RepliesBut
<1> QED
  BY <1>5, <1>6

--------------------------------------------------------------------------------
(* A command in progress is at one place. *)

(* A command that begins has the place where it is posted. *)
LEMMA BeginKeeps ==
    ASSUME NEW t \in Tasks, NEW c \in Values \cup {"GET"}, IInv, Begin(t, c)
    PROVE  IInv'
<1>1. GetNextConnection \in Conns /\ counter' \in 0..(CounterSize - 1)
  BY NextConnection DEF IInv, Types, Begin
<1> PICK k \in Conns : k = GetNextConnection
  BY <1>1
<1> DEFINE n == Len(strand[k]) + 1
           r == [strand EXCEPT ![k] = Append(@, t)]
<1>2. strand' \in [Conns -> Seq(Tasks)] /\ n \in Nat /\ PostedLast(strand, strand', k, t)
  <2>1. strand \in [Conns -> Seq(Tasks)]
    BY DEF IInv, Types
  <2>2. PostedLast(strand, r, k, t)
    BY <2>1, PostAdds
  <2>4. r \in [Conns -> Seq(Tasks)] /\ n \in Nat
    BY <2>1, AppendProperties, LenProperties
  <2>3. strand' = r
    BY DEF Begin
  <2> QED
    BY <2>2, <2>3, <2>4
<1> HIDE DEF n
<1>3. c # "none"
  BY WordsAreNotValues
<1>4. Types'
  BY <1>1, <1>2 DEF IInv, Types, Begin, Results
<1>5. \A m \in Conns, i \in Nat : ~Posted(strand, m, i, t) /\ ~InLine(line, m, i, t)
  BY DEF IInv, Placed, OnePlace, Begin
<1>6. call'[t] = c /\ \A u \in Tasks : u # t => call'[u] = call[u]
  BY DEF IInv, Types, Begin
<1>7. ASSUME NEW u \in Tasks PROVE OnePlace(call'[u], strand', line, u)
  <2>1. CASE u = t
    BY <1>1, <1>2, <1>3, <1>5, <1>6, <2>1 DEF OnePlace, PostedLast, n
  <2>2. CASE u # t
    <3>1. \A m \in Conns, i \in Nat : Posted(strand', m, i, u) <=> Posted(strand, m, i, u)
      BY <1>2, <2>2 DEF PostedLast
    <3>2. OnePlace(call'[u], strand, line, u)
      BY <1>6, <2>2 DEF IInv, Placed
    <3> QED
      BY <3>1, <3>2 DEF OnePlace
  <2> QED
    BY <2>1, <2>2
<1> QED
  BY <1>4, <1>7 DEF IInv, Placed, Begin

(* The request that async_exec is given takes the place of the posted job.  *)
LEMMA ExecKeeps ==
    ASSUME NEW k \in Conns, IInv, Exec(k)
    PROVE  /\ IInv'
           /\ \E q \in Requests : q.reply = "pending" /\ LinedLast(line, line', k, q)
<1> DEFINE t == Head(strand[k])
           q == [task |-> t, written |-> FALSE, reply |-> "pending"]
<1>1. strand \in [Conns -> Seq(Tasks)] /\ line \in [Conns -> Seq(Requests)] /\ strand[k] # <<>>
  BY DEF IInv, Types, Exec
<1>2. t \in Tasks /\ q \in Requests /\ q.task = t
  BY <1>1, HeadTailProperties DEF Requests
<1>3. PostedUp(strand, strand', k)
  <2>1. PostedUp(strand, [strand EXCEPT ![k] = Tail(@)], k)
    BY <1>1, StrandRuns
  <2> QED
    BY <2>1 DEF Exec
<1> HIDE DEF t
<1>4. LinedLast(line, line', k, q)
  <2>1. line' = [line EXCEPT ![k] = Append(@, q)]
    BY DEF Exec, t
  <2> HIDE DEF q
  <2>2. LinedLast(line, [line EXCEPT ![k] = Append(@, q)], k, q)
    BY <1>1, <1>2, ExecAdds
  <2> QED
    BY <2>1, <2>2
<1>5. /\ Tail(strand[k]) \in Seq(Tasks) /\ Append(line[k], q) \in Seq(Requests)
      /\ Len(line[k]) \in Nat
  BY <1>1, <1>2, HeadTailProperties, AppendProperties, LenProperties
<1>6. Types'
  BY <1>5 DEF IInv, Types, Exec, t
<1>7. Posted(strand, k, 1, t) /\ q.reply = "pending"
  BY <1>3 DEF PostedUp, t
<1> HIDE DEF q
<1>8. ASSUME NEW u \in Tasks PROVE OnePlace(call[u], strand', line', u)
  <2>1. OnePlace(call[u], strand, line, u)
    BY DEF IInv, Placed
  <2>2. CASE u = t
    <3>1. \A m \in Conns, i \in Nat : ~Posted(strand', m, i, u)
      <4>1. \A m \in Conns, i \in Nat : Posted(strand, m, i, u) => m = k /\ i = 1
        BY <1>7, <2>1, <2>2 DEF OnePlace
      <4>2. \A m \in Conns, i \in Nat : m # k => ~Posted(strand', m, i, u)
        BY <1>3, <4>1 DEF PostedUp
      <4>3. ASSUME NEW i \in Nat, Posted(strand', k, i, u) PROVE FALSE
        <5>1. i # 0 /\ Posted(strand, k, i + 1, u)
          BY <1>3, <4>3 DEF PostedUp
        <5>2. i + 1 = 1
          BY <4>1, <5>1
        <5> QED
          BY <5>1, <5>2
      <4> QED
        BY <4>2, <4>3
    <3>2. \A m \in Conns, i \in Nat : ~InLine(line, m, i, u)
      BY <1>7, <2>1, <2>2 DEF OnePlace
    <3>3. \A m \in Conns, i \in Nat : InLine(line', m, i, u) <=> m = k /\ i = Len(line[k]) + 1
      BY <1>2, <1>4, <2>2, <3>2 DEF LinedLast
    <3>4. call[u] # "none"
      BY <1>7, <2>1, <2>2 DEF OnePlace
    <3> QED
      BY <1>5, <3>1, <3>3, <3>4 DEF OnePlace
  <2>3. CASE u # t
    <3>1. \A m \in Conns, i \in Nat : InLine(line', m, i, u) <=> InLine(line, m, i, u)
      BY <1>2, <1>4, <2>3 DEF LinedLast
    <3>2. \A m \in Conns, i \in Nat : m # k => (Posted(strand', m, i, u) <=> Posted(strand, m, i, u))
      BY <1>3 DEF PostedUp
    <3>3. \A i \in Nat : Posted(strand', k, i, u) => Posted(strand, k, i + 1, u)
      BY <1>3 DEF PostedUp
    <3>4. \A i \in Nat : Posted(strand, k, i, u) => i - 1 \in Nat /\ Posted(strand', k, i - 1, u)
      BY <1>3, <2>3 DEF PostedUp, t
    <3>5. \A m \in Conns, i \in Nat : Posted(strand', m, i, u) => \E j \in Nat : Posted(strand, m, j, u)
      BY <3>2, <3>3
    <3>6. \A m \in Conns, i \in Nat : Posted(strand, m, i, u) => \E j \in Nat : Posted(strand', m, j, u)
      BY <3>2, <3>4
    <3>7. ASSUME NEW m \in Conns, NEW i \in Nat, NEW l \in Conns, NEW j \in Nat,
                 Posted(strand', m, i, u), Posted(strand', l, j, u)
          PROVE  m = l /\ i = j
      <4>1. m = l
        BY <2>1, <3>5, <3>7 DEF OnePlace
      <4>2. CASE m # k
        BY <2>1, <3>2, <3>7, <4>1, <4>2 DEF OnePlace
      <4>3. CASE m = k
        <5>1. i + 1 = j + 1
          BY <2>1, <3>3, <3>7, <4>1, <4>3 DEF OnePlace
        <5> QED
          BY <4>1, <5>1
      <4> QED
        BY <4>2, <4>3
    <3> QED
      BY <2>1, <3>1, <3>5, <3>6, <3>7 DEF OnePlace
  <2> QED
    BY <2>2, <2>3
<1> QED
  BY <1>2, <1>4, <1>6, <1>7, <1>8 DEF IInv, Placed, Exec

(* The oldest request of a line, and what happens to the line when it ends. *)
LEMMA FinishMoves ==
    ASSUME NEW k \in Conns, IInv, Finish(k)
    PROVE  /\ Head(line[k]) \in Requests /\ Head(line[k]).reply \in Replies
           /\ Head(line[k]).task \in Tasks
           /\ LinedUp(line, line', k)
           /\ \A m \in Conns, i \in Nat : ~InLine(line', m, i, Head(line[k]).task)
<1> DEFINE t == Head(line[k]).task
<1>1. line \in [Conns -> Seq(Requests)] /\ line[k] # <<>>
  BY DEF IInv, Types, Finish
<1>2. Head(line[k]) \in Requests /\ t \in Tasks /\ Head(line[k]).reply \in Replies
  <2>1. Head(line[k]) \in Requests
    BY <1>1, HeadTailProperties
  <2> QED
    BY <2>1 DEF Requests, Finish
<1>3. LinedUp(line, line', k)
  <2>1. LinedUp(line, [line EXCEPT ![k] = Tail(@)], k)
    BY <1>1, LineMoves
  <2> QED
    BY <2>1 DEF Finish
<1>4. InLine(line, k, 1, t)
  BY <1>3 DEF LinedUp
<1> HIDE DEF t
<1>5. \A m \in Conns, i \in Nat : InLine(line, m, i, t) => m = k /\ i = 1
  BY <1>2, <1>4 DEF IInv, Placed, OnePlace
<1>6. \A m \in Conns, i \in Nat : m # k => ~InLine(line', m, i, t)
  BY <1>3, <1>5 DEF LinedUp
<1>7. ASSUME NEW i \in Nat, InLine(line', k, i, t) PROVE FALSE
  <2>1. i # 0 /\ InLine(line, k, i + 1, t)
    BY <1>3, <1>7 DEF LinedUp
  <2>2. i + 1 = 1
    BY <1>5, <2>1
  <2> QED
    BY <2>1, <2>2
<1> QED
  BY <1>2, <1>3, <1>6, <1>7 DEF t

(* A command that ends leaves its place, and the others keep theirs. *)
LEMMA FinishKeeps ==
    ASSUME NEW k \in Conns, IInv, Finish(k)
    PROVE  IInv'
<1> DEFINE t == Head(line[k]).task
<1>1. /\ Head(line[k]).reply \in Replies /\ t \in Tasks /\ LinedUp(line, line', k)
      /\ \A m \in Conns, i \in Nat : ~InLine(line', m, i, t)
  BY FinishMoves
<1>2. Types'
  <2>1. Tail(line[k]) \in Seq(Requests)
    BY HeadTailProperties DEF IInv, Types, Finish
  <2>2. ExtractResult(Head(line[k]).reply) \in Results
    BY <1>1, ExtractResultType
  <2> QED
    BY <2>1, <2>2 DEF IInv, Types, Finish
<1>3. InLine(line, k, 1, t)
  BY <1>1 DEF LinedUp
<1>4. call'[t] = "none" /\ \A u \in Tasks : u # t => call'[u] = call[u]
  BY <1>1 DEF IInv, Types, Finish
<1>5. \A u \in Tasks : u # t => \A i \in Nat : InLine(line, k, i, u) =>
          i - 1 \in Nat /\ InLine(line', k, i - 1, u)
  BY <1>1 DEF LinedUp
<1> HIDE DEF t
<1>6. ASSUME NEW u \in Tasks PROVE OnePlace(call'[u], strand, line', u)
  <2>1. OnePlace(call[u], strand, line, u)
    BY DEF IInv, Placed
  <2>2. CASE u = t
    BY <1>1, <1>3, <1>4, <2>1, <2>2 DEF OnePlace
  <2>3. CASE u # t
    <3>1. \A m \in Conns, i \in Nat : m # k => (InLine(line', m, i, u) <=> InLine(line, m, i, u))
      BY <1>1 DEF LinedUp
    <3>2. \A i \in Nat : InLine(line', k, i, u) => InLine(line, k, i + 1, u)
      BY <1>1 DEF LinedUp
    <3>3. \A m \in Conns, i \in Nat : InLine(line', m, i, u) => \E j \in Nat : InLine(line, m, j, u)
      BY <3>1, <3>2
    <3>4. \A m \in Conns, i \in Nat : InLine(line, m, i, u) => \E j \in Nat : InLine(line', m, j, u)
      BY <1>5, <2>3, <3>1
    <3>5. ASSUME NEW m \in Conns, NEW i \in Nat, NEW l \in Conns, NEW j \in Nat,
                 InLine(line', m, i, u), InLine(line', l, j, u)
          PROVE  m = l /\ i = j
      <4>1. m = l
        BY <2>1, <3>3, <3>5 DEF OnePlace
      <4>2. CASE m # k
        BY <2>1, <3>1, <3>5, <4>1, <4>2 DEF OnePlace
      <4>3. CASE m = k
        <5>1. i + 1 = j + 1
          BY <2>1, <3>2, <3>5, <4>1, <4>3 DEF OnePlace
        <5> QED
          BY <4>1, <5>1
      <4> QED
        BY <4>2, <4>3
    <3> QED
      BY <1>4, <2>1, <2>3, <3>3, <3>4, <3>5 DEF OnePlace
  <2> QED
    BY <2>2, <2>3
<1> QED
  BY <1>2, <1>6 DEF IInv, Placed, Finish

(* While no request moves, every command keeps its place. *)
LEMMA StayKeeps ==
    ASSUME IInv, Types', SameLine(line, line'), UNCHANGED <<call, strand>>
    PROVE  IInv'
<1>1. ASSUME NEW u \in Tasks PROVE OnePlace(call[u], strand, line', u)
  <2>1. OnePlace(call[u], strand, line, u)
    BY DEF IInv, Placed
  <2>2. \A m \in Conns, i \in Nat : InLine(line', m, i, u) <=> InLine(line, m, i, u)
    BY DEF SameLine
  <2> QED
    BY <2>1, <2>2 DEF OnePlace
<1> QED
  BY <1>1 DEF IInv, Placed

(* Writing the requests of a line moves none of them. *)
LEMMA WriteKeeps ==
    ASSUME NEW k \in Conns, IInv, Write(k)
    PROVE  IInv' /\ SameLine(line, line') /\ SameReplies(line, line')
<1>1. line \in [Conns -> Seq(Requests)]
  BY DEF IInv, Types
<1>2. line' = [line EXCEPT ![k] = Marked(line[k])]
  BY DEF Write, Marked
<1>3. line' \in [Conns -> Seq(Requests)] /\ SameLine(line, line') /\ SameReplies(line, line')
  BY <1>1, <1>2, WriteMarks
<1>4. Types' /\ UNCHANGED <<call, strand>>
  BY <1>3 DEF IInv, Types, Write
<1> QED
  BY <1>3, <1>4, StayKeeps

(* The server has answered one request, the command c of its task: with the *)
(* value of the key, with OK after a SET, or with an error.                 *)
Answered(k, n, t, y) ==
    /\ InLine(line, k, n, t) /\ line[k][n].reply = "pending"
    /\ RepliesBut(line, line', k, n, y)
    /\ \/ call[t] = "GET" /\ y = store /\ UNCHANGED store
       \/ call[t] \in Values /\ y = "OK" /\ store' = call[t]
       \/ y = "refused" /\ UNCHANGED store

(* The server answers one request where it stands. *)
LEMMA ServeKeeps ==
    ASSUME NEW k \in Conns, IInv, Serve(k)
    PROVE  /\ IInv' /\ SameLine(line, line')
           /\ \E n \in Nat, t \in Tasks, y \in Replies : Answered(k, n, t, y)
<1>0. line \in [Conns -> Seq(Requests)] /\ store \in Values \cup {Absent}
  BY DEF IInv, Types
<1>1. PICK n \in 1..Len(line[k]) :
          LET t == line[k][n].task IN
          /\ line[k][n].reply = "pending"
          /\ \/ call[t] = "GET" /\ line' = [line EXCEPT ![k][n].reply = store] /\ UNCHANGED store
             \/ call[t] \in Values /\ line' = [line EXCEPT ![k][n].reply = "OK"] /\ store' = call[t]
             \/ line' = [line EXCEPT ![k][n].reply = "refused"] /\ UNCHANGED store
          /\ UNCHANGED <<counter, call, result, strand, up, orphans>>
  BY DEF Serve
<1>2. n \in Nat /\ line[k][n] \in Requests
  BY <1>0, ElementOfSeq
<1>3. line[k][n].task \in Tasks
  BY <1>2 DEF Requests
<1>4. PICK t \in Tasks : t = line[k][n].task
  BY <1>3
<1>5. PICK y \in Replies :
          /\ line' = [line EXCEPT ![k][n].reply = y]
          /\ \/ call[t] = "GET" /\ y = store /\ UNCHANGED store
             \/ call[t] \in Values /\ y = "OK" /\ store' = call[t]
             \/ y = "refused" /\ UNCHANGED store
  BY <1>0, <1>1, <1>4 DEF Replies
<1>6. /\ line' \in [Conns -> Seq(Requests)] /\ SameLine(line, line')
      /\ RepliesBut(line, line', k, n, y)
  BY <1>0, <1>5, ServeAnswers
<1>7. InLine(line, k, n, t)
  BY <1>4 DEF InLine
<1>8. Answered(k, n, t, y)
  BY <1>1, <1>5, <1>6, <1>7 DEF Answered
<1>9. Types' /\ UNCHANGED <<call, strand>>
  BY <1>0, <1>1, <1>5, <1>6 DEF IInv, Types
<1> QED
  BY <1>2, <1>6, <1>8, <1>9, StayKeeps

(* A lost connection ends the commands in its line and no others. *)
LEMMA LoseKeeps ==
    ASSUME NEW k \in Conns, IInv, LoseConnection(k)
    PROVE  IInv'
<1> DEFINE failed == {line[k][i].task : i \in 1..Len(line[k])}
<1>1. \A u : u \in failed <=> \E i \in Nat : InLine(line, k, i, u)
  BY DEF InLine
<1>2. Types'
  BY EmptySeq DEF IInv, Types, LoseConnection, Caught, Results
<1>3. \A u \in Tasks : call'[u] = IF u \in failed THEN "none" ELSE call[u]
  BY DEF LoseConnection
<1>4. \A m \in Conns, i \in Nat : \A u : InLine(line', m, i, u) <=> m # k /\ InLine(line, m, i, u)
  BY EmptySeq DEF IInv, Types, LoseConnection, InLine
<1> HIDE DEF failed
<1>5. ASSUME NEW u \in Tasks PROVE OnePlace(call'[u], strand, line', u)
  <2>1. OnePlace(call[u], strand, line, u)
    BY DEF IInv, Placed
  <2>2. CASE u \in failed
    <3>1. PICK i \in Nat : InLine(line, k, i, u)
      BY <1>1, <2>2
    <3>2. \A m \in Conns, j \in Nat : ~InLine(line', m, j, u) /\ ~Posted(strand, m, j, u)
      BY <1>4, <2>1, <3>1 DEF OnePlace
    <3> QED
      BY <1>3, <2>2, <3>2 DEF OnePlace
  <2>3. CASE u \notin failed
    <3>1. \A m \in Conns, j \in Nat : InLine(line', m, j, u) <=> InLine(line, m, j, u)
      BY <1>1, <1>4, <2>3
    <3> QED
      BY <1>3, <2>1, <2>3, <3>1 DEF OnePlace
  <2> QED
    BY <2>2, <2>3
<1> QED
  BY <1>2, <1>5 DEF IInv, Placed, LoseConnection

(* The invariant is preserved, action by action. *)
LEMMA InvStep == IInv /\ [Next]_vars => IInv'
<1> SUFFICES ASSUME IInv, [Next]_vars PROVE IInv'
  OBVIOUS
<1>1. ASSUME NEW t \in Tasks, Get(t) PROVE IInv'
  BY <1>1, BeginKeeps DEF Get
<1>2. ASSUME NEW t \in Tasks, Set(t) PROVE IInv'
  BY <1>2, BeginKeeps DEF Set
<1>3. ASSUME NEW k \in Conns, Reconnect(k) PROVE IInv'
  BY <1>3 DEF Reconnect, IInv, Types, Placed
<1>4. ASSUME NEW v \in Values, ServeOrphan(v) PROVE IInv'
  BY <1>4 DEF ServeOrphan, IInv, Types, Placed
<1>5. CASE Expire
  BY <1>5 DEF Expire, IInv, Types, Placed
<1>6. CASE UNCHANGED vars
  BY <1>6 DEF vars, IInv, Types, Placed
<1>7. ASSUME NEW k \in Conns,
             Exec(k) \/ Finish(k) \/ Write(k) \/ Serve(k) \/ LoseConnection(k)
      PROVE  IInv'
  BY <1>7, ExecKeeps, FinishKeeps, WriteKeeps, ServeKeeps, LoseKeeps
<1> QED
  BY <1>1, <1>2, <1>3, <1>4, <1>5, <1>6, <1>7 DEF Next

(* The invariant of this module holds in every reachable state. *)
THEOREM Invariance == Spec => []IInv
<1>1. Init => IInv
  <2> SUFFICES ASSUME Init PROVE IInv
    OBVIOUS
  <2>1. Types
    BY RedisAssumption, EmptySeq DEF Init, Types, Results
  <2>2. \A k \in Conns, i \in Nat : \A u : ~Posted(strand, k, i, u) /\ ~InLine(line, k, i, u)
    BY EmptySeq DEF Init, Posted, InLine
  <2> QED
    BY <2>1, <2>2 DEF Init, IInv, Placed, OnePlace
<1> QED
  BY <1>1, InvStep, PTL DEF Spec

(* Every command in progress waits in one strand or in one line of          *)
(* requests, once, and no other command waits anywhere: however commands    *)
(* and losses of connections interleave, no reply can reach a second        *)
(* command and no command is forgotten.                                     *)
THEOREM TypeCorrect == Spec => []TypeOK
<1>1. IInv => TypeOK
  <2> SUFFICES ASSUME IInv PROVE TypeOK
    OBVIOUS
  <2>1. ASSUME NEW t \in Tasks
        PROVE  /\ call[t] = "none" <=> Spots(t) = {}
               /\ \A x, y \in Spots(t) : x = y
    <3>1. OnePlace(call[t], strand, line, t)
      BY DEF IInv, Placed
    <3>2. \A x : x \in Spots(t) <=>
              \E k \in Conns, i \in Nat :
                  \/ x = <<"strand", k, i>> /\ Posted(strand, k, i, t)
                  \/ x = <<"line", k, i>> /\ InLine(line, k, i, t)
      BY SpotsAre
    <3>3. Spots(t) = {} <=> ~\E k \in Conns, i \in Nat : Posted(strand, k, i, t) \/ InLine(line, k, i, t)
      BY <3>2
    <3>4. \A x, y \in Spots(t) : x = y
      BY <3>1, <3>2 DEF OnePlace
    <3> QED
      BY <3>1, <3>3, <3>4 DEF OnePlace
  <2> QED
    BY <2>1 DEF IInv, Types, TypeOK, Results
<1> QED
  BY <1>1, Invariance, PTL

--------------------------------------------------------------------------------
(* The client implements RedisCell. *)

(* Redis has replied y to the command of t, and the client has not told t.  *)
Replied(l, t, y) ==
    y # "pending" /\ \E k \in Conns, i \in Nat : InLine(l, k, i, t) /\ l[k][i].reply = y

(* What Effect says of t: the reply to its command, once there is one. *)
EffectIs(e, l, t) ==
    /\ (\A y : ~Replied(l, t, y)) => e = "pending"
    /\ \A y : Replied(l, t, y) => e = ExtractResult(y)

EffectRight == Effect = [t \in Tasks |-> Effect[t]] /\ \A t \in Tasks : EffectIs(Effect[t], line, t)

(* A command has one request at most, so that its effect is the reply to it. *)
LEMMA EffectOfReply == IInv => EffectRight
<1> SUFFICES ASSUME IInv PROVE EffectRight
  OBVIOUS
<1>1. ASSUME NEW t \in Tasks PROVE EffectIs(Effect[t], line, t)
  <2>1. OnePlace(call[t], strand, line, t)
    BY DEF IInv, Placed
  <2>2. \A x : x \in Spots(t) <=>
            \E k \in Conns, i \in Nat :
                \/ x = <<"strand", k, i>> /\ Posted(strand, k, i, t)
                \/ x = <<"line", k, i>> /\ InLine(line, k, i, t)
    BY SpotsAre
  <2>3. \A y : y \in Executed(t) <=> Replied(line, t, y)
    <3>1. ASSUME NEW y \in Executed(t) PROVE Replied(line, t, y)
      <4>1. PICK x \in Spots(t) : x[1] = "line" /\ y = line[x[2]][x[3]].reply /\ y # "pending"
        BY DEF Executed
      <4>2. PICK k \in Conns, i \in Nat : \/ x = <<"strand", k, i>> /\ Posted(strand, k, i, t)
                                          \/ x = <<"line", k, i>> /\ InLine(line, k, i, t)
        BY <2>2
      <4>3. x = <<"line", k, i>> /\ InLine(line, k, i, t)
        BY <4>1, <4>2
      <4>4. x[2] = k /\ x[3] = i
        BY <4>3
      <4> QED
        BY <4>1, <4>3, <4>4 DEF Replied
    <3>2. ASSUME NEW k \in Conns, NEW i \in Nat, InLine(line, k, i, t), line[k][i].reply # "pending"
          PROVE  line[k][i].reply \in Executed(t)
      <4> DEFINE x == <<"line", k, i>>
      <4>1. x \in Spots(t) /\ x[1] = "line" /\ x[2] = k /\ x[3] = i
        BY <2>2, <3>2
      <4> QED
        BY <3>2, <4>1 DEF Executed
    <3> QED
      BY <3>1, <3>2 DEF Replied
  <2>4. Effect[t] = IF Executed(t) = {} THEN "pending"
                    ELSE ExtractResult(CHOOSE x \in Executed(t) : TRUE)
    BY DEF Effect
  <2>5. ASSUME NEW y, Replied(line, t, y) PROVE Effect[t] = ExtractResult(y)
    <3>1. \A z : z \in Executed(t) <=> z = y
      BY <2>1, <2>3, <2>5 DEF OnePlace, Replied
    <3>2. Executed(t) # {} /\ (CHOOSE x \in Executed(t) : TRUE) = y
      BY <3>1
    <3> QED
      BY <2>4, <3>2
  <2>6. ASSUME \A y : ~Replied(line, t, y) PROVE Effect[t] = "pending"
    BY <2>3, <2>4, <2>6
  <2> QED
    BY <2>5, <2>6 DEF EffectIs
<1>2. Effect = [t \in Tasks |-> Effect[t]]
  BY DEF Effect
<1> QED
  BY <1>1, <1>2 DEF EffectRight

(* The same of the state after a step. *)
LEMMA EffectOfReplyNext == IInv' => EffectRight'
BY EffectOfReply, PTL

(* A command whose reply stays what it is keeps its effect. *)
LEMMA SameEffect ==
    ASSUME NEW l, NEW r, NEW u, NEW d, NEW e, EffectIs(d, l, u), EffectIs(e, r, u),
           \A y : Replied(l, u, y) <=> Replied(r, u, y)
    PROVE  e = d
<1>1. CASE \E y : Replied(l, u, y)
  BY <1>1 DEF EffectIs
<1>2. CASE ~\E y : Replied(l, u, y)
  BY <1>2 DEF EffectIs
<1> QED
  BY <1>1, <1>2

(* A step that leaves the replies of all commands but those of F alone, and *)
(* leaves those without a reply.                                            *)
LEMMA EffectStep ==
    ASSUME IInv, IInv', NEW F \in SUBSET Tasks,
           \A u \in Tasks : \A y : u \notin F => (Replied(line, u, y) <=> Replied(line', u, y)),
           \A u \in F : \A y : ~Replied(line', u, y)
    PROVE  Effect' = [u \in Tasks |-> IF u \in F THEN "pending" ELSE Effect[u]]
<1>1. EffectRight /\ EffectRight'
  BY EffectOfReply, EffectOfReplyNext
<1>2. ASSUME NEW u \in Tasks PROVE Effect'[u] = IF u \in F THEN "pending" ELSE Effect[u]
  <2>1. EffectIs(Effect[u], line, u) /\ EffectIs(Effect'[u], line', u)
    BY <1>1 DEF EffectRight
  <2>2. CASE u \in F
    BY <2>1, <2>2 DEF EffectIs
  <2>3. CASE u \notin F
    <3>1. \A y : Replied(line, u, y) <=> Replied(line', u, y)
      BY <2>3
    <3>2. Effect'[u] = Effect[u]
      BY <2>1, <3>1, SameEffect
    <3> QED
      BY <2>3, <3>2
  <2> QED
    BY <2>2, <2>3
<1> QED
  BY <1>1, <1>2 DEF EffectRight

(* A step that leaves all replies alone. *)
LEMMA EffectStays ==
    ASSUME IInv, IInv', \A u \in Tasks : \A y : Replied(line, u, y) <=> Replied(line', u, y)
    PROVE  Effect' = Effect
<1>1. EffectRight /\ EffectRight'
  BY EffectOfReply, EffectOfReplyNext
<1>2. ASSUME NEW u \in Tasks PROVE Effect'[u] = Effect[u]
  <2>1. EffectIs(Effect[u], line, u) /\ EffectIs(Effect'[u], line', u)
    BY <1>1 DEF EffectRight
  <2>2. \A y : Replied(line, u, y) <=> Replied(line', u, y)
    OBVIOUS
  <2> QED
    BY <2>1, <2>2, SameEffect
<1> QED
  BY <1>1, <1>2 DEF EffectRight

(* Every step of the client is a step of RedisCell, or changes nothing      *)
(* there.                                                                   *)
LEMMA CellStep ==
    ASSUME IInv, IInv', [Next]_vars PROVE [Cell!CellNext]_(Cell!vars)
<1>0. /\ call \in [Tasks -> Values \cup {"GET", "none"}] /\ store \in Values \cup {Absent}
      /\ \A t \in Tasks : OnePlace(call[t], strand, line, t)
  BY DEF IInv, Types, Placed
<1>1. ASSUME NEW t \in Tasks, NEW c \in Values \cup {"GET"}, Begin(t, c) PROVE Cell!CellNext
  <2>1. Effect' = Effect
    BY <1>1, EffectStays DEF Begin
  <2>2. Cell!Call(t, c)
    BY <1>1, <2>1 DEF Cell!Call, Begin
  <2> QED
    BY <2>2 DEF Cell!CellNext
<1>2. ASSUME NEW k \in Conns, Exec(k) PROVE UNCHANGED Cell!vars
  <2>1. PICK q \in Requests : q.reply = "pending" /\ LinedLast(line, line', k, q)
    BY <1>2, ExecKeeps
  <2>2. ASSUME NEW u \in Tasks, NEW y PROVE Replied(line, u, y) <=> Replied(line', u, y)
    BY <2>1 DEF LinedLast, Replied
  <2>3. Effect' = Effect
    BY <2>2, EffectStays
  <2> QED
    BY <1>2, <2>3 DEF Cell!vars, Exec
<1>3. ASSUME NEW k \in Conns, Finish(k) PROVE Cell!CellNext
  <2> PICK t \in Tasks, y \in Replies : t = Head(line[k]).task /\ y = Head(line[k]).reply
    BY <1>3, FinishMoves
  <2>1. LinedUp(line, line', k) /\ \A m \in Conns, i \in Nat : ~InLine(line', m, i, t)
    BY <1>3, FinishMoves
  <2>2. Replied(line, t, y) /\ call[t] # "none"
    BY <1>0, <1>3, <2>1 DEF LinedUp, Replied, OnePlace, Finish
  <2>3. Effect[t] = ExtractResult(y) /\ Effect[t] # "pending"
    BY <2>2, EffectOfReply, ExtractResultType DEF EffectRight, EffectIs
  <2>4. ASSUME NEW u \in Tasks, u # t, NEW z PROVE Replied(line, u, z) <=> Replied(line', u, z)
    <3>1. ASSUME NEW m \in Conns, NEW i \in Nat, InLine(line, m, i, u), line[m][i].reply = z
          PROVE  \E j \in Nat : InLine(line', m, j, u) /\ line'[m][j].reply = z
      BY <2>1, <2>4, <3>1 DEF LinedUp
    <3>2. ASSUME NEW m \in Conns, NEW i \in Nat, InLine(line', m, i, u), line'[m][i].reply = z
          PROVE  \E j \in Nat : InLine(line, m, j, u) /\ line[m][j].reply = z
      BY <2>1, <3>2 DEF LinedUp
    <3> QED
      BY <3>1, <3>2 DEF Replied
  <2>5. \A z : ~Replied(line', t, z)
    BY <2>1 DEF Replied
  <2> DEFINE F == {t}
  <2>6. F \in SUBSET Tasks /\ \A u : u \in F <=> u = t
    OBVIOUS
  <2> HIDE DEF F
  <2>7. Effect' = [u \in Tasks |-> IF u \in F THEN "pending" ELSE Effect[u]]
    <3>1. \A u \in Tasks : \A z : u \notin F => (Replied(line, u, z) <=> Replied(line', u, z))
      BY <2>4, <2>6
    <3>2. \A u \in F : \A z : ~Replied(line', u, z)
      BY <2>5, <2>6
    <3> QED
      BY <2>6, <3>1, <3>2, EffectStep
  <2>8. Effect' = [Effect EXCEPT ![t] = "pending"]
    BY <2>7, <2>6, EffectOfReply DEF EffectRight
  <2>9. Cell!Answer(t)
    BY <1>3, <2>2, <2>3, <2>8 DEF Cell!Answer, Cell!Return, Finish
  <2> QED
    BY <2>9 DEF Cell!CellNext
<1>4. ASSUME NEW k \in Conns, Write(k) PROVE UNCHANGED Cell!vars
  <2>1. SameLine(line, line') /\ SameReplies(line, line')
    BY <1>4, WriteKeeps
  <2>2. ASSUME NEW u \in Tasks, NEW y PROVE Replied(line, u, y) <=> Replied(line', u, y)
    BY <2>1 DEF SameLine, SameReplies, Replied
  <2>3. Effect' = Effect
    BY <2>2, EffectStays
  <2> QED
    BY <1>4, <2>3 DEF Cell!vars, Write
<1>5. ASSUME NEW k \in Conns, Serve(k) PROVE Cell!CellNext
  <2>1. PICK n \in Nat, t \in Tasks, y \in Replies : Answered(k, n, t, y)
    BY <1>5, ServeKeeps
  <2>2. SameLine(line, line') /\ RepliesBut(line, line', k, n, y) /\ InLine(line, k, n, t)
    BY <1>5, <2>1, ServeKeeps DEF Answered
  <2>3. \A m \in Conns, i \in Nat, u \in Tasks :
            InLine(line, m, i, u) /\ ((m = k /\ i = n) \/ u = t) => m = k /\ i = n /\ u = t
    BY <1>0, <2>2 DEF OnePlace, InLine
  <2>4. y # "pending" /\ call[t] # "none"
    BY <1>0, <2>2, WordsAreNotValues DEF Replies, OnePlace
  <2>5. ASSUME NEW u \in Tasks, u # t, NEW z PROVE Replied(line, u, z) <=> Replied(line', u, z)
    BY <2>2, <2>3, <2>5 DEF SameLine, RepliesBut, Replied
  <2>6. \A z : ~Replied(line, t, z)
    BY <2>1, <2>3 DEF Replied, Answered
  <2>7. Replied(line', t, y)
    BY <2>2, <2>4 DEF SameLine, RepliesBut, Replied
  <2>8. EffectRight /\ EffectRight'
    BY EffectOfReply, EffectOfReplyNext
  <2>9. Effect[t] = "pending" /\ Effect'[t] = ExtractResult(y)
    BY <2>6, <2>7, <2>8 DEF EffectRight, EffectIs
  <2>10. ASSUME NEW u \in Tasks, u # t PROVE Effect'[u] = Effect[u]
    <3>1. EffectIs(Effect[u], line, u) /\ EffectIs(Effect'[u], line', u)
      BY <2>8 DEF EffectRight
    <3>2. \A z : Replied(line, u, z) <=> Replied(line', u, z)
      BY <2>5, <2>10
    <3> QED
      BY <3>1, <3>2, SameEffect
  <2>11. Effect' = [Effect EXCEPT ![t] = ExtractResult(y)]
    BY <2>8, <2>9, <2>10 DEF EffectRight
  <2>12. UNCHANGED <<call, result, orphans>>
    BY <1>5 DEF Serve
  <2>13. CASE call[t] = "GET" /\ y = store /\ UNCHANGED store
    <3>1. ExtractResult(y) = store
      BY <1>0, <2>13, WordsAreNotValues DEF ExtractResult
    <3> QED
      BY <2>4, <2>9, <2>11, <2>12, <2>13, <3>1 DEF Cell!CellNext, Cell!TakeEffect
  <2>14. CASE call[t] \in Values /\ y = "OK" /\ store' = call[t]
    <3>1. ExtractResult(y) = "OK"
      BY <2>14 DEF ExtractResult
    <3> QED
      BY <2>4, <2>9, <2>11, <2>12, <2>14, <3>1 DEF Cell!CellNext, Cell!TakeEffect
  <2>15. CASE y = "refused" /\ UNCHANGED store
    <3>1. ExtractResult(y) = "error"
      BY <2>15 DEF ExtractResult
    <3> QED
      BY <2>4, <2>9, <2>11, <2>12, <2>15, <3>1 DEF Cell!CellNext, Cell!TakeEffect
  <2> QED
    BY <2>1, <2>13, <2>14, <2>15 DEF Answered
<1>6. ASSUME NEW k \in Conns, LoseConnection(k) PROVE [Cell!CellNext]_(Cell!vars)
  <2> DEFINE failed == {line[k][i].task : i \in 1..Len(line[k])}
             unread == {call[line[k][i].task] : i \in
                           {j \in 1..Len(line[k]) : /\ line[k][j].written
                                                    /\ line[k][j].reply = "pending"}}
  <2>1. /\ call' = [t \in Tasks |-> IF t \in failed THEN "none" ELSE call[t]]
        /\ result' = [t \in Tasks |-> IF t \in failed THEN "error" ELSE result[t]]
        /\ orphans' = orphans \cup (unread \cap Values) /\ UNCHANGED store
        /\ line' = [line EXCEPT ![k] = <<>>]
    BY <1>6 DEF LoseConnection, Caught
  <2>2. line \in [Conns -> Seq(Requests)] /\ result \in [Tasks -> Results]
    BY DEF IInv, Types
  <2>3. \A i \in 1..Len(line[k]) : i \in Nat /\ line[k][i] \in Requests /\ line[k][i].task \in Tasks
    <3>1. \A i \in 1..Len(line[k]) : i \in Nat /\ line[k][i] \in Requests
      BY <2>2, ElementOfSeq
    <3> QED
      BY <3>1 DEF Requests
  <2>4. /\ failed \in SUBSET Tasks
        /\ \A u : u \in failed <=> \E i \in Nat : InLine(line, k, i, u)
    BY <2>3 DEF InLine
  <2>5. \A m \in Conns, i \in Nat : \A u : InLine(line', m, i, u) <=> m # k /\ InLine(line, m, i, u)
    BY <2>1, <2>2, EmptySeq DEF InLine
  <2>6. \A m \in Conns : m # k => line'[m] = line[m]
    BY <2>1, <2>2
  <2>7. \A u \in failed : call[u] # "none"
    BY <1>0, <2>4 DEF OnePlace
  <2>8. \A c \in unread : \E u \in failed : c = call[u] /\ Effect[u] = "pending"
    <3>1. ASSUME NEW i \in 1..Len(line[k]), line[k][i].reply = "pending"
          PROVE  line[k][i].task \in failed /\ Effect[line[k][i].task] = "pending"
      <4>1. PICK u \in Tasks : u = line[k][i].task
        BY <2>3
      <4>2. InLine(line, k, i, u) /\ i \in Nat
        BY <2>3, <4>1 DEF InLine
      <4>3. \A y : ~Replied(line, u, y)
        BY <1>0, <3>1, <4>2 DEF OnePlace, Replied
      <4>4. Effect[u] = "pending"
        BY <4>3, EffectOfReply DEF EffectRight, EffectIs
      <4> QED
        BY <4>1, <4>4
    <3> QED
      BY <3>1
  <2> HIDE DEF failed, unread
  <2>9. Effect' = [u \in Tasks |-> IF u \in failed THEN "pending" ELSE Effect[u]]
    <3>1. ASSUME NEW u \in Tasks, u \notin failed, NEW y
          PROVE  Replied(line, u, y) <=> Replied(line', u, y)
      BY <2>4, <2>5, <2>6, <3>1 DEF Replied
    <3>2. ASSUME NEW u \in failed, NEW y PROVE ~Replied(line', u, y)
      <4>1. PICK i \in Nat : InLine(line, k, i, u)
        BY <2>4
      <4> QED
        BY <1>0, <2>4, <2>5, <4>1 DEF OnePlace, Replied
    <3> QED
      BY <2>4, <3>1, <3>2, EffectStep
  <2>10. CASE failed = {}
    <3>1. unread = {}
      BY <2>8, <2>10
    <3>2. Effect' = Effect
      BY <2>9, <2>10, EffectOfReply DEF EffectRight
    <3>3. call' = call /\ result' = result /\ orphans' = orphans
      BY <1>0, <2>1, <2>2, <2>10, <3>1
    <3> QED
      BY <2>1, <3>2, <3>3 DEF Cell!vars
  <2>11. CASE failed # {}
    <3>1. failed \in (SUBSET Cell!Fails) \ {{}}
      BY <2>4, <2>7, <2>11 DEF Cell!Fails
    <3>2. unread \in SUBSET {call[t] : t \in {f \in failed : Effect[f] = "pending"}}
      BY <2>8
    <3>3. Cell!Fail
      BY <2>1, <2>9, <3>1, <3>2 DEF Cell!Fail
    <3> QED
      BY <3>3 DEF Cell!CellNext
  <2> QED
    BY <2>10, <2>11
<1>7. ASSUME NEW v \in Values, ServeOrphan(v) PROVE Cell!CellNext
  <2>1. Effect' = Effect
    BY <1>7, EffectStays DEF ServeOrphan
  <2>2. Cell!LateEffect(v)
    BY <1>7, <2>1 DEF Cell!LateEffect, ServeOrphan
  <2> QED
    BY <2>2 DEF Cell!CellNext
<1>8. CASE Expire
  <2>1. Effect' = Effect
    BY <1>8, EffectStays DEF Expire
  <2> QED
    BY <1>8, <2>1 DEF Cell!CellNext, Cell!Expire, Expire
<1>9. CASE UNCHANGED <<call, result, line, store, orphans>>
  <2>1. Effect' = Effect
    BY <1>9, EffectStays
  <2> QED
    BY <1>9, <2>1 DEF Cell!vars
<1>10. ASSUME NEW t \in Tasks, Get(t) \/ Set(t) PROVE Cell!CellNext
  BY <1>1, <1>10 DEF Get, Set
<1> QED
  BY <1>2, <1>3, <1>4, <1>5, <1>6, <1>7, <1>8, <1>9, <1>10 DEF Next, Reconnect, vars

(* The client keeps the promise of RedisCell: an answered command took      *)
(* effect once, between the call and the answer, whichever connection it    *)
(* took and whatever connections broke, and only a SET that was reported as *)
(* failed may surface late.                                                 *)
THEOREM ImplementsCellAlways == Spec => ImplementsCell
<1>1. Init => Cell!CellInit
  <2> SUFFICES ASSUME Init PROVE Cell!CellInit
    OBVIOUS
  <2>1. \A t : Executed(t) = {}
    BY EmptySeq DEF Init, Executed, Spots
  <2>2. Effect = [t \in Tasks |-> "pending"]
    BY <2>1 DEF Effect
  <2> QED
    BY <2>2 DEF Init, Cell!CellInit
<1>2. IInv /\ IInv' /\ [Next]_vars => [Cell!CellNext]_(Cell!vars)
  BY CellStep
<1> QED
  BY <1>1, <1>2, Invariance, PTL DEF Spec, ImplementsCell, Cell!CellSpec

================================================================================
