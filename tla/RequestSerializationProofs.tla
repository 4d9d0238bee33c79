--------------------- MODULE RequestSerializationProofs ---------------------
(***************************************************************************)
(* The order of requests, the end of a drained connection and the absence  *)
(* of a lost wake-up, for any requests, keys and connections.              *)
(*                                                                         *)
(* InOrder is not inductive: it does not say that only one task drains a   *)
(* key, that a request under way is in that task's batch, or that a queue  *)
(* is sorted by arrival.  Serialized adds these.                           *)
(***************************************************************************)
EXTENDS RequestSerialization, SequenceTheorems, TLAPS

Active(t) == task[t] \in {"drain", "join"}

\* A drain task has its key in the map, and the key for itself.
OneDrainer ==
  /\ \A t \in Requests : Active(t) => Key(t) \in keys
  /\ \A t, u \in Requests : Active(t) /\ Active(u) /\ Key(t) = Key(u) => t = u

\* The queues hold the queued requests, in the order they arrived.
Queued ==
  /\ \A k \in Keys : k \notin keys => queues[k] = <<>>
  /\ \A k \in Keys : \A i \in 1..Len(queues[k]) :
       state[queues[k][i]] = "queued" /\ Key(queues[k][i]) = k
  /\ \A k \in Keys : \A i, j \in 1..Len(queues[k]) :
       i < j => order[queues[k][i]] < order[queues[k][j]]
  /\ \A r \in Requests : state[r] = "queued" =>
       Key(r) \in Keys /\ \E i \in 1..Len(queues[Key(r)]) : queues[Key(r)][i] = r

\* A batch is one request or shared reads only, and nothing else is under way.
Batches ==
  /\ \A t \in Requests : task[t] = "join" =>
       \A r \in batch[t] : Key(r) = Key(t) /\ state[r] \in Taken
  /\ \A t \in Requests : task[t] = "join" =>
       \A r, s \in batch[t] : r = s \/ (Shared(r) /\ Shared(s))
  /\ \A r \in Requests : state[r] \in {"taken", "running"} /\ Key(r) # NoKey =>
       \E t \in Requests : task[t] = "join" /\ r \in batch[t]

\* Whatever is taken arrived before what is still queued at the same key.
Arrived ==
  /\ \A r \in Requests : order[r] <= arrivals
  /\ \A r, s \in Requests :
       state[r] = "queued" /\ state[s] \in Taken /\ Key(r) = Key(s) => order[s] < order[r]

\* The inductive invariant behind InOrder.
Serialized ==
  /\ OneDrainer
  /\ Queued
  /\ Batches
  /\ Arrived
  /\ InOrder

-----------------------------------------------------------------------------
\* What drain() leaves in a queue.
LEMMA RestOfQueue ==
  ASSUME NEW q \in Seq(Requests), NEW n \in 1..Len(q)
  PROVE  /\ SubSeq(q, n + 1, Len(q)) \in Seq(Requests)
         /\ Len(SubSeq(q, n + 1, Len(q))) = Len(q) - n
         /\ \A i \in 1..Len(q) - n : SubSeq(q, n + 1, Len(q))[i] = q[n + i]
<1>1. Len(q) \in Nat /\ n \in Nat
  OBVIOUS
<1>2. \A i \in (n + 1)..Len(q) : q[i] \in Requests
  BY <1>1
<1>3. /\ SubSeq(q, n + 1, Len(q)) \in Seq(Requests)
      /\ Len(SubSeq(q, n + 1, Len(q))) = IF n + 1 <= Len(q) THEN Len(q) - (n + 1) + 1 ELSE 0
      /\ \A i \in 1..Len(q) - (n + 1) + 1 : SubSeq(q, n + 1, Len(q))[i] = q[n + 1 + i - 1]
  BY <1>1, <1>2, SubSeqProperties
<1>4. QED
  BY <1>1, <1>3

\* new(), RequestSerializationQueues::default() and ConnectionRpcGate::new().
LEMMA TypeInit == Init => TypeOK
BY DEF Init, TypeOK, Taken

\* Every step keeps the types.
LEMMA TypeStep == TypeOK /\ [Next]_vars => TypeOK'
<1> SUFFICES ASSUME TypeOK, [Next]_vars PROVE TypeOK'
  OBVIOUS
<1>k. \A r \in Requests : Key(r) \in Keys \cup {NoKey}
  BY DEF TypeOK, Key, Attributes
<1>1. ASSUME NEW r \in Requests, Enqueue(r) PROVE TypeOK'
  <2>1. Key(r) \in Keys
    BY <1>1, <1>k DEF Enqueue
  <2>2. state' \in [Requests -> {"new", "queued"} \cup Taken]
    BY <1>1 DEF TypeOK, Enqueue, Arrive
  <2>3. order' \in [Requests -> Nat] /\ arrivals' \in Nat
    BY <1>1 DEF TypeOK, Enqueue, Arrive
  <2>4. queues' \in [Keys -> Seq(Requests)]
    <3>1. queues[Key(r)] \in Seq(Requests)
      BY <2>1 DEF TypeOK
    <3>2. Append(queues[Key(r)], r) \in Seq(Requests) /\ <<r>> \in Seq(Requests)
      BY <3>1
    <3>3. QED
      BY <1>1, <2>1, <3>2 DEF TypeOK, Enqueue
  <2>5. keys' \in SUBSET Keys
    BY <1>1, <2>1 DEF TypeOK, Enqueue
  <2>6. task' \in [Requests -> {"none", "drain", "join", "ended"}]
    BY <1>1 DEF TypeOK, Enqueue
  <2>7. QED
    BY <1>1, <2>2, <2>3, <2>4, <2>5, <2>6 DEF TypeOK, Enqueue, gateVars
<1>2. ASSUME NEW r \in Requests, Spawn(r) PROVE TypeOK'
  BY <1>2 DEF TypeOK, Spawn, Arrive, queueVars, gateVars, Taken
<1>3. ASSUME NEW r \in Requests, Run(r) \/ Finish(r) PROVE TypeOK'
  BY <1>3 DEF TypeOK, Run, Finish, queueVars, gateVars, Taken, Over
<1>4. ASSUME NEW r \in Requests, Panic(r) PROVE TypeOK'
  BY <1>4 DEF TypeOK, Panic, gateVars, Taken, Over
<1>5. ASSUME NEW t \in Requests, DrainTake(t) PROVE TypeOK'
  <2>1. Key(t) \in Keys
    BY <1>5 DEF DrainTake, TypeOK
  <2>2. PICK n \in 1..Len(queues[Key(t)]) :
          /\ queues' = [queues EXCEPT ![Key(t)] =
               SubSeq(queues[Key(t)], n + 1, Len(queues[Key(t)]))]
          /\ state' = [r \in Requests |->
               IF r \in {queues[Key(t)][i] : i \in 1..n} THEN "taken" ELSE state[r]]
          /\ batch' = [batch EXCEPT ![t] = {queues[Key(t)][i] : i \in 1..n}]
    BY <1>5 DEF DrainTake
  <2>3. queues[Key(t)] \in Seq(Requests)
    BY <2>1 DEF TypeOK
  <2>4. queues' \in [Keys -> Seq(Requests)]
    BY <2>1, <2>2, <2>3, RestOfQueue DEF TypeOK
  <2>5. batch' \in [Requests -> SUBSET Requests]
    BY <2>2, <2>3 DEF TypeOK
  <2>6. state' \in [Requests -> {"new", "queued"} \cup Taken]
    BY <2>2 DEF TypeOK, Taken
  <2>7. QED
    BY <1>5, <2>4, <2>5, <2>6 DEF TypeOK, DrainTake, gateVars
<1>6. ASSUME NEW t \in Requests, DrainReturn(t) \/ JoinAll(t) PROVE TypeOK'
  BY <1>6 DEF TypeOK, DrainReturn, JoinAll, gateVars
<1>7. ASSUME NEW c \in Connections, CloseConnection(c) \/ Cleanup(c) PROVE TypeOK'
  BY <1>7 DEF TypeOK, CloseConnection, Cleanup, queueVars
<1>8. CASE UNCHANGED vars
  BY <1>8 DEF TypeOK, vars, queueVars, gateVars
<1>9. QED
  BY <1>1, <1>2, <1>3, <1>4, <1>5, <1>6, <1>7, <1>8 DEF Next

\* Type correctness of the request queues and gates, for any requests, keys and
\* connections.
THEOREM SerializationTypes == Spec => []TypeOK
BY TypeInit, TypeStep, PTL DEF Spec

-----------------------------------------------------------------------------
(* Serialized is inductive                                                 *)

\* Nothing has arrived at the start.
LEMMA SerializedInit == Init => Serialized
BY DEF Init, Serialized, OneDrainer, Active, Queued, Batches, Arrived, InOrder, Taken, Over

\* enqueue(): the newcomer is the last of its queue, and spawns a task only
\* where there is none.
LEMMA EnqueueSerialized ==
  ASSUME TypeOK, Serialized, NEW r \in Requests, Enqueue(r)
  PROVE  Serialized'
<1> DEFINE k == Key(r)
<1> DEFINE q == queues[k]
<1>1. k \in Keys
  BY DEF Enqueue, TypeOK, Key, Attributes
<1>2. /\ state[r] = "new"
      /\ state' = [state EXCEPT ![r] = "queued"]
      /\ arrivals' = arrivals + 1
      /\ order' = [order EXCEPT ![r] = arrivals + 1]
      /\ request' = request
      /\ batch' = batch
  BY DEF Enqueue, Arrive
<1>3. /\ queues' = [queues EXCEPT ![k] = Append(q, r)]
      /\ q \in Seq(Requests)
      /\ keys' = keys \cup {k}
  <2>1. CASE k \in keys
    BY <1>1, <2>1 DEF Enqueue, TypeOK
  <2>2. CASE k \notin keys
    BY <1>1, <2>2 DEF Enqueue, TypeOK, Serialized, Queued
  <2>3. QED
    BY <2>1, <2>2
<1>4. /\ Len(q) \in Nat
      /\ Len(Append(q, r)) = Len(q) + 1
      /\ \A i \in 1..Len(q) : Append(q, r)[i] = q[i]
      /\ Append(q, r)[Len(q) + 1] = r
  BY <1>3
<1>5. \A s \in Requests : Key(s)' = Key(s) /\ Shared(s)' = Shared(s)
  BY <1>2 DEF Key, Shared
<1>6. OneDrainer'
  <2>1. CASE k \in keys
    BY <2>1, <1>3, <1>5 DEF Enqueue, Serialized, OneDrainer, Active
  <2>2. CASE k \notin keys
    <3>1. \A t \in Requests : Active(t) => Key(t) # k
      BY <2>2 DEF Serialized, OneDrainer
    <3>2. task' = [task EXCEPT ![r] = "drain"]
      BY <2>2 DEF Enqueue
    <3>3. \A t \in Requests : Active(t)' => t = r \/ Active(t)
      BY <3>2 DEF TypeOK, Active
    <3>4. QED
      BY <3>1, <3>3, <1>3, <1>5 DEF Serialized, OneDrainer
  <2>3. QED
    BY <2>1, <2>2
<1>7. Queued'
  <2>1. \A x \in Keys : x \notin keys' => queues'[x] = <<>>
    BY <1>3 DEF Serialized, Queued, TypeOK
  <2>2. \A x \in Keys : \A i \in 1..Len(queues'[x]) :
          state'[queues'[x][i]] = "queued" /\ Key(queues'[x][i]) = x
    <3> SUFFICES ASSUME NEW x \in Keys, NEW i \in 1..Len(queues'[x])
                 PROVE  state'[queues'[x][i]] = "queued" /\ Key(queues'[x][i]) = x
      OBVIOUS
    <3>1. CASE x # k
      <4>1. queues'[x] = queues[x]
        BY <3>1, <1>3 DEF TypeOK
      <4>2. queues[x][i] \in Requests /\ state[queues[x][i]] = "queued" /\ Key(queues[x][i]) = x
        BY <4>1 DEF Serialized, Queued, TypeOK
      <4>3. QED
        BY <4>1, <4>2, <1>2 DEF TypeOK
    <3>2. CASE x = k
      <4>1. queues'[x] = Append(q, r)
        BY <3>2, <1>1, <1>3 DEF TypeOK
      <4>2. CASE i = Len(q) + 1
        BY <4>1, <4>2, <3>2, <1>2, <1>4, <1>5 DEF TypeOK
      <4>3. CASE i \in 1..Len(q)
        <5>1. q[i] \in Requests /\ state[q[i]] = "queued" /\ Key(q[i]) = k
          BY <4>3, <1>1, <1>3 DEF Serialized, Queued
        <5>2. QED
          BY <5>1, <4>1, <4>3, <3>2, <1>2, <1>4, <1>5 DEF TypeOK
      <4>4. QED
        BY <4>1, <4>2, <4>3, <1>4
    <3>3. QED
      BY <3>1, <3>2
  <2>3. \A x \in Keys : \A i, j \in 1..Len(queues'[x]) :
          i < j => order'[queues'[x][i]] < order'[queues'[x][j]]
    <3> SUFFICES ASSUME NEW x \in Keys, NEW i \in 1..Len(queues'[x]),
                        NEW j \in 1..Len(queues'[x]), i < j
                 PROVE  order'[queues'[x][i]] < order'[queues'[x][j]]
      OBVIOUS
    <3>0. \A y \in Keys, n \in Nat : n \in 1..Len(queues[y]) =>
            queues[y][n] \in Requests /\ queues[y][n] # r
      BY <1>2 DEF TypeOK, Serialized, Queued
    <3>1. CASE x # k
      <4>1. queues'[x] = queues[x]
        BY <3>1, <1>3 DEF TypeOK
      <4>2. QED
        BY <4>1, <3>0, <1>2 DEF Serialized, Queued, TypeOK
    <3>2. CASE x = k
      <4>1. queues'[x] = Append(q, r)
        BY <3>2, <1>1, <1>3 DEF TypeOK
      <4>2. CASE j = Len(q) + 1
        <5>1. i \in 1..Len(q) /\ q[i] \in Requests /\ q[i] # r
          BY <4>1, <4>2, <1>1, <1>4, <3>0
        <5>2. order[q[i]] \in Nat /\ order[q[i]] <= arrivals /\ arrivals \in Nat
          BY <5>1 DEF Serialized, Arrived, TypeOK
        <5>3. QED
          BY <5>1, <5>2, <4>1, <4>2, <1>2, <1>4 DEF TypeOK
      <4>3. CASE j \in 1..Len(q)
        <5>1. i \in 1..Len(q)
          BY <4>1, <4>3, <1>4
        <5>2. order[q[i]] < order[q[j]]
          BY <5>1, <4>3, <1>1 DEF Serialized, Queued
        <5>3. QED
          BY <5>1, <5>2, <4>1, <4>3, <3>0, <1>1, <1>2, <1>4 DEF TypeOK
      <4>4. QED
        BY <4>1, <4>2, <4>3, <1>4
    <3>3. QED
      BY <3>1, <3>2
  <2>4. \A s \in Requests : state'[s] = "queued" =>
          Key(s)' \in Keys /\ \E i \in 1..Len(queues'[Key(s)']) : queues'[Key(s)'][i] = s
    <3> SUFFICES ASSUME NEW s \in Requests, state'[s] = "queued"
                 PROVE  Key(s) \in Keys /\ \E i \in 1..Len(queues'[Key(s)]) : queues'[Key(s)][i] = s
      BY <1>5
    <3>1. CASE s = r
      <4>1. queues'[k] = Append(q, r)
        BY <1>1, <1>3 DEF TypeOK
      <4>2. Len(q) + 1 \in 1..Len(queues'[k]) /\ queues'[k][Len(q) + 1] = r
        BY <4>1, <1>4
      <4>3. QED
        BY <4>2, <3>1, <1>1
    <3>2. CASE s # r
      <4>1. state[s] = "queued"
        BY <3>2, <1>2 DEF TypeOK
      <4>2. PICK i \in 1..Len(queues[Key(s)]) : Key(s) \in Keys /\ queues[Key(s)][i] = s
        BY <4>1 DEF Serialized, Queued
      <4>3. i \in 1..Len(queues'[Key(s)]) /\ queues'[Key(s)][i] = s
        BY <4>2, <1>1, <1>3, <1>4 DEF TypeOK
      <4>4. QED
        BY <4>2, <4>3
    <3>3. QED
      BY <3>1, <3>2
  <2>5. QED
    BY <2>1, <2>2, <2>3, <2>4, <1>2 DEF Queued, Key
<1>8. Batches'
  <2>1. \A t \in Requests : task'[t] = "join" <=> task[t] = "join"
    <3>1. CASE k \in keys
      BY <3>1 DEF Enqueue
    <3>2. CASE k \notin keys
      <4>1. task[r] # "join"
        BY <3>2 DEF Serialized, OneDrainer, Active
      <4>2. task' = [task EXCEPT ![r] = "drain"]
        BY <3>2 DEF Enqueue
      <4>3. QED
        BY <4>1, <4>2 DEF TypeOK
    <3>3. QED
      BY <3>1, <3>2
  <2>2. \A s \in Requests : (state[s] \in Taken <=> state'[s] \in Taken)
          /\ (state[s] \in {"taken", "running"} <=> state'[s] \in {"taken", "running"})
    BY <1>2 DEF TypeOK, Taken, Over
  <2>3. QED
    BY <2>1, <2>2, <1>2, <1>5 DEF Serialized, Batches, TypeOK
<1>9. Arrived'
  BY <1>2, <1>5 DEF Serialized, Arrived, TypeOK, Taken, Over
<1>10. InOrder'
  BY <1>2, <1>5 DEF Serialized, Arrived, InOrder, TypeOK, Taken, Over, Conflict
<1>11. QED
  BY <1>6, <1>7, <1>8, <1>9, <1>10 DEF Serialized

\* A request without scope is under way at once, beside every queue.
LEMMA SpawnSerialized ==
  ASSUME TypeOK, Serialized, NEW r \in Requests, Spawn(r)
  PROVE  Serialized'
<1>1. /\ Key(r) = NoKey
      /\ state[r] = "new"
      /\ state' = [state EXCEPT ![r] = "taken"]
      /\ arrivals' = arrivals + 1
      /\ order' = [order EXCEPT ![r] = arrivals + 1]
      /\ UNCHANGED <<request, keys, queues, task, batch>>
  BY DEF Spawn, Arrive, queueVars
<1>2. \A s \in Requests : Key(s)' = Key(s) /\ Shared(s)' = Shared(s)
  BY <1>1 DEF Key, Shared
<1>3. \A k \in Keys : \A i \in 1..Len(queues[k]) : queues[k][i] \in Requests /\ queues[k][i] # r
  BY <1>1 DEF Serialized, Queued, TypeOK
<1>4. OneDrainer'
  BY <1>1, <1>2 DEF Serialized, OneDrainer, Active
<1>5. Queued'
  BY <1>1, <1>3 DEF Serialized, Queued, TypeOK, Key
<1>6. Batches'
  BY <1>1, <1>2 DEF Serialized, Batches, TypeOK, Taken
<1>7. Arrived'
  <2>1. \A s \in Requests : state[s] = "queued" => Key(s) # NoKey
    BY RequestsAssumption DEF Serialized, Queued
  <2>2. QED
    BY <1>1, <1>2, <2>1 DEF Serialized, Arrived, TypeOK, Taken
<1>8. InOrder'
  BY <1>1, <1>2 DEF Serialized, InOrder, TypeOK, Conflict
<1>9. QED
  BY <1>4, <1>5, <1>6, <1>7, <1>8 DEF Serialized

\* drain() pops a batch: its task was not waiting for another one, and what it
\* pops is the front of a queue in order of arrival.
LEMMA TakeSerialized ==
  ASSUME TypeOK, Serialized, NEW t \in Requests, DrainTake(t)
  PROVE  Serialized'
<1> DEFINE k == Key(t)
<1> DEFINE q == queues[k]
<1>1. k \in Keys /\ q \in Seq(Requests) /\ Len(q) \in Nat
  BY DEF DrainTake, TypeOK
<1>2. PICK n \in 1..Len(q) :
        /\ IsBatch(q, n)
        /\ queues' = [queues EXCEPT ![k] = SubSeq(q, n + 1, Len(q))]
        /\ state' = [r \in Requests |-> IF r \in {q[i] : i \in 1..n} THEN "taken" ELSE state[r]]
        /\ batch' = [batch EXCEPT ![t] = {q[i] : i \in 1..n}]
  BY DEF DrainTake
<1> DEFINE popped == {q[i] : i \in 1..n}
<1> DEFINE rest == SubSeq(q, n + 1, Len(q))
<1>3. /\ task[t] = "drain"
      /\ task' = [task EXCEPT ![t] = "join"]
      /\ UNCHANGED <<request, order, arrivals, keys>>
  BY DEF DrainTake
<1>4. \A s \in Requests : Key(s)' = Key(s) /\ Shared(s)' = Shared(s)
  BY <1>3 DEF Key, Shared
<1>5. /\ rest \in Seq(Requests)
      /\ Len(rest) = Len(q) - n
      /\ \A i \in 1..Len(q) - n : rest[i] = q[n + i]
  BY <1>1, RestOfQueue
<1>6. \A s \in popped : s \in Requests /\ state[s] = "queued" /\ Key(s) = k
  BY <1>1 DEF Serialized, Queued
<1>7. \A s \in Requests : s \in popped => state'[s] = "taken"
  BY <1>2
<1>8. \A s \in Requests : s \notin popped => state'[s] = state[s]
  BY <1>2
<1>9. \A i, j \in 1..Len(q) : i < j => order[q[i]] < order[q[j]] /\ q[i] # q[j]
  <2>1. \A i \in 1..Len(q) : order[q[i]] \in Nat
    BY <1>1 DEF TypeOK
  <2>2. QED
    BY <1>1, <2>1 DEF Serialized, Queued
<1>10. \A i \in 1..Len(q) : q[i] \in popped => i \in 1..n
  <2> SUFFICES ASSUME NEW i \in 1..Len(q), NEW j \in 1..n, q[i] = q[j] PROVE i \in 1..n
    OBVIOUS
  <2>1. i = j
    BY <1>1, <1>9
  <2>2. QED
    BY <2>1
\* Nothing of this key is under way while its task holds no batch.
<1>11. \A s \in Requests : Key(s) = k => state[s] \notin {"taken", "running"}
  <2> SUFFICES ASSUME NEW s \in Requests, Key(s) = k, state[s] \in {"taken", "running"} PROVE FALSE
    OBVIOUS
  <2>1. PICK u \in Requests : task[u] = "join" /\ s \in batch[u]
    BY <1>1, RequestsAssumption DEF Serialized, Batches
  <2>2. Key(u) = k
    BY <2>1 DEF Serialized, Batches
  <2>3. u = t
    BY <1>3, <2>1, <2>2 DEF Serialized, OneDrainer, Active
  <2>4. QED
    BY <2>1, <2>3, <1>3
\* A queued request of this key that stays arrived after those that leave.
<1>12. \A r \in Requests, s \in popped :
         Key(r) = k /\ state[r] = "queued" /\ r \notin popped => order[s] < order[r]
  <2> SUFFICES ASSUME NEW r \in Requests, NEW j \in 1..n, Key(r) = k, state[r] = "queued",
                      r \notin popped
               PROVE  order[q[j]] < order[r]
    OBVIOUS
  <2>1. PICK i \in 1..Len(q) : q[i] = r
    BY DEF Serialized, Queued
  <2>2. ~(i <= n)
    BY <2>1, <1>1
  <2>3. j \in 1..Len(q) /\ j < i
    BY <2>2, <1>1
  <2>4. QED
    BY <2>1, <2>3, <1>9
<1>13. OneDrainer'
  <2>1. \A u \in Requests : Active(u)' <=> Active(u)
    BY <1>3 DEF TypeOK, Active
  <2>2. QED
    BY <2>1, <1>3, <1>4 DEF Serialized, OneDrainer
<1>14. Queued'
  <2>0. \A x \in Keys : x # k => queues'[x] = queues[x]
    BY <1>1, <1>2 DEF TypeOK
  <2>k. queues'[k] = rest
    BY <1>1, <1>2 DEF TypeOK
  <2>1. \A x \in Keys : x \notin keys => queues'[x] = <<>>
    BY <2>0, <1>3 DEF Serialized, Queued, DrainTake
  <2>2. \A x \in Keys : \A i \in 1..Len(queues'[x]) :
          state'[queues'[x][i]] = "queued" /\ Key(queues'[x][i]) = x
    <3> SUFFICES ASSUME NEW x \in Keys, NEW i \in 1..Len(queues'[x])
                 PROVE  state'[queues'[x][i]] = "queued" /\ Key(queues'[x][i]) = x
      OBVIOUS
    <3>1. CASE x # k
      <4>1. queues[x][i] \in Requests /\ state[queues[x][i]] = "queued" /\ Key(queues[x][i]) = x
        BY <3>1, <2>0 DEF Serialized, Queued, TypeOK
      <4>2. QED
        BY <4>1, <3>1, <2>0, <1>6, <1>8
    <3>2. CASE x = k
      <4>1. n + i \in 1..Len(q) /\ queues'[x][i] = q[n + i]
        BY <3>2, <2>k, <1>1, <1>5
      <4>2. q[n + i] \in Requests /\ state[q[n + i]] = "queued" /\ Key(q[n + i]) = k
        BY <4>1, <1>1 DEF Serialized, Queued
      <4>3. q[n + i] \notin popped
        BY <4>1, <1>1, <1>10
      <4>4. QED
        BY <4>1, <4>2, <4>3, <3>2, <1>8
    <3>3. QED
      BY <3>1, <3>2
  <2>3. \A x \in Keys : \A i, j \in 1..Len(queues'[x]) :
          i < j => order[queues'[x][i]] < order[queues'[x][j]]
    <3> SUFFICES ASSUME NEW x \in Keys, NEW i \in 1..Len(queues'[x]),
                        NEW j \in 1..Len(queues'[x]), i < j
                 PROVE  order[queues'[x][i]] < order[queues'[x][j]]
      OBVIOUS
    <3>1. CASE x # k
      BY <3>1, <2>0 DEF Serialized, Queued
    <3>2. CASE x = k
      <4>1. /\ n + i \in 1..Len(q) /\ queues'[x][i] = q[n + i]
            /\ n + j \in 1..Len(q) /\ queues'[x][j] = q[n + j]
            /\ n + i < n + j
        BY <3>2, <2>k, <1>1, <1>5
      <4>2. QED
        BY <4>1, <1>9
    <3>3. QED
      BY <3>1, <3>2
  <2>4. \A s \in Requests : state'[s] = "queued" =>
          Key(s) \in Keys /\ \E i \in 1..Len(queues'[Key(s)]) : queues'[Key(s)][i] = s
    <3> SUFFICES ASSUME NEW s \in Requests, state'[s] = "queued"
                 PROVE  Key(s) \in Keys /\ \E i \in 1..Len(queues'[Key(s)]) : queues'[Key(s)][i] = s
      OBVIOUS
    <3>1. s \notin popped /\ state[s] = "queued"
      BY <1>7, <1>8
    <3>2. PICK i \in 1..Len(queues[Key(s)]) : Key(s) \in Keys /\ queues[Key(s)][i] = s
      BY <3>1 DEF Serialized, Queued
    <3>3. CASE Key(s) # k
      BY <3>2, <3>3, <2>0
    <3>4. CASE Key(s) = k
      <4>1. i \in 1..Len(q) /\ q[i] = s
        BY <3>2, <3>4
      <4>2. ~(i <= n)
        BY <4>1, <3>1, <1>1
      <4>3. i - n \in 1..Len(rest) /\ rest[i - n] = s
        BY <4>1, <4>2, <1>1, <1>5
      <4>4. QED
        BY <4>3, <3>2, <3>4, <2>k
    <3>5. QED
      BY <3>3, <3>4
  <2>5. QED
    BY <2>1, <2>2, <2>3, <2>4, <1>3 DEF Queued, Key
<1>15. Batches'
  <2>0. batch'[t] = popped /\ \A u \in Requests : u # t => batch'[u] = batch[u]
    BY <1>2 DEF TypeOK
  <2>j. \A u \in Requests : task'[u] = "join" <=> u = t \/ task[u] = "join"
    BY <1>3 DEF TypeOK
  <2>1. \A u \in Requests : task'[u] = "join" =>
          \A r \in batch'[u] : Key(r) = Key(u) /\ state'[r] \in Taken
    <3> SUFFICES ASSUME NEW u \in Requests, task'[u] = "join", NEW r \in batch'[u]
                 PROVE  Key(r) = Key(u) /\ state'[r] \in Taken
      OBVIOUS
    <3>1. CASE u = t
      BY <3>1, <2>0, <1>6, <1>7 DEF Taken
    <3>2. CASE u # t
      <4>1. r \in Requests /\ Key(r) = Key(u) /\ state[r] \in Taken
        BY <3>2, <2>0, <2>j DEF Serialized, Batches, TypeOK
      <4>2. QED
        BY <4>1, <1>7, <1>8 DEF Taken
    <3>3. QED
      BY <3>1, <3>2
  <2>2. \A u \in Requests : task'[u] = "join" =>
          \A r, s \in batch'[u] : r = s \/ (Shared(r) /\ Shared(s))
    <3>1. \A i, j \in 1..n : i # j => Shared(q[i]) /\ Shared(q[j])
      BY <1>1, <1>2 DEF IsBatch
    <3>2. \A r, s \in popped : r = s \/ (Shared(r) /\ Shared(s))
      BY <3>1
    <3>3. QED
      BY <3>2, <2>0, <2>j DEF Serialized, Batches
  <2>3. \A r \in Requests : state'[r] \in {"taken", "running"} /\ Key(r) # NoKey =>
          \E u \in Requests : task'[u] = "join" /\ r \in batch'[u]
    <3> SUFFICES ASSUME NEW r \in Requests, state'[r] \in {"taken", "running"}, Key(r) # NoKey
                 PROVE  \E u \in Requests : task'[u] = "join" /\ r \in batch'[u]
      OBVIOUS
    <3>1. CASE r \in popped
      BY <3>1, <2>0, <2>j
    <3>2. CASE r \notin popped
      <4>1. PICK u \in Requests : task[u] = "join" /\ r \in batch[u]
        BY <3>2, <1>8 DEF Serialized, Batches
      <4>2. QED
        BY <4>1, <2>0, <2>j, <1>3
    <3>3. QED
      BY <3>1, <3>2
  <2>4. \A u \in Requests : batch'[u] \subseteq Requests
    BY <2>0, <1>6 DEF TypeOK
  <2>5. QED
    BY <2>1, <2>2, <2>3, <2>4, <1>4 DEF Batches
<1>16. Arrived'
  <2>1. \A r, s \in Requests :
          state'[r] = "queued" /\ state'[s] \in Taken /\ Key(r) = Key(s) => order[s] < order[r]
    <3> SUFFICES ASSUME NEW r \in Requests, NEW s \in Requests,
                        state'[r] = "queued", state'[s] \in Taken, Key(r) = Key(s)
                 PROVE  order[s] < order[r]
      OBVIOUS
    <3>1. r \notin popped /\ state[r] = "queued"
      BY <1>7, <1>8
    <3>2. CASE s \in popped
      BY <3>1, <3>2, <1>6, <1>12
    <3>3. CASE s \notin popped
      BY <3>1, <3>3, <1>8 DEF Serialized, Arrived
    <3>4. QED
      BY <3>2, <3>3
  <2>2. QED
    BY <2>1, <1>3, <1>4 DEF Serialized, Arrived
<1>17. InOrder'
  <2> SUFFICES ASSUME NEW r \in Requests, NEW s \in Requests, Conflict(r, s), state'[r] # "new",
                      order[r] < order[s], state'[s] \in Taken
               PROVE  state'[r] \in Over
    BY <1>3, <1>4 DEF InOrder, Conflict
  <2>o. order[r] \in Nat /\ order[s] \in Nat
    BY DEF TypeOK
  <2>1. CASE s \in popped
    <3>1. r \notin popped
      <4>1. \A i, j \in 1..n : i # j => Shared(q[i]) /\ Shared(q[j])
        BY <1>1, <1>2 DEF IsBatch
      <4>2. QED
        BY <2>1, <4>1 DEF Conflict
    <3>2. Key(r) = k /\ state'[r] = state[r]
      BY <2>1, <3>1, <1>6, <1>8 DEF Conflict
    <3>3. state[r] # "queued"
      BY <3>1, <3>2, <2>1, <2>o, <1>12
    <3>4. state[r] \notin {"taken", "running"}
      BY <3>2, <1>11
    <3>5. QED
      BY <3>2, <3>3, <3>4 DEF TypeOK, Taken
  <2>2. CASE s \notin popped
    <3>1. state[s] \in Taken
      BY <2>2, <1>8
    <3>2. r \notin popped
      <4>1. ASSUME r \in popped PROVE FALSE
        <5>1. state[r] = "queued" /\ Key(r) = Key(s)
          BY <4>1, <1>6 DEF Conflict
        <5>2. order[s] < order[r]
          BY <5>1, <3>1 DEF Serialized, Arrived
        <5>3. QED
          BY <5>2, <2>o
      <4>2. QED
        BY <4>1
    <3>3. state'[r] = state[r]
      BY <3>2, <1>8
    <3>4. QED
      BY <3>1, <3>3 DEF Serialized, InOrder
  <2>3. QED
    BY <2>1, <2>2
<1>18. QED
  BY <1>13, <1>14, <1>15, <1>16, <1>17 DEF Serialized

\* drain() finds its queue empty: the key goes with the task.
LEMMA ReturnSerialized ==
  ASSUME TypeOK, Serialized, NEW t \in Requests, DrainReturn(t)
  PROVE  Serialized'
<1>1. /\ task[t] = "drain"
      /\ Key(t) \in keys
      /\ queues[Key(t)] = <<>>
      /\ keys' = keys \ {Key(t)}
      /\ task' = [task EXCEPT ![t] = "ended"]
      /\ UNCHANGED <<request, state, order, arrivals, queues, batch>>
  BY DEF DrainReturn, Serialized, OneDrainer, Active
<1>2. \A s \in Requests : Key(s)' = Key(s) /\ Shared(s)' = Shared(s)
  BY <1>1 DEF Key, Shared
<1>3. \A u \in Requests : task'[u] = IF u = t THEN "ended" ELSE task[u]
  BY <1>1 DEF TypeOK
<1>4. OneDrainer'
  BY <1>1, <1>2, <1>3 DEF Serialized, OneDrainer, Active
<1>5. Queued'
  BY <1>1 DEF Serialized, Queued, Key
<1>6. Batches'
  BY <1>1, <1>2, <1>3 DEF Serialized, Batches, TypeOK
<1>7. Arrived' /\ InOrder'
  BY <1>1, <1>2 DEF Serialized, Arrived, InOrder, Conflict
<1>8. QED
  BY <1>4, <1>5, <1>6, <1>7 DEF Serialized

\* join_all has returned: the whole batch is over.
LEMMA JoinSerialized ==
  ASSUME TypeOK, Serialized, NEW t \in Requests, JoinAll(t)
  PROVE  Serialized'
<1>1. /\ task[t] = "join"
      /\ \A r \in batch[t] : state[r] \in Over
      /\ batch' = [batch EXCEPT ![t] = {}]
      /\ task' = [task EXCEPT ![t] = "drain"]
      /\ UNCHANGED <<request, state, order, arrivals, keys, queues>>
  BY DEF JoinAll
<1>2. \A s \in Requests : Key(s)' = Key(s) /\ Shared(s)' = Shared(s)
  BY <1>1 DEF Key, Shared
<1>3. \A u \in Requests : task'[u] = IF u = t THEN "drain" ELSE task[u]
  BY <1>1 DEF TypeOK
<1>4. \A u \in Requests : u # t => batch'[u] = batch[u]
  BY <1>1 DEF TypeOK
<1>5. OneDrainer'
  <2>1. \A u \in Requests : Active(u)' <=> Active(u)
    BY <1>1, <1>3 DEF Active
  <2>2. QED
    BY <2>1, <1>1, <1>2 DEF Serialized, OneDrainer
<1>6. Queued'
  BY <1>1 DEF Serialized, Queued, Key
<1>7. Batches'
  <2>1. \A u \in Requests : task'[u] = "join" <=> u # t /\ task[u] = "join"
    BY <1>3
  <2>2. \A r \in Requests : state[r] \in {"taken", "running"} => r \notin batch[t]
    BY <1>1 DEF Over
  <2>3. QED
    BY <2>1, <2>2, <1>1, <1>2, <1>4 DEF Serialized, Batches, TypeOK
<1>8. Arrived' /\ InOrder'
  BY <1>1, <1>2 DEF Serialized, Arrived, InOrder, Conflict
<1>9. QED
  BY <1>5, <1>6, <1>7, <1>8 DEF Serialized

\* A step in which requests under way go on or end, whoever makes them, and
\* tasks may die with their batches.
LEMMA ProgressSerialized ==
  ASSUME TypeOK, Serialized,
         UNCHANGED <<request, order, arrivals, keys, queues, batch>>,
         task' \in [Requests -> {"none", "drain", "join", "ended"}],
         \A t \in Requests : task'[t] = task[t] \/ (task[t] = "join" /\ task'[t] = "ended"),
         \A r \in Requests : \/ state'[r] = state[r]
                             \/ /\ state[r] \in {"taken", "running"}
                                /\ state'[r] \in {"running"} \cup Over,
         \A t \in Requests : task'[t] # task[t] => \A r \in batch[t] : state'[r] \in Over
  PROVE  Serialized'
<1>1. \A s \in Requests : Key(s)' = Key(s) /\ Shared(s)' = Shared(s)
  BY DEF Key, Shared
<1>2. \A r \in Requests : /\ state'[r] = "queued" <=> state[r] = "queued"
                          /\ state'[r] = "new" <=> state[r] = "new"
                          /\ state'[r] \in Taken <=> state[r] \in Taken
                          /\ state[r] \in Over => state'[r] \in Over
                          /\ state'[r] \in {"taken", "running"} =>
                               state[r] \in {"taken", "running"}
  BY DEF TypeOK, Taken, Over
<1>3. OneDrainer'
  BY <1>1 DEF Serialized, OneDrainer, Active
<1>4. Queued'
  <2>1. \A k \in Keys : \A i \in 1..Len(queues[k]) : queues[k][i] \in Requests
    BY DEF TypeOK
  <2>2. QED
    BY <1>2, <2>1 DEF Serialized, Queued, Key
<1>5. Batches'
  <2>1. \A t \in Requests : task'[t] = "join" => task[t] = "join"
    OBVIOUS
  <2>2. \A t \in Requests : batch[t] \subseteq Requests
    BY DEF TypeOK
  <2>3. \A r \in Requests : state'[r] \in {"taken", "running"} /\ Key(r) # NoKey =>
          \E t \in Requests : task'[t] = "join" /\ r \in batch[t]
    <3> SUFFICES ASSUME NEW r \in Requests, state'[r] \in {"taken", "running"}, Key(r) # NoKey
                 PROVE  \E t \in Requests : task'[t] = "join" /\ r \in batch[t]
      OBVIOUS
    <3>1. PICK t \in Requests : task[t] = "join" /\ r \in batch[t]
      BY <1>2 DEF Serialized, Batches
    <3>2. task'[t] = task[t]
      BY <3>1 DEF Over
    <3>3. QED
      BY <3>1, <3>2
  <2>4. QED
    BY <2>1, <2>2, <2>3, <1>1, <1>2 DEF Serialized, Batches
<1>6. Arrived'
  BY <1>1, <1>2 DEF Serialized, Arrived
<1>7. InOrder'
  BY <1>1, <1>2 DEF Serialized, InOrder, Conflict
<1>8. QED
  BY <1>3, <1>4, <1>5, <1>6, <1>7 DEF Serialized

\* Serialized is inductive relative to TypeOK.
LEMMA SerializedStep == TypeOK /\ Serialized /\ [Next]_vars => Serialized'
<1> SUFFICES ASSUME TypeOK, Serialized, [Next]_vars PROVE Serialized'
  OBVIOUS
<1>1. ASSUME NEW r \in Requests, Run(r) \/ Finish(r) PROVE Serialized'
  BY <1>1, ProgressSerialized DEF Run, Finish, queueVars, gateVars, TypeOK, Over
<1>2. ASSUME NEW r \in Requests, Panic(r) PROVE Serialized'
  <2> DEFINE tasks == {t \in Requests : task[t] = "join" /\ r \in batch[t]}
  <2> DEFINE lost == {r} \cup UNION {batch[t] : t \in tasks}
  <2>1. /\ state[r] = "running"
        /\ state' = [s \in Requests |->
              IF s \in lost /\ state[s] \notin Over THEN "dropped" ELSE state[s]]
        /\ task' = [t \in Requests |-> IF t \in tasks THEN "ended" ELSE task[t]]
        /\ UNCHANGED <<request, order, arrivals, keys, queues, batch>>
    BY <1>2 DEF Panic
  <2>2. \A t \in Requests : task'[t] = task[t] \/ (task[t] = "join" /\ task'[t] = "ended")
    BY <2>1
  <2>3. \A t \in tasks : \A s \in batch[t] : s \in Requests /\ state[s] \in Taken
    BY DEF TypeOK, Serialized, Batches
  <2>4. \A s \in Requests : s \in lost => state[s] \in Taken
    BY <2>1, <2>3 DEF Taken
  <2>5. \A s \in Requests : \/ state'[s] = state[s]
                            \/ /\ state[s] \in {"taken", "running"}
                               /\ state'[s] \in {"running"} \cup Over
    BY <2>1, <2>4 DEF Taken, Over
  <2>6. \A t \in Requests : task'[t] # task[t] => \A s \in batch[t] : state'[s] \in Over
    <3> SUFFICES ASSUME NEW t \in Requests, task'[t] # task[t], NEW s \in batch[t]
                 PROVE  state'[s] \in Over
      OBVIOUS
    <3>1. t \in tasks
      BY <2>1
    <3>2. s \in lost /\ s \in Requests
      BY <3>1, <2>3
    <3>3. QED
      BY <3>2, <2>1 DEF Over
  <2>7. task' \in [Requests -> {"none", "drain", "join", "ended"}]
    BY <2>1 DEF TypeOK
  <2>8. QED
    BY <2>1, <2>2, <2>5, <2>6, <2>7, ProgressSerialized
<1>3. ASSUME NEW c \in Connections, CloseConnection(c) \/ Cleanup(c) PROVE Serialized'
  BY <1>3, ProgressSerialized DEF CloseConnection, Cleanup, queueVars, TypeOK
<1>4. CASE UNCHANGED vars
  BY <1>4, ProgressSerialized DEF vars, queueVars, gateVars, TypeOK
<1>5. QED
  BY <1>1, <1>2, <1>3, <1>4, EnqueueSerialized, SpawnSerialized, TakeSerialized,
     ReturnSerialized, JoinSerialized DEF Next

\* Requests of one key take effect in the order they arrived: RequestSerialization-
\* Queues::drain starts none before every earlier conflicting one is over, however
\* many there are, wherever they come from and even if handlers panic.
THEOREM InOrderHolds == Spec => []InOrder
<1>1. Init => TypeOK /\ Serialized
  BY TypeInit, SerializedInit
<1>2. (TypeOK /\ Serialized) /\ [Next]_vars => (TypeOK /\ Serialized)'
  BY TypeStep, SerializedStep
<1>3. Serialized => InOrder
  BY DEF Serialized
<1>4. QED
  BY <1>1, <1>2, <1>3, PTL DEF Spec

-----------------------------------------------------------------------------
(* Gates                                                                   *)

\* DrainedIsQuiet, and that a cleanup starts only behind a closed gate.
Quiet ==
  /\ \A c \in Connections : cleanup[c] # "none" => gate[c] = "closed"
  /\ DrainedIsQuiet

\* Once ConnectionRpcGate.shutdown has returned, no handler of the connection runs
\* or starts again, although its requests may still sit in queues and batches.
THEOREM DrainedIsQuietHolds == Spec => []DrainedIsQuiet
<1>1. Init => Quiet
  BY DEF Init, Quiet, DrainedIsQuiet, OfConnection
<1>2. ASSUME TypeOK, Quiet, [Next]_vars PROVE Quiet'
  <2>1. ASSUME request' = request,
               UNCHANGED gateVars,
               \A r \in Requests : state'[r] = "running" => state[r] = "running"
        PROVE  Quiet'
    BY <1>2, <2>1 DEF Quiet, DrainedIsQuiet, OfConnection, gateVars
  <2>2. ASSUME NEW r \in Requests, Enqueue(r) \/ Spawn(r) PROVE Quiet'
    BY <1>2, <2>1, <2>2 DEF Enqueue, Spawn, Arrive, TypeOK
  <2>3. ASSUME NEW r \in Requests, Run(r) PROVE Quiet'
    <3>1. \A c \in Connections : request[r].connection = c /\ cleanup[c] # "none" =>
            state'[r] # "running"
      BY <1>2, <2>3 DEF Run, Admitted, Quiet, TypeOK
    <3>2. QED
      BY <1>2, <2>3, <3>1 DEF Run, Quiet, DrainedIsQuiet, OfConnection, gateVars, TypeOK
  <2>4. ASSUME NEW r \in Requests, Finish(r) \/ Panic(r) PROVE Quiet'
    BY <1>2, <2>1, <2>4 DEF Finish, Panic, TypeOK
  <2>5. ASSUME NEW t \in Requests, DrainTake(t) \/ DrainReturn(t) \/ JoinAll(t) PROVE Quiet'
    <3>1. CASE DrainTake(t)
      <4>1. \E popped : state' = [r \in Requests |->
              IF r \in popped THEN "taken" ELSE state[r]]
        BY <3>1 DEF DrainTake
      <4>2. \A r \in Requests : state'[r] = "running" => state[r] = "running"
        BY <4>1
      <4>3. QED
        BY <3>1, <4>2, <2>1 DEF DrainTake
    <3>2. CASE DrainReturn(t) \/ JoinAll(t)
      <4>1. state' = state /\ request' = request /\ UNCHANGED gateVars
        BY <3>2 DEF DrainReturn, JoinAll
      <4>2. QED
        BY <4>1, <2>1
    <3>3. QED
      BY <2>5, <3>1, <3>2
  <2>6. ASSUME NEW c \in Connections, CloseConnection(c) PROVE Quiet'
    BY <1>2, <2>6 DEF CloseConnection, Quiet, DrainedIsQuiet, OfConnection, TypeOK
  <2>9. ASSUME NEW c \in Connections, Cleanup(c) PROVE Quiet'
    <3>1. /\ gate[c] = "closed"
          /\ cleanup' = [cleanup EXCEPT ![c] =
               IF \E r \in OfConnection(c) : state[r] = "running" THEN "timedOut" ELSE "drained"]
          /\ UNCHANGED <<request, state, gate>>
      BY <2>9 DEF Cleanup
    <3>2. \A d \in Connections : d # c => cleanup'[d] = cleanup[d]
      BY <1>2, <3>1 DEF TypeOK
    <3>3. cleanup'[c] = "drained" => \A r \in OfConnection(c) : state[r] # "running"
      BY <1>2, <3>1 DEF TypeOK
    <3>4. QED
      BY <1>2, <3>1, <3>2, <3>3 DEF Quiet, DrainedIsQuiet, OfConnection
  <2>7. CASE UNCHANGED vars
    BY <2>1, <2>7 DEF vars, queueVars, gateVars
  <2>8. QED
    BY <1>2, <2>2, <2>3, <2>4, <2>5, <2>6, <2>7, <2>9 DEF Next
<1>3. Quiet => DrainedIsQuiet
  BY DEF Quiet
<1>4. QED
  BY <1>1, <1>2, <1>3, SerializationTypes, PTL DEF Spec

-----------------------------------------------------------------------------
(* Wake-ups                                                                *)

\* Every key of the map has its drain task, unless a handler of it panicked.
Drained ==
  \A k \in keys : ~Panicked(k) => \E t \in Requests : Key(t) = k /\ Active(t)

\* No wake-up is lost: enqueue either finds a task that will look again or
\* spawns one; a panic strands the requests of its own key only.
THEOREM NobodyStrandedHolds == Spec => []NobodyStranded
<1>1. Init => TypeOK /\ Serialized /\ Drained
  BY TypeInit, SerializedInit DEF Init, Drained
<1>2. ASSUME TypeOK, Serialized, Drained, [Next]_vars PROVE Drained'
  <2> SUFFICES ASSUME NEW k \in keys', ~Panicked(k)'
               PROVE  \E t \in Requests : Key(t)' = k /\ Active(t)'
    BY DEF Drained
  <2>k. \A s \in Requests : Key(s)' = Key(s)
    <3>1. request' = request
      BY <1>2 DEF Next, Enqueue, Spawn, Run, Finish, Panic, DrainTake, DrainReturn, JoinAll,
                  CloseConnection, Cleanup, vars
    <3>2. QED
      BY <3>1 DEF Key
  <2>p. \A s \in Requests : state[s] = "dropped" => state'[s] = "dropped"
    <3>1. ASSUME NEW r \in Requests, Enqueue(r) \/ Spawn(r) \/ Run(r) \/ Finish(r)
          PROVE  \A s \in Requests : state[s] = "dropped" => state'[s] = "dropped"
      BY <1>2, <3>1 DEF Enqueue, Spawn, Arrive, Run, Finish, TypeOK
    <3>2. ASSUME NEW r \in Requests, Panic(r)
          PROVE  \A s \in Requests : state[s] = "dropped" => state'[s] = "dropped"
      BY <3>2 DEF Panic
    <3>3. ASSUME NEW t \in Requests, DrainTake(t)
          PROVE  \A s \in Requests : state[s] = "dropped" => state'[s] = "dropped"
      <4>1. PICK n \in 1..Len(queues[Key(t)]) :
              state' = [r \in Requests |->
                IF r \in {queues[Key(t)][i] : i \in 1..n} THEN "taken" ELSE state[r]]
        BY <3>3 DEF DrainTake
      <4>2. Key(t) \in Keys
        BY <1>2, <3>3 DEF DrainTake, TypeOK
      <4>3. Len(queues[Key(t)]) \in Nat
        BY <1>2, <4>2 DEF TypeOK
      <4>4. \A i \in 1..n : state[queues[Key(t)][i]] = "queued"
        BY <1>2, <4>2, <4>3 DEF Serialized, Queued
      <4>5. QED
        BY <4>1, <4>4
    <3>4. ASSUME state' = state
          PROVE  \A s \in Requests : state[s] = "dropped" => state'[s] = "dropped"
      BY <3>4
    <3>5. QED
      BY <1>2, <3>1, <3>2, <3>3, <3>4
      DEF Next, DrainReturn, JoinAll, CloseConnection, Cleanup, vars
  <2>q. ~Panicked(k)
    BY <2>k, <2>p DEF Panicked
  <2>1. ASSUME keys' = keys, \A t \in Requests : Active(t) => Active(t)'
        PROVE  \E t \in Requests : Key(t)' = k /\ Active(t)'
    BY <1>2, <2>1, <2>k, <2>q DEF Drained
  <2>2. ASSUME NEW r \in Requests, Enqueue(r)
        PROVE  \E t \in Requests : Key(t)' = k /\ Active(t)'
    <3>1. CASE Key(r) \in keys
      BY <2>1, <2>2, <3>1 DEF Enqueue, Active
    <3>2. CASE Key(r) \notin keys
      <4>1. task' = [task EXCEPT ![r] = "drain"] /\ keys' = keys \cup {Key(r)}
        BY <2>2, <3>2 DEF Enqueue
      <4>2. \A t \in Requests : t = r \/ Active(t) => Active(t)'
        BY <1>2, <4>1 DEF TypeOK, Active
      <4>3. QED
        BY <1>2, <2>k, <2>q, <4>1, <4>2 DEF Drained
    <3>3. QED
      BY <3>1, <3>2
  <2>3. ASSUME NEW r \in Requests, Spawn(r) \/ Run(r) \/ Finish(r)
        PROVE  \E t \in Requests : Key(t)' = k /\ Active(t)'
    BY <2>1, <2>3 DEF Spawn, Run, Finish, queueVars, Active
  <2>9. ASSUME NEW r \in Requests, Panic(r)
        PROVE  \E t \in Requests : Key(t)' = k /\ Active(t)'
    <3> DEFINE tasks == {t \in Requests : task[t] = "join" /\ r \in batch[t]}
    <3>1. /\ state'[r] = "dropped"
          /\ task' = [t \in Requests |-> IF t \in tasks THEN "ended" ELSE task[t]]
          /\ keys' = keys
      BY <2>9 DEF Panic, Over
    <3>2. PICK u \in Requests : Key(u) = k /\ Active(u)
      BY <1>2, <2>q, <3>1 DEF Drained
    <3>3. Key(r) # k
      BY <2>k, <3>1 DEF Panicked
    <3>4. u \notin tasks
      BY <1>2, <3>2, <3>3 DEF Serialized, Batches
    <3>5. Active(u)'
      BY <3>1, <3>2, <3>4 DEF Active
    <3>6. QED
      BY <2>k, <3>2, <3>5
  <2>4. ASSUME NEW t \in Requests, DrainTake(t) \/ JoinAll(t)
        PROVE  \E u \in Requests : Key(u)' = k /\ Active(u)'
    BY <1>2, <2>1, <2>4 DEF DrainTake, JoinAll, Active, TypeOK
  <2>5. ASSUME NEW t \in Requests, DrainReturn(t)
        PROVE  \E u \in Requests : Key(u)' = k /\ Active(u)'
    <3>1. k \in keys /\ k # Key(t) /\ task' = [task EXCEPT ![t] = "ended"]
      BY <2>5 DEF DrainReturn
    <3>2. PICK u \in Requests : Key(u) = k /\ Active(u)
      BY <1>2, <2>q, <3>1 DEF Drained
    <3>3. QED
      BY <1>2, <2>k, <3>1, <3>2 DEF Active, TypeOK
  <2>6. ASSUME NEW c \in Connections, CloseConnection(c) \/ Cleanup(c)
        PROVE  \E t \in Requests : Key(t)' = k /\ Active(t)'
    BY <2>1, <2>6 DEF CloseConnection, Cleanup, queueVars, Active
  <2>7. CASE UNCHANGED vars
    BY <2>1, <2>7 DEF vars, queueVars, Active
  <2>8. QED
    BY <1>2, <2>2, <2>3, <2>4, <2>5, <2>6, <2>7, <2>9 DEF Next
<1>3. (TypeOK /\ Serialized /\ Drained) /\ [Next]_vars => (TypeOK /\ Serialized /\ Drained)'
  BY <1>2, TypeStep, SerializedStep
<1>4. Serialized /\ Drained => NobodyStranded
  BY DEF Serialized, Queued, Drained, NobodyStranded, Active
<1>5. QED
  BY <1>1, <1>3, <1>4, PTL DEF Spec
=============================================================================
