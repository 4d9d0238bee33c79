------------------------ MODULE RequestSerialization ------------------------
(***************************************************************************)
(* How the app-server schedules the requests of its connections:           *)
(* RequestSerializationQueues (one queue and at most one drain task per    *)
(* key, exclusive requests alone, a run of shared reads together),         *)
(* ConnectionRpcGate (no handler starts once its connection is closed) and *)
(* the cleanup of a closed connection, which waits for the handlers that   *)
(* have started, but only for so long.                                     *)
(*                                                                         *)
(* What a request is about is chosen at the start; its handler is a step   *)
(* that begins and a step that ends.  A drain task is named after the      *)
(* request whose enqueue spawned it.                                       *)
(***************************************************************************)
EXTENDS Naturals, Sequences

CONSTANTS
  Requests,
  Keys,             \* RequestSerializationQueueKey
  Connections,
  NoKey,            \* a request without serialization scope
  NoConnection      \* background work of the app-server itself

ASSUME RequestsAssumption ==
  /\ NoKey \notin Keys
  /\ NoConnection \notin Connections

Attributes ==
  [key : Keys, access : {"Exclusive", "SharedRead"},
   connection : Connections \cup {NoConnection}]
  \cup [key : {NoKey}, access : {"none"}, connection : Connections]

VARIABLES
  request,   \* the attributes of each request
  state,     \* how far each request has come
  order,     \* history: the place of a request in the order of arrival
  arrivals,  \* history: requests that have arrived
  keys,      \* keys of the map RequestSerializationQueues.inner
  queues,    \* the queues of that map
  task,      \* drain tasks, named after the request that spawned them
  batch,     \* what each drain task waits for in join_all
  gate,      \* ConnectionRpcGate.accepting
  cleanup    \* how connection_closed left its wait for the handlers

queueVars == <<keys, queues, task, batch>>
gateVars == <<gate, cleanup>>
vars == <<request, state, order, arrivals, queueVars, gateVars>>

\* A taken request is about to ask its gate; "dropped" is the end of a future
\* that was destroyed with its drain task.
Over == {"finished", "skipped", "dropped"}
Taken == {"taken", "running"} \cup Over

TypeOK ==
  /\ request \in [Requests -> Attributes]
  /\ state \in [Requests -> {"new", "queued"} \cup Taken]
  /\ order \in [Requests -> Nat]
  /\ arrivals \in Nat
  /\ keys \in SUBSET Keys
  /\ queues \in [Keys -> Seq(Requests)]
  /\ task \in [Requests -> {"none", "drain", "join", "ended"}]
  /\ batch \in [Requests -> SUBSET Requests]
  /\ gate \in [Connections -> {"accepting", "closed"}]
  /\ cleanup \in [Connections -> {"none", "drained", "timedOut"}]

Init ==
  /\ request \in [Requests -> Attributes]
  /\ state = [r \in Requests |-> "new"]
  /\ order = [r \in Requests |-> 0]
  /\ arrivals = 0
  /\ keys = {}
  /\ queues = [k \in Keys |-> <<>>]
  /\ task = [r \in Requests |-> "none"]
  /\ batch = [r \in Requests |-> {}]
  /\ gate = [c \in Connections |-> "accepting"]
  /\ cleanup = [c \in Connections |-> "none"]

Key(r) == request[r].key
Shared(r) == request[r].access = "SharedRead"
OfConnection(c) == {r \in Requests : request[r].connection = c}

\* A closed connection has left the map of connections: its requests are
\* dropped before they are dispatched.  Background work needs no connection.
Admitted(r) ==
  \A c \in Connections : request[r].connection = c => gate[c] = "accepting"

Arrive(r, s) ==
  /\ state[r] = "new"
  /\ Admitted(r)
  /\ state' = [state EXCEPT ![r] = s]
  /\ arrivals' = arrivals + 1
  /\ order' = [order EXCEPT ![r] = arrivals + 1]

-----------------------------------------------------------------------------
\* enqueue() and enqueue_background(): join the queue of the key, or insert it
\* and spawn its drain task.
Enqueue(r) ==
  /\ Key(r) # NoKey
  /\ Arrive(r, "queued")
  /\ IF Key(r) \in keys
     THEN /\ queues' = [queues EXCEPT ![Key(r)] = Append(@, r)]
          /\ UNCHANGED <<keys, task>>
     ELSE /\ queues' = [queues EXCEPT ![Key(r)] = <<r>>]
          /\ keys' = keys \cup {Key(r)}
          /\ task' = [task EXCEPT ![r] = "drain"]
  /\ UNCHANGED <<request, batch, gateVars>>

\* A request without scope gets a task of its own.
Spawn(r) ==
  /\ Key(r) = NoKey
  /\ Arrive(r, "taken")
  /\ UNCHANGED <<request, queueVars, gateVars>>

\* Mutant of IsBatch: a shared read takes everything behind it along.
IsBatchGreedy(q, n) == n = IF Shared(q[1]) THEN Len(q) ELSE 1

\* drain() pops n requests of q: the first, and behind a shared read every
\* further shared read up to the first request that is none.
IsBatch(q, n) ==
  /\ \A i \in 2..n : Shared(q[1]) /\ Shared(q[i])
  /\ n < Len(q) => ~(Shared(q[1]) /\ Shared(q[n + 1]))

\* drain() under the lock, with something to pop.
DrainTake(t) ==
  LET q == queues[Key(t)]
      popped(n) == {q[i] : i \in 1..n}
  IN /\ task[t] = "drain"
     /\ Key(t) \in keys
     /\ \E n \in 1..Len(q) :
          /\ IsBatch(q, n)
          /\ queues' = [queues EXCEPT ![Key(t)] = SubSeq(q, n + 1, Len(q))]
          /\ state' = [r \in Requests |-> IF r \in popped(n) THEN "taken" ELSE state[r]]
          /\ batch' = [batch EXCEPT ![t] = popped(n)]
     /\ task' = [task EXCEPT ![t] = "join"]
     /\ UNCHANGED <<request, order, arrivals, keys, gateVars>>

\* Mutant of DrainReturn: the key stays although nobody drains it any more.
DrainReturnKeepsKey(t) ==
  /\ task[t] = "drain"
  /\ Key(t) \in keys => queues[Key(t)] = <<>>
  /\ task' = [task EXCEPT ![t] = "ended"]
  /\ UNCHANGED <<request, state, order, arrivals, keys, queues, batch, gateVars>>

\* drain() under the lock, with nothing left: the key is removed.
DrainReturn(t) ==
  /\ task[t] = "drain"
  /\ Key(t) \in keys => queues[Key(t)] = <<>>
  /\ keys' = keys \ {Key(t)}
  /\ task' = [task EXCEPT ![t] = "ended"]
  /\ UNCHANGED <<request, state, order, arrivals, queues, batch, gateVars>>

\* Mutant of JoinAll: a request its gate refused never counts as over.
JoinAllHandled(t) ==
  /\ task[t] = "join"
  /\ \A r \in batch[t] : state[r] = "finished"
  /\ batch' = [batch EXCEPT ![t] = {}]
  /\ task' = [task EXCEPT ![t] = "drain"]
  /\ UNCHANGED <<request, state, order, arrivals, keys, queues, gateVars>>

\* join_all returns once every request of the batch is over.
JoinAll(t) ==
  /\ task[t] = "join"
  /\ \A r \in batch[t] : state[r] \in Over
  /\ batch' = [batch EXCEPT ![t] = {}]
  /\ task' = [task EXCEPT ![t] = "drain"]
  /\ UNCHANGED <<request, state, order, arrivals, keys, queues, gateVars>>

\* Mutant of Run: a request taken before its gate closed still starts.
RunUngated(r) ==
  /\ state[r] = "taken"
  /\ state' = [state EXCEPT ![r] = "running"]
  /\ UNCHANGED <<request, order, arrivals, queueVars, gateVars>>

\* ConnectionRpcGate.run up to its future: the test and the token are one
\* critical section.
Run(r) ==
  /\ state[r] = "taken"
  /\ state' = [state EXCEPT ![r] = IF Admitted(r) THEN "running" ELSE "skipped"]
  /\ UNCHANGED <<request, order, arrivals, queueVars, gateVars>>

\* The handler returns and its token is dropped.
Finish(r) ==
  /\ state[r] = "running"
  /\ state' = [state EXCEPT ![r] = "finished"]
  /\ UNCHANGED <<request, order, arrivals, queueVars, gateVars>>

\* A panic ends the task that polls the handler: the other futures of its
\* batch are dropped, and nobody removes the key.
Panic(r) ==
  /\ state[r] = "running"
  /\ LET tasks == {t \in Requests : task[t] = "join" /\ r \in batch[t]}
         lost == {r} \cup UNION {batch[t] : t \in tasks}
     IN /\ state' = [s \in Requests |->
                       IF s \in lost /\ state[s] \notin Over THEN "dropped" ELSE state[s]]
        /\ task' = [t \in Requests |-> IF t \in tasks THEN "ended" ELSE task[t]]
  /\ UNCHANGED <<request, order, arrivals, keys, queues, batch, gateVars>>

-----------------------------------------------------------------------------
\* TransportEvent::ConnectionClosed
CloseConnection(c) ==
  /\ gate[c] = "accepting"
  /\ gate' = [gate EXCEPT ![c] = "closed"]
  /\ UNCHANGED <<request, state, order, arrivals, queueVars, cleanup>>

\* connection_closed: TaskTracker.wait returns when no token is left, or the
\* timeout passes and the cleanup goes on beside running handlers.
Cleanup(c) ==
  LET running == \E r \in OfConnection(c) : state[r] = "running"
  IN /\ gate[c] = "closed"
     /\ cleanup[c] = "none"
     /\ cleanup' = [cleanup EXCEPT ![c] = IF running THEN "timedOut" ELSE "drained"]
     /\ UNCHANGED <<request, state, order, arrivals, queueVars, gate>>

Next ==
  \/ \E r \in Requests : Enqueue(r) \/ Spawn(r) \/ Run(r) \/ Finish(r) \/ Panic(r)
  \/ \E t \in Requests : DrainTake(t) \/ DrainReturn(t) \/ JoinAll(t)
  \/ \E c \in Connections : CloseConnection(c) \/ Cleanup(c)

Spec == Init /\ [][Next]_vars

-----------------------------------------------------------------------------
(* Safety                                                                  *)

\* Two requests the queue of a key keeps apart.
Conflict(r, s) ==
  /\ r # s
  /\ Key(r) = Key(s)
  /\ Key(r) # NoKey
  /\ ~(Shared(r) /\ Shared(s))

\* Requests of one key take effect in the order they arrived: none is started
\* before every earlier one it conflicts with is over, whatever connection it
\* came from.  So an exclusive request runs alone, and a later shared read
\* does not overtake a waiting writer.
InOrder ==
  \A r, s \in Requests :
    /\ Conflict(r, s)
    /\ state[r] # "new"
    /\ order[r] < order[s]
    /\ state[s] \in Taken
    => state[r] \in Over

\* A handler of the key has panicked.
Panicked(k) == \E r \in Requests : Key(r) = k /\ state[r] = "dropped"

\* A queue that has requests has somebody to drain it: no wake-up is lost
\* between a drain task that finds nothing left and an enqueue that finds the
\* key.  A panic breaks this for its own key (README), and for no other.
NobodyStranded ==
  \A k \in Keys : queues[k] # <<>> /\ ~Panicked(k) =>
    \E t \in Requests : Key(t) = k /\ task[t] \in {"drain", "join"}

\* Once the cleanup of a connection has seen its handlers end, none of them
\* runs again, not even one that was taken from a queue before the gate closed.
DrainedIsQuiet ==
  \A c \in Connections : cleanup[c] = "drained" =>
    \A r \in OfConnection(c) : state[r] # "running"

-----------------------------------------------------------------------------
(* Liveness                                                                *)

\* The runtime polls every task that is ready, and a handler returns.
Fairness ==
  /\ \A t \in Requests : WF_vars(DrainTake(t) \/ DrainReturn(t) \/ JoinAll(t))
  /\ \A r \in Requests : WF_vars(Run(r) \/ Finish(r))

FairSpec == Spec /\ Fairness

\* Every request that is queued is over in the end, though others keep coming
\* and the connections of those before it are closed; only a panicking handler
\* of its key can strand it.
EveryRequestEnds ==
  \A r \in Requests : state[r] = "queued" ~> (state[r] \in Over \/ Panicked(Key(r)))
=============================================================================
