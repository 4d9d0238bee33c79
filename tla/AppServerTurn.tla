---------------------------- MODULE AppServerTurn ----------------------------
(***************************************************************************)
(* The app-server's side of one connection: the turn it runs for the       *)
(* control plane, the approvals the turn may block on, those that threads  *)
(* spawned by it ask for on their own account, the turn/interrupt requests *)
(* it owes an answer, and the ordered stream of messages it writes.  The   *)
(* model's own work inside a turn is a nondeterministic choice of how and  *)
(* when the turn ends.                                                     *)
(***************************************************************************)
EXTENDS Naturals, Sequences

CONSTANTS
  Runner,        \* the thread that executes HarnessRunner.run
  Stoppers,      \* HTTP handler threads serving POST /api/runs/<id>/stop
  MaxApprovals   \* bound: approvals the app-server asks for in one run

ASSUME RunnerAssumption == Runner \notin Stoppers
ASSUME MaxApprovalsAssumption == MaxApprovals \in Nat

Callers == Stoppers \cup {Runner}

VARIABLES
  up,            \* the app-server process is alive
  turn,          \* number of the last turn started
  turnStatus,    \* "idle", "running", or how the ending turn ended
  blocked,       \* number of approval requests the turn is blocked on
  aborting,      \* the turn has been told to abort
  interrupters,  \* ThreadState.pending_interrupts
  approvals,     \* approvals asked for so far
  wire,          \* messages written and not yet read by the SDK
  rpc,           \* the outstanding request of each calling thread
  target         \* the turn a caller's turn/interrupt names

serverVars == <<up, turn, turnStatus, blocked, aborting, interrupters,
                approvals, wire, rpc, target>>

Ended == {"completed", "interrupted", "failed"}
Replies == {"ok", "error"}
\* The terminal turn/completed and an "approval" concern the runner's turn; an
\* "otherApproval" comes from another thread of the session (a sub-agent).
Approvals == [type : {"approval"}, to : {Runner}]
OtherApprovals == [type : {"otherApproval"}, to : {Runner}]
Endings == [type : Ended, to : {Runner}]
Messages == Approvals \cup OtherApprovals \cup Endings \cup [type : Replies, to : Callers]
Outstanding == {"turnStart", "accepted", "turnInterrupt", "parked"}

ServerTypeOK ==
  /\ up \in BOOLEAN
  /\ turn \in Nat
  /\ turnStatus \in Ended \cup {"idle", "running"}
  /\ blocked \in Nat
  /\ aborting \in BOOLEAN
  /\ interrupters \in Seq(Callers)
  /\ approvals \in 0..MaxApprovals
  /\ wire \in Seq(Messages)
  /\ rpc \in [Callers -> Outstanding \cup Replies \cup {"idle"}]
  /\ target \in [Callers -> Nat]

ServerInit ==
  /\ up = FALSE
  /\ turn = 0
  /\ turnStatus = "idle"
  /\ blocked = 0
  /\ aborting = FALSE
  /\ interrupters = <<>>
  /\ approvals = 0
  /\ wire = <<>>
  /\ rpc = [c \in Callers |-> "idle"]
  /\ target = [c \in Callers |-> 0]

Put(type, to) == wire' = Append(wire, [type |-> type, to |-> to])

-----------------------------------------------------------------------------
\* turn/start is accepted: the turn is submitted to the thread.
ServerStartTurn ==
  /\ up
  /\ rpc[Runner] = "turnStart"
  /\ rpc' = [rpc EXCEPT ![Runner] = "accepted"]
  /\ turn' = turn + 1
  /\ turnStatus' = "running"
  /\ UNCHANGED <<up, blocked, aborting, interrupters, approvals, wire, target>>

\* The response to turn/start.  The thread's listener is another task: events of
\* the turn, its end included, may be written before the response.
ServerRespondTurn ==
  /\ up
  /\ rpc[Runner] = "accepted"
  /\ rpc' = [rpc EXCEPT ![Runner] = "parked"]
  /\ Put("ok", Runner)
  /\ UNCHANGED <<up, turn, turnStatus, blocked, aborting, interrupters, approvals, target>>

\* turn/start is refused (invalid input, thread not loaded).
ServerRejectTurn ==
  /\ up
  /\ rpc[Runner] = "turnStart"
  /\ rpc' = [rpc EXCEPT ![Runner] = "parked"]
  /\ Put("error", Runner)
  /\ UNCHANGED <<up, turn, turnStatus, blocked, aborting, interrupters,
                 approvals, target>>

\* turn_interrupt_inner: only the active turn can be interrupted; the request
\* is parked in pending_interrupts and Op::Interrupt submitted.
ServerTurnInterrupt(c) ==
  /\ up
  /\ rpc[c] = "turnInterrupt"
  /\ rpc' = [rpc EXCEPT ![c] = "parked"]
  /\ \/ /\ turnStatus = "running"
        /\ target[c] = turn
        /\ interrupters' = Append(interrupters, c)
        /\ aborting' = TRUE
        /\ UNCHANGED wire
     \/ /\ turnStatus # "running" \/ target[c] # turn
        /\ Put("error", c)
        /\ UNCHANGED <<interrupters, aborting>>
  /\ UNCHANGED <<up, turn, turnStatus, blocked, approvals, target>>

\* Mutant of ServerAskApproval: a tool call that outlives its turn asks.
ServerAskApprovalLate ==
  /\ up
  /\ turn > 0
  /\ approvals < MaxApprovals
  /\ blocked' = blocked + 1
  /\ approvals' = approvals + 1
  /\ Put("approval", Runner)
  /\ UNCHANGED <<up, turn, turnStatus, aborting, interrupters, rpc, target>>

\* A tool call of the turn asks for an approval and blocks on the answer.  Calls
\* run side by side, and each request has its own waiter.
ServerAskApproval ==
  /\ up
  /\ turnStatus = "running"
  /\ approvals < MaxApprovals
  /\ blocked' = blocked + 1
  /\ approvals' = approvals + 1
  /\ Put("approval", Runner)
  /\ UNCHANGED <<up, turn, turnStatus, aborting, interrupters, rpc, target>>

\* A thread spawned by an earlier turn asks.  Its listener is attached to the same
\* connection, and it need not wait for a turn of the runner to be running.
ServerAskOther ==
  /\ up
  /\ turn > 0
  /\ approvals < MaxApprovals
  /\ approvals' = approvals + 1
  /\ Put("otherApproval", Runner)
  /\ UNCHANGED <<up, turn, turnStatus, blocked, aborting, interrupters, rpc, target>>

\* TurnComplete or TurnAborted is tracked: from here on turn/interrupt is
\* refused, and its pending server requests are aborted.  A turn that was told to
\* abort may still win the race and complete; a blocked one cannot.
ServerEndTurn(how) ==
  /\ up
  /\ turnStatus = "running"
  /\ IF how = "interrupted" THEN aborting ELSE blocked = 0
  /\ turnStatus' = how
  /\ blocked' = 0
  /\ aborting' = FALSE
  /\ UNCHANGED <<up, turn, interrupters, approvals, wire, rpc, target>>

\* Mutant of ServerAnswerInterrupt: the answered request stays pending.
ServerAnswerInterruptKeeps ==
  /\ up
  /\ turnStatus \in Ended
  /\ interrupters # <<>>
  /\ Put("ok", Head(interrupters))
  /\ UNCHANGED <<up, turn, turnStatus, blocked, aborting, interrupters, approvals,
                 rpc, target>>

\* respond_to_pending_interrupts, one request at a time.
ServerAnswerInterrupt ==
  /\ up
  /\ turnStatus \in Ended
  /\ interrupters # <<>>
  /\ Put("ok", Head(interrupters))
  /\ interrupters' = Tail(interrupters)
  /\ UNCHANGED <<up, turn, turnStatus, blocked, aborting, approvals, rpc, target>>

\* The turn/completed notification, after the interrupt responses.
ServerNotifyTurn ==
  /\ up
  /\ turnStatus \in Ended
  /\ interrupters = <<>>
  /\ Put(turnStatus, Runner)
  /\ turnStatus' = "idle"
  /\ UNCHANGED <<up, turn, blocked, aborting, interrupters, approvals, rpc, target>>

\* The process ends, by itself or terminated by CodexClient.close.  What it
\* has already written can still be read.
ServerGone ==
  /\ up' = FALSE
  /\ turnStatus' = "idle"
  /\ blocked' = 0
  /\ aborting' = FALSE
  /\ interrupters' = <<>>
  /\ UNCHANGED <<turn, approvals, wire, rpc, target>>

\* The answer to an approval of the turn reaches it, unless the turn has ended
\* meanwhile.  "cancel" is ReviewDecision::Abort: the turn stays blocked until it
\* is aborted.
ServerApprovalAnswered(d) ==
  /\ blocked' = IF blocked > 0 /\ d # "cancel" THEN blocked - 1 ELSE blocked
  /\ aborting' = (aborting \/ (blocked > 0 /\ d = "cancel"))
  /\ UNCHANGED <<up, turn, turnStatus, interrupters, approvals, rpc, target>>

Server ==
  \/ ServerStartTurn
  \/ ServerRespondTurn
  \/ ServerRejectTurn
  \/ \E c \in Callers : ServerTurnInterrupt(c)
  \/ ServerAskApproval
  \/ ServerAskOther
  \/ \E how \in Ended : ServerEndTurn(how)
  \/ ServerAnswerInterrupt
  \/ ServerNotifyTurn
=============================================================================
