----------------------------- MODULE SdkGateway -----------------------------
(***************************************************************************)
(* The control plane's end of the connection: SdkGateway (runtime.py) over *)
(* the Python SDK's CodexClient.  One reader thread takes the app-server's *)
(* messages in order; an approval request is handled on that same thread,  *)
(* so nothing behind it is routed until a person answers.                  *)
(*                                                                         *)
(* MessageRouter is modelled by what it does for the runner's turn: its    *)
(* queue exists once the runner has registered it, "inbox" is the terminal *)
(* item in that queue, and a turn/completed that comes earlier is dropped. *)
(***************************************************************************)
EXTENDS AppServerTurn

VARIABLES
  reader,             \* "idle", "dead", or inside the handler of an approval: of
                      \* the turn ("waiting") or of another thread ("other")
  registered,         \* the router has a queue for the runner's turn
  inbox,              \* terminal item in the runner's turn queue
  activeTurn,         \* SdkGateway._active_turn, 0 for None
  interruptRequested  \* SdkGateway._interrupt_requested

gatewayVars == <<reader, registered, inbox, activeTurn, interruptRequested>>

InHandler == reader \in {"waiting", "other"}
\* Requests _handle_server_request gives to the handler; it does not look at the
\* thread or the turn they name.
Requests == {"approval", "otherApproval"}

GatewayTypeOK ==
  /\ reader \in {"idle", "waiting", "other", "dead"}
  /\ registered \in BOOLEAN
  /\ inbox \in Ended \cup {"none", "closed"}
  /\ activeTurn \in Nat
  /\ interruptRequested \in BOOLEAN

GatewayInit ==
  /\ reader = "dead"
  /\ registered = FALSE
  /\ inbox = "none"
  /\ activeTurn = 0
  /\ interruptRequested = FALSE

-----------------------------------------------------------------------------
\* gateway.start(): spawn the app-server and the reader thread.
Connect ==
  /\ up' = TRUE
  /\ reader' = "idle"
  /\ UNCHANGED <<turn, turnStatus, blocked, aborting, interrupters, approvals,
                 wire, rpc, target, registered, inbox, activeTurn, interruptRequested>>

\* CodexClient._request_raw up to waiter.get(): writing to a process that is
\* gone raises at once.
Send(c, method, t) ==
  /\ rpc' = [rpc EXCEPT ![c] = IF up THEN method ELSE "error"]
  /\ target' = [target EXCEPT ![c] = t]
  /\ UNCHANGED <<up, turn, turnStatus, blocked, aborting, interrupters,
                 approvals, wire>>

\* waiter.get() has returned or raised.
Returned(c) == rpc[c] \in Replies

Forget(c) ==
  /\ rpc' = [rpc EXCEPT ![c] = "idle"]
  /\ UNCHANGED <<up, turn, turnStatus, blocked, aborting, interrupters,
                 approvals, wire, target>>

\* _reader_loop takes a response or a terminal notification off the stream.
\* route_notification drops a turn/completed nobody has registered for.
ReaderRoute ==
  /\ reader = "idle"
  /\ wire # <<>>
  /\ Head(wire).type \notin Requests
  /\ wire' = Tail(wire)
  /\ IF Head(wire).type \in Replies
     THEN /\ rpc' = [rpc EXCEPT ![Head(wire).to] = Head(wire).type]
          /\ UNCHANGED inbox
     ELSE /\ inbox' = IF registered THEN Head(wire).type ELSE inbox
          /\ UNCHANGED rpc
  /\ UNCHANGED <<up, turn, turnStatus, blocked, aborting, interrupters, approvals,
                 target, reader, registered, activeTurn, interruptRequested>>

\* _reader_loop takes an approval request and blocks in the handler.
ReaderTakeApproval ==
  /\ reader = "idle"
  /\ wire # <<>>
  /\ Head(wire).type \in Requests
  /\ wire' = Tail(wire)
  /\ reader' = IF Head(wire).type = "approval" THEN "waiting" ELSE "other"
  /\ UNCHANGED <<up, turn, turnStatus, blocked, aborting, interrupters,
                 approvals, rpc, target, registered, inbox, activeTurn,
                 interruptRequested>>

\* Mutants of FailAll: the turn queue, or the blocked requests, are not woken.
FailAllForgetsTurn ==
  /\ reader' = "dead"
  /\ wire' = <<>>
  /\ rpc' = [c \in Callers |-> IF rpc[c] \in Outstanding THEN "error" ELSE rpc[c]]
  /\ UNCHANGED <<registered, inbox, activeTurn, interruptRequested>>
FailAllForgetsRequests ==
  /\ reader' = "dead"
  /\ wire' = <<>>
  /\ inbox' = IF registered /\ inbox = "none" THEN "closed" ELSE inbox
  /\ UNCHANGED <<rpc, registered, activeTurn, interruptRequested>>

\* MessageRouter.fail_all as the reader ends: every blocked call and every
\* registered queue gets the transport failure; what was written is never read.
FailAll ==
  /\ reader' = "dead"
  /\ wire' = <<>>
  /\ rpc' = [c \in Callers |-> IF rpc[c] \in Outstanding THEN "error" ELSE rpc[c]]
  /\ inbox' = IF registered /\ inbox = "none" THEN "closed" ELSE inbox
  /\ UNCHANGED <<registered, activeTurn, interruptRequested>>

\* An answer is written; what another thread is told does not concern the turn.
Answered(own, d) ==
  IF own THEN ServerApprovalAnswered(d)
         ELSE UNCHANGED <<up, turn, turnStatus, blocked, aborting, interrupters,
                          approvals, rpc, target>>

\* A request of a kind request_approval does not know (input, elicitation) is
\* answered {"decision": "cancel"} without asking anybody; the app-server reads
\* no approval in that and the turn goes on.
ReaderAnswerUnknown ==
  /\ reader = "idle"
  /\ wire # <<>>
  /\ Head(wire).type \in Requests
  /\ up
  /\ wire' = Tail(wire)
  /\ Answered(Head(wire).type = "approval", "decline")
  /\ UNCHANGED gatewayVars

\* The handler returns d: it is written back, or the write raises.
ReaderAnswer(d) ==
  /\ InHandler
  /\ \/ /\ up
        /\ Answered(reader = "waiting", d)
        /\ reader' = "idle"
        /\ UNCHANGED <<wire, registered, inbox, activeTurn, interruptRequested>>
     \/ /\ ~up
        /\ FailAll
        /\ UNCHANGED <<up, turn, turnStatus, blocked, aborting, interrupters,
                       approvals, target>>

\* End of the stream.  After CodexClient.close the reader also stops before
\* it has read what is left.
ReaderEof(closed) ==
  /\ reader = "idle"
  /\ ~up
  /\ closed \/ wire = <<>>
  /\ FailAll
  /\ UNCHANGED <<up, turn, turnStatus, blocked, aborting, interrupters,
                 approvals, target>>

-----------------------------------------------------------------------------
\* turn_start registers the turn's queue, then run_turn publishes the turn
\* under _active_lock and reads the flag; a stop asked for before the turn
\* existed is sent now.  One step: only the reader looks at the queue, only
\* stop handlers look at _active_turn.
ActivateTurn ==
  /\ registered' = TRUE
  /\ activeTurn' = turn
  /\ IF interruptRequested
     THEN Send(Runner, "turnInterrupt", turn)
     ELSE Forget(Runner)
  /\ UNCHANGED <<reader, inbox, interruptRequested>>

\* The finally block of run_turn: the flag goes whoever set it.
LeaveTurn ==
  /\ registered' = FALSE
  /\ activeTurn' = 0
  /\ interruptRequested' = FALSE
  /\ inbox' = "none"
  /\ UNCHANGED reader

\* Mutant of Interrupt: the flag alone, even when a turn is active.
InterruptOnlyFlags(c) ==
  /\ interruptRequested' = TRUE
  /\ UNCHANGED <<serverVars, reader, registered, inbox, activeTurn>>

\* interrupt() under _active_lock, then turn_interrupt if a turn is active.
Interrupt(c) ==
  /\ interruptRequested' = TRUE
  /\ IF activeTurn = 0
     THEN UNCHANGED serverVars
     ELSE Send(c, "turnInterrupt", activeTurn)
  /\ UNCHANGED <<reader, registered, inbox, activeTurn>>
=============================================================================
