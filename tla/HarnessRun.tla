----------------------------- MODULE HarnessRun -----------------------------
(***************************************************************************)
(* One run of the control plane: the thread of HarnessRunner.run executing *)
(* a phase program (or the older solver/verifier pair) over the gateway,   *)
(* the SDK reader thread, the HTTP handlers that post decisions and stops, *)
(* and the app-server at the other end of the pipe.                        *)
(***************************************************************************)
EXTENDS RunSession, SdkGateway, FiniteSets

CONSTANTS
  Programs,       \* the ordered programs a run may be given
  ServerMayExit   \* may the app-server process die in the middle of a run?

PhaseKinds == {"work", "command", "verify", "checkpoint"}
\* "solver" and "verifier" are the two stages of a manifest without phases.
Phases == [kind : PhaseKinds \cup {"solver", "verifier"},
           stopOnFailure : BOOLEAN,
           maxRepairs : 0..2]

\* PhaseProgram.validate_program, on a program already in execution order.
ValidProgram(p) ==
  /\ \A i \in 1..Len(p) : p[i].kind \in PhaseKinds
  /\ p[1].kind = "work"
  /\ \A i \in 1..Len(p) - 1 : ~(p[i].kind = "checkpoint" /\ p[i + 1].kind = "checkpoint")

\* HarnessRunner.run without a phase program: a solver turn, then the verifier
\* when manifest.verification is enabled.
ClassicProgram(p) ==
  /\ Len(p) <= 2
  /\ p[1].kind = "solver"
  /\ Len(p) = 2 => p[2].kind = "verifier"

ASSUME ProgramsAssumption ==
  \A p \in Programs :
    /\ p \in Seq(Phases)
    /\ Len(p) > 0
    /\ ValidProgram(p) \/ ClassicProgram(p)
ASSUME SwitchAssumption == ServerMayExit \in BOOLEAN

VARIABLES
  program,      \* the ordered phases of this run
  pc,           \* where HarnessRunner.run is
  phase,        \* index of the current phase
  attempt,      \* repairs already made in the current verify phase
  outcome,      \* TurnOutcome.status of the turn that just ended
  turnIds,      \* PhaseRunResult.turn_ids
  phaseTurns,   \* phase_turn_ids of the current phase
  executions,   \* PhaseRunResult.executions; for a manifest without phases,
                \* what became of the solver and verifier stages
  completion,   \* completion_status
  feedback,     \* checkpoint whose text is pending_human_feedback, 0 for ""
  deliveries,   \* history: which phase's prompt carried which feedback
  stopPc,       \* where each stop handler is
  stopAnswer    \* what each stop handler returned

receiptVars == <<program, phase, attempt, outcome, turnIds, phaseTurns,
                 executions, completion, feedback, deliveries>>
stopVars == <<stopPc, stopAnswer>>
sdkVars == <<serverVars, gatewayVars>>
vars == <<sessionVars, sdkVars, pc, receiptVars, stopVars>>

\* While pc is one of these the runner is inside run_turn, before its end.
TurnPcs == {"turnStart", "selfInterrupt", "awaitTurn"}
Pcs == TurnPcs \cup {"queued", "bind", "setup", "phase", "checkpoint", "leaveTurn",
                     "record", "finish", "raise", "unbind", "close", "done"}
Completions == {"completed", "stopped", "stoppedAtCheckpoint", "failedCheck"}
Executions == [phase : Nat, status : {"pass", "stopped", "fail", "repair"},
               turns : Seq(Nat), feedback : BOOLEAN]

TypeOK ==
  /\ SessionTypeOK
  /\ ServerTypeOK
  /\ GatewayTypeOK
  /\ program \in Programs
  /\ pc \in Pcs
  /\ phase \in 1..Len(program) + 1
  /\ attempt \in 0..2
  /\ outcome \in Ended \cup {"none", "closed"}
  /\ turnIds \in Seq(Nat)
  /\ phaseTurns \in Seq(Nat)
  /\ executions \in Seq(Executions)
  /\ completion \in Completions
  /\ feedback \in 0..Len(program)
  /\ deliveries \in Seq([from : Nat, to : Nat])
  /\ stopPc \in [Stoppers -> {"idle", "interrupt", "waiting", "returned"}]
  /\ stopAnswer \in [Stoppers -> {"none", "true", "false", "error"}]

Init ==
  /\ SessionInit
  /\ ServerInit
  /\ GatewayInit
  /\ program \in Programs
  /\ pc = "queued"
  /\ phase = 1
  /\ attempt = 0
  /\ outcome = "none"
  /\ turnIds = <<>>
  /\ phaseTurns = <<>>
  /\ executions = <<>>
  /\ completion = "completed"
  /\ feedback = 0
  /\ deliveries = <<>>
  /\ stopPc = [h \in Stoppers |-> "idle"]
  /\ stopAnswer = [h \in Stoppers |-> "none"]

Goto(next) == pc' = next
Kind == program[phase].kind

-----------------------------------------------------------------------------
(* HarnessRunner.run: setting up                                           *)

Begin ==
  /\ pc = "queued"
  /\ SetStatus("running")
  /\ Goto("bind")
  /\ UNCHANGED <<receiptVars, sdkVars, stopVars>>

Bind ==
  /\ pc = "bind"
  /\ BindInterrupt(TRUE)
  /\ Goto("setup")
  /\ UNCHANGED <<receiptVars, sdkVars, stopVars>>

\* gateway.start, selected threads read, thread started, memory mode set.
\* Any of these may raise: no codex binary, an empty excerpt, an RPC error.
Setup ==
  /\ pc = "setup"
  /\ \/ /\ Connect
        /\ \E next \in {"phase", "raise"} : Goto(next)
     \/ /\ Goto("raise")
        /\ UNCHANGED <<serverVars, gatewayVars>>
  /\ UNCHANGED <<receiptVars, sessionVars, stopVars>>

-----------------------------------------------------------------------------
(* execute_phase_program: one phase                                        *)

\* Mutant of Record: a stopped phase does not end the program.
RecordGoesOn(result, stop, text) ==
  /\ executions' = Append(executions,
       [phase |-> phase, status |-> result, turns |-> phaseTurns, feedback |-> text])
  /\ phase' = phase + 1
  /\ attempt' = 0
  /\ phaseTurns' = <<>>
  /\ Goto(IF phase = Len(program) THEN "finish" ELSE "phase")
\* The loop of execute_phase_program: the phase is recorded, then the next one
\* starts unless this one set stop_after_execution.
Record(result, stop, text) ==
  /\ executions' = Append(executions,
       [phase |-> phase, status |-> result, turns |-> phaseTurns, feedback |-> text])
  /\ phase' = phase + 1
  /\ attempt' = 0
  /\ phaseTurns' = <<>>
  /\ Goto(IF stop \/ phase = Len(program) THEN "finish" ELSE "phase")

\* A checkpoint asks without a model call.
AskCheckpoint ==
  /\ pc = "phase"
  /\ Kind = "checkpoint"
  /\ EnterWait("checkpoint")
  /\ Goto("checkpoint")
  /\ UNCHANGED <<receiptVars, sdkVars, stopVars>>

\* The answer, or the decline that stands for the deadline.  An accepted
\* checkpoint replaces the pending feedback, by nothing if none was given.
LeaveCheckpoint ==
  /\ pc = "checkpoint"
  /\ LeaveWait
  /\ LET accepted == Resolution.decision \in Accepting
     IN /\ Record(IF accepted THEN "pass" ELSE "stopped", ~accepted, Resolution.feedback)
        /\ completion' = IF accepted THEN completion ELSE "stoppedAtCheckpoint"
        /\ feedback' = IF ~accepted THEN feedback
                       ELSE IF Resolution.feedback THEN phase ELSE 0
  /\ UNCHANGED <<program, outcome, turnIds, deliveries>>
  /\ UNCHANGED <<sdkVars, stopVars>>

\* turn_start for a work, command or verify turn.  The prompts of work and
\* verify turns carry the pending feedback; the prompt of a command does not.
StartTurn ==
  /\ pc = "phase"
  /\ Kind # "checkpoint"
  /\ Send(Runner, "turnStart", 0)
  /\ deliveries' = IF feedback # 0 /\ Kind \in {"work", "verify"}
                   THEN Append(deliveries, [from |-> feedback, to |-> phase])
                   ELSE deliveries
  /\ Goto("turnStart")
  /\ UNCHANGED <<program, phase, attempt, outcome, turnIds, phaseTurns, executions,
                 completion, feedback>>
  /\ UNCHANGED <<sessionVars, gatewayVars, stopVars>>

TurnStarted ==
  /\ pc = "turnStart"
  /\ rpc[Runner] = "ok"
  /\ ActivateTurn
  /\ Goto(IF interruptRequested THEN "selfInterrupt" ELSE "awaitTurn")
  /\ UNCHANGED <<receiptVars, sessionVars, stopVars>>

\* The runner's own turn_interrupt sits before the try block: an error leaves
\* run_turn without clearing _active_turn.
SelfInterruptReturned ==
  /\ pc = "selfInterrupt"
  /\ rpc[Runner] = "ok"
  /\ Forget(Runner)
  /\ Goto("awaitTurn")
  /\ UNCHANGED <<receiptVars, sessionVars, gatewayVars, stopVars>>

\* turn/start or the runner's turn/interrupt raised.
TurnRequestFailed ==
  /\ pc \in {"turnStart", "selfInterrupt"}
  /\ rpc[Runner] = "error"
  /\ Forget(Runner)
  /\ Goto("raise")
  /\ UNCHANGED <<receiptVars, sessionVars, gatewayVars, stopVars>>

\* next_turn_notification yields turn/completed, or raises.
TurnEnded ==
  /\ pc = "awaitTurn"
  /\ inbox # "none"
  /\ outcome' = inbox
  /\ Goto("leaveTurn")
  /\ UNCHANGED <<program, phase, attempt, turnIds, phaseTurns, executions,
                 completion, feedback, deliveries>>
  /\ UNCHANGED <<sessionVars, sdkVars, stopVars>>

\* run_turn's finally, then _record_turn in the caller.  Work and verify turns
\* have used up the pending feedback, a command has not.
FinishTurn ==
  /\ pc = "leaveTurn"
  /\ LeaveTurn
  /\ IF outcome = "closed"
     THEN /\ Goto("raise")
          /\ UNCHANGED <<turnIds, phaseTurns, feedback>>
     ELSE /\ Goto("record")
          /\ turnIds' = Append(turnIds, turn)
          /\ phaseTurns' = Append(phaseTurns, turn)
          /\ feedback' = IF Kind = "command" THEN feedback ELSE 0
  /\ UNCHANGED <<program, phase, attempt, outcome, executions, completion, deliveries>>
  /\ UNCHANGED <<sessionVars, serverVars, stopVars>>

\* A work phase or the solver stage of the older program.
RecordWork ==
  /\ pc = "record"
  /\ Kind \in {"work", "solver"}
  /\ LET passed == outcome = "completed"
     IN /\ Record(IF passed THEN "pass" ELSE "stopped", ~passed, FALSE)
        /\ completion' = IF passed THEN completion ELSE "stopped"
  /\ UNCHANGED <<program, outcome, turnIds, feedback, deliveries, sessionVars, sdkVars, stopVars>>

\* A command that was interrupted.  The last test of the branch, not passed
\* and stop_on_failure, applies to it too.
RecordCommandStopped ==
  /\ pc = "record"
  /\ Kind = "command"
  /\ outcome # "completed"
  /\ Record("stopped", TRUE, FALSE)
  /\ completion' = IF program[phase].stopOnFailure THEN "failedCheck" ELSE "stopped"
  /\ UNCHANGED <<program, outcome, turnIds, feedback, deliveries, sessionVars, sdkVars, stopVars>>

\* A command that ran: observed by exactly one matching item with the expected
\* exit code (observed) and reported so by the model (agrees).
RecordCommandResult(observed, agrees) ==
  /\ pc = "record"
  /\ Kind = "command"
  /\ outcome = "completed"
  /\ LET passed == observed /\ agrees
         failed == ~passed /\ program[phase].stopOnFailure
     IN /\ Record(IF passed THEN "pass" ELSE "fail", failed, FALSE)
        /\ completion' = IF failed THEN "failedCheck" ELSE completion
  /\ UNCHANGED <<program, outcome, turnIds, feedback, deliveries, sessionVars, sdkVars, stopVars>>

\* A verify turn that did not complete.
RecordVerifyStopped ==
  /\ pc = "record"
  /\ Kind = "verify"
  /\ outcome # "completed"
  /\ Record("stopped", TRUE, FALSE)
  /\ completion' = "stopped"
  /\ UNCHANGED <<program, outcome, turnIds, feedback, deliveries, sessionVars, sdkVars, stopVars>>

\* Mutant of RecordVerdict: one repair too many.
RecordVerdictOneMore(verdict) ==
  /\ pc = "record"
  /\ \/ Kind = "verify" /\ outcome = "completed"
     \/ Kind = "verifier"
  /\ IF verdict = "repair" /\ attempt <= program[phase].maxRepairs
     THEN /\ attempt' = attempt + 1
          /\ Goto("phase")
          /\ UNCHANGED <<phase, phaseTurns, executions>>
     ELSE Record(verdict, FALSE, FALSE)
  /\ UNCHANGED <<program, outcome, turnIds, completion, feedback, deliveries>>
  /\ UNCHANGED <<sessionVars, sdkVars, stopVars>>

\* A verdict.  "repair" with an attempt left starts another turn of the same
\* phase; the last verdict stands and the program goes on.  The verifier stage
\* of the older program does not look at the turn's status: an interrupted
\* turn's text may still hold a verdict.
RecordVerdict(verdict) ==
  /\ pc = "record"
  /\ \/ Kind = "verify" /\ outcome = "completed"
     \/ Kind = "verifier"
  /\ IF verdict = "repair" /\ attempt < program[phase].maxRepairs
     THEN /\ attempt' = attempt + 1
          /\ Goto("phase")
          /\ UNCHANGED <<phase, phaseTurns, executions>>
     ELSE Record(verdict, FALSE, FALSE)
  /\ UNCHANGED <<program, outcome, turnIds, completion, feedback, deliveries>>
  /\ UNCHANGED <<sessionVars, sdkVars, stopVars>>

\* json.loads of a structured answer fails: the exception leaves the program.
RecordMalformed ==
  /\ pc = "record"
  /\ \/ Kind \in {"command", "verify"} /\ outcome = "completed"
     \/ Kind = "verifier"
  /\ Goto("raise")
  /\ UNCHANGED <<receiptVars, sessionVars, sdkVars, stopVars>>

-----------------------------------------------------------------------------
(* HarnessRunner.run: ending                                               *)

Finish ==
  /\ pc = "finish"
  /\ SetStatus(IF completion = "stopped" THEN "stopped" ELSE "completed")
  /\ Goto("unbind")
  /\ UNCHANGED <<receiptVars, sdkVars, stopVars>>

\* except Exception: the run failed and has no receipt.
Fail ==
  /\ pc = "raise"
  /\ SetStatus("failed")
  /\ Goto("unbind")
  /\ UNCHANGED <<receiptVars, sdkVars, stopVars>>

\* finally: bind_interrupt(None), then gateway.close().
Unbind ==
  /\ pc = "unbind"
  /\ BindInterrupt(FALSE)
  /\ Goto("close")
  /\ UNCHANGED <<receiptVars, sdkVars, stopVars>>

Close ==
  /\ pc = "close"
  /\ ServerGone
  /\ Goto("done")
  /\ UNCHANGED <<receiptVars, sessionVars, gatewayVars, stopVars>>

-----------------------------------------------------------------------------
(* The SDK reader thread, in the session's approval handler                *)

\* session.request_approval: the request is shown to the person.
RequestApproval ==
  /\ ReaderTakeApproval
  /\ EnterWait("approval")
  /\ UNCHANGED <<pc, receiptVars, stopVars>>

ApprovalResolved ==
  /\ ReaderAnswer(Resolution.decision)
  /\ LeaveWait
  /\ UNCHANGED <<pc, receiptVars, stopVars>>

\* The reader routes, answers by itself, or ends.
ReaderStep ==
  /\ ReaderRoute \/ ReaderAnswerUnknown \/ ReaderEof(pc = "done")
  /\ UNCHANGED <<sessionVars, pc, receiptVars, stopVars>>

-----------------------------------------------------------------------------
(* HTTP handlers                                                           *)

\* POST /api/runs/<id>/approval
PostDecision(d, withFeedback) ==
  /\ Decide(d, withFeedback)
  /\ UNCHANGED <<sdkVars, pc, receiptVars, stopVars>>

Answer(h, value) ==
  /\ stopPc' = [stopPc EXCEPT ![h] = "returned"]
  /\ stopAnswer' = [stopAnswer EXCEPT ![h] = value]

\* POST /api/runs/<id>/stop: request_stop() as far as its lock reaches.
RequestStop(h) ==
  /\ stopPc[h] = "idle"
  /\ \/ StopRefused /\ Answer(h, "false")
     \/ StopPending /\ Answer(h, "true")
     \/ StopFetchCallback /\ ~interrupt /\ Answer(h, "false")
     \/ /\ StopFetchCallback
        /\ interrupt
        /\ stopPc' = [stopPc EXCEPT ![h] = "interrupt"]
        /\ UNCHANGED stopAnswer
  /\ UNCHANGED <<sdkVars, pc, receiptVars>>

\* The callback, SdkGateway.interrupt, called without the session's lock.
StopInterrupt(h) ==
  /\ stopPc[h] = "interrupt"
  /\ Interrupt(h)
  /\ IF activeTurn = 0
     THEN Answer(h, "true")
     ELSE /\ stopPc' = [stopPc EXCEPT ![h] = "waiting"]
          /\ UNCHANGED stopAnswer
  /\ UNCHANGED <<sessionVars, pc, receiptVars>>

StopReturned(h) ==
  /\ stopPc[h] = "waiting"
  /\ Returned(h)
  /\ Answer(h, IF rpc[h] = "ok" THEN "true" ELSE "error")
  /\ Forget(h)
  /\ UNCHANGED <<sessionVars, gatewayVars, pc, receiptVars>>

-----------------------------------------------------------------------------
ServerStep ==
  /\ Server
  /\ UNCHANGED <<sessionVars, gatewayVars, pc, receiptVars, stopVars>>

ServerExit ==
  /\ ServerMayExit
  /\ up
  /\ ServerGone
  /\ UNCHANGED <<sessionVars, gatewayVars, pc, receiptVars, stopVars>>

RunnerStep ==
  \/ Begin \/ Bind \/ Setup
  \/ AskCheckpoint \/ LeaveCheckpoint
  \/ StartTurn \/ TurnStarted \/ SelfInterruptReturned \/ TurnRequestFailed
  \/ TurnEnded \/ FinishTurn
  \/ RecordWork \/ RecordCommandStopped
  \/ \E observed, agrees \in BOOLEAN : RecordCommandResult(observed, agrees)
  \/ RecordVerifyStopped
  \/ \E verdict \in {"pass", "repair"} : RecordVerdict(verdict)
  \/ RecordMalformed
  \/ Finish \/ Fail \/ Unbind \/ Close

\* The reader may take another message between the response to turn/start and
\* the registration of the turn's queue.
Reader == RequestApproval \/ ApprovalResolved \/ ReaderStep

Stop(h) == RequestStop(h) \/ StopInterrupt(h) \/ StopReturned(h)

\* Nothing is left to do once the run is over, the stream is closed and every
\* stop has been answered.
Over ==
  /\ pc = "done"
  /\ reader = "dead"
  /\ \A h \in Stoppers : stopPc[h] \in {"idle", "returned"}
  /\ UNCHANGED vars

Next ==
  \/ RunnerStep
  \/ Reader
  \/ ServerStep
  \/ ServerExit
  \/ \E d \in Decisions, f \in BOOLEAN : PostDecision(d, f)
  \/ \E h \in Stoppers : Stop(h)
  \/ Over

Spec == Init /\ [][Next]_vars

-----------------------------------------------------------------------------
(* Safety                                                                  *)

\* A session has one slot for a pending request.  However many approvals its
\* parallel tool calls ask for, the runner's own turn has them all answered
\* before the runner can reach a checkpoint: the two never share the slot.
TurnLeavesNoApproval == ~(pc = "checkpoint" /\ reader = "waiting")

\* Two threads may wait in the slot (a sub-agent's approval meets a checkpoint,
\* or outlives the run), and either clears it for both.  Still, what pollRun
\* shows is live: behind every panel there is a thread that takes the answer,
\* and no run says it waits when there is nothing to answer.
PanelIsLive ==
  /\ pending = "checkpoint" => pc = "checkpoint"
  /\ pending = "approval" => InHandler
  /\ status = "waitingForApproval" => pending # "none"

\* A posted decision does not outlive the last request in the slot: a request
\* that finds the slot empty is not settled by an older answer.
DecisionOnlyWhilePending == decision # NoDecision => pending # "none"

\* The receipt lists a prefix of the program in order, and nothing is executed
\* after a phase that was stopped.
ReceiptIsPrefix ==
  /\ \A i \in 1..Len(executions) : executions[i].phase = i
  /\ \A i \in 1..Len(executions) - 1 : executions[i].status # "stopped"

\* Every turn the receipt lists belongs to exactly one phase, and phases own
\* consecutive turns in the order they ran: turnIds and executions agree.
TurnsAccounted ==
  LET owns(i, t) == \E k \in 1..Len(executions[i].turns) : executions[i].turns[k] = t
      current(t) == \E k \in 1..Len(phaseTurns) : phaseTurns[k] = t
      E == 1..Len(executions)
      T == {turnIds[k] : k \in 1..Len(turnIds)}
  IN /\ \A k \in 1..Len(turnIds) : turnIds[k] = k
     /\ \A t \in T : (\E i \in E : owns(i, t)) \/ current(t)
     /\ \A i \in E, t \in T : owns(i, t) =>
          /\ \A j \in E : j > i => \A u \in T : owns(j, u) => u > t
          /\ \A u \in T : current(u) => u > t

\* phase_turn_bound, and its counterpart for a manifest without phases: the
\* "maximumTurns" of the receipt, the sum of what the phases may take.  A slot
\* <<i, k>> is the k-th turn of phase i.
TurnsOf(f) == CASE f.kind = "checkpoint" -> 0
                [] f.kind \in {"verify", "verifier"} -> 1 + f.maxRepairs
                [] OTHER -> 1
Slots(p) == {slot \in (1..Len(p)) \X (1..3) : slot[2] <= TurnsOf(p[slot[1]])}
TurnBound(p) == Cardinality(Slots(p))

\* However verdicts, interrupts and crashes fall, a run starts no more turns
\* than its receipt states as the maximum.
TurnsWithinBound == turn <= TurnBound(program)

\* A run that reports "completed" with completionStatus "completed" executed
\* every phase, and no exact command that must stop on failure failed.
CompletedMeansAll ==
  status = "completed" /\ completion = "completed" =>
    /\ Len(executions) = Len(program)
    /\ \A i \in 1..Len(program) :
         /\ executions[i].status # "stopped"
         /\ program[i].stopOnFailure => executions[i].status # "fail"

\* Feedback given at a checkpoint goes into the prompt of at most one turn.
FeedbackOnce ==
  \A i, j \in 1..Len(deliveries) :
    deliveries[i].from = deliveries[j].from => i = j

\* What the receipt of a run says is consistent at every moment, however stops,
\* verdicts, interrupts and crashes fall: phases, turns, the stated maximum of
\* turns, the completion status and the feedback used (_execute_phase_program
\* and run_turn append them in different places).
ReceiptIsSound ==
  /\ ReceiptIsPrefix
  /\ TurnsAccounted
  /\ TurnsWithinBound
  /\ CompletedMeansAll
  /\ FeedbackOnce

\* The stop flag is not lost between "no turn is active" and "the turn is
\* active": while the runner waits for a turn with the flag up, somebody has
\* sent turn/interrupt for that very turn.
FlagMeansInterruptSent ==
  pc = "awaitTurn" /\ interruptRequested =>
    \E c \in Callers : target[c] = turn

-----------------------------------------------------------------------------
(* The order of messages that keeps the turn's approvals inside the turn   *)

Free(s, S) == \A i \in 1..Len(s) : s[i] \notin S
AtMostOne(s, S) == \A i, j \in 1..Len(s) : s[i] \in S /\ s[j] \in S => i = j
\* No element of S stands behind an element of T.
NeverBehind(s, S, T) == \A i, j \in 1..Len(s) : i < j /\ s[j] \in S => s[i] \notin T

RunnerReplies == [type : Replies, to : {Runner}]
\* Receiving one of these lets the runner leave run_turn.
Releasing == Endings \cup [type : {"error"}, to : {Runner}]
Asking == reader = "waiting" \/ ~Free(wire, Approvals)

Before == {"queued", "bind", "setup"}
Between == {"phase", "checkpoint", "record", "finish"}
Failing == {"raise", "unbind", "close", "done"}

\* An approval of the turn reaches the reader before anything that lets the
\* runner leave the turn, and is answered before the reader routes what follows
\* it.  Only when the process died may the runner have left with one unread.
ApprovalFirst ==
  /\ Asking => \/ /\ pc \in TurnPcs
                  /\ inbox = "none"
                  /\ rpc[Runner] # "turnStart"
                  /\ up => rpc[Runner] # "error"
               \/ ServerMayExit /\ pc \in Failing /\ ~up
  /\ NeverBehind(wire, Approvals, Releasing)
  /\ turnStatus = "running" => /\ pc \in TurnPcs
                              /\ inbox = "none"
                              /\ rpc[Runner] \notin {"turnStart", "error"}
                              /\ Free(wire, Releasing)

\* A turn is announced over once, and the announcement is taken before the
\* next turn starts.
OneEnding ==
  /\ AtMostOne(wire, Endings)
  /\ turnStatus # "idle" \/ inbox \in Ended => Free(wire, Endings)
  /\ turnStatus # "idle" => inbox \notin Ended
  /\ pc \in Between \/ rpc[Runner] = "turnStart" =>
       turnStatus = "idle" /\ inbox \notin Ended /\ Free(wire, Endings)
  /\ pc = "leaveTurn" => turnStatus = "idle" /\ Free(wire, Endings)

\* The runner has at most one request outstanding, answered at most once, and
\* its own turn/interrupt always names the current turn.
OneReply ==
  /\ rpc[Runner] # "idle" => pc \in {"turnStart", "selfInterrupt"}
  /\ rpc[Runner] \in {"turnStart", "accepted"} => pc = "turnStart"
  /\ rpc[Runner] = "turnInterrupt" => pc = "selfInterrupt" /\ target[Runner] = turn
  /\ rpc[Runner] # "parked" => Free(wire, RunnerReplies) /\ Free(interrupters, {Runner})
  /\ AtMostOne(wire, RunnerReplies)
  /\ AtMostOne(interrupters, {Runner})
  /\ Free(wire, RunnerReplies) \/ Free(interrupters, {Runner})

\* The connection opens once and never comes back.
Connection ==
  /\ pc \in Before => reader = "dead" /\ inbox = "none"
  /\ inbox = "closed" => reader = "dead"
  /\ reader = "dead" => ~up /\ wire = <<>>
  /\ ~up => turnStatus = "idle" /\ interrupters = <<>>
  /\ ~up /\ pc \notin Before \cup Failing => ServerMayExit

\* The inductive invariant behind TurnLeavesNoApproval.
TurnProtocol ==
  /\ ApprovalFirst
  /\ OneEnding
  /\ OneReply
  /\ Connection

-----------------------------------------------------------------------------
(* Action properties, refinement and liveness                              *)

\* The runner has set the status the run ends with.
RunOver == pc \in {"unbind", "close", "done"}
Waiters == {k \in {"checkpoint", "approval"} :
              IF k = "checkpoint" THEN pc = "checkpoint" ELSE InHandler}

Lifecycle == INSTANCE RunLifecycle WITH waiters <- Waiters, over <- RunOver
\* Whatever the threads do, a polling client sees the lifecycle above.
ImplementsLifecycle == Lifecycle!Spec

\* The threads of the control plane are scheduled, the 300 s deadline passes,
\* and the app-server works: it answers requests and ends the turns it runs.
\* People need not act, and the app-server need not crash.
Fairness ==
  /\ WF_vars(RunnerStep)
  /\ WF_vars(Reader)
  /\ WF_vars(ServerStep)
  /\ \A h \in Stoppers : WF_vars(StopInterrupt(h) \/ StopReturned(h))

FairSpec == Spec /\ Fairness

\* The turn has ended, or the connection has died, before the runner registers
\* its queue (see NoCallBlocksForever).
TooLate ==
  /\ pc = "turnStart" /\ rpc[Runner] = "ok"
  /\ reader = "dead" \/ (turnStatus = "idle" /\ Free(wire, Endings))

\* Every run ends, though nobody answers, an approval blocks the reader and the
\* app-server may die; except one that registers for a turn too late.
RunEnds == <>(pc = "done" \/ TooLate)

\* A stop handler that called the gateway returns, although its response sits
\* behind an approval, the turn is gone, or the process dies.
StopIsAnswered ==
  \A h \in Stoppers : stopPc[h] = "interrupt" ~> stopPc[h] = "returned"

-----------------------------------------------------------------------------
(* What the documentation promises and the code does not keep              *)

\* _message_router.py: register_turn will "replay early events", and fail_all
\* wakes every queue "so no SDK call blocks forever waiting for a response that
\* cannot arrive".  The runner does not wait for a turn for ever.
NoCallBlocksForever == pc = "awaitTurn" ~> pc # "awaitTurn"

\* README.md: Stop "uses native turn/interrupt to end the active Codex turn and
\* records the phase as stopped".  After a stop that was sent for a turn and
\* answered True, no later turn passes.
StopHalts ==
  \A h \in Stoppers : stopAnswer[h] = "true" /\ target[h] # 0 =>
    \A i \in 1..Len(executions) : executions[i].status = "pass" =>
      \A k \in 1..Len(executions[i].turns) : executions[i].turns[k] <= target[h]

\* phase_runtime.py records for an interrupted check "The run was stopped before
\* this check completed."  A run whose command was interrupted reports stopped.
InterruptedCheckStops ==
  \A i \in 1..Len(executions) :
    /\ executions[i].status = "stopped"
    /\ program[i].kind = "command"
    /\ outcome = "interrupted"
    /\ status \in Terminal
    => status = "stopped"

\* README.md: at a checkpoint the user can "redirect the next phase with bounded
\* text feedback".  If a later work or verify phase ran, some phase got the text.
FeedbackRedirects ==
  \A i, j \in 1..Len(executions) :
    /\ executions[i].feedback
    /\ i < j
    /\ program[j].kind \in {"work", "verify"}
    => \E k \in 1..Len(deliveries) : deliveries[k].from = i

\* CODEX_HARNESS_INTERNALS.md: a checkpoint "requires a human continue-or-stop
\* decision".  A decision the checkpoint can take was posted for a checkpoint.
CheckpointIsDecided ==
  pc = "checkpoint" /\ decision # NoDecision => decision.of = "checkpoint"

\* server.py refuses to delete a run that is not terminal: "stop the active run
\* before deleting it".  A terminal status is final, so a run that is over can
\* always be deleted.
TerminalIsFinal == [][(status \in Terminal) => (status' = status)]_vars
=============================================================================
