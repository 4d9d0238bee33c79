-------------------------- MODULE HarnessRunProofs --------------------------
(***************************************************************************)
(* Type correctness of a run, then the order of messages that keeps the    *)
(* approvals of a turn inside the turn, and what follows from it, for      *)
(* every program, every set of stop handlers, every number of approvals,   *)
(* whoever asks for them, and an app-server that may die at any moment:    *)
(* TurnLeavesNoApproval, DecisionOnlyWhilePending, PanelIsLive, the        *)
(* refinement of RunLifecycle, the stop flag (FlagMeansInterruptSent) and  *)
(* the receipt (ReceiptIsSound).                                           *)
(*                                                                         *)
(* TurnProtocol is the inductive invariant.  TurnLeavesNoApproval alone    *)
(* says nothing of an approval still unread when the runner reaches its    *)
(* next checkpoint; ApprovalFirst does, and needs OneReply and OneEnding   *)
(* to know what may release the runner from a turn, and Connection to know *)
(* what is left of the stream when the process is gone.  The receipt needs *)
(* OneReply too: the turns the app-server has started are the ones listed  *)
(* and the one the runner is in, because an accepted turn/start is the     *)
(* runner's and reaches it (Counted), and every one of them has a slot of  *)
(* its own among those maximumTurns counts (Bounded).                      *)
(***************************************************************************)
EXTENDS HarnessRun, FiniteSetTheorems, SequenceTheorems, TLAPS

-----------------------------------------------------------------------------
(* Types.  TypeOK alone is not inductive: Kind reads program[phase], and    *)
(* phase may be one past the program's end.  PhaseInRange says where the    *)
(* runner may be when it is.                                                *)

PhaseInRange ==
  pc \notin {"finish", "raise", "unbind", "close", "done"} => phase <= Len(program)

TypeInv == TypeOK /\ PhaseInRange

\* Every program a run may be given is a nonempty sequence of phases.
LEMMA ProgramType ==
  ASSUME NEW p \in Programs
  PROVE  /\ Len(p) \in Nat
         /\ Len(p) > 0
         /\ \A i \in 1..Len(p) : p[i] \in Phases
BY ProgramsAssumption

\* RunSession(), SdkGateway() and the first lines of HarnessRunner.run are well typed.
LEMMA TypeInit == Init => TypeInv
<1> SUFFICES ASSUME Init PROVE TypeInv
  OBVIOUS
<1>1. SessionTypeOK
  BY DEF Init, SessionInit, SessionTypeOK, Statuses, Terminal
<1>2. ServerTypeOK
  <2>1. /\ turn \in Nat /\ approvals \in 0..MaxApprovals
        /\ interrupters \in Seq(Callers) /\ wire \in Seq(Messages)
    BY MaxApprovalsAssumption, EmptySeq DEF Init, ServerInit
  <2>2. /\ rpc \in [Callers -> Outstanding \cup Replies \cup {"idle"}]
        /\ target \in [Callers -> Nat]
    BY DEF Init, ServerInit
  <2>3. QED
    BY <2>1, <2>2 DEF Init, ServerInit, ServerTypeOK
<1>3. GatewayTypeOK
  BY DEF Init, GatewayInit, GatewayTypeOK, Ended
<1>4. program \in Programs /\ phase \in 1..Len(program) + 1 /\ feedback \in 0..Len(program)
  BY ProgramType DEF Init
<1>5. /\ turnIds \in Seq(Nat)
      /\ phaseTurns \in Seq(Nat)
      /\ executions \in Seq(Executions)
      /\ deliveries \in Seq([from : Nat, to : Nat])
  BY EmptySeq DEF Init
<1>6. /\ stopPc \in [Stoppers -> {"idle", "interrupt", "waiting", "returned"}]
      /\ stopAnswer \in [Stoppers -> {"none", "true", "false", "error"}]
  BY DEF Init
<1>7. pc \in Pcs /\ completion \in Completions /\ attempt \in 0..2
      /\ outcome \in Ended \cup {"none", "closed"} /\ PhaseInRange
  BY ProgramType DEF Init, Pcs, Completions, PhaseInRange
<1>8. QED
  BY <1>1, <1>2, <1>3, <1>4, <1>5, <1>6, <1>7 DEF TypeInv, TypeOK

\* What the type of a message says about it.
LEMMA MessageKinds ==
  ASSUME NEW m \in Messages
  PROVE  /\ m.to \in Callers
         /\ m.type = "approval" <=> m \in Approvals
         /\ m.type = "otherApproval" <=> m \in OtherApprovals
         /\ m.type \in Ended <=> m \in Endings
         /\ m.type \in Replies <=> m \in [type : Replies, to : Callers]
         /\ m.type \notin Replies \cup Requests => m.type \in Ended
         /\ ~(m.type \in Replies /\ m.type \in Ended)
<1>1. Runner \in Callers
  BY DEF Callers
<1>2. CASE m \in Approvals
  BY <1>1, <1>2 DEF Approvals, OtherApprovals, Endings, Ended, Replies, Requests
<1>3. CASE m \in OtherApprovals
  BY <1>1, <1>3 DEF Approvals, OtherApprovals, Endings, Ended, Replies, Requests
<1>4. CASE m \in Endings
  BY <1>1, <1>4 DEF Approvals, OtherApprovals, Endings, Ended, Replies, Requests
<1>5. CASE m \in [type : Replies, to : Callers]
  BY <1>1, <1>5 DEF Approvals, OtherApprovals, Endings, Ended, Replies, Requests
<1>6. QED
  BY <1>2, <1>3, <1>4, <1>5 DEF Messages

\* Every step of the app-server keeps the server's types.
LEMMA ServerType ==
  ASSUME ServerTypeOK, Server
  PROVE  ServerTypeOK'
<1> USE DEF ServerTypeOK
<1>0. Runner \in Callers
  BY DEF Callers
<1>1. ASSUME NEW type, NEW to, Put(type, to), [type |-> type, to |-> to] \in Messages
      PROVE  wire' \in Seq(Messages)
  BY <1>1, AppendProperties DEF Put
<1>m. /\ \A c \in Callers, r \in Replies : [type |-> r, to |-> c] \in Messages
      /\ [type |-> "approval", to |-> Runner] \in Messages
      /\ [type |-> "otherApproval", to |-> Runner] \in Messages
      /\ \A e \in Ended : [type |-> e, to |-> Runner] \in Messages
  BY DEF Messages, Approvals, OtherApprovals, Endings
<1>2. CASE ServerStartTurn
  BY <1>0, <1>2 DEF ServerStartTurn, Outstanding
<1>r. CASE ServerRespondTurn
  <2>1. wire' \in Seq(Messages)
    BY <1>0, <1>1, <1>m, <1>r DEF ServerRespondTurn, Replies
  <2>2. QED
    BY <1>0, <1>r, <2>1 DEF ServerRespondTurn, Outstanding
<1>3. CASE ServerRejectTurn
  BY <1>0, <1>1, <1>m, <1>3 DEF ServerRejectTurn, Ended, Replies, Outstanding
<1>4. ASSUME NEW c \in Callers, ServerTurnInterrupt(c)
      PROVE  ServerTypeOK'
  <2>1. wire' \in Seq(Messages)
    BY <1>1, <1>4, <1>m DEF ServerTurnInterrupt, Replies
  <2>2. interrupters' \in Seq(Callers)
    <3>1. Append(interrupters, c) \in Seq(Callers)
      BY AppendProperties
    <3>2. QED
      BY <1>4, <3>1, Zenon DEF ServerTurnInterrupt
  <2>3. aborting' \in BOOLEAN
    BY <1>4, Zenon DEF ServerTurnInterrupt
  <2>4. QED
    BY <1>4, <2>1, <2>2, <2>3 DEF ServerTurnInterrupt, Outstanding
<1>5. CASE ServerAskApproval
  BY <1>0, <1>1, <1>m, <1>5, MaxApprovalsAssumption DEF ServerAskApproval, Ended, Replies, Outstanding
<1>a. CASE ServerAskOther
  BY <1>0, <1>1, <1>m, <1>a, MaxApprovalsAssumption DEF ServerAskOther, Ended, Replies, Outstanding
<1>6. ASSUME NEW how \in Ended, ServerEndTurn(how)
      PROVE  ServerTypeOK'
  BY <1>6 DEF ServerEndTurn, Ended, Replies, Outstanding
<1>7. CASE ServerAnswerInterrupt
  BY <1>0, <1>1, <1>m, <1>7, HeadTailProperties DEF ServerAnswerInterrupt, Ended, Replies, Outstanding
<1>8. CASE ServerNotifyTurn
  BY <1>0, <1>1, <1>m, <1>8 DEF ServerNotifyTurn, Ended, Replies, Outstanding
<1>9. QED
  BY <1>2, <1>3, <1>4, <1>5, <1>6, <1>7, <1>8, <1>a, <1>r DEF Server

\* _request_raw writes a request: the caller waits, or has the error at once.
LEMMA SendType ==
  ASSUME ServerTypeOK, NEW c \in Callers, NEW m \in Outstanding, NEW t \in Nat, Send(c, m, t)
  PROVE  ServerTypeOK'
BY DEF ServerTypeOK, Send, Replies

\* A caller that has its response is idle again.
LEMMA ForgetType ==
  ASSUME ServerTypeOK, NEW c \in Callers, Forget(c)
  PROVE  ServerTypeOK'
BY DEF ServerTypeOK, Forget

\* MessageRouter.fail_all leaves every caller and the turn queue well typed.
LEMMA FailAllType ==
  ASSUME ServerTypeOK, GatewayTypeOK, FailAll,
         UNCHANGED <<up, turn, turnStatus, blocked, aborting, interrupters, approvals, target>>
  PROVE  ServerTypeOK' /\ GatewayTypeOK'
<1>1. wire' \in Seq(Messages)
  BY EmptySeq DEF FailAll
<1>2. rpc' \in [Callers -> Outstanding \cup Replies \cup {"idle"}]
  BY DEF FailAll, ServerTypeOK, Replies
<1>3. GatewayTypeOK'
  BY DEF FailAll, GatewayTypeOK
<1>4. QED
  BY <1>1, <1>2, <1>3 DEF ServerTypeOK

\* An approval's answer changes nothing but what the turn is blocked on.
LEMMA AnsweredType ==
  ASSUME ServerTypeOK, NEW own, NEW d, Answered(own, d), wire' \in Seq(Messages)
  PROVE  ServerTypeOK'
<1>1. blocked' \in Nat
  BY DEF Answered, ServerApprovalAnswered, ServerTypeOK
<1>2. aborting' \in BOOLEAN
  BY Zenon DEF Answered, ServerApprovalAnswered, ServerTypeOK
<1>3. UNCHANGED <<up, turn, turnStatus, interrupters, approvals, rpc, target>>
  BY DEF Answered, ServerApprovalAnswered
<1>4. QED
  BY <1>1, <1>2, <1>3 DEF ServerTypeOK

\* Every step of _reader_loop keeps the types of the connection.
LEMMA ReaderType ==
  ASSUME ServerTypeOK, GatewayTypeOK, NEW d, NEW closed,
         ReaderRoute \/ ReaderTakeApproval \/ ReaderAnswerUnknown \/ ReaderAnswer(d) \/ ReaderEof(closed)
  PROVE  ServerTypeOK' /\ GatewayTypeOK'
<1>0. wire # <<>> => Head(wire) \in Messages /\ Tail(wire) \in Seq(Messages)
  BY HeadTailProperties DEF ServerTypeOK
<1>1. CASE ReaderRoute
  <2>1. wire' \in Seq(Messages)
    BY <1>0, <1>1 DEF ReaderRoute
  <2>2. rpc' \in [Callers -> Outstanding \cup Replies \cup {"idle"}]
    BY <1>0, <1>1, MessageKinds DEF ReaderRoute, ServerTypeOK
  <2>3. inbox' \in Ended \cup {"none", "closed"}
    BY <1>0, <1>1, MessageKinds DEF ReaderRoute, GatewayTypeOK, Requests
  <2>4. QED
    BY <1>1, <2>1, <2>2, <2>3 DEF ReaderRoute, ServerTypeOK, GatewayTypeOK
<1>2. CASE ReaderTakeApproval
  BY <1>0, <1>2 DEF ReaderTakeApproval, ServerTypeOK, GatewayTypeOK
<1>3. CASE ReaderAnswerUnknown
  BY <1>0, <1>3, AnsweredType DEF ReaderAnswerUnknown, GatewayTypeOK, gatewayVars
<1>4. CASE ReaderAnswer(d)
  <2>1. CASE up
    <3>1. ServerTypeOK'
      BY <1>4, <2>1, AnsweredType DEF ReaderAnswer, ServerTypeOK
    <3>2. GatewayTypeOK'
      BY <1>4, <2>1 DEF ReaderAnswer, GatewayTypeOK
    <3>3. QED
      BY <3>1, <3>2
  <2>2. CASE ~up
    BY <1>4, <2>2, FailAllType DEF ReaderAnswer
  <2>3. QED
    BY <2>1, <2>2
<1>5. CASE ReaderEof(closed)
  BY <1>5, FailAllType DEF ReaderEof
<1>6. QED
  BY <1>1, <1>2, <1>3, <1>4, <1>5

\* The end of the process keeps the server's types.
LEMMA GoneType ==
  ASSUME ServerTypeOK, ServerGone
  PROVE  ServerTypeOK'
<1>1. interrupters' \in Seq(Callers)
  BY EmptySeq DEF ServerGone
<1>2. QED
  BY <1>1 DEF ServerGone, ServerTypeOK

\* Every critical section of RunSession keeps the session's types.
LEMMA SessionType ==
  ASSUME SessionTypeOK,
         \/ \E k \in {"checkpoint", "approval"} : EnterWait(k)
         \/ LeaveWait
         \/ \E d \in Decisions, f \in BOOLEAN : Decide(d, f)
         \/ \E b \in BOOLEAN : BindInterrupt(b)
         \/ \E v \in Statuses : SetStatus(v)
         \/ StopRefused \/ StopPending \/ StopFetchCallback
         \/ UNCHANGED sessionVars
  PROVE  SessionTypeOK'
<1>1. ASSUME NEW k \in {"checkpoint", "approval"}, EnterWait(k) PROVE SessionTypeOK'
  BY <1>1 DEF EnterWait, SessionTypeOK, Statuses
<1>2. CASE LeaveWait
  BY <1>2 DEF LeaveWait, SessionTypeOK, Statuses
<1>3. ASSUME NEW d \in Decisions, NEW f \in BOOLEAN, Decide(d, f) PROVE SessionTypeOK'
  BY <1>3 DEF Decide, SessionTypeOK, Resolutions
<1>4. ASSUME NEW b \in BOOLEAN, BindInterrupt(b) PROVE SessionTypeOK'
  BY <1>4 DEF BindInterrupt, SessionTypeOK
<1>5. ASSUME NEW v \in Statuses, SetStatus(v) PROVE SessionTypeOK'
  BY <1>5 DEF SetStatus, SessionTypeOK
<1>6. CASE StopPending
  BY <1>6 DEF StopPending, SessionTypeOK, Resolutions, Decisions
<1>7. CASE StopFetchCallback
  BY <1>7 DEF StopFetchCallback, SessionTypeOK
<1>8. CASE StopRefused \/ UNCHANGED sessionVars
  BY <1>8 DEF StopRefused, sessionVars, SessionTypeOK
<1>9. QED
  BY <1>1, <1>2, <1>3, <1>4, <1>5, <1>6, <1>7, <1>8

\* The runner's own variables, the part of TypeInv that Record disturbs.
ReceiptTypeOK ==
  /\ program \in Programs
  /\ pc \in Pcs
  /\ phase \in 1..Len(program) + 1
  /\ attempt \in 0..2
  /\ outcome \in Ended \cup {"none", "closed"}
  /\ turnIds \in Seq(Nat)
  /\ phaseTurns \in Seq(Nat)
  /\ executions \in Seq(Executions)
  /\ completion \in Completions
  /\ feedback \in 0..Len(program)
  /\ deliveries \in Seq([from : Nat, to : Nat])
  /\ PhaseInRange

StopTypeOK ==
  /\ stopPc \in [Stoppers -> {"idle", "interrupt", "waiting", "returned"}]
  /\ stopAnswer \in [Stoppers -> {"none", "true", "false", "error"}]

\* The parts of TypeInv, so that a proof names only the ones it needs.
LEMMA TypeParts ==
  TypeInv <=> SessionTypeOK /\ ServerTypeOK /\ GatewayTypeOK /\ ReceiptTypeOK /\ StopTypeOK
BY DEF TypeInv, TypeOK, ReceiptTypeOK, StopTypeOK

\* The same for the next state.
LEMMA TypePartsNext ==
  ASSUME SessionTypeOK', ServerTypeOK', GatewayTypeOK', ReceiptTypeOK', StopTypeOK'
  PROVE  TypeInv'
BY DEF TypeInv, TypeOK, ReceiptTypeOK, StopTypeOK

\* executions.append and the move to the next phase keep the receipt well typed.
LEMMA RecordType ==
  ASSUME ReceiptTypeOK, pc \in {"checkpoint", "record"},
         NEW r \in {"pass", "stopped", "fail", "repair"}, NEW stop, NEW text \in BOOLEAN,
         Record(r, stop, text), completion' \in Completions,
         feedback' \in 0..Len(program), UNCHANGED <<program, outcome, turnIds, deliveries>>
  PROVE  ReceiptTypeOK'
<1>0. Len(program) \in Nat /\ phase <= Len(program) /\ phase \in Nat
  BY ProgramType DEF ReceiptTypeOK, PhaseInRange
<1>1. [phase |-> phase, status |-> r, turns |-> phaseTurns, feedback |-> text] \in Executions
  BY <1>0 DEF ReceiptTypeOK, Executions
<1>2. executions' \in Seq(Executions)
  BY <1>1, AppendProperties DEF Record, ReceiptTypeOK
<1>3. phaseTurns' \in Seq(Nat)
  BY EmptySeq DEF Record
<1>4. pc' \in Pcs /\ phase' \in 1..Len(program) + 1 /\ PhaseInRange'
  BY <1>0 DEF Record, Goto, ReceiptTypeOK, Pcs, PhaseInRange
<1>5. QED
  BY <1>2, <1>3, <1>4 DEF Record, ReceiptTypeOK

\* Every step of HarnessRunner.run keeps all types and PhaseInRange.
LEMMA RunnerStepType ==
  ASSUME TypeInv, RunnerStep
  PROVE  TypeInv'
<1>0. /\ SessionTypeOK /\ ServerTypeOK /\ GatewayTypeOK /\ ReceiptTypeOK /\ StopTypeOK
      /\ Runner \in Callers
  BY TypeParts DEF Callers
<1>p. /\ Len(program) \in Nat /\ phase \in Nat
      /\ (phase <= Len(program) => program[phase] \in Phases)
  BY <1>0, ProgramType DEF ReceiptTypeOK
\* Steps that move the runner along and leave the receipt alone.
<1>q. ASSUME UNCHANGED receiptVars, pc' \in Pcs,
             \/ pc \notin {"finish", "raise", "unbind", "close", "done"}
             \/ pc' \in {"finish", "raise", "unbind", "close", "done"}
      PROVE  ReceiptTypeOK'
  BY <1>0, <1>q DEF receiptVars, ReceiptTypeOK, PhaseInRange
<1>t. ASSUME UNCHANGED stopVars PROVE StopTypeOK'
  BY <1>0, <1>t DEF stopVars, StopTypeOK
<1>g. ASSUME UNCHANGED gatewayVars PROVE GatewayTypeOK'
  BY <1>0, <1>g DEF gatewayVars, GatewayTypeOK
<1>v. ASSUME UNCHANGED serverVars PROVE ServerTypeOK'
  BY <1>0, <1>v DEF serverVars, ServerTypeOK
<1>s. ASSUME UNCHANGED sessionVars PROVE SessionTypeOK'
  BY <1>0, <1>s, SessionType
<1>1. CASE Begin
  BY <1>0, <1>1, <1>q, <1>t, <1>g, <1>v, SessionType, TypePartsNext
     DEF Begin, Goto, Pcs, Statuses, sdkVars
<1>2. CASE Bind
  BY <1>0, <1>2, <1>q, <1>t, <1>g, <1>v, SessionType, TypePartsNext DEF Bind, Goto, Pcs, sdkVars
<1>3. CASE Setup
  <2>1. ServerTypeOK' /\ GatewayTypeOK'
    <3>1. CASE Connect
      BY <1>0, <3>1 DEF Connect, ServerTypeOK, GatewayTypeOK
    <3>2. CASE UNCHANGED <<serverVars, gatewayVars>>
      BY <1>g, <1>v, <3>2
    <3>3. QED
      BY <1>3, <3>1, <3>2 DEF Setup
  <2>2. pc = "setup" /\ pc' \in {"phase", "raise"}
    BY <1>3 DEF Setup, Goto
  <2>3. QED
    BY <1>3, <1>q, <1>t, <1>s, <2>1, <2>2, TypePartsNext DEF Setup, Pcs
<1>4. CASE AskCheckpoint
  BY <1>0, <1>4, <1>q, <1>t, <1>g, <1>v, SessionType, TypePartsNext DEF AskCheckpoint, Goto, Pcs, sdkVars
<1>5. CASE LeaveCheckpoint
  <2>1. SessionTypeOK' /\ ServerTypeOK' /\ GatewayTypeOK' /\ StopTypeOK'
    BY <1>0, <1>5, <1>t, <1>g, <1>v, SessionType DEF LeaveCheckpoint, sdkVars
  <2>2. Resolution.feedback \in BOOLEAN
    BY <1>0 DEF Resolution, SessionTypeOK, Resolutions, NoDecision
  <2>3. PICK r \in {"pass", "stopped"}, stop \in BOOLEAN : Record(r, stop, Resolution.feedback)
    BY <1>5, Zenon DEF LeaveCheckpoint
  <2>4. completion' \in Completions
    BY <1>0, <1>5 DEF LeaveCheckpoint, ReceiptTypeOK, Completions
  <2>5. feedback' \in 0..Len(program)
    BY <1>0, <1>5, <1>p DEF LeaveCheckpoint, ReceiptTypeOK, PhaseInRange
  <2>6. ReceiptTypeOK'
    BY <1>0, <1>5, <2>2, <2>3, <2>4, <2>5, RecordType DEF LeaveCheckpoint
  <2>7. QED
    BY <2>1, <2>6, TypePartsNext
<1>6. CASE StartTurn
  <2>1. ServerTypeOK'
    BY <1>0, <1>6, SendType DEF StartTurn, Outstanding
  <2>2. deliveries' \in Seq([from : Nat, to : Nat])
    <3>1. [from |-> feedback, to |-> phase] \in [from : Nat, to : Nat]
      BY <1>0, <1>p DEF ReceiptTypeOK
    <3>2. Append(deliveries, [from |-> feedback, to |-> phase]) \in Seq([from : Nat, to : Nat])
      BY <1>0, <3>1, AppendProperties DEF ReceiptTypeOK
    <3>3. QED
      BY <1>0, <1>6, <3>2, Zenon DEF StartTurn, ReceiptTypeOK
  <2>3. ReceiptTypeOK'
    BY <1>0, <1>6, <2>2 DEF StartTurn, Goto, ReceiptTypeOK, PhaseInRange, Pcs, TurnPcs
  <2>4. QED
    BY <1>6, <1>s, <1>g, <1>t, <2>1, <2>3, TypePartsNext DEF StartTurn
<1>7. CASE TurnStarted
  <2>1. ServerTypeOK'
    BY <1>0, <1>7, SendType, ForgetType DEF TurnStarted, ActivateTurn, Outstanding, ServerTypeOK
  <2>2. GatewayTypeOK'
    BY <1>0, <1>7 DEF TurnStarted, ActivateTurn, GatewayTypeOK, ServerTypeOK
  <2>3. QED
    BY <1>7, <1>q, <1>s, <1>t, <2>1, <2>2, TypePartsNext DEF TurnStarted, Goto, Pcs, TurnPcs
<1>8. CASE SelfInterruptReturned \/ TurnRequestFailed
  BY <1>0, <1>8, <1>q, <1>s, <1>t, <1>g, ForgetType, TypePartsNext
     DEF SelfInterruptReturned, TurnRequestFailed, Goto, Pcs, TurnPcs
<1>9. CASE TurnEnded
  <2>1. ReceiptTypeOK'
    BY <1>0, <1>9 DEF TurnEnded, Goto, ReceiptTypeOK, PhaseInRange, Pcs, GatewayTypeOK
  <2>2. QED
    BY <1>9, <1>s, <1>t, <1>g, <1>v, <2>1, TypePartsNext DEF TurnEnded, sdkVars
<1>10. CASE FinishTurn
  <2>1. GatewayTypeOK'
    BY <1>0, <1>10 DEF FinishTurn, LeaveTurn, GatewayTypeOK
  <2>2. turnIds' \in Seq(Nat) /\ phaseTurns' \in Seq(Nat)
    <3>1. Append(turnIds, turn) \in Seq(Nat) /\ Append(phaseTurns, turn) \in Seq(Nat)
      BY <1>0, AppendProperties DEF ReceiptTypeOK, ServerTypeOK
    <3>2. QED
      BY <1>0, <1>10, <3>1, Zenon DEF FinishTurn, ReceiptTypeOK
  <2>3. ReceiptTypeOK'
    BY <1>0, <1>10, <1>p, <2>2 DEF FinishTurn, Goto, ReceiptTypeOK, PhaseInRange, Pcs
  <2>4. QED
    BY <1>10, <1>s, <1>t, <1>v, <2>1, <2>3, TypePartsNext DEF FinishTurn
<1>u. ASSUME pc = "record", UNCHANGED <<sessionVars, sdkVars, stopVars>>,
             UNCHANGED <<program, outcome, turnIds, feedback, deliveries>>,
             completion' \in Completions,
             NEW r \in {"pass", "stopped", "fail", "repair"}, NEW stop, Record(r, stop, FALSE)
      PROVE  TypeInv'
  <2>1. ReceiptTypeOK'
    BY <1>0, <1>u, RecordType DEF ReceiptTypeOK
  <2>2. QED
    BY <1>u, <1>s, <1>t, <1>g, <1>v, <2>1, TypePartsNext DEF sdkVars
<1>c. completion \in Completions
  BY <1>0 DEF ReceiptTypeOK
<1>11. CASE RecordWork
  BY <1>11, <1>u, <1>c DEF RecordWork, Completions
<1>12. CASE RecordCommandStopped
  BY <1>12, <1>u DEF RecordCommandStopped, Completions
<1>13. ASSUME NEW observed \in BOOLEAN, NEW agrees \in BOOLEAN,
              RecordCommandResult(observed, agrees)
       PROVE  TypeInv'
  BY <1>13, <1>u, <1>c DEF RecordCommandResult, Completions
<1>14. CASE RecordVerifyStopped
  BY <1>14, <1>u DEF RecordVerifyStopped, Completions
<1>15. ASSUME NEW verdict \in {"pass", "repair"}, RecordVerdict(verdict)
       PROVE  TypeInv'
  <2>1. CASE verdict = "repair" /\ attempt < program[phase].maxRepairs
    <3>1. program[phase].maxRepairs \in 0..2
      BY <1>0, <1>15, <1>p DEF RecordVerdict, ReceiptTypeOK, PhaseInRange, Phases
    <3>2. ReceiptTypeOK'
      BY <1>0, <1>15, <2>1, <3>1 DEF RecordVerdict, Goto, ReceiptTypeOK, PhaseInRange, Pcs
    <3>3. QED
      BY <1>15, <1>s, <1>t, <1>g, <1>v, <3>2, TypePartsNext DEF RecordVerdict, sdkVars
  <2>2. CASE ~(verdict = "repair" /\ attempt < program[phase].maxRepairs)
    BY <1>15, <1>u, <1>c, <2>2 DEF RecordVerdict
  <2>3. QED
    BY <2>1, <2>2
<1>16. CASE RecordMalformed
  BY <1>16, <1>q, <1>s, <1>t, <1>g, <1>v, TypePartsNext DEF RecordMalformed, Goto, Pcs, sdkVars
<1>17. CASE Finish \/ Fail
  <2>1. SessionTypeOK'
    <3>1. PICK st \in Statuses : SetStatus(st)
      BY <1>17 DEF Finish, Fail, Statuses, Terminal
    <3>2. QED
      BY <1>0, <3>1, SessionType
  <2>2. QED
    BY <1>17, <1>q, <1>t, <1>g, <1>v, <2>1, TypePartsNext DEF Finish, Fail, Goto, Pcs, sdkVars
<1>18. CASE Unbind
  BY <1>0, <1>18, <1>q, <1>t, <1>g, <1>v, SessionType, TypePartsNext DEF Unbind, Goto, Pcs, sdkVars
<1>19. CASE Close
  BY <1>0, <1>19, <1>q, <1>s, <1>t, <1>g, GoneType, TypePartsNext DEF Close, Goto, Pcs
<1>20. QED
  BY <1>1, <1>2, <1>3, <1>4, <1>5, <1>6, <1>7, <1>8, <1>9, <1>10, <1>11, <1>12, <1>13,
     <1>14, <1>15, <1>16, <1>17, <1>18, <1>19 DEF RunnerStep

\* The steps of the other threads leave the receipt and the runner's pc alone.
LEMMA OthersType ==
  ASSUME TypeInv, UNCHANGED <<pc, receiptVars>>,
         SessionTypeOK', ServerTypeOK', GatewayTypeOK', StopTypeOK'
  PROVE  TypeInv'
<1>1. ReceiptTypeOK'
  BY TypeParts DEF receiptVars, ReceiptTypeOK, PhaseInRange
<1>2. QED
  BY <1>1, TypePartsNext

\* A stop handler, wherever it is, keeps the types.
LEMMA StopType ==
  ASSUME TypeInv, NEW h \in Stoppers, Stop(h)
  PROVE  TypeInv'
<1>0. /\ SessionTypeOK /\ ServerTypeOK /\ GatewayTypeOK /\ StopTypeOK /\ h \in Callers
  BY TypeParts DEF Callers
<1>a. ASSUME NEW v \in {"true", "false", "error"}, Answer(h, v)
      PROVE  StopTypeOK'
  BY <1>0, <1>a DEF Answer, StopTypeOK
<1>1. CASE RequestStop(h)
  <2>1. ServerTypeOK' /\ GatewayTypeOK'
    BY <1>0, <1>1 DEF RequestStop, sdkVars, serverVars, gatewayVars, ServerTypeOK, GatewayTypeOK
  <2>2. SessionTypeOK'
    BY <1>0, <1>1, SessionType DEF RequestStop
  <2>3. StopTypeOK'
    BY <1>0, <1>1, <1>a DEF RequestStop, StopTypeOK
  <2>4. QED
    BY <1>1, <2>1, <2>2, <2>3, OthersType DEF RequestStop
<1>2. CASE StopInterrupt(h)
  <2>1. ServerTypeOK'
    <3>1. CASE activeTurn = 0
      BY <1>0, <1>2, <3>1 DEF StopInterrupt, Interrupt, serverVars, ServerTypeOK
    <3>2. CASE activeTurn # 0
      BY <1>0, <1>2, <3>2, SendType DEF StopInterrupt, Interrupt, Outstanding, GatewayTypeOK
    <3>3. QED
      BY <3>1, <3>2
  <2>2. GatewayTypeOK'
    BY <1>0, <1>2 DEF StopInterrupt, Interrupt, GatewayTypeOK
  <2>3. StopTypeOK'
    BY <1>0, <1>2, <1>a DEF StopInterrupt, StopTypeOK
  <2>4. QED
    BY <1>0, <1>2, <2>1, <2>2, <2>3, OthersType, SessionType DEF StopInterrupt
<1>3. CASE StopReturned(h)
  <2>1. GatewayTypeOK'
    BY <1>0, <1>3 DEF StopReturned, gatewayVars, GatewayTypeOK
  <2>2. StopTypeOK'
    BY <1>0, <1>3, <1>a DEF StopReturned
  <2>3. QED
    BY <1>0, <1>3, <2>1, <2>2, OthersType, SessionType, ForgetType DEF StopReturned
<1>4. QED
  BY <1>1, <1>2, <1>3 DEF Stop

\* TypeInv is inductive.
LEMMA TypeStep ==
  ASSUME TypeInv, [Next]_vars
  PROVE  TypeInv'
<1>0. /\ SessionTypeOK /\ ServerTypeOK /\ GatewayTypeOK /\ StopTypeOK
  BY TypeParts
<1>t. ASSUME UNCHANGED stopVars PROVE StopTypeOK'
  BY <1>0, <1>t DEF stopVars, StopTypeOK
<1>g. ASSUME UNCHANGED gatewayVars PROVE GatewayTypeOK'
  BY <1>0, <1>g DEF gatewayVars, GatewayTypeOK
<1>v. ASSUME UNCHANGED serverVars PROVE ServerTypeOK'
  BY <1>0, <1>v DEF serverVars, ServerTypeOK
<1>1. CASE RunnerStep
  BY <1>1, RunnerStepType
<1>2. CASE Reader
  <2>1. ServerTypeOK' /\ GatewayTypeOK'
    BY <1>0, <1>2, ReaderType DEF Reader, RequestApproval, ApprovalResolved, ReaderStep
  <2>2. SessionTypeOK'
    BY <1>0, <1>2, SessionType DEF Reader, RequestApproval, ApprovalResolved, ReaderStep
  <2>3. QED
    BY <1>2, <1>t, <2>1, <2>2, OthersType
       DEF Reader, RequestApproval, ApprovalResolved, ReaderStep
<1>3. CASE ServerStep
  BY <1>0, <1>3, <1>t, <1>g, ServerType, SessionType, OthersType DEF ServerStep
<1>4. CASE ServerExit
  BY <1>0, <1>4, <1>t, <1>g, GoneType, SessionType, OthersType DEF ServerExit
<1>5. ASSUME NEW d \in Decisions, NEW f \in BOOLEAN, PostDecision(d, f)
      PROVE  TypeInv'
  BY <1>0, <1>5, <1>t, <1>g, <1>v, SessionType, OthersType DEF PostDecision, sdkVars
<1>6. ASSUME NEW h \in Stoppers, Stop(h)
      PROVE  TypeInv'
  BY <1>6, StopType
<1>7. CASE Over \/ UNCHANGED vars
  BY <1>0, <1>7, <1>t, <1>g, <1>v, SessionType, OthersType DEF Over, vars, sdkVars
<1>8. QED
  BY <1>1, <1>2, <1>3, <1>4, <1>5, <1>6, <1>7 DEF Next

\* Type correctness of a run, for any program, any number of stop handlers and
\* any bound on approvals.
THEOREM TypeCorrect == Spec => []TypeOK
<1>1. Init => TypeInv
  BY TypeInit
<1>2. TypeInv /\ [Next]_vars => TypeInv'
  BY TypeStep
<1>3. TypeInv => TypeOK
  BY DEF TypeInv
<1>4. QED
  BY <1>1, <1>2, <1>3, PTL DEF Spec

-----------------------------------------------------------------------------
(* Streams                                                                 *)

\* A stream that starts empty satisfies every condition on its messages.
LEMMA EmptyStream ==
  ASSUME NEW S, NEW T
  PROVE  Free(<<>>, S) /\ AtMostOne(<<>>, S) /\ NeverBehind(<<>>, S, T)
BY DEF Free, AtMostOne, NeverBehind

\* What writing one message keeps.
LEMMA AppendStream ==
  ASSUME NEW M, NEW s \in Seq(M), NEW m \in M, NEW S, NEW T
  PROVE  /\ Free(s, S) /\ m \notin S => Free(Append(s, m), S)
         /\ Free(Append(s, m), S) => Free(s, S) /\ m \notin S
         /\ AtMostOne(s, S) /\ (m \notin S \/ Free(s, S)) => AtMostOne(Append(s, m), S)
         /\ NeverBehind(s, S, T) /\ (m \notin S \/ Free(s, T)) => NeverBehind(Append(s, m), S, T)
<1>1. /\ Len(s) \in Nat
      /\ Len(Append(s, m)) = Len(s) + 1
      /\ \A i \in 1..Len(s) : Append(s, m)[i] = s[i]
      /\ Append(s, m)[Len(s) + 1] = m
  BY AppendProperties, LenProperties
<1>2. \A i \in 1..Len(s) + 1 : i \in 1..Len(s) \/ i = Len(s) + 1
  BY <1>1
<1>3. QED
  BY <1>1, <1>2 DEF Free, AtMostOne, NeverBehind

\* What reading one message keeps, and what it says about the rest.
LEMMA TailStream ==
  ASSUME NEW M, NEW s \in Seq(M), s # <<>>, NEW S, NEW T
  PROVE  /\ Free(s, S) => Free(Tail(s), S) /\ Head(s) \notin S
         /\ Free(Tail(s), S) /\ Head(s) \notin S => Free(s, S)
         /\ AtMostOne(s, S) => AtMostOne(Tail(s), S)
         /\ AtMostOne(s, S) /\ Head(s) \in S => Free(Tail(s), S)
         /\ NeverBehind(s, S, T) => NeverBehind(Tail(s), S, T)
         /\ NeverBehind(s, S, T) /\ Head(s) \in T => Free(Tail(s), S)
<1>1. /\ Len(s) \in Nat /\ Len(s) > 0
      /\ Len(Tail(s)) = Len(s) - 1
      /\ \A i \in 1..Len(s) - 1 : Tail(s)[i] = s[i + 1]
      /\ Head(s) = s[1]
  BY HeadTailProperties, EmptySeq, LenProperties
<1>2. \A i \in 1..Len(s) - 1 : i + 1 \in 1..Len(s)
  BY <1>1
<1>3. \A i \in 1..Len(s) : i = 1 \/ (i - 1 \in 1..Len(s) - 1 /\ (i - 1) + 1 = i)
  BY <1>1
<1>4. ASSUME Free(s, S) PROVE Free(Tail(s), S) /\ Head(s) \notin S
  BY <1>1, <1>2, <1>4 DEF Free
<1>5. ASSUME Free(Tail(s), S), Head(s) \notin S PROVE Free(s, S)
  BY <1>1, <1>3, <1>5 DEF Free
<1>6. ASSUME AtMostOne(s, S)
      PROVE  AtMostOne(Tail(s), S) /\ (Head(s) \in S => Free(Tail(s), S))
  BY <1>1, <1>2, <1>6 DEF Free, AtMostOne
<1>7. ASSUME NeverBehind(s, S, T)
      PROVE  NeverBehind(Tail(s), S, T) /\ (Head(s) \in T => Free(Tail(s), S))
  BY <1>1, <1>2, <1>7 DEF Free, NeverBehind
<1>8. QED
  BY <1>4, <1>5, <1>6, <1>7

-----------------------------------------------------------------------------
IInv == TypeInv /\ TurnProtocol

\* Before HarnessRunner.run starts there is no message and no waiter.
LEMMA ProtocolInit == Init => TurnProtocol
<1> SUFFICES ASSUME Init PROVE TurnProtocol
  OBVIOUS
<1>1. rpc[Runner] = "idle"
  BY DEF Init, ServerInit, Callers
<1>2. QED
  BY <1>1, EmptyStream
     DEF Init, ServerInit, GatewayInit, TurnProtocol, ApprovalFirst, OneEnding,
         OneReply, Connection, Asking, Ended, TurnPcs, Between, Before

\* Steps of the runner that do not touch the connection.
LEMMA MoveProtocol ==
  ASSUME IInv, UNCHANGED sdkVars,
         \/ pc \in Before /\ pc' \in Before \cup {"raise"}
         \/ pc \in Between /\ pc' \in Between \cup Failing
         \/ pc \in Failing /\ pc' \in Failing
         \/ pc = "awaitTurn" /\ inbox # "none" /\ pc' = "leaveTurn"
         \/ pc' = pc
  PROVE  TurnProtocol'
<1> USE DEF IInv, TurnProtocol, sdkVars, serverVars, gatewayVars, TurnPcs, Between, Before, Failing
<1>0. Asking' <=> Asking
  BY DEF Asking
<1>1. ApprovalFirst'
  BY <1>0 DEF ApprovalFirst, OneEnding
<1>3. OneEnding'
  <2>1. inbox \in Ended \cup {"none", "closed"}
    BY DEF TypeInv, TypeOK, GatewayTypeOK
  <2>2. reader = "dead" => Free(wire, Endings) /\ turnStatus = "idle"
    BY EmptyStream DEF Connection
  <2>3. QED
    BY <2>1, <2>2 DEF OneEnding, OneReply, Connection
<1>4. OneReply'
  BY DEF OneReply
<1>5. Connection'
  BY DEF Connection
<1>6. QED
  BY <1>1, <1>3, <1>4, <1>5

\* A request by another thread changes nothing the protocol speaks of.
LEMMA OtherCallerProtocol ==
  ASSUME IInv, NEW h \in Stoppers, UNCHANGED <<pc, reader, inbox>>,
         Send(h, "turnInterrupt", activeTurn) \/ Forget(h)
  PROVE  TurnProtocol'
<1>0. rpc'[Runner] = rpc[Runner] /\ target'[Runner] = target[Runner]
  BY RunnerAssumption DEF Send, Forget, IInv, TypeInv, TypeOK, ServerTypeOK, Callers
<1>1. UNCHANGED <<up, turn, turnStatus, blocked, interrupters, wire>>
  BY DEF Send, Forget
<1>2. Asking' <=> Asking
  BY <1>1 DEF Asking
<1>3. QED
  BY <1>0, <1>1, <1>2 DEF IInv, TurnProtocol, ApprovalFirst, OneEnding,
     OneReply,
                          Connection

\* gateway.start()
LEMMA ConnectProtocol ==
  ASSUME IInv, pc = "setup", pc' \in {"phase", "raise"}, Connect
  PROVE  TurnProtocol'
<1>1. wire = <<>> /\ reader = "dead" /\ inbox = "none" /\ ~up /\ turnStatus = "idle"
  BY DEF IInv, TurnProtocol, Connection, Before
<1>2. rpc[Runner] = "idle"
  BY DEF IInv, TurnProtocol, OneReply
<1>3. UNCHANGED <<turn, turnStatus, blocked, interrupters, wire, rpc, target, inbox>>
      /\ reader' = "idle" /\ up' = TRUE
  BY DEF Connect
<1>4. Free(wire', Approvals) /\ Free(wire', Endings) /\ Free(wire', Releasing)
      /\ NeverBehind(wire', Approvals, Releasing) /\ AtMostOne(wire', Approvals)
      /\ AtMostOne(wire', Endings)
  BY <1>1, <1>3, EmptyStream
<1>5. QED
  BY <1>1, <1>2, <1>3, <1>4
     DEF IInv, TurnProtocol, ApprovalFirst, OneEnding, OneReply, Connection,
         Asking, Ended, Before

\* turn_start
LEMMA StartTurnProtocol ==
  ASSUME IInv, pc = "phase", pc' = "turnStart", Send(Runner, "turnStart", 0), UNCHANGED gatewayVars
  PROVE  TurnProtocol'
<1>1. /\ rpc[Runner] = "idle" /\ turnStatus = "idle" /\ ~Asking
  BY DEF IInv, TurnProtocol, OneReply, OneEnding, ApprovalFirst, Between, TurnPcs, Failing
<1>2. /\ rpc'[Runner] \in {"turnStart", "error"}
      /\ UNCHANGED <<up, turn, turnStatus, blocked, interrupters, wire, reader, inbox>>
  BY DEF Send, IInv, TypeInv, TypeOK, ServerTypeOK, Callers, gatewayVars
<1>3. ~Asking'
  BY <1>1, <1>2 DEF Asking
<1>4. QED
  BY <1>1, <1>2, <1>3
     DEF IInv, TurnProtocol, ApprovalFirst, OneEnding, OneReply, Connection,
         Before, Between, Failing

\* The runner learns of its turn, and may interrupt it at once.
LEMMA TurnStartedProtocol ==
  ASSUME IInv, TurnStarted
  PROVE  TurnProtocol'
<1>1. /\ rpc[Runner] = "ok" /\ pc = "turnStart" /\ pc' \in {"selfInterrupt", "awaitTurn"}
      /\ UNCHANGED <<up, turn, turnStatus, blocked, interrupters, wire, reader, inbox>>
  BY DEF TurnStarted, ActivateTurn, Send, Forget, Goto
<1>2. \/ rpc'[Runner] = "idle"
      \/ /\ pc' = "selfInterrupt"
         /\ rpc'[Runner] = IF up THEN "turnInterrupt" ELSE "error"
         /\ target'[Runner] = turn
  BY DEF TurnStarted, ActivateTurn, Send, Forget, Goto, IInv, TypeInv, TypeOK,
     ServerTypeOK, Callers
<1>3. Asking' <=> Asking
  BY <1>1 DEF Asking
<1>4. QED
  BY <1>1, <1>2, <1>3
     DEF IInv, TurnProtocol, ApprovalFirst, OneEnding, OneReply, Connection,
         Before, Between, Failing, TurnPcs

\* The runner's own turn/interrupt returned, or a request of its raised.
LEMMA RequestDoneProtocol ==
  ASSUME IInv, SelfInterruptReturned \/ TurnRequestFailed
  PROVE  TurnProtocol'
<1>1. /\ pc \in {"turnStart", "selfInterrupt"}
      /\ \/ rpc[Runner] = "ok" /\ pc' = "awaitTurn"
         \/ rpc[Runner] = "error" /\ pc' = "raise"
      /\ UNCHANGED <<up, turn, turnStatus, blocked, interrupters, wire, reader, inbox>>
  BY DEF SelfInterruptReturned, TurnRequestFailed, Forget, Goto, gatewayVars
<1>2. rpc'[Runner] = "idle"
  BY DEF SelfInterruptReturned, TurnRequestFailed, Forget, IInv, TypeInv, TypeOK,
     ServerTypeOK, Callers
<1>3. Asking' <=> Asking
  BY <1>1 DEF Asking
<1>4. QED
  BY <1>1, <1>2, <1>3
     DEF IInv, TurnProtocol, ApprovalFirst, OneEnding, OneReply, Connection,
         Before, Between, Failing, TurnPcs

\* run_turn's finally
LEMMA FinishTurnProtocol ==
  ASSUME IInv, FinishTurn
  PROVE  TurnProtocol'
<1>1. /\ pc = "leaveTurn" /\ pc' \in {"raise", "record"} /\ inbox' = "none"
      /\ UNCHANGED <<up, turn, turnStatus, blocked, interrupters, wire, reader, rpc, target>>
  BY DEF FinishTurn, LeaveTurn, Goto, serverVars
<1>2. Asking' <=> Asking
  BY <1>1 DEF Asking
<1>3. QED
  BY <1>1, <1>2
     DEF IInv, TurnProtocol, ApprovalFirst, OneEnding, OneReply, Connection,
         Before, Between, Failing, TurnPcs, Ended

\* The process is gone, by itself or closed by the runner.
LEMMA GoneProtocol ==
  ASSUME IInv, ServerGone, UNCHANGED gatewayVars,
         (ServerMayExit /\ pc' = pc) \/ (pc = "close" /\ pc' = "done")
  PROVE  TurnProtocol'
<1>1. /\ ~up' /\ turnStatus' = "idle" /\ interrupters' = <<>>
      /\ UNCHANGED <<turn, wire, rpc, target, reader, inbox>>
  BY DEF ServerGone, gatewayVars
<1>2. Asking' <=> Asking
  BY <1>1 DEF Asking
<1>3. Free(interrupters', {Runner}) /\ AtMostOne(interrupters', {Runner})
  BY <1>1, EmptyStream
<1>4. QED
  BY <1>1, <1>2, <1>3
     DEF IInv, TurnProtocol, ApprovalFirst, OneEnding, OneReply, Connection,
         Before, Between, Failing, TurnPcs

-----------------------------------------------------------------------------
(* The reader                                                              *)

\* The kinds of message, as far as the protocol tells them apart.
LEMMA ProtocolKinds ==
  ASSUME NEW m \in Messages
  PROVE  /\ m \in RunnerReplies <=> m.type \in Replies /\ m.to = Runner
         /\ m \in Releasing <=> m \in Endings \/ (m.type = "error" /\ m.to = Runner)
         /\ m \in Approvals <=> m.type = "approval"
         /\ m \in Endings <=> m.type \in Ended
<1>1. CASE m \in Approvals
  BY <1>1 DEF Approvals, OtherApprovals, Endings, Releasing, RunnerReplies, Ended, Replies
<1>2. CASE m \in OtherApprovals
  BY <1>2 DEF Approvals, OtherApprovals, Endings, Releasing, RunnerReplies, Ended, Replies
<1>3. CASE m \in Endings
  BY <1>3 DEF Approvals, OtherApprovals, Endings, Releasing, RunnerReplies, Ended, Replies
<1>4. CASE m \in [type : Replies, to : Callers]
  BY <1>4 DEF Approvals, OtherApprovals, Endings, Releasing, RunnerReplies, Ended, Replies
<1>5. QED
  BY <1>1, <1>2, <1>3, <1>4 DEF Messages

\* Taking the first message off the stream.
LEMMA TakeStream ==
  ASSUME wire \in Seq(Messages), wire # <<>>, wire' = Tail(wire)
  PROVE  /\ Head(wire) \in Messages
         /\ \A S : Free(wire, S) => Free(wire', S)
         /\ \A S : AtMostOne(wire, S) => AtMostOne(wire', S)
         /\ \A S : AtMostOne(wire, S) /\ Head(wire) \in S => Free(wire', S)
         /\ \A S : Free(wire, S) => Head(wire) \notin S
         /\ \A S, T : NeverBehind(wire, S, T) => NeverBehind(wire', S, T)
         /\ \A S, T : NeverBehind(wire, S, T) /\ Head(wire) \in T => Free(wire', S)
<1>1. Head(wire) \in Messages
  BY HeadTailProperties
<1>2. QED
  BY <1>1, TailStream

\* route_response and route_notification take one message that is no approval.
LEMMA RouteProtocol ==
  ASSUME IInv, ReaderRoute, UNCHANGED pc
  PROVE  TurnProtocol'
<1> DEFINE m == Head(wire)
<1>t. wire \in Seq(Messages) /\ rpc \in [Callers -> Outstanding \cup Replies \cup {"idle"}]
      /\ Runner \in Callers
  BY DEF IInv, TypeInv, TypeOK, ServerTypeOK, Callers
<1>0. /\ wire # <<>> /\ wire' = Tail(wire) /\ m.type \notin Requests /\ reader = "idle"
      /\ UNCHANGED <<up, turn, turnStatus, blocked, interrupters, target, reader>>
  BY DEF ReaderRoute
<1>1. m \in Messages
  BY <1>t, <1>0, TakeStream
<1>2. /\ \A S : Free(wire, S) => Free(wire', S) /\ m \notin S
      /\ \A S : AtMostOne(wire, S) => AtMostOne(wire', S) /\ (m \in S => Free(wire', S))
      /\ NeverBehind(wire, Approvals, Releasing) =>
           NeverBehind(wire', Approvals, Releasing) /\ (m \in Releasing => Free(wire', Approvals))
  BY <1>t, <1>0, TakeStream
<1>3. Asking' => Asking
  BY <1>0, <1>2 DEF Asking
<1>4. reader = "idle" /\ wire # <<>>
  BY <1>0
<1>5. CASE m.type \in Replies /\ m.to = Runner
  <2>1. rpc'[Runner] = m.type /\ inbox' = inbox
    BY <1>t, <1>5 DEF ReaderRoute
  <2>2. m \in RunnerReplies /\ (m.type = "error" => m \in Releasing)
    BY <1>1, <1>5, ProtocolKinds
  <2>3. rpc[Runner] = "parked"
    BY <1>2, <2>2 DEF IInv, TurnProtocol, OneReply
  <2>4. ApprovalFirst'
    <3>1. m.type = "error" => ~Asking'
      BY <1>0, <1>2, <2>2 DEF IInv, TurnProtocol, ApprovalFirst, Asking
    <3>2. m.type \in {"ok", "error"}
      BY <1>5 DEF Replies
    <3>3. turnStatus = "running" => m.type # "error"
      BY <1>2, <2>2 DEF IInv, TurnProtocol, ApprovalFirst
    <3>4. QED
      BY <1>0, <1>2, <1>3, <2>1, <3>1, <3>2, <3>3 DEF IInv, TurnProtocol, ApprovalFirst
  <2>6. OneEnding'
    BY <1>0, <1>2, <1>5, <2>1 DEF IInv, TurnProtocol, OneEnding, Replies
  <2>7. OneReply'
    BY <1>0, <1>2, <1>5, <2>1, <2>2, <2>3 DEF IInv, TurnProtocol, OneReply, Replies
  <2>8. Connection'
    BY <1>0, <2>1 DEF IInv, TurnProtocol, Connection
  <2>9. QED
    BY <2>4, <2>6, <2>7, <2>8 DEF TurnProtocol
<1>6. CASE m.type \in Replies /\ m.to # Runner
  <2>1. rpc'[Runner] = rpc[Runner] /\ inbox' = inbox
    BY <1>t, <1>6 DEF ReaderRoute
  <2>2. QED
    BY <1>0, <1>2, <1>3, <2>1
       DEF IInv, TurnProtocol, ApprovalFirst, OneEnding, OneReply, Connection
<1>7. CASE m.type \notin Replies
  <2>1. m.type \in Ended /\ m \in Endings /\ m \in Releasing
    BY <1>0, <1>1, <1>7, MessageKinds, ProtocolKinds
  <2>2. rpc' = rpc /\ inbox' \in {m.type, inbox}
    BY <1>7 DEF ReaderRoute
  <2>3. /\ ~Asking' /\ Free(wire', Endings)
        /\ turnStatus = "idle" /\ pc \notin Between \cup {"leaveTurn"} /\ rpc[Runner] # "turnStart"
    BY <1>0, <1>2, <2>1 DEF IInv, TurnProtocol, ApprovalFirst, OneEnding, Asking
  <2>4. pc \notin Before
    BY <1>0 DEF IInv, TurnProtocol, Connection
  <2>5. QED
    BY <1>0, <1>2, <2>1, <2>2, <2>3, <2>4
       DEF IInv, TurnProtocol, ApprovalFirst, OneEnding, OneReply, Connection, Ended
<1>8. QED
  BY <1>5, <1>6, <1>7

\* _handle_server_request enters the approval handler.
LEMMA ApprovalProtocol ==
  ASSUME IInv, ReaderTakeApproval \/ ReaderAnswerUnknown, UNCHANGED pc
  PROVE  TurnProtocol'
<1>t. wire \in Seq(Messages)
  BY DEF IInv, TypeInv, TypeOK, ServerTypeOK
<1>0. /\ wire # <<>> /\ wire' = Tail(wire) /\ reader = "idle"
      /\ UNCHANGED <<up, turn, turnStatus, interrupters, target, rpc, inbox>>
  BY DEF ReaderTakeApproval, ReaderAnswerUnknown, Answered, ServerApprovalAnswered, gatewayVars
<1>1. Head(wire) \in Messages /\ (Head(wire).type = "approval" => Head(wire) \in Approvals)
  BY <1>t, <1>0, TakeStream, ProtocolKinds
<1>2. /\ \A S : Free(wire, S) => Free(wire', S) /\ Head(wire) \notin S
      /\ \A S : AtMostOne(wire, S) => AtMostOne(wire', S) /\ (Head(wire) \in S => Free(wire', S))
      /\ NeverBehind(wire, Approvals, Releasing) => NeverBehind(wire', Approvals, Releasing)
  BY <1>t, <1>0, TakeStream
<1>3. \/ reader' = "waiting" /\ Head(wire).type = "approval"
      \/ reader' \in {"other", "idle"}
  BY <1>0 DEF ReaderTakeApproval, ReaderAnswerUnknown, gatewayVars
<1>4. Asking' => Asking
  BY <1>1, <1>2, <1>3 DEF Asking
<1>5. QED
  BY <1>0, <1>2, <1>3, <1>4
     DEF IInv, TurnProtocol, ApprovalFirst, OneEnding, OneReply, Connection

\* fail_all: the stream is gone, every blocked call is answered.
LEMMA FailAllProtocol ==
  ASSUME IInv, FailAll, ~up, reader # "dead", UNCHANGED pc,
         UNCHANGED <<up, turn, turnStatus, blocked, aborting, interrupters, approvals, target>>
  PROVE  TurnProtocol'
<1>0. /\ reader' = "dead" /\ wire' = <<>>
      /\ inbox' = inbox \/ inbox' = "closed"
  BY DEF FailAll
<1>1. rpc'[Runner] = IF rpc[Runner] \in Outstanding THEN "error" ELSE rpc[Runner]
  BY DEF FailAll, Callers
<1>2. ~Asking'
  BY <1>0, EmptyStream DEF Asking
<1>3. \A S : Free(wire', S) /\ AtMostOne(wire', S) /\ \A T : NeverBehind(wire', S, T)
  BY <1>0, EmptyStream
<1>4. turnStatus = "idle" /\ interrupters = <<>> /\ Free(interrupters, {Runner})
  BY EmptyStream DEF IInv, TurnProtocol, Connection
<1>5. QED
  BY <1>0, <1>1, <1>2, <1>3, <1>4
     DEF IInv, TurnProtocol, ApprovalFirst, OneEnding, OneReply, Connection,
         Ended, Outstanding

\* The approval handler returns and its answer is written.
LEMMA AnswerProtocol ==
  ASSUME IInv, NEW d, ReaderAnswer(d), UNCHANGED pc
  PROVE  TurnProtocol'
<1>1. CASE up
  <2>1. /\ reader \in {"waiting", "other"} /\ reader' = "idle"
        /\ UNCHANGED <<up, turn, turnStatus, interrupters, target, rpc, wire, inbox>>
    BY <1>1 DEF ReaderAnswer, InHandler, Answered, ServerApprovalAnswered
  <2>2. Asking' => Asking
    BY <2>1 DEF Asking
  <2>3. QED
    BY <2>1, <2>2
       DEF IInv, TurnProtocol, ApprovalFirst, OneEnding, OneReply, Connection
<1>2. CASE ~up
  BY <1>2, FailAllProtocol DEF ReaderAnswer, InHandler
<1>3. QED
  BY <1>1, <1>2

-----------------------------------------------------------------------------
(* The app-server                                                          *)

\* Writing one message.
LEMMA PutStream ==
  ASSUME wire \in Seq(Messages), NEW type, NEW to, Put(type, to),
         [type |-> type, to |-> to] \in Messages
  PROVE  LET m == [type |-> type, to |-> to]
         IN  /\ \A S : Free(wire, S) /\ m \notin S => Free(wire', S)
             /\ \A S : Free(wire', S) => Free(wire, S) /\ m \notin S
             /\ \A S : AtMostOne(wire, S) /\ (m \notin S \/ Free(wire, S)) => AtMostOne(wire', S)
             /\ \A S, T : NeverBehind(wire, S, T) /\ (m \notin S \/ Free(wire, T)) =>
                           NeverBehind(wire', S, T)
<1> DEFINE m == [type |-> type, to |-> to]
<1>1. wire' = Append(wire, m) /\ m \in Messages
  BY DEF Put
<1> HIDE DEF m
<1>2. \A S : /\ Free(wire, S) /\ m \notin S => Free(wire', S)
             /\ Free(wire', S) => Free(wire, S) /\ m \notin S
  BY <1>1, AppendStream
<1>3. \A S : AtMostOne(wire, S) /\ (m \notin S \/ Free(wire, S)) => AtMostOne(wire', S)
  BY <1>1, AppendStream
<1>4. \A S, T : NeverBehind(wire, S, T) /\ (m \notin S \/ Free(wire, T)) => NeverBehind(wire', S, T)
  BY <1>1, AppendStream
<1> QED
  BY <1>2, <1>3, <1>4 DEF m

\* The server writes a response that is not the runner's.
LEMMA PutOther ==
  ASSUME IInv, NEW r \in Replies, NEW c \in Stoppers, Put(r, c),
         UNCHANGED <<up, turn, turnStatus, blocked, target, pc, reader, inbox>>,
         rpc'[Runner] = rpc[Runner],
         Free(interrupters, {Runner}) => Free(interrupters', {Runner}),
         AtMostOne(interrupters', {Runner}),
         ~up' => interrupters' = <<>>,
         up
  PROVE  TurnProtocol'
<1> DEFINE m == [type |-> r, to |-> c]
<1>t. wire \in Seq(Messages)
  BY DEF IInv, TypeInv, TypeOK, ServerTypeOK
<1>1. m \in Messages
  BY DEF Messages, Callers
<1>2. c # Runner /\ m.type \in Replies /\ m.to = c /\ m.type \notin Ended /\ m.type # "approval"
  BY RunnerAssumption DEF Replies, Ended
<1>3. m \notin RunnerReplies \cup Releasing \cup Approvals \cup Endings
  BY <1>1, <1>2, ProtocolKinds
<1>4. /\ \A S : Free(wire, S) /\ m \notin S => Free(wire', S)
      /\ \A S : Free(wire', S) => Free(wire, S)
      /\ \A S : AtMostOne(wire, S) /\ m \notin S => AtMostOne(wire', S)
      /\ \A S, T : NeverBehind(wire, S, T) /\ m \notin S => NeverBehind(wire', S, T)
  BY <1>t, <1>1, PutStream
<1>5. Asking' <=> Asking
  BY <1>3, <1>4 DEF Asking
<1>6. reader # "dead"
  BY DEF IInv, TurnProtocol, Connection
<1>7. QED
  BY <1>3, <1>4, <1>5, <1>6
     DEF IInv, TurnProtocol, ApprovalFirst, OneEnding, OneReply, Connection

\* The server answers the runner's own request.
LEMMA PutRunner ==
  ASSUME IInv, NEW r \in Replies, Put(r, Runner), up,
         UNCHANGED <<up, blocked, target, pc, reader, inbox>>,
         rpc'[Runner] = "parked",
         rpc[Runner] \in {"turnStart", "accepted", "turnInterrupt"} \/ ~Free(interrupters, {Runner}),
         Free(interrupters', {Runner}),
         UNCHANGED <<turn, turnStatus>>,
         r = "error" => turnStatus # "running"
  PROVE  TurnProtocol'
<1> DEFINE m == [type |-> r, to |-> Runner]
<1>t. wire \in Seq(Messages) /\ inbox \in Ended \cup {"none", "closed"}
  BY DEF IInv, TypeInv, TypeOK, ServerTypeOK, GatewayTypeOK
<1>1. m \in Messages /\ m.type = r /\ m.to = Runner
  BY DEF Messages, Callers
<1>2. /\ m \notin Approvals \cup Endings
      /\ m \in Releasing <=> r = "error"
  BY <1>1, ProtocolKinds DEF Replies, Ended
<1>3. /\ \A S : Free(wire, S) /\ m \notin S => Free(wire', S)
      /\ \A S : Free(wire', S) => Free(wire, S)
      /\ \A S : AtMostOne(wire, S) /\ (m \notin S \/ Free(wire, S)) => AtMostOne(wire', S)
      /\ \A S, T : NeverBehind(wire, S, T) /\ m \notin S => NeverBehind(wire', S, T)
  BY <1>t, <1>1, PutStream
<1>4. Asking' <=> Asking
  BY <1>2, <1>3 DEF Asking
<1>5. reader # "dead" /\ inbox # "closed"
  BY DEF IInv, TurnProtocol, Connection
<1>6. Free(wire, RunnerReplies) /\ rpc[Runner] # "idle"
  BY DEF IInv, TurnProtocol, OneReply
<1>7. OneReply'
  <2>1. AtMostOne(wire', RunnerReplies)
    BY <1>3, <1>6 DEF IInv, TurnProtocol, OneReply
  <2>2. AtMostOne(interrupters', {Runner})
    BY DEF Free, AtMostOne
  <2>3. QED
    BY <1>6, <2>1, <2>2 DEF IInv, TurnProtocol, OneReply
<1>8. QED
  BY <1>2, <1>3, <1>4, <1>5, <1>7
     DEF IInv, TurnProtocol, ApprovalFirst, OneEnding, Connection

\* turn/start is accepted: nothing of an earlier turn is under way.
LEMMA AcceptProtocol ==
  ASSUME IInv, ServerStartTurn, UNCHANGED <<pc, reader, inbox>>
  PROVE  TurnProtocol'
<1>t. /\ wire \in Seq(Messages) /\ inbox \in Ended \cup {"none", "closed"} /\ Runner \in Callers
      /\ rpc \in [Callers -> Outstanding \cup Replies \cup {"idle"}]
  BY DEF IInv, TypeInv, TypeOK, ServerTypeOK, GatewayTypeOK, Callers
<1>0. /\ up /\ rpc[Runner] = "turnStart" /\ rpc'[Runner] = "accepted" /\ turnStatus' = "running"
      /\ UNCHANGED <<up, interrupters, wire, target>>
  BY <1>t DEF ServerStartTurn
<1>1. pc = "turnStart" /\ inbox = "none" /\ Free(wire, Endings) /\ Free(wire, RunnerReplies)
      /\ reader # "dead"
  BY <1>t, <1>0 DEF IInv, TurnProtocol, OneReply, OneEnding, Connection
<1>2. Free(wire, Releasing)
  BY <1>1 DEF Free, Releasing, RunnerReplies, Replies
<1>3. ~Asking /\ ~Asking'
  BY <1>0, <1>1 DEF IInv, TurnProtocol, ApprovalFirst, Asking, Failing
<1>4. QED
  BY <1>0, <1>1, <1>2, <1>3
     DEF IInv, TurnProtocol, ApprovalFirst, OneEnding, OneReply, Connection, TurnPcs, Between,
         Before, Failing, Ended

\* turn_interrupt_inner parks a request or refuses it.
LEMMA InterruptProtocol ==
  ASSUME IInv, NEW c \in Callers, ServerTurnInterrupt(c), UNCHANGED <<pc, reader, inbox>>
  PROVE  TurnProtocol'
<1>t. /\ interrupters \in Seq(Callers) /\ Runner \in Callers
      /\ rpc \in [Callers -> Outstanding \cup Replies \cup {"idle"}]
  BY DEF IInv, TypeInv, TypeOK, ServerTypeOK, Callers
<1>0. /\ up /\ rpc[c] = "turnInterrupt" /\ rpc' = [rpc EXCEPT ![c] = "parked"]
      /\ UNCHANGED <<up, turn, turnStatus, blocked, target>>
  BY DEF ServerTurnInterrupt
<1>1. CASE interrupters' = Append(interrupters, c) /\ wire' = wire
  <2>1. Asking' <=> Asking
    BY <1>1 DEF Asking
  <2>2. /\ Free(interrupters, {Runner}) /\ c # Runner => Free(interrupters', {Runner})
        /\ AtMostOne(interrupters, {Runner}) /\ (c # Runner \/ Free(interrupters, {Runner})) =>
             AtMostOne(interrupters', {Runner})
    BY <1>1, <1>t, AppendStream
  <2>3. \/ c # Runner /\ rpc'[Runner] = rpc[Runner]
        \/ c = Runner /\ rpc'[Runner] = "parked"
    BY <1>0, <1>t
  <2>4. QED
    BY <1>0, <1>1, <2>1, <2>2, <2>3
       DEF IInv, TurnProtocol, ApprovalFirst, OneEnding, OneReply, Connection
<1>2. CASE Put("error", c) /\ interrupters' = interrupters
           /\ (turnStatus # "running" \/ target[c] # turn)
  <2>0. "error" \in Replies
    BY DEF Replies
  <2>1. CASE c = Runner
    <3>1. target[Runner] = turn /\ Free(interrupters, {Runner})
      BY <1>0, <2>1 DEF IInv, TurnProtocol, OneReply
    <3>2. QED
      BY <1>0, <1>t, <1>2, <2>0, <2>1, <3>1, PutRunner
  <2>2. CASE c # Runner
    BY <1>0, <1>t, <1>2, <2>0, <2>2, PutOther
       DEF Callers, IInv, TurnProtocol, OneReply
  <2>3. QED
    BY <2>1, <2>2
<1>3. QED
  BY <1>1, <1>2 DEF ServerTurnInterrupt

\* respond_to_pending_interrupts answers the oldest parked request.
LEMMA AnswerInterruptProtocol ==
  ASSUME IInv, ServerAnswerInterrupt, UNCHANGED <<pc, reader, inbox>>
  PROVE  TurnProtocol'
<1> DEFINE c == Head(interrupters)
<1>t. interrupters \in Seq(Callers)
  BY DEF IInv, TypeInv, TypeOK, ServerTypeOK
<1>0. /\ up /\ turnStatus \in Ended /\ interrupters # <<>> /\ Put("ok", c)
      /\ interrupters' = Tail(interrupters) /\ c \in Callers
      /\ UNCHANGED <<up, turn, turnStatus, blocked, target, rpc>>
  BY <1>t, HeadTailProperties DEF ServerAnswerInterrupt
<1>1. /\ Free(interrupters, {Runner}) => Free(interrupters', {Runner}) /\ c # Runner
      /\ AtMostOne(interrupters', {Runner})
      /\ c = Runner => Free(interrupters', {Runner})
  <2>1. AtMostOne(interrupters, {Runner})
    BY DEF IInv, TurnProtocol, OneReply
  <2>2. QED
    BY <1>0, <1>t, <2>1, TailStream
<1>2. "ok" \in Replies
  BY DEF Replies
<1>3. CASE c = Runner
  <2>1. rpc[Runner] = "parked"
    BY <1>1, <1>3 DEF IInv, TurnProtocol, OneReply
  <2>2. QED
    BY <1>0, <1>1, <1>2, <1>3, <2>1, PutRunner
<1>4. CASE c # Runner
  BY <1>0, <1>1, <1>2, <1>4, PutOther DEF Callers
<1>5. QED
  BY <1>3, <1>4

\* A running turn asks for an approval: nothing that releases the runner is under way.
LEMMA AskProtocol ==
  ASSUME IInv, ServerAskApproval, UNCHANGED <<pc, reader, inbox>>
  PROVE  TurnProtocol'
<1> DEFINE m == [type |-> "approval", to |-> Runner]
<1>t. wire \in Seq(Messages)
  BY DEF IInv, TypeInv, TypeOK, ServerTypeOK
<1>0. /\ up /\ turnStatus = "running" /\ Put("approval", Runner)
      /\ UNCHANGED <<up, turn, turnStatus, interrupters, target, rpc>>
  BY DEF ServerAskApproval
<1>1. m \in Messages /\ m \in Approvals /\ m.type = "approval"
  BY DEF Messages, Approvals
<1>2. m \notin RunnerReplies \cup Releasing \cup Endings
  BY <1>1, ProtocolKinds DEF Replies, Ended
<1>3. /\ \A S : Free(wire, S) /\ m \notin S => Free(wire', S)
      /\ \A S : AtMostOne(wire, S) /\ (m \notin S \/ Free(wire, S)) => AtMostOne(wire', S)
      /\ \A S, T : NeverBehind(wire, S, T) /\ (m \notin S \/ Free(wire, T)) =>
                    NeverBehind(wire', S, T)
  BY <1>t, <1>0, <1>1, PutStream
<1>4. /\ reader # "dead" /\ Free(wire, Releasing)
      /\ pc \in TurnPcs /\ inbox = "none" /\ rpc[Runner] \notin {"turnStart", "error"}
  BY <1>0 DEF IInv, TurnProtocol, ApprovalFirst, Connection
<1>5. QED
  BY <1>0, <1>2, <1>3, <1>4
     DEF IInv, TurnProtocol, ApprovalFirst, OneEnding, OneReply, Connection,
         TurnPcs, Between, Before, Failing

\* An approval of another thread is no concern of the protocol.
LEMMA AskOtherProtocol ==
  ASSUME IInv, ServerAskOther, UNCHANGED <<pc, reader, inbox>>
  PROVE  TurnProtocol'
<1> DEFINE m == [type |-> "otherApproval", to |-> Runner]
<1>t. wire \in Seq(Messages)
  BY DEF IInv, TypeInv, TypeOK, ServerTypeOK
<1>0. /\ up /\ Put("otherApproval", Runner)
      /\ UNCHANGED <<up, turn, turnStatus, interrupters, target, rpc>>
  BY DEF ServerAskOther
<1>1. m \in Messages /\ m.type = "otherApproval"
  BY DEF Messages, OtherApprovals
<1>2. m \notin RunnerReplies \cup Releasing \cup Endings \cup Approvals
  BY <1>1, ProtocolKinds DEF Replies, Ended
<1>3. /\ \A S : Free(wire, S) /\ m \notin S => Free(wire', S)
      /\ \A S : Free(wire', S) => Free(wire, S)
      /\ \A S : AtMostOne(wire, S) /\ m \notin S => AtMostOne(wire', S)
      /\ \A S, T : NeverBehind(wire, S, T) /\ m \notin S => NeverBehind(wire', S, T)
  BY <1>t, <1>0, <1>1, PutStream
<1>4. (Asking' <=> Asking) /\ reader # "dead"
  BY <1>0, <1>2, <1>3 DEF Asking, IInv, TurnProtocol, Connection
<1>5. QED
  BY <1>0, <1>2, <1>3, <1>4
     DEF IInv, TurnProtocol, ApprovalFirst, OneEnding, OneReply, Connection

\* TurnComplete or TurnAborted is tracked.
LEMMA EndProtocol ==
  ASSUME IInv, NEW how \in Ended, ServerEndTurn(how), UNCHANGED <<pc, reader, inbox>>
  PROVE  TurnProtocol'
<1>0. /\ up /\ turnStatus = "running" /\ turnStatus' = how /\ how # "running"
      /\ UNCHANGED <<up, turn, interrupters, target, rpc, wire>>
  BY DEF ServerEndTurn, Ended
<1>1. Asking' <=> Asking
  BY <1>0 DEF Asking
<1>2. QED
  BY <1>0, <1>1
     DEF IInv, TurnProtocol, ApprovalFirst, OneEnding, OneReply, Connection,
         TurnPcs, Between, Before, Failing

\* turn/completed is written, after the interrupt responses.
LEMMA NotifyProtocol ==
  ASSUME IInv, ServerNotifyTurn, UNCHANGED <<pc, reader, inbox>>
  PROVE  TurnProtocol'
<1> DEFINE m == [type |-> turnStatus, to |-> Runner]
<1>t. wire \in Seq(Messages)
  BY DEF IInv, TypeInv, TypeOK, ServerTypeOK
<1>0. /\ up /\ turnStatus \in Ended /\ turnStatus' = "idle" /\ Put(turnStatus, Runner)
      /\ UNCHANGED <<up, turn, blocked, interrupters, target, rpc>>
  BY DEF ServerNotifyTurn
<1>1. m \in Messages /\ m \in Endings /\ m.type = turnStatus
  BY <1>0 DEF Messages, Endings
<1>2. m \notin RunnerReplies \cup Approvals
  BY <1>0, <1>1, ProtocolKinds DEF Replies, Ended
<1>3. /\ \A S : Free(wire, S) /\ m \notin S => Free(wire', S)
      /\ \A S : Free(wire', S) => Free(wire, S)
      /\ \A S : AtMostOne(wire, S) /\ (m \notin S \/ Free(wire, S)) => AtMostOne(wire', S)
      /\ \A S, T : NeverBehind(wire, S, T) /\ m \notin S => NeverBehind(wire', S, T)
  BY <1>t, <1>0, <1>1, PutStream
<1>4. Asking' <=> Asking
  BY <1>2, <1>3 DEF Asking
<1>5. /\ turnStatus # "idle" /\ Free(wire, Endings) /\ inbox \notin Ended /\ reader # "dead"
      /\ pc \notin Between \cup {"leaveTurn"} /\ rpc[Runner] # "turnStart"
  BY <1>0 DEF IInv, TurnProtocol, OneEnding, Connection, Ended
<1>6. QED
  BY <1>0, <1>2, <1>3, <1>4, <1>5
     DEF IInv, TurnProtocol, ApprovalFirst, OneEnding, OneReply, Connection

\* Every step of the app-server keeps TurnProtocol.
LEMMA ServerProtocol ==
  ASSUME IInv, Server, UNCHANGED <<pc, gatewayVars>>
  PROVE  TurnProtocol'
<1>0. UNCHANGED <<pc, reader, inbox>>
  BY DEF gatewayVars
<1>s. CASE ServerStartTurn
  BY <1>0, <1>s, AcceptProtocol
<1>1. CASE ServerRespondTurn \/ ServerRejectTurn
  <2>1. rpc'[Runner] = "parked"
    BY <1>1 DEF ServerRespondTurn, ServerRejectTurn, IInv, TypeInv, TypeOK, ServerTypeOK,
       Callers
  <2>2. Free(interrupters, {Runner}) /\ (rpc[Runner] = "turnStart" => turnStatus = "idle")
    BY <1>1 DEF ServerRespondTurn, ServerRejectTurn, IInv, TurnProtocol, OneReply, OneEnding
  <2>3. QED
    BY <1>0, <1>1, <2>1, <2>2, PutRunner DEF ServerRespondTurn, ServerRejectTurn, Replies
<1>2. ASSUME NEW c \in Callers, ServerTurnInterrupt(c) PROVE TurnProtocol'
  BY <1>0, <1>2, InterruptProtocol
<1>3. CASE ServerAskApproval
  BY <1>0, <1>3, AskProtocol
<1>a. CASE ServerAskOther
  BY <1>0, <1>a, AskOtherProtocol
<1>4. ASSUME NEW how \in Ended, ServerEndTurn(how) PROVE TurnProtocol'
  BY <1>0, <1>4, EndProtocol
<1>5. CASE ServerAnswerInterrupt
  BY <1>0, <1>5, AnswerInterruptProtocol
<1>6. CASE ServerNotifyTurn
  BY <1>0, <1>6, NotifyProtocol
<1>7. QED
  BY <1>1, <1>2, <1>3, <1>4, <1>5, <1>6, <1>a, <1>s DEF Server

-----------------------------------------------------------------------------
(* The protocol holds throughout a run                                     *)

\* Every step of HarnessRunner.run keeps TurnProtocol.
LEMMA RunnerProtocol ==
  ASSUME IInv, RunnerStep
  PROVE  TurnProtocol'
<1> USE DEF Before, Between, Failing, Goto, sdkVars
<1>1. CASE Begin \/ Bind
  BY <1>1, MoveProtocol DEF Begin, Bind
<1>2. CASE Setup
  BY <1>2, MoveProtocol, ConnectProtocol DEF Setup
<1>3. CASE AskCheckpoint
  BY <1>3, MoveProtocol DEF AskCheckpoint
<1>4. CASE LeaveCheckpoint
  BY <1>4, MoveProtocol DEF LeaveCheckpoint, Record
<1>5. CASE StartTurn
  BY <1>5, StartTurnProtocol DEF StartTurn
<1>6. CASE TurnStarted
  BY <1>6, TurnStartedProtocol
<1>7. CASE SelfInterruptReturned \/ TurnRequestFailed
  BY <1>7, RequestDoneProtocol
<1>8. CASE TurnEnded
  BY <1>8, MoveProtocol DEF TurnEnded
<1>9. CASE FinishTurn
  BY <1>9, FinishTurnProtocol
<1>10. CASE RecordWork \/ RecordCommandStopped \/ RecordVerifyStopped
  BY <1>10, MoveProtocol DEF RecordWork, RecordCommandStopped, RecordVerifyStopped, Record
<1>11. ASSUME NEW observed \in BOOLEAN, NEW agrees \in BOOLEAN,
              RecordCommandResult(observed, agrees)
       PROVE  TurnProtocol'
  BY <1>11, MoveProtocol DEF RecordCommandResult, Record
<1>12. ASSUME NEW verdict \in {"pass", "repair"}, RecordVerdict(verdict)
       PROVE  TurnProtocol'
  BY <1>12, MoveProtocol DEF RecordVerdict, Record
<1>13. CASE RecordMalformed \/ Finish \/ Fail \/ Unbind
  BY <1>13, MoveProtocol DEF RecordMalformed, Finish, Fail, Unbind
<1>14. CASE Close
  BY <1>14, GoneProtocol DEF Close
<1>15. QED
  BY <1>1, <1>2, <1>3, <1>4, <1>5, <1>6, <1>7, <1>8, <1>9, <1>10, <1>11, <1>12, <1>13, <1>14
     DEF RunnerStep

\* TurnProtocol is inductive relative to TypeInv.
LEMMA ProtocolStep ==
  ASSUME IInv, [Next]_vars
  PROVE  TurnProtocol'
<1>1. CASE RunnerStep
  BY <1>1, RunnerProtocol
<1>2. CASE Reader
  <2>1. CASE RequestApproval
    BY <2>1, ApprovalProtocol DEF RequestApproval
  <2>2. CASE ApprovalResolved
    BY <2>2, AnswerProtocol DEF ApprovalResolved
  <2>3. CASE ReaderStep
    <3>1. UNCHANGED pc
      BY <2>3 DEF ReaderStep
    <3>2. CASE ReaderEof(pc = "done")
      BY <3>1, <3>2, FailAllProtocol DEF ReaderEof
    <3>3. QED
      BY <2>3, <3>1, <3>2, RouteProtocol, ApprovalProtocol DEF ReaderStep
  <2>4. QED
    BY <1>2, <2>1, <2>2, <2>3 DEF Reader
<1>3. CASE ServerStep
  BY <1>3, ServerProtocol DEF ServerStep
<1>4. CASE ServerExit
  BY <1>4, GoneProtocol DEF ServerExit
<1>5. ASSUME NEW d \in Decisions, NEW f \in BOOLEAN, PostDecision(d, f)
      PROVE  TurnProtocol'
  BY <1>5, MoveProtocol DEF PostDecision
<1>6. ASSUME NEW h \in Stoppers, Stop(h)
      PROVE  TurnProtocol'
  <2>1. CASE RequestStop(h)
    BY <2>1, MoveProtocol DEF RequestStop
  <2>2. CASE StopInterrupt(h)
    <3>1. CASE activeTurn = 0
      <4>1. UNCHANGED <<serverVars, reader, inbox, pc>>
        BY <2>2, <3>1 DEF StopInterrupt, Interrupt
      <4>2. Asking' <=> Asking
        BY <4>1 DEF Asking, serverVars
      <4>3. QED
        BY <4>1, <4>2
           DEF IInv, TurnProtocol, ApprovalFirst, OneEnding, OneReply, Connection,
               serverVars
    <3>2. CASE activeTurn # 0
      BY <2>2, <3>2, OtherCallerProtocol DEF StopInterrupt, Interrupt
    <3>3. QED
      BY <3>1, <3>2
  <2>3. CASE StopReturned(h)
    BY <2>3, OtherCallerProtocol DEF StopReturned, gatewayVars
  <2>4. QED
    BY <1>6, <2>1, <2>2, <2>3 DEF Stop
<1>7. CASE Over \/ UNCHANGED vars
  BY <1>7, MoveProtocol DEF Over, vars
<1>8. QED
  BY <1>1, <1>2, <1>3, <1>4, <1>5, <1>6, <1>7 DEF Next

\* The order of messages between the app-server, the reader and the runner.
THEOREM ProtocolCorrect == Spec => [](TypeInv /\ TurnProtocol)
<1>1. Init => IInv
  BY TypeInit, ProtocolInit DEF IInv
<1>2. IInv /\ [Next]_vars => IInv'
  BY TypeStep, ProtocolStep DEF IInv
<1>3. IInv => TypeInv /\ TurnProtocol
  BY DEF IInv
<1>4. QED
  BY <1>1, <1>2, <1>3, PTL DEF Spec

\* The approvals of the runner's turn, however many its tool calls ask for, are
\* over before the runner reaches a checkpoint, even if the app-server dies at
\* the worst moment.
THEOREM NoApprovalLeft == Spec => []TurnLeavesNoApproval
<1>1. TypeInv /\ TurnProtocol => TurnLeavesNoApproval
  BY DEF TurnProtocol, ApprovalFirst, Asking, TurnLeavesNoApproval, TurnPcs, Failing
<1>2. QED
  BY <1>1, ProtocolCorrect, PTL

-----------------------------------------------------------------------------
(* Decisions                                                               *)

\* A posted decision is gone when the slot is empty.
THEOREM DecisionHolds == Spec => []DecisionOnlyWhilePending
<1>1. Init => DecisionOnlyWhilePending
  BY DEF Init, SessionInit, DecisionOnlyWhilePending
<1>s. ASSUME DecisionOnlyWhilePending,
             \/ \E k \in {"checkpoint", "approval"} : EnterWait(k)
             \/ LeaveWait
             \/ \E d, f : Decide(d, f)
             \/ \E b : BindInterrupt(b)
             \/ \E v : SetStatus(v)
             \/ StopRefused \/ StopPending \/ StopFetchCallback
             \/ UNCHANGED sessionVars
      PROVE  DecisionOnlyWhilePending'
  BY <1>s DEF DecisionOnlyWhilePending, EnterWait, LeaveWait, Decide, BindInterrupt,
     SetStatus,
              StopRefused, StopPending, StopFetchCallback, sessionVars
<1>2. ASSUME DecisionOnlyWhilePending, [Next]_vars PROVE DecisionOnlyWhilePending'
  <2>1. CASE RunnerStep
    BY <1>2, <1>s, <2>1
       DEF RunnerStep, Begin, Bind, Setup, AskCheckpoint, LeaveCheckpoint, StartTurn, TurnStarted,
           SelfInterruptReturned, TurnRequestFailed, TurnEnded, FinishTurn, RecordWork,
           RecordCommandStopped, RecordCommandResult, RecordVerifyStopped, RecordVerdict,
           RecordMalformed, Finish, Fail, Unbind, Close
  <2>2. CASE Reader
    BY <1>2, <1>s, <2>2 DEF Reader, RequestApproval, ApprovalResolved, ReaderStep
  <2>3. CASE ServerStep \/ ServerExit \/ Over \/ UNCHANGED vars
    BY <1>2, <1>s, <2>3 DEF ServerStep, ServerExit, Over, vars
  <2>4. CASE \E d \in Decisions, f \in BOOLEAN : PostDecision(d, f)
    BY <1>2, <1>s, <2>4 DEF PostDecision
  <2>5. ASSUME NEW h \in Stoppers, Stop(h) PROVE DecisionOnlyWhilePending'
    BY <1>2, <1>s, <2>5 DEF Stop, RequestStop, StopInterrupt, StopReturned
  <2>6. QED
    BY <1>2, <2>1, <2>2, <2>3, <2>4, <2>5 DEF Next
<1>3. QED
  BY <1>1, <1>2, PTL DEF Spec

-----------------------------------------------------------------------------
(* The lifecycle a client sees                                             *)

OverPcs == {"unbind", "close", "done"}

\* The run is queued until HarnessRunner.run begins, and what is shown is live.
SessionInv ==
  /\ PanelIsLive
  /\ pc = "queued" <=> status = "queued"

JInv == IInv /\ SessionInv
LifecycleVars == <<status, pending, Waiters, RunOver>>

\* Who waits, in terms of the two threads that may.
LEMMA WaitersAre ==
  Waiters = (IF pc = "checkpoint" THEN {"checkpoint"} ELSE {})
              \cup (IF InHandler THEN {"approval"} ELSE {})
BY DEF Waiters

\* The same for the next state.
LEMMA WaitersAreNext ==
  Waiters' = (IF pc' = "checkpoint" THEN {"checkpoint"} ELSE {})
               \cup (IF InHandler' THEN {"approval"} ELSE {})
BY DEF Waiters

\* Steps that change neither the status nor the slot.
LEMMA QuietStep ==
  ASSUME JInv, UNCHANGED <<status, pending>>, InHandler' <=> InHandler,
         \/ pc' = pc
         \/ pc' \notin {"queued", "checkpoint"} \cup OverPcs /\ pc \notin {"queued", "checkpoint"} \cup OverPcs
         \/ pc \in OverPcs /\ pc' \in OverPcs
  PROVE  SessionInv' /\ UNCHANGED LifecycleVars
<1>1. SessionInv'
  BY DEF JInv, SessionInv, PanelIsLive, OverPcs
<1>2. Waiters' = Waiters
  BY WaitersAre, WaitersAreNext DEF OverPcs
<1>3. RunOver' = RunOver
  BY DEF RunOver, OverPcs
<1>4. QED
  BY <1>1, <1>2, <1>3 DEF LifecycleVars

\* Every step of HarnessRunner.run is a step of the lifecycle and keeps SessionInv.
LEMMA RunnerLifecycle ==
  ASSUME JInv, RunnerStep
  PROVE  SessionInv' /\ [Lifecycle!Next]_LifecycleVars
<1> USE DEF Goto, sdkVars, gatewayVars, sessionVars
<1>1. CASE Begin
  <2>1. /\ pc = "queued" /\ pc' = "bind" /\ status = "queued" /\ status' = "running"
        /\ UNCHANGED <<pending, reader>>
    BY <1>1 DEF Begin, SetStatus, JInv, SessionInv
  <2>2. UNCHANGED <<Waiters, RunOver>>
    BY <2>1 DEF Waiters, InHandler, RunOver
  <2>3. Lifecycle!Start
    BY <2>1, <2>2 DEF Lifecycle!Start
  <2>4. QED
    BY <2>1, <2>3 DEF JInv, SessionInv, PanelIsLive, InHandler, Lifecycle!Next
<1>2. CASE Bind \/ Setup
  <2>1. UNCHANGED <<status, pending>>
    BY <1>2 DEF Bind, Setup, BindInterrupt
  <2>2. pc' \in {"setup", "phase", "raise"} /\ pc \in {"bind", "setup"}
    BY <1>2 DEF Bind, Setup
  <2>3. reader = "dead"
    BY <2>2 DEF JInv, IInv, TurnProtocol, Connection, Before
  <2>4. reader' \in {"dead", "idle"}
    BY <1>2, <2>3 DEF Bind, Setup, Connect
  <2>5. QED
    BY <2>1, <2>2, <2>3, <2>4, QuietStep DEF InHandler, OverPcs
<1>3. CASE AskCheckpoint
  <2>1. /\ pc = "phase" /\ pc' = "checkpoint" /\ pending' = "checkpoint"
        /\ status' = "waitingForApproval" /\ reader' = reader
    BY <1>3 DEF AskCheckpoint, EnterWait
  <2>2. status # "queued"
    BY <2>1 DEF JInv, SessionInv
  <2>3. /\ "checkpoint" \notin Waiters /\ Waiters' = Waiters \cup {"checkpoint"}
        /\ RunOver = FALSE /\ RunOver' = FALSE
    BY <2>1, WaitersAre, WaitersAreNext DEF InHandler, RunOver
  <2>4. Lifecycle!Next
    BY <2>1, <2>2, <2>3 DEF Lifecycle!Ask, Lifecycle!Next
  <2>5. QED
    BY <2>1, <2>4 DEF SessionInv, PanelIsLive
<1>4. CASE LeaveCheckpoint
  <2>1. /\ pc = "checkpoint" /\ pc' \in {"finish", "phase"} /\ pending' = "none"
        /\ status' = "running" /\ reader' = reader
    BY <1>4 DEF LeaveCheckpoint, LeaveWait, Record
  <2>2. /\ "checkpoint" \in Waiters /\ Waiters' = Waiters \ {"checkpoint"}
        /\ RunOver = FALSE /\ RunOver' = FALSE
    BY <2>1, WaitersAre, WaitersAreNext DEF InHandler, RunOver
  <2>3. Lifecycle!Next
    BY <2>1, <2>2 DEF Lifecycle!Resolve, Lifecycle!Next
  <2>4. QED
    BY <2>1, <2>3 DEF SessionInv, PanelIsLive
<1>5. CASE StartTurn \/ TurnStarted \/ SelfInterruptReturned \/ TurnRequestFailed
           \/ TurnEnded \/ FinishTurn
  <2>1. UNCHANGED <<status, pending, reader>>
    BY <1>5 DEF StartTurn, TurnStarted, SelfInterruptReturned, TurnRequestFailed, TurnEnded,
                FinishTurn, ActivateTurn, LeaveTurn
  <2>2. /\ pc \in {"phase", "turnStart", "selfInterrupt", "awaitTurn", "leaveTurn"}
        /\ pc' \in {"turnStart", "selfInterrupt", "awaitTurn", "leaveTurn", "raise", "record"}
    BY <1>5 DEF StartTurn, TurnStarted, SelfInterruptReturned, TurnRequestFailed, TurnEnded,
                FinishTurn
  <2>3. QED
    BY <2>1, <2>2, QuietStep DEF InHandler, OverPcs
<1>6. ASSUME pc = "record", pc' \in {"phase", "finish", "raise"}, UNCHANGED <<sessionVars, sdkVars>>
      PROVE  SessionInv' /\ [Lifecycle!Next]_LifecycleVars
  BY <1>6, QuietStep DEF InHandler, OverPcs
<1>7. CASE RecordWork \/ RecordCommandStopped \/ RecordVerifyStopped \/ RecordMalformed
  BY <1>6, <1>7 DEF RecordWork, RecordCommandStopped, RecordVerifyStopped,
     RecordMalformed, Record
<1>8. ASSUME NEW o \in BOOLEAN, NEW a \in BOOLEAN, RecordCommandResult(o, a)
      PROVE  SessionInv' /\ [Lifecycle!Next]_LifecycleVars
  BY <1>6, <1>8 DEF RecordCommandResult, Record
<1>9. ASSUME NEW v \in {"pass", "repair"}, RecordVerdict(v)
      PROVE  SessionInv' /\ [Lifecycle!Next]_LifecycleVars
  BY <1>6, <1>9 DEF RecordVerdict, Record
<1>10. CASE Finish \/ Fail
  <2>1. /\ pc \in {"finish", "raise"} /\ pc' = "unbind" /\ status' \in Terminal
        /\ UNCHANGED <<pending, reader>>
    BY <1>10 DEF Finish, Fail, SetStatus, Terminal
  <2>2. /\ status # "queued" /\ pending # "checkpoint"
    BY <2>1 DEF JInv, SessionInv, PanelIsLive
  <2>3. /\ "checkpoint" \notin Waiters /\ Waiters' = Waiters
        /\ RunOver = FALSE /\ RunOver' = TRUE
    BY <2>1, WaitersAre, WaitersAreNext DEF InHandler, RunOver
  <2>4. Lifecycle!Next
    BY <2>1, <2>2, <2>3 DEF Lifecycle!End, Lifecycle!Next, Terminal
  <2>5. QED
    BY <2>1, <2>2, <2>4 DEF JInv, SessionInv, PanelIsLive, Terminal, InHandler
<1>11. CASE Unbind \/ Close
  <2>1. /\ UNCHANGED <<status, pending, reader>> /\ pc \in OverPcs /\ pc' \in OverPcs
    BY <1>11 DEF Unbind, Close, BindInterrupt, OverPcs
  <2>2. QED
    BY <2>1, QuietStep DEF InHandler
<1>12. QED
  BY <1>1, <1>2, <1>3, <1>4, <1>5, <1>7, <1>8, <1>9, <1>10, <1>11 DEF RunnerStep

\* Every step of every thread is a step of the lifecycle, or leaves it alone.
LEMMA LifecycleStep ==
  ASSUME JInv, [Next]_vars
  PROVE  SessionInv' /\ [Lifecycle!Next]_LifecycleVars
<1> USE DEF sdkVars, gatewayVars, sessionVars
<1>1. CASE RunnerStep
  BY <1>1, RunnerLifecycle
<1>2. CASE RequestApproval
  <2>1. /\ reader = "idle" /\ reader' \in {"waiting", "other"} /\ pending' = "approval"
        /\ status' = "waitingForApproval" /\ pc' = pc
    BY <1>2 DEF RequestApproval, ReaderTakeApproval, EnterWait
  <2>2. pc # "queued" /\ status # "queued"
    BY <2>1 DEF JInv, SessionInv, IInv, TurnProtocol, Connection, Before
  <2>3. /\ "approval" \notin Waiters /\ Waiters' = Waiters \cup {"approval"}
        /\ RunOver' = RunOver
    BY <2>1, WaitersAre, WaitersAreNext DEF InHandler, RunOver
  <2>4. Lifecycle!Next
    BY <2>1, <2>2, <2>3 DEF Lifecycle!Ask, Lifecycle!Next
  <2>5. QED
    BY <2>1, <2>2, <2>4 DEF SessionInv, PanelIsLive, InHandler
<1>3. CASE ApprovalResolved
  <2>1. /\ InHandler /\ reader' \in {"idle", "dead"} /\ pending' = "none"
        /\ status' = "running" /\ pc' = pc
    BY <1>3 DEF ApprovalResolved, ReaderAnswer, FailAll, LeaveWait
  <2>2. pc # "queued"
    BY <2>1 DEF JInv, IInv, TurnProtocol, Connection, Before, InHandler
  <2>3. /\ "approval" \in Waiters /\ Waiters' = Waiters \ {"approval"}
        /\ RunOver' = RunOver
    BY <2>1, WaitersAre, WaitersAreNext DEF InHandler, RunOver
  <2>4. Lifecycle!Next
    BY <2>1, <2>3 DEF Lifecycle!Resolve, Lifecycle!Next
  <2>5. QED
    BY <2>1, <2>2, <2>4 DEF SessionInv, PanelIsLive
<1>4. CASE ReaderStep
  <2>1. UNCHANGED <<status, pending, pc>> /\ reader = "idle" /\ reader' \in {"idle", "dead"}
    BY <1>4 DEF ReaderStep, ReaderRoute, ReaderAnswerUnknown, ReaderEof, FailAll
  <2>2. QED
    BY <2>1, QuietStep DEF InHandler
<1>5. CASE ServerStep \/ ServerExit \/ Over \/ UNCHANGED vars
  <2>1. UNCHANGED <<status, pending, pc, reader>>
    BY <1>5 DEF ServerStep, ServerExit, Over, vars
  <2>2. QED
    BY <2>1, QuietStep DEF InHandler
<1>6. ASSUME NEW d \in Decisions, NEW f \in BOOLEAN, PostDecision(d, f)
      PROVE  SessionInv' /\ [Lifecycle!Next]_LifecycleVars
  BY <1>6, QuietStep DEF PostDecision, Decide, InHandler
<1>7. ASSUME NEW h \in Stoppers, Stop(h)
      PROVE  SessionInv' /\ [Lifecycle!Next]_LifecycleVars
  <2>1. UNCHANGED <<status, pending, pc, reader>>
    BY <1>7 DEF Stop, RequestStop, StopInterrupt, StopReturned, StopRefused, StopPending,
                StopFetchCallback, Interrupt
  <2>2. QED
    BY <2>1, QuietStep DEF InHandler
<1>8. QED
  BY <1>1, <1>2, <1>3, <1>4, <1>5, <1>6, <1>7 DEF Next, Reader

\* A run starts where the lifecycle does.
LEMMA LifecycleInit == Init => SessionInv /\ Lifecycle!Init
<1> SUFFICES ASSUME Init PROVE SessionInv /\ Lifecycle!Init
  OBVIOUS
<1>1. pc = "queued" /\ status = "queued" /\ pending = "none" /\ reader = "dead"
  BY DEF Init, SessionInit, GatewayInit
<1>2. Waiters = {} /\ RunOver = FALSE
  BY <1>1, WaitersAre DEF InHandler, RunOver
<1>3. QED
  BY <1>1, <1>2 DEF SessionInv, PanelIsLive, Lifecycle!Init

\* Behind every panel a client is shown there is a thread that takes the answer,
\* whoever asked, whatever else waits, and though the app-server may die.
THEOREM PanelIsLiveHolds == Spec => []PanelIsLive
<1>1. TypeInv /\ TurnProtocol /\ SessionInv /\ [Next]_vars => SessionInv'
  BY LifecycleStep DEF JInv, IInv
<1>2. SessionInv => PanelIsLive
  BY DEF SessionInv
<1>3. Init => SessionInv
  BY LifecycleInit
<1>4. QED
  BY <1>1, <1>2, <1>3, ProtocolCorrect, PTL DEF Spec

\* A run is an implementation of the lifecycle, for every program, any number of
\* approvals of any thread, and a process that may die.
THEOREM Refinement == Spec => ImplementsLifecycle
<1>1. TypeInv /\ TurnProtocol /\ SessionInv /\ [Next]_vars =>
        SessionInv' /\ [Lifecycle!Next]_(Lifecycle!vars)
  BY LifecycleStep DEF JInv, IInv, Lifecycle!vars, LifecycleVars
<1>2. QED
  BY <1>1, LifecycleInit, ProtocolCorrect, PTL DEF Spec, ImplementsLifecycle, Lifecycle!Spec

-----------------------------------------------------------------------------
(* The stop flag                                                           *)

Oks == [type : {"ok"}, to : Callers]

\* Before the first turn no request has succeeded: _active_turn is never the 0
\* that stands for None while a turn is published.
FirstTurn ==
  turn = 0 => /\ turnStatus = "idle" /\ interrupters = <<>>
              /\ Free(wire, Oks) /\ \A c \in Callers : rpc[c] \notin {"ok", "accepted"}

\* From the registration of a turn to its end the gateway names that turn, and
\* a raised flag has been followed by a request that names it too.
FlagSent ==
  /\ pc \in {"selfInterrupt", "awaitTurn"} => activeTurn = turn /\ turn # 0
  /\ pc = "selfInterrupt" => target[Runner] = turn
  /\ FlagMeansInterruptSent

\* Steps that send no response keep FirstTurn.
LEMMA FirstTurnKept ==
  ASSUME TypeInv, FirstTurn, turn' = turn,
         turnStatus' = turnStatus \/ turnStatus' = "idle",
         interrupters' = interrupters \/ interrupters' = <<>>,
         wire' = wire \/ wire' = <<>> \/ (wire # <<>> /\ wire' = Tail(wire)),
         \A c \in Callers :
           /\ rpc'[c] = "ok" => rpc[c] = "ok" \/ (wire # <<>> /\ Head(wire).type = "ok")
           /\ rpc'[c] = "accepted" => rpc[c] = "accepted"
  PROVE  FirstTurn'
<1> SUFFICES ASSUME turn = 0
             PROVE  /\ turnStatus' = "idle" /\ interrupters' = <<>>
                    /\ Free(wire', Oks) /\ \A c \in Callers : rpc'[c] \notin {"ok", "accepted"}
  BY DEF FirstTurn
<1>0. wire \in Seq(Messages)
  BY DEF TypeInv, TypeOK, ServerTypeOK
<1>1. Free(wire, Oks) /\ turnStatus = "idle" /\ interrupters = <<>>
      /\ \A c \in Callers : rpc[c] \notin {"ok", "accepted"}
  BY DEF FirstTurn
<1>2. wire # <<>> => Free(Tail(wire), Oks) /\ Head(wire) \notin Oks /\ Head(wire) \in Messages
  BY <1>0, <1>1, TailStream, HeadTailProperties
<1>3. \A m \in Messages : m.type = "ok" => m \in Oks
  BY DEF Messages, Approvals, OtherApprovals, Endings, Ended, Replies, Oks
<1>4. Free(wire', Oks)
  BY <1>1, <1>2, EmptyStream
<1> QED
  BY <1>1, <1>2, <1>3, <1>4

\* The app-server refuses everything until it has accepted a turn/start.
LEMMA FirstTurnServer ==
  ASSUME TypeInv, FirstTurn, Server
  PROVE  FirstTurn'
<1>0. turn \in Nat /\ wire \in Seq(Messages) /\ rpc \in [Callers -> Outstanding \cup Replies \cup {"idle"}]
  BY DEF TypeInv, TypeOK, ServerTypeOK
<1> SUFFICES ASSUME turn' = 0
             PROVE  /\ turnStatus' = "idle" /\ interrupters' = <<>>
                    /\ Free(wire', Oks) /\ \A c \in Callers : rpc'[c] \notin {"ok", "accepted"}
  BY DEF FirstTurn
<1>1. ~ServerStartTurn /\ turn = 0
  BY <1>0 DEF Server, ServerStartTurn, ServerRespondTurn, ServerRejectTurn, ServerTurnInterrupt,
              ServerAskApproval, ServerAskOther, ServerEndTurn, ServerAnswerInterrupt, ServerNotifyTurn
<1>2. Free(wire, Oks) /\ turnStatus = "idle" /\ interrupters = <<>>
      /\ \A c \in Callers : rpc[c] \notin {"ok", "accepted"}
  BY <1>1 DEF FirstTurn
<1>r. ~ServerRespondTurn /\ ~ServerAskOther
  BY <1>1, <1>2 DEF ServerRespondTurn, ServerAskOther, Callers
<1>3. PICK c \in Callers : (ServerRejectTurn /\ c = Runner) \/ ServerTurnInterrupt(c)
  BY <1>1, <1>2, <1>r DEF Server, ServerAskApproval, ServerEndTurn, ServerAnswerInterrupt,
                          ServerNotifyTurn, Ended, Callers
<1>4. PICK m : m = [type |-> "error", to |-> c]
  OBVIOUS
<1>5. m \in Messages /\ m \notin Oks
  BY <1>4 DEF Messages, Replies, Oks
<1>6. /\ wire' = Append(wire, m) /\ rpc' = [rpc EXCEPT ![c] = "parked"]
      /\ turnStatus' = turnStatus /\ interrupters' = interrupters
  BY <1>2, <1>3, <1>4 DEF ServerRejectTurn, ServerTurnInterrupt, Put
<1>7. Free(wire', Oks)
  BY <1>0, <1>2, <1>5, <1>6, AppendStream
<1> QED
  BY <1>0, <1>2, <1>6, <1>7

\* No thread makes FirstTurn false.
LEMMA FirstTurnStep ==
  ASSUME TypeInv, FirstTurn, [Next]_vars
  PROVE  FirstTurn'
<1>0. rpc \in [Callers -> Outstanding \cup Replies \cup {"idle"}] /\ Runner \in Callers
  BY DEF TypeInv, TypeOK, ServerTypeOK, Callers
<1>1. CASE UNCHANGED serverVars
  BY <1>1, FirstTurnKept DEF serverVars
<1>2. ASSUME NEW c \in Callers, NEW method \in {"turnStart", "turnInterrupt"}, NEW t,
             Send(c, method, t)
      PROVE  FirstTurn'
  BY <1>0, <1>2, FirstTurnKept DEF Send
<1>3. ASSUME NEW c \in Callers, Forget(c) PROVE FirstTurn'
  BY <1>0, <1>3, FirstTurnKept DEF Forget
<1>4. CASE ServerGone
  BY <1>4, FirstTurnKept DEF ServerGone
<1>5. CASE Server
  BY <1>5, FirstTurnServer
<1>6. CASE ReaderRoute
  <2>1. /\ Head(wire).type = "ok" \/ \A c \in Callers : rpc'[c] = "ok" => rpc[c] = "ok"
        /\ \A c \in Callers : rpc'[c] = "accepted" => rpc[c] = "accepted"
    BY <1>0, <1>6 DEF ReaderRoute, Replies
  <2> QED
    BY <1>6, <2>1, FirstTurnKept DEF ReaderRoute
<1>7. CASE ReaderTakeApproval \/ ReaderAnswerUnknown
  BY <1>7, FirstTurnKept DEF ReaderTakeApproval, ReaderAnswerUnknown, Answered, ServerApprovalAnswered
<1>8. CASE ReaderAnswer(Resolution.decision) \/ ReaderEof(pc = "done")
  BY <1>0, <1>8, FirstTurnKept DEF ReaderAnswer, ReaderEof, FailAll, Answered, ServerApprovalAnswered
<1>9. CASE Connect
  BY <1>9, FirstTurnKept DEF Connect
<1>10. CASE RunnerStep
  BY <1>0, <1>1, <1>2, <1>3, <1>4, <1>9, <1>10
     DEF RunnerStep, Begin, Bind, Setup, AskCheckpoint, LeaveCheckpoint, StartTurn, TurnStarted,
         ActivateTurn, SelfInterruptReturned, TurnRequestFailed, TurnEnded, FinishTurn, RecordWork,
         RecordCommandStopped, RecordCommandResult, RecordVerifyStopped, RecordVerdict,
         RecordMalformed, Finish, Fail, Unbind, Close, sdkVars
<1>11. CASE Reader
  BY <1>6, <1>7, <1>8, <1>11 DEF Reader, RequestApproval, ApprovalResolved, ReaderStep
<1>12. ASSUME NEW h \in Stoppers, Stop(h) PROVE FirstTurn'
  BY <1>1, <1>2, <1>3, <1>12 DEF Stop, RequestStop, StopInterrupt, StopReturned,
     Interrupt, sdkVars, Callers
<1>13. CASE ServerStep \/ ServerExit
  BY <1>4, <1>5, <1>13 DEF ServerStep, ServerExit
<1>14. CASE (\E d \in Decisions, f \in BOOLEAN : PostDecision(d, f)) \/ Over \/ UNCHANGED vars
  BY <1>1, <1>14 DEF PostDecision, Over, vars, sdkVars
<1> QED
  BY <1>10, <1>11, <1>12, <1>13, <1>14 DEF Next

\* Steps that neither begin nor interrupt a turn keep FlagSent.
LEMMA FlagKept ==
  ASSUME FlagSent, UNCHANGED <<turn, target, activeTurn, interruptRequested>>,
         pc' = pc \/ pc' \notin {"selfInterrupt", "awaitTurn"}
  PROVE  FlagSent'
BY DEF FlagSent, FlagMeansInterruptSent

\* Whoever raises _interrupt_requested while a turn is published sends
\* turn/interrupt for it, and run_turn sends it for a flag raised earlier.
LEMMA FlagStep ==
  ASSUME IInv, FirstTurn, FlagSent, [Next]_vars
  PROVE  FlagSent'
<1>0. /\ rpc \in [Callers -> Outstanding \cup Replies \cup {"idle"}] /\ target \in [Callers -> Nat]
      /\ turn \in Nat /\ interruptRequested \in BOOLEAN /\ Runner \in Callers
  BY DEF IInv, TypeInv, TypeOK, ServerTypeOK, GatewayTypeOK, Callers
<1>1. CASE StartTurn
  BY <1>1 DEF StartTurn, Goto, FlagSent, FlagMeansInterruptSent
<1>2. CASE TurnStarted
  <2>1. turn # 0 /\ turn' = turn /\ activeTurn' = turn /\ interruptRequested' = interruptRequested
    BY <1>0, <1>2 DEF TurnStarted, ActivateTurn, Send, Forget, FirstTurn
  <2>2. CASE interruptRequested
    <3>1. pc' = "selfInterrupt" /\ target'[Runner] = turn
      BY <1>0, <1>2, <2>2 DEF TurnStarted, ActivateTurn, Send, Goto
    <3> QED
      BY <2>1, <3>1 DEF FlagSent, FlagMeansInterruptSent
  <2>3. CASE ~interruptRequested
    <3>1. pc' = "awaitTurn" /\ ~interruptRequested'
      BY <1>0, <1>2, <2>1, <2>3 DEF TurnStarted, Goto
    <3> QED
      BY <2>1, <3>1 DEF FlagSent, FlagMeansInterruptSent
  <2> QED
    BY <2>2, <2>3
<1>3. CASE SelfInterruptReturned
  <2>1. /\ UNCHANGED <<turn, target, activeTurn>> /\ pc = "selfInterrupt" /\ pc' = "awaitTurn"
    BY <1>3 DEF SelfInterruptReturned, Forget, gatewayVars, Goto
  <2> QED
    BY <1>0, <2>1 DEF FlagSent, FlagMeansInterruptSent
<1>4. CASE FinishTurn
  BY <1>4 DEF FinishTurn, Goto, FlagSent, FlagMeansInterruptSent
<1>5. ASSUME RunnerStep, ~StartTurn, ~TurnStarted, ~SelfInterruptReturned, ~FinishTurn PROVE FlagSent'
  <2>1. UNCHANGED <<turn, target, activeTurn, interruptRequested>>
    BY <1>5
       DEF RunnerStep, Begin, Bind, Setup, Connect, AskCheckpoint, LeaveCheckpoint, TurnRequestFailed,
           Forget, TurnEnded, RecordWork, RecordCommandStopped, RecordCommandResult,
           RecordVerifyStopped, RecordVerdict, RecordMalformed, Finish, Fail, Unbind, Close,
           ServerGone, sdkVars, serverVars, gatewayVars
  <2>2. pc' \notin {"selfInterrupt", "awaitTurn"}
    BY <1>5
       DEF RunnerStep, Begin, Bind, Setup, AskCheckpoint, LeaveCheckpoint, TurnRequestFailed,
           TurnEnded, RecordWork, RecordCommandStopped, RecordCommandResult, RecordVerifyStopped,
           RecordVerdict, RecordMalformed, Finish, Fail, Unbind, Close, Record, Goto
  <2> QED
    BY <2>1, <2>2, FlagKept
<1>6. CASE Reader
  BY <1>6, FlagKept
     DEF Reader, RequestApproval, ApprovalResolved, ReaderStep, ReaderRoute, ReaderTakeApproval,
         ReaderAnswerUnknown, ReaderAnswer, ReaderEof, FailAll, Answered, ServerApprovalAnswered, gatewayVars
<1>7. CASE ServerStep
  <2>1. CASE ServerStartTurn
    <3>1. pc = "turnStart" /\ pc' = pc
      BY <1>7, <2>1 DEF ServerStep, ServerStartTurn, IInv, TurnProtocol, OneReply
    <3> QED
      BY <3>1 DEF FlagSent, FlagMeansInterruptSent
  <2>2. CASE ~ServerStartTurn
    BY <1>7, <2>2, FlagKept
       DEF ServerStep, Server, ServerRespondTurn, ServerRejectTurn, ServerTurnInterrupt, ServerAskApproval,
           ServerAskOther,
           ServerEndTurn, ServerAnswerInterrupt, ServerNotifyTurn, gatewayVars
  <2> QED
    BY <2>1, <2>2
<1>8. ASSUME NEW h \in Stoppers, Stop(h) PROVE FlagSent'
  <2>1. CASE RequestStop(h) \/ StopReturned(h)
    BY <2>1, FlagKept DEF RequestStop, StopReturned, Forget, sdkVars, serverVars,
       gatewayVars
  <2>2. CASE StopInterrupt(h)
    <3>1. CASE activeTurn = 0
      <4>1. /\ UNCHANGED <<turn, target, activeTurn, pc>>
        BY <2>2, <3>1 DEF StopInterrupt, Interrupt, serverVars
      <4>2. pc \notin {"selfInterrupt", "awaitTurn"}
        BY <3>1 DEF FlagSent
      <4> QED
        BY <4>1, <4>2 DEF FlagSent, FlagMeansInterruptSent
    <3>2. CASE activeTurn # 0
      <4>1. /\ UNCHANGED <<turn, activeTurn, pc>> /\ target' = [target EXCEPT ![h] = activeTurn]
        BY <2>2, <3>2 DEF StopInterrupt, Interrupt, Send
      <4>2. h \in Callers /\ h # Runner
        BY RunnerAssumption DEF Callers
      <4>3. target'[h] = activeTurn /\ target'[Runner] = target[Runner]
        BY <1>0, <4>1, <4>2
      <4> QED
        BY <4>1, <4>2, <4>3 DEF FlagSent, FlagMeansInterruptSent
    <3> QED
      BY <3>1, <3>2
  <2> QED
    BY <1>8, <2>1, <2>2 DEF Stop
<1>9. CASE ServerExit \/ (\E d \in Decisions, f \in BOOLEAN : PostDecision(d, f)) \/ Over \/ UNCHANGED vars
  BY <1>9, FlagKept DEF ServerExit, ServerGone, PostDecision, Over, vars, sdkVars,
     serverVars, gatewayVars
<1> QED
  BY <1>1, <1>2, <1>3, <1>4, <1>5, <1>6, <1>7, <1>8, <1>9 DEF Next

\* A stop is not lost between "no turn is active" and "the turn is active",
\* whenever it comes and however many threads ask for it: while run_turn waits
\* with the flag up, a turn/interrupt has been sent for that very turn.
THEOREM FlagHolds == Spec => []FlagMeansInterruptSent
<1>1. Init => FirstTurn /\ FlagSent
  <2> SUFFICES ASSUME Init PROVE FirstTurn /\ FlagSent
    OBVIOUS
  <2>1. \A c \in Callers : rpc[c] \notin {"ok", "accepted"}
    BY DEF Init, ServerInit
  <2> QED
    BY <2>1, EmptyStream DEF Init, ServerInit, GatewayInit, FirstTurn, FlagSent,
       FlagMeansInterruptSent
<1>2. TypeInv /\ TurnProtocol /\ FirstTurn /\ FlagSent /\ [Next]_vars => FirstTurn' /\ FlagSent'
  BY FirstTurnStep, FlagStep DEF IInv
<1>3. FlagSent => FlagMeansInterruptSent
  BY DEF FlagSent
<1> QED
  BY <1>1, <1>2, <1>3, ProtocolCorrect, PTL DEF Spec

-----------------------------------------------------------------------------
(* The receipt                                                             *)

\* The program is not over yet; the runner is inside run_turn.
Going == pc \notin {"finish"} \cup Failing
InTurn == pc \in TurnPcs \cup {"leaveTurn"}

\* The receipt has an entry for every phase before the current one.
Listed ==
  /\ Len(executions) + 1 = phase
  /\ \A i \in 1..Len(executions) : executions[i].phase = i
  /\ \A i \in 1..Len(executions) - 1 : executions[i].status # "stopped"
  /\ Going => \A i \in 1..Len(executions) : executions[i].status # "stopped"

\* completion_status stays "completed" only over phases that allow it.
Completing ==
  /\ completion = "completed" =>
       \A i \in 1..Len(executions) :
         /\ executions[i].status # "stopped"
         /\ program[i].stopOnFailure => executions[i].status # "fail"
  /\ completion = "completed" /\ (pc = "finish" \/ status = "completed") => phase = Len(program) + 1
  /\ status = "completed" => pc \in OverPcs

\* Feedback that waits for a prompt is not in one yet.
Undelivered ==
  /\ FeedbackOnce
  /\ feedback < phase
  /\ \A i \in 1..Len(deliveries) : deliveries[i].from < phase
  /\ Going /\ ~(InTurn /\ Kind \in {"work", "verify"}) =>
       \A i \in 1..Len(deliveries) : deliveries[i].from # feedback \/ feedback = 0

\* Membership in a list of turns.
Has(s, t) == \E k \in 1..Len(s) : s[k] = t

\* Every turn of the receipt has one owner, and owners come in order.
Accounts ==
  /\ \A k \in 1..Len(turnIds) : turnIds[k] = k
  /\ \A t \in 1..Len(turnIds) :
       Has(phaseTurns, t) \/ \E i \in 1..Len(executions) : Has(executions[i].turns, t)
  /\ \A t : Has(phaseTurns, t) => t \in 1..Len(turnIds)
  /\ \A i \in 1..Len(executions) : \A t : Has(executions[i].turns, t) =>
       /\ t \in 1..Len(turnIds)
       /\ \A u : Has(phaseTurns, u) => u > t
       /\ \A j \in 1..Len(executions) : \A u : j > i /\ Has(executions[j].turns, u) => u > t

\* The runner's turn/start has been accepted and the runner has not seen it yet.
RunnerOks == [type : {"ok"}, to : {Runner}]
Granted == rpc[Runner] \in {"ok", "accepted"} \/ ~Free(wire, RunnerOks)

\* The app-server has started the turns the receipt lists, and the current one.
Counted ==
  /\ Going /\ ~InTurn => turn = Len(turnIds)
  /\ pc \in {"selfInterrupt", "awaitTurn", "leaveTurn"} => turn = Len(turnIds) + 1
  /\ pc = "turnStart" =>
       /\ turn \in {Len(turnIds), Len(turnIds) + 1}
       /\ rpc[Runner] = "turnStart" => turn = Len(turnIds)
       /\ Granted => turn = Len(turnIds) + 1
       /\ Free(interrupters, {Runner})

\* The slots used up when a phase has had a turns.
Taken(a) == {s \in Slots(program) : s[1] < phase \/ (s[1] = phase /\ s[2] <= a)}

\* Every turn listed takes a slot of its own, and the next one has a slot left.
Bounded ==
  /\ InTurn \/ pc = "record" => Kind # "checkpoint"
  /\ Going /\ Kind # "checkpoint" => attempt + 1 <= TurnsOf(program[phase])
  /\ Going /\ pc # "record" => Len(turnIds) <= Cardinality(Taken(attempt))
  /\ pc = "record" => Len(turnIds) <= Cardinality(Taken(attempt + 1))

Results == {"pass", "stopped", "fail", "repair"}

\* A phase is recorded.
RecordStep(result, stop, text) ==
  /\ pc \in {"record", "checkpoint"}
  /\ Record(result, stop, text)
  /\ UNCHANGED <<program, turnIds, deliveries, sdkVars>>
  /\ status' \in {status, "running"}
  /\ result = "stopped" => stop
  /\ feedback' \in {feedback, 0, phase}
  /\ completion' = "completed" =>
       /\ completion = "completed" /\ result # "stopped" /\ ~stop
       /\ program[phase].stopOnFailure => result # "fail"

\* A verdict asks for another turn of the same phase and gets it.
RepairStep == RecordVerdict("repair") /\ attempt < program[phase].maxRepairs

\* The runner moves within a phase, or another thread moves.
MoveStep ==
  /\ UNCHANGED <<program, phase, executions, completion>>
  /\ Going' => Going
  /\ pc' = "finish" => pc = "finish"
  /\ status' = "completed" => \/ status = "completed" /\ (pc \in OverPcs => pc' \in OverPcs)
                              \/ pc = "finish" /\ pc' = "unbind"
  /\ \/ StartTurn \/ FinishTurn
     \/ /\ UNCHANGED <<feedback, deliveries, turnIds, phaseTurns>>
        /\ Going' => (InTurn' <=> InTurn)
        /\ RepairStep \/ (attempt' = attempt /\ (Going' => (pc' = "record" <=> pc = "record")))

\* As far as the receipt goes, a step records a phase or moves within one.
LEMMA StepKinds ==
  ASSUME TypeInv, [Next]_vars
  PROVE  \/ MoveStep
         \/ \E result \in Results, stop \in BOOLEAN, text \in BOOLEAN : RecordStep(result, stop, text)
<1> DEFINE Recorded == \E result \in Results, stop \in BOOLEAN, text \in BOOLEAN :
                         RecordStep(result, stop, text)
<1> USE DEF Results
<1>1. ASSUME UNCHANGED <<program, phase, executions, completion, feedback, deliveries, turnIds, phaseTurns,
                         attempt>>,
             pc' \notin {"finish", "record"}, pc = "record" => ~Going',
             Going' => Going /\ (InTurn' <=> InTurn),
             status' # "completed" \/ (status' = status /\ pc \notin OverPcs)
      PROVE  MoveStep
  BY <1>1 DEF MoveStep
<1>a. CASE Begin \/ Bind \/ Setup \/ AskCheckpoint \/ RecordMalformed
  <2>1. /\ UNCHANGED receiptVars
        /\ pc' \notin {"finish", "record"} /\ (pc = "record" => ~Going')
        /\ Going' => Going /\ (InTurn' <=> InTurn)
        /\ status' # "completed" \/ (status' = status /\ pc \notin OverPcs)
    BY <1>a DEF Begin, Bind, Setup, AskCheckpoint, RecordMalformed, Going, InTurn,
       TurnPcs, Failing,
                OverPcs, Goto, sessionVars, SetStatus, BindInterrupt, EnterWait
  <2> QED
    BY <1>1, <2>1 DEF receiptVars
<1>b. CASE TurnStarted \/ SelfInterruptReturned \/ TurnRequestFailed
  <2>1. /\ UNCHANGED receiptVars /\ UNCHANGED status
        /\ pc \in {"turnStart", "selfInterrupt"} /\ pc' \in {"selfInterrupt", "awaitTurn", "raise"}
    BY <1>b DEF TurnStarted, SelfInterruptReturned, TurnRequestFailed, Goto, sessionVars
  <2> QED
    BY <1>1, <2>1 DEF receiptVars, Going, InTurn, TurnPcs, Failing, OverPcs
<1>c. CASE TurnEnded
  <2>1. /\ UNCHANGED <<program, phase, executions, completion, feedback, deliveries, turnIds, phaseTurns,
                       attempt, status>>
        /\ pc = "awaitTurn" /\ pc' = "leaveTurn"
    BY <1>c DEF TurnEnded, Goto, sessionVars
  <2> QED
    BY <1>1, <2>1 DEF Going, InTurn, TurnPcs, Failing, OverPcs
<1>d. CASE StartTurn \/ FinishTurn
  <2>1. /\ UNCHANGED <<program, phase, executions, completion, attempt, status>>
        /\ pc \in {"phase", "leaveTurn"} /\ pc' \in {"turnStart", "raise", "record"}
    BY <1>d DEF StartTurn, FinishTurn, Goto, sessionVars
  <2> QED
    BY <1>d, <2>1 DEF MoveStep, Going, Failing, OverPcs
<1>2. CASE Finish \/ Fail \/ Unbind \/ Close
  <2>1. /\ UNCHANGED receiptVars
        /\ pc \in {"finish", "raise", "unbind", "close"} /\ pc' \in OverPcs
        /\ status' = "completed" => status = "completed" \/ (pc = "finish" /\ pc' = "unbind")
    BY <1>2 DEF OverPcs, Goto, Finish, Fail, Unbind, Close, sessionVars, SetStatus,
       BindInterrupt
  <2> QED
    BY <2>1 DEF MoveStep, Going, Failing, InTurn, TurnPcs, OverPcs, receiptVars
<1>3. CASE LeaveCheckpoint
  <2>1. Resolution.feedback \in BOOLEAN
    BY DEF TypeInv, TypeOK, SessionTypeOK, Resolution, Resolutions, NoDecision
  <2>2. CASE Resolution.decision \in Accepting
    <3>1. RecordStep("pass", FALSE, Resolution.feedback)
      BY <1>3, <2>2 DEF LeaveCheckpoint, RecordStep, LeaveWait
    <3> QED
      BY <2>1, <3>1
  <2>3. CASE Resolution.decision \notin Accepting
    <3>1. RecordStep("stopped", TRUE, Resolution.feedback)
      BY <1>3, <2>3 DEF LeaveCheckpoint, RecordStep, LeaveWait
    <3> QED
      BY <2>1, <3>1
  <2> QED
    BY <2>2, <2>3
<1>4. CASE RecordWork
  <2>1. PICK b \in BOOLEAN : b = (outcome = "completed")
    OBVIOUS
  <2>2. RecordStep(IF b THEN "pass" ELSE "stopped", ~b, FALSE)
    BY <1>4, <2>1 DEF RecordWork, RecordStep, sessionVars
  <2> QED
    BY <2>1, <2>2
<1>5. CASE RecordCommandStopped
  BY <1>5 DEF RecordCommandStopped, RecordStep, sessionVars
<1>6. CASE RecordVerifyStopped
  BY <1>6 DEF RecordVerifyStopped, RecordStep, sessionVars
<1>7. ASSUME NEW observed \in BOOLEAN, NEW agrees \in BOOLEAN, RecordCommandResult(observed, agrees)
      PROVE  Recorded
  <2>1. PICK b \in BOOLEAN : b = (observed /\ agrees)
    OBVIOUS
  <2>2. PICK c \in BOOLEAN : c = (~b /\ program[phase].stopOnFailure)
    OBVIOUS
  <2>3. RecordStep(IF b THEN "pass" ELSE "fail", c, FALSE)
    BY <1>7, <2>1, <2>2 DEF RecordCommandResult, RecordStep, sessionVars
  <2> QED
    BY <2>1, <2>2, <2>3
<1>8. ASSUME NEW verdict \in {"pass", "repair"}, RecordVerdict(verdict) PROVE MoveStep \/ Recorded
  <2>1. CASE verdict = "repair" /\ attempt < program[phase].maxRepairs
    <3>1. /\ pc = "record" /\ pc' = "phase"
          /\ UNCHANGED <<program, phase, executions, completion, feedback, deliveries, turnIds, phaseTurns,
                         status>>
      BY <1>8, <2>1 DEF RecordVerdict, Goto, sessionVars
    <3> QED
      BY <1>8, <2>1, <3>1 DEF MoveStep, RepairStep, Going, Failing, InTurn, TurnPcs, OverPcs
  <2>2. CASE ~(verdict = "repair" /\ attempt < program[phase].maxRepairs)
    BY <1>8, <2>2 DEF RecordVerdict, RecordStep, sessionVars
  <2> QED
    BY <2>1, <2>2
<1>9. ASSUME UNCHANGED <<pc, receiptVars>>, status' # "completed" \/ status' = status PROVE MoveStep
  BY <1>9 DEF MoveStep, Going, InTurn, receiptVars
<1>10. CASE Reader \/ ServerStep \/ ServerExit
  <2>1. UNCHANGED <<pc, receiptVars>> /\ (status' # "completed" \/ status' = status)
    BY <1>10 DEF Reader, RequestApproval, ApprovalResolved, ReaderStep, ServerStep,
       ServerExit,
                 sessionVars, EnterWait, LeaveWait
  <2> QED
    BY <1>9, <2>1
<1>11. CASE \/ (\E d \in Decisions, f \in BOOLEAN : PostDecision(d, f)) \/ Over \/ UNCHANGED vars
            \/ \E h \in Stoppers : Stop(h)
  <2>1. UNCHANGED <<pc, receiptVars>> /\ status' = status
    BY <1>11 DEF PostDecision, Decide, Over, vars, Stop, RequestStop, StopInterrupt,
       StopReturned,
                 StopRefused, StopPending, StopFetchCallback, sessionVars
  <2> QED
    BY <1>9, <2>1
<1> QED
  BY <1>2, <1>3, <1>4, <1>5, <1>6, <1>7, <1>8, <1>10, <1>11, <1>a, <1>b, <1>c, <1>d
     DEF Next, RunnerStep

\* What recording a phase does to the receipt.
LEMMA Recorded ==
  ASSUME TypeInv, Listed, NEW result \in Results, NEW stop \in BOOLEAN, NEW text \in BOOLEAN,
         RecordStep(result, stop, text)
  PROVE  /\ phase \in Nat /\ phase >= 1 /\ Len(executions) = phase - 1 /\ Len(executions') = phase
         /\ \A i \in 1..phase - 1 : executions'[i] = executions[i]
         /\ executions'[phase].phase = phase /\ executions'[phase].status = result
         /\ executions'[phase].turns = phaseTurns
         /\ \A i : i \in 1..Len(executions') <=> i \in 1..phase - 1 \/ i = phase
         /\ phase' = phase + 1 /\ phaseTurns' = <<>> /\ attempt' = 0
         /\ pc' = "finish" \/ (pc' = "phase" /\ ~stop)
         /\ pc' = "finish" => stop \/ phase = Len(program)
<1>1. /\ phase \in Nat /\ phase >= 1 /\ executions \in Seq(Executions) /\ phaseTurns \in Seq(Nat)
  BY ProgramType DEF TypeInv, TypeOK
<1>2. Len(executions) \in Nat /\ Len(executions) = phase - 1
  BY <1>1 DEF Listed
<1>3. PICK e : e = [phase |-> phase, status |-> result, turns |-> phaseTurns, feedback |-> text]
  OBVIOUS
<1>4. e \in Executions
  BY <1>1, <1>3 DEF Executions, Results
<1>5. /\ executions' = Append(executions, e) /\ phase' = phase + 1 /\ attempt' = 0 /\ phaseTurns' = <<>>
      /\ pc' = IF stop \/ phase = Len(program) THEN "finish" ELSE "phase"
  BY <1>3 DEF RecordStep, Record, Goto
<1>6. /\ Len(executions') = Len(executions) + 1
      /\ \A i \in 1..Len(executions) : executions'[i] = executions[i]
      /\ executions'[Len(executions) + 1] = e
  BY <1>1, <1>4, <1>5, AppendProperties
<1>7. Len(executions) + 1 = phase
  BY <1>1, <1>2
<1> QED
  BY <1>1, <1>2, <1>3, <1>5, <1>6, <1>7

\* execute_phase_program appends its entries in the order of the program.
LEMMA ListedStep ==
  ASSUME TypeInv, Listed, [Next]_vars
  PROVE  Listed'
<1>1. CASE MoveStep
  BY <1>1 DEF MoveStep, Listed
<1>2. ASSUME NEW result \in Results, NEW stop \in BOOLEAN, NEW text \in BOOLEAN,
             RecordStep(result, stop, text)
      PROVE  Listed'
  <2>1. Going
    BY <1>2 DEF RecordStep, Going, Failing
  <2>2. \A i \in 1..phase - 1 : executions[i].phase = i /\ executions[i].status # "stopped"
    BY <1>2, <2>1, Recorded DEF Listed
  <2>3. Going' => result # "stopped"
    BY <1>2, Recorded DEF RecordStep, Going
  <2>4. \A i \in 1..Len(executions') : executions'[i].phase = i
    BY <1>2, <2>2, Recorded
  <2>5. \A i \in 1..Len(executions') - 1 : executions'[i].status # "stopped"
    BY <1>2, <2>2, Recorded
  <2>6. Going' => \A i \in 1..Len(executions') : executions'[i].status # "stopped"
    BY <1>2, <2>2, <2>3, Recorded
  <2>7. Len(executions') + 1 = phase'
    BY <1>2, Recorded
  <2> QED
    BY <2>4, <2>5, <2>6, <2>7 DEF Listed
<1> QED
  BY <1>1, <1>2, StepKinds

\* completion_status is lowered whenever a phase stops the program.
LEMMA CompletingStep ==
  ASSUME TypeInv, Listed, Completing, [Next]_vars
  PROVE  Completing'
<1>1. CASE MoveStep
  <2>1. status' = "completed" => pc' \in OverPcs
    BY <1>1 DEF MoveStep, Completing, OverPcs
  <2>2. completion' = "completed" /\ (pc' = "finish" \/ status' = "completed") => phase' = Len(program') + 1
    BY <1>1 DEF MoveStep, Completing
  <2> QED
    BY <1>1, <2>1, <2>2 DEF MoveStep, Completing
<1>2. ASSUME NEW result \in Results, NEW stop \in BOOLEAN, NEW text \in BOOLEAN,
             RecordStep(result, stop, text)
      PROVE  Completing'
  <2>1. status' # "completed" /\ program' = program
    BY <1>2 DEF RecordStep, Completing, OverPcs
  <2>2. completion' = "completed" =>
          /\ completion = "completed" /\ result # "stopped" /\ ~stop
          /\ program[phase].stopOnFailure => result # "fail"
    BY <1>2 DEF RecordStep
  <2>3. completion' = "completed" =>
          \A i \in 1..phase - 1 : /\ executions[i].status # "stopped"
                                  /\ program[i].stopOnFailure => executions[i].status # "fail"
    BY <1>2, <2>2, Recorded DEF Completing
  <2>4. completion' = "completed" =>
          \A i \in 1..Len(executions') : /\ executions'[i].status # "stopped"
                                         /\ program[i].stopOnFailure => executions'[i].status # "fail"
    BY <1>2, <2>2, <2>3, Recorded
  <2>5. completion' = "completed" /\ pc' = "finish" => phase' = Len(program) + 1
    BY <1>2, <2>2, Recorded
  <2> QED
    BY <2>1, <2>4, <2>5 DEF Completing
<1> QED
  BY <1>1, <1>2, StepKinds

\* Recording a phase, starting a turn and leaving it keep each text to one prompt.
LEMMA UndeliveredStep ==
  ASSUME TypeInv, Undelivered, [Next]_vars
  PROVE  Undelivered'
<1>0. /\ phase \in Nat /\ phase >= 1 /\ feedback \in Nat
      /\ deliveries \in Seq([from : Nat, to : Nat]) /\ Len(deliveries) \in Nat
  BY ProgramType, LenProperties DEF TypeInv, TypeOK
<1>d. \A i \in 1..Len(deliveries) : deliveries[i].from \in Nat
  <2>1. \A i \in 1..Len(deliveries) : deliveries[i] \in [from : Nat, to : Nat]
    BY <1>0, ElementOfSeq
  <2> QED
    BY <2>1
<1>1. ASSUME NEW result \in Results, NEW stop \in BOOLEAN, NEW text \in BOOLEAN,
             RecordStep(result, stop, text)
      PROVE  Undelivered'
  <2>1. /\ Going /\ ~InTurn /\ deliveries' = deliveries
        /\ feedback' \in {feedback, 0, phase} /\ phase' = phase + 1
        /\ ~InTurn'
    BY <1>1 DEF RecordStep, Record, Goto, Going, Failing, InTurn, TurnPcs
  <2> QED
    BY <1>0, <1>d, <2>1 DEF Undelivered, FeedbackOnce
<1>2. CASE MoveStep /\ ~StartTurn /\ ~FinishTurn
  <2>1. /\ UNCHANGED <<program, phase, feedback, deliveries>>
        /\ Going' => Going /\ (InTurn' <=> InTurn)
    BY <1>2 DEF MoveStep
  <2> QED
    BY <2>1 DEF Undelivered, FeedbackOnce, Kind
<1>3. CASE FinishTurn
  <2>1. /\ Going /\ InTurn /\ UNCHANGED <<program, phase, deliveries>>
        /\ \/ ~Going' /\ feedback' = feedback
           \/ ~InTurn' /\ Kind = "command" /\ feedback' = feedback
           \/ ~InTurn' /\ feedback' = 0
    <3>1. /\ pc = "leaveTurn" /\ UNCHANGED <<program, phase, deliveries>>
          /\ \/ pc' = "raise" /\ feedback' = feedback
             \/ pc' = "record" /\ Kind = "command" /\ feedback' = feedback
             \/ pc' = "record" /\ feedback' = 0
      BY <1>3 DEF FinishTurn, Goto
    <3> QED
      BY <3>1 DEF Going, Failing, InTurn, TurnPcs
  <2> QED
    BY <1>0, <2>1 DEF Undelivered, FeedbackOnce, Kind
<1>4. CASE StartTurn
  <2>1. /\ Going /\ ~InTurn /\ InTurn' /\ UNCHANGED <<program, phase, feedback>>
    BY <1>4 DEF StartTurn, Goto, Going, Failing, InTurn, TurnPcs
  <2>2. CASE feedback # 0 /\ Kind \in {"work", "verify"}
    <3>1. PICK d \in [from : Nat, to : Nat] : d = [from |-> feedback, to |-> phase]
      BY <1>0
    <3>2. deliveries' = Append(deliveries, d) /\ d.from = feedback
      BY <1>4, <2>2, <3>1 DEF StartTurn
    <3>3. /\ Len(deliveries') = Len(deliveries) + 1
          /\ \A i \in 1..Len(deliveries) : deliveries'[i] = deliveries[i]
          /\ deliveries'[Len(deliveries) + 1] = d
      BY <1>0, <3>2, AppendProperties
    <3>4. \A i \in 1..Len(deliveries') : i \in 1..Len(deliveries) \/ i = Len(deliveries) + 1
      BY <1>0, <3>3
    <3>5. \A i \in 1..Len(deliveries) : deliveries[i].from # feedback
      BY <2>1, <2>2 DEF Undelivered
    <3>6. FeedbackOnce'
      BY <3>2, <3>3, <3>4, <3>5 DEF Undelivered, FeedbackOnce
    <3>7. \A i \in 1..Len(deliveries') : deliveries'[i].from < phase'
      BY <2>1, <3>2, <3>3, <3>4 DEF Undelivered
    <3> QED
      BY <2>1, <2>2, <3>6, <3>7 DEF Undelivered, Kind
  <2>3. CASE ~(feedback # 0 /\ Kind \in {"work", "verify"})
    <3>1. deliveries' = deliveries
      BY <1>4, <2>3 DEF StartTurn
    <3> QED
      BY <2>1, <2>3, <3>1 DEF Undelivered, FeedbackOnce, Kind
  <2> QED
    BY <2>2, <2>3
<1> QED
  BY <1>1, <1>2, <1>3, <1>4, StepKinds

\* A turn added to a list, and the empty list.
LEMMA HasAppend ==
  ASSUME NEW s \in Seq(Nat), NEW n \in Nat, NEW t
  PROVE  /\ Has(Append(s, n), t) <=> Has(s, t) \/ t = n
         /\ ~Has(<<>>, t)
<1>1. /\ Len(s) \in Nat /\ Len(Append(s, n)) = Len(s) + 1
      /\ \A i \in 1..Len(s) : Append(s, n)[i] = s[i]
      /\ Append(s, n)[Len(s) + 1] = n
  BY AppendProperties, LenProperties
<1>2. \A i : i \in 1..Len(s) + 1 <=> i \in 1..Len(s) \/ i = Len(s) + 1
  BY <1>1
<1> QED
  BY <1>1, <1>2 DEF Has

\* _record_turn adds a turn to the run and to the current phase alike.
LEMMA AccountsStep ==
  ASSUME TypeInv, Listed, Counted, Accounts, [Next]_vars
  PROVE  Accounts'
<1>0. /\ turnIds \in Seq(Nat) /\ phaseTurns \in Seq(Nat) /\ turn \in Nat /\ Len(turnIds) \in Nat
      /\ executions \in Seq(Executions)
  BY LenProperties DEF TypeInv, TypeOK, ServerTypeOK
<1>1. ASSUME NEW result \in Results, NEW stop \in BOOLEAN, NEW text \in BOOLEAN,
             RecordStep(result, stop, text)
      PROVE  Accounts'
  <2>1. /\ turnIds' = turnIds /\ phaseTurns' = <<>>
        /\ \A i : i \in 1..Len(executions') <=> i \in 1..Len(executions) \/ i = phase
        /\ \A i \in 1..Len(executions) : executions'[i] = executions[i] /\ i < phase
        /\ phase \notin 1..Len(executions) /\ executions'[phase].turns = phaseTurns
    BY <1>1, Recorded DEF RecordStep
  <2>2. \A t : ~Has(phaseTurns', t)
    BY <1>0, <2>1, HasAppend
  <2>3. \A t \in 1..Len(turnIds) : \E i \in 1..Len(executions') : Has(executions'[i].turns, t)
    BY <2>1 DEF Accounts
  <2>4. ASSUME NEW i \in 1..Len(executions'), NEW t, Has(executions'[i].turns, t)
        PROVE  /\ t \in 1..Len(turnIds)
               /\ \A j \in 1..Len(executions') : \A u : j > i /\ Has(executions'[j].turns, u) => u > t
    <3>1. CASE i = phase
      <4>1. \A j \in 1..Len(executions') : ~(j > i)
        BY <1>0, <1>1, <3>1, Recorded
      <4> QED
        BY <2>1, <2>4, <3>1, <4>1 DEF Accounts
    <3>2. CASE i \in 1..Len(executions)
      BY <2>1, <2>4, <3>2 DEF Accounts
    <3> QED
      BY <2>1, <3>1, <3>2
  <2> QED
    BY <2>1, <2>2, <2>3, <2>4 DEF Accounts
<1>2. CASE UNCHANGED <<turnIds, phaseTurns, executions>>
  BY <1>2 DEF Accounts
<1>3. CASE FinishTurn /\ outcome # "closed"
  <2>1. /\ turnIds' = Append(turnIds, turn) /\ phaseTurns' = Append(phaseTurns, turn)
        /\ executions' = executions /\ turn = Len(turnIds) + 1
    BY <1>3 DEF FinishTurn, Counted
  <2>2. /\ Len(turnIds') = Len(turnIds) + 1 /\ turnIds'[Len(turnIds) + 1] = turn
        /\ \A k \in 1..Len(turnIds) : turnIds'[k] = turnIds[k]
    BY <1>0, <2>1, AppendProperties
  <2>3. \A t : t \in 1..Len(turnIds') <=> t \in 1..Len(turnIds) \/ t = turn
    BY <1>0, <2>1, <2>2
  <2>4. \A t : Has(phaseTurns', t) <=> Has(phaseTurns, t) \/ t = turn
    BY <1>0, <2>1, HasAppend
  <2>5. \A k \in 1..Len(turnIds') : turnIds'[k] = k
    BY <2>1, <2>2, <2>3 DEF Accounts
  <2>6. \A t \in 1..Len(turnIds') :
          Has(phaseTurns', t) \/ \E i \in 1..Len(executions') : Has(executions'[i].turns, t)
    BY <2>1, <2>3, <2>4 DEF Accounts
  <2>7. \A t : Has(phaseTurns', t) => t \in 1..Len(turnIds')
    BY <2>3, <2>4 DEF Accounts
  <2>8. \A i \in 1..Len(executions) : \A t : Has(executions[i].turns, t) =>
          /\ t \in 1..Len(turnIds')
          /\ \A u : Has(phaseTurns', u) => u > t
    <3>1. \A t \in 1..Len(turnIds) : turn > t
      BY <1>0, <2>1
    <3>2. \A i \in 1..Len(executions) : \A t : Has(executions[i].turns, t) =>
            t \in 1..Len(turnIds) /\ \A u : Has(phaseTurns, u) => u > t
      BY DEF Accounts
    <3> QED
      BY <2>3, <2>4, <3>1, <3>2
  <2>9. \A i \in 1..Len(executions) : \A t : Has(executions[i].turns, t) =>
          \A j \in 1..Len(executions) : \A u : j > i /\ Has(executions[j].turns, u) => u > t
    BY DEF Accounts
  <2> QED
    BY <2>1, <2>5, <2>6, <2>7, <2>8, <2>9 DEF Accounts
<1>4. CASE StartTurn \/ (FinishTurn /\ outcome = "closed") \/ (MoveStep /\ ~StartTurn /\ ~FinishTurn)
  <2>1. UNCHANGED <<turnIds, phaseTurns, executions>>
    BY <1>4 DEF StartTurn, FinishTurn, MoveStep
  <2> QED
    BY <1>2, <2>1
<1> QED
  BY <1>1, <1>3, <1>4, StepKinds

\* Steps of the other threads that grant the runner nothing.
LEMMA CountedKept ==
  ASSUME Counted, UNCHANGED <<pc, turn, turnIds>>,
         pc = "turnStart" =>
           /\ rpc'[Runner] = "turnStart" => rpc[Runner] = "turnStart"
           /\ Granted' => Granted
           /\ Free(interrupters', {Runner})
  PROVE  Counted'
BY DEF Counted, Going, InTurn

\* Steps of the runner outside the request for a turn.
LEMMA CountedAside ==
  ASSUME Counted, UNCHANGED <<turn, turnIds>>, pc # "turnStart", pc' # "turnStart",
         Going' => Going /\ (InTurn' <=> InTurn)
  PROVE  Counted'
BY DEF Counted, Going, InTurn, TurnPcs, Failing

\* The app-server starts a turn only for a turn/start the runner waits for.
LEMMA CountedServer ==
  ASSUME IInv, Counted, Server, UNCHANGED <<pc, turnIds>>
  PROVE  Counted'
<1>0. /\ turn \in Nat /\ wire \in Seq(Messages) /\ Len(turnIds) \in Nat /\ Runner \in Callers
      /\ rpc \in [Callers -> Outstanding \cup Replies \cup {"idle"}] /\ interrupters \in Seq(Callers)
  BY LenProperties DEF IInv, TypeInv, TypeOK, ServerTypeOK, Callers
<1>k. ASSUME NEW type, NEW to, [type |-> type, to |-> to] \in Messages, Put(type, to),
             type # "ok" \/ to # Runner, UNCHANGED <<turn, interrupters>>,
             rpc'[Runner] = rpc[Runner] \/ rpc'[Runner] = "parked"
      PROVE  Counted'
  <2>1. [type |-> type, to |-> to] \notin RunnerOks
    BY <1>k DEF RunnerOks
  <2>2. Free(wire, RunnerOks) => Free(wire', RunnerOks)
    BY <1>0, <1>k, <2>1, PutStream
  <2> QED
    BY <1>k, <2>2, CountedKept DEF Granted, Counted
<1>1. CASE ServerStartTurn
  <2>1. pc = "turnStart" /\ turn = Len(turnIds) /\ Free(interrupters, {Runner})
    BY <1>1 DEF ServerStartTurn, IInv, TurnProtocol, OneReply, Counted
  <2>2. turn' = Len(turnIds) + 1 /\ rpc'[Runner] = "accepted" /\ interrupters' = interrupters
    BY <1>0, <1>1, <2>1 DEF ServerStartTurn
  <2> QED
    BY <2>1, <2>2 DEF Counted, InTurn, TurnPcs
<1>r. CASE ServerRespondTurn
  <2>1. pc = "turnStart" /\ turn = Len(turnIds) + 1 /\ Free(interrupters, {Runner})
    BY <1>r DEF ServerRespondTurn, IInv, TurnProtocol, OneReply, Counted, Granted
  <2>2. turn' = turn /\ rpc'[Runner] = "parked" /\ interrupters' = interrupters
    BY <1>0, <1>r DEF ServerRespondTurn
  <2> QED
    BY <2>1, <2>2 DEF Counted, InTurn, TurnPcs
<1>2. CASE ServerRejectTurn
  <2>1. [type |-> "error", to |-> Runner] \in Messages
    BY <1>0 DEF Messages, Replies
  <2> QED
    BY <1>0, <1>2, <1>k, <2>1 DEF ServerRejectTurn
<1>3. ASSUME NEW c \in Callers, ServerTurnInterrupt(c) PROVE Counted'
  <2>1. [type |-> "error", to |-> c] \in Messages
    BY DEF Messages, Replies
  <2>2. turn' = turn /\ (rpc'[Runner] = rpc[Runner] \/ rpc'[Runner] = "parked")
    BY <1>0, <1>3 DEF ServerTurnInterrupt
  <2>3. CASE Put("error", c) /\ interrupters' = interrupters
    BY <1>k, <2>1, <2>2, <2>3
  <2>4. CASE wire' = wire /\ interrupters' = Append(interrupters, c)
    <3>1. pc = "turnStart" => c # Runner
      BY <1>3 DEF ServerTurnInterrupt, IInv, TurnProtocol, OneReply
    <3>2. pc = "turnStart" => Free(interrupters', {Runner})
      BY <1>0, <2>4, <3>1, AppendStream DEF Counted
    <3> QED
      BY <2>2, <2>4, <3>2, CountedKept DEF Granted
  <2> QED
    BY <1>3, <2>3, <2>4 DEF ServerTurnInterrupt
<1>4. CASE ServerAskApproval
  <2>1. [type |-> "approval", to |-> Runner] \in Messages
    BY DEF Messages, Approvals
  <2> QED
    BY <1>4, <1>k, <2>1 DEF ServerAskApproval
<1>a. CASE ServerAskOther
  <2>1. [type |-> "otherApproval", to |-> Runner] \in Messages
    BY DEF Messages, OtherApprovals
  <2> QED
    BY <1>a, <1>k, <2>1 DEF ServerAskOther
<1>5. ASSUME NEW how \in Ended, ServerEndTurn(how) PROVE Counted'
  BY <1>5, CountedKept DEF ServerEndTurn, Counted, Granted
<1>6. CASE ServerAnswerInterrupt
  <2>1. Head(interrupters) \in Callers /\ Tail(interrupters) \in Seq(Callers)
    BY <1>0, <1>6, HeadTailProperties DEF ServerAnswerInterrupt
  <2>2. pc = "turnStart" => Head(interrupters) # Runner /\ Free(Tail(interrupters), {Runner})
    BY <1>0, <1>6, TailStream DEF ServerAnswerInterrupt, Counted
  <2>3. PICK h \in Callers : h = Head(interrupters)
    BY <2>1
  <2>4. [type |-> "ok", to |-> h] \in Messages
    BY DEF Messages, Replies
  <2>5. pc = "turnStart" => [type |-> "ok", to |-> h] \notin RunnerOks
    BY <2>2, <2>3 DEF RunnerOks
  <2>6. Put("ok", h) /\ UNCHANGED <<turn, rpc>> /\ interrupters' = Tail(interrupters)
    BY <1>6, <2>3 DEF ServerAnswerInterrupt
  <2>7. pc = "turnStart" => (Free(wire, RunnerOks) => Free(wire', RunnerOks))
    BY <1>0, <2>4, <2>5, <2>6, PutStream
  <2> QED
    BY <2>2, <2>6, <2>7, CountedKept DEF Granted
<1>7. CASE ServerNotifyTurn
  <2>1. [type |-> turnStatus, to |-> Runner] \in Messages /\ turnStatus # "ok"
    BY <1>7 DEF ServerNotifyTurn, Messages, Endings, Ended
  <2> QED
    BY <1>7, <1>k, <2>1 DEF ServerNotifyTurn
<1> QED
  BY <1>1, <1>2, <1>3, <1>4, <1>5, <1>6, <1>7, <1>a, <1>r DEF Server

\* The reader hands the runner only responses the app-server has written.
LEMMA CountedReader ==
  ASSUME IInv, Counted, UNCHANGED <<pc, turnIds>>,
         \/ ReaderRoute \/ ReaderTakeApproval \/ ReaderAnswerUnknown
         \/ ReaderAnswer(Resolution.decision) \/ ReaderEof(pc = "done")
  PROVE  Counted'
<1>0. /\ wire \in Seq(Messages) /\ Runner \in Callers
      /\ rpc \in [Callers -> Outstanding \cup Replies \cup {"idle"}]
  BY DEF IInv, TypeInv, TypeOK, ServerTypeOK, Callers
<1>1. wire # <<>> => /\ Head(wire) \in Messages
                     /\ Free(wire, RunnerOks) => Free(Tail(wire), RunnerOks) /\ Head(wire) \notin RunnerOks
  BY <1>0, TailStream, HeadTailProperties
<1>2. CASE ReaderRoute
  <2>1. rpc'[Runner] = "ok" => rpc[Runner] = "ok" \/ Head(wire) \in RunnerOks
    <3>1. \A m \in Messages : m.type = "ok" /\ m.to = Runner => m \in RunnerOks
      BY DEF Messages, Approvals, OtherApprovals, Endings, Ended, Replies, RunnerOks
    <3>2. rpc'[Runner] = "ok" => rpc[Runner] = "ok" \/ (Head(wire).type = "ok" /\ Head(wire).to = Runner)
      BY <1>0, <1>2 DEF ReaderRoute
    <3> QED
      BY <1>1, <1>2, <3>1, <3>2 DEF ReaderRoute
  <2>2. /\ rpc'[Runner] = "turnStart" => rpc[Runner] = "turnStart"
        /\ rpc'[Runner] = "accepted" => rpc[Runner] = "accepted"
    BY <1>0, <1>2 DEF ReaderRoute, Replies
  <2> QED
    BY <1>1, <1>2, <2>1, <2>2, CountedKept DEF ReaderRoute, Granted, Counted
<1>3. CASE ReaderTakeApproval \/ ReaderAnswerUnknown
  BY <1>1, <1>3, CountedKept DEF ReaderTakeApproval, ReaderAnswerUnknown, Answered,
                                 ServerApprovalAnswered, Granted, Counted
<1>4. CASE FailAll /\ UNCHANGED <<turn, interrupters>>
  <2>1. Free(wire', RunnerOks)
    BY <1>4, EmptyStream DEF FailAll
  <2>2. /\ rpc'[Runner] = "ok" => rpc[Runner] = "ok"
        /\ rpc'[Runner] \notin {"turnStart", "accepted"}
    BY <1>0, <1>4 DEF FailAll, Outstanding
  <2> QED
    BY <1>4, <2>1, <2>2, CountedKept DEF Granted, Counted
<1>5. CASE up /\ ReaderAnswer(Resolution.decision)
  BY <1>5, CountedKept DEF ReaderAnswer, Answered, ServerApprovalAnswered, Granted, Counted
<1>6. CASE (~up /\ ReaderAnswer(Resolution.decision)) \/ ReaderEof(pc = "done")
  BY <1>4, <1>6 DEF ReaderAnswer, ReaderEof
<1> QED
  BY <1>2, <1>3, <1>5, <1>6

\* Every thread keeps the two counts of turns together.
LEMMA CountedStep ==
  ASSUME IInv, Counted, [Next]_vars
  PROVE  Counted'
<1>0. /\ turn \in Nat /\ turnIds \in Seq(Nat) /\ Len(turnIds) \in Nat /\ Runner \in Callers
      /\ rpc \in [Callers -> Outstanding \cup Replies \cup {"idle"}] /\ wire \in Seq(Messages)
  BY LenProperties DEF IInv, TypeInv, TypeOK, ServerTypeOK, Callers
<1>1. CASE \/ Begin \/ Bind \/ AskCheckpoint \/ LeaveCheckpoint \/ RecordWork \/ RecordCommandStopped
           \/ (\E observed, agrees \in BOOLEAN : RecordCommandResult(observed, agrees))
           \/ RecordVerifyStopped \/ (\E verdict \in {"pass", "repair"} : RecordVerdict(verdict))
           \/ RecordMalformed \/ Finish \/ Fail \/ Unbind
  <2>1. /\ pc \notin TurnPcs \cup {"leaveTurn"} /\ pc' \notin TurnPcs \cup {"leaveTurn"}
        /\ pc \in Failing \cup {"finish"} => pc' \in Failing
        /\ UNCHANGED <<turn, turnIds>>
    BY <1>1 DEF Begin, Bind, AskCheckpoint, LeaveCheckpoint, RecordWork,
       RecordCommandStopped,
         RecordCommandResult, RecordVerifyStopped, RecordVerdict, RecordMalformed, Finish, Fail, Unbind,
         sdkVars, serverVars, receiptVars, Goto, Record, TurnPcs, Failing
  <2> QED
    BY <2>1, CountedAside DEF Going, InTurn, TurnPcs
<1>2. CASE Setup \/ Close
  <2>1. /\ pc \in {"setup", "close"} /\ pc' \in {"phase", "raise", "done"} /\ UNCHANGED <<turn, turnIds>>
        /\ pc = "close" => pc' = "done"
    BY <1>2 DEF Setup, Close, Connect, ServerGone, serverVars, receiptVars, Goto
  <2> QED
    BY <2>1, CountedAside DEF Going, InTurn, TurnPcs, Failing
<1>3. CASE StartTurn
  <2>1. /\ pc = "phase" /\ pc' = "turnStart" /\ UNCHANGED <<turn, turnIds, wire, interrupters>>
        /\ rpc'[Runner] \in {"turnStart", "error"}
    BY <1>0, <1>3 DEF StartTurn, Goto, Send
  <2>2. rpc[Runner] = "idle" /\ Free(wire, RunnerReplies) /\ Free(interrupters, {Runner})
    BY <2>1 DEF IInv, TurnProtocol, OneReply
  <2>3. Free(wire, RunnerOks)
    BY <2>2 DEF Free, RunnerOks, RunnerReplies, Replies
  <2> QED
    BY <2>1, <2>2, <2>3 DEF Counted, Granted, Going, InTurn, TurnPcs, Failing
<1>4. CASE TurnStarted
  <2>1. /\ turn = Len(turnIds) + 1
    BY <1>4 DEF TurnStarted, Counted, Granted
  <2>2. pc' \in {"selfInterrupt", "awaitTurn"} /\ UNCHANGED <<turn, turnIds>>
    BY <1>4 DEF TurnStarted, ActivateTurn, Send, Forget, Goto, receiptVars
  <2> QED
    BY <2>1, <2>2 DEF Counted, InTurn, TurnPcs
<1>5. CASE SelfInterruptReturned \/ TurnEnded
  <2>1. /\ pc \in {"selfInterrupt", "awaitTurn"} /\ pc' \in {"awaitTurn", "leaveTurn"}
        /\ UNCHANGED <<turn, turnIds>>
    BY <1>5 DEF SelfInterruptReturned, TurnEnded, Forget, Goto, receiptVars, sdkVars,
       serverVars
  <2> QED
    BY <2>1 DEF Counted, InTurn, TurnPcs
<1>6. CASE TurnRequestFailed
  BY <1>6 DEF TurnRequestFailed, Goto, Counted, Going, Failing
<1>7. CASE FinishTurn
  <2>1. turn = Len(turnIds) + 1 /\ turn' = turn
    BY <1>7 DEF FinishTurn, Counted, serverVars
  <2>2. CASE outcome = "closed"
    BY <1>7, <2>2 DEF FinishTurn, Goto, Counted, Going, Failing
  <2>3. CASE outcome # "closed"
    <3>1. turnIds' = Append(turnIds, turn) /\ pc' = "record"
      BY <1>7, <2>3 DEF FinishTurn, Goto
    <3>2. Len(turnIds') = Len(turnIds) + 1
      BY <1>0, <3>1, AppendProperties
    <3> QED
      BY <2>1, <3>1, <3>2 DEF Counted
  <2> QED
    BY <2>2, <2>3
<1>8. CASE Reader
  BY <1>8, CountedReader DEF Reader, RequestApproval, ApprovalResolved, ReaderStep,
     receiptVars
<1>9. CASE ServerStep
  BY <1>9, CountedServer DEF ServerStep, receiptVars
<1>10. CASE ServerExit
  BY <1>10, CountedKept, EmptyStream DEF ServerExit, ServerGone, receiptVars, Granted
<1>11. ASSUME NEW h \in Stoppers, Stop(h) PROVE Counted'
  <2>1. h # Runner /\ h \in Callers
    BY RunnerAssumption DEF Callers
  <2>2. UNCHANGED <<pc, turn, turnIds, wire, interrupters>> /\ rpc'[Runner] = rpc[Runner]
    BY <1>0, <1>11, <2>1 DEF Stop, RequestStop, StopInterrupt, StopReturned, Interrupt,
       Send, Forget,
                             sdkVars, serverVars, receiptVars
  <2> QED
    BY <2>2, CountedKept DEF Granted, Counted
<1>12. CASE (\E d \in Decisions, f \in BOOLEAN : PostDecision(d, f)) \/ Over \/ UNCHANGED vars
  <2>1. UNCHANGED <<pc, turn, turnIds, wire, interrupters, rpc>>
    BY <1>12 DEF PostDecision, Over, vars, sdkVars, serverVars, receiptVars
  <2> QED
    BY <2>1, CountedKept DEF Granted, Counted
<1> QED
  BY <1>1, <1>2, <1>3, <1>4, <1>5, <1>6, <1>7, <1>8, <1>9, <1>10, <1>11, <1>12 DEF Next,
     RunnerStep

\* A program has finitely many slots; TurnsOf says how many a phase has.
LEMMA SlotsFinite ==
  ASSUME TypeInv, NEW a \in Nat
  PROVE  /\ IsFiniteSet(Slots(program)) /\ IsFiniteSet(Taken(a)) /\ Taken(a) \in SUBSET Slots(program)
         /\ Cardinality(Taken(a)) \in Nat /\ Cardinality(Slots(program)) \in Nat
         /\ Cardinality(Taken(a)) <= Cardinality(Slots(program))
<1>1. IsFiniteSet((1..Len(program)) \X (1..3))
  <2>1. Len(program) \in Int /\ 1 \in Int /\ 3 \in Int
    BY ProgramType DEF TypeInv, TypeOK
  <2>2. IsFiniteSet(1..Len(program))
    BY <2>1, FS_Interval, Zenon
  <2>3. IsFiniteSet(1..3)
    BY <2>1, FS_Interval, Zenon
  <2> QED
    BY <2>2, <2>3, FS_Product
<1>2. Slots(program) \in SUBSET ((1..Len(program)) \X (1..3)) /\ Taken(a) \in SUBSET Slots(program)
  BY DEF Slots, Taken
<1>3. IsFiniteSet(Slots(program))
  BY <1>1, <1>2, FS_Subset
<1> QED
  BY <1>2, <1>3, FS_Subset, FS_CardinalityType

\* The next turn of a phase that has one left takes a slot nobody has taken.
LEMMA NextSlot ==
  ASSUME TypeInv, phase <= Len(program), attempt + 1 <= TurnsOf(program[phase])
  PROVE  /\ Cardinality(Taken(attempt + 1)) = Cardinality(Taken(attempt)) + 1
         /\ Cardinality(Taken(attempt)) + 1 <= Cardinality(Slots(program))
<1>0. phase \in 1..Len(program) /\ attempt \in 0..2 /\ phase \in Nat /\ Len(program) \in Nat
  BY ProgramType DEF TypeInv, TypeOK
<1>1. PICK n \in Nat : n = attempt + 1
  BY <1>0
<1>2. PICK x \in Nat \X Nat : x = <<phase, n>>
  BY <1>0
<1>3. x[1] = phase /\ x[2] = n
  BY <1>2
<1>4. x \in (1..Len(program)) \X (1..3)
  BY <1>0, <1>1, <1>2
<1>5. x \in Slots(program)
  BY <1>1, <1>3, <1>4 DEF Slots
<1>6. x \notin Taken(attempt)
  BY <1>0, <1>1, <1>3 DEF Taken
<1>7. Taken(n) = Taken(attempt) \cup {x}
  <2>1. Taken(attempt) \cup {x} \subseteq Taken(n)
    <3>1. \A s \in Slots(program) : s[2] \in Nat
      BY DEF Slots
    <3> QED
      BY <1>0, <1>1, <1>3, <1>5, <3>1 DEF Taken
  <2>2. ASSUME NEW s \in Taken(n), s \notin Taken(attempt) PROVE s = x
    <3>1. s \in (1..Len(program)) \X (1..3) /\ s[1] \in Nat /\ s[2] \in Nat /\ s = <<s[1], s[2]>>
      BY <2>2 DEF Taken, Slots
    <3>2. s[1] = phase /\ s[2] = n
      BY <1>0, <1>1, <2>2, <3>1 DEF Taken
    <3> QED
      BY <1>2, <3>1, <3>2
  <2> QED
    BY <2>1, <2>2
<1>8. Cardinality(Taken(n)) = Cardinality(Taken(attempt)) + 1
  <2>1. attempt \in Nat
    BY <1>0
  <2>2. IsFiniteSet(Taken(attempt))
    BY <2>1, SlotsFinite
  <2> QED
    BY <1>6, <1>7, <2>2, FS_AddElement
<1>9. Cardinality(Taken(n)) <= Cardinality(Slots(program))
  BY SlotsFinite
<1> QED
  BY <1>1, <1>8, <1>9

\* What a phase is allowed: a turn unless it is a checkpoint, and its repairs.
LEMMA PhaseTurns ==
  ASSUME NEW f \in Phases
  PROVE  /\ TurnsOf(f) \in Nat
         /\ f.kind # "checkpoint" => 1 <= TurnsOf(f)
         /\ f.kind \in {"verify", "verifier"} => TurnsOf(f) = 1 + f.maxRepairs
BY DEF Phases, PhaseKinds, TurnsOf

\* A phase takes another turn only while it has one left.
LEMMA BoundedStep ==
  ASSUME IInv, Counted, Bounded, [Next]_vars
  PROVE  Bounded'
<1>0. /\ phase \in Nat /\ phase >= 1 /\ attempt \in 0..2 /\ Len(turnIds) \in Nat /\ Len(program) \in Nat
      /\ program \in Programs /\ turnIds \in Seq(Nat) /\ turn \in Nat
      /\ Going => phase <= Len(program)
  BY ProgramType, LenProperties
     DEF IInv, TypeInv, TypeOK, ServerTypeOK, PhaseInRange, Going, Failing
<1>t. TypeInv /\ TypeInv'
  BY TypeStep DEF IInv
<1>1. ASSUME NEW result \in Results, NEW stop \in BOOLEAN, NEW text \in BOOLEAN,
             RecordStep(result, stop, text)
      PROVE  Bounded'
  <2>1. /\ Going /\ pc \in {"record", "checkpoint"} /\ pc' \in {"finish", "phase"}
        /\ UNCHANGED <<program, turnIds>> /\ phase' = phase + 1 /\ attempt' = 0
    BY <1>1 DEF RecordStep, Record, Goto, Going, Failing
  <2>2. Going' => phase' <= Len(program) /\ phase' >= 1
    BY <1>0, <1>t, <2>1 DEF TypeInv, PhaseInRange, Going, Failing
  <2>3. Going' /\ Kind' # "checkpoint" => attempt' + 1 <= TurnsOf(program'[phase'])
    <3>1. Going' => program[phase'] \in Phases
      BY <1>0, <2>1, <2>2, ProgramType
    <3> QED
      BY <2>1, <3>1, PhaseTurns DEF Kind
  <2>4. PICK n \in {attempt, attempt + 1} : Len(turnIds) <= Cardinality(Taken(n))
    BY <2>1 DEF Bounded
  <2>5. Taken(n) \subseteq Taken(0)'
    <3>1. \A s \in Slots(program) : s[1] \in Nat
      BY DEF Slots
    <3> QED
      BY <1>0, <2>1, <3>1 DEF Taken
  <2>6. Len(turnIds') <= Cardinality(Taken(0)')
    <3>1. PICK T : T = Taken(0)'
      OBVIOUS
    <3>2. IsFiniteSet(T)
      <4>1. T \in SUBSET Slots(program)
        BY <2>1, <3>1 DEF Taken
      <4> QED
        BY <1>0, <1>t, <4>1, SlotsFinite, FS_Subset
    <3>3. Cardinality(Taken(n)) <= Cardinality(T) /\ Cardinality(Taken(n)) \in Nat /\ Cardinality(T) \in Nat
      BY <1>0, <2>5, <3>1, <3>2, FS_Subset, FS_CardinalityType
    <3> QED
      BY <1>0, <2>1, <2>4, <3>1, <3>3
  <2> QED
    BY <2>1, <2>3, <2>6 DEF Bounded, InTurn, TurnPcs
<1>2. CASE FinishTurn
  <2>1. /\ Going /\ InTurn /\ pc # "record" /\ UNCHANGED <<program, phase, attempt>>
    BY <1>2 DEF FinishTurn, Going, Failing, InTurn, TurnPcs
  <2>2. CASE outcome = "closed"
    BY <1>2, <2>2 DEF FinishTurn, Goto, Bounded, Going, InTurn, TurnPcs, Failing
  <2>3. CASE outcome # "closed"
    <3>1. pc' = "record" /\ turnIds' = Append(turnIds, turn)
      BY <1>2, <2>3 DEF FinishTurn, Goto
    <3>2. Len(turnIds') = Len(turnIds) + 1
      BY <1>0, <3>1, AppendProperties
    <3>3. Kind # "checkpoint" /\ attempt + 1 <= TurnsOf(program[phase]) /\ phase <= Len(program)
          /\ Len(turnIds) <= Cardinality(Taken(attempt))
      BY <1>0, <2>1 DEF Bounded
    <3>4. Len(turnIds) + 1 <= Cardinality(Taken(attempt + 1))
      <4>0. attempt \in Nat
        BY <1>0
      <4>1. Cardinality(Taken(attempt)) \in Nat
        BY <1>t, <4>0, SlotsFinite
      <4>2. Cardinality(Taken(attempt + 1)) = Cardinality(Taken(attempt)) + 1
        BY <1>t, <3>3, NextSlot
      <4> QED
        BY <1>0, <3>3, <4>1, <4>2
    <3>5. Taken(attempt + 1)' = Taken(attempt + 1) /\ Kind' = Kind
      BY <2>1 DEF Taken, Kind
    <3> QED
      BY <2>1, <3>1, <3>2, <3>3, <3>4, <3>5 DEF Bounded, InTurn, TurnPcs, Going
  <2> QED
    BY <2>2, <2>3
<1>3. CASE RepairStep
  <2>1. /\ pc = "record" /\ pc' = "phase" /\ UNCHANGED <<program, phase, turnIds>> /\ attempt' = attempt + 1
        /\ Kind \in {"verify", "verifier"}
    BY <1>3 DEF RepairStep, RecordVerdict, Goto
  <2>2. program[phase] \in Phases
    BY <1>0, <2>1, ProgramType DEF Going, Failing
  <2>3. attempt' + 1 <= TurnsOf(program[phase])
    BY <1>0, <1>3, <2>1, <2>2, PhaseTurns DEF RepairStep, Kind, Phases
  <2>4. Taken(attempt)' = Taken(attempt + 1)
    BY <2>1 DEF Taken
  <2> QED
    BY <2>1, <2>3, <2>4 DEF Bounded, InTurn, TurnPcs
<1>4. ASSUME UNCHANGED <<program, phase, attempt, turnIds>>, Going' => Going,
             InTurn' => InTurn \/ Kind # "checkpoint", Going' => (pc' = "record" <=> pc = "record")
      PROVE  Bounded'
  <2>1. Taken(attempt)' = Taken(attempt) /\ Taken(attempt + 1)' = Taken(attempt + 1) /\ Kind' = Kind
    BY <1>4 DEF Taken, Kind
  <2>2. InTurn' \/ pc' = "record" => Going'
    BY DEF InTurn, TurnPcs, Going, Failing
  <2> QED
    BY <1>4, <2>1, <2>2 DEF Bounded
<1>5. CASE StartTurn
  <2>1. /\ UNCHANGED <<program, phase, attempt, turnIds>> /\ pc = "phase" /\ pc' = "turnStart"
        /\ Kind # "checkpoint"
    BY <1>5 DEF StartTurn, Goto
  <2> QED
    BY <1>4, <2>1 DEF Going, Failing
<1>6. CASE MoveStep /\ ~StartTurn /\ ~FinishTurn /\ ~RepairStep
  <2>1. /\ UNCHANGED <<program, phase, attempt, turnIds>> /\ (Going' => Going /\ (InTurn' <=> InTurn))
        /\ Going' => (pc' = "record" <=> pc = "record")
    BY <1>6 DEF MoveStep
  <2>2. InTurn' => Going'
    BY DEF InTurn, TurnPcs, Going, Failing
  <2> QED
    BY <1>4, <2>1, <2>2
<1> QED
  BY <1>1, <1>2, <1>3, <1>5, <1>6, <1>t, StepKinds

\* turn/start is accepted only while the phase has a slot left.
LEMMA WithinBoundStep ==
  ASSUME IInv, Counted, Bounded, TurnsWithinBound, [Next]_vars
  PROVE  TurnsWithinBound'
<1>1. CASE ServerStep /\ ServerStartTurn
  <2>1. pc = "turnStart" /\ turn = Len(turnIds) /\ turn' = turn + 1 /\ program' = program
    BY <1>1 DEF ServerStep, ServerStartTurn, IInv, TurnProtocol, OneReply, Counted,
       receiptVars
  <2>2. Going /\ InTurn /\ pc # "record"
    BY <2>1 DEF Going, Failing, InTurn, TurnPcs
  <2>3. /\ phase <= Len(program) /\ attempt + 1 <= TurnsOf(program[phase])
        /\ Len(turnIds) <= Cardinality(Taken(attempt))
    BY <2>2 DEF Bounded, IInv, TypeInv, PhaseInRange, Going, Failing
  <2>4. Len(turnIds) \in Nat /\ TypeInv /\ attempt \in Nat
    BY LenProperties DEF IInv, TypeInv, TypeOK
  <2>5. Cardinality(Taken(attempt)) + 1 <= Cardinality(Slots(program))
    BY <2>3, <2>4, NextSlot
  <2>6. Cardinality(Taken(attempt)) \in Nat /\ Cardinality(Slots(program)) \in Nat
    BY <2>4, SlotsFinite
  <2> QED
    BY <2>1, <2>3, <2>4, <2>5, <2>6 DEF TurnsWithinBound, TurnBound
<1>2. CASE ~(ServerStep /\ ServerStartTurn)
  <2>1. turn' = turn
    <3>1. CASE RunnerStep
      BY <3>1 DEF RunnerStep, Begin, Bind, Setup, AskCheckpoint, LeaveCheckpoint,
         StartTurn, TurnStarted,
         ActivateTurn, SelfInterruptReturned, TurnRequestFailed, TurnEnded, FinishTurn, RecordWork,
         RecordCommandStopped, RecordCommandResult, RecordVerifyStopped, RecordVerdict,
         RecordMalformed, Finish, Fail, Unbind, Close, Connect, Send, Forget, ServerGone, sdkVars,
         serverVars
    <3>2. CASE Reader
      BY <3>2 DEF Reader, RequestApproval, ApprovalResolved, ReaderStep, ReaderRoute,
         ReaderTakeApproval,
         ReaderAnswerUnknown, ReaderAnswer, ReaderEof, Answered, ServerApprovalAnswered
    <3>3. CASE ServerStep \/ ServerExit
      BY <1>2, <3>3 DEF ServerStep, ServerExit, ServerGone, Server, ServerRespondTurn, ServerRejectTurn,
         ServerTurnInterrupt, ServerAskApproval, ServerAskOther, ServerEndTurn, ServerAnswerInterrupt, ServerNotifyTurn
    <3>4. ASSUME NEW h \in Stoppers, Stop(h) PROVE turn' = turn
      BY <3>4 DEF Stop, RequestStop, StopInterrupt, StopReturned, Interrupt, Send, Forget,
         sdkVars,
         serverVars
    <3>5. CASE (\E d \in Decisions, f \in BOOLEAN : PostDecision(d, f)) \/ Over \/ UNCHANGED vars
      BY <3>5 DEF PostDecision, Over, vars, sdkVars, serverVars
    <3> QED
      BY <3>1, <3>2, <3>3, <3>4, <3>5 DEF Next
  <2>2. program' = program
    BY StepKinds DEF IInv, MoveStep, RecordStep
  <2> QED
    BY <2>1, <2>2 DEF TurnsWithinBound
<1> QED
  BY <1>1, <1>2

\* The inductive invariant behind the receipt.
ReceiptInv ==
  /\ Listed
  /\ Completing
  /\ Undelivered
  /\ Counted
  /\ Accounts
  /\ Bounded
  /\ TurnsWithinBound

\* HarnessRunner.run starts with an empty receipt.
LEMMA ReceiptInit == Init => ReceiptInv
<1> SUFFICES ASSUME Init PROVE ReceiptInv
  OBVIOUS
<1>0. program \in Programs /\ TypeInv
  BY TypeInit DEF Init
<1>p. Len(program) \in Nat /\ Len(program) > 0 /\ program[1] \in Phases
  BY <1>0, ProgramType
<1>1. Listed /\ Completing
  BY <1>p DEF Init, SessionInit, Listed, Completing, OverPcs
<1>2. Undelivered
  BY DEF Init, Undelivered, FeedbackOnce
<1>3. Counted
  BY DEF Init, ServerInit, Counted, InTurn, TurnPcs
<1>4. Accounts
  BY DEF Init, Accounts, Has
<1>5. Cardinality(Taken(0)) \in Nat /\ Cardinality(Slots(program)) \in Nat
  BY <1>0, SlotsFinite
<1>6. Bounded
  BY <1>5, <1>p, PhaseTurns DEF Init, Bounded, InTurn, TurnPcs, Kind
<1>7. TurnsWithinBound
  BY <1>5 DEF Init, ServerInit, TurnsWithinBound, TurnBound
<1> QED
  BY <1>1, <1>2, <1>3, <1>4, <1>6, <1>7 DEF ReceiptInv

\* The parts of the invariant say what the receipt's readers rely on.
LEMMA ReceiptFollows ==
  ASSUME TypeInv, ReceiptInv
  PROVE  ReceiptIsSound
<1>0. turnIds \in Seq(Nat) /\ Len(turnIds) \in Nat /\ Len(program) \in Nat /\ Len(executions) \in Nat
  BY ProgramType, LenProperties DEF TypeInv, TypeOK
<1>1. ReceiptIsPrefix
  BY DEF ReceiptInv, Listed, ReceiptIsPrefix
<1>2. TurnsAccounted
  <2> DEFINE T == {turnIds[k] : k \in 1..Len(turnIds)}
  <2>1. \A t : t \in T <=> t \in 1..Len(turnIds)
    BY DEF ReceiptInv, Accounts
  <2>2. \A t \in T : (\E i \in 1..Len(executions) : Has(executions[i].turns, t)) \/ Has(phaseTurns, t)
    BY <2>1 DEF ReceiptInv, Accounts
  <2>3. \A i \in 1..Len(executions), t \in T : Has(executions[i].turns, t) =>
          /\ \A j \in 1..Len(executions) : j > i => \A u \in T : Has(executions[j].turns, u) => u > t
          /\ \A u \in T : Has(phaseTurns, u) => u > t
    BY DEF ReceiptInv, Accounts
  <2>4. \A k \in 1..Len(turnIds) : turnIds[k] = k
    BY DEF ReceiptInv, Accounts
  <2> QED
    BY <2>2, <2>3, <2>4 DEF TurnsAccounted, Has
<1>3. CompletedMeansAll
  BY <1>0 DEF ReceiptInv, Completing, Listed, CompletedMeansAll
<1> QED
  BY <1>1, <1>2, <1>3 DEF ReceiptIsSound, ReceiptInv, Undelivered

\* The receipt of a run is sound at every moment, for every program and every
\* set of stop handlers, whether or not the app-server outlives the run.
THEOREM ReceiptHolds == Spec => []ReceiptIsSound
<1>1. IInv /\ ReceiptInv /\ [Next]_vars => ReceiptInv'
  <2> SUFFICES ASSUME IInv, ReceiptInv, [Next]_vars PROVE ReceiptInv'
    OBVIOUS
  <2>0. TypeInv
    BY DEF IInv
  <2>1. Listed' /\ Completing' /\ Undelivered'
    BY <2>0, ListedStep, CompletingStep, UndeliveredStep DEF ReceiptInv
  <2>2. Counted' /\ Accounts'
    BY <2>0, CountedStep, AccountsStep DEF ReceiptInv
  <2>3. Bounded' /\ TurnsWithinBound'
    BY BoundedStep, WithinBoundStep DEF ReceiptInv
  <2> QED
    BY <2>1, <2>2, <2>3 DEF ReceiptInv
<1>2. IInv /\ ReceiptInv => ReceiptIsSound
  BY ReceiptFollows DEF IInv
<1> QED
  BY <1>1, <1>2, ReceiptInit, ProtocolCorrect, PTL DEF Spec, IInv
=============================================================================
