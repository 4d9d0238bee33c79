----------------------------- MODULE RunSession -----------------------------
(***************************************************************************)
(* The state one run shares between its threads: the dataclass RunSession  *)
(* of weave_codex/runtime.py.  Every method that touches it holds          *)
(* self._condition, so each operator below is one critical section.  A     *)
(* thread that waits for a person releases the condition: entering and     *)
(* leaving the wait are two separate steps.                                *)
(***************************************************************************)
EXTENDS Naturals, Sequences

VARIABLES
  status,         \* RunSession.status
  pending,        \* kind of RunSession.pending_approval, "none" for None
  decision,       \* RunSession._decision, NoDecision for None
  interrupt,      \* is RunSession._interrupt bound to the gateway?
  stopRequested   \* RunSession._stop_requested

sessionVars == <<status, pending, decision, interrupt, stopRequested>>

Terminal == {"completed", "failed", "stopped"}
Statuses == Terminal \cup {"queued", "running", "waitingForApproval"}
Decisions == {"accept", "acceptForSession", "decline", "cancel"}
Accepting == {"accept", "acceptForSession"}

\* _decision is a record; "feedback" tells whether text came with it.  "of" is
\* history: the kind of request that was pending when the decision was posted.
Resolutions == [decision : Decisions, feedback : BOOLEAN, of : {"checkpoint", "approval"}]
NoDecision == [decision |-> "none", feedback |-> FALSE, of |-> "none"]

SessionTypeOK ==
  /\ status \in Statuses
  /\ pending \in {"none", "checkpoint", "approval"}
  /\ decision \in Resolutions \cup {NoDecision}
  /\ interrupt \in BOOLEAN
  /\ stopRequested \in BOOLEAN

SessionInit ==
  /\ status = "queued"
  /\ pending = "none"
  /\ decision = NoDecision
  /\ interrupt = FALSE
  /\ stopRequested = FALSE

-----------------------------------------------------------------------------
\* Mutant of EnterWait: the request is published, the status is not.
EnterWaitUnannounced(kind) ==
  /\ pending' = kind
  /\ UNCHANGED <<status, decision, interrupt, stopRequested>>

\* _wait_for_decision up to the first Condition.wait: publish the request.  A
\* request already in the slot is overwritten, and a decision that is posted and
\* not yet taken satisfies the newcomer's loop as well.
EnterWait(kind) ==
  /\ pending' = kind
  /\ status' = "waitingForApproval"
  /\ UNCHANGED <<decision, interrupt, stopRequested>>

\* What _wait_for_decision returns: the posted decision, or "decline" when the
\* 300 s deadline passes first.
Resolution ==
  IF decision = NoDecision
  THEN [decision |-> "decline", feedback |-> FALSE, of |-> pending]
  ELSE decision

\* Mutants of LeaveWait: the decision, or the status, is not reset.
LeaveWaitKeepsDecision ==
  /\ pending' = "none"
  /\ status' = "running"
  /\ UNCHANGED <<decision, interrupt, stopRequested>>
LeaveWaitStillWaiting ==
  /\ decision' = NoDecision
  /\ pending' = "none"
  /\ UNCHANGED <<status, interrupt, stopRequested>>

\* _wait_for_decision after its loop.  The deadline may pass at any moment, so
\* the step is enabled whether or not a decision has been posted.  It clears the
\* slot although another thread may be waiting in it.
LeaveWait ==
  /\ decision' = NoDecision
  /\ pending' = "none"
  /\ status' = "running"
  /\ UNCHANGED <<interrupt, stopRequested>>

\* decide(): refused without a pending request, and feedback is refused
\* anywhere but at a checkpoint.  It replaces whatever was posted before.
Decide(d, withFeedback) ==
  /\ pending # "none"
  /\ withFeedback => pending = "checkpoint"
  /\ decision' = [decision |-> d, feedback |-> withFeedback, of |-> pending]
  /\ UNCHANGED <<status, pending, interrupt, stopRequested>>

\* bind_interrupt()
BindInterrupt(bound) ==
  /\ interrupt' = bound
  /\ UNCHANGED <<status, pending, decision, stopRequested>>

\* The runner's plain assignments to session.status, made without the lock.
SetStatus(s) ==
  /\ status' = s
  /\ UNCHANGED <<pending, decision, interrupt, stopRequested>>

\* request_stop() on a run that is over: returns False, changes nothing.
StopRefused ==
  /\ status \in Terminal
  /\ UNCHANGED sessionVars

\* request_stop() while a person is being asked: answers "cancel" for them.
StopPending ==
  /\ status \notin Terminal
  /\ pending # "none"
  /\ stopRequested' = TRUE
  /\ decision' = [decision |-> "cancel", feedback |-> FALSE, of |-> pending]
  /\ UNCHANGED <<status, pending, interrupt>>

\* request_stop() otherwise: only fetches the callback; it is called after the
\* lock is released.
StopFetchCallback ==
  /\ status \notin Terminal
  /\ pending = "none"
  /\ stopRequested' = TRUE
  /\ UNCHANGED <<status, pending, decision, interrupt>>
=============================================================================
