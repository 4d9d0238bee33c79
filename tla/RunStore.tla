------------------------------ MODULE RunStore ------------------------------
(***************************************************************************)
(* Where a run is kept: the session in ControlPlane.sessions while the     *)
(* process lives, and the file <run id>.json that the worker thread of     *)
(* create_run writes after HarnessRunner.run has returned.  Handlers of    *)
(* DELETE /api/runs/<id> move the file to .trash and forget the session;   *)
(* the process may be killed and started again at any moment.              *)
(*                                                                         *)
(* Run ids are fresh, so at most one file is ever created for a run:       *)
(* "place" says where it is, "content" what has been written to it.  A     *)
(* file that is moved while it is open is still written to.                *)
(***************************************************************************)
EXTENDS Naturals, FiniteSets

CONSTANTS
  Deleters,    \* HTTP handler threads serving DELETE /api/runs/<id>
  MaxRestarts  \* bound: how often the process is killed

ASSUME MaxRestartsAssumption == MaxRestarts \in Nat

VARIABLES
  session,   \* the run is in ControlPlane.sessions
  status,    \* session.status
  result,    \* session.result is set; the timeline says it is persisted
  worker,    \* where the worker thread of create_run is
  place,     \* where the file is: "none", "saved" or "trash"
  content,   \* what is in it: "empty", "receipt", "error"
  deletePc,  \* where each DELETE handler is
  restarts,  \* how often the process was killed
  told       \* history: a client polled a timeline that says "persisted"

vars == <<session, status, result, worker, place, content, deletePc, restarts, told>>

Active == {"queued", "running", "waitingForApproval"}
Ends == {"completed", "stopped", "failed"}

TypeOK ==
  /\ session \in BOOLEAN
  /\ status \in Active \cup Ends
  /\ result \in BOOLEAN
  /\ worker \in {"none", "running", "returned", "writing", "written"}
  /\ place \in {"none", "saved", "trash"}
  /\ content \in {"empty", "receipt", "error"}
  /\ deletePc \in [Deleters -> {"idle", "checked", "found", "moved", "true", "false",
                                "refused", "raised"}]
  /\ restarts \in 0..MaxRestarts
  /\ told \in BOOLEAN

\* create_run: the session is registered before the worker thread starts.
Init ==
  /\ session = TRUE
  /\ status = "queued"
  /\ result = FALSE
  /\ worker = "running"
  /\ place = "none"
  /\ content = "empty"
  /\ deletePc = [d \in Deleters |-> "idle"]
  /\ restarts = 0
  /\ told = FALSE

-----------------------------------------------------------------------------
(* The worker thread                                                       *)

\* HarnessRunner.run as HarnessRun models it: it runs, asks, and goes on.
RunProceeds ==
  /\ worker = "running"
  /\ status \in Active
  /\ ~result
  /\ \E s \in {"running", "waitingForApproval"} : status' = s
  /\ UNCHANGED <<session, result, worker, place, content, deletePc, restarts, told>>

\* session.result is assigned and the stage "Receipt persisted locally." added.
RunRecords ==
  /\ worker = "running"
  /\ status = "running"
  /\ ~result
  /\ result' = TRUE
  /\ UNCHANGED <<session, status, worker, place, content, deletePc, restarts, told>>

\* HarnessRunner.run ends.  It may also fail after the result was assigned,
\* while the trace is projected.
RunEnds ==
  /\ worker = "running"
  /\ status = "running"
  /\ \E s \in IF result THEN Ends ELSE {"failed"} : status' = s
  /\ worker' = "returned"
  /\ UNCHANGED <<session, result, place, content, deletePc, restarts, told>>

\* An approval that is asked or answered when the run is over sets the status
\* again (HarnessRun, TerminalIsFinal).
RunRevived ==
  /\ session
  /\ worker \notin {"none", "running"}
  /\ \E s \in {"running", "waitingForApproval"} : status' = s
  /\ UNCHANGED <<session, result, worker, place, content, deletePc, restarts, told>>

\* write_text opens the file: it exists and is empty.
OpenFile ==
  /\ worker = "returned"
  /\ worker' = "writing"
  /\ place' = "saved"
  /\ UNCHANGED <<session, status, result, content, deletePc, restarts, told>>

\* Mutant of WriteFile: the payload is written beside the file and renamed to
\* its path.
WriteFileByName ==
  /\ worker = "writing"
  /\ worker' = "written"
  /\ content' = IF result THEN "receipt" ELSE "error"
  /\ place' = "saved"
  /\ UNCHANGED <<session, status, result, deletePc, restarts, told>>

\* The payload, session.result or the error, is in the file.
WriteFile ==
  /\ worker = "writing"
  /\ worker' = "written"
  /\ content' = IF result THEN "receipt" ELSE "error"
  /\ UNCHANGED <<session, status, result, place, deletePc, restarts, told>>

-----------------------------------------------------------------------------
(* HTTP handlers                                                           *)

\* GET /api/runs/<id>: the live session, or else the file if it parses.
View ==
  CASE session -> status
    [] ~session /\ place = "saved" /\ content = "receipt" -> "completed"
    [] ~session /\ place = "saved" /\ content = "error" -> "failed"
    [] OTHER -> "notFound"

\* A poll shows the timeline of the session.
Get ==
  /\ session
  /\ result
  /\ ~told
  /\ told' = TRUE
  /\ UNCHANGED <<session, status, result, worker, place, content, deletePc, restarts>>

At(d, from, to) ==
  /\ deletePc[d] = from
  /\ deletePc' = [deletePc EXCEPT ![d] = to]

\* delete_run, its test of the session.
DeleteCheck(d) ==
  /\ At(d, "idle", IF session /\ status \in Active THEN "refused" ELSE "checked")
  /\ UNCHANGED <<session, status, result, worker, place, content, restarts, told>>

\* path.is_file()
DeleteLook(d) ==
  /\ At(d, "checked", IF place = "saved" THEN "found" ELSE "false")
  /\ UNCHANGED <<session, status, result, worker, place, content, restarts, told>>

\* path.replace(): raises if another handler has moved the file meanwhile, and
\* do_DELETE does not catch it.
DeleteMove(d) ==
  /\ At(d, "found", IF place = "saved" THEN "moved" ELSE "raised")
  /\ place' = "trash"
  /\ UNCHANGED <<session, status, result, worker, content, restarts, told>>

\* Mutant of DeletePop: the session stays.
DeletePopNothing(d) ==
  /\ At(d, "moved", "true")
  /\ UNCHANGED <<session, status, result, worker, place, content, restarts, told>>

\* sessions.pop()
DeletePop(d) ==
  /\ At(d, "moved", "true")
  /\ session' = FALSE
  /\ UNCHANGED <<status, result, worker, place, content, restarts, told>>

\* The process is killed and started again: the sessions, the daemon thread
\* and the handlers are gone, the file stays as it is.
Restart ==
  /\ restarts < MaxRestarts
  /\ restarts' = restarts + 1
  /\ session' = FALSE
  /\ worker' = IF worker = "written" THEN "written" ELSE "none"
  /\ deletePc' = [d \in Deleters |->
                    IF deletePc[d] \in {"checked", "found", "moved"} THEN "raised" ELSE deletePc[d]]
  /\ UNCHANGED <<status, result, place, content, told>>

Next ==
  \/ RunProceeds \/ RunRecords \/ RunEnds \/ RunRevived \/ OpenFile \/ WriteFile
  \/ Get
  \/ \E d \in Deleters : DeleteCheck(d) \/ DeleteLook(d) \/ DeleteMove(d) \/ DeletePop(d)
  \/ Restart

Spec == Init /\ [][Next]_vars

-----------------------------------------------------------------------------
(* Properties                                                              *)

\* A run a handler said it deleted is not found again, by a poll or after a
\* restart, though the worker may still be writing its file; and at most one
\* handler claims the deletion.
DeletedIsGone ==
  LET claims == {d \in Deleters : deletePc[d] = "true"}
  IN  /\ claims # {} => View = "notFound"
      /\ Cardinality(claims) <= 1

\* A run that cannot be found stays so: neither the worker's late write, nor a
\* handler, nor a file that a killed process left half written shows it again.
NeverFoundAgain == [][View = "notFound" => View' = "notFound"]_vars

-----------------------------------------------------------------------------
(* What the timeline promises and the code does not keep                   *)

\* runtime.py adds the stage "Receipt persisted locally." to the timeline.  Who
\* has read it finds the run again after a restart, unless it was deleted.
PersistedSurvives ==
  told /\ ~session /\ place # "trash" => View = "completed"
=============================================================================
