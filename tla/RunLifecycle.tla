---------------------------- MODULE RunLifecycle ----------------------------
(***************************************************************************)
(* What a client that polls GET /api/runs/<id> may rely on.  A run is      *)
(* queued, runs, and ends once.  Meanwhile its two kinds of request, the   *)
(* checkpoint of the program and the approvals of the agents, share one    *)
(* slot: the latest request is shown, and whichever is settled first       *)
(* clears the slot for both.  No checkpoint is asked for after the end; an *)
(* approval may be, and settling it makes the run look active again.       *)
(***************************************************************************)
VARIABLES
  status, pending,   \* the polled fields
  waiters,           \* kinds of request somebody waits for
  over               \* the run has ended

vars == <<status, pending, waiters, over>>

Init ==
  /\ status = "queued"
  /\ pending = "none"
  /\ waiters = {}
  /\ over = FALSE

Start ==
  /\ status = "queued"
  /\ status' = "running"
  /\ UNCHANGED <<pending, waiters, over>>

Ask(kind) ==
  /\ status # "queued"
  /\ kind \notin waiters
  /\ kind = "checkpoint" => ~over
  /\ status' = "waitingForApproval"
  /\ pending' = kind
  /\ waiters' = waiters \cup {kind}
  /\ UNCHANGED over

Resolve(kind) ==
  /\ kind \in waiters
  /\ status' = "running"
  /\ pending' = "none"
  /\ waiters' = waiters \ {kind}
  /\ UNCHANGED over

End(verdict) ==
  /\ ~over
  /\ status # "queued"
  /\ "checkpoint" \notin waiters
  /\ status' = verdict
  /\ over' = TRUE
  /\ UNCHANGED <<pending, waiters>>

Next ==
  \/ Start
  \/ \E kind \in {"checkpoint", "approval"} : Ask(kind) \/ Resolve(kind)
  \/ \E verdict \in {"completed", "failed", "stopped"} : End(verdict)

Spec == Init /\ [][Next]_vars
=============================================================================
