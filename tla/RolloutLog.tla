----------------------------- MODULE RolloutLog -----------------------------
(***************************************************************************)
(* What the rollout recorder keeps: the log of a thread holds what was     *)
(* recorded, in that order and without gaps other than what a crash or the *)
(* end of the writer lost, and an answered barrier leaves nothing behind.  *)
(* The last item may be there more than once, if a write that put it there *)
(* was reported as failed.                                                 *)
(***************************************************************************)
EXTENDS Naturals, Sequences

VARIABLES
  accepted,  \* items recorded so far; item n is the n-th
  log,       \* the items a reader of the file gets
  doubtful,  \* the write that put the last item there was reported as failed
  lost,      \* items that will never be in the log
  promised   \* items recorded before a barrier that was answered with Ok

logVars == <<accepted, log, doubtful, lost, promised>>
InLog == {log[i] : i \in 1..Len(log)}

Init == accepted = 0 /\ log = <<>> /\ doubtful = FALSE /\ lost = {} /\ promised = {}

Record == accepted' = accepted + 1 /\ UNCHANGED <<log, doubtful, lost, promised>>

\* The next item that is not lost.
Store ==
  /\ \E n \in 1..accepted :
       /\ n \notin lost \cup InLog
       /\ 1..(n - 1) \subseteq lost \cup InLog
       /\ log' = Append(log, n)
  /\ doubtful' \in BOOLEAN
  /\ UNCHANGED <<accepted, lost, promised>>

\* A failed write is tried again and had put its item there.
Repeat ==
  /\ doubtful
  /\ log' = Append(log, log[Len(log)])
  /\ doubtful' \in BOOLEAN
  /\ UNCHANGED <<accepted, lost, promised>>

\* Everything up to n is in the log, unless it was lost earlier.
Promise ==
  /\ \E n \in 1..accepted :
       /\ 1..n \subseteq lost \cup InLog
       /\ promised' = promised \cup (1..n \ lost)
  /\ UNCHANGED <<accepted, log, doubtful, lost>>

\* A crash, or commands behind the one that ended the writer.
Lose ==
  /\ lost \subseteq lost'
  /\ lost' \subseteq (1..accepted) \ InLog
  /\ UNCHANGED <<accepted, log, doubtful, promised>>

Next == Record \/ Store \/ Repeat \/ Promise \/ Lose
Spec == Init /\ [][Next]_logVars
=============================================================================
