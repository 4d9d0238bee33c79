----------------------------- MODULE TurnTasks ------------------------------
(***************************************************************************)
(* The turns of one Codex session (codex-rs/core).  The submission loop    *)
(* takes one operation at a time; every turn is a tokio task of its own    *)
(* that finishes itself and may start the next turn for waiting mail; the  *)
(* guardian may abort the active turn from a third task.  They meet in the *)
(* slot Session::active_turn, which each of them locks for one step only.  *)
(***************************************************************************)
EXTENDS Naturals, Sequences, FiniteSets

CONSTANTS
  Loop, Guardian, \* the submission loop and the task that aborts for the guardian
  MaxOps,         \* bound: operations submitted to the session, and items injected
  MaxTurns        \* bound: turns started

Turns == 1..MaxTurns
ASSUME BoundsAssumption == MaxOps \in Nat /\ MaxTurns \in Nat
\* The two are no turns; 0 stands for None.
ASSUME ProcsAssumption ==
  Loop # Guardian /\ {Loop, Guardian} \cap (Turns \cup {0}) = {}

VARIABLES
  active,    \* Session::active_turn: its TurnState and RunningTask, 0 for None
  states,    \* the TurnStates ever made: pending input and delivery phase
  mailbox,   \* InputQueue::mailbox_pending_mails
  pc,        \* where each task is
  hold,      \* input a task took out of a queue and has not put anywhere yet
  ts,        \* the TurnState a task works on
  victim,    \* the turn a task is aborting
  next,      \* the kind of turn the loop is about to start
  ops,       \* operations submitted and items injected
  open,      \* has the loop not been shut down?
  kind,      \* the kinds of the turns started so far
  terminal,  \* history: terminal events sent for each turn
  waiting,   \* history: input, mail and items accepted, neither recorded nor
             \* dropped with an aborted turn
  conflict   \* history: how two tasks met in the slot, see Conflicts

slotVars == <<active, states, mailbox>>
taskVars == <<pc, hold, ts, victim>>
loopVars == <<next, ops, open>>
historyVars == <<terminal, waiting, conflict>>
vars == <<slotVars, taskVars, loopVars, historyVars, kind>>

Procs == {Loop, Guardian} \cup Turns
Kinds == {"regular", "other"}
NoTurn == [state |-> 0, task |-> 0]
Inputs == [n : 1..MaxOps, kind : {"user", "queue", "trigger", "item"}]
TurnStates == [items : SUBSET Inputs, accepts : BOOLEAN]
Fresh == [items |-> {}, accepts |-> TRUE]

\* The four ways two tasks can spoil each other's turn: start_task overwrites
\* a task in the slot, start_task finds another turn than the one it filled, or
\* than the one start_if_idle reserved and queued input in, on_task_finished
\* takes the task of another turn.  The model stops there.
Conflicts == {"none", "overwritten", "abandoned", "stranded", "stolen"}

RunPcs == {"run", "record", "finish"}                \* before the task leaves the slot
StartPcs == {"prepare", "begin", "insert", "start"}  \* a turn is being started
Pcs == RunPcs \cup StartPcs \cup
       {"unborn", "idle", "abort", "replace", "kill", "killReplaced", "wake", "reserve",
        "announce", "clear", "ended", "dead"}

TypeOK ==
  /\ active \in [state : 0..Len(states), task : 0..Len(kind)]
  /\ states \in Seq(TurnStates)
  /\ mailbox \subseteq Inputs
  /\ pc \in [Procs -> Pcs]
  /\ hold \in [Procs -> SUBSET Inputs]
  /\ ts \in [Procs -> 0..Len(states)]
  /\ victim \in [Procs -> 0..Len(kind)]
  /\ next \in Kinds
  /\ ops \in 0..MaxOps
  /\ open \in BOOLEAN
  /\ kind \in Seq(Kinds) /\ Len(kind) <= MaxTurns
  /\ terminal \in [Turns -> Nat]
  /\ waiting \subseteq Inputs
  /\ conflict \in Conflicts

Init ==
  /\ active = NoTurn
  /\ states = <<>>
  /\ mailbox = {}
  /\ pc = [p \in Procs |-> IF p \in Turns THEN "unborn" ELSE "idle"]
  /\ hold = [p \in Procs |-> {}]
  /\ ts = [p \in Procs |-> 0]
  /\ victim = [p \in Procs |-> 0]
  /\ next = "regular" /\ ops = 0 /\ open = TRUE
  /\ kind = <<>>
  /\ terminal = [t \in Turns |-> 0]
  /\ waiting = {}
  /\ conflict = "none"

Apart == conflict = "none"
\* A turn's cancellation token is cancelled by whoever aborts it.
Cancelled(t) == \E p \in Procs : victim[p] = t
Rest(p) == IF p \in Turns THEN "ended" ELSE "idle"
\* p is at this place, and there has been no conflict.
At(p, place) == Apart /\ pc[p] = place
Goto(p, place) == pc' = [pc EXCEPT ![p] = place]
TriggerWaiting == \E mail \in mailbox : mail.kind = "trigger"
\* Mutant of StatesWithSlot: nothing is inserted.
StatesWithoutSlot == states
\* get_or_insert_with(ActiveTurn::default)
Slot == IF active.state = 0 THEN Len(states) + 1 ELSE active.state
StatesWithSlot == IF active.state = 0 THEN Append(states, Fresh) ELSE states

-----------------------------------------------------------------------------
(* The submission loop                                                     *)

Submission ==
  /\ At(Loop, "idle")
  /\ open
  /\ ops < MaxOps
  /\ ops' = ops + 1

Input(k) == [n |-> ops + 1, kind |-> k]

\* steer_input, for StartOrSteer and for Steer with the right turn id: only a
\* regular task in the slot can be steered.  The lock is held throughout.
SteerInput ==
  /\ Submission
  /\ active.task # 0 /\ kind[active.task] = "regular"
  /\ states' = [states EXCEPT ![active.state] =
       [items |-> @.items \cup {Input("user")}, accepts |-> TRUE]]
  /\ waiting' = waiting \cup {Input("user")}
  /\ UNCHANGED <<active, mailbox, taskVars, next, open, terminal, conflict, kind>>

\* spawn_task: for StartOrSteer and a shell command when no task is in the slot
\* (the turn of a shell command is a regular one, so it can be steered), and
\* always for a compaction and a review.
SpawnTask(k) ==
  /\ Submission
  /\ k = "regular" => active.task = 0
  /\ next' = k
  /\ Goto(Loop, "replace")
  /\ UNCHANGED <<slotVars, hold, ts, victim, open, historyVars, kind>>

\* start_if_idle reserves an idle slot.  Mail enters through this same loop, so
\* its second look at the mailbox sees no new trigger.
StartIfIdle ==
  /\ Submission
  /\ ~TriggerWaiting
  /\ active = NoTurn
  /\ states' = StatesWithSlot
  /\ active' = [state |-> Slot, task |-> 0]
  /\ ts' = [ts EXCEPT ![Loop] = Slot]
  /\ Goto(Loop, "prepare")
  /\ UNCHANGED <<mailbox, hold, victim, next, open, historyVars, kind>>

\* Mutant of RejectSettings: the reservation is forgotten.
RejectSettingsKeepsSlot ==
  /\ At(Loop, "prepare")
  /\ ts' = [ts EXCEPT ![Loop] = 0]
  /\ Goto(Loop, "idle")
  /\ UNCHANGED <<slotVars, hold, victim, loopVars, historyVars, kind>>

\* The settings of the request are refused: clear_reserved_idle_turn.
RejectSettings ==
  /\ At(Loop, "prepare")
  /\ active' = IF active.task = 0 /\ active.state = ts[Loop] THEN NoTurn ELSE active
  /\ ts' = [ts EXCEPT ![Loop] = 0]
  /\ Goto(Loop, "idle")
  /\ UNCHANGED <<states, mailbox, hold, victim, loopVars, historyVars, kind>>

\* They are applied.  Automatic work waits in the reserved turn's queue; the
\* input of a user goes to the task itself.
ApplySettings(automatic) ==
  /\ At(Loop, "prepare")
  /\ LET item == [n |-> ops, kind |-> "user"]
         queued == IF automatic THEN {item} ELSE {}
     IN /\ states' = [states EXCEPT ![ts[Loop]].items = @ \cup queued]
        /\ waiting' = waiting \cup queued
  /\ Goto(Loop, "begin")
  /\ UNCHANGED <<active, mailbox, hold, ts, victim, loopVars, terminal,
                 conflict, kind>>

\* Op::Interrupt, and Op::Shutdown after which the loop takes nothing more.
Interrupt(last) ==
  /\ Submission
  /\ open' = ~last
  /\ Goto(Loop, "abort")
  /\ UNCHANGED <<slotVars, hold, ts, victim, next, historyVars, kind>>

\* Op::InterAgentCommunication.
ReceiveMail(k) ==
  /\ Submission
  /\ mailbox' = mailbox \cup {Input(k)}
  /\ waiting' = waiting \cup {Input(k)}
  /\ Goto(Loop, IF k = "trigger" THEN "wake" ELSE "idle")
  /\ UNCHANGED <<active, states, hold, ts, victim, next, open, terminal,
                 conflict, kind>>

\* inject_if_running, by whoever has something to add to the conversation: a
\* shell command beside the turn, a hook, a notification of a tool, the loop.
\* It asks for an ActiveTurn, not for a task in it.  (Without one the item is
\* recorded or refused at once.)
InjectIfRunning ==
  /\ Apart
  /\ ops < MaxOps
  /\ ops' = ops + 1
  /\ active.state # 0
  /\ states' = [states EXCEPT ![active.state] =
       [items |-> @.items \cup {Input("item")}, accepts |-> TRUE]]
  /\ waiting' = waiting \cup {Input("item")}
  /\ UNCHANGED <<active, mailbox, taskVars, next, open, terminal, conflict, kind>>

-----------------------------------------------------------------------------
(* Aborting: abort_all_tasks in the loop, abort_turn_if_active elsewhere    *)

\* The slot is emptied and the task in it cancelled.
TakeTurn(p) ==
  /\ active' = NoTurn
  /\ victim' = [victim EXCEPT ![p] = active.task]
  /\ ts' = [ts EXCEPT ![p] = active.state]
  /\ Goto(p, IF pc[p] = "replace" THEN "killReplaced" ELSE "kill")
  /\ UNCHANGED <<states, mailbox, hold, loopVars, historyVars, kind>>

AbortAll == (At(Loop, "abort") \/ At(Loop, "replace")) /\ active.task # 0 /\ TakeTurn(Loop)
GuardianAborts == At(Guardian, "idle") /\ active.task # 0 /\ TakeTurn(Guardian)

\* The slot was empty, or reserved, or its task is finishing: whoever was at
\* work there goes on without it, and nobody looks at the mailbox.
AbortNothing ==
  /\ At(Loop, "abort") \/ At(Loop, "replace")
  /\ active.task = 0
  /\ active' = NoTurn
  /\ Goto(Loop, IF pc[Loop] = "replace" THEN "begin" ELSE "idle")
  /\ UNCHANGED <<states, mailbox, hold, ts, victim, loopVars, historyVars, kind>>

\* Mutant of Kill: a task that is done is taken to have announced its end.
KillQuietly(p) ==
  /\ At(p, "kill") \/ At(p, "killReplaced")
  /\ LET t == victim[p]
     IN /\ pc' = [pc EXCEPT ![t] = IF @ = "ended" THEN @ ELSE "dead",
                            ![p] = IF @ = "kill" THEN "wake" ELSE "begin"]
        /\ terminal' = [terminal EXCEPT ![t] = IF pc[t] = "ended" THEN @ ELSE @ + 1]
        /\ waiting' = waiting \ (states[ts[p]].items \cup hold[t])
        /\ hold' = [hold EXCEPT ![t] = {}]
  /\ states' = [states EXCEPT ![ts[p]].items = {}]
  /\ victim' = [victim EXCEPT ![p] = 0]
  /\ ts' = [ts EXCEPT ![p] = 0]
  /\ UNCHANGED <<active, mailbox, loopVars, conflict, kind>>

\* handle_task_abort, once the task is done or 100 ms have passed: the task is
\* dropped where it is, with the input in its hands, TurnAborted is sent, its
\* pending input cleared.
Kill(p) ==
  /\ At(p, "kill") \/ At(p, "killReplaced")
  /\ LET t == victim[p]
     IN /\ pc' = [pc EXCEPT ![t] = IF @ = "ended" THEN @ ELSE "dead",
                            ![p] = IF @ = "kill" THEN "wake" ELSE "begin"]
        /\ terminal' = [terminal EXCEPT ![t] = @ + 1]
        /\ waiting' = waiting \ (states[ts[p]].items \cup hold[t])
        /\ hold' = [hold EXCEPT ![t] = {}]
  /\ states' = [states EXCEPT ![ts[p]].items = {}]
  /\ victim' = [victim EXCEPT ![p] = 0]
  /\ ts' = [ts EXCEPT ![p] = 0]
  /\ UNCHANGED <<active, mailbox, loopVars, conflict, kind>>

-----------------------------------------------------------------------------
(* maybe_start_turn_for_pending_work and start_task, by any task           *)

Wake(p) ==
  /\ At(p, "wake")
  /\ Goto(p, IF TriggerWaiting THEN "reserve" ELSE Rest(p))
  /\ UNCHANGED <<slotVars, hold, ts, victim, loopVars, historyVars, kind>>

\* The session must be idle; a default ActiveTurn then holds the place.
Reserve(p) ==
  /\ At(p, "reserve")
  /\ IF active # NoTurn
     THEN Goto(p, Rest(p)) /\ UNCHANGED <<active, states>>
     ELSE /\ states' = StatesWithSlot
          /\ active' = [state |-> Slot, task |-> 0]
          /\ Goto(p, "begin")
  /\ UNCHANGED <<mailbox, hold, ts, victim, loopVars, historyVars, kind>>

\* get_pending_input on the slot: if its turn accepts mail, what is pending in
\* it and then the whole mailbox.
Accepts == active.state # 0 => states[active.state].accepts
Takes == IF ~Accepts THEN {}
         ELSE mailbox \cup IF active.state = 0 THEN {} ELSE states[active.state].items
TakeOut ==
  /\ mailbox' = IF Accepts THEN {} ELSE mailbox
  /\ states' = IF Accepts /\ active.state # 0
               THEN [states EXCEPT ![active.state].items = {}] ELSE states

Begin(p) ==
  /\ At(p, "begin")
  /\ hold' = [hold EXCEPT ![p] = Takes]
  /\ TakeOut
  /\ Goto(p, "insert")
  /\ UNCHANGED <<active, ts, victim, loopVars, historyVars, kind>>

\* The first lock: the slot is filled if need be, and its queue gets the input.
Insert(p) ==
  /\ At(p, "insert")
  /\ active' = [active EXCEPT !.state = Slot]
  /\ states' = [StatesWithSlot EXCEPT ![Slot].items = @ \cup hold[p]]
  /\ hold' = [hold EXCEPT ![p] = {}]
  /\ ts' = [ts EXCEPT ![p] = Slot]
  /\ conflict' = IF ts[p] \notin {0, Slot} /\ states[ts[p]].items # {}
                 THEN "stranded" ELSE "none"
  /\ Goto(p, "start")
  /\ UNCHANGED <<mailbox, victim, loopVars, terminal, waiting, kind>>

\* The second lock: the task is spawned and put into the slot.  A task already
\* there is dropped, which aborts it (AbortOnDropHandle).
Start(p) ==
  /\ At(p, "start")
  /\ Len(kind) < MaxTurns
  /\ LET t == Len(kind) + 1
         old == active.task
     IN /\ kind' = Append(kind, IF p = Loop THEN next ELSE "regular")
        /\ next' = IF p = Loop THEN "regular" ELSE next
        /\ active' = [state |-> Slot, task |-> t]
        /\ states' = StatesWithSlot
        /\ pc' = [q \in Procs |-> IF q = t THEN "run"
                                  ELSE IF q = p THEN Rest(p)
                                  ELSE IF q = old THEN "dead" ELSE pc[q]]
        /\ hold' = [q \in Procs |-> IF q = old THEN {} ELSE hold[q]]
        /\ conflict' = IF old # 0 THEN "overwritten"
                       ELSE IF active.state # ts[p] THEN "abandoned" ELSE "none"
  /\ ts' = [ts EXCEPT ![p] = 0]
  /\ UNCHANGED <<mailbox, victim, ops, open, terminal, waiting>>

-----------------------------------------------------------------------------
(* A turn's own task                                                       *)

\* run_turn takes what is pending and records it between model requests; only
\* regular turns do.  It looks into the slot, whosever turn is in it.  Hooks run
\* before the input is recorded, and the task may be aborted at any of them.
Drain(t) ==
  /\ At(t, "run")
  /\ kind[t] = "regular"
  /\ Takes # {}
  /\ hold' = [hold EXCEPT ![t] = Takes]
  /\ TakeOut
  /\ Goto(t, "record")
  /\ UNCHANGED <<active, ts, victim, loopVars, historyVars, kind>>
Record(t) ==
  /\ At(t, "record")
  /\ waiting' = waiting \ hold[t]
  /\ hold' = [hold EXCEPT ![t] = {}]
  /\ Goto(t, "run")
  /\ UNCHANGED <<slotVars, ts, victim, loopVars, terminal, conflict, kind>>

\* A final answer closes the turn to mail unless explicit work is pending; a
\* tool call or a follow-up opens it again.
SetDelivery(t, accepts) ==
  /\ At(t, "run")
  /\ active.task = t
  /\ states[active.state].accepts # accepts
  /\ ~accepts => \A i \in states[active.state].items : i.kind = "queue"
  /\ states' = [states EXCEPT ![active.state].accepts = accepts]
  /\ UNCHANGED <<active, mailbox, taskVars, loopVars, historyVars, kind>>

\* The run is over, by an answer or an error; a cancelled one just ends.
Return(t) ==
  /\ At(t, "run")
  /\ Goto(t, IF Cancelled(t) THEN "ended" ELSE "finish")
  /\ UNCHANGED <<slotVars, hold, ts, victim, loopVars, historyVars, kind>>

\* on_task_finished: the task leaves the slot.  If it is not there any more,
\* somebody else has taken it to abort it.
LeaveSlot(t) ==
  /\ At(t, "finish")
  /\ IF active.task = 0
     THEN Goto(t, "ended") /\ UNCHANGED <<active, ts, conflict>>
     ELSE /\ conflict' = IF active.task = t THEN "none" ELSE "stolen"
          /\ active' = [active EXCEPT !.task = 0]
          /\ ts' = [ts EXCEPT ![t] = active.state]
          /\ Goto(t, "announce")
  /\ UNCHANGED <<states, mailbox, hold, victim, loopVars, terminal,
                 waiting, kind>>

\* Mutants of Announce: what is still pending is not recorded; no event.
AnnounceForgetsInput(t) ==
  /\ At(t, "announce")
  /\ terminal' = [terminal EXCEPT ![t] = @ + 1]
  /\ Goto(t, "clear")
  /\ UNCHANGED <<slotVars, hold, ts, victim, loopVars, waiting, conflict, kind>>
AnnounceNothing(t) ==
  /\ At(t, "announce")
  /\ waiting' = waiting \ states[ts[t]].items
  /\ states' = [states EXCEPT ![ts[t]].items = {}]
  /\ Goto(t, "clear")
  /\ UNCHANGED <<active, mailbox, hold, ts, victim, loopVars, terminal,
                 conflict, kind>>

\* What is still pending is recorded, then TurnComplete or TurnAborted is sent.
Announce(t) ==
  /\ At(t, "announce")
  /\ waiting' = waiting \ states[ts[t]].items
  /\ states' = [states EXCEPT ![ts[t]].items = {}]
  /\ terminal' = [terminal EXCEPT ![t] = @ + 1]
  /\ Goto(t, "clear")
  /\ UNCHANGED <<active, mailbox, hold, ts, victim, loopVars, conflict, kind>>

\* Mutant of ClearSlot: the slot is cleared whosever turn is in it.
ClearSlotAlways(t) ==
  /\ At(t, "clear")
  /\ active' = NoTurn
  /\ Goto(t, "wake")
  /\ ts' = [ts EXCEPT ![t] = 0]
  /\ UNCHANGED <<states, mailbox, hold, victim, loopVars, historyVars, kind>>

\* The slot is cleared if it still holds this turn and no new task; only then
\* does the task look for waiting mail.
ClearSlot(t) ==
  /\ At(t, "clear")
  /\ LET own == active.task = 0 /\ active.state = ts[t]
     IN /\ active' = IF own THEN NoTurn ELSE active
        /\ Goto(t, IF own THEN "wake" ELSE "ended")
  /\ ts' = [ts EXCEPT ![t] = 0]
  /\ UNCHANGED <<states, mailbox, hold, victim, loopVars, historyVars, kind>>

-----------------------------------------------------------------------------
Submit ==
  \/ SteerInput
  \/ \E k \in {"regular", "other"} : SpawnTask(k)
  \/ StartIfIdle
  \/ \E last \in BOOLEAN : Interrupt(last)
  \/ \E k \in {"queue", "trigger"} : ReceiveMail(k)

\* What the loop, the guardian's task and a finished turn have in common.
SharedStep(p) == Kill(p) \/ Wake(p) \/ Reserve(p) \/ Begin(p) \/ Insert(p) \/ Start(p)

LoopStep ==
  \/ SharedStep(Loop)
  \/ RejectSettings
  \/ \E automatic \in BOOLEAN : ApplySettings(automatic)
  \/ AbortAll \/ AbortNothing

TurnStep(t) ==
  SharedStep(t) \/ Record(t) \/ Return(t) \/ LeaveSlot(t) \/ Announce(t) \/ ClearSlot(t)

\* The loop waits, no turn runs, and nobody is in the middle of anything.
AtRest == \A p \in Procs : pc[p] \in {"unborn", "idle", "ended", "dead"}
OutOfTurns == Len(kind) = MaxTurns /\ \E p \in Procs : pc[p] = "start"
\* The bounds are used up, the loop was shut down, or there was a conflict.
Over ==
  /\ AtRest \/ ~Apart \/ OutOfTurns
  /\ UNCHANGED vars

Next ==
  \/ Submit \/ InjectIfRunning
  \/ GuardianAborts \/ SharedStep(Guardian)
  \/ LoopStep
  \/ \E t \in Turns :
       TurnStep(t) \/ Drain(t) \/ \E accepts \in BOOLEAN : SetDelivery(t, accepts)
  \/ Over

Spec == Init /\ [][Next]_vars

\* Tokio polls every task that can go on, and a turn's requests and tools come
\* to an end.  Nothing need be submitted and the guardian need not act.
FairSpec ==
  /\ Spec
  /\ WF_vars(LoopStep) /\ WF_vars(SharedStep(Guardian))
  /\ \A t \in Turns : WF_vars(TurnStep(t))

-----------------------------------------------------------------------------
(* Properties: up to the first conflict                                    *)

\* A turn that runs and has not been cancelled is the one in the slot, so that
\* it can be steered and interrupted; hence no two such turns run at a time.
RunningIsActive ==
  Apart => \A t \in Turns : pc[t] \in RunPcs /\ ~Cancelled(t) => active.task = t

\* The finishing task and an abort race for the slot: each turn gets one
\* terminal event, from one of them, and none is left without.
OneTerminalEvent ==
  Apart => \A t \in Turns :
    /\ terminal[t] <= 1
    /\ /\ pc[t] \in {"ended", "dead"}
       /\ \A p \in Procs : victim[p] # t
       => terminal[t] = 1

\* The mailbox, somebody's hands, and the queues of turns somebody still owns.
InSight ==
  LET owned == {active.state} \cup {ts[p] : p \in Procs}
  IN mailbox \cup (UNION {hold[p] : p \in Procs})
             \cup (UNION {states[s].items : s \in owned \ {0}})

\* Steered input and mail are never lost: until they are recorded, or go with a
\* turn that is aborted, they are in sight of somebody who will take them.
InputKept == Apart => \A i \in waiting : i.kind # "item" => i \in InSight

\* A slot without a task belongs to someone who will fill or clear it: the
\* session cannot stay "not idle" with nothing running.
SlotIsOwned ==
  active # NoTurn /\ active.task = 0 =>
    \E p \in Procs : \/ pc[p] \in StartPcs
                     \/ pc[p] \in {"announce", "clear"} /\ ts[p] = active.state

\* Every turn that starts ends with its event, and the loop comes back from
\* every operation, although aborting one may need the 100 ms time-out.
TurnsEnd ==
  /\ \A t \in Turns : pc[t] = "run" ~> terminal[t] = 1 \/ ~Apart
  /\ pc[Loop] # "idle" ~> pc[Loop] = "idle" \/ ~Apart \/ OutOfTurns

-----------------------------------------------------------------------------
(* What comments and assertions promise and the code does not keep         *)

\* tasks/mod.rs asserts twice in start_task: debug_assert!(turn.task.is_none()).
SlotWasFree == conflict # "overwritten"

\* on_task_finished finishes the turn it was called for.
FinishesItsOwn == conflict # "stolen"

\* start_if_idle: the input queued in the reserved turn is run by that turn.
ReservationHolds == conflict # "stranded"

\* "Injects items into active work, or records them without starting a turn."
InjectedKept == Apart => \A i \in waiting : i.kind = "item" => i \in InSight

\* "Starts a regular turn when the session is idle and pending work is waiting."
PendingWorkStarts == AtRest /\ open => ~TriggerWaiting
=============================================================================
