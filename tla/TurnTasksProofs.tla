-------------------------- MODULE TurnTasksProofs ---------------------------
(***************************************************************************)
(* For every number of operations and turns: the safety properties of the  *)
(* turns of one Codex session.  Up to the first conflict the tasks that    *)
(* finish, abort and start turns keep the slot in order although each      *)
(* holds its lock for one step only.                                       *)
(***************************************************************************)
EXTENDS TurnTasks, SequenceTheorems, TLAPS

-----------------------------------------------------------------------------
(* The inductive invariant                                                 *)

Killing == {"kill", "killReplaced"}
Starting == {"begin", "insert", "start"}
OfLoop == {"idle", "prepare", "abort", "replace", "wake", "reserve"} \cup Killing \cup Starting
OfGuardian == {"idle", "kill", "wake", "reserve"} \cup Starting
OfTurns == {"unborn", "run", "record", "finish", "announce", "clear", "wake", "reserve",
            "ended", "dead"} \cup Starting

\* Where a task can be, and what it carries there.
Places ==
  /\ pc[Loop] \in OfLoop /\ (pc[Loop] = "prepare" => ops # 0)
  /\ pc[Guardian] \in OfGuardian
  /\ \A t \in Turns : pc[t] \in OfTurns /\ (pc[t] = "unborn" <=> t > Len(kind))
Carries ==
  \A p \in Procs :
    /\ victim[p] # 0 <=> pc[p] \in Killing
    /\ hold[p] # {} => pc[p] \in {"insert", "record"}
    /\ pc[p] \in {"prepare", "start", "announce", "clear"} \cup Killing => ts[p] # 0

\* The task in the slot runs and nobody aborts it.
SlotRuns ==
  active.task # 0 =>
    /\ active.state # 0
    /\ pc[active.task] \in RunPcs
    /\ ~Cancelled(active.task)
\* A turn that is being aborted has not announced its end, and one task aborts it.
VictimsAreApart ==
  \A p \in Procs : victim[p] # 0 =>
    /\ pc[victim[p]] \in {"run", "record", "finish", "ended"}
    /\ \A q \in Procs : victim[q] = victim[p] => q = p
RunsInSlot ==
  \A t \in Turns : pc[t] \in RunPcs /\ ~Cancelled(t) => active.task = t

\* A reserved slot and the task that will fill or clear it.
Reserved ==
  active # NoTurn /\ active.task = 0 =>
    \E p \in Procs : \/ pc[p] \in Starting
                     \/ pc[p] \in {"prepare", "announce", "clear"} /\ ts[p] = active.state

\* A turn's event has been sent or is still to come from its task or its aborter.
Untold(t) == \/ pc[t] \in {"unborn", "run", "record", "finish", "announce"}
             \/ pc[t] = "ended" /\ Cancelled(t)
Events == \A t \in Turns : terminal[t] = IF Untold(t) THEN 0 ELSE 1

\* Somebody will take what is queued in TurnState s: the turn in the slot, its
\* finisher or aborter, or the task that starts it.
Served(s) ==
  \/ active.state = s /\ active.task # 0
  \/ \E p \in Procs : ts[p] = s /\ pc[p] \in {"announce"} \cup Killing \cup Starting
Kept(x) ==
  \/ x \in mailbox
  \/ \E p \in Procs : x \in hold[p]
  \/ \E s \in 1..Len(states) : Served(s) /\ x \in states[s].items
AllKept == \A x \in waiting : x.kind # "item" => Kept(x)

Ordered == SlotRuns /\ VictimsAreApart /\ RunsInSlot
InOrder == Ordered /\ Events /\ AllKept
IInv == TypeOK /\ Places /\ Carries /\ Reserved /\ (Apart => InOrder)

-----------------------------------------------------------------------------
(* The TurnStates: what a step does to the queues of pending input         *)

\* One queue gets new contents; nothing else changes.
Put(q, s, I) == [q EXCEPT ![s].items = I]
\* Replacing the items of one TurnState leaves the others alone.
LEMMA PutItems ==
  ASSUME NEW q \in Seq(TurnStates), NEW s \in 1..Len(q), NEW I \in SUBSET Inputs
  PROVE  /\ Put(q, s, I) \in Seq(TurnStates)
         /\ Len(Put(q, s, I)) = Len(q)
         /\ \A r \in 1..Len(q) : Put(q, s, I)[r].items = IF r = s THEN I ELSE q[r].items
<1> DEFINE new == Put(q, s, I)
<1>1. q \in [1..Len(q) -> TurnStates] /\ Len(q) \in Nat
  OBVIOUS
<1>2. q[s] \in TurnStates
  BY <1>1
<1>3. [q[s] EXCEPT !.items = I] \in TurnStates /\ [q[s] EXCEPT !.items = I].items = I
  BY <1>2 DEF TurnStates
<1>4. new = [q EXCEPT ![s] = [q[s] EXCEPT !.items = I]]
  BY DEF Put
<1>5. new \in [1..Len(q) -> TurnStates]
  BY <1>1, <1>3, <1>4
<1>6. new \in Seq(TurnStates) /\ Len(new) = Len(q)
  BY <1>1, <1>5, IsASeq, LenProperties
<1>7. \A r \in 1..Len(q) : new[r].items = IF r = s THEN I ELSE q[r].items
  BY <1>1, <1>3, <1>4
<1> QED
  BY <1>6, <1>7

\* The state as SMT and Zenon need it.
LEMMA Typed ==
  ASSUME TypeOK
  PROVE  /\ Len(states) \in Nat /\ Len(kind) \in Nat /\ MaxTurns \in Nat /\ MaxOps \in Nat
         /\ active = [state |-> active.state, task |-> active.task]
         /\ active.state \in 0..Len(states) /\ active.task \in 0..Len(kind)
         /\ active.task # 0 => active.task \in Turns
         /\ active.state # 0 => active.state \in 1..Len(states)
         /\ \A r \in 1..Len(states) : states[r] \in TurnStates /\ states[r].items \in SUBSET Inputs
         /\ \A p \in Procs : victim[p] # 0 => victim[p] \in Turns
         /\ \A p \in Procs : ts[p] # 0 => ts[p] \in 1..Len(states)
<1>1. Len(states) \in Nat /\ Len(kind) \in Nat /\ Len(kind) <= MaxTurns /\ MaxTurns \in Nat /\ MaxOps \in Nat
  BY BoundsAssumption DEF TypeOK
<1>2. active \in [state : 0..Len(states), task : 0..Len(kind)]
  BY DEF TypeOK
<1>3. \A r \in 1..Len(states) : states[r] \in TurnStates
  BY DEF TypeOK
<1>4. \A r \in 1..Len(states) : states[r].items \in SUBSET Inputs
  BY <1>3 DEF TurnStates
<1>5. \A p \in Procs : victim[p] \in 0..Len(kind) /\ ts[p] \in 0..Len(states)
  BY DEF TypeOK
<1>6. \A t \in 0..Len(kind) : t # 0 => t \in Turns
  BY <1>1 DEF Turns
<1> QED
  BY <1>1, <1>2, <1>3, <1>4, <1>5, <1>6

\* get_or_insert_with(ActiveTurn::default) adds at most one TurnState, an empty one.
LEMMA SlotFacts ==
  ASSUME TypeOK
  PROVE  /\ StatesWithSlot \in Seq(TurnStates)
         /\ Len(StatesWithSlot) \in Nat /\ Len(StatesWithSlot) >= Len(states)
         /\ Slot \in 1..Len(StatesWithSlot)
         /\ \A r \in 1..Len(states) : StatesWithSlot[r] = states[r]
         /\ \A r \in 1..Len(StatesWithSlot) :
              r > Len(states) => StatesWithSlot[r].items = {}
         /\ active.state # 0 => Slot = active.state /\ StatesWithSlot = states
<1>1. states \in Seq(TurnStates) /\ active.state \in 0..Len(states) /\ Len(states) \in Nat
  BY Typed DEF TypeOK
<1>2. CASE active.state # 0
  BY <1>1, <1>2 DEF StatesWithSlot, Slot
<1>3. CASE active.state = 0
  <2>1. Fresh \in TurnStates /\ Fresh.items = {}
    BY DEF Fresh, TurnStates
  <2>2. /\ Append(states, Fresh) \in Seq(TurnStates)
        /\ Len(Append(states, Fresh)) = Len(states) + 1
        /\ \A r \in 1..Len(states) : Append(states, Fresh)[r] = states[r]
        /\ Append(states, Fresh)[Len(states) + 1] = Fresh
    BY <1>1, <2>1, AppendProperties
  <2>3. StatesWithSlot = Append(states, Fresh) /\ Slot = Len(states) + 1
    BY <1>3 DEF StatesWithSlot, Slot
  <2>4. Len(StatesWithSlot) = Len(states) + 1 /\ StatesWithSlot \in Seq(TurnStates)
    BY <2>2, <2>3
  <2>5. \A r \in 1..Len(StatesWithSlot) : r > Len(states) => r = Len(states) + 1
    BY <1>1, <2>4
  <2>6. \A r \in 1..Len(StatesWithSlot) : r > Len(states) => StatesWithSlot[r].items = {}
    BY <2>1, <2>2, <2>3, <2>5
  <2>7. Slot \in 1..Len(StatesWithSlot) /\ Len(StatesWithSlot) >= Len(states)
    BY <1>1, <2>3, <2>4
  <2>8. \A r \in 1..Len(states) : StatesWithSlot[r] = states[r]
    BY <2>2, <2>3
  <2> QED
    BY <1>1, <1>3, <2>4, <2>6, <2>7, <2>8
<1> QED
  BY <1>2, <1>3

\* get_pending_input moves what it takes and leaves the other queues alone.
LEMMA TakeOutFacts ==
  ASSUME TypeOK, TakeOut
  PROVE  /\ states' \in Seq(TurnStates) /\ Len(states') = Len(states)
         /\ mailbox' \subseteq Inputs /\ Takes \subseteq Inputs
         /\ \A x : x \in mailbox => x \in mailbox' \/ x \in Takes
         /\ \A r \in 1..Len(states) : \A x \in states[r].items :
              x \in states'[r].items \/ x \in Takes
<1>1. states \in Seq(TurnStates) /\ mailbox \subseteq Inputs
  BY DEF TypeOK
<1>2. CASE Accepts /\ active.state # 0
  <2>1. active.state \in 1..Len(states)
    BY <1>2, Typed
  <2>2. states' = Put(states, active.state, {}) /\ mailbox' = {}
    BY <1>2 DEF TakeOut, Put
  <2>3. Takes = mailbox \cup states[active.state].items
    BY <1>2 DEF Takes
  <2>4. /\ states' \in Seq(TurnStates) /\ Len(states') = Len(states)
        /\ \A r \in 1..Len(states) :
              states'[r].items = IF r = active.state THEN {} ELSE states[r].items
    BY <1>1, <2>1, <2>2, PutItems
  <2>5. Takes \subseteq Inputs
    BY <1>1, <2>1, <2>3, Typed
  <2> QED
    BY <2>2, <2>3, <2>4, <2>5
<1>3. CASE ~(Accepts /\ active.state # 0)
  <2>1. states' = states
    BY <1>3 DEF TakeOut
  <2>2. Takes = IF Accepts THEN mailbox ELSE {}
    BY <1>3 DEF Takes
  <2>3. mailbox' = IF Accepts THEN {} ELSE mailbox
    BY DEF TakeOut
  <2> QED
    BY <1>1, <2>1, <2>2, <2>3
<1> QED
  BY <1>2, <1>3

-----------------------------------------------------------------------------
(* Typing                                                                  *)

\* The input of an operation carries its number.
LEMMA InputTyped ==
  ASSUME TypeOK, ops < MaxOps, NEW k \in {"user", "queue", "trigger", "item"}
  PROVE  Input(k) \in Inputs
BY Typed DEF TypeOK, Input, Inputs

\* TurnStates are only ever added, and stay well-formed.
LEMMA StatesStep ==
  ASSUME TypeOK, Places, Carries, Apart => SlotRuns, [Next]_vars
  PROVE  states' \in Seq(TurnStates) /\ Len(states') \in Nat /\ Len(states') >= Len(states)
<1> DEFINE Grown == states' \in Seq(TurnStates) /\ Len(states') \in Nat /\ Len(states') >= Len(states)
<1>0. states \in Seq(TurnStates) /\ Len(states) \in Nat
  BY DEF TypeOK
<1>1. CASE SteerInput
  <2>1. active.state \in 1..Len(states) /\ Input("user") \in Inputs
    BY <1>1, Typed, InputTyped DEF SteerInput, Submission, At, SlotRuns
  <2>2. [items |-> states[active.state].items \cup {Input("user")}, accepts |-> TRUE] \in TurnStates
    BY <2>1, Typed DEF TurnStates
  <2> QED
    BY <1>1, <1>0, <2>1, <2>2 DEF SteerInput
<1>2. ASSUME NEW k \in {"regular", "other"}, SpawnTask(k) PROVE Grown
  BY <1>2, <1>0 DEF SpawnTask, slotVars, TakeTurn
<1>3. CASE StartIfIdle
  BY <1>3, <1>0, SlotFacts DEF StartIfIdle
<1>4. ASSUME NEW last \in BOOLEAN, Interrupt(last) PROVE Grown
  BY <1>4, <1>0 DEF Interrupt, slotVars, TakeTurn
<1>5. ASSUME NEW k \in {"queue", "trigger"}, ReceiveMail(k) PROVE Grown
  BY <1>5, <1>0 DEF ReceiveMail, slotVars, TakeTurn
<1>6. CASE GuardianAborts
  BY <1>6, <1>0 DEF GuardianAborts, slotVars, TakeTurn
<1>7. ASSUME NEW p \in Procs, Kill(p) PROVE Grown
  <2>1. states' = Put(states, ts[p], {}) /\ ts[p] \in 1..Len(states)
    BY <1>7, Typed DEF Kill, Put, At, Carries, Killing
  <2> QED
    BY <1>0, <2>1, PutItems
<1>8. ASSUME NEW p \in Procs, Wake(p) PROVE Grown
  BY <1>8, <1>0 DEF Wake, slotVars, TakeTurn
<1>9. ASSUME NEW p \in Procs, Reserve(p) PROVE Grown
  BY <1>9, <1>0, SlotFacts DEF Reserve
<1>10. ASSUME NEW p \in Procs, Begin(p) PROVE Grown
  BY <1>10, <1>0, TakeOutFacts DEF Begin
<1>11. ASSUME NEW p \in Procs, Insert(p) PROVE Grown
  <2>1. states' = Put(StatesWithSlot, Slot, StatesWithSlot[Slot].items \cup hold[p])
    BY <1>11 DEF Insert, Put
  <2>2. StatesWithSlot[Slot].items \cup hold[p] \in SUBSET Inputs
    <3>1. StatesWithSlot[Slot] \in TurnStates
      BY SlotFacts
    <3> QED
      BY <3>1, <1>11 DEF TypeOK, TurnStates
  <2> QED
    BY <1>0, <2>1, <2>2, SlotFacts, PutItems
<1>12. ASSUME NEW p \in Procs, Start(p) PROVE Grown
  BY <1>12, <1>0, SlotFacts DEF Start
<1>13. CASE RejectSettings
  BY <1>13, <1>0 DEF RejectSettings, slotVars, TakeTurn
<1>14. ASSUME NEW automatic \in BOOLEAN, ApplySettings(automatic) PROVE Grown
  <2> DEFINE queued == IF automatic THEN {[n |-> ops, kind |-> "user"]} ELSE {}
  <2>1. states' = Put(states, ts[Loop], states[ts[Loop]].items \cup queued)
    BY <1>14 DEF ApplySettings, Put
  <2>2. ts[Loop] \in 1..Len(states)
    BY <1>14, Typed DEF ApplySettings, At, Carries, Procs
  <2>3. [n |-> ops, kind |-> "user"] \in Inputs
    BY <1>14, Typed DEF ApplySettings, At, Places, TypeOK, Inputs
  <2>4. states[ts[Loop]].items \cup queued \in SUBSET Inputs
    BY <2>2, <2>3, Typed
  <2> QED
    BY <1>0, <2>1, <2>2, <2>4, PutItems
<1>15. CASE AbortAll
  BY <1>15, <1>0 DEF AbortAll, slotVars, TakeTurn
<1>16. CASE AbortNothing
  BY <1>16, <1>0 DEF AbortNothing, slotVars, TakeTurn
<1>17. ASSUME NEW t \in Turns, Return(t) PROVE Grown
  BY <1>17, <1>0 DEF Return, slotVars, TakeTurn
<1>18. ASSUME NEW t \in Turns, LeaveSlot(t) PROVE Grown
  BY <1>18, <1>0 DEF LeaveSlot, slotVars, TakeTurn
<1>19. ASSUME NEW t \in Turns, Announce(t) PROVE Grown
  <2>1. states' = Put(states, ts[t], {}) /\ ts[t] \in 1..Len(states)
    BY <1>19, Typed DEF Announce, Put, At, Carries, Procs
  <2> QED
    BY <1>0, <2>1, PutItems
<1>20. ASSUME NEW t \in Turns, ClearSlot(t) PROVE Grown
  BY <1>20, <1>0 DEF ClearSlot, slotVars, TakeTurn
<1>21. ASSUME NEW t \in Turns, Drain(t) PROVE Grown
  BY <1>21, <1>0, TakeOutFacts DEF Drain
<1>22. ASSUME NEW t \in Turns, NEW accepts \in BOOLEAN, SetDelivery(t, accepts) PROVE Grown
  <2>1. active.state \in 1..Len(states)
    BY <1>22, Typed, ProcsAssumption DEF SetDelivery, At, SlotRuns, Turns
  <2>2. [states[active.state] EXCEPT !.accepts = accepts] \in TurnStates
    BY <2>1, Typed DEF TurnStates
  <2> QED
    BY <1>22, <1>0, <2>1, <2>2 DEF SetDelivery
<1>23. CASE Over \/ UNCHANGED vars
  BY <1>23, <1>0 DEF Over, vars, slotVars
<1>24. CASE InjectIfRunning
  <2>1. active.state \in 1..Len(states) /\ Input("item") \in Inputs
    BY <1>24, Typed, InputTyped DEF InjectIfRunning
  <2>2. [items |-> states[active.state].items \cup {Input("item")}, accepts |-> TRUE] \in TurnStates
    BY <2>1, Typed DEF TurnStates
  <2> QED
    BY <1>24, <1>0, <2>1, <2>2 DEF InjectIfRunning
<1>25. ASSUME NEW t \in Turns, Record(t) PROVE Grown
  BY <1>25, <1>0 DEF Record, slotVars
<1> QED
  BY <1>1, <1>2, <1>3, <1>4, <1>5, <1>6, <1>7, <1>8, <1>9, <1>10, <1>11, <1>12, <1>13,
     <1>14, <1>15, <1>16, <1>17, <1>18, <1>19, <1>20, <1>21, <1>22, <1>23, <1>24, <1>25 DEF Next,
     Submit, LoopStep, TurnStep, SharedStep, Procs

\* Every step keeps the types.
TypeSlot ==
  /\ active \in [state : 0..Len(states), task : 0..Len(kind)]
  /\ states \in Seq(TurnStates)
  /\ ts \in [Procs -> 0..Len(states)]
  /\ victim \in [Procs -> 0..Len(kind)]
  /\ kind \in Seq(Kinds) /\ Len(kind) <= MaxTurns
TypeRest ==
  /\ mailbox \subseteq Inputs
  /\ pc \in [Procs -> Pcs]
  /\ hold \in [Procs -> SUBSET Inputs]
  /\ next \in Kinds
  /\ ops \in 0..MaxOps
  /\ open \in BOOLEAN
  /\ terminal \in [Turns -> Nat]
  /\ waiting \subseteq Inputs
  /\ conflict \in Conflicts
\* A step that leaves the slot, the tasks and what they carry alone keeps their types.
LEMMA TypeSlotKept ==
  ASSUME TypeOK, Len(states) \in Nat,
         states' \in Seq(TurnStates), Len(states') \in Nat, Len(states') >= Len(states),
         active' = active, ts' = ts, victim' = victim, kind' = kind
  PROVE  TypeSlot'
<1>1. 0..Len(states) \subseteq 0..Len(states')
  OBVIOUS
<1>2. ts \in [Procs -> 0..Len(states')]
  BY <1>1 DEF TypeOK
<1>3. active \in [state : 0..Len(states'), task : 0..Len(kind)]
  BY <1>1 DEF TypeOK
<1> QED
  BY <1>2, <1>3 DEF TypeSlot, TypeOK
\* Every step keeps TypeOK.
LEMMA TypeStep ==
  ASSUME TypeOK, Places, Carries, Apart => SlotRuns, [Next]_vars
  PROVE  TypeOK'
<1>a. states' \in Seq(TurnStates) /\ Len(states') \in Nat /\ Len(states') >= Len(states)
  BY StatesStep
<1>b. Len(states) \in Nat
  BY Typed
<1>c. Turns \subseteq Procs /\ Loop \in Procs /\ Guardian \in Procs
  BY DEF Procs
<1>1. CASE SteerInput
  <2>0. active' = active /\ ts' = ts /\ victim' = victim /\ kind' = kind
    BY <1>1 DEF SteerInput, slotVars, taskVars
  <2>1. TypeSlot'
    BY <1>a, <1>b, <2>0, TypeSlotKept
  <2>2. Input("user") \in Inputs
    BY <1>1, InputTyped DEF SteerInput, Submission
  <2>4. pc' \in [Procs -> Pcs]
    BY <1>1 DEF SteerInput, taskVars, Goto, TypeOK, Pcs
  <2>3. TypeRest'
    BY <1>1, <2>2, <2>4, Typed DEF SteerInput, TypeRest, TypeOK, slotVars, taskVars,
       loopVars, historyVars, Submission
  <2> QED
    BY <2>1, <2>3 DEF TypeOK, TypeSlot, TypeRest
<1>2. ASSUME NEW k \in {"regular", "other"}, SpawnTask(k) PROVE TypeOK'
  <2>0. active' = active /\ ts' = ts /\ victim' = victim /\ kind' = kind
    BY <1>2 DEF SpawnTask, slotVars
  <2>1. TypeSlot'
    BY <1>a, <1>b, <2>0, TypeSlotKept
  <2>3. pc' \in [Procs -> Pcs]
    BY <1>2 DEF SpawnTask, Goto, TypeOK, Pcs
  <2>4. UNCHANGED <<mailbox, hold, open, terminal, waiting, conflict>>
    BY <1>2 DEF SpawnTask, slotVars, historyVars
  <2>5. ops' \in 0..MaxOps /\ next' \in Kinds
    BY <1>2, Typed DEF SpawnTask, Submission, Kinds, TypeOK
  <2>2. TypeRest'
    BY <2>3, <2>4, <2>5 DEF TypeRest, TypeOK
  <2> QED
    BY <2>1, <2>2 DEF TypeOK, TypeSlot, TypeRest
<1>3. CASE StartIfIdle
  <2>0. active' = [state |-> Slot, task |-> 0] /\ ts' = [ts EXCEPT ![Loop] = Slot]
        /\ states' = StatesWithSlot /\ pc' = [pc EXCEPT ![Loop] = "prepare"]
    BY <1>3 DEF StartIfIdle, Goto
  <2>1. Slot \in 0..Len(states') /\ Len(states') \in Nat /\ Len(states) <= Len(states')
        /\ Len(states) \in Nat /\ states' \in Seq(TurnStates)
    BY <2>0, SlotFacts, Typed
  <2>2. ts' \in [Procs -> 0..Len(states')]
    <3>1. \A p \in Procs : ts[p] \in 0..Len(states')
      BY <2>1 DEF TypeOK
    <3> QED
      BY <3>1, <2>0, <2>1 DEF TypeOK
  <2>3. UNCHANGED <<mailbox, hold, victim, next, open, terminal, waiting, conflict, kind>>
    BY <1>3 DEF StartIfIdle, historyVars
  <2>4. active' \in [state : 0..Len(states'), task : 0..Len(kind')]
    BY <2>0, <2>1, <2>3, Typed
  <2>5. pc' \in [Procs -> Pcs]
    BY <2>0 DEF TypeOK, Pcs, StartPcs
  <2>6. ops' \in 0..MaxOps
    BY <1>3, Typed DEF StartIfIdle, Submission, TypeOK
  <2> QED
    BY <2>1, <2>2, <2>3, <2>4, <2>5, <2>6 DEF TypeOK
<1>4. ASSUME NEW last \in BOOLEAN, Interrupt(last) PROVE TypeOK'
  <2>0. active' = active /\ ts' = ts /\ victim' = victim /\ kind' = kind
    BY <1>4 DEF Interrupt, slotVars
  <2>1. TypeSlot'
    BY <1>a, <1>b, <2>0, TypeSlotKept
  <2>2. open' \in BOOLEAN
    BY <1>4 DEF Interrupt
  <2>4. pc' \in [Procs -> Pcs]
    BY <1>4, <1>c DEF Interrupt, Goto, TypeOK, Pcs
  <2>3. TypeRest'
    BY <1>4, <2>2, <2>4, Typed DEF Interrupt, Submission, TypeRest, TypeOK, slotVars,
       historyVars
  <2> QED
    BY <2>1, <2>3 DEF TypeOK, TypeSlot, TypeRest
<1>5. ASSUME NEW k \in {"queue", "trigger"}, ReceiveMail(k) PROVE TypeOK'
  <2>1. TypeSlot'
    BY <1>5, <1>a, <1>b, <1>c, Typed DEF ReceiveMail, TypeSlot, TypeOK
  <2>2. Input(k) \in Inputs
    BY <1>5, InputTyped DEF ReceiveMail, Submission
  <2>3. pc' \in [Procs -> Pcs]
    BY <1>5 DEF ReceiveMail, Goto, TypeOK, Pcs
  <2>4. mailbox' \subseteq Inputs /\ waiting' \subseteq Inputs
    BY <1>5, <2>2 DEF ReceiveMail, TypeOK
  <2>5. TypeRest'
    BY <1>5, <2>3, <2>4, Typed DEF ReceiveMail, Submission, TypeRest, TypeOK
  <2> QED
    BY <2>1, <2>5 DEF TypeOK, TypeSlot, TypeRest
<1>6. CASE GuardianAborts
  BY <1>6, <1>a, <1>b, <1>c, Typed DEF GuardianAborts, TakeTurn, NoTurn, Procs, TypeOK,
     slotVars, taskVars, loopVars, historyVars, At, Goto, Pcs, RunPcs, StartPcs, Rest,
     Conflicts
<1>7. ASSUME NEW p \in Procs, Kill(p) PROVE TypeOK'
  <2>1. victim[p] \in Turns
    BY <1>7, Typed DEF Kill, At, Carries, Killing
  <2>2. TypeSlot'
    BY <1>7, <1>a, <1>b, <1>c, Typed DEF Kill, TypeSlot, TypeOK
  <2>3. terminal' \in [Turns -> Nat]
    BY <1>7, <2>1 DEF Kill, TypeOK
  <2>4. pc' \in [Procs -> Pcs]
    BY <1>7, <1>c, <2>1 DEF Kill, TypeOK, Pcs, StartPcs
  <2>5. waiting' \subseteq Inputs
    BY <1>7 DEF Kill, TypeOK
  <2>6. TypeRest'
    BY <1>7, <2>3, <2>4, <2>5 DEF Kill, TypeRest, TypeOK, loopVars
  <2> QED
    BY <2>2, <2>6 DEF TypeOK, TypeSlot, TypeRest
<1>8. ASSUME NEW p \in Procs, Wake(p) PROVE TypeOK'
  BY <1>8, <1>a, <1>b, <1>c, Typed DEF Wake, TypeOK, slotVars, taskVars, loopVars,
     historyVars, At, Goto, Pcs, RunPcs, StartPcs, Rest, Conflicts
<1>9. ASSUME NEW p \in Procs, Reserve(p) PROVE TypeOK'
  <2>1. TypeSlot'
    BY <1>9, <1>a, <1>b, <1>c, Typed, SlotFacts DEF Reserve, TypeSlot, TypeOK, slotVars
  <2>3. pc' \in [Procs -> Pcs]
    BY <1>9 DEF Reserve, Goto, TypeOK, Pcs, RunPcs, StartPcs, Rest
  <2>2. TypeRest'
    BY <1>9, <2>3 DEF Reserve, TypeRest, TypeOK, loopVars, historyVars
  <2> QED
    BY <2>1, <2>2 DEF TypeOK, TypeSlot, TypeRest
<1>10. ASSUME NEW p \in Procs, Begin(p) PROVE TypeOK'
  BY <1>10, <1>a, <1>b, <1>c, Typed, TakeOutFacts DEF Begin, TypeOK, slotVars, taskVars,
     loopVars, historyVars, At, Goto, Pcs, RunPcs, StartPcs, Rest, Conflicts
<1>11. ASSUME NEW p \in Procs, Insert(p) PROVE TypeOK'
  <2>1. active' = [state |-> Slot, task |-> active.task] /\ Slot \in 0..Len(states')
    <3>1. active' = [state |-> Slot, task |-> active.task]
      BY <1>11, Typed DEF Insert
    <3>2. Len(states') = Len(StatesWithSlot)
      BY <1>11, SlotFacts DEF Insert
    <3> QED
      BY <3>1, <3>2, SlotFacts
  <2>2. ts' \in [Procs -> 0..Len(states')]
    BY <1>11, <1>a, <1>b, <2>1, Typed DEF Insert, TypeOK
  <2>3. TypeSlot'
    BY <1>11, <1>a, <2>1, <2>2, Typed DEF Insert, TypeSlot, TypeOK
  <2>4. TypeRest'
    BY <1>11, <1>c DEF Insert, TypeRest, TypeOK, loopVars, Goto, Pcs, StartPcs, Conflicts
  <2> QED
    BY <2>3, <2>4 DEF TypeOK, TypeSlot, TypeRest
<1>12. ASSUME NEW p \in Procs, Start(p) PROVE TypeOK'
  <2>1. kind' \in Seq(Kinds) /\ Len(kind') = Len(kind) + 1 /\ Len(kind') <= MaxTurns
    BY <1>12, Typed DEF Start, TypeOK, Kinds
  <2>s. /\ active' = [state |-> Slot, task |-> Len(kind) + 1] /\ states' = StatesWithSlot
        /\ ts' = [ts EXCEPT ![p] = 0] /\ victim' = victim
    BY <1>12 DEF Start
  <2>2. TypeSlot'
    BY <1>a, <1>b, <2>1, <2>s, Typed, SlotFacts DEF TypeSlot, TypeOK
  <2>h. hold' \in [Procs -> SUBSET Inputs]
    BY <1>12 DEF Start, TypeOK
  <2>p. pc' \in [Procs -> Pcs]
    BY <1>12 DEF Start, TypeOK, Pcs, RunPcs, Rest
  <2>3. TypeRest'
    BY <1>12, <1>c, <2>h, <2>p DEF Start, TypeRest, TypeOK, Conflicts, Kinds
  <2> QED
    BY <2>2, <2>3 DEF TypeOK, TypeSlot, TypeRest
<1>13. CASE RejectSettings
  BY <1>13, <1>a, <1>b, <1>c, Typed DEF RejectSettings, NoTurn, Procs, TypeOK, slotVars,
     taskVars, loopVars, historyVars, At, Goto, Pcs, RunPcs, StartPcs, Rest, Conflicts
<1>14. ASSUME NEW automatic \in BOOLEAN, ApplySettings(automatic) PROVE TypeOK'
  <2>1. [n |-> ops, kind |-> "user"] \in Inputs
    BY <1>14, Typed DEF ApplySettings, At, Places, TypeOK, Inputs
  <2>2. TypeSlot'
    BY <1>14, <1>a, <1>b, Typed DEF ApplySettings, TypeSlot, TypeOK
  <2>3. TypeRest'
    BY <1>14, <1>c, <2>1, Typed DEF ApplySettings, TypeRest, TypeOK, loopVars, Goto, Pcs,
       StartPcs
  <2> QED
    BY <2>2, <2>3 DEF TypeOK, TypeSlot, TypeRest
<1>15. CASE AbortAll
  BY <1>15, <1>a, <1>b, <1>c, Typed DEF AbortAll, TakeTurn, NoTurn, Procs, TypeOK,
     slotVars, taskVars, loopVars, historyVars, At, Goto, Pcs, RunPcs, StartPcs, Rest,
     Conflicts
<1>16. CASE AbortNothing
  BY <1>16, <1>a, <1>b, <1>c, Typed DEF AbortNothing, NoTurn, Procs, TypeOK, slotVars,
     taskVars, loopVars, historyVars, At, Goto, Pcs, RunPcs, StartPcs, Rest, Conflicts
<1>17. ASSUME NEW t \in Turns, Return(t) PROVE TypeOK'
  BY <1>17, <1>a, <1>b, <1>c, Typed DEF Return, TypeOK, slotVars, taskVars, loopVars,
     historyVars, At, Goto, Pcs, RunPcs, StartPcs, Rest, Conflicts
<1>18. ASSUME NEW t \in Turns, LeaveSlot(t) PROVE TypeOK'
  <2>1. active' = active \/ active' = [state |-> active.state, task |-> 0]
    BY <1>18, Typed DEF LeaveSlot
  <2>2. ts' \in [Procs -> 0..Len(states)]
    BY <1>18, Typed DEF LeaveSlot, TypeOK
  <2>3. TypeSlot'
    BY <1>18, <2>1, <2>2, Typed DEF LeaveSlot, TypeSlot, TypeOK
  <2>5. pc' \in [Procs -> Pcs]
    BY <1>18, <1>c DEF LeaveSlot, Goto, TypeOK, Pcs
  <2>4. TypeRest'
    BY <1>18, <2>5 DEF LeaveSlot, TypeRest, TypeOK, loopVars, Conflicts
  <2> QED
    BY <2>3, <2>4 DEF TypeOK, TypeSlot, TypeRest
<1>19. ASSUME NEW t \in Turns, Announce(t) PROVE TypeOK'
  <2>0. active' = active /\ ts' = ts /\ victim' = victim /\ kind' = kind
    BY <1>19 DEF Announce
  <2>1. TypeSlot'
    BY <1>a, <1>b, <2>0, TypeSlotKept
  <2>2. pc' \in [Procs -> Pcs]
    BY <1>19, <1>c DEF Announce, Goto, TypeOK, Pcs
  <2>3. TypeRest'
    BY <1>19, <2>2 DEF Announce, TypeRest, TypeOK, loopVars, Conflicts
  <2> QED
    BY <2>1, <2>3 DEF TypeOK, TypeSlot, TypeRest
<1>20. ASSUME NEW t \in Turns, ClearSlot(t) PROVE TypeOK'
  BY <1>20, <1>a, <1>b, <1>c, Typed DEF ClearSlot, NoTurn, Procs, TypeOK, slotVars,
     taskVars, loopVars, historyVars, At, Goto, Pcs, RunPcs, StartPcs, Rest, Conflicts
<1>21. ASSUME NEW t \in Turns, Drain(t) PROVE TypeOK'
  BY <1>21, <1>a, <1>b, <1>c, Typed, TakeOutFacts DEF Drain, TypeOK, slotVars, taskVars,
     loopVars, historyVars, At, Goto, Pcs, RunPcs, StartPcs, Rest, Conflicts
<1>22. ASSUME NEW t \in Turns, NEW accepts \in BOOLEAN, SetDelivery(t, accepts) PROVE TypeOK'
  <2>0. active' = active /\ ts' = ts /\ victim' = victim /\ kind' = kind
    BY <1>22 DEF SetDelivery, taskVars
  <2>1. TypeSlot'
    BY <1>a, <1>b, <2>0, TypeSlotKept
  <2>3. TypeRest'
    BY <1>22 DEF SetDelivery, TypeRest, TypeOK, taskVars, loopVars, historyVars
  <2> QED
    BY <2>1, <2>3 DEF TypeOK, TypeSlot, TypeRest
<1>23. CASE Over \/ UNCHANGED vars
  BY <1>23 DEF Over, vars, TypeOK, slotVars, taskVars, loopVars, historyVars
<1>24. CASE InjectIfRunning
  <2>0. active' = active /\ ts' = ts /\ victim' = victim /\ kind' = kind
    BY <1>24 DEF InjectIfRunning, taskVars
  <2>1. TypeSlot'
    BY <1>a, <1>b, <2>0, TypeSlotKept
  <2>3. waiting' \subseteq Inputs
    BY <1>24, InputTyped DEF InjectIfRunning, TypeOK
  <2>2. TypeRest'
    BY <1>24, <2>3, Typed DEF InjectIfRunning, TypeRest, TypeOK, taskVars
  <2> QED
    BY <2>1, <2>2 DEF TypeOK, TypeSlot, TypeRest
<1>25. ASSUME NEW t \in Turns, Record(t) PROVE TypeOK'
  BY <1>25, <1>c, Typed DEF Record, TypeOK, slotVars, loopVars, At, Goto, Pcs, RunPcs
<1> QED
  BY <1>1, <1>2, <1>3, <1>4, <1>5, <1>6, <1>7, <1>8, <1>9, <1>10, <1>11, <1>12, <1>13,
     <1>14, <1>15, <1>16, <1>17, <1>18, <1>19, <1>20, <1>21, <1>22, <1>23, <1>24, <1>25 DEF Next,
     Submit, LoopStep, TurnStep, SharedStep, Procs

\* No step takes a task to a place where it cannot be.
LEMMA PlacesStep ==
  ASSUME TypeOK, Places, Carries, Apart => SlotRuns /\ VictimsAreApart, [Next]_vars
  PROVE  Places'
<1>a. pc \in [Procs -> Pcs] /\ Turns \subseteq Procs /\ Loop \in Procs /\ Guardian \in Procs
  BY DEF TypeOK, Procs
<1>b. Loop # Guardian /\ Loop \notin Turns /\ Guardian \notin Turns
      /\ Loop # 0 /\ Guardian # 0 /\ 0 \notin Turns
  BY ProcsAssumption DEF Turns
<1>c. Procs = {Loop, Guardian} \cup Turns
  BY DEF Procs
<1>d. ops \in Nat
  BY DEF TypeOK
<1>1. CASE SteerInput
  BY <1>1, <1>a, <1>b, <1>c, <1>d DEF SteerInput, Submission, Places, OfLoop, OfGuardian,
     OfTurns, Killing, Starting, slotVars, taskVars, loopVars, historyVars, At, Goto, Rest
<1>2. ASSUME NEW k \in {"regular", "other"}, SpawnTask(k) PROVE Places'
  BY <1>2, <1>a, <1>b, <1>c, <1>d DEF SpawnTask, Submission, Places, OfLoop, OfGuardian,
     OfTurns, Killing, Starting, slotVars, taskVars, loopVars, historyVars, At, Goto, Rest
<1>3. CASE StartIfIdle
  BY <1>3, <1>a, <1>b, <1>c, <1>d DEF StartIfIdle, Submission, Places, OfLoop, OfGuardian,
     OfTurns, Killing, Starting, slotVars, taskVars, loopVars, historyVars, At, Goto, Rest
<1>4. ASSUME NEW last \in BOOLEAN, Interrupt(last) PROVE Places'
  BY <1>4, <1>a, <1>b, <1>c, <1>d DEF Interrupt, Submission, Places, OfLoop, OfGuardian,
     OfTurns, Killing, Starting, slotVars, taskVars, loopVars, historyVars, At, Goto, Rest
<1>5. ASSUME NEW k \in {"queue", "trigger"}, ReceiveMail(k) PROVE Places'
  BY <1>5, <1>a, <1>b, <1>c, <1>d DEF ReceiveMail, Submission, Places, OfLoop, OfGuardian,
     OfTurns, Killing, Starting, slotVars, taskVars, loopVars, historyVars, At, Goto, Rest
<1>6. CASE GuardianAborts
  BY <1>6, <1>a, <1>b, <1>c DEF GuardianAborts, TakeTurn, Places, OfLoop, OfGuardian,
     OfTurns, Killing, Starting, slotVars, taskVars, loopVars, historyVars, At, Goto, Rest
<1>7. ASSUME NEW p \in Procs, Kill(p) PROVE Places'
  <2>1. victim[p] \in Turns /\ pc[victim[p]] \in {"run", "record", "finish", "ended"}
    BY <1>7, Typed DEF Kill, At, Carries, Killing, VictimsAreApart
  <2>2. p \notin Turns
    BY <1>7 DEF Kill, At, Places, OfTurns, Starting
  <2> QED
    BY <1>7, <1>a, <1>b, <1>c, <2>1, <2>2 DEF Kill, Places, OfLoop, OfGuardian, OfTurns,
       Killing, Starting, loopVars, At
<1>8. ASSUME NEW p \in Procs, Wake(p) PROVE Places'
  BY <1>8, <1>a, <1>b, <1>c DEF Wake, Places, OfLoop, OfGuardian, OfTurns, Killing,
     Starting, slotVars, taskVars, loopVars, historyVars, At, Goto, Rest
<1>9. ASSUME NEW p \in Procs, Reserve(p) PROVE Places'
  BY <1>9, <1>a, <1>b, <1>c DEF Reserve, Places, OfLoop, OfGuardian, OfTurns, Killing,
     Starting, slotVars, taskVars, loopVars, historyVars, At, Goto, Rest
<1>10. ASSUME NEW p \in Procs, Begin(p) PROVE Places'
  BY <1>10, <1>a, <1>b, <1>c DEF Begin, Places, OfLoop, OfGuardian, OfTurns, Killing,
     Starting, slotVars, taskVars, loopVars, historyVars, At, Goto, Rest
<1>11. ASSUME NEW p \in Procs, Insert(p) PROVE Places'
  BY <1>11, <1>a, <1>b, <1>c DEF Insert, Places, OfLoop, OfGuardian, OfTurns, Killing,
     Starting, slotVars, taskVars, loopVars, historyVars, At, Goto, Rest
<1>12. ASSUME NEW p \in Procs, Start(p) PROVE Places'
  <2>1. Len(kind') = Len(kind) + 1 /\ Len(kind) + 1 \in Turns /\ Len(kind) \in Nat
    BY <1>12, Typed DEF Start, TypeOK, Turns
  <2>2. active.task # 0 => active.task \in Turns /\ pc[active.task] \in RunPcs
    BY <1>12, Typed DEF Start, At, SlotRuns
  <2>3. \A u \in Turns : u \in Nat
    BY DEF Turns
  <2> QED
    BY <1>12, <1>a, <1>b, <1>c, <2>1, <2>2, <2>3 DEF Start, Places, OfLoop, OfGuardian,
       OfTurns, Killing, Starting, RunPcs, At, Rest
<1>13. CASE RejectSettings
  BY <1>13, <1>a, <1>b, <1>c DEF RejectSettings, Places, OfLoop, OfGuardian, OfTurns,
     Killing, Starting, slotVars, taskVars, loopVars, historyVars, At, Goto, Rest
<1>14. ASSUME NEW automatic \in BOOLEAN, ApplySettings(automatic) PROVE Places'
  BY <1>14, <1>a, <1>b, <1>c DEF ApplySettings, Places, OfLoop, OfGuardian, OfTurns,
     Killing, Starting, slotVars, taskVars, loopVars, historyVars, At, Goto, Rest
<1>15. CASE AbortAll
  BY <1>15, <1>a, <1>b, <1>c DEF AbortAll, TakeTurn, Places, OfLoop, OfGuardian, OfTurns,
     Killing, Starting, slotVars, taskVars, loopVars, historyVars, At, Goto, Rest
<1>16. CASE AbortNothing
  BY <1>16, <1>a, <1>b, <1>c DEF AbortNothing, Places, OfLoop, OfGuardian, OfTurns,
     Killing, Starting, slotVars, taskVars, loopVars, historyVars, At, Goto, Rest
<1>17. ASSUME NEW t \in Turns, Return(t) PROVE Places'
  BY <1>17, <1>a, <1>b, <1>c DEF Return, Places, OfLoop, OfGuardian, OfTurns, Killing,
     Starting, slotVars, taskVars, loopVars, historyVars, At, Goto, Rest
<1>18. ASSUME NEW t \in Turns, LeaveSlot(t) PROVE Places'
  BY <1>18, <1>a, <1>b, <1>c DEF LeaveSlot, Places, OfLoop, OfGuardian, OfTurns, Killing,
     Starting, slotVars, taskVars, loopVars, historyVars, At, Goto, Rest
<1>19. ASSUME NEW t \in Turns, Announce(t) PROVE Places'
  BY <1>19, <1>a, <1>b, <1>c DEF Announce, Places, OfLoop, OfGuardian, OfTurns, Killing,
     Starting, slotVars, taskVars, loopVars, historyVars, At, Goto, Rest
<1>20. ASSUME NEW t \in Turns, ClearSlot(t) PROVE Places'
  BY <1>20, <1>a, <1>b, <1>c DEF ClearSlot, Places, OfLoop, OfGuardian, OfTurns, Killing,
     Starting, slotVars, taskVars, loopVars, historyVars, At, Goto, Rest
<1>21. ASSUME NEW t \in Turns, Drain(t) PROVE Places'
  BY <1>21, <1>a, <1>b, <1>c DEF Drain, Places, OfLoop, OfGuardian, OfTurns, Killing,
     Starting, slotVars, taskVars, loopVars, historyVars, At, Goto, Rest
<1>22. ASSUME NEW t \in Turns, NEW accepts \in BOOLEAN, SetDelivery(t, accepts) PROVE Places'
  BY <1>22, <1>a, <1>b, <1>c DEF SetDelivery, Places, OfLoop, OfGuardian, OfTurns,
     Killing, Starting, slotVars, taskVars, loopVars, historyVars, At, Goto, Rest
<1>23. CASE Over \/ UNCHANGED vars
  BY <1>23 DEF Over, vars, Places, slotVars, taskVars, loopVars, historyVars
<1>24. CASE InjectIfRunning
  BY <1>24, <1>d DEF InjectIfRunning, Places, taskVars
<1>25. ASSUME NEW t \in Turns, Record(t) PROVE Places'
  BY <1>25, <1>a, <1>b, <1>c DEF Record, Places, OfLoop, OfGuardian, OfTurns, Killing,
     Starting, loopVars, At, Goto
<1> QED
  BY <1>1, <1>2, <1>3, <1>4, <1>5, <1>6, <1>7, <1>8, <1>9, <1>10, <1>11, <1>12, <1>13,
     <1>14, <1>15, <1>16, <1>17, <1>18, <1>19, <1>20, <1>21, <1>22, <1>23, <1>24, <1>25 DEF Next,
     Submit, LoopStep, TurnStep, SharedStep, Procs

\* What a task carries it carries only where it should.
LEMMA CarriesStep ==
  ASSUME TypeOK, Places, Carries, Apart => SlotRuns /\ VictimsAreApart, [Next]_vars
  PROVE  Carries'
<1>a. /\ pc \in [Procs -> Pcs] /\ hold \in [Procs -> SUBSET Inputs]
      /\ ts \in [Procs -> 0..Len(states)] /\ victim \in [Procs -> 0..Len(kind)]
  BY DEF TypeOK
<1>b. Turns \subseteq Procs /\ Loop \in Procs /\ Guardian \in Procs
  BY DEF Procs
<1>c. Loop \notin Turns /\ Guardian \notin Turns /\ 0 \notin Turns /\ 0 \notin Procs
  BY ProcsAssumption DEF Turns, Procs
<1>1. CASE SteerInput
  BY <1>1, <1>a, <1>b, <1>c DEF SteerInput, Submission, Carries, Killing, slotVars,
     taskVars, loopVars, historyVars, At, Goto, Rest
<1>2. ASSUME NEW k \in {"regular", "other"}, SpawnTask(k) PROVE Carries'
  BY <1>2, <1>a, <1>b, <1>c DEF SpawnTask, Submission, Carries, Killing, slotVars,
     taskVars, loopVars, historyVars, At, Goto, Rest
<1>3. CASE StartIfIdle
  BY <1>3, <1>a, <1>b, <1>c, SlotFacts DEF StartIfIdle, Submission, Carries, Killing,
     slotVars, taskVars, loopVars, historyVars, At, Goto, Rest
<1>4. ASSUME NEW last \in BOOLEAN, Interrupt(last) PROVE Carries'
  BY <1>4, <1>a, <1>b, <1>c DEF Interrupt, Submission, Carries, Killing, slotVars,
     taskVars, loopVars, historyVars, At, Goto, Rest
<1>5. ASSUME NEW k \in {"queue", "trigger"}, ReceiveMail(k) PROVE Carries'
  BY <1>5, <1>a, <1>b, <1>c DEF ReceiveMail, Submission, Carries, Killing, slotVars,
     taskVars, loopVars, historyVars, At, Goto, Rest
<1>6. CASE GuardianAborts
  BY <1>6, <1>a, <1>b, <1>c DEF GuardianAborts, TakeTurn, SlotRuns, Carries, Killing,
     slotVars, taskVars, loopVars, historyVars, At, Goto, Rest
<1>7. ASSUME NEW p \in Procs, Kill(p) PROVE Carries'
  <2>1. victim[p] \in Turns /\ pc[victim[p]] \in {"run", "record", "finish", "ended"}
    BY <1>7, Typed DEF Kill, At, Carries, Killing, VictimsAreApart
  <2>2. p \notin Turns
    BY <1>7 DEF Kill, At, Places, OfTurns, Starting
  <2> QED
    BY <1>7, <1>a, <1>b, <1>c, <2>1, <2>2 DEF Kill, Carries, Killing, At
<1>8. ASSUME NEW p \in Procs, Wake(p) PROVE Carries'
  BY <1>8, <1>a, <1>b, <1>c DEF Wake, Carries, Killing, slotVars, taskVars, loopVars,
     historyVars, At, Goto, Rest
<1>9. ASSUME NEW p \in Procs, Reserve(p) PROVE Carries'
  <2>1. /\ \A q \in Procs : q # p => pc'[q] = pc[q]
        /\ pc'[p] \in {"begin", "idle", "ended"} /\ pc[p] = "reserve"
    BY <1>9, <1>a DEF Reserve, At, Goto, Rest
  <2>2. hold' = hold /\ ts' = ts /\ victim' = victim
    BY <1>9 DEF Reserve
  <2> QED
    BY <2>1, <2>2 DEF Carries, Killing
<1>10. ASSUME NEW p \in Procs, Begin(p) PROVE Carries'
  BY <1>10, <1>a, <1>b, <1>c DEF Begin, Carries, Killing, slotVars, taskVars, loopVars,
     historyVars, At, Goto, Rest
<1>11. ASSUME NEW p \in Procs, Insert(p) PROVE Carries'
  BY <1>11, <1>a, <1>b, <1>c, SlotFacts DEF Insert, Submission, Carries, Killing,
     slotVars, taskVars, loopVars, historyVars, At, Goto, Rest
<1>12. ASSUME NEW p \in Procs, Start(p) PROVE Carries'
  <2>0. Len(kind) + 1 \in Turns /\ Len(kind) + 1 > Len(kind)
    BY <1>12, Typed DEF Start, Turns
  <2>1. Len(kind) + 1 \in Turns /\ pc[Len(kind) + 1] = "unborn"
    BY <2>0 DEF Places
  <2>2. active.task # 0 => active.task \in Turns /\ pc[active.task] \in RunPcs
    BY <1>12, Typed DEF Start, At, SlotRuns
  <2> QED
    BY <1>12, <1>a, <1>b, <1>c, <2>1, <2>2 DEF Start, Carries, Killing, RunPcs, At, Rest
<1>13. CASE RejectSettings
  BY <1>13, <1>a, <1>b, <1>c DEF RejectSettings, Carries, Killing, slotVars, taskVars,
     loopVars, historyVars, At, Goto, Rest
<1>14. ASSUME NEW automatic \in BOOLEAN, ApplySettings(automatic) PROVE Carries'
  BY <1>14, <1>a, <1>b, <1>c DEF ApplySettings, Carries, Killing, slotVars, taskVars,
     loopVars, historyVars, At, Goto, Rest
<1>15. CASE AbortAll
  BY <1>15, <1>a, <1>b, <1>c DEF AbortAll, TakeTurn, SlotRuns, Carries, Killing, slotVars,
     taskVars, loopVars, historyVars, At, Goto, Rest
<1>16. CASE AbortNothing
  BY <1>16, <1>a, <1>b, <1>c DEF AbortNothing, Carries, Killing, slotVars, taskVars,
     loopVars, historyVars, At, Goto, Rest
<1>17. ASSUME NEW t \in Turns, Return(t) PROVE Carries'
  BY <1>17, <1>a, <1>b, <1>c DEF Return, Carries, Killing, slotVars, taskVars, loopVars,
     historyVars, At, Goto, Rest
<1>18. ASSUME NEW t \in Turns, LeaveSlot(t) PROVE Carries'
  BY <1>18, <1>a, <1>b, <1>c DEF LeaveSlot, SlotRuns, Carries, Killing, slotVars,
     taskVars, loopVars, historyVars, At, Goto, Rest
<1>19. ASSUME NEW t \in Turns, Announce(t) PROVE Carries'
  BY <1>19, <1>a, <1>b, <1>c DEF Announce, Carries, Killing, slotVars, taskVars, loopVars,
     historyVars, At, Goto, Rest
<1>20. ASSUME NEW t \in Turns, ClearSlot(t) PROVE Carries'
  BY <1>20, <1>a, <1>b, <1>c DEF ClearSlot, Carries, Killing, slotVars, taskVars,
     loopVars, historyVars, At, Goto, Rest
<1>21. ASSUME NEW t \in Turns, Drain(t) PROVE Carries'
  BY <1>21, <1>a, <1>b, <1>c DEF Drain, Carries, Killing, slotVars, taskVars, loopVars,
     historyVars, At, Goto, Rest
<1>22. ASSUME NEW t \in Turns, NEW accepts \in BOOLEAN, SetDelivery(t, accepts) PROVE Carries'
  BY <1>22, <1>a, <1>b, <1>c DEF SetDelivery, Carries, Killing, slotVars, taskVars,
     loopVars, historyVars, At, Goto, Rest
<1>23. CASE Over \/ UNCHANGED vars
  BY <1>23 DEF Over, vars, Carries, slotVars, taskVars, loopVars, historyVars
<1>24. CASE InjectIfRunning
  BY <1>24 DEF InjectIfRunning, Carries, taskVars
<1>25. ASSUME NEW t \in Turns, Record(t) PROVE Carries'
  BY <1>25, <1>a, <1>b, <1>c DEF Record, Carries, Killing, At, Goto
<1> QED
  BY <1>1, <1>2, <1>3, <1>4, <1>5, <1>6, <1>7, <1>8, <1>9, <1>10, <1>11, <1>12, <1>13,
     <1>14, <1>15, <1>16, <1>17, <1>18, <1>19, <1>20, <1>21, <1>22, <1>23, <1>24, <1>25 DEF Next,
     Submit, LoopStep, TurnStep, SharedStep, Procs

-----------------------------------------------------------------------------
(* The slot                                                                *)

\* Every step other than a stutter begins before the first conflict.
LEMMA StepsApart ==
  ASSUME Next
  PROVE  Apart \/ UNCHANGED vars
BY DEF Next, Submit, LoopStep, TurnStep, SharedStep, SteerInput, SpawnTask, StartIfIdle,
  Interrupt, ReceiveMail, Submission, GuardianAborts, Kill, Wake, Reserve, Begin, Insert,
  Start, RejectSettings, ApplySettings, AbortAll, AbortNothing, Return, LeaveSlot, Announce,
  ClearSlot, Drain, Record, InjectIfRunning, SetDelivery, Over, At

\* A task that does not run goes from one place to another.
LEMMA OrderedMove ==
  ASSUME TypeOK, Ordered, NEW p \in Procs,
         \A q \in Procs : q # p => pc'[q] = pc[q], pc[p] \in {"reserve", "insert"},
         pc'[p] \in {"ended", "idle", "begin", "start"}, victim' = victim,
         active'.task = active.task, active.task # 0 => active'.state # 0
  PROVE  Ordered'
<1>1. /\ pc \in [Procs -> Pcs]
      /\ active.task # 0 => active.task \in Turns
      /\ \A q \in Procs : victim[q] # 0 => victim[q] \in Turns
      /\ Turns \subseteq Procs
  BY Typed DEF TypeOK, Procs
<1>3. \A u \in Turns : Cancelled(u)' <=> Cancelled(u)
  BY DEF Cancelled
<1>4. SlotRuns'
  BY <1>1 DEF Ordered, SlotRuns, RunPcs, Cancelled
<1>5. RunsInSlot'
  BY <1>1, <1>3 DEF Ordered, RunsInSlot, RunPcs
<1>6. VictimsAreApart'
  BY <1>1 DEF Ordered, VictimsAreApart
<1> QED
  BY <1>4, <1>5, <1>6 DEF Ordered

\* The task in the slot is taken out of it to be aborted.
LEMMA OrderedTake ==
  ASSUME TypeOK, Ordered, NEW p \in Procs, p \notin Turns, victim[p] = 0,
         active.task # 0, active' = NoTurn,
         victim' = [victim EXCEPT ![p] = active.task],
         pc' = [pc EXCEPT ![p] = pc'[p]]
  PROVE  Ordered'
<1>1. /\ pc \in [Procs -> Pcs] /\ active.task \in Turns
      /\ \A q \in Procs : victim[q] # 0 => victim[q] \in Turns
      /\ Turns \subseteq Procs /\ victim \in [Procs -> 0..Len(kind)]
  BY Typed DEF TypeOK, Procs
<1>2. \A u \in Turns : pc'[u] = pc[u]
  BY <1>1
<1>3. \A u \in Turns : Cancelled(u)' <=> Cancelled(u) \/ u = active.task
  BY <1>1, 0 \notin Turns DEF Cancelled, Turns
<1>4. active'.task = 0
  BY DEF NoTurn
<1>5. RunsInSlot'
  BY <1>1, <1>2, <1>3 DEF Ordered, RunsInSlot
<1>6. VictimsAreApart'
  <2>1. \A q \in Procs : victim[q] # active.task
    BY DEF Ordered, SlotRuns, Cancelled
  <2>2. pc[active.task] \in {"run", "record", "finish", "ended"}
    BY DEF Ordered, SlotRuns, RunPcs
  <2> QED
    BY <1>1, <1>2, <2>1, <2>2 DEF Ordered, VictimsAreApart
<1> QED
  BY <1>4, <1>5, <1>6 DEF Ordered, SlotRuns

\* The task in the slot is the one turn that runs and is not being aborted.
LEMMA OrderedStep ==
  ASSUME TypeOK, Places, Carries, Apart => Ordered, [Next]_vars, Apart'
  PROVE  Ordered'
<1>a. /\ pc \in [Procs -> Pcs] /\ victim \in [Procs -> 0..Len(kind)] /\ Len(kind) \in Nat
      /\ active.task \in 0..Len(kind)
      /\ active.task # 0 => active.task \in Turns
      /\ active = [state |-> active.state, task |-> active.task]
      /\ \A p \in Procs : victim[p] # 0 => victim[p] \in Turns
  BY Typed DEF TypeOK
<1>b. Turns \subseteq Procs /\ Loop \in Procs /\ Guardian \in Procs
  BY DEF Procs
<1>c. Loop \notin Turns /\ Guardian \notin Turns /\ 0 \notin Turns /\ 0 \notin Procs
  BY ProcsAssumption DEF Turns, Procs
<1>1. CASE SteerInput
  BY <1>1, <1>a, <1>b, <1>c DEF SteerInput, Submission, NoTurn, Ordered, SlotRuns,
     VictimsAreApart, RunsInSlot, Cancelled, RunPcs, slotVars, taskVars, loopVars,
     historyVars, At, Goto, Rest
<1>2. ASSUME NEW k \in {"regular", "other"}, SpawnTask(k) PROVE Ordered'
  BY <1>2, <1>a, <1>b, <1>c DEF SpawnTask, Submission, NoTurn, Ordered, SlotRuns,
     VictimsAreApart, RunsInSlot, Cancelled, RunPcs, slotVars, taskVars, loopVars,
     historyVars, At, Goto, Rest
<1>3. CASE StartIfIdle
  BY <1>3, <1>a, <1>b, <1>c DEF StartIfIdle, Submission, NoTurn, Ordered, SlotRuns,
     VictimsAreApart, RunsInSlot, Cancelled, RunPcs, slotVars, taskVars, loopVars,
     historyVars, At, Goto, Rest
<1>4. ASSUME NEW last \in BOOLEAN, Interrupt(last) PROVE Ordered'
  BY <1>4, <1>a, <1>b, <1>c DEF Interrupt, Submission, NoTurn, Ordered, SlotRuns,
     VictimsAreApart, RunsInSlot, Cancelled, RunPcs, slotVars, taskVars, loopVars,
     historyVars, At, Goto, Rest
<1>5. ASSUME NEW k \in {"queue", "trigger"}, ReceiveMail(k) PROVE Ordered'
  BY <1>5, <1>a, <1>b, <1>c DEF ReceiveMail, Submission, NoTurn, Ordered, SlotRuns,
     VictimsAreApart, RunsInSlot, Cancelled, RunPcs, slotVars, taskVars, loopVars,
     historyVars, At, Goto, Rest
<1>6. CASE GuardianAborts
  <2>1. /\ active.task # 0 /\ active' = NoTurn
        /\ victim' = [victim EXCEPT ![Guardian] = active.task]
        /\ pc' = [pc EXCEPT ![Guardian] = pc'[Guardian]] /\ pc'[Guardian] \in Killing
        /\ pc[Guardian] \in {"idle", "abort", "replace"}
    BY <1>6, <1>a, <1>b DEF GuardianAborts, TakeTurn, At, Goto, Killing
  <2>2. Apart /\ victim[Guardian] = 0
    BY <1>6, <1>b, <2>1 DEF Carries, Killing, GuardianAborts, At
  <2> QED
    BY <1>a, <1>b, <1>c, <2>1, <2>2, OrderedTake
<1>7. ASSUME NEW p \in Procs, Kill(p) PROVE Ordered'
  <2>1. Ordered /\ victim[p] # 0 /\ p \notin Turns
    BY <1>7, <1>c DEF Kill, At, Carries, Killing, Places, OfTurns, Starting
  <2>2. victim[p] \in Turns /\ pc[victim[p]] \in {"run", "record", "finish", "ended"}
    BY <1>a, <2>1 DEF Ordered, VictimsAreApart
  <2>3. /\ \A q \in Procs : q # p /\ q # victim[p] => pc'[q] = pc[q]
        /\ pc'[victim[p]] \in {"ended", "dead"} /\ pc'[p] \notin RunPcs
        /\ victim' = [victim EXCEPT ![p] = 0] /\ active' = active
    BY <1>7, <1>a, <1>b, <2>1, <2>2 DEF Kill, RunPcs
  <2>4. \A u \in Turns : u # victim[p] => (Cancelled(u)' <=> Cancelled(u))
    BY <1>a, <1>c, <2>1, <2>3 DEF Cancelled
  <2>5. active.task # victim[p]
    BY <2>1, <2>2 DEF Ordered, SlotRuns, Cancelled
  <2>6. SlotRuns'
    <3>1. active.task # 0 => pc'[active.task] = pc[active.task]
      BY <1>a, <1>b, <2>1, <2>3, <2>5
    <3> QED
      BY <1>a, <2>1, <2>3, <3>1 DEF Ordered, SlotRuns, Cancelled
  <2>7. RunsInSlot'
    BY <1>a, <1>b, <2>1, <2>2, <2>3, <2>4 DEF Ordered, RunsInSlot, RunPcs
  <2>8. VictimsAreApart'
    BY <1>a, <1>b, <1>c, <2>1, <2>2, <2>3 DEF Ordered, VictimsAreApart
  <2> QED
    BY <2>6, <2>7, <2>8 DEF Ordered
<1>8. ASSUME NEW p \in Procs, Wake(p) PROVE Ordered'
  BY <1>8, <1>a, <1>b, <1>c DEF Wake, Ordered, SlotRuns, VictimsAreApart, RunsInSlot,
     Cancelled, RunPcs, slotVars, taskVars, loopVars, historyVars, At, Goto, Rest
<1>9. ASSUME NEW p \in Procs, Reserve(p) PROVE Ordered'
  <2>1. /\ \A q \in Procs : q # p => pc'[q] = pc[q]
        /\ pc[p] \in {"reserve", "insert"} /\ Ordered
        /\ pc'[p] \in {"ended", "idle", "begin", "start"} /\ victim' = victim
        /\ active'.task = active.task
        /\ active.task # 0 => active'.state # 0
    BY <1>9, <1>a, SlotFacts DEF Reserve, At, Goto, Rest, NoTurn, Ordered, SlotRuns
  <2> QED
    BY <1>a, <1>b, <2>1, OrderedMove
<1>10. ASSUME NEW p \in Procs, Begin(p) PROVE Ordered'
  BY <1>10, <1>a, <1>b, <1>c DEF Begin, Ordered, SlotRuns, VictimsAreApart, RunsInSlot,
     Cancelled, RunPcs, slotVars, taskVars, loopVars, historyVars, At, Goto, Rest
<1>11. ASSUME NEW p \in Procs, Insert(p) PROVE Ordered'
  <2>1. /\ \A q \in Procs : q # p => pc'[q] = pc[q]
        /\ pc[p] \in {"reserve", "insert"} /\ Ordered
        /\ pc'[p] \in {"ended", "idle", "begin", "start"} /\ victim' = victim
        /\ active'.task = active.task
        /\ active.task # 0 => active'.state # 0
    BY <1>11, <1>a, SlotFacts DEF Insert, At, Goto, Rest, NoTurn, Ordered, SlotRuns
  <2> QED
    BY <1>a, <1>b, <2>1, OrderedMove
<1>12. ASSUME NEW p \in Procs, Start(p) PROVE Ordered'
  <2>0. Len(kind) + 1 \in Turns /\ Len(kind) + 1 > Len(kind)
    BY <1>12, Typed DEF Start, Turns
  <2>1. Len(kind) + 1 \in Turns /\ pc[Len(kind) + 1] = "unborn"
    BY <2>0 DEF Places
  <2>2. active.task = 0 /\ active'.task = Len(kind) + 1 /\ active'.state = Slot /\ Slot # 0
    BY <1>12, SlotFacts DEF Start, At, Apart
  <2>3. \A q \in Procs : victim[q] # Len(kind) + 1
    BY Typed, <1>a
  <2>4. /\ \A q \in Procs : q # p /\ q # Len(kind) + 1 => pc'[q] = pc[q]
        /\ pc'[Len(kind) + 1] = "run" /\ pc'[p] \in {"idle", "ended"} /\ pc[p] = "start"
    BY <1>12, <1>b, <1>c, <2>1, <2>2 DEF Start, At, Rest
  <2>5. victim' = victim /\ Ordered
    BY <1>12 DEF Start, At
  <2>6. \A u \in Turns : Cancelled(u)' <=> Cancelled(u)
    BY <2>5 DEF Cancelled
  <2>7. SlotRuns'
    BY <1>b, <2>1, <2>2, <2>3, <2>4, <2>5 DEF SlotRuns, Cancelled, RunPcs
  <2>8. RunsInSlot'
    BY <1>b, <1>c, <2>1, <2>2, <2>4, <2>5, <2>6 DEF Ordered, RunsInSlot, RunPcs
  <2>9. VictimsAreApart'
    BY <1>a, <1>b, <1>c, <2>1, <2>3, <2>4, <2>5 DEF Ordered, VictimsAreApart
  <2> QED
    BY <2>7, <2>8, <2>9 DEF Ordered
<1>13. CASE RejectSettings
  BY <1>13, <1>a, <1>b, <1>c DEF RejectSettings, NoTurn, Ordered, SlotRuns,
     VictimsAreApart, RunsInSlot, Cancelled, RunPcs, slotVars, taskVars, loopVars,
     historyVars, At, Goto, Rest
<1>14. ASSUME NEW automatic \in BOOLEAN, ApplySettings(automatic) PROVE Ordered'
  BY <1>14, <1>a, <1>b, <1>c DEF ApplySettings, Ordered, SlotRuns, VictimsAreApart,
     RunsInSlot, Cancelled, RunPcs, slotVars, taskVars, loopVars, historyVars, At, Goto,
     Rest
<1>15. CASE AbortAll
  <2>1. /\ active.task # 0 /\ active' = NoTurn
        /\ victim' = [victim EXCEPT ![Loop] = active.task]
        /\ pc' = [pc EXCEPT ![Loop] = pc'[Loop]] /\ pc'[Loop] \in Killing
        /\ pc[Loop] \in {"idle", "abort", "replace"}
    BY <1>15, <1>a, <1>b DEF AbortAll, TakeTurn, At, Goto, Killing
  <2>2. Apart /\ victim[Loop] = 0
    BY <1>15, <1>b, <2>1 DEF Carries, Killing, AbortAll, At
  <2> QED
    BY <1>a, <1>b, <1>c, <2>1, <2>2, OrderedTake
<1>16. CASE AbortNothing
  BY <1>16, <1>a, <1>b, <1>c DEF AbortNothing, NoTurn, Ordered, SlotRuns, VictimsAreApart,
     RunsInSlot, Cancelled, RunPcs, slotVars, taskVars, loopVars, historyVars, At, Goto,
     Rest
<1>17. ASSUME NEW t \in Turns, Return(t) PROVE Ordered'
  BY <1>17, <1>a, <1>b, <1>c DEF Return, Ordered, SlotRuns, VictimsAreApart, RunsInSlot,
     Cancelled, RunPcs, slotVars, taskVars, loopVars, historyVars, At, Goto, Rest
<1>18. ASSUME NEW t \in Turns, LeaveSlot(t) PROVE Ordered'
  <2>1. CASE active.task = 0
    BY <1>18, <1>a, <1>b, <1>c, <2>1 DEF LeaveSlot, At, Goto, Ordered, SlotRuns,
       VictimsAreApart, RunsInSlot, Cancelled, RunPcs
  <2>2. CASE active.task # 0
    <3>1. active.task = t /\ active'.task = 0
      BY <1>18, <2>2, <1>a DEF LeaveSlot, Apart
    <3>2. pc' = [pc EXCEPT ![t] = "announce"] /\ victim' = victim /\ Ordered
      BY <1>18, <2>2 DEF LeaveSlot, Goto, At
    <3> QED
      BY <1>a, <1>b, <1>c, <2>2, <3>1, <3>2 DEF Ordered, SlotRuns, VictimsAreApart,
         RunsInSlot, Cancelled, RunPcs
  <2> QED
    BY <2>1, <2>2
<1>19. ASSUME NEW t \in Turns, Announce(t) PROVE Ordered'
  BY <1>19, <1>a, <1>b, <1>c DEF Announce, Ordered, SlotRuns, VictimsAreApart, RunsInSlot,
     Cancelled, RunPcs, slotVars, taskVars, loopVars, historyVars, At, Goto, Rest
<1>20. ASSUME NEW t \in Turns, ClearSlot(t) PROVE Ordered'
  BY <1>20, <1>a, <1>b, <1>c DEF ClearSlot, NoTurn, Ordered, SlotRuns, VictimsAreApart,
     RunsInSlot, Cancelled, RunPcs, slotVars, taskVars, loopVars, historyVars, At, Goto,
     Rest
<1>21. ASSUME NEW t \in Turns, Drain(t) PROVE Ordered'
  BY <1>21, <1>a, <1>b, <1>c DEF Drain, Ordered, SlotRuns, VictimsAreApart, RunsInSlot,
     Cancelled, RunPcs, slotVars, taskVars, loopVars, historyVars, At, Goto, Rest
<1>22. ASSUME NEW t \in Turns, NEW accepts \in BOOLEAN, SetDelivery(t, accepts) PROVE Ordered'
  BY <1>22, <1>a, <1>b, <1>c DEF SetDelivery, Ordered, SlotRuns, VictimsAreApart,
     RunsInSlot, Cancelled, RunPcs, slotVars, taskVars, loopVars, historyVars, At, Goto,
     Rest
<1>23. CASE Over \/ UNCHANGED vars
  BY <1>23 DEF Over, vars, Apart, SlotRuns, VictimsAreApart, RunsInSlot, Cancelled,
     RunPcs, Ordered, slotVars, taskVars, loopVars, historyVars
<1>24. CASE InjectIfRunning
  BY <1>24 DEF InjectIfRunning, Ordered, SlotRuns, VictimsAreApart, RunsInSlot, Cancelled,
     taskVars
<1>25. ASSUME NEW t \in Turns, Record(t) PROVE Ordered'
  BY <1>25, <1>a, <1>b, <1>c DEF Record, Ordered, SlotRuns, VictimsAreApart, RunsInSlot,
     Cancelled, RunPcs, slotVars, At, Goto
<1> QED
  BY <1>1, <1>2, <1>3, <1>4, <1>5, <1>6, <1>7, <1>8, <1>9, <1>10, <1>11, <1>12, <1>13,
     <1>14, <1>15, <1>16, <1>17, <1>18, <1>19, <1>20, <1>21, <1>22, <1>23, <1>24, <1>25 DEF Next,
     Submit, LoopStep, TurnStep, SharedStep, Procs

\* Whoever is to fill or clear the slot stays where it will do so.
LEMMA ReservedStep ==
  ASSUME TypeOK, Places, Carries, Reserved, Apart => Ordered, [Next]_vars
  PROVE  Reserved'
<1>a. pc \in [Procs -> Pcs] /\ ts \in [Procs -> 0..Len(states)]
      /\ active = [state |-> active.state, task |-> active.task]
  BY Typed DEF TypeOK
<1>b. Turns \subseteq Procs /\ Loop \in Procs /\ Guardian \in Procs
  BY DEF Procs
<1>c. Loop \notin Turns /\ Guardian \notin Turns /\ 0 \notin Turns
  BY ProcsAssumption DEF Turns
<1>1. CASE SteerInput
  BY <1>1, <1>a, <1>b, <1>c DEF SteerInput, Submission, Reserved, Starting, slotVars,
     taskVars, loopVars, historyVars, At, Goto, Rest
<1>2. ASSUME NEW k \in {"regular", "other"}, SpawnTask(k) PROVE Reserved'
  BY <1>2, <1>a, <1>b, <1>c DEF SpawnTask, Submission, Reserved, Starting, slotVars,
     taskVars, loopVars, historyVars, At, Goto, Rest
<1>3. CASE StartIfIdle
  <2>1. active'.state = Slot /\ pc'[Loop] = "prepare" /\ ts'[Loop] = Slot
    BY <1>3, <1>a, <1>b, <1>c DEF StartIfIdle, Goto
  <2> QED
    BY <1>b, <2>1 DEF Reserved
<1>4. ASSUME NEW last \in BOOLEAN, Interrupt(last) PROVE Reserved'
  BY <1>4, <1>a, <1>b, <1>c DEF Interrupt, Submission, Reserved, Starting, slotVars,
     taskVars, loopVars, historyVars, At, Goto, Rest
<1>5. ASSUME NEW k \in {"queue", "trigger"}, ReceiveMail(k) PROVE Reserved'
  BY <1>5, <1>a, <1>b, <1>c DEF ReceiveMail, Submission, Reserved, Starting, slotVars,
     taskVars, loopVars, historyVars, At, Goto, Rest
<1>6. CASE GuardianAborts
  BY <1>6 DEF GuardianAborts, TakeTurn, Reserved
<1>7. ASSUME NEW p \in Procs, Kill(p) PROVE Reserved'
  <2>1. Ordered /\ victim[p] # 0 /\ p \notin Turns
    BY <1>7, <1>c DEF Kill, At, Carries, Killing, Places, OfTurns, Starting
  <2>2. victim[p] \in Turns /\ pc[victim[p]] \in {"run", "record", "finish", "ended"}
    BY Typed, <2>1 DEF Ordered, VictimsAreApart
  <2>3. /\ \A q \in Procs : q # p /\ q # victim[p] => pc'[q] = pc[q] /\ ts'[q] = ts[q]
        /\ active' = active /\ pc[p] \in Killing
    BY <1>7, <1>a, <1>b, <2>1, <2>2 DEF Kill, At, Killing
  <2> QED
    BY <2>2, <2>3 DEF Reserved, Starting, Killing
<1>8. ASSUME NEW p \in Procs, Wake(p) PROVE Reserved'
  BY <1>8, <1>a, <1>b, <1>c DEF Wake, Reserved, Starting, slotVars, taskVars, loopVars,
     historyVars, At, Goto, Rest
<1>9. ASSUME NEW p \in Procs, Reserve(p) PROVE Reserved'
  <2>1. active' = active \/ pc'[p] = "begin"
    BY <1>9, <1>a, <1>b, <1>c DEF Reserve, Goto
  <2>2. active' # NoTurn => active # NoTurn \/ pc'[p] = "begin"
    BY <2>1
  <2>3. \A q \in Procs : q # p => pc'[q] = pc[q]
    BY <1>9, <1>a, <1>b, <1>c DEF Reserve, Goto
  <2> QED
    BY <1>9, <1>a, <1>b, <1>c, <2>1, <2>3 DEF Reserve, At, taskVars, Reserved, Starting
<1>10. ASSUME NEW p \in Procs, Begin(p) PROVE Reserved'
  BY <1>10, <1>a, <1>b, <1>c DEF Begin, Reserved, Starting, slotVars, taskVars, loopVars,
     historyVars, At, Goto, Rest
<1>11. ASSUME NEW p \in Procs, Insert(p) PROVE Reserved'
  <2>1. pc'[p] = "start"
    BY <1>11, <1>a, <1>b, <1>c DEF Insert, Goto
  <2> QED
    BY <2>1 DEF Reserved, Starting
<1>12. ASSUME NEW p \in Procs, Start(p) PROVE Reserved'
  <2>1. active'.task # 0
    BY <1>12, Typed DEF Start
  <2> QED
    BY <2>1 DEF Reserved
<1>13. CASE RejectSettings
  <2>1. CASE active.task = 0 /\ active.state = ts[Loop]
    BY <1>13, <2>1 DEF RejectSettings, Reserved
  <2>2. CASE ~(active.task = 0 /\ active.state = ts[Loop])
    BY <1>13, <1>a, <1>b, <1>c, <2>2 DEF RejectSettings, At, Goto, Reserved, Starting
  <2> QED
    BY <2>1, <2>2
<1>14. ASSUME NEW automatic \in BOOLEAN, ApplySettings(automatic) PROVE Reserved'
  BY <1>14, <1>a, <1>b, <1>c DEF ApplySettings, Reserved, Starting, slotVars, taskVars,
     loopVars, historyVars, At, Goto, Rest
<1>15. CASE AbortAll
  BY <1>15 DEF AbortAll, TakeTurn, Reserved
<1>16. CASE AbortNothing
  BY <1>16 DEF AbortNothing, Reserved
<1>17. ASSUME NEW t \in Turns, Return(t) PROVE Reserved'
  BY <1>17, <1>a, <1>b, <1>c DEF Return, Reserved, Starting, slotVars, taskVars, loopVars,
     historyVars, At, Goto, Rest
<1>18. ASSUME NEW t \in Turns, LeaveSlot(t) PROVE Reserved'
  <2>1. CASE active.task = 0
    BY <1>18, <1>a, <1>b, <1>c, <2>1 DEF LeaveSlot, At, Goto, Reserved, Starting
  <2>2. CASE active.task # 0
    <3>1. active'.state = active.state /\ pc'[t] = "announce" /\ ts'[t] = active.state
      BY <1>18, <1>a, <1>b, <1>c, <2>2 DEF LeaveSlot, Goto
    <3> QED
      BY <1>b, <3>1 DEF Reserved
  <2> QED
    BY <2>1, <2>2
<1>19. ASSUME NEW t \in Turns, Announce(t) PROVE Reserved'
  BY <1>19, <1>a, <1>b, <1>c DEF Announce, Reserved, Starting, slotVars, taskVars,
     loopVars, historyVars, At, Goto, Rest
<1>20. ASSUME NEW t \in Turns, ClearSlot(t) PROVE Reserved'
  <2>1. CASE active.task = 0 /\ active.state = ts[t]
    BY <1>20, <2>1 DEF ClearSlot, Reserved
  <2>2. CASE ~(active.task = 0 /\ active.state = ts[t])
    BY <1>20, <1>a, <1>b, <1>c, <2>2 DEF ClearSlot, At, Goto, Reserved, Starting
  <2> QED
    BY <2>1, <2>2
<1>21. ASSUME NEW t \in Turns, Drain(t) PROVE Reserved'
  BY <1>21, <1>a, <1>b, <1>c DEF Drain, Reserved, Starting, slotVars, taskVars, loopVars,
     historyVars, At, Goto, Rest
<1>22. ASSUME NEW t \in Turns, NEW accepts \in BOOLEAN, SetDelivery(t, accepts) PROVE Reserved'
  BY <1>22, <1>a, <1>b, <1>c DEF SetDelivery, Reserved, Starting, slotVars, taskVars,
     loopVars, historyVars, At, Goto, Rest
<1>23. CASE Over \/ UNCHANGED vars
  BY <1>23 DEF Over, vars, Reserved, slotVars, taskVars, loopVars, historyVars
<1>24. CASE InjectIfRunning
  BY <1>24 DEF InjectIfRunning, Reserved, taskVars
<1>25. ASSUME NEW t \in Turns, Record(t) PROVE Reserved'
  BY <1>25, <1>a, <1>b, <1>c DEF Record, Reserved, Starting, slotVars, At, Goto
<1> QED
  BY <1>1, <1>2, <1>3, <1>4, <1>5, <1>6, <1>7, <1>8, <1>9, <1>10, <1>11, <1>12, <1>13,
     <1>14, <1>15, <1>16, <1>17, <1>18, <1>19, <1>20, <1>21, <1>22, <1>23, <1>24, <1>25 DEF Next,
     Submit, LoopStep, TurnStep, SharedStep, Procs

\* One terminal event per turn, from the task or from whoever aborts it.
LEMMA EventsStep ==
  ASSUME TypeOK, Places, Carries, Apart => Ordered /\ Events, [Next]_vars, Apart'
  PROVE  Events'
<1>a. pc \in [Procs -> Pcs] /\ victim \in [Procs -> 0..Len(kind)] /\ terminal \in [Turns -> Nat]
  BY DEF TypeOK
<1>b. Turns \subseteq Procs /\ Loop \in Procs /\ Guardian \in Procs
  BY DEF Procs
<1>c. Loop \notin Turns /\ Guardian \notin Turns /\ 0 \notin Turns /\ 0 \notin Procs
  BY ProcsAssumption DEF Turns, Procs
<1>d. Apart => Ordered /\ Events
  OBVIOUS
<1>1. CASE SteerInput
  BY <1>1, <1>a, <1>b, <1>c, <1>d DEF SteerInput, Submission, Events, Untold, Cancelled,
     slotVars, taskVars, loopVars, historyVars, At, Goto, Rest
<1>2. ASSUME NEW k \in {"regular", "other"}, SpawnTask(k) PROVE Events'
  BY <1>2, <1>a, <1>b, <1>c, <1>d DEF SpawnTask, Submission, Events, Untold, Cancelled,
     slotVars, taskVars, loopVars, historyVars, At, Goto, Rest
<1>3. CASE StartIfIdle
  BY <1>3, <1>a, <1>b, <1>c, <1>d DEF StartIfIdle, Submission, Events, Untold, Cancelled,
     slotVars, taskVars, loopVars, historyVars, At, Goto, Rest
<1>4. ASSUME NEW last \in BOOLEAN, Interrupt(last) PROVE Events'
  BY <1>4, <1>a, <1>b, <1>c, <1>d DEF Interrupt, Submission, Events, Untold, Cancelled,
     slotVars, taskVars, loopVars, historyVars, At, Goto, Rest
<1>5. ASSUME NEW k \in {"queue", "trigger"}, ReceiveMail(k) PROVE Events'
  BY <1>5, <1>a, <1>b, <1>c, <1>d DEF ReceiveMail, Submission, Events, Untold, Cancelled,
     slotVars, taskVars, loopVars, historyVars, At, Goto, Rest
<1>6. CASE GuardianAborts
  <2>1. /\ active.task # 0 /\ terminal' = terminal
        /\ victim' = [victim EXCEPT ![Guardian] = active.task] /\ victim[Guardian] = 0
        /\ \A u \in Turns : pc'[u] = pc[u]
    BY <1>6, <1>a, <1>b, <1>c, <1>d DEF GuardianAborts, TakeTurn, At, Goto, historyVars,
       Carries, Killing
  <2>2. Ordered /\ Events
    BY <1>6 DEF GuardianAborts, At
  <2>3. \A u \in Turns : Cancelled(u)' <=> Cancelled(u) \/ u = active.task
    BY <1>a, <1>b, <1>c, <2>1 DEF Cancelled
  <2>4. active.task \in Turns /\ pc[active.task] \in RunPcs
    BY <2>1, <2>2, Typed DEF Ordered, SlotRuns
  <2> QED
    BY <2>1, <2>2, <2>3, <2>4 DEF Events, Untold, RunPcs
<1>7. ASSUME NEW p \in Procs, Kill(p) PROVE Events'
  <2>1. Ordered /\ Events /\ victim[p] # 0 /\ p \notin Turns
    BY <1>7, <1>c DEF Kill, At, Carries, Killing, Places, OfTurns, Starting
  <2>2. PICK v \in Turns : v = victim[p] /\ pc[v] \in {"run", "record", "finish", "ended"}
    BY Typed, <2>1 DEF Ordered, VictimsAreApart
  <2>3. /\ \A u \in Turns : u # v => pc'[u] = pc[u]
        /\ pc'[v] \in {"ended", "dead"}
        /\ victim' = [victim EXCEPT ![p] = 0]
        /\ terminal' = [terminal EXCEPT ![v] = @ + 1]
    BY <1>7, <1>a, <1>b, <2>1, <2>2 DEF Kill
  <2>4. \A u \in Turns : u # v => (Cancelled(u)' <=> Cancelled(u))
    BY <1>a, <1>c, <2>1, <2>2, <2>3 DEF Cancelled
  <2>5. \A q \in Procs : victim'[q] # v
    BY <1>a, <1>c, <2>1, <2>2, <2>3 DEF Ordered, VictimsAreApart
  <2>6. terminal[v] = 0
    BY <2>1, <2>2 DEF Events, Untold, Cancelled
  <2>7. \A u \in Turns : terminal'[u] = IF Untold(u)' THEN 0 ELSE 1
    <3>1. terminal'[v] = 1 /\ ~Untold(v)'
      BY <1>a, <2>3, <2>5, <2>6 DEF Untold, Cancelled
    <3>2. ASSUME NEW u \in Turns, u # v
          PROVE  terminal'[u] = IF Untold(u)' THEN 0 ELSE 1
      BY <1>a, <2>1, <2>3, <2>4, <3>2 DEF Events, Untold
    <3> QED
      BY <3>1, <3>2
  <2> QED
    BY <2>7 DEF Events
<1>8. ASSUME NEW p \in Procs, Wake(p) PROVE Events'
  <2>1. /\ pc' = [pc EXCEPT ![p] = pc'[p]]
        /\ pc[p] \in {"clear", "wake", "reserve", "begin", "insert"}
        /\ pc'[p] \in {"wake", "ended", "idle", "reserve", "begin", "insert", "start"}
        /\ p \in Turns => pc'[p] # "idle"
        /\ victim' = victim /\ terminal' = terminal /\ Events /\ Ordered
    BY <1>8, <1>a, <1>b DEF Wake, Goto, At, historyVars, Rest
  <2>2. \A u \in Turns : Cancelled(u)' <=> Cancelled(u)
    BY <2>1 DEF Cancelled
  <2>3. ~Cancelled(p)
    BY <1>b, <1>c, <2>1 DEF Ordered, VictimsAreApart, Cancelled
  <2>4. \A u \in Turns : u # p => pc'[u] = pc[u]
    BY <1>8, <1>a, <1>b DEF Wake, Goto
  <2> QED
    BY <2>1, <2>2, <2>3, <2>4 DEF Events, Untold
<1>9. ASSUME NEW p \in Procs, Reserve(p) PROVE Events'
  <2>1. /\ pc' = [pc EXCEPT ![p] = pc'[p]]
        /\ pc[p] \in {"clear", "wake", "reserve", "begin", "insert"}
        /\ pc'[p] \in {"wake", "ended", "idle", "reserve", "begin", "insert", "start"}
        /\ p \in Turns => pc'[p] # "idle"
        /\ victim' = victim /\ terminal' = terminal /\ Events /\ Ordered
    BY <1>9, <1>a, <1>b DEF Reserve, Goto, At, historyVars, Rest
  <2>2. \A u \in Turns : Cancelled(u)' <=> Cancelled(u)
    BY <2>1 DEF Cancelled
  <2>3. ~Cancelled(p)
    BY <1>b, <1>c, <2>1 DEF Ordered, VictimsAreApart, Cancelled
  <2>4. \A u \in Turns : u # p => pc'[u] = pc[u]
    BY <1>9, <1>a, <1>b DEF Reserve, Goto
  <2> QED
    BY <2>1, <2>2, <2>3, <2>4 DEF Events, Untold
<1>10. ASSUME NEW p \in Procs, Begin(p) PROVE Events'
  <2>1. /\ pc' = [pc EXCEPT ![p] = pc'[p]]
        /\ pc[p] \in {"clear", "wake", "reserve", "begin", "insert"}
        /\ pc'[p] \in {"wake", "ended", "idle", "reserve", "begin", "insert", "start"}
        /\ p \in Turns => pc'[p] # "idle"
        /\ victim' = victim /\ terminal' = terminal /\ Events /\ Ordered
    BY <1>10, <1>a, <1>b DEF Begin, Goto, At, historyVars, Rest
  <2>2. \A u \in Turns : Cancelled(u)' <=> Cancelled(u)
    BY <2>1 DEF Cancelled
  <2>3. ~Cancelled(p)
    BY <1>b, <1>c, <2>1 DEF Ordered, VictimsAreApart, Cancelled
  <2>4. \A u \in Turns : u # p => pc'[u] = pc[u]
    BY <1>10, <1>a, <1>b DEF Begin, Goto
  <2> QED
    BY <2>1, <2>2, <2>3, <2>4 DEF Events, Untold
<1>11. ASSUME NEW p \in Procs, Insert(p) PROVE Events'
  <2>1. /\ pc' = [pc EXCEPT ![p] = pc'[p]]
        /\ pc[p] \in {"clear", "wake", "reserve", "begin", "insert"}
        /\ pc'[p] \in {"wake", "ended", "idle", "reserve", "begin", "insert", "start"}
        /\ p \in Turns => pc'[p] # "idle"
        /\ victim' = victim /\ terminal' = terminal /\ Events /\ Ordered
    BY <1>11, <1>a, <1>b DEF Insert, Goto, At, historyVars, Rest
  <2>2. \A u \in Turns : Cancelled(u)' <=> Cancelled(u)
    BY <2>1 DEF Cancelled
  <2>3. ~Cancelled(p)
    BY <1>b, <1>c, <2>1 DEF Ordered, VictimsAreApart, Cancelled
  <2>4. \A u \in Turns : u # p => pc'[u] = pc[u]
    BY <1>11, <1>a, <1>b DEF Insert, Goto
  <2> QED
    BY <2>1, <2>2, <2>3, <2>4 DEF Events, Untold
<1>12. ASSUME NEW p \in Procs, Start(p) PROVE Events'
  <2>0. Len(kind) + 1 \in Turns /\ Len(kind) + 1 > Len(kind)
    BY <1>12, Typed DEF Start, Turns
  <2>1. Len(kind) + 1 \in Turns /\ pc[Len(kind) + 1] = "unborn"
    BY <2>0 DEF Places
  <2>2. active.task = 0
    BY <1>12 DEF Start, Apart
  <2>3. /\ \A u \in Turns : u # p /\ u # Len(kind) + 1 => pc'[u] = pc[u]
        /\ pc'[Len(kind) + 1] = "run" /\ pc'[p] = Rest(p) /\ pc[p] = "start"
        /\ victim' = victim /\ terminal' = terminal
    BY <1>12, <1>b, <1>c, <2>1, <2>2 DEF Start, At
  <2>4. \A u \in Turns : Cancelled(u)' <=> Cancelled(u)
    BY <2>3 DEF Cancelled
  <2>5. ~Cancelled(p) /\ Events
    BY <1>12, <1>c, <2>3 DEF Start, At, Ordered, VictimsAreApart, Cancelled, Carries,
       Killing
  <2> QED
    BY <2>1, <2>3, <2>4, <2>5 DEF Events, Untold, Rest
<1>13. CASE RejectSettings
  BY <1>13, <1>a, <1>b, <1>c, <1>d DEF RejectSettings, Events, Untold, Cancelled,
     slotVars, taskVars, loopVars, historyVars, At, Goto, Rest
<1>14. ASSUME NEW automatic \in BOOLEAN, ApplySettings(automatic) PROVE Events'
  BY <1>14, <1>a, <1>b, <1>c, <1>d DEF ApplySettings, Events, Untold, Cancelled, slotVars,
     taskVars, loopVars, historyVars, At, Goto, Rest
<1>15. CASE AbortAll
  <2>1. /\ active.task # 0 /\ terminal' = terminal
        /\ victim' = [victim EXCEPT ![Loop] = active.task] /\ victim[Loop] = 0
        /\ \A u \in Turns : pc'[u] = pc[u]
    BY <1>15, <1>a, <1>b, <1>c, <1>d DEF AbortAll, TakeTurn, At, Goto, historyVars,
       Carries, Killing
  <2>2. Ordered /\ Events
    BY <1>15 DEF AbortAll, At
  <2>3. \A u \in Turns : Cancelled(u)' <=> Cancelled(u) \/ u = active.task
    BY <1>a, <1>b, <1>c, <2>1 DEF Cancelled
  <2>4. active.task \in Turns /\ pc[active.task] \in RunPcs
    BY <2>1, <2>2, Typed DEF Ordered, SlotRuns
  <2> QED
    BY <2>1, <2>2, <2>3, <2>4 DEF Events, Untold, RunPcs
<1>16. CASE AbortNothing
  BY <1>16, <1>a, <1>b, <1>c, <1>d DEF AbortNothing, Events, Untold, Cancelled, slotVars,
     taskVars, loopVars, historyVars, At, Goto, Rest
<1>17. ASSUME NEW t \in Turns, Return(t) PROVE Events'
  <2>1. pc' = [pc EXCEPT ![t] = IF Cancelled(t) THEN "ended" ELSE "finish"]
        /\ victim' = victim /\ terminal' = terminal /\ pc[t] = "run" /\ Events
    BY <1>17 DEF Return, Goto, At, historyVars
  <2>2. \A u \in Turns : Cancelled(u)' <=> Cancelled(u)
    BY <2>1 DEF Cancelled
  <2> QED
    BY <1>a, <1>b, <2>1, <2>2 DEF Events, Untold
<1>18. ASSUME NEW t \in Turns, LeaveSlot(t) PROVE Events'
  <2>1. /\ pc' = [pc EXCEPT ![t] = IF active.task = 0 THEN "ended" ELSE "announce"]
        /\ victim' = victim /\ terminal' = terminal /\ pc[t] = "finish" /\ Events /\ Ordered
    BY <1>18 DEF LeaveSlot, Goto, At
  <2>2. \A u \in Turns : Cancelled(u)' <=> Cancelled(u)
    BY <2>1 DEF Cancelled
  <2>3. active.task = 0 => Cancelled(t)
    BY <1>c, <2>1 DEF Ordered, RunsInSlot, RunPcs
  <2> QED
    BY <1>a, <1>b, <2>1, <2>2, <2>3 DEF Events, Untold
<1>19. ASSUME NEW t \in Turns, Announce(t) PROVE Events'
  <2>1. /\ pc' = [pc EXCEPT ![t] = "clear"] /\ pc[t] = "announce"
        /\ victim' = victim /\ terminal' = [terminal EXCEPT ![t] = @ + 1] /\ Events
    BY <1>19 DEF Announce, Goto, At
  <2>2. \A u \in Turns : Cancelled(u)' <=> Cancelled(u)
    BY <2>1 DEF Cancelled
  <2> QED
    BY <1>a, <1>b, <2>1, <2>2 DEF Events, Untold
<1>20. ASSUME NEW t \in Turns, ClearSlot(t) PROVE Events'
  <2>1. /\ pc' = [pc EXCEPT ![t] = pc'[t]]
        /\ pc[t] \in {"clear", "wake", "reserve", "begin", "insert"}
        /\ pc'[t] \in {"wake", "ended", "idle", "reserve", "begin", "insert", "start"}
        /\ t \in Turns => pc'[t] # "idle"
        /\ victim' = victim /\ terminal' = terminal /\ Events /\ Ordered
    BY <1>20, <1>a, <1>b DEF ClearSlot, Goto, At, historyVars, Rest
  <2>2. \A u \in Turns : Cancelled(u)' <=> Cancelled(u)
    BY <2>1 DEF Cancelled
  <2>3. ~Cancelled(t)
    BY <1>b, <1>c, <2>1 DEF Ordered, VictimsAreApart, Cancelled
  <2>4. \A u \in Turns : u # t => pc'[u] = pc[u]
    BY <1>20, <1>a, <1>b DEF ClearSlot, Goto
  <2> QED
    BY <2>1, <2>2, <2>3, <2>4 DEF Events, Untold
<1>21. ASSUME NEW t \in Turns, Drain(t) PROVE Events'
  BY <1>21, <1>a, <1>b, <1>c, <1>d DEF Drain, Events, Untold, Cancelled, slotVars,
     taskVars, loopVars, historyVars, At, Goto, Rest
<1>22. ASSUME NEW t \in Turns, NEW accepts \in BOOLEAN, SetDelivery(t, accepts) PROVE Events'
  BY <1>22, <1>a, <1>b, <1>c, <1>d DEF SetDelivery, Events, Untold, Cancelled, slotVars,
     taskVars, loopVars, historyVars, At, Goto, Rest
<1>23. CASE Over \/ UNCHANGED vars
  BY <1>23 DEF Over, vars, Apart, Events, Untold, Cancelled, slotVars, taskVars, loopVars,
     historyVars
<1>24. CASE InjectIfRunning
  BY <1>24, <1>d DEF InjectIfRunning, Events, Untold, Cancelled, taskVars
<1>25. ASSUME NEW t \in Turns, Record(t) PROVE Events'
  BY <1>25, <1>a, <1>b, <1>c, <1>d DEF Record, Events, Untold, Cancelled, At, Goto
<1> QED
  BY <1>1, <1>2, <1>3, <1>4, <1>5, <1>6, <1>7, <1>8, <1>9, <1>10, <1>11, <1>12, <1>13,
     <1>14, <1>15, <1>16, <1>17, <1>18, <1>19, <1>20, <1>21, <1>22, <1>23, <1>24, <1>25 DEF Next,
     Submit, LoopStep, TurnStep, SharedStep, Procs

-----------------------------------------------------------------------------
(* Input                                                                   *)

\* What waits stays where somebody will take it.
LEMMA KeptStep ==
  ASSUME TypeOK, Places, Carries, Apart => Ordered /\ AllKept, [Next]_vars, Apart'
  PROVE  AllKept'
<1>a. /\ pc \in [Procs -> Pcs] /\ ts \in [Procs -> 0..Len(states)] /\ states \in Seq(TurnStates)
      /\ hold \in [Procs -> SUBSET Inputs] /\ Len(states) \in Nat
      /\ active = [state |-> active.state, task |-> active.task]
  BY Typed DEF TypeOK
<1>b. Turns \subseteq Procs /\ Loop \in Procs /\ Guardian \in Procs
  BY DEF Procs
<1>c. Loop \notin Turns /\ Guardian \notin Turns /\ 0 \notin Turns /\ 0 \notin Procs
  BY ProcsAssumption DEF Turns, Procs
<1>1. CASE SteerInput
  <2>0. PICK item : item = Input("user")
    OBVIOUS
  <2>1. /\ mailbox' = mailbox /\ hold' = hold /\ waiting' = waiting \cup {item} /\ AllKept
        /\ active' = active /\ pc' = pc /\ ts' = ts /\ active.task # 0
    BY <1>1, <2>0 DEF SteerInput, Submission, At, taskVars
  <2>2. active.state \in 1..Len(states)
    BY <1>1, Typed DEF SteerInput, Submission, At, Ordered, SlotRuns
  <2>3. /\ Len(states') = Len(states)
        /\ \A s \in 1..Len(states) : s # active.state => states'[s] = states[s]
        /\ states'[active.state].items = states[active.state].items \cup {item}
    BY <1>1, <1>a, <2>0, <2>2 DEF SteerInput
  <2>4. \A s \in 1..Len(states) : states[s].items \subseteq states'[s].items
    BY <2>3
  <2>5. \A s : Served(s)' <=> Served(s)
    BY <2>1 DEF Served
  <2>6. Kept(item)'
    BY <2>1, <2>2, <2>3 DEF Kept, Served
  <2>7. ASSUME NEW x \in waiting, x.kind # "item" PROVE Kept(x)'
    BY <2>1, <2>3, <2>4, <2>5, <2>7 DEF AllKept, Kept
  <2> QED
    BY <2>1, <2>6, <2>7 DEF AllKept
<1>2. ASSUME NEW k \in {"regular", "other"}, SpawnTask(k) PROVE AllKept'
  <2>1. mailbox' = mailbox /\ hold' = hold /\ states' = states /\ waiting' = waiting
    BY <1>2 DEF SpawnTask, slotVars, taskVars, historyVars, Submission
  <2>2. \A s \in 1..Len(states) : Served(s) => Served(s)'
    BY <1>2, <1>a, <1>b, <1>c DEF SpawnTask, Served, Killing, Starting, At, Goto, Rest,
       slotVars, taskVars, Submission
  <2>3. AllKept
    BY <1>2 DEF SpawnTask, At, Submission
  <2> QED
    BY <2>1, <2>2, <2>3 DEF AllKept, Kept
<1>3. CASE StartIfIdle
  <2>1. mailbox' = mailbox /\ hold' = hold /\ waiting' = waiting /\ AllKept
    BY <1>3 DEF StartIfIdle, historyVars, At, Submission
  <2>2. \A s \in 1..Len(states) : Served(s) => Served(s)'
    BY <1>3, <1>a, <1>b, <1>c DEF StartIfIdle, Served, Killing, Starting, At, Goto, Rest,
       NoTurn, Submission
  <2>3. /\ Len(states') \in Nat /\ Len(states') >= Len(states) /\ Len(states) \in Nat
        /\ \A s \in 1..Len(states) : states'[s] = states[s]
    BY <1>3, <1>a, SlotFacts DEF StartIfIdle
  <2> QED
    BY <2>1, <2>2, <2>3 DEF AllKept, Kept
<1>4. ASSUME NEW last \in BOOLEAN, Interrupt(last) PROVE AllKept'
  <2>1. mailbox' = mailbox /\ hold' = hold /\ states' = states /\ waiting' = waiting
    BY <1>4 DEF Interrupt, slotVars, taskVars, historyVars, Submission
  <2>2. \A s \in 1..Len(states) : Served(s) => Served(s)'
    BY <1>4, <1>a, <1>b, <1>c DEF Interrupt, Served, Killing, Starting, At, Goto, Rest,
       slotVars, taskVars, Submission
  <2>3. AllKept
    BY <1>4 DEF Interrupt, At, Submission
  <2> QED
    BY <2>1, <2>2, <2>3 DEF AllKept, Kept
<1>5. ASSUME NEW k \in {"queue", "trigger"}, ReceiveMail(k) PROVE AllKept'
  <2>1. /\ mailbox' = mailbox \cup {Input(k)} /\ waiting' = waiting \cup {Input(k)}
        /\ hold' = hold /\ states' = states /\ AllKept
    BY <1>5 DEF ReceiveMail, Submission, At
  <2>2. \A s \in 1..Len(states) : Served(s) => Served(s)'
    BY <1>5, <1>a, <1>b, <1>c DEF ReceiveMail, Submission, At, Goto, Served, Killing,
       Starting
  <2> QED
    BY <2>1, <2>2 DEF AllKept, Kept
<1>6. CASE GuardianAborts
  <2>1. mailbox' = mailbox /\ hold' = hold /\ states' = states /\ waiting' = waiting
    BY <1>6 DEF GuardianAborts, slotVars, taskVars, historyVars, TakeTurn
  <2>2. \A s \in 1..Len(states) : Served(s) => Served(s)'
    BY <1>6, <1>a, <1>b, <1>c DEF GuardianAborts, Served, Killing, Starting, At, Goto,
       Rest, slotVars, taskVars, TakeTurn
  <2>3. AllKept
    BY <1>6 DEF GuardianAborts, At, TakeTurn
  <2> QED
    BY <2>1, <2>2, <2>3 DEF AllKept, Kept
<1>7. ASSUME NEW p \in Procs, Kill(p) PROVE AllKept'
  <2>1. /\ mailbox' = mailbox
        /\ waiting' = waiting \ (states[ts[p]].items \cup hold[victim[p]])
        /\ \A q \in Procs : q # victim[p] => hold'[q] = hold[q]
        /\ states' = Put(states, ts[p], {}) /\ active' = active /\ AllKept
    BY <1>7, <1>a DEF Kill, Put, At
  <2>2. ts[p] \in 1..Len(states)
    BY <1>7, Typed, <1>b DEF Kill, At, Carries, Killing
  <2>3. /\ Len(states') = Len(states)
        /\ \A s \in 1..Len(states) :
             states'[s].items = IF s = ts[p] THEN {} ELSE states[s].items
    BY <1>a, <2>1, <2>2, PutItems
  <2>4. \A s \in 1..Len(states) : s # ts[p] /\ Served(s) => Served(s)'
    <3>1. Ordered /\ victim[p] # 0 /\ p \notin Turns
      BY <1>7, <1>c DEF Kill, At, Carries, Killing, Places, OfTurns, Starting
    <3>2. victim[p] \in Turns /\ pc[victim[p]] \in {"run", "record", "finish", "ended"}
      BY Typed, <3>1 DEF Ordered, VictimsAreApart
    <3>3. \A q \in Procs : q # p /\ q # victim[p] => pc'[q] = pc[q] /\ ts'[q] = ts[q]
      BY <1>7, <1>a, <1>b DEF Kill
    <3> QED
      BY <2>1, <3>2, <3>3 DEF Served, Killing, Starting
  <2> QED
    BY <2>1, <2>3, <2>4 DEF AllKept, Kept
<1>8. ASSUME NEW p \in Procs, Wake(p) PROVE AllKept'
  <2>1. mailbox' = mailbox /\ hold' = hold /\ states' = states /\ waiting' = waiting
    BY <1>8 DEF Wake, slotVars, taskVars, historyVars
  <2>2. \A s \in 1..Len(states) : Served(s) => Served(s)'
    BY <1>8, <1>a, <1>b, <1>c DEF Wake, Served, Killing, Starting, At, Goto, Rest,
       slotVars, taskVars
  <2>3. AllKept
    BY <1>8 DEF Wake, At
  <2> QED
    BY <2>1, <2>2, <2>3 DEF AllKept, Kept
<1>9. ASSUME NEW p \in Procs, Reserve(p) PROVE AllKept'
  <2>1. mailbox' = mailbox /\ hold' = hold /\ waiting' = waiting /\ AllKept
    BY <1>9 DEF Reserve, historyVars, At, Submission
  <2>2. \A s \in 1..Len(states) : Served(s) => Served(s)'
    BY <1>9, <1>a, <1>b, <1>c DEF Reserve, Served, Killing, Starting, At, Goto, Rest,
       NoTurn, Submission
  <2>3. /\ Len(states') \in Nat /\ Len(states') >= Len(states) /\ Len(states) \in Nat
        /\ \A s \in 1..Len(states) : states'[s] = states[s]
    BY <1>9, <1>a, SlotFacts DEF Reserve
  <2> QED
    BY <2>1, <2>2, <2>3 DEF AllKept, Kept
<1>10. ASSUME NEW p \in Procs, Begin(p) PROVE AllKept'
  <2>1. /\ hold' = [hold EXCEPT ![p] = Takes] /\ hold[p] = {} /\ waiting' = waiting /\ AllKept
        /\ active' = active /\ ts' = ts /\ TakeOut
    BY <1>10 DEF Begin, At, Carries, historyVars
  <2>2. /\ Len(states') = Len(states)
        /\ \A x : x \in mailbox => x \in mailbox' \/ x \in Takes
        /\ \A r \in 1..Len(states) : \A x \in states[r].items : x \in states'[r].items \/ x \in Takes
    BY <2>1, TakeOutFacts
  <2>3. \A s \in 1..Len(states) : Served(s) => Served(s)'
    BY <1>10, <1>a, <1>b, <1>c DEF Begin, At, Goto, Served, Killing, Starting
  <2>4. hold'[p] = Takes /\ \A q \in Procs : hold[q] \subseteq hold'[q]
    BY <1>a, <2>1
  <2>5. ASSUME NEW x \in waiting, x.kind # "item" PROVE Kept(x)'
    <3>1. CASE x \in Takes
      BY <2>4, <3>1 DEF Kept
    <3>2. CASE x \notin Takes
      BY <2>1, <2>2, <2>3, <2>4, <2>5, <3>2 DEF AllKept, Kept
    <3> QED
      BY <3>1, <3>2
  <2> QED
    BY <2>1, <2>5 DEF AllKept
<1>11. ASSUME NEW p \in Procs, Insert(p) PROVE AllKept'
  <2>0. PICK z : z = Slot
    OBVIOUS
  <2>1. /\ mailbox' = mailbox /\ waiting' = waiting /\ AllKept
        /\ hold' = [hold EXCEPT ![p] = {}] /\ ts' = [ts EXCEPT ![p] = z]
        /\ pc' = [pc EXCEPT ![p] = "start"]
        /\ states' = Put(StatesWithSlot, Slot, StatesWithSlot[Slot].items \cup hold[p])
    BY <1>11, <2>0 DEF Insert, At, Goto, Put
  <2>2. active'.task = active.task /\ (active.state # 0 => active'.state = active.state)
    BY <1>11, Typed, SlotFacts DEF Insert
  <2>3. StatesWithSlot[Slot].items \cup hold[p] \in SUBSET Inputs
    <3>1. StatesWithSlot[Slot] \in TurnStates
      BY SlotFacts
    <3> QED
      BY <1>a, <3>1 DEF TurnStates
  <2>4. /\ Len(states') = Len(StatesWithSlot) /\ z \in 1..Len(states')
        /\ \A s \in 1..Len(StatesWithSlot) : states'[s].items =
             IF s = z THEN StatesWithSlot[z].items \cup hold[p] ELSE StatesWithSlot[s].items
    BY <2>0, <2>1, <2>3, SlotFacts, PutItems
  <2>5. /\ Len(states) \in Nat /\ Len(states') \in Nat /\ Len(states') >= Len(states)
        /\ \A s \in 1..Len(states) : states[s].items \subseteq states'[s].items
        /\ hold[p] \subseteq states'[z].items
    <3>1. \A s \in 1..Len(states) : StatesWithSlot[s] = states[s] /\ s \in 1..Len(StatesWithSlot)
      BY SlotFacts, Typed
    <3> QED
      BY <2>4, <3>1, SlotFacts, Typed
  <2>6. Served(z)'
    BY <1>a, <2>1 DEF Served, Starting
  <2>7. ts[p] \in {0, z} \/ states[ts[p]].items = {}
    BY <1>11, <2>0 DEF Insert, Apart
  <2>8. ASSUME NEW s \in 1..Len(states), Served(s), states[s].items # {}
        PROVE  Served(s)'
    <3>1. s # 0
      BY <2>8
    <3>2. CASE active.state = s /\ active.task # 0
      BY <2>2, <3>1, <3>2 DEF Served
    <3>3. ASSUME NEW q \in Procs, ts[q] = s, pc[q] \in {"announce"} \cup Killing \cup Starting
          PROVE  Served(s)'
      <4>1. CASE q = p
        BY <2>6, <2>7, <2>8, <3>1, <3>3, <4>1
      <4>2. CASE q # p
        <5>1. ts'[q] = s /\ pc'[q] = pc[q]
          BY <1>a, <2>1, <3>3, <4>2
        <5> QED
          BY <3>3, <5>1 DEF Served
      <4> QED
        BY <4>1, <4>2
    <3> QED
      BY <2>8, <3>2, <3>3 DEF Served
  <2>9. ASSUME NEW x \in waiting, x.kind # "item" PROVE Kept(x)'
    <3>1. CASE x \in hold[p]
      BY <2>4, <2>5, <2>6, <3>1 DEF Kept
    <3>2. CASE x \in mailbox \/ \E q \in Procs : q # p /\ x \in hold[q]
      BY <1>a, <2>1, <3>2 DEF Kept
    <3>3. ASSUME NEW s \in 1..Len(states), Served(s), x \in states[s].items
          PROVE  Kept(x)'
      <4>1. s \in 1..Len(states') /\ x \in states'[s].items
        BY <2>5, <3>3
      <4>2. Served(s)'
        BY <2>8, <3>3
      <4> QED
        BY <4>1, <4>2 DEF Kept
    <3> QED
      BY <2>1, <2>9, <3>1, <3>2, <3>3 DEF AllKept, Kept
  <2> QED
    BY <2>1, <2>9 DEF AllKept
<1>12. ASSUME NEW p \in Procs, Start(p) PROVE AllKept'
  <2>1. mailbox' = mailbox /\ waiting' = waiting /\ AllKept
    BY <1>12 DEF Start, At
  <2>2. active.task = 0 /\ active.state = ts[p] /\ pc[p] = "start" /\ ts[p] # 0
    BY <1>12 DEF Start, At, Apart, Carries
  <2>h. \A q \in Procs : hold'[q] = hold[q]
    BY <1>12, <1>c, <2>2 DEF Start
  <2>3. Len(kind) + 1 \in Turns /\ pc[Len(kind) + 1] = "unborn"
    BY <1>12, Typed DEF Start, TypeOK, Turns, Places
  <2>4. active'.state = ts[p] /\ active'.task # 0 /\ states' = states
    BY <1>12, <2>2, Typed, SlotFacts DEF Start
  <2>5. \A q \in Procs : q # p /\ q # Len(kind) + 1 => pc'[q] = pc[q] /\ ts'[q] = ts[q]
    BY <1>12, <1>a, <1>b, <1>c, <2>2 DEF Start
  <2>6. \A s \in 1..Len(states) : Served(s) => Served(s)'
    BY <2>2, <2>3, <2>4, <2>5 DEF Served, Killing, Starting
  <2> QED
    BY <2>1, <2>h, <2>4, <2>6 DEF AllKept, Kept
<1>13. CASE RejectSettings
  <2>1. mailbox' = mailbox /\ hold' = hold /\ states' = states /\ waiting' = waiting
    BY <1>13 DEF RejectSettings, slotVars, taskVars, historyVars
  <2>2. \A s \in 1..Len(states) : Served(s) => Served(s)'
    BY <1>13, <1>a, <1>b, <1>c DEF RejectSettings, Served, Killing, Starting, At, Goto,
       Rest, slotVars, taskVars
  <2>3. AllKept
    BY <1>13 DEF RejectSettings, At
  <2> QED
    BY <2>1, <2>2, <2>3 DEF AllKept, Kept
<1>14. ASSUME NEW automatic \in BOOLEAN, ApplySettings(automatic) PROVE AllKept'
  <2>0. PICK queued : queued = IF automatic THEN {[n |-> ops, kind |-> "user"]} ELSE {}
    OBVIOUS
  <2>1. /\ states' = Put(states, ts[Loop], states[ts[Loop]].items \cup queued)
        /\ waiting' = waiting \cup queued /\ mailbox' = mailbox /\ hold' = hold /\ AllKept
    BY <1>14, <2>0 DEF ApplySettings, Put, At
  <2>2. ts[Loop] \in 1..Len(states)
    BY <1>14, <1>b, Typed DEF ApplySettings, At, Carries
  <2>3. [n |-> ops, kind |-> "user"] \in Inputs
    BY <1>14, Typed DEF ApplySettings, At, Places, TypeOK, Inputs
  <2>4. states[ts[Loop]].items \cup queued \in SUBSET Inputs
    BY <2>0, <2>2, <2>3, Typed
  <2>5. /\ Len(states') = Len(states)
        /\ \A s \in 1..Len(states) : states'[s].items =
             IF s = ts[Loop] THEN states[ts[Loop]].items \cup queued ELSE states[s].items
    <3>1. PICK now : now = states[ts[Loop]].items \cup queued
      OBVIOUS
    <3>2. now \in SUBSET Inputs /\ states' = Put(states, ts[Loop], now)
      BY <2>1, <2>4, <3>1
    <3>3. /\ Len(states') = Len(states)
          /\ \A s \in 1..Len(states) : states'[s].items = IF s = ts[Loop] THEN now ELSE states[s].items
      BY <1>a, <2>2, <3>2, PutItems
    <3> QED
      BY <3>1, <3>3
  <2>6. \A s \in 1..Len(states) : Served(s) => Served(s)'
    BY <1>14, <1>a, <1>b, <1>c DEF ApplySettings, At, Goto, Served, Killing, Starting
  <2>7. ts'[Loop] = ts[Loop] /\ pc'[Loop] = "begin"
    BY <1>14, <1>a, <1>b, <1>c DEF ApplySettings, Goto
  <2>8. ASSUME NEW x \in queued PROVE Kept(x)'
    <3>1. x \in states'[ts[Loop]].items /\ ts[Loop] \in 1..Len(states')
      BY <2>2, <2>5, <2>8
    <3> QED
      BY <1>b, <2>7, <3>1 DEF Kept, Served, Starting
  <2>9. ASSUME NEW x \in waiting, x.kind # "item" PROVE Kept(x)'
    BY <2>1, <2>5, <2>6, <2>9 DEF AllKept, Kept
  <2> QED
    BY <2>1, <2>8, <2>9 DEF AllKept
<1>15. CASE AbortAll
  <2>1. mailbox' = mailbox /\ hold' = hold /\ states' = states /\ waiting' = waiting
    BY <1>15 DEF AbortAll, slotVars, taskVars, historyVars, TakeTurn
  <2>2. \A s \in 1..Len(states) : Served(s) => Served(s)'
    BY <1>15, <1>a, <1>b, <1>c DEF AbortAll, Served, Killing, Starting, At, Goto, Rest,
       slotVars, taskVars, TakeTurn
  <2>3. AllKept
    BY <1>15 DEF AbortAll, At, TakeTurn
  <2> QED
    BY <2>1, <2>2, <2>3 DEF AllKept, Kept
<1>16. CASE AbortNothing
  <2>1. mailbox' = mailbox /\ hold' = hold /\ states' = states /\ waiting' = waiting
    BY <1>16 DEF AbortNothing, slotVars, taskVars, historyVars
  <2>2. \A s \in 1..Len(states) : Served(s) => Served(s)'
    BY <1>16, <1>a, <1>b, <1>c DEF AbortNothing, Served, Killing, Starting, At, Goto,
       Rest, slotVars, taskVars
  <2>3. AllKept
    BY <1>16 DEF AbortNothing, At
  <2> QED
    BY <2>1, <2>2, <2>3 DEF AllKept, Kept
<1>17. ASSUME NEW t \in Turns, Return(t) PROVE AllKept'
  <2>1. mailbox' = mailbox /\ hold' = hold /\ states' = states /\ waiting' = waiting
    BY <1>17 DEF Return, slotVars, taskVars, historyVars
  <2>2. \A s \in 1..Len(states) : Served(s) => Served(s)'
    BY <1>17, <1>a, <1>b, <1>c DEF Return, Served, Killing, Starting, At, Goto, Rest,
       slotVars, taskVars
  <2>3. AllKept
    BY <1>17 DEF Return, At
  <2> QED
    BY <2>1, <2>2, <2>3 DEF AllKept, Kept
<1>18. ASSUME NEW t \in Turns, LeaveSlot(t) PROVE AllKept'
  <2>1. mailbox' = mailbox /\ hold' = hold /\ states' = states /\ waiting' = waiting
    BY <1>18 DEF LeaveSlot, slotVars, taskVars, historyVars
  <2>2. \A s \in 1..Len(states) : Served(s) => Served(s)'
    BY <1>18, <1>a, <1>b, <1>c DEF LeaveSlot, Served, Killing, Starting, At, Goto, Rest,
       slotVars, taskVars
  <2>3. AllKept
    BY <1>18 DEF LeaveSlot, At
  <2> QED
    BY <2>1, <2>2, <2>3 DEF AllKept, Kept
<1>19. ASSUME NEW t \in Turns, Announce(t) PROVE AllKept'
  <2>1. /\ mailbox' = mailbox /\ hold' = hold /\ waiting' = waiting \ states[ts[t]].items
        /\ states' = Put(states, ts[t], {}) /\ active' = active /\ AllKept
    BY <1>19 DEF Announce, Put, At
  <2>2. ts[t] \in 1..Len(states)
    BY <1>19, Typed, <1>b DEF Announce, At, Carries, Killing
  <2>3. /\ Len(states') = Len(states)
        /\ \A s \in 1..Len(states) :
             states'[s].items = IF s = ts[t] THEN {} ELSE states[s].items
    BY <1>a, <2>1, <2>2, PutItems
  <2>4. \A s \in 1..Len(states) : s # ts[t] /\ Served(s) => Served(s)'
    BY <1>19, <1>a, <1>b, <1>c DEF Announce, At, Goto, Served, Killing, Starting
  <2> QED
    BY <2>1, <2>3, <2>4 DEF AllKept, Kept
<1>20. ASSUME NEW t \in Turns, ClearSlot(t) PROVE AllKept'
  <2>1. mailbox' = mailbox /\ hold' = hold /\ states' = states /\ waiting' = waiting
    BY <1>20 DEF ClearSlot, slotVars, taskVars, historyVars
  <2>2. \A s \in 1..Len(states) : Served(s) => Served(s)'
    BY <1>20, <1>a, <1>b, <1>c DEF ClearSlot, Served, Killing, Starting, At, Goto, Rest,
       slotVars, taskVars
  <2>3. AllKept
    BY <1>20 DEF ClearSlot, At
  <2> QED
    BY <2>1, <2>2, <2>3 DEF AllKept, Kept
<1>21. ASSUME NEW t \in Turns, Drain(t) PROVE AllKept'
  <2>1. /\ hold' = [hold EXCEPT ![t] = Takes] /\ hold[t] = {} /\ waiting' = waiting /\ AllKept
        /\ active' = active /\ ts' = ts /\ TakeOut
    BY <1>21, <1>b DEF Drain, At, Carries, historyVars
  <2>2. /\ Len(states') = Len(states)
        /\ \A x : x \in mailbox => x \in mailbox' \/ x \in Takes
        /\ \A r \in 1..Len(states) : \A x \in states[r].items : x \in states'[r].items \/ x \in Takes
    BY <2>1, TakeOutFacts
  <2>3. \A s \in 1..Len(states) : Served(s) => Served(s)'
    BY <1>21, <1>a, <1>b, <1>c DEF Drain, At, Goto, Served, Killing, Starting
  <2>4. hold'[t] = Takes /\ \A q \in Procs : hold[q] \subseteq hold'[q]
    BY <1>a, <1>b, <2>1
  <2>5. ASSUME NEW x \in waiting, x.kind # "item" PROVE Kept(x)'
    <3>1. CASE x \in Takes
      BY <1>b, <2>4, <3>1 DEF Kept
    <3>2. CASE x \notin Takes
      BY <2>1, <2>2, <2>3, <2>4, <2>5, <3>2 DEF AllKept, Kept
    <3> QED
      BY <3>1, <3>2
  <2> QED
    BY <2>1, <2>5 DEF AllKept
<1>22. ASSUME NEW t \in Turns, NEW accepts \in BOOLEAN, SetDelivery(t, accepts) PROVE AllKept'
  <2>1. /\ waiting' = waiting /\ AllKept /\ mailbox' = mailbox
        /\ active' = active /\ ts' = ts /\ pc' = pc /\ hold' = hold
    BY <1>22 DEF SetDelivery, At, taskVars, historyVars
  <2>2. active.state \in 1..Len(states)
    BY <1>22, <1>c, Typed DEF SetDelivery, At, Ordered, SlotRuns
  <2>3. /\ Len(states') = Len(states)
        /\ \A s \in 1..Len(states) : states'[s].items = states[s].items
    <3>1. [states[active.state] EXCEPT !.accepts = accepts].items = states[active.state].items
      BY <2>2, Typed DEF TurnStates
    <3>2. states' = [states EXCEPT ![active.state] = [states[active.state] EXCEPT !.accepts = accepts]]
      BY <1>22 DEF SetDelivery
    <3> QED
      BY <1>a, <2>2, <3>1, <3>2
  <2>4. \A s : Served(s)' <=> Served(s)
    BY <2>1 DEF Served
  <2> QED
    BY <2>1, <2>3, <2>4 DEF AllKept, Kept
<1>23. CASE Over \/ UNCHANGED vars
  BY <1>23 DEF Over, vars, Apart, AllKept, Kept, Served, slotVars, taskVars, loopVars,
     historyVars
<1>24. CASE InjectIfRunning
  <2>0. PICK item : item = Input("item")
    OBVIOUS
  <2>1. /\ mailbox' = mailbox /\ hold' = hold /\ waiting' = waiting \cup {item} /\ AllKept
        /\ active' = active /\ pc' = pc /\ ts' = ts /\ item.kind = "item"
    BY <1>24, <2>0 DEF InjectIfRunning, taskVars, Input
  <2>2. active.state \in 1..Len(states)
    BY <1>24, Typed DEF InjectIfRunning
  <2>3. /\ Len(states') = Len(states)
        /\ \A s \in 1..Len(states) : s # active.state => states'[s] = states[s]
        /\ states'[active.state].items = states[active.state].items \cup {item}
    BY <1>24, <1>a, <2>0, <2>2 DEF InjectIfRunning
  <2>4. \A s \in 1..Len(states) : states[s].items \subseteq states'[s].items
    BY <2>3
  <2>5. \A s : Served(s)' <=> Served(s)
    BY <2>1 DEF Served
  <2>6. ASSUME NEW x \in waiting, x.kind # "item" PROVE Kept(x)'
    BY <2>1, <2>3, <2>4, <2>5, <2>6 DEF AllKept, Kept
  <2> QED
    BY <2>1, <2>6 DEF AllKept
<1>25. ASSUME NEW t \in Turns, Record(t) PROVE AllKept'
  <2>1. /\ mailbox' = mailbox /\ states' = states /\ waiting' = waiting \ hold[t] /\ AllKept
        /\ \A q \in Procs : q # t => hold'[q] = hold[q]
    BY <1>25, <1>a, <1>b DEF Record, At, slotVars
  <2>2. \A s \in 1..Len(states) : Served(s) => Served(s)'
    BY <1>25, <1>a, <1>b, <1>c DEF Record, Served, Killing, Starting, At, Goto, slotVars
  <2> QED
    BY <2>1, <2>2 DEF AllKept, Kept
<1> QED
  BY <1>1, <1>2, <1>3, <1>4, <1>5, <1>6, <1>7, <1>8, <1>9, <1>10, <1>11, <1>12, <1>13,
     <1>14, <1>15, <1>16, <1>17, <1>18, <1>19, <1>20, <1>21, <1>22, <1>23, <1>24, <1>25 DEF Next,
     Submit, LoopStep, TurnStep, SharedStep, Procs

-----------------------------------------------------------------------------
(* Theorems                                                                *)

\* A session without a turn satisfies the invariant.
LEMMA InitIInv ==
  ASSUME Init
  PROVE  IInv
<1>1. /\ states = <<>> /\ kind = <<>> /\ Len(states) = 0 /\ Len(kind) = 0 /\ MaxOps \in Nat
      /\ MaxTurns \in Nat /\ active = NoTurn
  BY BoundsAssumption DEF Init
<1>2. Loop \notin Turns /\ Guardian \notin Turns /\ 0 \notin Turns
      /\ Loop \in Procs /\ Guardian \in Procs /\ Turns \subseteq Procs
  BY ProcsAssumption DEF Turns, Procs
<1>3. TypeOK
  BY <1>1 DEF Init, TypeOK, NoTurn, Kinds, Pcs, Conflicts
<1>4. Places
  BY <1>1, <1>2 DEF Init, Places, OfLoop, OfGuardian, OfTurns, Turns
<1>5. Carries
  BY DEF Init, Carries, Killing
<1>6. Reserved
  BY DEF Init, Reserved
<1>7. Ordered
  BY <1>1, <1>2 DEF Init, Ordered, SlotRuns, VictimsAreApart, RunsInSlot, NoTurn, RunPcs
<1>8. Events /\ AllKept
  BY <1>2 DEF Init, Events, Untold, AllKept
<1> QED
  BY <1>3, <1>4, <1>5, <1>6, <1>7, <1>8 DEF IInv, InOrder

\* Every step keeps the invariant.
LEMMA StepIInv ==
  ASSUME IInv, [Next]_vars
  PROVE  IInv'
<1>1. /\ TypeOK /\ Places /\ Carries /\ Reserved
      /\ Apart => Ordered /\ Events /\ AllKept
  BY DEF IInv, InOrder
<1>2. Apart => SlotRuns /\ VictimsAreApart
  BY <1>1 DEF Ordered
<1>3. TypeOK' /\ Places' /\ Carries' /\ Reserved'
  BY <1>1, <1>2, TypeStep, PlacesStep, CarriesStep, ReservedStep
<1>4. ASSUME Apart' PROVE Ordered' /\ Events' /\ AllKept'
  BY <1>1, <1>4, OrderedStep, EventsStep, KeptStep
<1> QED
  BY <1>3, <1>4 DEF IInv, InOrder

\* The inductive invariant: up to the first conflict between two tasks the slot
\* of Session::active_turn, the events and the queues are in order.
THEOREM Invariance == Spec => []IInv
<1>1. Init => IInv
  BY InitIInv
<1>2. IInv /\ [Next]_vars => IInv'
  BY StepIInv
<1> QED
  BY <1>1, <1>2, PTL DEF Spec

\* The state of a session stays well-formed.
THEOREM TypeCorrect == Spec => []TypeOK
<1>1. IInv => TypeOK
  BY DEF IInv
<1> QED
  BY <1>1, Invariance, PTL

\* A turn that runs and has not been cancelled is the one in the slot: steer_input
\* and abort_all_tasks reach every running turn, and no two run at a time.
THEOREM RunningIsActiveHolds == Spec => []RunningIsActive
<1>1. IInv => RunningIsActive
  BY DEF IInv, InOrder, Ordered, RunsInSlot, RunningIsActive
<1> QED
  BY <1>1, Invariance, PTL

\* on_task_finished and handle_task_abort between them send one terminal event
\* for each turn.
THEOREM OneTerminalEventHolds == Spec => []OneTerminalEvent
<1>1. IInv => OneTerminalEvent
  <2> SUFFICES ASSUME IInv, Apart, NEW t \in Turns
               PROVE  /\ terminal[t] <= 1
                      /\ /\ pc[t] \in {"ended", "dead"}
                         /\ \A p \in Procs : victim[p] # t
                         => terminal[t] = 1
    BY DEF OneTerminalEvent
  <2>1. terminal[t] = IF Untold(t) THEN 0 ELSE 1
    BY DEF IInv, InOrder, Events
  <2> QED
    BY <2>1 DEF Untold, Cancelled
<1> QED
  BY <1>1, Invariance, PTL

\* Accepted input and mail are recorded, dropped with an aborted turn, or still
\* where a task will take them: start_task moves them between queues under
\* several locks and loses none.
THEOREM InputKeptHolds == Spec => []InputKept
<1>1. IInv => InputKept
  <2> SUFFICES ASSUME IInv, Apart, NEW x \in waiting, x.kind # "item"
               PROVE  x \in InSight
    BY DEF InputKept
  <2> DEFINE owned == {active.state} \cup {ts[p] : p \in Procs}
  <2>0. InSight = mailbox \cup (UNION {hold[p] : p \in Procs})
                         \cup (UNION {states[s].items : s \in owned \ {0}})
    BY DEF InSight
  <2>1. Kept(x)
    BY DEF IInv, InOrder, AllKept
  <2>2. \A s \in 1..Len(states) : Served(s) => s \in owned \ {0}
    BY DEF Served
  <2> HIDE DEF owned
  <2>3. CASE x \in mailbox \/ \E p \in Procs : x \in hold[p]
    BY <2>0, <2>3
  <2>4. CASE \E s \in 1..Len(states) : Served(s) /\ x \in states[s].items
    <3>1. PICK s \in owned \ {0} : x \in states[s].items
      BY <2>2, <2>4
    <3>2. x \in UNION {states[r].items : r \in owned \ {0}}
      BY <3>1, Zenon
    <3> QED
      BY <2>0, <3>2
  <2> QED
    BY <2>1, <2>3, <2>4, Zenon DEF Kept
<1> QED
  BY <1>1, Invariance, PTL

\* A slot without a task belongs to a task that will fill or clear it: neither
\* start_if_idle nor on_task_finished leaves the session busy with nothing running.
THEOREM SlotIsOwnedHolds == Spec => []SlotIsOwned
<1>1. IInv => SlotIsOwned
  BY DEF IInv, Reserved, SlotIsOwned, Starting, StartPcs
<1> QED
  BY <1>1, Invariance, PTL
=============================================================================
