-------------------------- MODULE RunStoreProofs ---------------------------
(***************************************************************************)
(* The safety of RunStore for any number of handlers of DELETE and of      *)
(* restarts.  The inductive invariant follows the one file of the run: it  *)
(* is created by the worker, moved by one handler, and never comes back.   *)
(***************************************************************************)
EXTENDS RunStore, FiniteSetTheorems, TLAPS

\* The worker creates the file once, and a handler that saw it or moved it was
\* not mistaken.
FileIsMade ==
  /\ worker \in {"running", "returned"} => place = "none"
  /\ worker = "writing" \/ worker = "written" => place # "none"
  /\ \A d \in Deleters : deletePc[d] = "found" => place # "none"

\* One handler moves the file, and the one that answers has dropped the session.
Claiming(d) == deletePc[d] \in {"moved", "true"}
OneMover ==
  /\ \A d \in Deleters : Claiming(d) => place = "trash"
  /\ \A d, e \in Deleters : Claiming(d) /\ Claiming(e) => d = e
  /\ \A d \in Deleters : deletePc[d] = "true" => ~session

\* The session is dropped by a deletion that moved the file or by a restart that
\* ended the worker: no worker is left that could show the run again.
NoLateWorker ==
  ~session => /\ worker \in {"none", "writing", "written"}
              /\ worker = "writing" => place = "trash"

IInv == TypeOK /\ FileIsMade /\ OneMover /\ NoLateWorker

\* A run that was just created satisfies the invariant.
LEMMA InitIInv == Init => IInv
<1> SUFFICES ASSUME Init PROVE IInv
  OBVIOUS
<1>1. TypeOK
  <2>1. restarts \in 0..MaxRestarts
    BY MaxRestartsAssumption DEF Init
  <2>2. session \in BOOLEAN /\ result \in BOOLEAN /\ told \in BOOLEAN
    BY DEF Init
  <2> QED
    BY <2>1, <2>2 DEF Init, TypeOK, Active, Ends
<1>2. FileIsMade
  BY DEF Init, FileIsMade
<1>3. OneMover
  BY DEF Init, OneMover, Claiming
<1>4. NoLateWorker
  BY DEF Init, NoLateWorker
<1> QED
  BY <1>1, <1>2, <1>3, <1>4 DEF IInv

\* No step of the worker, of a handler or of a restart breaks it.
LEMMA StepIInv == IInv /\ [Next]_vars => IInv'
<1> SUFFICES ASSUME IInv, [Next]_vars PROVE IInv'
  OBVIOUS
<1> USE MaxRestartsAssumption
    DEF IInv, TypeOK, Active, Ends, FileIsMade, OneMover, Claiming, NoLateWorker
<1>1. CASE RunProceeds
  BY <1>1 DEF RunProceeds
<1>2. CASE RunRecords
  BY <1>2 DEF RunRecords
<1>3. CASE RunEnds
  BY <1>3 DEF RunEnds
<1>4. CASE OpenFile
  BY <1>4 DEF OpenFile
<1>5. CASE WriteFile
  BY <1>5 DEF WriteFile
<1>6. CASE Get
  BY <1>6 DEF Get
<1>7. ASSUME NEW d \in Deleters, DeleteCheck(d) PROVE IInv'
  BY <1>7 DEF DeleteCheck, At
<1>8. ASSUME NEW d \in Deleters, DeleteLook(d) PROVE IInv'
  BY <1>8 DEF DeleteLook, At
<1>9. ASSUME NEW d \in Deleters, DeleteMove(d) PROVE IInv'
  BY <1>9 DEF DeleteMove, At
<1>10. ASSUME NEW d \in Deleters, DeletePop(d) PROVE IInv'
  <2>1. TypeOK'
    BY <1>10 DEF DeletePop, At
  <2>2. FileIsMade'
    BY <1>10 DEF DeletePop, At
  <2>3. OneMover'
    BY <1>10 DEF DeletePop, At
  <2>4. NoLateWorker'
    BY <1>10 DEF DeletePop, At
  <2> QED
    BY <2>1, <2>2, <2>3, <2>4
<1>11. CASE Restart
  <2>1. restarts' \in 0..MaxRestarts
    BY <1>11 DEF Restart
  <2>2. TypeOK'
    BY <1>11, <2>1 DEF Restart
  <2>3. FileIsMade'
    BY <1>11 DEF Restart
  <2>4. OneMover'
    BY <1>11 DEF Restart
  <2>5. NoLateWorker'
    BY <1>11 DEF Restart
  <2> QED
    BY <2>2, <2>3, <2>4, <2>5
<1>12. CASE RunRevived
  BY <1>12 DEF RunRevived
<1>13. CASE UNCHANGED vars
  BY <1>13 DEF vars
<1> QED
  BY <1>1, <1>2, <1>3, <1>4, <1>5, <1>6, <1>7, <1>8, <1>9, <1>10, <1>11, <1>12, <1>13 DEF Next

\* The invariant holds throughout, and with it the type invariant.
THEOREM Invariance == Spec => []IInv
  BY InitIInv, StepIInv, PTL DEF Spec

\* A run that DELETE reported as deleted is never found again, not by a poll of
\* the session, not in the library after a restart, whatever the worker still
\* writes; and no two handlers report the deletion.
THEOREM DeletedIsGoneHolds == Spec => []DeletedIsGone
<1>1. IInv => DeletedIsGone
  <2> SUFFICES ASSUME IInv PROVE DeletedIsGone
    OBVIOUS
  <2> DEFINE claims == {d \in Deleters : deletePc[d] = "true"}
  <2>1. claims # {} => View = "notFound"
    BY DEF IInv, OneMover, Claiming, View
  <2>2. Cardinality(claims) <= 1
    <3>1. CASE claims = {}
      BY <3>1, FS_EmptySet
    <3>2. CASE claims # {}
      <4>1. PICK d : d \in claims
        BY <3>2
      <4>2. claims = {d}
        BY <4>1 DEF IInv, OneMover, Claiming
      <4> HIDE DEF claims
      <4> QED
        BY <4>2, FS_Singleton
    <3> QED
      BY <3>1, <3>2
  <2> QED
    BY <2>1, <2>2 DEF DeletedIsGone
<1> QED
  BY <1>1, Invariance, PTL

\* A run that cannot be found is never found again, by a poll or in the library,
\* for any number of deletions and restarts.
THEOREM NeverFoundAgainHolds == Spec => NeverFoundAgain
<1>1. IInv /\ [Next]_vars => [View = "notFound" => View' = "notFound"]_vars
  <2> SUFFICES ASSUME IInv, Next, View = "notFound" PROVE View' = "notFound"
    OBVIOUS
  <2>1. ~session /\ ~(place = "saved" /\ content \in {"receipt", "error"})
    BY DEF IInv, TypeOK, Active, Ends, View
  <2>2. ~session'
    BY <2>1 DEF Next, RunProceeds, RunRecords, RunEnds, RunRevived, OpenFile, WriteFile, Get,
                DeleteCheck, DeleteLook, DeleteMove, DeletePop, Restart
  <2>3. CASE WriteFile
    BY <2>1, <2>2, <2>3 DEF WriteFile, IInv, NoLateWorker, View
  <2>4. CASE OpenFile
    BY <2>1, <2>4 DEF OpenFile, IInv, NoLateWorker
  <2>5. CASE \E d \in Deleters : DeleteMove(d)
    BY <2>2, <2>5 DEF DeleteMove, View
  <2>6. CASE ~WriteFile /\ ~OpenFile /\ ~\E d \in Deleters : DeleteMove(d)
    <3>1. place' = place /\ content' = content
      BY <2>6 DEF Next, RunProceeds, RunRecords, RunEnds, RunRevived, Get,
                  DeleteCheck, DeleteLook, DeletePop, Restart
    <3> QED
      BY <2>1, <2>2, <3>1 DEF View
  <2> QED
    BY <2>3, <2>4, <2>5, <2>6
<1>2. Spec => [][Next]_vars
  BY PTL DEF Spec
<1> QED
  BY <1>1, <1>2, Invariance, PTL DEF NeverFoundAgain
=============================================================================
