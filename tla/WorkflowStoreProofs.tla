------------------------ MODULE WorkflowStoreProofs ------------------------
(***************************************************************************)
(* The safety of WorkflowStore for any number of threads, workflows and    *)
(* crashes.  The inductive invariant says what a save under way owns: the  *)
(* thread that writes holds the lock, no two saves are about the same      *)
(* workflow, and the file of a save has the place its step implies.        *)
(***************************************************************************)
EXTENDS WorkflowStore, TLAPS

Busy == {"create", "write", "flush", "replace", "unlink"}

\* A thread is inside the lock exactly while it holds it, and only then or
\* just before is it about a workflow.
Holding ==
  /\ \A t \in Threads : pc[t] \in Busy <=> t \in lock
  /\ \A t \in Threads : pc[t] = "idle" => subject[t] = {}
  /\ \A t, u \in Threads : t # u => subject[t] \cap subject[u] = {}

\* The file of a save that is under way.
Stages ==
  \A t \in Threads : \A w \in subject[t] :
    /\ pc[t] \in {"built", "create"} => place[w] = "none"
    /\ pc[t] \in {"write", "flush", "replace"} => place[w] = "temporary"
    /\ pc[t] = "replace" => data[w] = "durable"
    /\ pc[t] = "unlink" => place[w] \in {"temporary", "library"}

\* Every record ever built, saved or not, has a sound parent.
Lineage ==
  \A w \in Workflows : \A a \in record[w].parent :
    /\ a # w
    /\ place[a] \in {"library", "trash"}
    /\ record[w].basis = {record[a].program}

IInv == TypeOK /\ Holding /\ Stages /\ Lineage /\ LibraryIsWhole /\ DeletedOnce

\* The store starts empty: every part of the invariant holds.
LEMMA InitIInv == Init => IInv
<1> SUFFICES ASSUME Init PROVE IInv
  OBVIOUS
<1> USE StoreAssumption DEF Init
<1>1. Blank \in Records
  BY DEF Blank, Records
<1>2. TypeOK
  BY <1>1 DEF TypeOK
<1>3. Holding /\ Stages
  BY DEF Holding, Stages, Busy
<1>4. Lineage
  BY DEF Lineage, Blank
<1>5. LibraryIsWhole /\ DeletedOnce
  BY DEF LibraryIsWhole, DeletedOnce
<1> QED
  BY <1>2, <1>3, <1>4, <1>5 DEF IInv

\* Every step of every thread, and a crash, preserves the invariant.
LEMMA NextIInv == IInv /\ [Next]_vars => IInv'
<1> SUFFICES ASSUME IInv, [Next]_vars PROVE IInv'
  OBVIOUS
<1> USE DEF IInv
<1>1. ASSUME NEW t \in Threads, BeginSave(t) PROVE IInv'
  <2>1. PICK w \in Workflows, p \in Programs, ancestor \in {{}} \cup {{a} : a \in Library} :
          /\ place[w] = "none"
          /\ \A other \in Threads : w \notin subject[other]
          /\ BuildRecord(w, p, ancestor)
          /\ subject' = [subject EXCEPT ![t] = {w}]
    BY <1>1 DEF BeginSave
  <2>2. ancestor \subseteq Library /\ \A a, b \in ancestor : a = b
    OBVIOUS
  <2>3. TypeOK'
    <3>1. [program |-> p, parent |-> ancestor, basis |-> {record[a].program : a \in ancestor}] \in Records
      BY <2>2 DEF Records, TypeOK, Library
    <3>2. record' \in [Workflows -> Records]
      BY <2>1, <3>1 DEF TypeOK, BuildRecord
    <3> QED
      BY <1>1, <2>1, <3>2 DEF TypeOK, BeginSave
  <2>4. Holding'
    BY <1>1, <2>1 DEF TypeOK, Holding, Busy, BeginSave
  <2>5. Stages'
    BY <1>1, <2>1 DEF TypeOK, Stages, BeginSave
  <2>6. Lineage'
    <3> SUFFICES ASSUME NEW v \in Workflows, NEW a \in record'[v].parent
                 PROVE  a # v /\ place[a] \in {"library", "trash"}
                          /\ record'[v].basis = {record'[a].program}
      BY <1>1 DEF Lineage, BeginSave
    <3>1. CASE v = w
      <4>1. a \in ancestor /\ record'[v].basis = {record[b].program : b \in ancestor}
        BY <2>1, <3>1 DEF BuildRecord, TypeOK
      <4>2. a \in Library /\ a # w
        BY <2>1, <2>2, <4>1 DEF Library
      <4>3. record'[a] = record[a]
        BY <2>1, <4>2 DEF BuildRecord, TypeOK, Library
      <4> QED
        BY <2>2, <3>1, <4>1, <4>2, <4>3 DEF Library
    <3>2. CASE v # w
      <4>1. record'[v] = record[v]
        BY <2>1, <3>2 DEF BuildRecord, TypeOK
      <4>2. a \in Workflows /\ a # v /\ place[a] \in {"library", "trash"}
              /\ record[v].basis = {record[a].program}
        BY <4>1 DEF Lineage, TypeOK, Records
      <4>3. a # w
        BY <2>1, <4>2
      <4> QED
        BY <2>1, <4>1, <4>2, <4>3 DEF BuildRecord, TypeOK
    <3> QED
      BY <3>1, <3>2
  <2>7. (LibraryIsWhole /\ DeletedOnce)'
    BY <1>1 DEF BeginSave, LibraryIsWhole, DeletedOnce
  <2> QED
    BY <2>3, <2>4, <2>5, <2>6, <2>7
<1>2. ASSUME NEW t \in Threads, CreateTemporary(t) PROVE IInv'
  <2> USE <1>2 DEF CreateTemporary
  <2>1. TypeOK' /\ Holding'
    BY DEF TypeOK, Holding, Busy
  <2>2. Stages'
    BY DEF TypeOK, Holding, Stages
  <2>3. \A w \in Workflows : place[w] \in {"library", "trash"} => place'[w] = place[w]
    BY DEF TypeOK, Stages
  <2>4. Lineage'
    BY <2>3 DEF TypeOK, Lineage, Records
  <2>5. (LibraryIsWhole /\ DeletedOnce)'
    BY <2>3 DEF TypeOK, LibraryIsWhole, DeletedOnce, Stages
  <2> QED
    BY <2>1, <2>2, <2>4, <2>5
<1>3. ASSUME NEW t \in Threads, Write(t) \/ Flush(t) PROVE IInv'
  <2>1. /\ pc[t] \in {"write", "flush"}
        /\ pc' = [pc EXCEPT ![t] = IF pc[t] = "write" THEN "flush" ELSE "replace"]
        /\ data' = [w \in Workflows |-> IF w \in subject[t]
                      THEN (IF pc[t] = "write" THEN "written" ELSE "durable") ELSE data[w]]
        /\ UNCHANGED <<place, record, lock, subject, deletes, crashes>>
    BY <1>3 DEF Write, Flush
  <2>2. TypeOK' /\ Holding'
    BY <2>1 DEF TypeOK, Holding, Busy
  <2>3. Stages'
    BY <2>1 DEF TypeOK, Holding, Stages
  <2>4. LibraryIsWhole'
    BY <2>1 DEF TypeOK, LibraryIsWhole, Stages
  <2>5. (Lineage /\ DeletedOnce)'
    BY <2>1 DEF Lineage, DeletedOnce
  <2> QED
    BY <2>2, <2>3, <2>4, <2>5
<1>4. ASSUME NEW t \in Threads, Fail(t) PROVE IInv'
  <2>1. TypeOK' /\ Holding'
    BY <1>4 DEF Fail, TypeOK, Holding, Busy
  <2>2. Stages'
    BY <1>4 DEF Fail, TypeOK, Stages
  <2>3. (Lineage /\ LibraryIsWhole /\ DeletedOnce)'
    BY <1>4 DEF Fail, Lineage, LibraryIsWhole, DeletedOnce
  <2> QED
    BY <2>1, <2>2, <2>3
<1>5. ASSUME NEW t \in Threads, Replace(t) PROVE IInv'
  <2> USE <1>5 DEF Replace
  <2>1. TypeOK' /\ Holding'
    BY DEF TypeOK, Holding, Busy
  <2>2. Stages'
    BY DEF TypeOK, Holding, Stages
  <2>3. \A w \in Workflows : place[w] \in {"library", "trash"} => place'[w] = place[w]
    BY DEF TypeOK, Stages
  <2>4. Lineage'
    BY <2>3 DEF TypeOK, Lineage, Records
  <2>5. LibraryIsWhole'
    BY DEF TypeOK, LibraryIsWhole, Stages
  <2>6. DeletedOnce'
    BY DEF TypeOK, DeletedOnce, Stages
  <2> QED
    BY <2>1, <2>2, <2>4, <2>5, <2>6
<1>6. ASSUME NEW t \in Threads, Unlink(t) PROVE IInv'
  <2>1. /\ pc[t] = "unlink" /\ pc' = [pc EXCEPT ![t] = "idle"]
        /\ lock' = {} /\ subject' = [subject EXCEPT ![t] = {}]
        /\ place' = [w \in Workflows |-> IF w \in subject[t] /\ place[w] = "temporary"
                                         THEN "none" ELSE place[w]]
        /\ data' = [w \in Workflows |-> IF w \in subject[t] /\ place[w] = "temporary"
                                        THEN "partial" ELSE data[w]]
        /\ UNCHANGED <<record, deletes, crashes>>
    BY <1>6 DEF Unlink, LeaveLock
  <2>2. \A u \in Threads : pc[u] \in Busy => u = t
    BY <2>1 DEF Holding, TypeOK, Busy
  <2>3. TypeOK' /\ Holding'
    BY <2>1, <2>2 DEF TypeOK, Holding, Busy
  <2>4. Stages'
    BY <2>1, <2>2 DEF TypeOK, Holding, Stages, Busy
  <2>5. \A w \in Workflows : place[w] \in {"library", "trash"} => place'[w] = place[w] /\ data'[w] = data[w]
    BY <2>1 DEF TypeOK
  <2>6. Lineage'
    BY <2>1, <2>5 DEF TypeOK, Lineage, Records
  <2>7. (LibraryIsWhole /\ DeletedOnce)'
    BY <2>1, <2>5 DEF TypeOK, LibraryIsWhole, DeletedOnce
  <2> QED
    BY <2>3, <2>4, <2>6, <2>7
<1>7. ASSUME NEW t \in Threads, Delete(t) PROVE IInv'
  <2>1. PICK w \in Library : /\ place' = [place EXCEPT ![w] = "trash"]
                             /\ deletes' = [deletes EXCEPT ![w] = @ + 1]
    BY <1>7 DEF Delete
  <2>2. w \in Workflows /\ place[w] = "library"
    BY DEF Library
  <2>3. lock = {} /\ UNCHANGED <<data, record, lock, pc, subject, crashes>>
    BY <1>7 DEF Delete
  <2>4. TypeOK' /\ Holding'
    BY <2>1, <2>2, <2>3 DEF TypeOK, Holding
  <2>5. Stages'
    BY <2>1, <2>2, <2>3 DEF TypeOK, Holding, Stages, Busy
  <2>6. Lineage'
    BY <2>1, <2>2, <2>3 DEF TypeOK, Lineage, Records
  <2>7. LibraryIsWhole'
    BY <2>1, <2>2, <2>3 DEF TypeOK, LibraryIsWhole
  <2>8. DeletedOnce'
    BY <2>1, <2>2, <2>3 DEF TypeOK, DeletedOnce
  <2> QED
    BY <2>4, <2>5, <2>6, <2>7, <2>8
<1>8. CASE Crash
  <2>1. TypeOK'
    BY <1>8, StoreAssumption DEF Crash, TypeOK
  <2>2. Holding' /\ Stages'
    BY <1>8 DEF Crash, Holding, Stages, Busy
  <2>3. LibraryIsWhole'
    BY <1>8 DEF Crash, LibraryIsWhole
  <2>4. (Lineage /\ DeletedOnce)'
    BY <1>8 DEF Crash, Lineage, DeletedOnce
  <2> QED
    BY <2>1, <2>2, <2>3, <2>4
<1>9. ASSUME NEW t \in Threads, TakeLock(t) PROVE IInv'
  <2> USE <1>9 DEF TakeLock
  <2>1. TypeOK' /\ Holding'
    BY DEF TypeOK, Holding, Busy
  <2>2. Stages'
    BY DEF TypeOK, Holding, Stages
  <2>3. (Lineage /\ LibraryIsWhole /\ DeletedOnce)'
    BY DEF Lineage, LibraryIsWhole, DeletedOnce
  <2> QED
    BY <2>1, <2>2, <2>3
<1>10. ASSUME NEW t \in Threads, CreateFails(t) \/ UnlinkFails(t) PROVE IInv'
  <2>1. /\ pc[t] \in {"create", "unlink"} /\ pc' = [pc EXCEPT ![t] = "idle"]
        /\ lock' = {} /\ subject' = [subject EXCEPT ![t] = {}]
        /\ UNCHANGED <<place, data, record, deletes, crashes>>
    BY <1>10 DEF CreateFails, UnlinkFails, LeaveLock
  <2>2. \A u \in Threads : pc[u] \in Busy => u = t
    BY <2>1 DEF Holding, TypeOK, Busy
  <2>3. TypeOK' /\ Holding'
    BY <2>1, <2>2 DEF TypeOK, Holding, Busy
  <2>4. Stages'
    BY <2>1, <2>2 DEF TypeOK, Holding, Stages, Busy
  <2>5. (Lineage /\ LibraryIsWhole /\ DeletedOnce)'
    BY <2>1 DEF Lineage, LibraryIsWhole, DeletedOnce
  <2> QED
    BY <2>3, <2>4, <2>5
<1>11. CASE UNCHANGED vars
  BY <1>11 DEF vars, TypeOK, Holding, Stages, Lineage, LibraryIsWhole, DeletedOnce
<1> QED
  BY <1>1, <1>2, <1>3, <1>4, <1>5, <1>6, <1>7, <1>8, <1>9, <1>10, <1>11 DEF Next, Continue

\* The invariant holds in every reachable state.
THEOREM StoreInvariant == Spec => []IInv
  BY InitIInv, NextIInv, PTL DEF Spec

\* Concurrent saves and deletions, steps that raise and crashes never leave a
\* partial or unflushed file under a workflow's name.
THEOREM LibraryIsWholeHolds == Spec => []LibraryIsWhole
<1>1. IInv => LibraryIsWhole
  BY DEF IInv
<1> QED
  BY <1>1, StoreInvariant, PTL

\* A saved workflow's parent and parent hash are those of a workflow that was
\* in the library, whatever is deleted meanwhile.
THEOREM LineageIsSoundHolds == Spec => []LineageIsSound
<1>1. IInv => LineageIsSound
  BY DEF IInv, Lineage, LineageIsSound, Library
<1> QED
  BY <1>1, StoreInvariant, PTL

\* Exactly one deletion of a workflow succeeds, and it keeps the copy.
THEOREM DeletedOnceHolds == Spec => []DeletedOnce
<1>1. IInv => DeletedOnce
  BY DEF IInv
<1> QED
  BY <1>1, StoreInvariant, PTL

\* The record of a workflow in the library never changes, and the workflow
\* only ever moves to the trash.
THEOREM ImmutableHolds == Spec => Immutable
<1> DEFINE Kept == \A w \in Workflows : place[w] \in {"library", "trash"} =>
             /\ record'[w] = record[w]
             /\ place'[w] \in {place[w], "trash"}
<1>1. IInv /\ [Next]_vars => [Kept]_vars
  <2> SUFFICES ASSUME IInv, Next PROVE Kept
    OBVIOUS
  <2> SUFFICES ASSUME NEW w \in Workflows, place[w] \in {"library", "trash"}
               PROVE  record'[w] = record[w] /\ place'[w] \in {place[w], "trash"}
    OBVIOUS
  <2> USE DEF IInv
  <2>1. ASSUME NEW t \in Threads, BeginSave(t) PROVE record'[w] = record[w] /\ place'[w] = place[w]
    BY <2>1 DEF BeginSave, BuildRecord, TypeOK
  <2>2. ASSUME NEW t \in Threads, CreateTemporary(t) \/ Replace(t) PROVE record'[w] = record[w] /\ place'[w] = place[w]
    BY <2>2 DEF CreateTemporary, Replace, TypeOK, Stages
  <2>3. ASSUME NEW t \in Threads, Write(t) \/ Flush(t) \/ Fail(t) \/ TakeLock(t) \/ CreateFails(t) \/ UnlinkFails(t)
        PROVE  record'[w] = record[w] /\ place'[w] = place[w]
    BY <2>3 DEF Write, Flush, Fail, TakeLock, CreateFails, UnlinkFails
  <2>4. ASSUME NEW t \in Threads, Unlink(t) PROVE record'[w] = record[w] /\ place'[w] = place[w]
    BY <2>4 DEF Unlink, TypeOK
  <2>5. ASSUME NEW t \in Threads, Delete(t) PROVE record'[w] = record[w] /\ place'[w] \in {place[w], "trash"}
    BY <2>5 DEF Delete, TypeOK, Library
  <2>6. CASE Crash
    BY <2>6 DEF Crash
  <2> QED
    BY <2>1, <2>2, <2>3, <2>4, <2>5, <2>6 DEF Next, Continue
<1>2. Spec => [][Next]_vars
  BY PTL DEF Spec
<1>3. Spec => [][Kept]_vars
  BY <1>1, <1>2, StoreInvariant, PTL
<1> QED
  BY <1>3 DEF Immutable
=============================================================================
