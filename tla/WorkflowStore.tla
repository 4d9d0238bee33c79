---------------------------- MODULE WorkflowStore ----------------------------
(***************************************************************************)
(* WorkflowStore: the library of saved workflows, one JSON file each.      *)
(* HTTP handler threads save and delete concurrently.  Both take the       *)
(* store's lock for the files, but save looks its parent up before it      *)
(* takes it.  The machine may go down at any moment; what was written and  *)
(* not yet flushed is lost.  get and list only read: a file they cannot    *)
(* read is passed over.                                                    *)
(*                                                                         *)
(* A workflow id is used for one file (16 random hexadecimal digits).  A   *)
(* program stands for its hash.                                            *)
(***************************************************************************)
EXTENDS Naturals

CONSTANTS
  Threads,     \* HTTP handler threads
  Workflows,   \* workflow ids that may be given out
  Programs,    \* phase programs
  MaxCrashes   \* bound: how often the machine goes down

ASSUME StoreAssumption == Programs # {} /\ MaxCrashes \in Nat

VARIABLES
  place,    \* of each file: "none", "temporary", "library" or "trash"
  data,     \* what the file holds: "partial", "written" (not flushed), "durable"
  record,   \* of each workflow: its program, its parent and the parent's hash
  lock,     \* the threads that hold the lock: at most one
  pc,       \* where each thread is
  subject,  \* the workflow each thread is saving: at most one
  deletes,  \* history: how many deletions of each workflow answered True
  crashes   \* bound: how often the machine went down

vars == <<place, data, record, lock, pc, subject, deletes, crashes>>

Library == {w \in Workflows : place[w] = "library"}
Records == [program : Programs, parent : SUBSET Workflows, basis : SUBSET Programs]
Blank == [program |-> CHOOSE p \in Programs : TRUE, parent |-> {}, basis |-> {}]

Init ==
  /\ place = [w \in Workflows |-> "none"]
  /\ data = [w \in Workflows |-> "partial"]
  /\ record = [w \in Workflows |-> Blank]
  /\ lock = {}
  /\ pc = [t \in Threads |-> "idle"]
  /\ subject = [t \in Threads |-> {}]
  /\ deletes = [w \in Workflows |-> 0]
  /\ crashes = 0

-----------------------------------------------------------------------------
(* save                                                                    *)

\* Mutant of BuildRecord: the hash is the child's own.
BuildRecordOwnHash(w, p, ancestor) ==
  record' = [record EXCEPT ![w] = [program |-> p, parent |-> ancestor,
                                   basis |-> {p : a \in ancestor}]]

\* SavedWorkflow(...): the parent's id and program hash go into the record.
BuildRecord(w, p, ancestor) ==
  record' = [record EXCEPT ![w] = [program |-> p, parent |-> ancestor,
                                   basis |-> {record[a].program : a \in ancestor}]]

\* Mutant of BeginSave: the id of a workflow in the library is given again.
BeginSaveReused(t) ==
  /\ pc[t] = "idle"
  /\ \E w \in Workflows, p \in Programs, ancestor \in {{}} \cup {{a} : a \in Library} :
       /\ \A other \in Threads : w \notin subject[other]
       /\ BuildRecord(w, p, ancestor)
       /\ subject' = [subject EXCEPT ![t] = {w}]
  /\ pc' = [pc EXCEPT ![t] = "built"]
  /\ UNCHANGED <<place, data, lock, deletes, crashes>>

\* The parent, if one is named, is looked up first: without it there is no
\* save.  The id is new.
BeginSave(t) ==
  /\ pc[t] = "idle"
  /\ \E w \in Workflows, p \in Programs, ancestor \in {{}} \cup {{a} : a \in Library} :
       /\ place[w] = "none"
       /\ \A other \in Threads : w \notin subject[other]
       /\ BuildRecord(w, p, ancestor)
       /\ subject' = [subject EXCEPT ![t] = {w}]
  /\ pc' = [pc EXCEPT ![t] = "built"]
  /\ UNCHANGED <<place, data, lock, deletes, crashes>>

TakeLock(t) ==
  /\ pc[t] = "built" /\ lock = {}
  /\ lock' = {t}
  /\ pc' = [pc EXCEPT ![t] = "create"]
  /\ UNCHANGED <<place, data, record, subject, deletes, crashes>>

\* mkstemp creates an empty file that glob does not match.
CreateTemporary(t) ==
  /\ pc[t] = "create"
  /\ place' = [w \in Workflows |-> IF w \in subject[t] THEN "temporary" ELSE place[w]]
  /\ pc' = [pc EXCEPT ![t] = "write"]
  /\ UNCHANGED <<data, record, lock, subject, deletes, crashes>>

\* The with block of the lock is left, by a return or by an exception.
LeaveLock(t) ==
  /\ lock' = {}
  /\ subject' = [subject EXCEPT ![t] = {}]
  /\ pc' = [pc EXCEPT ![t] = "idle"]

\* mkdir or mkstemp raises, before the try.
CreateFails(t) ==
  /\ pc[t] = "create"
  /\ LeaveLock(t)
  /\ UNCHANGED <<place, data, record, deletes, crashes>>

Write(t) ==
  /\ pc[t] = "write"
  /\ data' = [w \in Workflows |-> IF w \in subject[t] THEN "written" ELSE data[w]]
  /\ pc' = [pc EXCEPT ![t] = "flush"]
  /\ UNCHANGED <<place, record, lock, subject, deletes, crashes>>

\* Mutant of Flush: nothing reaches the disk.
FlushNothing(t) ==
  /\ pc[t] = "flush"
  /\ pc' = [pc EXCEPT ![t] = "replace"]
  /\ UNCHANGED <<place, data, record, lock, subject, deletes, crashes>>

\* flush and fsync
Flush(t) ==
  /\ pc[t] = "flush"
  /\ data' = [w \in Workflows |-> IF w \in subject[t] THEN "durable" ELSE data[w]]
  /\ pc' = [pc EXCEPT ![t] = "replace"]
  /\ UNCHANGED <<place, record, lock, subject, deletes, crashes>>

\* Mutant of Fail: the exception leaves the lock taken.
FailOut(t) ==
  /\ pc[t] \in {"write", "flush", "replace"}
  /\ pc' = [pc EXCEPT ![t] = "idle"]
  /\ subject' = [subject EXCEPT ![t] = {}]
  /\ UNCHANGED <<place, data, record, lock, deletes, crashes>>

\* write, flush, fsync or replace raises: finally runs.
Fail(t) ==
  /\ pc[t] \in {"write", "flush", "replace"}
  /\ pc' = [pc EXCEPT ![t] = "unlink"]
  /\ UNCHANGED <<place, data, record, lock, subject, deletes, crashes>>

Replace(t) ==
  /\ pc[t] = "replace"
  /\ place' = [w \in Workflows |-> IF w \in subject[t] THEN "library" ELSE place[w]]
  /\ pc' = [pc EXCEPT ![t] = "unlink"]
  /\ UNCHANGED <<data, record, lock, subject, deletes, crashes>>

\* finally: the temporary file, if it is still there, is removed; the lock is
\* released.
Unlink(t) ==
  /\ pc[t] = "unlink"
  /\ LET left == {w \in subject[t] : place[w] = "temporary"} IN
       /\ place' = [w \in Workflows |-> IF w \in left THEN "none" ELSE place[w]]
       /\ data' = [w \in Workflows |-> IF w \in left THEN "partial" ELSE data[w]]
  /\ LeaveLock(t)
  /\ UNCHANGED <<record, deletes, crashes>>

\* unlink raises: a temporary file that was not renamed stays for good, and the
\* caller of a save that was renamed gets an error for a workflow that is there.
UnlinkFails(t) ==
  /\ pc[t] = "unlink"
  /\ LeaveLock(t)
  /\ UNCHANGED <<place, data, record, deletes, crashes>>

-----------------------------------------------------------------------------
(* delete, and the machine going down                                      *)

\* Under the lock: a file of the library moves to the trash.  If mkdir or replace
\* raises, nothing has happened.
Delete(t) ==
  /\ pc[t] = "idle" /\ lock = {}
  /\ \E w \in Library :
       /\ place' = [place EXCEPT ![w] = "trash"]
       /\ deletes' = [deletes EXCEPT ![w] = @ + 1]
  /\ UNCHANGED <<data, record, lock, pc, subject, crashes>>

\* Power is lost: what was not flushed is gone.  Temporary files stay.
Crash ==
  /\ crashes < MaxCrashes
  /\ crashes' = crashes + 1
  /\ data' = [w \in Workflows |-> IF data[w] = "written" THEN "partial" ELSE data[w]]
  /\ lock' = {}
  /\ pc' = [t \in Threads |-> "idle"]
  /\ subject' = [t \in Threads |-> {}]
  /\ UNCHANGED <<place, record, deletes>>

\* What a thread does once its request has begun.
Continue(t) ==
  \/ TakeLock(t) \/ CreateTemporary(t) \/ CreateFails(t)
  \/ Write(t) \/ Flush(t) \/ Replace(t) \/ Fail(t)
  \/ Unlink(t) \/ UnlinkFails(t)

Next == Crash \/ \E t \in Threads : BeginSave(t) \/ Delete(t) \/ Continue(t)

\* A thread that runs goes on.
Spec == Init /\ [][Next]_vars /\ \A t \in Threads : WF_vars(Continue(t))

-----------------------------------------------------------------------------
(* Properties                                                              *)

\* The store's state is well formed; one thread at most holds the lock.
TypeOK ==
  /\ place \in [Workflows -> {"none", "temporary", "library", "trash"}]
  /\ data \in [Workflows -> {"partial", "written", "durable"}]
  /\ record \in [Workflows -> Records]
  /\ lock \in SUBSET Threads /\ \A t, u \in lock : t = u
  /\ pc \in [Threads -> {"idle", "built", "create", "write", "flush", "replace", "unlink"}]
  /\ subject \in [Threads -> SUBSET Workflows]
  /\ deletes \in [Workflows -> Nat]
  /\ crashes \in 0..MaxCrashes

\* A file with a workflow's name holds a whole record that a crash cannot take
\* away: save writes and flushes before it renames.
LibraryIsWhole == \A w \in Workflows : place[w] \in {"library", "trash"} => data[w] = "durable"

\* A saved workflow names a parent that was in the library and that parent's
\* program hash, also when the parent is deleted while the child is saved.
LineageIsSound ==
  \A w \in Library : \A a \in record[w].parent :
    /\ a # w
    /\ place[a] \in {"library", "trash"}
    /\ record[w].basis = {record[a].program}

\* Of the requests that delete a workflow one answers True, and the workflow
\* is then in the trash ("keeping a local recovery copy").
DeletedOnce == \A w \in Workflows : deletes[w] = IF place[w] = "trash" THEN 1 ELSE 0

\* "Records are immutable once written": from the moment a workflow is in the
\* library its record never changes; it can only move to the trash.
Immutable ==
  [][\A w \in Workflows : place[w] \in {"library", "trash"} =>
       /\ record'[w] = record[w]
       /\ place'[w] \in {place[w], "trash"}]_vars

\* The lock is always released, whatever step of a save raises: creating the
\* temporary file, writing, flushing, renaming or removing it.
LockIsReleased == (lock # {}) ~> (lock = {})
=============================================================================
