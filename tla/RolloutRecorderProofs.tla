----------------------- MODULE RolloutRecorderProofs ------------------------
(***************************************************************************)
(* For every channel capacity and any number of items, barriers, faults    *)
(* and crashes: the rollout file is the log RolloutLog describes, and its  *)
(* ordinals neither skip nor go back.                                      *)
(***************************************************************************)
EXTENDS RolloutRecorder, FiniteSetTheorems, SequenceTheorems, TLAPS

-----------------------------------------------------------------------------
(* The inductive invariant                                                 *)

\* Items between record_canonical_items and the file: in the buffer, and in one
\* of the first k commands of the channel.
Buffered == {pending[i] : i \in 1..Len(pending)}
InQueue(n, k) == \E i \in 1..k : queue[i].op = "add" /\ queue[i].upto = n
Settled(n) == n \in lost \/ n \in InFile \/ n \in Buffered

\* A recorder that is gone has nothing; one that writes has a command.  Whoever
\* opens the file closes its last line first, so nothing is written behind a tail.
Handles ==
  /\ ~alive => /\ queue = <<>> /\ job = NoJob /\ attempt = 0 /\ ~handle /\ pending = <<>>
  /\ handle => newline

\* The last line that parses and the next ordinal.
IsLast(i) == i \in Whole /\ \A j \in Whole : j <= i
HasLast == Whole # {} => \E i \in Whole : IsLast(i)
Ordinals ==
  alive =>
    \/ /\ meta /\ next = 0
       /\ \A i \in Whole : file[i] = [item |-> 0, ordinal |-> 0, whole |-> TRUE] /\ i \in torn
    \/ /\ ~meta
       /\ \E i \in Whole :
            /\ IsLast(i)
            /\ \/ next = file[i].ordinal + 1
               \/ pending # <<>> /\ file[i] = NextLine /\ i \in torn

\* Items pass through channel, buffer and file in the order of their numbers.
Numbers ==
  /\ \A i \in 1..Len(pending) : pending[i] <= accepted /\ pending[i] \notin lost
  /\ \A i, j \in 1..Len(pending) : i < j => pending[i] < pending[j]
  /\ \A k \in 1..Len(queue) : queue[k].upto <= accepted
  /\ \A k \in 1..Len(queue) : queue[k].op = "add" =>
       /\ queue[k].upto \notin {0} \cup lost \cup InFile
       /\ \A i \in 1..Len(pending) : pending[i] < queue[k].upto
       /\ \A l \in 1..Len(queue) : k < l /\ queue[l].op = "add" => queue[k].upto < queue[l].upto
\* A line in the file whose item is still buffered is the one to be repeated, was
\* left by a failed write, and nothing else came behind it.
Repeats ==
  \A i \in Whole : file[i].item \in Buffered =>
    /\ ~meta /\ pending # <<>> /\ file[i] = NextLine /\ i \in torn
    /\ \A j \in Whole : j > i => file[j] = NextLine
Stored == /\ lost \subseteq 1..accepted /\ lost \cap InFile = {}
          /\ InFile \subseteq 0..accepted

\* Nothing is missing: in all, before each command, and for the one being executed.
NoneMissing ==
  /\ \A n \in 1..accepted : Settled(n) \/ InQueue(n, Len(queue))
  /\ \A k \in 1..Len(queue) : \A n \in 1..queue[k].upto : Settled(n) \/ InQueue(n, k)
  /\ job.upto <= accepted /\ \A n \in 1..job.upto : Settled(n)

\* Every place in the log is taken by a line.
Ranked == \A k \in 1..Cardinality(Kept) : \E i \in Kept : Rank(i) = k

IInv ==
  /\ TypeOK /\ Handles /\ HasLast /\ Ordinals /\ OrdinalsInOrder
  /\ Numbers /\ Repeats /\ Stored /\ NoneMissing /\ Ranked

-----------------------------------------------------------------------------
(* Lines                                                                   *)

\* The state as the provers need it.
LEMMA Typed ==
  ASSUME TypeOK
  PROVE  /\ Len(file) \in Nat /\ Len(queue) \in Nat /\ Len(pending) \in Nat
         /\ \A i \in 1..Len(file) : file[i] \in Lines
         /\ \A i \in Whole : i \in 1..Len(file) /\ i \in Nat /\ file[i] \in Lines /\ file[i].whole = TRUE
         /\ \A i \in 1..Len(queue) : queue[i] \in Commands
         /\ \A i \in 1..Len(pending) : pending[i] \in 1..MaxItems /\ pending[i] \in Nat
         /\ accepted \in Nat /\ MaxItems \in Nat /\ Capacity \in Nat
         /\ MaxBarriers \in Nat /\ MaxFaults \in Nat /\ MaxStarts \in Nat
<1>1. /\ Len(file) \in Nat /\ Len(queue) \in Nat /\ Len(pending) \in Nat
      /\ MaxItems \in Nat /\ Capacity \in Nat
      /\ MaxBarriers \in Nat /\ MaxFaults \in Nat /\ MaxStarts \in Nat
  BY BoundsAssumption DEF TypeOK
<1>2. \A i \in 1..Len(file) : file[i] \in Lines
  BY DEF TypeOK
<1>3. \A i \in Whole : i \in 1..Len(file) /\ file[i].whole = TRUE
  BY <1>2 DEF Whole, Lines
<1>4. \A i \in 1..Len(queue) : queue[i] \in Commands
  BY DEF TypeOK
<1>5. \A i \in 1..Len(pending) : pending[i] \in 1..MaxItems
  <2>1. pending \in Seq(1..MaxItems)
    BY DEF TypeOK
  <2> QED
    BY <2>1, ElementOfSeq
<1>6. accepted \in Nat
  BY <1>1 DEF TypeOK
<1> QED
  BY <1>1, <1>2, <1>3, <1>4, <1>5, <1>6

\* A line behind the others.
LEMMA Appended ==
  ASSUME TypeOK, NEW line \in Lines, file' = Append(file, line)
  PROVE  /\ file' \in Seq(Lines) /\ Len(file') = Len(file) + 1
         /\ \A i \in 1..Len(file) : file'[i] = file[i]
         /\ file'[Len(file) + 1] = line
         /\ Whole' = IF line.whole THEN Whole \cup {Len(file) + 1} ELSE Whole
         /\ InFile' = IF line.whole THEN InFile \cup {line.item} ELSE InFile
<1>1. /\ file' \in Seq(Lines) /\ Len(file') = Len(file) + 1 /\ Len(file) \in Nat
      /\ \A i \in 1..Len(file) : file'[i] = file[i]
      /\ file'[Len(file) + 1] = line
  BY AppendProperties DEF TypeOK
<1>2. Whole' = IF line.whole THEN Whole \cup {Len(file) + 1} ELSE Whole
  <2>1. \A i : i \in 1..Len(file') <=> i \in 1..Len(file) \/ i = Len(file) + 1
    BY <1>1
  <2>2. Len(file) + 1 \notin 1..Len(file)
    BY <1>1
  <2> QED
    BY <1>1, <2>1, <2>2 DEF Whole
<1>3. InFile' = IF line.whole THEN InFile \cup {line.item} ELSE InFile
  <2>1. \A i \in Whole : file'[i] = file[i]
    BY <1>1 DEF Whole
  <2>2. InFile' = {file'[i].item : i \in Whole'}
    BY DEF InFile
  <2>3. CASE line.whole
    <3>1. \A x : x \in InFile' <=> \E i \in Whole \cup {Len(file) + 1} : x = file'[i].item
      BY <1>2, <2>2, <2>3
    <3>2. \A x : x \in InFile' <=> (\E i \in Whole : x = file[i].item) \/ x = line.item
      BY <1>1, <2>1, <3>1
    <3>3. InFile' = InFile \cup {line.item}
      BY <3>2 DEF InFile
    <3> QED
      BY <2>3, <3>3
  <2>4. CASE ~line.whole
    BY <1>1, <1>2, <2>1, <2>2, <2>4 DEF InFile
  <2> QED
    BY <2>3, <2>4
<1> QED
  BY <1>1, <1>2, <1>3

\* The line write_pending_items is about to write.
LEMMA NextLineTyped ==
  ASSUME TypeOK, HasLine
  PROVE  /\ NextLine \in Lines /\ NextLine.whole = TRUE /\ NextLine.ordinal = next
         /\ NextLine.item = IF meta THEN 0 ELSE Head(pending)
         /\ ~meta => /\ pending # <<>> /\ Len(pending) >= 1 /\ Head(pending) = pending[1]
                     /\ Head(pending) \in 1..MaxItems
<1>1. ~meta => /\ pending # <<>> /\ Len(pending) >= 1 /\ Head(pending) = pending[1]
               /\ Head(pending) \in 1..MaxItems
  <2>1. pending \in Seq(1..MaxItems)
    BY DEF TypeOK
  <2>2. ~meta => pending # <<>>
    BY DEF HasLine
  <2>3. pending # <<>> => Len(pending) >= 1 /\ Head(pending) = pending[1]
    BY <2>1
  <2>4. pending # <<>> => Head(pending) \in 1..MaxItems
    <3> DEFINE S == 1..MaxItems
    <3>1. pending \in Seq(S)
      BY <2>1
    <3> HIDE DEF S
    <3>2. pending # <<>> => Head(pending) \in S
      BY <3>1, HeadTailProperties
    <3> QED
      BY <3>2 DEF S
  <2> QED
    BY <2>2, <2>3, <2>4
<1>2. (IF meta THEN 0 ELSE Head(pending)) \in 0..MaxItems
  BY <1>1, Typed
<1> QED
  BY <1>1, <1>2 DEF NextLine, Lines, TypeOK

\* What the writer leaves of a line it could not write.
LEMMA TornLine ==
  ASSUME TypeOK, HasLine, NEW left \in Partial
  PROVE  /\ [NextLine EXCEPT !.whole = left = "allButNewline"] \in Lines
         /\ left = "allButNewline" => [NextLine EXCEPT !.whole = left = "allButNewline"] = NextLine
         /\ left # "allButNewline" => ~[NextLine EXCEPT !.whole = left = "allButNewline"].whole
<1>1. PICK b \in BOOLEAN : b = (left = "allButNewline")
  OBVIOUS
<1>2. [NextLine EXCEPT !.whole = b] \in Lines /\ [NextLine EXCEPT !.whole = b].whole = b
  BY NextLineTyped DEF Lines
<1>3. b = TRUE => [NextLine EXCEPT !.whole = b] = NextLine
  BY NextLineTyped DEF Lines
<1> QED
  BY <1>1, <1>2, <1>3

\* ordinal_state_for_rollout finds the last line that parses.
LEMMA LastFound ==
  ASSUME TypeOK, HasLast, Whole # {}
  PROVE  \E i \in Whole : IsLast(i) /\ LastOrdinal = file[i].ordinal /\ LastOrdinal \in Nat
<1>1. PICK i \in Whole : \A j \in Whole : j <= i
  BY DEF HasLast, IsLast
<1> DEFINE c == CHOOSE k \in Whole : \A j \in Whole : j <= k
<1>2. c \in Whole /\ \A j \in Whole : j <= c
  BY <1>1
<1>3. LastOrdinal = file[c].ordinal /\ file[c].ordinal \in Nat
  BY <1>2, Typed DEF LastOrdinal, Lines
<1> QED
  BY <1>2, <1>3 DEF IsLast

-----------------------------------------------------------------------------
(* Typing                                                                  *)

\* The command channel never holds more than its capacity.
LEMMA QueueType ==
  ASSUME TypeOK, [Next]_vars
  PROVE  queue' \in Seq(Commands) /\ Len(queue') <= Capacity
<1>1. CASE RecordItems
  <2>1. [op |-> "add", upto |-> accepted + 1] \in Commands
    <3>1. accepted + 1 \in 0..MaxItems
      BY <1>1, BoundsAssumption DEF RecordItems, TypeOK
    <3> QED
      BY <3>1 DEF Commands, Barriers
  <2>2. Len(queue) < Capacity /\ queue' = Append(queue, [op |-> "add", upto |-> accepted + 1])
    BY <1>1 DEF RecordItems, Send
  <2>3. queue' \in Seq(Commands) /\ Len(queue') = Len(queue) + 1
    BY <2>1, <2>2, AppendProperties DEF TypeOK
  <2> QED
    BY <2>2, <2>3, Typed
<1>2. ASSUME NEW op \in Barriers, CallBarrier(op) PROVE queue' \in Seq(Commands) /\ Len(queue') <= Capacity
  <2>1. [op |-> op, upto |-> accepted] \in Commands
    <3>1. accepted \in 0..MaxItems
      BY <1>2, BoundsAssumption DEF CallBarrier, TypeOK
    <3> QED
      BY <3>1 DEF Commands, Barriers
  <2>2. Len(queue) < Capacity /\ queue' = Append(queue, [op |-> op, upto |-> accepted])
    BY <1>2 DEF CallBarrier, Send
  <2>3. queue' \in Seq(Commands) /\ Len(queue') = Len(queue) + 1
    BY <2>1, <2>2, AppendProperties DEF TypeOK
  <2> QED
    BY <2>2, <2>3, Typed
<1>3. CASE ReceiveOnly
  <2>1. queue # <<>> /\ queue' = Tail(queue)
    BY <1>3 DEF ReceiveOnly
  <2>2. queue' \in Seq(Commands) /\ Len(queue') = Len(queue) - 1
    BY <2>1, HeadTailProperties DEF TypeOK
  <2>3. Len(queue) <= Capacity /\ Len(queue) \in Nat /\ Capacity \in Nat
    BY BoundsAssumption DEF TypeOK
  <2> QED
    BY <2>2, <2>3
<1>4. CASE ReceiveAndWrite
  <2>1. queue # <<>> /\ queue' = Tail(queue)
    BY <1>4 DEF ReceiveAndWrite
  <2>2. queue' \in Seq(Commands) /\ Len(queue') = Len(queue) - 1
    BY <2>1, HeadTailProperties DEF TypeOK
  <2>3. Len(queue) <= Capacity /\ Len(queue) \in Nat /\ Capacity \in Nat
    BY BoundsAssumption DEF TypeOK
  <2> QED
    BY <2>2, <2>3
<1>5. CASE OpenFile
  BY <1>5 DEF OpenFile, TypeOK
<1>6. CASE OpenOrFlushFails
  BY <1>6 DEF OpenOrFlushFails, TypeOK
<1>7. CASE WriteLine
  BY <1>7 DEF WriteLine, TypeOK
<1>8. ASSUME NEW left \in Partial, WriteFails(left) PROVE queue' \in Seq(Commands) /\ Len(queue') <= Capacity
  BY <1>8 DEF WriteFails, TypeOK
<1>9. CASE Complete
  BY <1>9 DEF Complete, TypeOK
<1>10. CASE Stop
  <2>1. queue' = <<>>
    BY <1>10 DEF Stop, Gone
  <2> QED
    BY <2>1, Typed, EmptySeq
<1>11. CASE Crash
  <2>1. queue' = <<>>
    BY <1>11 DEF Crash, Gone
  <2> QED
    BY <2>1, Typed, EmptySeq
<1>12. CASE Resume
  BY <1>12 DEF Resume, TypeOK
<1>13. ASSUME NEW left \in Partial \cup {"all"}, AppendMetadata(left) PROVE queue' \in Seq(Commands) /\ Len(queue') <= Capacity
  BY <1>13 DEF AppendMetadata, TypeOK
<1>14. CASE UNCHANGED vars
  BY <1>14 DEF vars, TypeOK
<1> QED
  BY <1>1, <1>2, <1>3, <1>4, <1>5, <1>6, <1>7, <1>8, <1>9, <1>10, <1>11, <1>12, <1>13,
     <1>14 DEF Next, Writer

\* The writer's buffer holds items that callers have handed over.
LEMMA PendingType ==
  ASSUME TypeOK, Numbers, [Next]_vars
  PROVE  pending' \in Seq(1..MaxItems)
<1> DEFINE S == 1..MaxItems
<1> HIDE DEF S
<1>0. pending \in Seq(S)
  BY DEF TypeOK, S
<1> SUFFICES pending' \in Seq(S)
  BY DEF S
<1>1. CASE RecordItems
  BY <1>1, <1>0 DEF RecordItems, writerVars
<1>2. ASSUME NEW op \in Barriers, CallBarrier(op) PROVE pending' \in Seq(S)
  BY <1>2, <1>0 DEF CallBarrier, writerVars
<1>3. CASE ReceiveOnly
  <2>1. queue # <<>> /\ Head(queue) = queue[1] /\ 1 \in 1..Len(queue)
    BY <1>3 DEF ReceiveOnly, TypeOK
  <2>2. queue[1].op = "add" => queue[1].upto \in S
    BY <2>1, Typed DEF Numbers, Commands, S
  <2>3. pending' = pending \/ (queue[1].op = "add" /\ pending' = Append(pending, queue[1].upto))
    BY <1>3, <2>1 DEF ReceiveOnly
  <2> QED
    BY <1>0, <2>2, <2>3, AppendProperties
<1>4. CASE ReceiveAndWrite
  <2>1. queue # <<>> /\ Head(queue) = queue[1] /\ 1 \in 1..Len(queue)
    BY <1>4 DEF ReceiveAndWrite, TypeOK
  <2>2. queue[1].op = "add" => queue[1].upto \in S
    BY <2>1, Typed DEF Numbers, Commands, S
  <2>3. pending' = pending \/ (queue[1].op = "add" /\ pending' = Append(pending, queue[1].upto))
    BY <1>4, <2>1 DEF ReceiveAndWrite
  <2> QED
    BY <1>0, <2>2, <2>3, AppendProperties
<1>5. CASE OpenFile
  BY <1>5, <1>0 DEF OpenFile, writerVars
<1>6. CASE OpenOrFlushFails
  BY <1>6, <1>0 DEF OpenOrFlushFails, writerVars
<1>7. CASE WriteLine
  <2>1. pending' = pending \/ (pending # <<>> /\ pending' = Tail(pending))
    BY <1>7 DEF WriteLine, HasLine
  <2> QED
    BY <1>0, <2>1, HeadTailProperties
<1>8. ASSUME NEW left \in Partial, WriteFails(left) PROVE pending' \in Seq(S)
  BY <1>8, <1>0 DEF WriteFails, writerVars
<1>9. CASE Complete
  BY <1>9, <1>0 DEF Complete, writerVars
<1>10. CASE Stop
  <2>1. pending' = <<>>
    BY <1>10 DEF Stop, Gone
  <2> QED
    BY <2>1, EmptySeq
<1>11. CASE Crash
  <2>1. pending' = <<>>
    BY <1>11 DEF Crash, Gone
  <2> QED
    BY <2>1, EmptySeq
<1>12. CASE Resume
  BY <1>12, <1>0 DEF Resume, writerVars
<1>13. ASSUME NEW left \in Partial \cup {"all"}, AppendMetadata(left) PROVE pending' \in Seq(S)
  BY <1>13, <1>0 DEF AppendMetadata, writerVars
<1>14. CASE UNCHANGED vars
  BY <1>14, <1>0 DEF vars, writerVars
<1> QED
  BY <1>1, <1>2, <1>3, <1>4, <1>5, <1>6, <1>7, <1>8, <1>9, <1>10, <1>11, <1>12, <1>13,
     <1>14 DEF Next, Writer

\* With the newline settled, a write puts its line at the end of the file.
LEMMA WriteAppends ==
  ASSUME Handles, HasLine
  PROVE  \A line : Written(line) = Append(file, line)
BY DEF Handles, HasLine, Written

\* A file that opens has a last line that parses; new metadata goes behind it.
LEMMA OpensFacts ==
  ASSUME TypeOK, Opens
  PROVE  Whole # {} /\ 1 \in Whole /\ file[1].item = 0 /\ ~alive
<1>1. Len(file) \in Nat /\ ~alive /\ file[1].whole /\ file[1].item = 0 /\ 0 \in InFile
  BY Typed DEF Opens
<1>2. Whole # {}
  BY <1>1 DEF InFile
<1>3. Len(file) >= 1
  BY <1>1, <1>2 DEF Whole
<1> QED
  BY <1>1, <1>2, <1>3 DEF Whole

\* The session metadata written on a resume is a line of the file's type.
LEMMA MetaLine ==
  ASSUME TypeOK, HasLast, Opens, NEW left
  PROVE  [item |-> 0, ordinal |-> LastOrdinal + 1, whole |-> left # "fragment"] \in Lines
<1>1. LastOrdinal + 1 \in Nat
  BY OpensFacts, LastFound
<1>2. 0 \in 0..MaxItems /\ (left # "fragment") \in BOOLEAN
  BY Typed
<1> QED
  BY <1>1, <1>2 DEF Lines

\* Lines are only ever added to the file.
LEMMA FileStep ==
  ASSUME TypeOK, Handles, HasLast, [Next]_vars
  PROVE  file' = file \/ \E line \in Lines : file' = Append(file, line)
<1>1. CASE WriteLine
  BY <1>1, WriteAppends, NextLineTyped DEF WriteLine
<1>2. ASSUME NEW left \in Partial, WriteFails(left), left # "nothing"
      PROVE  \E line \in Lines : file' = Append(file, line)
  BY <1>2, WriteAppends, TornLine DEF WriteFails
<1>3. ASSUME NEW left \in Partial \cup {"all"}, AppendMetadata(left), left # "nothing"
      PROVE  \E line \in Lines : file' = Append(file, line)
  BY <1>3, MetaLine DEF AppendMetadata
<1>4. ASSUME ~WriteLine,
             \A left \in Partial : WriteFails(left) => left = "nothing",
             \A left \in Partial \cup {"all"} : AppendMetadata(left) => left = "nothing"
      PROVE  file' = file
  BY <1>4 DEF Next, Writer, vars, fileVars, RecordItems, CallBarrier, ReceiveOnly,
     ReceiveAndWrite,
              OpenFile, OpenOrFlushFails, WriteFails, Complete, Stop, Crash, Gone, Resume, AppendMetadata
<1> QED
  BY <1>1, <1>2, <1>3, <1>4

\* Only a line that is added joins those a failed write left.
LEMMA TornStep ==
  ASSUME TypeOK, Handles, HasLast, [Next]_vars
  PROVE  \/ torn' = torn
         \/ /\ \E line \in Lines : file' = Append(file, line)
            /\ torn' = torn \cup {Len(file) + 1}
<1>1. ASSUME NEW left \in Partial, WriteFails(left), left # "nothing"
      PROVE  /\ \E line \in Lines : file' = Append(file, line)
             /\ torn' = torn \cup {Len(file')}
  BY <1>1, WriteAppends, TornLine DEF WriteFails
<1>2. ASSUME NEW left \in Partial \cup {"all"}, AppendMetadata(left), left # "nothing", torn' # torn
      PROVE  /\ \E line \in Lines : file' = Append(file, line)
             /\ torn' = torn \cup {Len(file')}
  BY <1>2, MetaLine DEF AppendMetadata
<1>3. ASSUME NEW left \in Partial \cup {"all"}, AppendMetadata(left), left = "nothing"
      PROVE  torn' = torn
  BY <1>3 DEF AppendMetadata
<1>4. ASSUME \A left \in Partial : WriteFails(left) => left = "nothing",
             \A left \in Partial \cup {"all"} : ~AppendMetadata(left)
      PROVE  torn' = torn
  BY <1>4 DEF Next, Writer, vars, fileVars, RecordItems, CallBarrier, ReceiveOnly,
     ReceiveAndWrite, WriteLine,
              OpenFile, OpenOrFlushFails, WriteFails, Complete, Stop, Crash, Gone, Resume
<1>5. \A line \in Lines : file' = Append(file, line) => Len(file') = Len(file) + 1
  BY Appended
<1> QED
  BY <1>1, <1>2, <1>3, <1>4, <1>5

\* Every step leaves a file of lines.
LEMMA FileType ==
  ASSUME TypeOK, Handles, HasLast, [Next]_vars
  PROVE  file' \in Seq(Lines) /\ torn' \subseteq 1..Len(file')
<1>1. file' \in Seq(Lines)
  BY FileStep, Appended DEF TypeOK
<1>2. Len(file) \in Nat /\ torn \subseteq 1..Len(file)
  BY Typed DEF TypeOK
<1>3. CASE file' = file /\ torn' = torn
  BY <1>1, <1>2, <1>3
<1>4. ASSUME NEW line \in Lines, file' = Append(file, line) PROVE torn' \subseteq 1..Len(file')
  <2>1. Len(file') = Len(file) + 1 /\ torn' \subseteq torn \cup {Len(file) + 1}
    BY <1>4, Appended, TornStep
  <2> QED
    BY <1>2, <2>1
<1> QED
  BY <1>1, <1>3, <1>4, FileStep, TornStep

\* The flags, the counters, and what refers to items.
Flags == /\ alive \in BOOLEAN /\ handle \in BOOLEAN /\ deferred \in BOOLEAN
         /\ meta \in BOOLEAN /\ newline \in BOOLEAN
Counters == /\ attempt \in 0..2 /\ next \in Nat /\ accepted \in 0..MaxItems
            /\ barriers \in 0..MaxBarriers /\ faults \in 0..MaxFaults /\ starts \in 0..MaxStarts
Jobs == Commands \cup {NoJob, [op |-> "stop", upto |-> 0]}
Marked == job \in Jobs /\ lost \subseteq 1..MaxItems /\ promised \subseteq 1..MaxItems

\* Every step keeps the types of the flags.
LEMMA FlagsStep ==
  ASSUME TypeOK, [Next]_vars
  PROVE  Flags'
<1>0. Flags
  BY DEF TypeOK, Flags
<1>1. CASE RecordItems
  BY <1>1, <1>0 DEF RecordItems, Fail, Send, Gone, Opens, Flags, writerVars, fileVars,
     logHistory, boundVars
<1>2. ASSUME NEW op \in Barriers, CallBarrier(op) PROVE Flags'
  BY <1>2, <1>0 DEF CallBarrier, Fail, Send, Gone, Opens, Flags, writerVars, fileVars,
     logHistory, boundVars
<1>3. CASE ReceiveOnly
  BY <1>3, <1>0 DEF ReceiveOnly, Fail, Send, Gone, Opens, Flags, writerVars, fileVars,
     logHistory, boundVars
<1>4. CASE ReceiveAndWrite
  BY <1>4, <1>0 DEF ReceiveAndWrite, Fail, Send, Gone, Opens, Flags, writerVars, fileVars,
     logHistory, boundVars
<1>5. CASE OpenFile
  BY <1>5, <1>0 DEF OpenFile, Fail, Send, Gone, Opens, Flags, writerVars, fileVars,
     logHistory, boundVars
<1>6. CASE OpenOrFlushFails
  BY <1>6, <1>0 DEF OpenOrFlushFails, Fail, Send, Gone, Opens, Flags, writerVars, fileVars,
     logHistory, boundVars
<1>7. CASE WriteLine
  BY <1>7, <1>0 DEF WriteLine, Fail, Send, Gone, Opens, Flags, writerVars, fileVars,
     logHistory, boundVars
<1>8. ASSUME NEW left \in Partial, WriteFails(left) PROVE Flags'
  BY <1>8, <1>0 DEF WriteFails, Fail, Send, Gone, Opens, Flags, writerVars, fileVars,
     logHistory, boundVars
<1>9. CASE Complete
  BY <1>9, <1>0 DEF Complete, Fail, Send, Gone, Opens, Flags, writerVars, fileVars,
     logHistory, boundVars
<1>10. CASE Stop
  BY <1>10, <1>0 DEF Stop, Fail, Send, Gone, Opens, Flags, writerVars, fileVars,
     logHistory, boundVars
<1>11. CASE Crash
  BY <1>11, <1>0 DEF Crash, Fail, Send, Gone, Opens, Flags, writerVars, fileVars,
     logHistory, boundVars
<1>12. CASE Resume
  BY <1>12, <1>0 DEF Resume, Fail, Send, Gone, Opens, Flags, writerVars, fileVars,
     logHistory, boundVars
<1>13. ASSUME NEW left \in Partial \cup {"all"}, AppendMetadata(left) PROVE Flags'
  <2>1. newline' \in BOOLEAN
    BY <1>13 DEF AppendMetadata
  <2> QED
    BY <1>13, <1>0, <2>1 DEF AppendMetadata, Flags, writerVars
<1>14. CASE UNCHANGED vars
  BY <1>14, <1>0 DEF vars, Flags, writerVars, fileVars, logHistory, boundVars
<1> QED
  BY <1>1, <1>2, <1>3, <1>4, <1>5, <1>6, <1>7, <1>8, <1>9, <1>10, <1>11, <1>12, <1>13,
     <1>14 DEF Next, Writer

\* Every step keeps the types and the bounds of the counters.
LEMMA CountersStep ==
  ASSUME TypeOK, HasLast, [Next]_vars
  PROVE  Counters'
<1>0. Counters
  BY DEF TypeOK, Counters
<1>a. MaxItems \in Nat /\ MaxBarriers \in Nat /\ MaxFaults \in Nat /\ MaxStarts \in Nat
  BY BoundsAssumption
<1>1. CASE RecordItems
  BY <1>1, <1>0, <1>a DEF RecordItems, Counters, Fail, Gone, Opens, writerVars, fileVars,
     logHistory, boundVars
<1>2. ASSUME NEW op \in Barriers, CallBarrier(op) PROVE Counters'
  BY <1>2, <1>0, <1>a DEF CallBarrier, Counters, Fail, Gone, Opens, writerVars, fileVars,
     logHistory, boundVars
<1>3. CASE ReceiveOnly
  BY <1>3, <1>0, <1>a DEF ReceiveOnly, Counters, Fail, Gone, Opens, writerVars, fileVars,
     logHistory, boundVars
<1>4. CASE ReceiveAndWrite
  BY <1>4, <1>0, <1>a DEF ReceiveAndWrite, Counters, Fail, Gone, Opens, writerVars,
     fileVars, logHistory, boundVars
<1>5. CASE OpenFile
  BY <1>5, <1>0, <1>a DEF OpenFile, Counters, Fail, Gone, Opens, writerVars, fileVars,
     logHistory, boundVars
<1>6. CASE OpenOrFlushFails
  BY <1>6, <1>0, <1>a DEF OpenOrFlushFails, Counters, Fail, Gone, Opens, writerVars, fileVars,
     logHistory, boundVars
<1>7. CASE WriteLine
  BY <1>7, <1>0, <1>a DEF WriteLine, Counters, Fail, Gone, Opens, writerVars, fileVars,
     logHistory, boundVars
<1>8. ASSUME NEW left \in Partial, WriteFails(left) PROVE Counters'
  BY <1>8, <1>0, <1>a DEF WriteFails, Counters, Fail, Gone, Opens, writerVars, fileVars,
     logHistory, boundVars
<1>9. CASE Complete
  BY <1>9, <1>0, <1>a DEF Complete, Counters, Fail, Gone, Opens, writerVars, fileVars,
     logHistory, boundVars
<1>10. CASE Stop
  BY <1>10, <1>0, <1>a DEF Stop, Counters, Fail, Gone, Opens, writerVars, fileVars,
     logHistory, boundVars
<1>11. CASE Crash
  BY <1>11, <1>0, <1>a DEF Crash, Counters, Fail, Gone, Opens, writerVars, fileVars,
     logHistory, boundVars
<1>12. CASE Resume
  <2>1. LastOrdinal + 1 \in Nat
    BY <1>12, OpensFacts, LastFound DEF Resume
  <2> QED
    BY <1>12, <1>0, <1>a, <2>1 DEF Resume, Opens, Counters, logHistory
<1>13. ASSUME NEW left \in Partial \cup {"all"}, AppendMetadata(left) PROVE Counters'
  BY <1>13, <1>0, <1>a DEF AppendMetadata, Counters, Fail, Gone, Opens, writerVars,
     fileVars, logHistory, boundVars
<1>14. CASE UNCHANGED vars
  BY <1>14, <1>0 DEF vars, Counters, writerVars, fileVars, logHistory, boundVars
<1> QED
  BY <1>1, <1>2, <1>3, <1>4, <1>5, <1>6, <1>7, <1>8, <1>9, <1>10, <1>11, <1>12, <1>13,
     <1>14 DEF Next, Writer

\* Every step keeps the types of what refers to items.
LEMMA MarkedStep ==
  ASSUME TypeOK, [Next]_vars
  PROVE  Marked'
<1>0. Marked
  BY DEF TypeOK, Marked, Jobs
<1>a. MaxItems \in Nat /\ accepted \in 0..MaxItems
  BY BoundsAssumption DEF TypeOK
<1>1. CASE RecordItems
  BY <1>1, <1>0 DEF RecordItems, Marked, Jobs, Fail, writerVars, fileVars, logHistory,
     boundVars
<1>2. ASSUME NEW op \in Barriers, CallBarrier(op) PROVE Marked'
  BY <1>2, <1>0 DEF CallBarrier, Marked, Jobs, Fail, writerVars, fileVars, logHistory,
     boundVars
<1>3. CASE ReceiveOnly
  <2>1. Head(queue) \in Commands
    BY <1>3, HeadTailProperties DEF ReceiveOnly, TypeOK
  <2>2. Head(queue).upto \in 0..MaxItems
    BY <2>1 DEF Commands
  <2>3. AnswerOk(Head(queue)) /\ lost' = lost
    BY <1>3 DEF ReceiveOnly
  <2>4. job' \in Jobs
    BY <2>3 DEF AnswerOk, Jobs
  <2>5. \A n \in 1..Head(queue).upto : n \in 1..MaxItems
    BY <1>a, <2>2
  <2>6. promised' \subseteq promised \cup (1..Head(queue).upto)
    BY <2>3 DEF AnswerOk
  <2>7. promised' \subseteq 1..MaxItems
    BY <1>0, <2>5, <2>6 DEF Marked
  <2> QED
    BY <1>0, <2>3, <2>4, <2>7 DEF Marked
<1>4. CASE ReceiveAndWrite
  <2>1. Head(queue) \in Commands
    BY <1>4, HeadTailProperties DEF ReceiveAndWrite, TypeOK
  <2> QED
    BY <1>4, <1>0, <2>1 DEF ReceiveAndWrite, Marked, Jobs, logHistory
<1>5. CASE OpenFile
  BY <1>5, <1>0 DEF OpenFile, Marked, Jobs, Fail, writerVars, fileVars, logHistory,
     boundVars
<1>6. CASE OpenOrFlushFails
  BY <1>6, <1>0 DEF OpenOrFlushFails, Marked, Jobs, Fail, writerVars, fileVars, logHistory,
     boundVars
<1>7. CASE WriteLine
  BY <1>7, <1>0 DEF WriteLine, Marked, Jobs, Fail, writerVars, fileVars, logHistory,
     boundVars
<1>8. ASSUME NEW left \in Partial, WriteFails(left) PROVE Marked'
  BY <1>8, <1>0 DEF WriteFails, Marked, Jobs, Fail, writerVars, fileVars, logHistory,
     boundVars
<1>9. CASE Complete
  <2>1. job.upto \in 0..MaxItems
    BY <1>0, <1>a DEF Marked, Jobs, Commands, NoJob
  <2>2. AnswerOk(job) /\ lost' = lost
    BY <1>9 DEF Complete
  <2>4. job' \in Jobs
    BY <2>2 DEF AnswerOk, Jobs
  <2>5. \A n \in 1..job.upto : n \in 1..MaxItems
    BY <1>a, <2>1
  <2>6. promised' \subseteq promised \cup (1..job.upto)
    BY <2>2 DEF AnswerOk
  <2>7. promised' \subseteq 1..MaxItems
    BY <1>0, <2>5, <2>6 DEF Marked
  <2> QED
    BY <1>0, <2>2, <2>4, <2>7 DEF Marked
<1>10. CASE Stop
  BY <1>10, <1>0, <1>a DEF Stop, Gone, Marked, Jobs
<1>11. CASE Crash
  BY <1>11, <1>0, <1>a DEF Crash, Gone, Marked, Jobs
<1>12. CASE Resume
  BY <1>12, <1>0 DEF Resume, Marked, Jobs, Fail, writerVars, fileVars, logHistory, boundVars
<1>13. ASSUME NEW left \in Partial \cup {"all"}, AppendMetadata(left) PROVE Marked'
  BY <1>13, <1>0 DEF AppendMetadata, Marked, Jobs, Fail, writerVars, fileVars, logHistory,
     boundVars
<1>14. CASE UNCHANGED vars
  BY <1>14, <1>0 DEF vars, Marked, writerVars, fileVars, logHistory, boundVars
<1> QED
  BY <1>1, <1>2, <1>3, <1>4, <1>5, <1>6, <1>7, <1>8, <1>9, <1>10, <1>11, <1>12, <1>13,
     <1>14 DEF Next, Writer

\* Every step keeps TypeOK.
LEMMA TypeStep ==
  ASSUME TypeOK, Handles, HasLast, Numbers, [Next]_vars
  PROVE  TypeOK'
BY QueueType, PendingType, FileType, FlagsStep, CountersStep, MarkedStep
   DEF TypeOK, Flags, Counters, Marked, Jobs

-----------------------------------------------------------------------------
(* Ordinals                                                                *)

\* A recorder that is gone leaves nothing behind, and tails are closed.
LEMMA HandlesStep ==
  ASSUME TypeOK, Handles, [Next]_vars
  PROVE  Handles'
<1>0. attempt \in 0..2
  BY DEF TypeOK
<1>1. CASE RecordItems
  BY <1>1, <1>0 DEF RecordItems, Handles, Busy, HasLine, Fail, Send, Gone, Opens, NoJob,
     writerVars, fileVars, logHistory, boundVars
<1>2. ASSUME NEW op \in Barriers, CallBarrier(op) PROVE Handles'
  BY <1>2, <1>0 DEF CallBarrier, Handles, Busy, HasLine, Fail, Send, Gone, Opens, NoJob,
     writerVars, fileVars, logHistory, boundVars
<1>3. CASE ReceiveOnly
  BY <1>3, <1>0 DEF ReceiveOnly, Handles, Busy, HasLine, Fail, Send, Gone, Opens, NoJob,
     writerVars, fileVars, logHistory, boundVars
<1>4. CASE ReceiveAndWrite
  BY <1>4, <1>0 DEF ReceiveAndWrite, Handles, Busy, HasLine, Fail, Send, Gone, Opens,
     NoJob, writerVars, fileVars, logHistory, boundVars
<1>5. CASE OpenFile
  BY <1>5, <1>0 DEF OpenFile, Handles, Busy, HasLine, Fail, Send, Gone, Opens, NoJob,
     writerVars, fileVars, logHistory, boundVars
<1>6. CASE OpenOrFlushFails
  BY <1>6, <1>0 DEF OpenOrFlushFails, Handles, Busy, HasLine, Fail, Send, Gone, Opens, NoJob,
     writerVars, fileVars, logHistory, boundVars
<1>7. CASE WriteLine
  BY <1>7, <1>0 DEF WriteLine, Handles, Busy, HasLine, Fail, Send, Gone, Opens, NoJob,
     writerVars, fileVars, logHistory, boundVars
<1>8. ASSUME NEW left \in Partial, WriteFails(left) PROVE Handles'
  BY <1>8, <1>0 DEF WriteFails, Handles, Busy, HasLine, Fail, Send, Gone, Opens, NoJob,
     writerVars, fileVars, logHistory, boundVars
<1>9. CASE Complete
  BY <1>9, <1>0 DEF Complete, Handles, Busy, HasLine, Fail, Send, Gone, Opens, NoJob,
     writerVars, fileVars, logHistory, boundVars
<1>10. CASE Stop
  BY <1>10, <1>0 DEF Stop, Handles, Busy, HasLine, Fail, Send, Gone, Opens, NoJob,
     writerVars, fileVars, logHistory, boundVars
<1>11. CASE Crash
  BY <1>11, <1>0 DEF Crash, Handles, Busy, HasLine, Fail, Send, Gone, Opens, NoJob,
     writerVars, fileVars, logHistory, boundVars
<1>12. CASE Resume
  BY <1>12, <1>0 DEF Resume, Handles, Busy, HasLine, Fail, Send, Gone, Opens, NoJob,
     writerVars, fileVars, logHistory, boundVars
<1>13. ASSUME NEW left \in Partial \cup {"all"}, AppendMetadata(left) PROVE Handles'
  BY <1>13, <1>0 DEF AppendMetadata, Handles, Busy, HasLine, Fail, Send, Gone, Opens,
     NoJob, writerVars, fileVars, logHistory, boundVars
<1>14. CASE UNCHANGED vars
  BY <1>14 DEF vars, Handles, writerVars, fileVars, logHistory, boundVars
<1> QED
  BY <1>1, <1>2, <1>3, <1>4, <1>5, <1>6, <1>7, <1>8, <1>9, <1>10, <1>11, <1>12, <1>13,
     <1>14 DEF Next, Writer

\* One line more: it repeats the last line that parses, or follows it.
LEMMA Extended ==
  ASSUME TypeOK, HasLast, OrdinalsInOrder, NEW line \in Lines, file' = Append(file, line),
         torn \subseteq torn', NEW n, n = Len(file) + 1,
         line.whole =>
           \/ Whole = {} /\ line.item = 0 /\ line.ordinal = 0
           \/ \E i \in Whole : IsLast(i) /\ ((line = file[i] /\ i \in torn) \/ line.ordinal = file[i].ordinal + 1)
  PROVE  /\ HasLast' /\ OrdinalsInOrder'
         /\ line.whole => n \in Whole' /\ file'[n] = line /\ \A j \in Whole' : j <= n
         /\ ~line.whole => Whole' = Whole
<1>1. /\ \A i \in 1..Len(file) : file'[i] = file[i]
      /\ file'[n] = line /\ Len(file) \in Nat
      /\ Whole' = IF line.whole THEN Whole \cup {n} ELSE Whole
  BY Appended, Typed
<1>2. \A i \in Whole : i \in 1..Len(file) /\ i < n /\ i \in Nat /\ file'[i] = file[i]
  <2>1. \A i \in Whole : i \in 1..Len(file)
    BY DEF Whole
  <2> QED
    BY <1>1, <2>1
<1>3. CASE ~line.whole
  <2>1. Whole' = Whole
    BY <1>1, <1>3
  <2>2. HasLast'
    BY <2>1 DEF HasLast, IsLast
  <2>3. OrdinalsInOrder'
    BY <1>2, <2>1 DEF OrdinalsInOrder
  <2> QED
    BY <1>3, <2>1, <2>2, <2>3
<1>4. CASE line.whole
  <2>1. Whole' = Whole \cup {n}
    BY <1>1, <1>4
  <2>2. n \in Whole' /\ \A j \in Whole' : j <= n
    BY <1>1, <1>2, <2>1
  <2>3. HasLast'
    BY <2>2 DEF HasLast, IsLast
  <2>4. OrdinalsInOrder'
    <3> SUFFICES ASSUME NEW i \in Whole'
                 PROVE  \/ file'[i].item = 0 /\ file'[i].ordinal = 0 /\ \A j \in Whole' : j >= i
                        \/ \E j \in Whole' :
                             /\ j < i /\ \A k \in Whole' : k <= j \/ k >= i
                             /\ \/ file'[i].ordinal = file'[j].ordinal + 1
                                \/ file'[i] = file'[j] /\ j \in torn'
      BY DEF OrdinalsInOrder
    <3>1. CASE i \in Whole
      <4>1. CASE file[i].item = 0 /\ file[i].ordinal = 0 /\ \A j \in Whole : j >= i
        BY <1>1, <1>2, <2>1, <3>1, <4>1
      <4>2. CASE \E j \in Whole :
                   /\ j < i /\ \A k \in Whole : k <= j \/ k >= i
                   /\ \/ file[i].ordinal = file[j].ordinal + 1
                      \/ file[i] = file[j] /\ j \in torn
        <5>1. PICK j \in Whole :
                   /\ j < i /\ \A k \in Whole : k <= j \/ k >= i
                   /\ \/ file[i].ordinal = file[j].ordinal + 1
                      \/ file[i] = file[j] /\ j \in torn
          BY <4>2
        <5>2. \A k \in Whole' : k <= j \/ k >= i
          BY <1>1, <1>2, <2>1, <3>1, <5>1
        <5>3. file'[i] = file[i] /\ file'[j] = file[j] /\ j \in Whole'
          BY <1>2, <2>1, <3>1, <5>1
        <5> QED
          BY <5>1, <5>2, <5>3
      <4> QED
        BY <3>1, <4>1, <4>2 DEF OrdinalsInOrder
    <3>2. CASE i = n
      <4>1. CASE Whole = {} /\ line.item = 0 /\ line.ordinal = 0
        BY <1>1, <2>1, <3>2, <4>1
      <4>2. CASE \E j \in Whole : IsLast(j) /\ ((line = file[j] /\ j \in torn) \/ line.ordinal = file[j].ordinal + 1)
        <5>1. PICK j \in Whole : IsLast(j) /\ ((line = file[j] /\ j \in torn) \/ line.ordinal = file[j].ordinal + 1)
          BY <4>2
        <5>2. \A k \in Whole' : k <= j \/ k >= n
          BY <1>1, <1>2, <2>1, <5>1 DEF IsLast
        <5>3. file'[n] = line /\ file'[j] = file[j] /\ j \in Whole' /\ j < n
          BY <1>1, <1>2, <2>1, <5>1
        <5> QED
          BY <3>2, <5>1, <5>2, <5>3
      <4> QED
        BY <1>4, <4>1, <4>2
    <3> QED
      BY <2>1, <3>1, <3>2
  <2> QED
    BY <1>1, <1>4, <2>2, <2>3, <2>4
<1> QED
  BY <1>3, <1>4

\* The file stays as it is and the line to be written too.
LEMMA Unwritten ==
  ASSUME HasLast, Ordinals, OrdinalsInOrder,
         file' = file, torn' = torn, next' = next, meta' = meta, alive' = alive,
         pending # <<>> => pending' # <<>> /\ Head(pending') = Head(pending)
  PROVE  HasLast' /\ Ordinals' /\ OrdinalsInOrder'
<1>1. Whole' = Whole
  BY DEF Whole
<1>2. pending # <<>> => NextLine' = NextLine
  BY DEF NextLine
<1>3. HasLast' /\ OrdinalsInOrder'
  BY <1>1 DEF HasLast, IsLast, OrdinalsInOrder
<1>4. Ordinals'
  BY <1>1, <1>2 DEF Ordinals, IsLast
<1> QED
  BY <1>3, <1>4

\* The buffer grows at its end.
LEMMA HeadStays ==
  ASSUME NEW q \in Seq(1..MaxItems), q # <<>>, NEW e
  PROVE  Append(q, e) # <<>> /\ Head(Append(q, e)) = Head(q)
OBVIOUS

\* The line to be written repeats the last one that parses, or follows it.
LEMMA NextFollows ==
  ASSUME TypeOK, Handles, HasLast, Ordinals, HasLine
  PROVE  \/ Whole = {} /\ NextLine.item = 0 /\ NextLine.ordinal = 0
         \/ \E i \in Whole : IsLast(i) /\ ((NextLine = file[i] /\ i \in torn) \/ NextLine.ordinal = file[i].ordinal + 1)
<1>1. alive /\ NextLine.ordinal = next
  BY NextLineTyped DEF Handles, HasLine, Busy
<1>2. CASE meta
  <2>1. next = 0 /\ \A i \in Whole : file[i] = [item |-> 0, ordinal |-> 0, whole |-> TRUE] /\ i \in torn
    BY <1>1, <1>2 DEF Ordinals
  <2>2. NextLine = [item |-> 0, ordinal |-> 0, whole |-> TRUE]
    BY <1>2, <2>1 DEF NextLine
  <2> QED
    BY <2>1, <2>2 DEF HasLast
<1>3. CASE ~meta
  BY <1>1, <1>3 DEF Ordinals
<1> QED
  BY <1>2, <1>3

\* Ordinals go on over retries, resumption and appends to the closed file.
LEMMA OrdinalsStep ==
  ASSUME TypeOK, Handles, HasLast, Ordinals, OrdinalsInOrder, [Next]_vars
  PROVE  HasLast' /\ Ordinals' /\ OrdinalsInOrder'
<1>1. CASE RecordItems
  <2>1. file' = file /\ torn' = torn /\ next' = next /\ meta' = meta /\ alive' = alive
    BY <1>1 DEF RecordItems, fileVars, writerVars
  <2>2. pending # <<>> => pending' # <<>> /\ Head(pending') = Head(pending)
    BY <1>1 DEF RecordItems, writerVars
  <2> QED
    BY <2>1, <2>2, Unwritten
<1>2. ASSUME NEW op \in Barriers, CallBarrier(op) PROVE HasLast' /\ Ordinals' /\ OrdinalsInOrder'
  <2>1. file' = file /\ torn' = torn /\ next' = next /\ meta' = meta /\ alive' = alive
    BY <1>2 DEF CallBarrier, fileVars, writerVars
  <2>2. pending # <<>> => pending' # <<>> /\ Head(pending') = Head(pending)
    BY <1>2 DEF CallBarrier, writerVars
  <2> QED
    BY <2>1, <2>2, Unwritten
<1>3. CASE ReceiveOnly
  <2>1. file' = file /\ torn' = torn /\ next' = next /\ meta' = meta /\ alive' = alive
    BY <1>3 DEF ReceiveOnly, fileVars, writerVars
  <2>2. pending # <<>> => pending' # <<>> /\ Head(pending') = Head(pending)
    <3>1. pending \in Seq(1..MaxItems)
      BY DEF TypeOK
    <3>2. pending' = pending \/ pending' = Append(pending, Head(queue).upto)
      BY <1>3 DEF ReceiveOnly
    <3>3. pending # <<>> => /\ Append(pending, Head(queue).upto) # <<>>
                            /\ Head(Append(pending, Head(queue).upto)) = Head(pending)
      BY <3>1, HeadStays
    <3> QED
      BY <3>2, <3>3
  <2> QED
    BY <2>1, <2>2, Unwritten
<1>4. CASE ReceiveAndWrite
  <2>1. file' = file /\ torn' = torn /\ next' = next /\ meta' = meta /\ alive' = alive
    BY <1>4 DEF ReceiveAndWrite, fileVars, writerVars
  <2>2. pending # <<>> => pending' # <<>> /\ Head(pending') = Head(pending)
    <3>1. pending \in Seq(1..MaxItems)
      BY DEF TypeOK
    <3>2. pending' = pending \/ pending' = Append(pending, Head(queue).upto)
      BY <1>4 DEF ReceiveAndWrite
    <3>3. pending # <<>> => /\ Append(pending, Head(queue).upto) # <<>>
                            /\ Head(Append(pending, Head(queue).upto)) = Head(pending)
      BY <3>1, HeadStays
    <3> QED
      BY <3>2, <3>3
  <2> QED
    BY <2>1, <2>2, Unwritten
<1>5. CASE OpenFile
  <2>1. file' = file /\ torn' = torn /\ next' = next /\ meta' = meta /\ alive' = alive
    BY <1>5 DEF OpenFile, fileVars, writerVars
  <2>2. pending # <<>> => pending' # <<>> /\ Head(pending') = Head(pending)
    BY <1>5 DEF OpenFile, writerVars
  <2> QED
    BY <2>1, <2>2, Unwritten
<1>6. CASE OpenOrFlushFails
  <2>1. file' = file /\ torn' = torn /\ next' = next /\ meta' = meta /\ alive' = alive
    BY <1>6 DEF OpenOrFlushFails, fileVars, writerVars
  <2>2. pending # <<>> => pending' # <<>> /\ Head(pending') = Head(pending)
    BY <1>6 DEF OpenOrFlushFails, writerVars
  <2> QED
    BY <2>1, <2>2, Unwritten
<1>7. CASE WriteLine
  <2>1. /\ next' = next + 1 /\ meta' = FALSE /\ HasLine /\ alive
        /\ file' = Append(file, NextLine) /\ NextLine \in Lines /\ NextLine.whole
        /\ NextLine.ordinal = next
    BY <1>7, WriteAppends, NextLineTyped DEF WriteLine, HasLine, Handles, Busy
  <2>2. PICK n : n = Len(file) + 1
    OBVIOUS
  <2>3. PICK line \in Lines : line = NextLine
    BY <2>1
  <2>4. /\ HasLast' /\ OrdinalsInOrder'
        /\ n \in Whole' /\ file'[n] = line /\ \A j \in Whole' : j <= n
    <3>1. torn \subseteq torn'
      BY TornStep
    <3>2. line.whole =>
            \/ Whole = {} /\ line.item = 0 /\ line.ordinal = 0
            \/ \E i \in Whole : IsLast(i) /\ ((line = file[i] /\ i \in torn) \/ line.ordinal = file[i].ordinal + 1)
      BY <2>1, <2>3, NextFollows
    <3> QED
      BY <2>1, <2>2, <2>3, <3>1, <3>2, Extended
  <2>5. IsLast(n)'
    BY <2>4 DEF IsLast
  <2>6. next' = file'[n].ordinal + 1
    BY <2>1, <2>3, <2>4
  <2>7. Ordinals'
    BY <2>1, <2>4, <2>5, <2>6 DEF Ordinals
  <2> QED
    BY <2>4, <2>7
<1>8. ASSUME NEW left \in Partial, WriteFails(left) PROVE HasLast' /\ Ordinals' /\ OrdinalsInOrder'
  <2>1. next' = next /\ meta' = meta /\ alive' = alive /\ pending' = pending /\ HasLine /\ alive
    BY <1>8 DEF WriteFails, HasLine, Handles, Busy
  <2>2. CASE left = "nothing"
    BY <1>8, <2>1, <2>2, Unwritten DEF WriteFails, fileVars
  <2>3. CASE left # "nothing"
    <3>1. PICK line \in Lines : /\ line = [NextLine EXCEPT !.whole = left = "allButNewline"]
                                /\ file' = Append(file, line)
      BY <1>8, <2>1, <2>3, TornLine, WriteAppends DEF WriteFails
    <3>2. line.whole => line = NextLine /\ NextLine \in Lines
      BY <2>1, <3>1, TornLine, NextLineTyped
    <3>3. PICK n : n = Len(file) + 1
      OBVIOUS
    <3>4. /\ HasLast' /\ OrdinalsInOrder'
          /\ line.whole => n \in Whole' /\ file'[n] = line /\ \A j \in Whole' : j <= n
          /\ ~line.whole => Whole' = Whole
      <4>1. torn \subseteq torn'
        BY TornStep
      <4>2. line.whole =>
              \/ Whole = {} /\ line.item = 0 /\ line.ordinal = 0
              \/ \E i \in Whole : IsLast(i) /\ ((line = file[i] /\ i \in torn) \/ line.ordinal = file[i].ordinal + 1)
        BY <2>1, <3>2, NextFollows
      <4> QED
        BY <3>1, <3>3, <4>1, <4>2, Extended
    <3>t. torn \subseteq torn' /\ n \in torn'
      BY <1>8, <2>3, <3>1, <3>3, Appended DEF WriteFails
    <3>5. NextLine' = NextLine
      BY <2>1 DEF NextLine
    <3>6. \A i \in Whole : file'[i] = file[i]
      BY <3>1, Appended DEF Whole
    <3>7. Ordinals'
      <4>1. CASE ~line.whole
        <5>1. Whole' = Whole
          BY <3>4, <4>1
        <5> QED
          BY <2>1, <3>t, <3>5, <3>6, <5>1 DEF Ordinals, IsLast
      <4>2. CASE line.whole /\ ~meta
        <5>1. IsLast(n)' /\ n \in Whole' /\ file'[n] = NextLine'
          BY <3>2, <3>4, <3>5, <4>2 DEF IsLast
        <5>2. pending' # <<>>
          BY <2>1, <4>2, NextLineTyped
        <5> QED
          BY <2>1, <3>t, <4>2, <5>1, <5>2 DEF Ordinals
      <4>3. CASE line.whole /\ meta
        <5>1. next = 0 /\ \A i \in Whole : file[i] = [item |-> 0, ordinal |-> 0, whole |-> TRUE] /\ i \in torn
          BY <2>1, <4>3 DEF Ordinals
        <5>2. NextLine = [item |-> 0, ordinal |-> 0, whole |-> TRUE]
          BY <4>3, <5>1 DEF NextLine
        <5>3. Whole' = Whole \cup {n} /\ file'[n] = NextLine
          BY <3>1, <3>2, <3>3, <4>3, Appended
        <5> QED
          BY <2>1, <3>t, <3>6, <4>3, <5>1, <5>2, <5>3 DEF Ordinals
      <4> QED
        BY <4>1, <4>2, <4>3
    <3> QED
      BY <3>4, <3>7
  <2> QED
    BY <2>2, <2>3
<1>9. CASE Complete
  <2>1. file' = file /\ torn' = torn /\ next' = next /\ meta' = meta /\ alive' = alive
    BY <1>9 DEF Complete, fileVars, writerVars
  <2>2. pending # <<>> => pending' # <<>> /\ Head(pending') = Head(pending)
    BY <1>9 DEF Complete, writerVars
  <2> QED
    BY <2>1, <2>2, Unwritten
<1>10. CASE Stop
  <2>1. file' = file /\ torn' = torn /\ alive' = FALSE
    BY <1>10 DEF Stop, Gone, fileVars
  <2>2. Whole' = Whole
    BY <2>1 DEF Whole
  <2> QED
    BY <2>1, <2>2 DEF HasLast, IsLast, Ordinals, OrdinalsInOrder
<1>11. CASE Crash
  <2>1. file' = file /\ torn' = torn /\ alive' = FALSE
    BY <1>11 DEF Crash, Gone, fileVars
  <2>2. Whole' = Whole
    BY <2>1 DEF Whole
  <2> QED
    BY <2>1, <2>2 DEF HasLast, IsLast, Ordinals, OrdinalsInOrder
<1>12. CASE Resume
  <2>1. file' = file /\ torn' = torn /\ meta' = FALSE /\ next' = LastOrdinal + 1 /\ Opens
    BY <1>12 DEF Resume
  <2>2. Whole' = Whole
    BY <2>1 DEF Whole
  <2>3. PICK i \in Whole : IsLast(i) /\ LastOrdinal = file[i].ordinal
    BY <2>1, OpensFacts, LastFound
  <2>4. IsLast(i)'
    BY <2>2, <2>3 DEF IsLast
  <2>5. next' = file'[i].ordinal + 1
    BY <2>1, <2>3
  <2>6. Ordinals'
    BY <2>1, <2>2, <2>3, <2>4, <2>5 DEF Ordinals
  <2> QED
    BY <2>1, <2>2, <2>6 DEF HasLast, IsLast, OrdinalsInOrder
<1>13. ASSUME NEW left \in Partial \cup {"all"}, AppendMetadata(left) PROVE HasLast' /\ Ordinals' /\ OrdinalsInOrder'
  <2>1. alive' = alive /\ Opens /\ ~alive
    BY <1>13 DEF AppendMetadata, Opens
  <2>2. Ordinals'
    BY <2>1 DEF Ordinals
  <2>3. CASE left = "nothing"
    <3>1. file' = file /\ torn' = torn /\ Whole' = Whole
      BY <1>13, <2>3 DEF AppendMetadata, Whole
    <3> QED
      BY <2>2, <3>1 DEF HasLast, IsLast, OrdinalsInOrder
  <2>4. CASE left # "nothing"
    <3>1. PICK line \in Lines :
            /\ line = [item |-> 0, ordinal |-> LastOrdinal + 1, whole |-> left # "fragment"]
            /\ file' = Append(file, line)
      BY <1>13, <2>1, <2>4, MetaLine DEF AppendMetadata
    <3>2. line.ordinal = LastOrdinal + 1
      BY <3>1
    <3>3. PICK i \in Whole : IsLast(i) /\ LastOrdinal = file[i].ordinal
      BY <2>1, OpensFacts, LastFound
    <3>4. PICK n : n = Len(file) + 1
      OBVIOUS
    <3>5. HasLast' /\ OrdinalsInOrder'
      BY <3>1, <3>2, <3>3, <3>4, Extended, TornStep
    <3> QED
      BY <2>2, <3>5
  <2> QED
    BY <2>3, <2>4
<1>14. CASE UNCHANGED vars
  <2>1. file' = file /\ torn' = torn /\ next' = next /\ meta' = meta /\ alive' = alive /\ pending' = pending
    BY <1>14 DEF vars, fileVars, writerVars
  <2> QED
    BY <2>1, Unwritten
<1> QED
  BY <1>1, <1>2, <1>3, <1>4, <1>5, <1>6, <1>7, <1>8, <1>9, <1>10, <1>11, <1>12, <1>13,
     <1>14 DEF Next, Writer

-----------------------------------------------------------------------------
(* Items                                                                   *)

Items == Numbers /\ Repeats /\ Stored /\ NoneMissing

\* A command enters the channel at its end and leaves it at its head.
LEMMA Pushed ==
  ASSUME TypeOK, NEW cmd \in Commands, queue' = Append(queue, cmd), NEW l, l = Len(queue)
  PROVE  /\ Len(queue') = l + 1 /\ l \in Nat
         /\ \A i \in 1..l : queue'[i] = queue[i]
         /\ queue'[l + 1] = cmd
         /\ \A n : \A k \in 0..l : InQueue(n, k) => InQueue(n, k)'
<1>1. /\ Len(queue') = l + 1 /\ l \in Nat
      /\ \A i \in 1..l : queue'[i] = queue[i]
      /\ queue'[l + 1] = cmd
  BY AppendProperties DEF TypeOK
<1>2. ASSUME NEW n, NEW k \in 0..l, InQueue(n, k) PROVE InQueue(n, k)'
  <2>1. PICK i \in 1..k : queue[i].op = "add" /\ queue[i].upto = n
    BY <1>2 DEF InQueue
  <2>2. queue'[i] = queue[i]
    BY <1>1, <2>1
  <2> QED
    BY <2>1, <2>2 DEF InQueue
<1> QED
  BY <1>1, <1>2

\* The writer takes a command: what was in the channel is in the rest or in hand.
LEMMA Popped ==
  ASSUME TypeOK, queue # <<>>, queue' = Tail(queue), NEW l, l = Len(queue)
  PROVE  /\ l \in Nat /\ l >= 1 /\ Len(queue') = l - 1 /\ Head(queue) = queue[1]
         /\ \A i \in 1..l - 1 : queue'[i] = queue[i + 1]
         /\ \A n : \A k \in 0..l - 1 : InQueue(n, k + 1) =>
              InQueue(n, k)' \/ (queue[1].op = "add" /\ queue[1].upto = n)
<1>1. /\ l \in Nat /\ l >= 1 /\ Len(queue') = l - 1 /\ Head(queue) = queue[1]
      /\ \A i \in 1..l - 1 : queue'[i] = queue[i + 1]
  <2>1. queue \in Seq(Commands)
    BY DEF TypeOK
  <2>2. l \in Nat /\ l >= 1
    BY <2>1, EmptySeq
  <2> QED
    BY <2>1, <2>2, HeadTailProperties
<1>2. ASSUME NEW n, NEW k \in 0..l - 1, InQueue(n, k + 1)
      PROVE  InQueue(n, k)' \/ (queue[1].op = "add" /\ queue[1].upto = n)
  <2>1. PICK i \in 1..k + 1 : queue[i].op = "add" /\ queue[i].upto = n
    BY <1>2 DEF InQueue
  <2>2. CASE i # 1
    <3>1. i - 1 \in 1..k /\ queue'[i - 1] = queue[i]
      BY <1>1, <2>1, <2>2
    <3> QED
      BY <2>1, <3>1 DEF InQueue
  <2> QED
    BY <2>1, <2>2
<1> QED
  BY <1>1, <1>2

\* The channel stands still; what was settled stays so.
LEMMA ChannelStill ==
  ASSUME NoneMissing, queue' = queue, accepted' = accepted,
         \A n : Settled(n) => Settled(n)', job' = job \/ job'.upto = 0, accepted \in Nat
  PROVE  NoneMissing'
<1>1. \A n, k : InQueue(n, k)' <=> InQueue(n, k)
  BY DEF InQueue
<1>2. \A n \in 1..accepted' : Settled(n)' \/ InQueue(n, Len(queue))'
  BY <1>1 DEF NoneMissing
<1>3. \A k \in 1..Len(queue') : \A n \in 1..queue'[k].upto : Settled(n)' \/ InQueue(n, k)'
  BY <1>1 DEF NoneMissing
<1>4. job'.upto <= accepted' /\ \A n \in 1..job'.upto : Settled(n)'
  BY DEF NoneMissing
<1> QED
  BY <1>2, <1>3, <1>4 DEF NoneMissing

\* Buffer, channel and file stand still.
LEMMA ItemsStill ==
  ASSUME TypeOK, Items, pending' = pending, queue' = queue, accepted' = accepted, lost' = lost,
         file' = file, torn' = torn, pending # <<>> => NextLine' = NextLine /\ meta' = meta,
         job' = job \/ job'.upto = 0
  PROVE  Items'
<1>1. Whole' = Whole /\ InFile' = InFile /\ Buffered' = Buffered
  BY DEF Whole, InFile, Buffered
<1>2. Numbers'
  BY <1>1 DEF Items, Numbers
<1>3. Repeats'
  BY <1>1 DEF Items, Repeats
<1>4. Stored'
  BY <1>1 DEF Items, Stored
<1>5. NoneMissing'
  BY <1>1, ChannelStill, Typed DEF Items, Settled
<1> QED
  BY <1>2, <1>3, <1>4, <1>5 DEF Items

\* A line is written and nothing leaves the buffer: metadata, or an item whose
\* write failed at the newline.
LEMMA ItemsLine ==
  ASSUME TypeOK, Items, pending' = pending, queue' = queue, accepted' = accepted, lost' = lost,
         NEW line \in Lines, file' = Append(file, line), job' = job \/ job'.upto = 0,
         torn \subseteq torn',
         line.whole => \/ line.item = 0
                       \/ line = NextLine /\ ~meta /\ pending # <<>> /\ Len(file) + 1 \in torn',
         \/ NextLine' = NextLine /\ (~meta => ~meta') /\ (line.item = 0 => meta \/ pending = <<>>)
         \/ line.item = 0 /\ \A i \in Whole : file[i].item \notin Buffered
  PROVE  Items'
<1>1. PICK n : n = Len(file) + 1
  OBVIOUS
<1>2. /\ \A i \in Whole : file'[i] = file[i]
      /\ file'[n] = line
      /\ Whole' = IF line.whole THEN Whole \cup {n} ELSE Whole
      /\ InFile' = IF line.whole THEN InFile \cup {line.item} ELSE InFile
  BY <1>1, Appended DEF Whole
<1>3. Buffered' = Buffered /\ 0 \notin Buffered
  BY Typed DEF Buffered
<1>4. line.whole => line.item = 0 \/ line.item \in Buffered
  <2>1. pending # <<>> => 1 \in 1..Len(pending) /\ Head(pending) = pending[1]
    BY DEF TypeOK
  <2>2. ~meta => NextLine.item = Head(pending)
    BY DEF NextLine
  <2> QED
    BY <2>1, <2>2 DEF Buffered
<1>5. Numbers'
  <2>1. \A k \in 1..Len(queue) : queue[k].op = "add" => queue[k].upto \notin Buffered
    BY Typed DEF Items, Numbers, Buffered, Commands
  <2>2. \A k \in 1..Len(queue) : queue[k].op = "add" => queue[k].upto \notin {0} \cup lost \cup InFile'
    BY <1>2, <1>4, <2>1 DEF Items, Numbers
  <2> QED
    BY <2>2 DEF Items, Numbers
<1>6. \A i \in Whole : i # n
  <2>1. Len(file) \in Nat /\ \A i \in Whole : i \in 1..Len(file)
    BY Typed DEF Whole
  <2> QED
    BY <1>1, <2>1
<1>7. Repeats'
  <2>n. \A i \in Whole : i < n /\ ~(i > n)
    <3>1. Len(file) \in Nat /\ \A i \in Whole : i \in 1..Len(file)
      BY Typed DEF Whole
    <3> QED
      BY <1>1, <3>1
  <2> SUFFICES ASSUME NEW i \in Whole', file'[i].item \in Buffered'
               PROVE  /\ ~meta' /\ pending' # <<>> /\ file'[i] = NextLine' /\ i \in torn'
                      /\ \A j \in Whole' : j > i => file'[j] = NextLine'
    BY DEF Repeats
  <2>1. CASE i \in Whole
    <3>1. file'[i] = file[i] /\ file[i].item \in Buffered
      BY <1>2, <1>3, <2>1
    <3>2. /\ ~meta /\ pending # <<>> /\ file[i] = NextLine /\ i \in torn
          /\ \A j \in Whole : j > i => file[j] = NextLine
      BY <2>1, <3>1 DEF Items, Repeats
    <3>3. NextLine' = NextLine /\ (~meta => ~meta')
      BY <2>1, <3>1
    <3>4. line.whole => line = NextLine
      BY <2>1, <3>1, <3>2
    <3>5. ASSUME NEW j \in Whole', j > i PROVE file'[j] = NextLine'
      BY <1>2, <3>2, <3>3, <3>4, <3>5
    <3> QED
      BY <3>1, <3>2, <3>3, <3>5
  <2>2. CASE i \notin Whole
    <3>1. line.whole /\ i = n /\ line.item # 0
      BY <1>2, <1>3, <2>2
    <3>2. line = NextLine /\ ~meta /\ pending # <<>> /\ n \in torn'
      BY <1>1, <3>1
    <3>3. NextLine' = NextLine /\ (~meta => ~meta')
      BY <3>1
    <3>4. ASSUME NEW j \in Whole', j > i PROVE FALSE
      <4>1. j \in Whole \/ j = n
        BY <1>2
      <4>2. n \in Nat
        BY <1>1, Typed
      <4> QED
        BY <2>n, <3>1, <3>4, <4>1, <4>2
    <3> QED
      BY <1>2, <3>1, <3>2, <3>3, <3>4
  <2> QED
    BY <2>1, <2>2
<1>8. Stored'
  <2>1. \A x \in Buffered : x \notin lost /\ x \in 0..accepted
    BY Typed DEF Items, Numbers, Buffered
  <2>2. 0 \in 0..accepted /\ 0 \notin lost
    BY Typed DEF Items, Stored
  <2> QED
    BY <1>2, <1>4, <2>1, <2>2 DEF Items, Stored
<1>9. NoneMissing'
  <2>1. \A x : Settled(x) => Settled(x)'
    BY <1>2, <1>3 DEF Settled
  <2> QED
    BY <2>1, ChannelStill, Typed DEF Items
<1> QED
  BY <1>5, <1>7, <1>8, <1>9 DEF Items

\* The buffer grows behind and shrinks in front.
LEMMA BufferGrows ==
  ASSUME TypeOK, NEW x \in 1..MaxItems, pending' = Append(pending, x), NEW l, l = Len(pending)
  PROVE  /\ l \in Nat /\ Len(pending') = l + 1 /\ pending' # <<>>
         /\ \A i \in 1..l : pending'[i] = pending[i]
         /\ pending'[l + 1] = x
         /\ Buffered' = Buffered \cup {x}
<1> DEFINE S == 1..MaxItems
<1>1. pending \in Seq(S) /\ x \in S
  BY DEF TypeOK
<1> HIDE DEF S
<1>2. /\ l \in Nat /\ Len(pending') = l + 1 /\ pending' # <<>>
      /\ \A i \in 1..l : pending'[i] = pending[i]
      /\ pending'[l + 1] = x
  BY <1>1, AppendProperties
<1>3. \A y : y \in Buffered' <=> \E i \in 1..l + 1 : y = pending'[i]
  BY <1>2 DEF Buffered
<1>4. \A i : i \in 1..l + 1 <=> i \in 1..l \/ i = l + 1
  BY <1>2
<1>5. \A y : y \in Buffered' <=> (\E i \in 1..l : y = pending[i]) \/ y = x
  BY <1>2, <1>3, <1>4
<1>6. Buffered' = Buffered \cup {x}
  BY <1>5 DEF Buffered
<1> QED
  BY <1>2, <1>6

\* A written item leaves the buffer, and no other does.
LEMMA BufferShrinks ==
  ASSUME TypeOK, pending # <<>>, pending' = Tail(pending), NEW l, l = Len(pending)
  PROVE  /\ l \in Nat /\ l >= 1 /\ Len(pending') = l - 1 /\ Head(pending) = pending[1]
         /\ \A i \in 1..l - 1 : pending'[i] = pending[i + 1]
         /\ \A y : y \in Buffered <=> y \in Buffered' \/ y = Head(pending)
<1> DEFINE S == 1..MaxItems
<1>1. pending \in Seq(S)
  BY DEF TypeOK
<1> HIDE DEF S
<1>2. l \in Nat /\ l >= 1
  BY <1>1, EmptySeq
<1>3. /\ Len(pending') = l - 1 /\ Head(pending) = pending[1]
      /\ \A i \in 1..l - 1 : pending'[i] = pending[i + 1]
  BY <1>1, <1>2, HeadTailProperties
<1>4. ASSUME NEW y \in Buffered PROVE y \in Buffered' \/ y = Head(pending)
  <2>1. PICK i \in 1..l : y = pending[i]
    BY <1>4 DEF Buffered
  <2>2. CASE i # 1
    <3>1. i - 1 \in 1..l - 1 /\ pending'[i - 1] = pending[i]
      BY <1>2, <1>3, <2>1, <2>2
    <3> QED
      BY <1>3, <2>1, <3>1 DEF Buffered
  <2> QED
    BY <1>3, <2>1, <2>2
<1>5. ASSUME NEW y, y \in Buffered' \/ y = Head(pending) PROVE y \in Buffered
  <2>1. CASE y = Head(pending)
    BY <1>2, <1>3, <2>1 DEF Buffered
  <2>2. CASE y \in Buffered'
    <3>1. PICK i \in 1..l - 1 : y = pending'[i]
      BY <1>3, <2>2 DEF Buffered
    <3>2. i + 1 \in 1..l /\ y = pending[i + 1]
      BY <1>2, <1>3, <3>1
    <3> QED
      BY <3>2 DEF Buffered
  <2> QED
    BY <1>5, <2>1, <2>2
<1> QED
  BY <1>2, <1>3, <1>4, <1>5

\* An item goes from the buffer into the file.
LEMMA ItemsWritten ==
  ASSUME TypeOK, Handles, Items, WriteLine, ~meta
  PROVE  Items'
<1>1. /\ HasLine /\ pending # <<>> /\ pending' = Tail(pending) /\ queue' = queue
      /\ accepted' = accepted /\ lost' = lost /\ job' = job /\ meta' = FALSE
  BY NextLineTyped DEF WriteLine, logHistory
<1>2. PICK x : x = Head(pending)
  OBVIOUS
<1>3. PICK line \in Lines : /\ line = NextLine /\ line.whole /\ line.item = x
                            /\ file' = Append(file, line)
  BY <1>1, <1>2, NextLineTyped, WriteAppends DEF WriteLine
<1>4. PICK n : n = Len(file) + 1
  OBVIOUS
<1>5. /\ \A i \in Whole : file'[i] = file[i]
      /\ file'[n] = line
      /\ Whole' = Whole \cup {n}
      /\ InFile' = InFile \cup {x}
  BY <1>3, <1>4, Appended DEF Whole
<1>6. PICK l : l = Len(pending)
  OBVIOUS
<1>7. /\ l \in Nat /\ l >= 1 /\ Len(pending') = l - 1 /\ x = pending[1]
      /\ \A i \in 1..l - 1 : pending'[i] = pending[i + 1]
      /\ \A y : y \in Buffered <=> y \in Buffered' \/ y = x
  BY <1>1, <1>2, <1>6, BufferShrinks
<1>8. x \in Buffered /\ x \in Nat /\ x # 0 /\ x \notin lost /\ x <= accepted
  <2>1. 1 \in 1..Len(pending)
    BY <1>6, <1>7
  <2> QED
    BY <1>7, <2>1, Typed DEF Items, Numbers
<1>9. x \notin Buffered'
  <2>1. \A i \in 1..l - 1 : pending'[i] # x
    <3> SUFFICES ASSUME NEW i \in 1..l - 1 PROVE pending[i + 1] # pending[1]
      BY <1>7
    <3>1. 1 \in 1..Len(pending) /\ i + 1 \in 1..Len(pending) /\ 1 < i + 1
      BY <1>6, <1>7
    <3>2. pending[1] < pending[i + 1] /\ pending[1] \in Nat /\ pending[i + 1] \in Nat
      BY <3>1, Typed DEF Items, Numbers
    <3> QED
      BY <3>2
  <2> QED
    BY <1>7, <2>1 DEF Buffered
<1>10. Numbers'
  <2>1. \A i \in 1..l - 1 : i + 1 \in 1..l
    BY <1>7
  <2>2. \A i \in 1..Len(pending') : pending'[i] <= accepted' /\ pending'[i] \notin lost'
    BY <1>1, <1>6, <1>7, <2>1 DEF Items, Numbers
  <2>3. \A i, j \in 1..Len(pending') : i < j => pending'[i] < pending'[j]
    <3> SUFFICES ASSUME NEW i \in 1..l - 1, NEW j \in 1..l - 1, i < j
                 PROVE  pending[i + 1] < pending[j + 1]
      BY <1>7
    <3>1. i + 1 \in 1..Len(pending) /\ j + 1 \in 1..Len(pending) /\ i + 1 < j + 1
      BY <1>6, <1>7
    <3> QED
      BY <3>1 DEF Items, Numbers
  <2>4. ASSUME NEW k \in 1..Len(queue), queue[k].op = "add"
        PROVE  /\ queue[k].upto \notin {0} \cup lost \cup InFile'
               /\ \A i \in 1..Len(pending') : pending'[i] < queue[k].upto
    <3>1. x < queue[k].upto /\ queue[k].upto \in Nat
      <4>1. 1 \in 1..Len(pending)
        BY <1>6, <1>7
      <4> QED
        BY <1>7, <2>4, <4>1, Typed DEF Items, Numbers, Commands
    <3>2. queue[k].upto \notin {0} \cup lost \cup InFile'
      BY <1>5, <1>8, <2>4, <3>1 DEF Items, Numbers
    <3>3. \A i \in 1..Len(pending') : pending'[i] < queue[k].upto
      BY <1>6, <1>7, <2>1, <2>4 DEF Items, Numbers
    <3> QED
      BY <3>2, <3>3
  <2>5. /\ \A k \in 1..Len(queue) : queue[k].upto <= accepted
        /\ \A k \in 1..Len(queue) : queue[k].op = "add" =>
             \A m \in 1..Len(queue) : k < m /\ queue[m].op = "add" => queue[k].upto < queue[m].upto
    BY DEF Items, Numbers
  <2> QED
    BY <1>1, <2>2, <2>3, <2>4, <2>5 DEF Numbers
<1>11. Repeats'
  <2>1. \A i \in Whole : file[i].item \in Buffered => file[i] = line
    BY <1>3 DEF Items, Repeats
  <2>2. ASSUME NEW i \in Whole' PROVE file'[i].item \notin Buffered'
    <3>1. CASE i \in Whole
      <4>1. file[i].item \in Buffered' => file[i].item = x
        BY <1>3, <1>7, <2>1, <3>1
      <4> QED
        BY <1>5, <1>9, <3>1, <4>1
    <3>2. CASE i = n
      BY <1>3, <1>5, <1>9, <3>2
    <3> QED
      BY <1>5, <3>1, <3>2
  <2> QED
    BY <2>2 DEF Repeats
<1>12. Stored'
  BY <1>1, <1>5, <1>8, Typed DEF Items, Stored
<1>13. NoneMissing'
  <2>1. \A y : Settled(y) => Settled(y)'
    BY <1>1, <1>5, <1>7 DEF Settled
  <2> QED
    BY <1>1, <2>1, ChannelStill, Typed DEF Items
<1> QED
  BY <1>10, <1>11, <1>12, <1>13 DEF Items
\* A caller puts a command into the channel.
LEMMA ItemsPushed ==
  ASSUME TypeOK, Items, NEW cmd \in Commands, queue' = Append(queue, cmd),
         pending' = pending, file' = file, torn' = torn, lost' = lost, meta' = meta,
         next' = next, job' = job,
         \/ accepted' = accepted + 1 /\ cmd.op = "add" /\ cmd.upto = accepted + 1
         \/ accepted' = accepted /\ cmd.op # "add" /\ cmd.upto = accepted
  PROVE  Items'
<1>1. PICK l : l = Len(queue)
  OBVIOUS
<1>2. /\ Len(queue') = l + 1 /\ l \in Nat
      /\ \A i \in 1..l : queue'[i] = queue[i]
      /\ queue'[l + 1] = cmd
      /\ \A n : \A k \in 0..l : InQueue(n, k) => InQueue(n, k)'
  BY <1>1, Pushed
<1>3. /\ Whole' = Whole /\ InFile' = InFile /\ Buffered' = Buffered /\ NextLine' = NextLine
      /\ accepted \in Nat /\ accepted' \in Nat /\ accepted <= accepted' /\ cmd.upto = accepted'
  BY Typed DEF Whole, InFile, Buffered, NextLine
<1>4. \A k : k \in 1..Len(queue') <=> k \in 1..l \/ k = l + 1
  BY <1>2
<1>5. Numbers'
  <2>1. \A i \in 1..Len(pending') : pending'[i] <= accepted' /\ pending'[i] \notin lost'
    BY <1>3, Typed DEF Items, Numbers
  <2>2. \A i, j \in 1..Len(pending') : i < j => pending'[i] < pending'[j]
    BY DEF Items, Numbers
  <2>3. \A k \in 1..l : queue[k].upto <= accepted /\ queue[k].upto \in Nat
    BY <1>1, Typed DEF Items, Numbers, Commands
  <2>4. \A k \in 1..Len(queue') : queue'[k].upto <= accepted'
    BY <1>2, <1>3, <1>4, <2>3
  <2>5. ASSUME NEW k \in 1..Len(queue'), queue'[k].op = "add"
        PROVE  /\ queue'[k].upto \notin {0} \cup lost' \cup InFile'
               /\ \A i \in 1..Len(pending') : pending'[i] < queue'[k].upto
               /\ \A m \in 1..Len(queue') : k < m /\ queue'[m].op = "add" => queue'[k].upto < queue'[m].upto
    <3>1. CASE k \in 1..l
      <4>1. queue'[k] = queue[k] /\ queue[k].op = "add"
        BY <1>2, <2>5, <3>1
      <4>2. /\ queue[k].upto \notin {0} \cup lost \cup InFile
            /\ \A i \in 1..Len(pending) : pending[i] < queue[k].upto
            /\ \A m \in 1..l : k < m /\ queue[m].op = "add" => queue[k].upto < queue[m].upto
        BY <1>1, <3>1, <4>1 DEF Items, Numbers
      <4>3. cmd.op = "add" => queue[k].upto < cmd.upto
        BY <1>3, <2>3, <3>1
      <4> QED
        BY <1>2, <1>3, <1>4, <4>1, <4>2, <4>3
    <3>2. CASE k = l + 1
      <4>1. queue'[k] = cmd /\ cmd.op = "add" /\ cmd.upto = accepted + 1
        BY <1>2, <2>5, <3>2
      <4>2. cmd.upto \notin {0} \cup lost \cup InFile
        BY <1>3, <4>1 DEF Items, Stored
      <4>3. \A i \in 1..Len(pending) : pending[i] < cmd.upto
        BY <1>3, <4>1, Typed DEF Items, Numbers
      <4>4. \A m \in 1..Len(queue') : ~(k < m)
        BY <1>2, <3>2
      <4> QED
        BY <1>3, <4>1, <4>2, <4>3, <4>4
    <3> QED
      BY <1>4, <3>1, <3>2
  <2> QED
    BY <2>1, <2>2, <2>4, <2>5 DEF Numbers
<1>6. Repeats'
  BY <1>3 DEF Items, Repeats
<1>7. Stored'
  BY <1>3 DEF Items, Stored
<1>8. NoneMissing'
  <2>1. \A n : Settled(n) => Settled(n)'
    BY <1>3 DEF Settled
  <2>2. \A n : InQueue(n, l) => InQueue(n, l + 1)'
    BY <1>1, <1>2 DEF InQueue
  <2>3. \A n \in 1..accepted' : Settled(n)' \/ InQueue(n, l + 1)'
    <3>1. \A n \in 1..accepted : Settled(n) \/ InQueue(n, l)
      BY <1>1 DEF Items, NoneMissing
    <3>2. PICK a : a = accepted + 1
      OBVIOUS
    <3>3. accepted' = a => InQueue(a, l + 1)'
      <4>1. l + 1 \in 1..l + 1
        BY <1>2
      <4> QED
        BY <1>2, <1>3, <3>2, <4>1 DEF InQueue
    <3>4. \A n \in 1..accepted' : n \in 1..accepted \/ (n = a /\ accepted' = a)
      BY <1>3, <3>2
    <3> QED
      BY <2>1, <2>2, <3>1, <3>3, <3>4
  <2>4. ASSUME NEW k \in 1..Len(queue'), NEW n \in 1..queue'[k].upto
        PROVE  Settled(n)' \/ InQueue(n, k)'
    <3>1. CASE k \in 1..l
      <4>1. Settled(n) \/ InQueue(n, k)
        BY <1>1, <1>2, <2>4, <3>1 DEF Items, NoneMissing
      <4> QED
        BY <1>2, <2>1, <3>1, <4>1
    <3>2. CASE k = l + 1
      BY <1>2, <1>3, <2>3, <3>2
    <3> QED
      BY <1>4, <3>1, <3>2
  <2>5. job'.upto <= accepted' /\ \A n \in 1..job'.upto : Settled(n)'
    <3>1. job.upto \in Nat
      BY DEF TypeOK, Commands, NoJob
    <3> QED
      BY <1>3, <2>1, <3>1 DEF Items, NoneMissing
  <2>6. \A n \in 1..accepted' : Settled(n)' \/ InQueue(n, Len(queue))'
    BY <1>2, <2>3 DEF InQueue
  <2> QED
    BY <2>4, <2>5, <2>6 DEF NoneMissing
<1> QED
  BY <1>5, <1>6, <1>7, <1>8 DEF Items

\* The writer takes a command from the channel; an item goes into the buffer.
LEMMA ItemsPopped ==
  ASSUME TypeOK, Items, queue # <<>>, queue' = Tail(queue), file' = file, torn' = torn,
         lost' = lost, accepted' = accepted, meta' = meta, next' = next, NEW cmd, cmd = Head(queue),
         job' = cmd \/ job'.upto = 0,
         IF cmd.op = "add" THEN pending' = Append(pending, cmd.upto) ELSE pending' = pending
  PROVE  Items'
<1>1. PICK l : l = Len(queue)
  OBVIOUS
<1>2. /\ l \in Nat /\ l >= 1 /\ Len(queue') = l - 1 /\ cmd = queue[1]
      /\ \A i \in 1..l - 1 : queue'[i] = queue[i + 1]
      /\ \A n : \A k \in 0..l - 1 : InQueue(n, k + 1) =>
           InQueue(n, k)' \/ (queue[1].op = "add" /\ queue[1].upto = n)
  BY <1>1, Popped
<1>3. Whole' = Whole /\ InFile' = InFile /\ accepted \in Nat
  BY Typed DEF Whole, InFile
<1>4. \A k \in 1..l - 1 : k + 1 \in 1..l /\ 1 < k + 1
  BY <1>2
<1>5. 1 \in 1..l
  BY <1>2
<1>6. \A k \in 1..l : queue[k] \in Commands /\ queue[k].upto \in Nat
  BY <1>1, Typed DEF Commands
<1>7. PICK p : p = Len(pending)
  OBVIOUS
<1>8. PICK x : x = cmd.upto
  OBVIOUS
<1>9. cmd.op = "add" => /\ x \in 1..MaxItems /\ x \notin lost \cup InFile /\ x <= accepted
                        /\ \A i \in 1..p : pending[i] < x
                        /\ \A m \in 1..l : 1 < m /\ queue[m].op = "add" => x < queue[m].upto
  BY <1>1, <1>2, <1>5, <1>7, <1>8, Typed DEF Items, Numbers, Commands
<1>10. cmd.op = "add" => /\ p \in Nat /\ Len(pending') = p + 1 /\ pending' # <<>>
                         /\ \A i \in 1..p : pending'[i] = pending[i]
                         /\ pending'[p + 1] = x
                         /\ Buffered' = Buffered \cup {x}
  BY <1>7, <1>8, <1>9, BufferGrows
<1>11. cmd.op # "add" => Buffered' = Buffered
  BY DEF Buffered
<1>12. Numbers'
  <2>1. \A i \in 1..p : pending[i] <= accepted /\ pending[i] \notin lost /\ pending[i] \in Nat
    BY <1>7, Typed DEF Items, Numbers
  <2>2. \A i, j \in 1..p : i < j => pending[i] < pending[j]
    BY <1>7 DEF Items, Numbers
  <2>3. /\ \A i \in 1..Len(pending') : pending'[i] <= accepted' /\ pending'[i] \notin lost'
        /\ \A i, j \in 1..Len(pending') : i < j => pending'[i] < pending'[j]
    <3>1. CASE cmd.op # "add"
      BY <1>7, <2>1, <2>2, <3>1
    <3>2. CASE cmd.op = "add"
      <4>1. \A i : i \in 1..Len(pending') <=> i \in 1..p \/ i = p + 1
        BY <1>10, <3>2
      <4>2. \A i \in 1..Len(pending') : pending'[i] <= accepted' /\ pending'[i] \notin lost'
        BY <1>9, <1>10, <2>1, <3>2, <4>1
      <4>3. ASSUME NEW i \in 1..Len(pending'), NEW j \in 1..Len(pending'), i < j
            PROVE  pending'[i] < pending'[j]
        <5>1. i \in 1..p
          BY <1>10, <3>2, <4>3
        <5> QED
          BY <1>9, <1>10, <2>2, <3>2, <4>1, <4>3, <5>1
      <4> QED
        BY <4>2, <4>3
    <3> QED
      BY <3>1, <3>2
  <2>4. \A k \in 1..Len(queue') : queue'[k].upto <= accepted'
    BY <1>1, <1>2, <1>4 DEF Items, Numbers
  <2>5. ASSUME NEW k \in 1..Len(queue'), queue'[k].op = "add"
        PROVE  /\ queue'[k].upto \notin {0} \cup lost' \cup InFile'
               /\ \A i \in 1..Len(pending') : pending'[i] < queue'[k].upto
               /\ \A m \in 1..Len(queue') : k < m /\ queue'[m].op = "add" => queue'[k].upto < queue'[m].upto
    <3>1. k \in 1..l - 1 /\ k + 1 \in 1..l /\ queue'[k] = queue[k + 1] /\ queue[k + 1].op = "add"
      BY <1>2, <1>4, <2>5
    <3>2. PICK c : c = k + 1
      OBVIOUS
    <3>3. /\ queue[c].upto \notin {0} \cup lost \cup InFile
          /\ \A i \in 1..p : pending[i] < queue[c].upto
          /\ \A m \in 1..l : c < m /\ queue[m].op = "add" => queue[c].upto < queue[m].upto
      BY <1>1, <1>7, <3>1, <3>2 DEF Items, Numbers
    <3>4. \A i \in 1..Len(pending') : pending'[i] < queue[c].upto
      <4>1. CASE cmd.op # "add"
        BY <1>7, <3>3, <4>1
      <4>2. CASE cmd.op = "add"
        <5>1. \A i : i \in 1..Len(pending') <=> i \in 1..p \/ i = p + 1
          BY <1>10, <4>2
        <5>2. x < queue[c].upto
          BY <1>4, <1>9, <3>1, <3>2, <4>2
        <5> QED
          BY <1>10, <3>3, <4>2, <5>1, <5>2
      <4> QED
        BY <4>1, <4>2
    <3>5. ASSUME NEW m \in 1..Len(queue'), k < m, queue'[m].op = "add"
          PROVE  queue[c].upto < queue'[m].upto
      <4>1. m + 1 \in 1..l /\ queue'[m] = queue[m + 1] /\ c < m + 1
        BY <1>2, <1>4, <3>1, <3>2, <3>5
      <4> QED
        BY <3>3, <3>5, <4>1
    <3> QED
      BY <1>3, <3>1, <3>2, <3>3, <3>4, <3>5
  <2> QED
    BY <2>3, <2>4, <2>5 DEF Numbers
<1>13. Repeats'
  <2>1. ASSUME NEW i \in Whole, file[i].item \in Buffered'
        PROVE  /\ ~meta' /\ pending' # <<>> /\ file[i] = NextLine' /\ i \in torn
               /\ \A j \in Whole : j > i => file[j] = NextLine'
    <3>1. file[i].item \in Buffered
      BY <1>9, <1>10, <1>11, <2>1 DEF InFile
    <3>2. /\ ~meta /\ pending # <<>> /\ file[i] = NextLine /\ i \in torn
          /\ \A j \in Whole : j > i => file[j] = NextLine
      BY <2>1, <3>1 DEF Items, Repeats
    <3>3. pending' # <<>> /\ Head(pending') = Head(pending)
      BY <1>10, <3>2, HeadStays DEF TypeOK
    <3>4. NextLine' = NextLine
      BY <3>2, <3>3 DEF NextLine
    <3> QED
      BY <3>2, <3>3, <3>4
  <2> QED
    BY <1>3, <2>1 DEF Items, Repeats
<1>14. Stored'
  BY <1>3 DEF Items, Stored
<1>15. NoneMissing'
  <2>1. \A n : Settled(n) => Settled(n)'
    BY <1>3, <1>10, <1>11 DEF Settled
  <2>2. cmd.op = "add" => Settled(x)'
    BY <1>10 DEF Settled
  <2>3. ASSUME NEW k \in 0..l - 1, NEW n, Settled(n) \/ InQueue(n, k + 1)
        PROVE  Settled(n)' \/ InQueue(n, k)'
    BY <1>2, <1>8, <2>1, <2>2, <2>3
  <2>4. \A n \in 1..accepted' : Settled(n)' \/ InQueue(n, l - 1)'
    <3>1. \A n \in 1..accepted : Settled(n) \/ InQueue(n, l)
      BY <1>1 DEF Items, NoneMissing
    <3>2. l - 1 \in 0..l - 1 /\ (l - 1) + 1 = l
      BY <1>2
    <3> QED
      BY <2>3, <3>1, <3>2
  <2>5. ASSUME NEW k \in 1..Len(queue'), NEW n \in 1..queue'[k].upto
        PROVE  Settled(n)' \/ InQueue(n, k)'
    <3>1. k \in 0..l - 1 /\ k + 1 \in 1..l /\ queue'[k] = queue[k + 1]
      BY <1>2, <1>4
    <3>2. Settled(n) \/ InQueue(n, k + 1)
      BY <1>1, <2>5, <3>1 DEF Items, NoneMissing
    <3> QED
      BY <2>3, <3>1, <3>2
  <2>6. job'.upto <= accepted' /\ \A n \in 1..job'.upto : Settled(n)'
    <3>1. CASE job' = cmd
      <4>1. cmd.upto <= accepted
        BY <1>1, <1>2, <1>5 DEF Items, Numbers
      <4>2. ASSUME NEW n \in 1..cmd.upto PROVE Settled(n)'
        <5>1. Settled(n) \/ InQueue(n, 1)
          BY <1>1, <1>2, <1>5, <4>2 DEF Items, NoneMissing
        <5>2. InQueue(n, 1) => cmd.op = "add" /\ n = x
          BY <1>2, <1>8 DEF InQueue
        <5> QED
          BY <2>1, <2>2, <5>1, <5>2
      <4> QED
        BY <3>1, <4>1, <4>2
    <3>2. CASE job'.upto = 0
      BY <1>3, <3>2
    <3> QED
      BY <3>1, <3>2
  <2>7. \A n \in 1..accepted' : Settled(n)' \/ InQueue(n, Len(queue))'
    BY <1>2, <2>4 DEF InQueue
  <2> QED
    BY <2>5, <2>6, <2>7 DEF NoneMissing
<1> QED
  BY <1>12, <1>13, <1>14, <1>15 DEF Items

\* The writer ends, and what is not in the file is lost.
LEMMA ItemsGone ==
  ASSUME TypeOK, Items, Gone
  PROVE  Items'
<1>1. /\ queue' = <<>> /\ pending' = <<>> /\ job' = NoJob /\ file' = file
      /\ accepted' = accepted /\ lost' = (1..accepted) \ InFile /\ accepted \in Nat
  BY Typed DEF Gone, fileVars
<1>2. Whole' = Whole /\ InFile' = InFile
  BY <1>1 DEF Whole, InFile
<1>3. Len(queue') = 0 /\ Len(pending') = 0 /\ job'.upto = 0
  BY <1>1 DEF NoJob
<1>4. \A k : k \notin 1..0
  OBVIOUS
<1>5. Buffered' = {}
  BY <1>3, <1>4 DEF Buffered
<1>6. Numbers'
  BY <1>3, <1>4 DEF Numbers
<1>7. Repeats'
  BY <1>1, <1>2, <1>5 DEF Items, Repeats
<1>8. Stored'
  BY <1>1, <1>2 DEF Items, Stored
<1>9. NoneMissing'
  <2>1. \A n \in 1..accepted' : Settled(n)'
    BY <1>1, <1>2 DEF Settled
  <2> QED
    BY <1>1, <1>3, <1>4, <2>1 DEF NoneMissing
<1> QED
  BY <1>6, <1>7, <1>8, <1>9 DEF Items

\* Every step keeps what is known of the items on their way to the file.
LEMMA ItemsStep ==
  ASSUME TypeOK, Handles, HasLast, Ordinals, Items, [Next]_vars
  PROVE  Items'
<1>1. CASE RecordItems
  <2>1. PICK cmd : cmd = [op |-> "add", upto |-> accepted + 1]
    OBVIOUS
  <2>2. accepted + 1 \in 0..MaxItems
    BY <1>1, BoundsAssumption DEF RecordItems, TypeOK
  <2>3. cmd \in Commands /\ cmd.op = "add" /\ cmd.upto = accepted + 1
    BY <2>1, <2>2 DEF Commands
  <2>4. /\ queue' = Append(queue, cmd) /\ accepted' = accepted + 1
        /\ pending' = pending /\ file' = file /\ torn' = torn /\ lost' = lost
        /\ meta' = meta /\ next' = next /\ job' = job
    BY <1>1, <2>1 DEF RecordItems, Send, writerVars, fileVars
  <2> QED
    BY <2>3, <2>4, ItemsPushed
<1>2. ASSUME NEW op \in Barriers, CallBarrier(op) PROVE Items'
  <2>1. PICK cmd : cmd = [op |-> op, upto |-> accepted]
    OBVIOUS
  <2>2. cmd \in Commands /\ cmd.op # "add" /\ cmd.upto = accepted
    BY <2>1 DEF Commands, Barriers, TypeOK
  <2>3. /\ queue' = Append(queue, cmd) /\ accepted' = accepted
        /\ pending' = pending /\ file' = file /\ torn' = torn /\ lost' = lost
        /\ meta' = meta /\ next' = next /\ job' = job
    BY <1>2, <2>1 DEF CallBarrier, Send, writerVars, fileVars, logHistory
  <2> QED
    BY <2>2, <2>3, ItemsPushed
<1>3. CASE ReceiveOnly
  <2>1. PICK cmd : cmd = Head(queue)
    OBVIOUS
  <2>2. /\ queue # <<>> /\ queue' = Tail(queue) /\ file' = file /\ torn' = torn /\ lost' = lost
        /\ accepted' = accepted /\ meta' = meta /\ next' = next /\ job'.upto = 0
    BY <1>3 DEF ReceiveOnly, AnswerOk, NoJob, fileVars
  <2>3. IF cmd.op = "add" THEN pending' = Append(pending, cmd.upto) ELSE pending' = pending
    BY <1>3, <2>1 DEF ReceiveOnly
  <2> QED
    BY <2>1, <2>2, <2>3, ItemsPopped
<1>4. CASE ReceiveAndWrite
  <2>1. PICK cmd : cmd = Head(queue)
    OBVIOUS
  <2>2. /\ queue # <<>> /\ queue' = Tail(queue) /\ file' = file /\ torn' = torn /\ lost' = lost
        /\ accepted' = accepted /\ meta' = meta /\ next' = next /\ job' = cmd
    BY <1>4, <2>1 DEF ReceiveAndWrite, fileVars, logHistory
  <2>3. IF cmd.op = "add" THEN pending' = Append(pending, cmd.upto) ELSE pending' = pending
    BY <1>4, <2>1 DEF ReceiveAndWrite
  <2> QED
    BY <2>1, <2>2, <2>3, ItemsPopped
<1>5. CASE OpenFile \/ OpenOrFlushFails \/ Complete \/ Resume \/ UNCHANGED vars
  <2>1. /\ pending' = pending /\ queue' = queue /\ accepted' = accepted /\ lost' = lost
        /\ file' = file /\ torn' = torn
    BY <1>5 DEF OpenFile, OpenOrFlushFails, Complete, Resume, vars, writerVars, fileVars,
       logHistory
  <2>2. job' = job \/ job'.upto = 0
    BY <1>5 DEF OpenFile, OpenOrFlushFails, Fail, Complete, AnswerOk, NoJob, Resume, vars,
       writerVars
  <2>3. pending # <<>> => NextLine' = NextLine /\ meta' = meta
    <3>1. CASE Resume
      BY <3>1 DEF Resume, Opens, Handles
    <3>2. CASE ~Resume
      <4>1. next' = next /\ meta' = meta
        BY <1>5, <3>2 DEF OpenFile, OpenOrFlushFails, Complete, vars, writerVars
      <4> QED
        BY <2>1, <4>1 DEF NextLine
    <3> QED
      BY <3>1, <3>2
  <2> QED
    BY <2>1, <2>2, <2>3, ItemsStill
<1>6. CASE WriteLine
  <2>1. CASE ~meta
    BY <1>6, <2>1, ItemsWritten
  <2>2. CASE meta
    <3>1. HasLine /\ alive
      BY <1>6 DEF WriteLine, HasLine, Busy, Handles
    <3>2. /\ pending' = pending /\ queue' = queue /\ accepted' = accepted /\ lost' = lost /\ job' = job
      BY <1>6, <2>2 DEF WriteLine, logHistory
    <3>3. PICK line \in Lines : line.item = 0 /\ file' = Append(file, line)
      BY <1>6, <2>2, <3>1, NextLineTyped, WriteAppends DEF WriteLine
    <3>4. 0 \notin Buffered
      BY Typed DEF Buffered
    <3>5. \A i \in Whole : file[i].item \notin Buffered
      BY <2>2, <3>1, <3>4 DEF Ordinals
    <3>6. torn \subseteq torn'
      BY TornStep
    <3> QED
      BY <3>2, <3>3, <3>5, <3>6, ItemsLine
  <2> QED
    BY <2>1, <2>2
<1>7. ASSUME NEW left \in Partial, WriteFails(left) PROVE Items'
  <2>1. /\ pending' = pending /\ queue' = queue /\ accepted' = accepted /\ lost' = lost
        /\ NextLine' = NextLine /\ meta' = meta /\ (job' = job \/ job'.upto = 0) /\ HasLine
    BY <1>7 DEF WriteFails, Fail, NoJob, logHistory, NextLine
  <2>2. CASE left = "nothing"
    BY <1>7, <2>1, <2>2, ItemsStill DEF WriteFails, fileVars
  <2>3. CASE left # "nothing"
    <3>1. PICK line \in Lines :
            /\ line = [NextLine EXCEPT !.whole = left = "allButNewline"]
            /\ file' = Append(file, line)
      BY <1>7, <2>1, <2>3, TornLine, WriteAppends DEF WriteFails
    <3>2. torn \subseteq torn' /\ Len(file) + 1 \in torn'
      BY <1>7, <2>3, <3>1, Appended DEF WriteFails
    <3>3. line.whole => \/ line.item = 0
                        \/ line = NextLine /\ ~meta /\ pending # <<>> /\ Len(file) + 1 \in torn'
      BY <2>1, <3>1, <3>2, TornLine, NextLineTyped
    <3>4. line.item = 0 => meta \/ pending = <<>>
      <4>1. line.item = NextLine.item
        BY <2>1, <3>1, NextLineTyped DEF Lines
      <4> QED
        BY <2>1, <4>1, NextLineTyped
    <3> QED
      BY <2>1, <3>1, <3>2, <3>3, <3>4, ItemsLine
  <2> QED
    BY <2>2, <2>3
<1>8. CASE Stop \/ Crash
  BY <1>8, ItemsGone DEF Stop, Crash
<1>9. ASSUME NEW left \in Partial \cup {"all"}, AppendMetadata(left) PROVE Items'
  <2>1. /\ pending' = pending /\ queue' = queue /\ accepted' = accepted /\ lost' = lost
        /\ NextLine' = NextLine /\ meta' = meta /\ job' = job /\ Opens
    BY <1>9 DEF AppendMetadata, logHistory, writerVars, NextLine
  <2>2. CASE left = "nothing"
    BY <1>9, <2>1, <2>2, ItemsStill DEF AppendMetadata
  <2>3. CASE left # "nothing"
    <3>1. PICK line \in Lines :
            /\ line = [item |-> 0, ordinal |-> LastOrdinal + 1, whole |-> left # "fragment"]
            /\ file' = Append(file, line)
      BY <1>9, <2>1, <2>3, MetaLine DEF AppendMetadata
    <3>2. line.item = 0 /\ pending = <<>> /\ torn \subseteq torn'
      BY <2>1, <3>1, TornStep DEF Opens, Handles
    <3> QED
      BY <2>1, <3>1, <3>2, ItemsLine
  <2> QED
    BY <2>2, <2>3
<1> QED
  BY <1>1, <1>2, <1>3, <1>4, <1>5, <1>6, <1>7, <1>8, <1>9 DEF Next, Writer

-----------------------------------------------------------------------------
(* The log a reader gets                                                   *)

Place(K, i) == Cardinality({j \in K : j <= i})

\* Places are numbered from 1, and no two lines have the same.
LEMMA Places ==
  ASSUME NEW m \in Nat, NEW K \in SUBSET (1..m)
  PROVE  /\ IsFiniteSet(K) /\ Cardinality(K) \in Nat
         /\ \A i \in K : Place(K, i) \in 1..Cardinality(K)
         /\ \A i, j \in K : Place(K, i) = Place(K, j) => i = j
<1>1. IsFiniteSet(K) /\ Cardinality(K) \in Nat
  <2>1. IsFiniteSet(1..m)
    BY FS_Interval
  <2> QED
    BY <2>1, FS_Subset, FS_CardinalityType
<1> DEFINE Upto(i) == {j \in K : j <= i}
<1>2. ASSUME NEW i \in K
      PROVE  /\ IsFiniteSet(Upto(i)) /\ Cardinality(Upto(i)) \in Nat
             /\ Cardinality(Upto(i)) <= Cardinality(K) /\ i \in Upto(i)
  BY <1>1, FS_Subset, FS_CardinalityType
<1>3. ASSUME NEW i \in K PROVE Place(K, i) \in 1..Cardinality(K)
  <2>1. Cardinality(Upto(i)) # 0
    BY <1>2, FS_EmptySet
  <2> QED
    BY <1>1, <1>2, <2>1 DEF Place
<1>4. ASSUME NEW i \in K, NEW j \in K, i < j PROVE Place(K, i) # Place(K, j)
  <2>1. Upto(i) \in SUBSET Upto(j) /\ j \notin Upto(i)
    <3>1. \A k \in K : k \in Nat
      OBVIOUS
    <3>2. ~(j <= i) /\ \A k \in K : k <= i => k <= j
      BY <1>4, <3>1
    <3> QED
      BY <3>2
  <2>2. Upto(i) # Upto(j)
    BY <1>2, <2>1
  <2>3. Cardinality(Upto(i)) # Cardinality(Upto(j))
    BY <1>2, <2>1, <2>2, FS_Subset
  <2> QED
    BY <2>3 DEF Place
<1>5. \A i, j \in K : i < j \/ j < i \/ i = j
  OBVIOUS
<1> QED
  BY <1>1, <1>3, <1>4, <1>5

\* A line behind the others has the next place and leaves them theirs.
LEMMA PlaceAdded ==
  ASSUME NEW K, IsFiniteSet(K), NEW n \in Nat, \A i \in K : i \in Nat /\ i < n
  PROVE  /\ Cardinality(K \cup {n}) = Cardinality(K) + 1
         /\ \A i \in K : Place(K \cup {n}, i) = Place(K, i)
         /\ Place(K \cup {n}, n) = Cardinality(K) + 1
<1>1. n \notin K /\ n <= n /\ \A i \in K : ~(n <= i) /\ i <= n
  OBVIOUS
<1>2. Cardinality(K \cup {n}) = Cardinality(K) + 1
  BY <1>1, FS_AddElement
<1>3. ASSUME NEW i \in K PROVE {j \in K \cup {n} : j <= i} = {j \in K : j <= i}
  BY <1>1
<1>4. {j \in K \cup {n} : j <= n} = K \cup {n}
  BY <1>1
<1> QED
  BY <1>2, <1>3, <1>4 DEF Place

\* What a line behind the others adds to the log: its item, unless it is
\* metadata or does not parse.
Adds(line) == line.whole /\ line.item # 0

\* A new line adds its own place to the ones a reader keeps, or none.
LEMMA KeptAppended ==
  ASSUME TypeOK, NEW line \in Lines, file' = Append(file, line), NEW n, n = Len(file) + 1
  PROVE  /\ \A i \in Kept : file'[i] = file[i]
         /\ file'[n] = line
         /\ Kept' = IF Adds(line) THEN Kept \cup {n} ELSE Kept
<1>1. /\ \A i \in Whole : file'[i] = file[i]
      /\ file'[n] = line
      /\ Whole' = IF line.whole THEN Whole \cup {n} ELSE Whole
  BY Appended DEF Whole
<1>2. n \notin Whole /\ \A i \in Whole : i < n /\ ~(n < i)
  <2>1. Len(file) \in Nat /\ \A i \in Whole : i \in 1..Len(file)
    BY Typed DEF Whole
  <2> QED
    BY <2>1
<1>3. Kept \subseteq Whole /\ Kept' \subseteq Whole \cup {n}
  BY <1>1 DEF Kept
<1>4. \A i \in Whole : i \in Kept' <=> i \in Kept
  BY <1>1, <1>2 DEF Kept
<1>5. ~(n < n)
  BY Typed
<1>6. n \in Kept' <=> Adds(line)
  BY <1>1, <1>2, <1>5 DEF Kept, Adds
<1>7. Kept' = IF Adds(line) THEN Kept \cup {n} ELSE Kept
  <2>1. \A i : i \in Kept' <=> i \in Kept \/ (i = n /\ Adds(line))
    BY <1>2, <1>3, <1>4, <1>6
  <2>2. CASE Adds(line)
    BY <2>1, <2>2
  <2>3. CASE ~Adds(line)
    BY <2>1, <2>3
  <2> QED
    BY <2>2, <2>3
<1> QED
  BY <1>1, <1>3, <1>7

\* The places a reader keeps are lines of the file with an item on them.
LEMMA KeptPlaces ==
  ASSUME TypeOK
  PROVE  /\ Len(file) \in Nat /\ Kept \in SUBSET (1..Len(file)) /\ Kept \subseteq Whole
         /\ \A i \in Kept : file[i] \in Lines /\ file[i].item \in Nat
<1>1. Kept \subseteq Whole
  BY DEF Kept
<1>2. \A i \in Whole : file[i].item \in Nat
  <2>1. \A line \in Lines : line.item \in Nat
    BY Typed DEF Lines
  <2> QED
    BY <2>1, Typed
<1> QED
  BY <1>1, <1>2, Typed

\* Every step leaves the kept lines numbered without a gap.
LEMMA RankedStep ==
  ASSUME TypeOK, Handles, HasLast, Ranked, [Next]_vars
  PROVE  Ranked'
<1>1. /\ \A i : Rank(i) = Place(Kept, i)
      /\ \A i : Rank(i)' = Place(Kept', i)
  BY DEF Rank, Place
<1>2. CASE file' = file
  <2>1. Whole' = Whole
    BY <1>2 DEF Whole
  <2>2. Kept' = Kept
    BY <1>2, <2>1 DEF Kept
  <2> QED
    BY <1>1, <1>2, <2>1, <2>2 DEF Ranked
<1>3. ASSUME NEW line \in Lines, file' = Append(file, line) PROVE Ranked'
  <2>1. PICK n : n = Len(file) + 1
    OBVIOUS
  <2>2. /\ \A i \in Whole : file'[i] = file[i]
        /\ file'[n] = line
        /\ Whole' = IF line.whole THEN Whole \cup {n} ELSE Whole
    BY <1>3, <2>1, Appended DEF Whole
  <2>3. Kept' = IF Adds(line) THEN Kept \cup {n} ELSE Kept
    BY <1>3, <2>1, KeptAppended
  <2>4. Kept \subseteq Whole /\ \A i \in Kept : file'[i] = file[i]
    BY <2>2, KeptPlaces
  <2>7. ASSUME NEW k \in 1..Cardinality(Kept') PROVE \E i \in Kept' : Place(Kept', i) = k
    <3>1. \A c \in 1..Cardinality(Kept) : \E i \in Kept : Place(Kept, i) = c
      BY <1>1 DEF Ranked
    <3>2. CASE ~Adds(line)
      BY <2>3, <2>7, <3>1, <3>2
    <3>3. CASE Adds(line)
      <4>1. /\ Cardinality(Kept') = Cardinality(Kept) + 1 /\ Cardinality(Kept) \in Nat
            /\ \A i \in Kept : Place(Kept', i) = Place(Kept, i)
            /\ Place(Kept', n) = Cardinality(Kept) + 1
        <5>1. PICK m \in Nat : m = Len(file) /\ Kept \in SUBSET (1..m) /\ n = m + 1
          BY <2>1, KeptPlaces
        <5>2. Kept' = Kept \cup {n}
          BY <2>3, <3>3
        <5>5. Cardinality(Kept) \in Nat /\ IsFiniteSet(Kept)
          BY <5>1, Places
        <5>6. n \in Nat /\ \A i \in Kept : i \in Nat /\ i < n
          BY <5>1
        <5>3. /\ Cardinality(Kept) \in Nat /\ IsFiniteSet(Kept)
              /\ n \in Nat /\ \A i \in Kept : i \in Nat /\ i < n
          BY <5>5, <5>6
        <5>4. /\ Cardinality(Kept \cup {n}) = Cardinality(Kept) + 1
              /\ \A i \in Kept : Place(Kept \cup {n}, i) = Place(Kept, i)
              /\ Place(Kept \cup {n}, n) = Cardinality(Kept) + 1
          BY <5>3, PlaceAdded
        <5> QED
          BY <5>2, <5>3, <5>4
      <4>2. k \in 1..Cardinality(Kept) \/ k = Cardinality(Kept) + 1
        BY <4>1
      <4> QED
        BY <2>3, <3>1, <3>3, <4>1, <4>2
    <3> QED
      BY <3>2, <3>3
  <2> QED
    BY <1>1, <2>7 DEF Ranked
<1> QED
  BY <1>2, <1>3, FileStep

-----------------------------------------------------------------------------
(* The invariant holds                                                     *)

\* The initial state satisfies the invariant.
LEMMA InitInv == Init => IInv
<1> SUFFICES ASSUME Init PROVE IInv
  OBVIOUS
<1>1. /\ Len(queue) = 0 /\ Len(pending) = 0 /\ Len(file) = 0 /\ \A k : k \notin 1..0
  BY DEF Init
<1>2. /\ queue \in Seq(Commands) /\ pending \in Seq(1..MaxItems) /\ file \in Seq(Lines)
  BY EmptySeq DEF Init
<1>3. TypeOK
  <2>1. job = NoJob /\ 0 <= Capacity
    BY BoundsAssumption DEF Init
  <2>2. /\ attempt \in 0..2 /\ next \in Nat /\ accepted \in 0..MaxItems
        /\ lost \subseteq 1..MaxItems /\ promised \subseteq 1..MaxItems
        /\ torn \subseteq 1..Len(file) /\ barriers \in 0..MaxBarriers /\ faults \in 0..MaxFaults /\ starts \in 0..MaxStarts
    BY BoundsAssumption DEF Init
  <2>3. /\ alive \in BOOLEAN /\ handle \in BOOLEAN /\ deferred \in BOOLEAN
        /\ meta \in BOOLEAN /\ newline \in BOOLEAN
    BY DEF Init
  <2> QED
    BY <1>1, <1>2, <2>1, <2>2, <2>3 DEF TypeOK
<1>4. Whole = {} /\ InFile = {} /\ Kept = {}
  BY <1>1 DEF Whole, InFile, Kept
<1>5. Handles /\ HasLast /\ Ordinals /\ OrdinalsInOrder
  BY <1>4 DEF Init, Handles, HasLast, Ordinals, OrdinalsInOrder
<1>6. Numbers /\ Repeats
  BY <1>1, <1>4 DEF Numbers, Repeats
<1>7. Stored
  BY <1>4 DEF Init, Stored
<1>8. NoneMissing
  BY <1>1 DEF Init, NoneMissing, NoJob
<1>9. Ranked
  <2>1. Cardinality(Kept) = 0
    BY <1>4, FS_EmptySet
  <2> QED
    BY <1>1, <1>4, <2>1 DEF Ranked
<1> QED
  BY <1>3, <1>5, <1>6, <1>7, <1>8, <1>9 DEF IInv

\* Every step keeps the invariant.
LEMMA StepInv == IInv /\ [Next]_vars => IInv'
<1> SUFFICES ASSUME IInv, [Next]_vars PROVE IInv'
  OBVIOUS
<1>1. TypeOK /\ Handles /\ HasLast /\ Ordinals /\ OrdinalsInOrder /\ Ranked /\ Items /\ Numbers
  BY DEF IInv, Items
<1>2. TypeOK' /\ Handles'
  BY <1>1, TypeStep, HandlesStep
<1>3. HasLast' /\ Ordinals' /\ OrdinalsInOrder'
  BY <1>1, OrdinalsStep
<1>4. Items' /\ Ranked'
  BY <1>1, ItemsStep, RankedStep
<1> QED
  BY <1>2, <1>3, <1>4 DEF IInv, Items

\* The invariant holds in every reachable state, whatever the bounds.
THEOREM Invariance == Spec => []IInv
BY InitInv, StepInv, PTL DEF Spec

\* Type correctness: the channel never holds more commands than its capacity,
\* and buffer and file hold items and lines only.
THEOREM TypeCorrect == Spec => []TypeOK
<1>1. IInv => TypeOK
  BY DEF IInv
<1> QED
  BY <1>1, Invariance, PTL

\* The ordinals in the file neither skip nor go back, however often a write
\* fails or tears, the process dies, and the file is resumed or appended to; one
\* is used again only to retry a line that a failed write left.
THEOREM OrdinalsInOrderHolds == Spec => []OrdinalsInOrder
<1>1. IInv => OrdinalsInOrder
  BY DEF IInv
<1> QED
  BY <1>1, Invariance, PTL

-----------------------------------------------------------------------------
(* The file is the log RolloutLog describes                                *)

\* Readable, as a function of the lines and of those that count.
ListOf(f, K) == [k \in 1..Cardinality(K) |-> f[CHOOSE i \in K : Place(K, i) = k].item]
EveryPlace(K) == \A k \in 1..Cardinality(K) : \E i \in K : Place(K, i) = k

\* The items at the places K of f, in order, are a sequence of their number.
LEMMA Listing ==
  ASSUME NEW m \in Nat, NEW K \in SUBSET (1..m), NEW f, EveryPlace(K),
         \A i \in K : f[i].item \in Nat
  PROVE  /\ ListOf(f, K) \in Seq(Nat) /\ Len(ListOf(f, K)) = Cardinality(K)
         /\ \A i \in K : ListOf(f, K)[Place(K, i)] = f[i].item
<1>1. /\ Cardinality(K) \in Nat
      /\ \A i \in K : Place(K, i) \in 1..Cardinality(K)
      /\ \A i, j \in K : Place(K, i) = Place(K, j) => i = j
  BY Places
<1>2. ASSUME NEW i \in K PROVE ListOf(f, K)[Place(K, i)] = f[i].item
  <2> DEFINE c == CHOOSE j \in K : Place(K, j) = Place(K, i)
  <2>1. c \in K /\ Place(K, c) = Place(K, i)
    OBVIOUS
  <2>2. c = i
    BY <1>1, <2>1
  <2>3. ListOf(f, K)[Place(K, i)] = f[c].item
    BY <1>1 DEF ListOf
  <2> QED
    BY <2>2, <2>3
<1>3. \A k \in 1..Cardinality(K) : ListOf(f, K)[k] \in Nat
  BY <1>2 DEF EveryPlace
<1>4. PICK g : g = ListOf(f, K)
  OBVIOUS
<1>5. g = [k \in 1..Cardinality(K) |-> g[k]]
  BY <1>4 DEF ListOf
<1>6. g \in Seq(Nat) /\ Len(g) = Cardinality(K)
  BY <1>1, <1>3, <1>4, <1>5
<1> QED
  BY <1>2, <1>4, <1>6

\* The log as the lines of the file change.
LEMMA ListSame ==
  ASSUME NEW m \in Nat, NEW K \in SUBSET (1..m), NEW f, NEW g, EveryPlace(K),
         \A i \in K : f[i].item \in Nat /\ g[i] = f[i]
  PROVE  ListOf(g, K) = ListOf(f, K)
<1>1. /\ ListOf(f, K) \in Seq(Nat) /\ Len(ListOf(f, K)) = Cardinality(K)
      /\ \A i \in K : ListOf(f, K)[Place(K, i)] = f[i].item
  BY Listing
<1>2. \A i \in K : g[i].item \in Nat
  OBVIOUS
<1>3. /\ ListOf(g, K) \in Seq(Nat) /\ Len(ListOf(g, K)) = Cardinality(K)
      /\ \A i \in K : ListOf(g, K)[Place(K, i)] = g[i].item
  BY <1>2, Listing
<1>4. \A k \in 1..Cardinality(K) : ListOf(g, K)[k] = ListOf(f, K)[k]
  BY <1>1, <1>3 DEF EveryPlace
<1> QED
  BY <1>1, <1>3, <1>4, SeqEqual

\* What load_rollout_items returns, in the terms of the lemma above.
LEMMA ReadableIsList ==
  /\ Readable = ListOf(file, Kept)
  /\ Ranked => EveryPlace(Kept)
  /\ Readable' = ListOf(file', Kept')
  /\ Ranked' => EveryPlace(Kept')
BY DEF Readable, ListOf, EveryPlace, Ranked, Rank, Place

\* Torn lines and lines a reader skips do not change what it returns.
LEMMA ReadableStays ==
  ASSUME TypeOK, Ranked, Ranked', NEW line \in Lines, ~Adds(line),
         file' = file \/ file' = Append(file, line)
  PROVE  Readable' = Readable
<1>1. CASE file' = file
  <2>1. Whole' = Whole
    BY <1>1 DEF Whole
  <2>2. Kept' = Kept
    BY <1>1, <2>1 DEF Kept
  <2> QED
    BY <1>1, <2>2, ReadableIsList
<1>2. CASE file' = Append(file, line)
  <2>1. PICK n : n = Len(file) + 1
    OBVIOUS
  <2>2. Kept' = Kept /\ \A i \in Kept : file'[i] = file[i]
    BY <1>2, <2>1, KeptAppended
  <2>3. ListOf(file', Kept) = ListOf(file, Kept)
    BY <2>2, KeptPlaces, ReadableIsList, ListSame
  <2> QED
    BY <2>2, <2>3, ReadableIsList
<1> QED
  BY <1>1, <1>2

\* A whole new line adds its item to the end of what a reader returns.
LEMMA ReadableGrows ==
  ASSUME TypeOK, Ranked, Ranked', NEW line \in Lines, Adds(line), file' = Append(file, line)
  PROVE  Readable' = Append(Readable, line.item)
<1>1. PICK n \in Nat : n = Len(file) + 1 /\ n >= 1
  BY KeptPlaces
<1>2. PICK K \in SUBSET (1..n) : K = Kept /\ n \notin K
  BY <1>1, KeptPlaces
<1>3. PICK L : L = Kept'
  OBVIOUS
<1>4. PICK f : f = file
  OBVIOUS
<1>5. PICK g : g = file'
  OBVIOUS
<1>6. L = K \cup {n} /\ g[n] = line /\ \A i \in K : g[i] = f[i]
  BY <1>1, <1>2, <1>3, <1>4, <1>5, KeptAppended
<1>7. line.item \in Nat /\ \A i \in K : f[i].item \in Nat
  BY <1>2, <1>4, KeptPlaces, Typed DEF Lines
<1>8. EveryPlace(K) /\ EveryPlace(L)
  BY <1>2, <1>3, ReadableIsList
<1>9. PICK s : s = ListOf(f, K)
  OBVIOUS
<1>10. PICK t : t = ListOf(g, L)
  OBVIOUS
<1>11. /\ s \in Seq(Nat) /\ Len(s) = Cardinality(K)
       /\ \A i \in K : s[Place(K, i)] = f[i].item
  BY <1>7, <1>8, <1>9, Listing
<1>12. /\ t \in Seq(Nat) /\ Len(t) = Cardinality(L)
       /\ \A i \in L : t[Place(L, i)] = g[i].item
  <2>1. L \in SUBSET (1..n) /\ \A i \in L : g[i].item \in Nat
    <3>1. n \in 1..n
      BY <1>1
    <3> QED
      BY <1>6, <1>7, <3>1
  <2> QED
    BY <1>8, <1>10, <2>1, Listing
<1>13. /\ Cardinality(L) = Cardinality(K) + 1 /\ Cardinality(K) \in Nat
       /\ \A i \in K : Place(L, i) = Place(K, i)
       /\ Place(L, n) = Cardinality(K) + 1
  <2>1. IsFiniteSet(K) /\ Cardinality(K) \in Nat
    BY Places
  <2>2. \A i \in K : i \in Nat /\ i < n
    BY <1>2
  <2> QED
    BY <1>6, <2>1, <2>2, PlaceAdded
<1>14. PICK u : u = Append(s, line.item)
  OBVIOUS
<1>15. /\ u \in Seq(Nat) /\ Len(u) = Cardinality(K) + 1
       /\ \A k \in 1..Cardinality(K) : u[k] = s[k]
       /\ u[Cardinality(K) + 1] = line.item
  BY <1>7, <1>11, <1>14, AppendProperties
<1>16. ASSUME NEW k \in 1..Cardinality(K) PROVE t[k] = u[k]
  <2>1. PICK i \in K : Place(K, i) = k
    BY <1>8 DEF EveryPlace
  <2> QED
    BY <1>6, <1>11, <1>12, <1>13, <1>15, <2>1
<1>17. t[Cardinality(K) + 1] = u[Cardinality(K) + 1]
  BY <1>6, <1>12, <1>13, <1>15
<1>18. \A k \in 1..Len(t) : t[k] = u[k]
  <2>1. \A k \in 1..Len(t) : k \in 1..Cardinality(K) \/ k = Cardinality(K) + 1
    BY <1>12, <1>13
  <2> QED
    BY <1>16, <1>17, <2>1
<1>19. t = u
  BY <1>12, <1>13, <1>15, <1>18, SeqEqual
<1> QED
  BY <1>2, <1>3, <1>4, <1>5, <1>9, <1>10, <1>14, <1>19, ReadableIsList

\* The items in the log are those in the file.
LEMMA LogIsFile ==
  ASSUME TypeOK, Ranked
  PROVE  \A x : x \in Log!InLog <=> x \in InFile /\ x # 0
<1>1. /\ Readable \in Seq(Nat) /\ Len(Readable) = Cardinality(Kept)
      /\ \A i \in Kept : Readable[Place(Kept, i)] = file[i].item
  BY KeptPlaces, ReadableIsList, Listing
<1>2. \A i \in Kept : Place(Kept, i) \in 1..Cardinality(Kept)
  BY KeptPlaces, Places
<1>3. ASSUME NEW x \in Log!InLog PROVE x \in InFile /\ x # 0
  <2>1. PICK k \in 1..Len(Readable) : x = Readable[k]
    BY <1>3 DEF Log!InLog
  <2>2. PICK i \in Kept : Place(Kept, i) = k
    BY <1>1, <2>1, ReadableIsList DEF EveryPlace
  <2>3. x = file[i].item /\ i \in Whole /\ file[i].item # 0
    BY <1>1, <2>1, <2>2 DEF Kept
  <2> QED
    BY <2>3 DEF InFile
<1>4. ASSUME NEW x \in InFile, x # 0 PROVE x \in Log!InLog
  <2>1. PICK i \in Whole : x = file[i].item
    BY <1>4 DEF InFile
  <2>2. i \in Kept
    BY <1>4, <2>1 DEF Kept
  <2>3. Place(Kept, i) \in 1..Len(Readable) /\ Readable[Place(Kept, i)] = x
    BY <1>1, <1>2, <2>1, <2>2
  <2> QED
    BY <2>3 DEF Log!InLog
<1> QED
  BY <1>3, <1>4

\* The line of an item that is not in the file yet stores the next item.
LEMMA StoreStep ==
  ASSUME IInv, Ranked', HasLine, ~meta, NEW line \in Lines, line = NextLine, Adds(line),
         line.item \notin InFile, file' = Append(file, line), UNCHANGED logHistory
  PROVE  Log!Store
<1>0. TypeOK /\ Numbers /\ Repeats /\ NoneMissing /\ Ranked
  BY DEF IInv
<1>1. PICK x : x = Head(pending)
  OBVIOUS
<1>2. x = pending[1] /\ 1 \in 1..Len(pending) /\ line.item = x /\ x \in Nat /\ x # 0
  BY <1>0, <1>1, NextLineTyped, Typed
<1>3. x \in 1..accepted /\ x \notin lost /\ x \in Buffered
  BY <1>0, <1>2, Typed DEF Numbers, Buffered
<1>4. x \notin InFile
  BY <1>2
<1>5. ASSUME NEW k \in 1..(x - 1) PROVE k \in lost \cup InFile
  <2>1. Settled(k) \/ InQueue(k, Len(queue))
    BY <1>0, <1>3, Typed DEF NoneMissing
  <2>2. ~InQueue(k, Len(queue))
    <3>1. \A i \in 1..Len(queue) : queue[i].op = "add" => x < queue[i].upto
      BY <1>0, <1>2 DEF Numbers
    <3>2. ~(x < k)
      BY <1>2
    <3> QED
      BY <3>1, <3>2 DEF InQueue
  <2>3. k \notin Buffered
    <3>1. \A i \in 1..Len(pending) : i = 1 \/ 1 < i
      OBVIOUS
    <3>2. \A i \in 1..Len(pending) : pending[i] = x \/ x < pending[i]
      BY <1>0, <1>2, <3>1 DEF Numbers
    <3>3. ~(x < k) /\ k # x
      BY <1>2
    <3> QED
      BY <3>2, <3>3 DEF Buffered
  <2> QED
    BY <2>1, <2>2, <2>3 DEF Settled
<1>6. Readable' = Append(Readable, x)
  BY <1>0, <1>2, ReadableGrows
<1>7. x \notin lost \cup Log!InLog /\ 1..(x - 1) \subseteq lost \cup Log!InLog
  <2>1. \A k \in 1..(x - 1) : k # 0
    OBVIOUS
  <2> QED
    BY <1>0, <1>3, <1>4, <1>5, <2>1, LogIsFile
<1> QED
  BY <1>3, <1>6, <1>7 DEF Log!Store, logHistory, Doubtful

\* The line of an item that is in the file repeats the last item of the log, and
\* the write that put it there had failed.
LEMMA RepeatStep ==
  ASSUME IInv, Ranked', HasLine, ~meta, NEW line \in Lines, line = NextLine, Adds(line),
         line.item \in InFile, file' = Append(file, line), UNCHANGED logHistory
  PROVE  Log!Repeat
<1>0. TypeOK /\ Repeats /\ HasLast /\ Ranked
  BY DEF IInv
<1>1. line.item \in Buffered /\ line.item # 0
  <2>1. line.item = pending[1] /\ 1 \in 1..Len(pending)
    BY <1>0, NextLineTyped, Typed
  <2> QED
    BY <2>1 DEF Buffered, Adds
<1>2. PICK i \in Whole : file[i].item = line.item
  BY DEF InFile
<1>3. PICK m \in Whole : \A j \in Whole : j <= m
  BY <1>0, <1>2 DEF HasLast, IsLast
<1>4. file[m].item = line.item
  <2>1. m = i \/ m > i
    <3>1. m \in Nat /\ i \in Nat /\ i <= m
      BY <1>0, <1>2, <1>3, Typed
    <3> QED
      BY <3>1
  <2>2. m > i => file[m] = line
    BY <1>0, <1>1, <1>2, <1>3 DEF Repeats
  <2> QED
    BY <1>2, <2>1, <2>2
<1>5. m \in Kept /\ m \in torn /\ \A j \in Kept : j <= m
  BY <1>0, <1>1, <1>3, <1>4 DEF Kept, Repeats
<1>6. Readable[Len(Readable)] = line.item
  <2>1. /\ Len(Readable) = Cardinality(Kept)
        /\ \A j \in Kept : Readable[Place(Kept, j)] = file[j].item
    BY <1>0, KeptPlaces, ReadableIsList, Listing
  <2>2. Place(Kept, m) = Cardinality(Kept)
    <3>1. {j \in Kept : j <= m} = Kept
      BY <1>5
    <3> QED
      BY <3>1 DEF Place
  <2> QED
    BY <1>4, <1>5, <2>1, <2>2
<1>7. Readable' = Append(Readable, line.item)
  BY <1>0, ReadableGrows
<1>8. Doubtful
  BY <1>5 DEF Doubtful
<1>9. Doubtful' \in BOOLEAN
  BY DEF Doubtful
<1> QED
  BY <1>6, <1>7, <1>8, <1>9 DEF Log!Repeat, logHistory

\* Where no line with an item is added, the last one stays what it was.
LEMMA DoubtStays ==
  ASSUME TypeOK, Kept' = Kept, NEW n, n \notin Kept, torn' = torn \/ torn' = torn \cup {n}
  PROVE  Doubtful' = Doubtful
<1>1. Kept' \cap torn' = Kept \cap torn
  OBVIOUS
<1> QED
  BY <1>1 DEF Doubtful

\* A barrier is answered when what was recorded before it is in the file.
LEMMA PromiseStep ==
  ASSUME TypeOK, Ranked, Readable' = Readable, Doubtful' = Doubtful,
         accepted' = accepted, lost' = lost,
         NEW n \in Nat, n <= accepted, \A k \in 1..n : k \in lost \/ k \in InFile,
         promised' = promised \/ promised' = promised \cup (1..n \ lost)
  PROVE  Log!Promise \/ UNCHANGED Log!logVars
<1>1. CASE n = 0 \/ promised' = promised
  <2>1. 1..0 = {}
    OBVIOUS
  <2>2. promised' = promised
    BY <1>1, <2>1
  <2> QED
    BY <2>2 DEF Log!logVars
<1>2. CASE n # 0 /\ promised' # promised
  <2>1. n \in 1..accepted
    BY <1>2, Typed
  <2>2. 1..n \subseteq lost \cup Log!InLog
    <3>1. \A k \in 1..n : k # 0
      OBVIOUS
    <3> QED
      BY <3>1, LogIsFile
  <2> QED
    BY <1>2, <2>1, <2>2 DEF Log!Promise
<1> QED
  BY <1>1, <1>2

\* Every step of the recorder is a step of the log or leaves it alone.
LEMMA LogStep ==
  ASSUME IInv, Ranked', [Next]_vars
  PROVE  Log!Next \/ UNCHANGED Log!logVars
<1>0. TypeOK /\ Handles /\ HasLast /\ Ordinals /\ Numbers /\ Repeats /\ Stored /\ NoneMissing /\ Ranked
  BY DEF IInv
<1>a. PICK scrap \in Lines : ~Adds(scrap)
  <2>1. [item |-> 0, ordinal |-> 0, whole |-> FALSE] \in Lines
    BY <1>0, Typed DEF Lines
  <2> QED
    BY <2>1 DEF Adds
<1>b. file' = file => Readable' = Readable /\ Doubtful' = Doubtful
  <2> SUFFICES ASSUME file' = file PROVE Readable' = Readable /\ Doubtful' = Doubtful
    OBVIOUS
  <2>1. Readable' = Readable
    BY <1>0, <1>a, ReadableStays
  <2>2. Kept' = Kept
    <3>1. Whole' = Whole
      BY DEF Whole
    <3> QED
      BY <3>1 DEF Kept
  <2>3. torn' = torn
    <3>1. ASSUME NEW line \in Lines, file' = Append(file, line) PROVE FALSE
      <4>1. Len(file') = Len(file) + 1 /\ Len(file) \in Nat
        BY <1>0, <3>1, Appended, Typed
      <4> QED
        BY <4>1
    <3> QED
      BY <1>0, <3>1, TornStep
  <2> QED
    BY <2>1, <2>2, <2>3 DEF Doubtful
<1>c. ASSUME NEW line \in Lines, file' = Append(file, line), line = NextLine \/ ~line.whole \/ line.item = 0,
             HasLine \/ line.item = 0, UNCHANGED logHistory
      PROVE  Log!Next \/ UNCHANGED Log!logVars
  <2>1. CASE Adds(line)
    <3>1. HasLine /\ line = NextLine /\ ~meta
      BY <1>c, <2>1 DEF Adds, NextLine
    <3> QED
      BY <1>c, <2>1, <3>1, StoreStep, RepeatStep DEF Log!Next
  <2>2. CASE ~Adds(line)
    <3>1. Readable' = Readable
      BY <1>0, <1>c, <2>2, ReadableStays
    <3>2. Kept' = Kept
      BY <1>0, <1>c, <2>2, KeptAppended
    <3>3. Len(file) + 1 \notin Kept
      <4>1. Len(file) \in Nat /\ Kept \in SUBSET (1..Len(file))
        BY <1>0, KeptPlaces
      <4> QED
        BY <4>1
    <3>4. Doubtful' = Doubtful
      BY <1>0, <3>2, <3>3, TornStep, DoubtStays
    <3> QED
      BY <1>c, <3>1, <3>4 DEF logHistory, Log!logVars
  <2> QED
    BY <2>1, <2>2
<1>1. CASE RecordItems
  <2>1. file' = file /\ accepted' = accepted + 1 /\ lost' = lost /\ promised' = promised
    BY <1>1 DEF RecordItems, fileVars
  <2> QED
    BY <1>b, <2>1 DEF Log!Next, Log!Record
<1>2. ASSUME NEW op \in Barriers, CallBarrier(op) PROVE UNCHANGED Log!logVars
  BY <1>2, <1>b DEF CallBarrier, fileVars, logHistory, Log!logVars
<1>3. CASE ReceiveOnly
  <2>1. PICK cmd : cmd = Head(queue)
    OBVIOUS
  <2>2. cmd = queue[1] /\ 1 \in 1..Len(queue)
    BY <1>0, <1>3, <2>1 DEF ReceiveOnly, TypeOK
  <2>3. /\ file' = file /\ accepted' = accepted /\ lost' = lost
        /\ promised' = promised \/ promised' = promised \cup (1..cmd.upto \ lost)
    BY <1>3, <2>1 DEF ReceiveOnly, AnswerOk, fileVars
  <2>4. CASE cmd.op = "add"
    <3>1. promised' = promised
      BY <1>3, <2>1, <2>4 DEF ReceiveOnly, AnswerOk, Barriers
    <3> QED
      BY <1>b, <2>3, <3>1 DEF Log!logVars
  <2>5. CASE cmd.op # "add"
    <3>1. pending = <<>>
      BY <1>3, <2>1, <2>5 DEF ReceiveOnly
    <3>2. Buffered = {}
      <4>1. Len(pending) = 0 /\ \A k : k \notin 1..0
        BY <3>1
      <4> QED
        BY <4>1 DEF Buffered
    <3>3. \A n : ~InQueue(n, 1)
      BY <2>2, <2>5 DEF InQueue
    <3>4. cmd.upto \in Nat /\ cmd.upto <= accepted
      BY <1>0, <2>2, Typed DEF Numbers, Commands
    <3>5. \A k \in 1..cmd.upto : k \in lost \/ k \in InFile
      BY <1>0, <2>2, <3>2, <3>3 DEF NoneMissing, Settled
    <3> QED
      BY <1>0, <1>b, <2>3, <3>4, <3>5, PromiseStep DEF Log!Next
  <2> QED
    BY <2>4, <2>5
<1>4. CASE ReceiveAndWrite \/ OpenFile \/ OpenOrFlushFails \/ Resume \/ UNCHANGED vars
  <2>1. file' = file /\ accepted' = accepted /\ lost' = lost /\ promised' = promised
    BY <1>4 DEF ReceiveAndWrite, OpenFile, OpenOrFlushFails, Resume, vars, fileVars, logHistory
  <2> QED
    BY <1>b, <2>1 DEF Log!logVars
<1>5. CASE WriteLine
  <2>1. HasLine /\ NextLine \in Lines /\ file' = Append(file, NextLine) /\ UNCHANGED logHistory
    BY <1>0, <1>5, NextLineTyped, WriteAppends DEF WriteLine
  <2>2. PICK line \in Lines : line = NextLine
    BY <2>1
  <2> QED
    BY <1>c, <2>1, <2>2
<1>6. ASSUME NEW left \in Partial, WriteFails(left) PROVE Log!Next \/ UNCHANGED Log!logVars
  <2>1. HasLine /\ UNCHANGED logHistory
    BY <1>6 DEF WriteFails
  <2>2. CASE left = "nothing"
    BY <1>6, <1>b, <2>1, <2>2 DEF WriteFails, fileVars, logHistory, Log!logVars
  <2>3. CASE left # "nothing"
    <3>1. PICK line \in Lines :
            /\ line = [NextLine EXCEPT !.whole = left = "allButNewline"]
            /\ file' = Append(file, line)
      BY <1>0, <1>6, <2>1, <2>3, TornLine, WriteAppends DEF WriteFails
    <3>2. line = NextLine \/ ~line.whole
      BY <1>0, <2>1, <3>1, TornLine
    <3> QED
      BY <1>c, <2>1, <3>1, <3>2
  <2> QED
    BY <2>2, <2>3
<1>7. CASE Complete
  <2>1. pending = <<>> /\ file' = file /\ accepted' = accepted /\ lost' = lost
    BY <1>7 DEF Complete, fileVars
  <2>2. promised' = promised \/ promised' = promised \cup (1..job.upto \ lost)
    BY <1>7 DEF Complete, AnswerOk
  <2>3. Buffered = {}
    <3>1. Len(pending) = 0 /\ \A k : k \notin 1..0
      BY <2>1
    <3> QED
      BY <3>1 DEF Buffered
  <2>4. job.upto \in Nat /\ job.upto <= accepted
    <3>1. job.upto \in Nat
      BY <1>0, Typed DEF TypeOK, Commands, NoJob
    <3> QED
      BY <1>0, <3>1 DEF NoneMissing
  <2>5. \A k \in 1..job.upto : k \in lost \/ k \in InFile
    BY <1>0, <2>3 DEF NoneMissing, Settled
  <2> QED
    BY <1>0, <1>b, <2>1, <2>2, <2>4, <2>5, PromiseStep DEF Log!Next
<1>8. CASE Stop \/ Crash
  <2>1. /\ file' = file /\ accepted' = accepted /\ promised' = promised
        /\ lost' = (1..accepted) \ InFile
    BY <1>8 DEF Stop, Crash, Gone, fileVars
  <2>2. lost \subseteq lost'
    BY <1>0, <2>1 DEF Stored
  <2>3. lost' \subseteq (1..accepted) \ Log!InLog
    BY <1>0, <2>1, LogIsFile
  <2> QED
    BY <1>b, <2>1, <2>2, <2>3 DEF Log!Next, Log!Lose
<1>9. ASSUME NEW left \in Partial \cup {"all"}, AppendMetadata(left)
      PROVE  Log!Next \/ UNCHANGED Log!logVars
  <2>1. Opens /\ UNCHANGED logHistory
    BY <1>9 DEF AppendMetadata
  <2>2. CASE left = "nothing"
    BY <1>9, <1>b, <2>1, <2>2 DEF AppendMetadata, logHistory, Log!logVars
  <2>3. CASE left # "nothing"
    <3>1. PICK line \in Lines :
            /\ line = [item |-> 0, ordinal |-> LastOrdinal + 1, whole |-> left # "fragment"]
            /\ file' = Append(file, line)
      BY <1>0, <1>9, <2>1, <2>3, MetaLine DEF AppendMetadata
    <3>2. line.item = 0
      BY <3>1
    <3> QED
      BY <1>c, <2>1, <3>1, <3>2
  <2> QED
    BY <2>2, <2>3
<1> QED
  BY <1>1, <1>2, <1>3, <1>4, <1>5, <1>6, <1>7, <1>8, <1>9 DEF Next, Writer

\* The recorder implements the log: items get into the file in the order in
\* which they were recorded, none missing but for those a crash or the end of the
\* writer lost, and flush, persist and shutdown are answered with Ok only when
\* everything recorded before them can be read back; a reader finds an item
\* again only right behind itself, after a write that was reported as failed.
THEOREM Refinement == Spec => ImplementsLog
<1>1. Init => Log!Init
  <2> SUFFICES ASSUME Init PROVE Log!Init
    OBVIOUS
  <2>1. Len(file) = 0 /\ \A k : k \notin 1..0
    BY DEF Init
  <2>2. Kept = {}
    BY <2>1 DEF Whole, Kept
  <2>3. Cardinality(Kept) = 0
    BY <2>2, FS_EmptySet
  <2>4. Readable = <<>>
    BY <2>1, <2>3 DEF Readable
  <2> QED
    BY <2>2, <2>4 DEF Init, Log!Init, Doubtful
<1>2. IInv /\ IInv' /\ [Next]_vars => [Log!Next]_(Log!logVars)
  <2> SUFFICES ASSUME IInv, IInv', [Next]_vars PROVE Log!Next \/ UNCHANGED Log!logVars
    OBVIOUS
  <2>1. Ranked'
    BY DEF IInv
  <2> QED
    BY <2>1, LogStep
<1> QED
  BY <1>1, <1>2, Invariance, PTL DEF Spec, ImplementsLog, Log!Spec
=============================================================================
