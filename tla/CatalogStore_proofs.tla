------------------------- MODULE CatalogStore_proofs -------------------------
(***************************************************************************)
(* Proofs about CatalogStore: what the locks and the order of the writes   *)
(* keep, what the logs miss, and what a reading of the list shows, for any *)
(* batches, jobs, callers, clocks, sizes of a page and failures.           *)
(***************************************************************************)
EXTENDS CatalogStore, TLAPS, FiniteSetTheorems, SequenceTheorems, WellFoundedInduction

-----------------------------------------------------------------------------
(* What a transition makes of a document: a document of the same shape.    *)

LEMMA JobMoveType ==
    ASSUME NEW s, NEW a, Legal(JOB_LIFECYCLE, s, a)
    PROVE  nextState(JOB_LIFECYCLE, s, a) \in JobStatuses
<1>1. Moves(JOB_LIFECYCLE, s, a) # {}
  BY DEF Legal
<1>2. PICK t \in Moves(JOB_LIFECYCLE, s, a) : nextState(JOB_LIFECYCLE, s, a) = t.to
  BY <1>1 DEF nextState
<1> QED
  BY <1>2 DEF Moves, JOB_LIFECYCLE, JOB_TRANSITIONS, Row, JobStatuses

(* A batch never returns to its draft.                                     *)
LEMMA BatchMoves ==
    ASSUME NEW s, NEW a, Legal(BATCH_LIFECYCLE, s, a)
    PROVE  nextState(BATCH_LIFECYCLE, s, a) \in BatchStatuses \ {"draft"}
<1>1. Moves(BATCH_LIFECYCLE, s, a) # {}
  BY DEF Legal
<1>2. PICK t \in Moves(BATCH_LIFECYCLE, s, a) : nextState(BATCH_LIFECYCLE, s, a) = t.to
  BY <1>1 DEF nextState
<1> QED
  BY <1>2 DEF Moves, BATCH_LIFECYCLE, BATCH_TRANSITIONS, Row, BatchStatuses

LEMMA withStatusType ==
    ASSUME NEW doc \in JobDocument, NEW to \in JobStatuses
    PROVE  withStatus(doc, to) \in JobDocument
<1> DEFINE started == doc.startedAt \/ to = "running"
           failed == to = "failed" \/ (doc.status # "failed" /\ doc.failure)
<1>1. /\ isTerminalJobStatus(to) \in BOOLEAN
      /\ started \in BOOLEAN
      /\ failed \in BOOLEAN
  BY DEF isTerminalJobStatus
<1>2. withStatus(doc, to) =
        [status |-> to, startedAt |-> started, completedAt |-> isTerminalJobStatus(to),
         failure |-> failed, result |-> doc.result]
  BY DEF withStatus
<1>3. doc.result \in BOOLEAN
  BY DEF JobDocument
<1> HIDE DEF started, failed
<1> QED
  BY <1>1, <1>2, <1>3 DEF JobDocument

LEMMA AppliedType ==
    ASSUME NEW doc \in JobDocument, NEW a
    PROVE  Applied(doc, a) \in JobDocument
<1>1. CASE Legal(JOB_LIFECYCLE, doc.status, a)
  <2>1. nextState(JOB_LIFECYCLE, doc.status, a) \in JobStatuses
    BY <1>1, JobMoveType
  <2> QED
    BY <1>1, <2>1, withStatusType DEF Applied
<1>2. CASE ~ Legal(JOB_LIFECYCLE, doc.status, a)
  BY <1>2 DEF Applied
<1> QED
  BY <1>1, <1>2

-----------------------------------------------------------------------------
(* The shape of the files and of the calls.                                *)
FilesOK ==
    /\ batches \in [Batch -> BatchDocument]
    /\ configs \subseteq Job
    /\ stored \subseteq Job
    /\ jobs \in [Job -> CatalogJob]
    /\ logs \in [Job -> Seq(Line)]

CallSet == {NoCall} \cup CreateCall \cup RewriteCall \cup ChangeCall \cup SaveCall
CallsOK == calls \in [Client -> CallSet]

(* The call in progress tells what it is by its first field.               *)
LEMMA CallKinds ==
    ASSUME NEW call \in CallSet
    PROVE  /\ call.op = "create" => call \in CreateCall
           /\ call.op = "rewrite" => call \in RewriteCall
           /\ call.op = "change" => call \in ChangeCall
           /\ call.op = "save" => call \in SaveCall
BY DEF CallSet, NoCall, CreateCall, RewriteCall, ChangeCall, SaveCall

(* The lock of a document is held by one call at a time, and no two calls  *)
(* create one job.                                                         *)
OnBatch(call) == call.op \in {"create", "rewrite"}
Disjoint(k, l) ==
    /\ OnBatch(k) /\ OnBatch(l) => k.batch # l.batch
    /\ k.op = "create" /\ l.op = "create" => k.job # l.job
    /\ k.op = "change" /\ l.op = "change" => k.job # l.job

Locks == \A c, d \in Client : c # d => Disjoint(calls[c], calls[d])

(* What a creation knows of the files at each of its writes.               *)
CreationOK(c) ==
    LET k == calls[c] IN
    k.op = "create" =>
        /\ k.at = "config" => k.job \notin stored \cup configs
        /\ k.at = "job" => k.job \in configs \ stored
        /\ k.at = "member" => k.job \in stored /\ jobs[k.job].batch = k.batch
        /\ k.at = "append" => k.job \in stored
        /\ k.at # "append" => /\ k.members = batches[k.batch].members
                              /\ batches[k.batch].status = "draft"
                              /\ k.job \notin Entries(k.members)

(* What a batch is about to become has the members it has, and their order *)
(* unless it is a draft.                                                   *)
RewriteOK(c) ==
    LET k == calls[c] IN
    k.op = "rewrite" =>
        /\ Entries(k.next.members) = Entries(batches[k.batch].members)
        /\ Len(k.next.members) = Len(batches[k.batch].members)
        /\ batches[k.batch].status \notin {"none", "draft"} =>
              /\ k.next.members = batches[k.batch].members
              /\ k.next.status # "draft"

(* What a job is about to become, and the line about it.                   *)
ReadableIn(log) == {i \in DOMAIN log : log[i].readable}
Newer(event, log) == \A i \in ReadableIn(log) : log[i].event.change < event.change

ChangeOK(c) ==
    LET k == calls[c] IN
    k.op = "change" =>
        /\ k.job \in stored
        /\ k.at = "write" =>
              /\ k.next.batch = jobs[k.job].batch
              /\ k.next.createdAt = jobs[k.job].createdAt
              /\ jobs[k.job].execution => k.next.execution
              /\ jobs[k.job].life.result => k.next.life.result
              /\ k.logged => /\ k.next.changes = jobs[k.job].changes + 1
                             /\ k.event.change = k.next.changes
                             /\ k.event.to = k.next.life.status
                             /\ k.event.kind # "created"
              /\ ~ k.logged => /\ k.next.changes = jobs[k.job].changes
                               /\ k.next.life = jobs[k.job].life
        /\ k.at = "append" =>
              /\ k.event.change = jobs[k.job].changes
              /\ k.event.to = jobs[k.job].life.status
              /\ k.event.kind # "created"
              /\ k.event.change > 0
              /\ Newer(k.event, logs[k.job])

(* A document that never changed is still queued.                          *)
UnchangedIsQueued == \A j \in stored : jobs[j].changes = 0 => jobs[j].life.status = "queued"

CallOK(c) == CreationOK(c) /\ RewriteOK(c) /\ ChangeOK(c)

CatalogInv ==
    /\ FilesOK /\ CallsOK
    /\ Locks
    /\ \A c \in Client : CallOK(c)
    /\ MembersExist
    /\ LogIsHistory
    /\ UnchangedIsQueued

(* What no step undoes: the step NothingUndone speaks of; nor does a job   *)
(* change its place in the listing.                                        *)
Keeps ==
    /\ \A b \in Batch :
         /\ Entries(batches[b].members) \subseteq Entries(batches'[b].members)
         /\ batches[b].status \notin {"none", "draft"} =>
              batches'[b].members = batches[b].members /\ batches'[b].status # "draft"
    /\ \A j \in stored :
         /\ j \in stored'
         /\ jobs[j].execution => jobs'[j].execution
         /\ jobs[j].life.result => jobs'[j].life.result
         /\ jobs[j].changes <= jobs'[j].changes
         /\ jobs[j].createdAt = jobs'[j].createdAt

-----------------------------------------------------------------------------
(* Sequences of members.                                                   *)

LEMMA EntriesFinite ==
    ASSUME NEW seq \in Seq(Job)
    PROVE  IsFiniteSet(Entries(seq))
<1>1. Len(seq) \in Nat /\ DOMAIN seq = 1..Len(seq)
  BY LenProperties
<1>2. IsFiniteSet(1..Len(seq))
  BY <1>1, FS_Interval
<1>3. seq \in Surjection(1..Len(seq), Entries(seq))
  BY <1>1, LenProperties DEF Surjection, Entries
<1> QED
  BY <1>2, <1>3, FS_Surjection

LEMMA EntriesAppend ==
    ASSUME NEW seq \in Seq(Job), NEW j \in Job
    PROVE  Entries(Append(seq, j)) = Entries(seq) \cup {j}
<1>1. /\ DOMAIN seq = 1..Len(seq) /\ Len(seq) \in Nat
      /\ DOMAIN Append(seq, j) = 1..(Len(seq) + 1)
  BY LenProperties, AppendProperties
<1>2. /\ \A i \in 1..Len(seq) : Append(seq, j)[i] = seq[i]
      /\ Append(seq, j)[Len(seq) + 1] = j
  BY AppendProperties
<1>3. 1..(Len(seq) + 1) = (1..Len(seq)) \cup {Len(seq) + 1}
  BY <1>1
<1> QED
  BY <1>1, <1>2, <1>3 DEF Entries

(* A new member makes the list longer by as much as the set.               *)
LEMMA MembersAppend ==
    ASSUME NEW seq \in Seq(Job), NEW j \in Job, j \notin Entries(seq),
           Cardinality(Entries(seq)) = Len(seq)
    PROVE  Cardinality(Entries(Append(seq, j))) = Len(Append(seq, j))
<1>1. Cardinality(Entries(seq) \cup {j}) = Cardinality(Entries(seq)) + 1
  BY EntriesFinite, FS_AddElement
<1>2. Len(Append(seq, j)) = Len(seq) + 1
  BY AppendProperties
<1> QED
  BY <1>1, <1>2, EntriesAppend

-----------------------------------------------------------------------------
(* Logs.                                                                   *)

(* What an append, whole or cut short, makes of a log: whatever can be     *)
(* read could be read before, or is the new line, which comes last.        *)
Extends(new, old, event) ==
    /\ new \in Seq(Line)
    /\ \A i \in ReadableIn(new) :
          \/ i \in ReadableIn(old) /\ new[i].event = old[i].event
          \/ i = Len(old) + 1 /\ new[i].event = event

LEMMA AppendLine ==
    ASSUME NEW log \in Seq(Line), NEW event \in Event, NEW line \in Line, line.event = event
    PROVE  Extends(Append(log, line), log, event)
<1>1. /\ DOMAIN log = 1..Len(log) /\ Len(log) \in Nat
      /\ DOMAIN Append(log, line) = 1..(Len(log) + 1)
      /\ Append(log, line) \in Seq(Line)
  BY LenProperties, AppendProperties
<1>2. /\ \A i \in 1..Len(log) : Append(log, line)[i] = log[i]
      /\ Append(log, line)[Len(log) + 1] = line
  BY AppendProperties
<1> QED
  BY <1>1, <1>2 DEF Extends, ReadableIn

(* A last line made unreadable.                                            *)
LEMMA SpoilLine ==
    ASSUME NEW log \in Seq(Line), NEW event, log # <<>>, NEW line \in Line, ~ line.readable
    PROVE  Extends([log EXCEPT ![Len(log)] = line], log, event)
<1>1. /\ DOMAIN log = 1..Len(log) /\ Len(log) \in Nat
      /\ log \in [1..Len(log) -> Line]
  BY LenProperties
<1> DEFINE new == [log EXCEPT ![Len(log)] = line]
<1>2. new \in [1..Len(log) -> Line]
  BY <1>1
<1>3. new \in Seq(Line)
  BY <1>1, <1>2
<1> QED
  BY <1>1, <1>3 DEF Extends, ReadableIn

LEMMA AppendedExtends ==
    ASSUME NEW log \in Seq(Line), NEW event \in Event
    PROVE  Extends(Appended(log, event), log, event)
<1>1. CASE log # <<>> /\ ~ log[Len(log)].ended
  <2>1. log[Len(log)] \in Line
    BY <1>1, LenProperties
  <2>2. Garbage(log[Len(log)]) \in Line /\ ~ Garbage(log[Len(log)]).readable
    BY <2>1 DEF Garbage, Line
  <2> QED
    BY <1>1, <2>2, SpoilLine DEF Appended
<1>2. CASE ~ (log # <<>> /\ ~ log[Len(log)].ended)
  <2>1. NewLine(event) \in Line /\ NewLine(event).event = event
    BY DEF NewLine, Line
  <2> QED
    BY <1>2, <2>1, AppendLine DEF Appended
<1> QED
  BY <1>1, <1>2

LEMMA TornExtends ==
    ASSUME NEW log \in Seq(Line), NEW event \in Event, NEW readable \in BOOLEAN
    PROVE  Extends(Torn(log, event, readable), log, event)
<1>1. CASE log # <<>> /\ ~ log[Len(log)].ended
  <2>1. log[Len(log)] \in Line
    BY <1>1, LenProperties
  <2> DEFINE spoilt == [log[Len(log)] EXCEPT !.readable = FALSE]
  <2>2. spoilt \in Line /\ ~ spoilt.readable
    BY <2>1 DEF Line
  <2>3. Torn(log, event, readable) = [log EXCEPT ![Len(log)] = spoilt]
    BY <1>1 DEF Torn
  <2> HIDE DEF spoilt
  <2> QED
    BY <1>1, <2>2, <2>3, SpoilLine
<1>2. CASE ~ (log # <<>> /\ ~ log[Len(log)].ended)
  <2> DEFINE line == [event |-> event, readable |-> readable, ended |-> FALSE]
  <2>1. line \in Line /\ line.event = event
    BY DEF Line
  <2>2. Torn(log, event, readable) = Append(log, line)
    BY <1>2 DEF Torn
  <2> HIDE DEF line
  <2> QED
    BY <2>1, <2>2, AppendLine
<1> QED
  BY <1>1, <1>2

-----------------------------------------------------------------------------
(* The locks, when one call is replaced by another.                        *)

LEMMA LocksStep ==
    ASSUME CallsOK, Locks, NEW c \in Client, NEW call \in CallSet,
           calls' = [calls EXCEPT ![c] = call],
           \A d \in Client \ {c} : Disjoint(call, calls[d])
    PROVE  CallsOK' /\ Locks'
<1>1. CallsOK'
  BY DEF CallsOK
<1>2. \A d \in Client : calls'[d] = IF d = c THEN call ELSE calls[d]
  BY DEF CallsOK
<1>3. ASSUME NEW d \in Client, NEW e \in Client, d # e
      PROVE  Disjoint(calls'[d], calls'[e])
  <2>1. CASE d = c
    BY <1>2, <1>3, <2>1
  <2>2. CASE e = c
    BY <1>2, <1>3, <2>2 DEF Disjoint
  <2>3. CASE d # c /\ e # c
    BY <1>2, <1>3, <2>3 DEF Locks
  <2> QED
    BY <2>1, <2>2, <2>3
<1> QED
  BY <1>1, <1>3 DEF Locks, Disjoint, OnBatch

(* A call that goes on with the document it has locked, or ends.           *)
LEMMA LocksGoOn ==
    ASSUME Locks, NEW c \in Client, NEW call,
           \/ call.op \in {"none", "save"}
           \/ /\ call.op = calls[c].op
              /\ OnBatch(call) => call.batch = calls[c].batch
              /\ call.op \in {"create", "change"} => call.job = calls[c].job
    PROVE  \A d \in Client \ {c} : Disjoint(call, calls[d])
BY DEF Locks, Disjoint, OnBatch

LEMMA OtherCalls ==
    ASSUME CallsOK, NEW c \in Client, NEW call, calls' = [calls EXCEPT ![c] = call]
    PROVE  /\ calls'[c] = call
           /\ \A d \in Client \ {c} : calls'[d] = calls[d]
BY DEF CallsOK

(* A step that only begins or ends one call.                               *)
LEMMA CallOnly ==
    ASSUME CatalogInv, NEW c \in Client, NEW call \in CallSet,
           calls' = [calls EXCEPT ![c] = call],
           UNCHANGED <<batches, configs, stored, jobs, logs>>,
           \A d \in Client \ {c} : Disjoint(call, calls[d]),
           CallOK(c)'
    PROVE  CatalogInv' /\ Keeps
<1>1. CallsOK' /\ Locks'
  BY LocksStep DEF CatalogInv
<1>2. ASSUME NEW d \in Client PROVE CallOK(d)'
  <2>1. CASE d = c
    BY <2>1
  <2>2. CASE d # c
    <3>1. calls'[d] = calls[d]
      BY <2>2, OtherCalls DEF CatalogInv
    <3>2. CallOK(d)
      BY DEF CatalogInv
    <3> QED
      BY <3>1, <3>2 DEF CallOK, CreationOK, RewriteOK, ChangeOK, Newer, ReadableIn
  <2> QED
    BY <2>1, <2>2
<1>3. FilesOK' /\ MembersExist' /\ LogIsHistory' /\ UnchangedIsQueued'
  BY DEF CatalogInv, FilesOK, MembersExist, LogIsHistory, UnchangedIsQueued
<1>4. Keeps
  <2>1. \A j \in stored : jobs[j].changes \in Nat
    BY DEF CatalogInv, FilesOK, CatalogJob
  <2> QED
    BY <2>1 DEF Keeps
<1> QED
  BY <1>1, <1>2, <1>3, <1>4 DEF CatalogInv

(* What is not in progress is as it should be.                             *)
LEMMA NothingToKnow ==
    ASSUME NEW c \in Client, calls[c].op \in {"none", "save"}
    PROVE  CallOK(c)
BY DEF CallOK, CreationOK, RewriteOK, ChangeOK

LEMMA NothingToKnowNext ==
    ASSUME NEW c \in Client, calls'[c].op \in {"none", "save"}
    PROVE  CallOK(c)'
BY DEF CallOK, CreationOK, RewriteOK, ChangeOK

-----------------------------------------------------------------------------
(* Calls that begin: they read, under the lock, what they will write.      *)

LEMMA BeginBatchAction ==
    ASSUME CatalogInv, NEW c \in Client, NEW b \in Batch, NEW action,
           BatchActionReads(c, b, action)
    PROVE  CatalogInv' /\ Keeps
<1> DEFINE next == [batches[b] EXCEPT !.status = nextState(BATCH_LIFECYCLE, @, action)]
           call == [op |-> "rewrite", batch |-> b, next |-> next]
<1>1. nextState(BATCH_LIFECYCLE, batches[b].status, action) \in BatchStatuses \ {"draft"}
  BY BatchMoves DEF BatchActionReads
<1>2. batches[b] \in BatchDocument
  BY DEF CatalogInv, FilesOK
<1>3. /\ next \in BatchDocument
      /\ next.members = batches[b].members
      /\ next.status # "draft"
  BY <1>1, <1>2 DEF BatchDocument
<1> HIDE DEF next
<1>4. call \in CallSet /\ call.op = "rewrite"
  BY <1>3 DEF CallSet, RewriteCall
<1>5. calls' = [calls EXCEPT ![c] = call] /\ UNCHANGED files
  BY DEF BatchActionReads, Call, Asked, next
<1>6. calls'[c] = call
  BY <1>5, OtherCalls DEF CatalogInv
<1>7. CallOK(c)'
  BY <1>3, <1>5, <1>6 DEF CallOK, CreationOK, RewriteOK, ChangeOK, files
<1>8. \A d \in Client \ {c} : Disjoint(call, calls[d])
  BY DEF BatchActionReads, BatchFree, Disjoint, OnBatch
<1> HIDE DEF call
<1> QED
  BY <1>4, <1>5, <1>7, <1>8, CallOnly DEF files

LEMMA BeginReorder ==
    ASSUME CatalogInv, NEW c \in Client, NEW b \in Batch, NEW proposed \in Seq(Job),
           ReorderReads(c, b, proposed)
    PROVE  CatalogInv' /\ Keeps
<1> DEFINE next == [batches[b] EXCEPT !.members = proposed]
           call == [op |-> "rewrite", batch |-> b, next |-> next]
<1>1. batches[b] \in BatchDocument /\ batches[b].status = "draft"
  BY DEF CatalogInv, FilesOK, ReorderReads
<1>2. /\ next \in BatchDocument
      /\ next.members = proposed
  BY <1>1 DEF BatchDocument
<1>3. /\ Entries(proposed) = Entries(batches[b].members)
      /\ Len(proposed) = Len(batches[b].members)
  BY DEF ReorderReads, IsPermutation
<1> HIDE DEF next
<1>4. call \in CallSet /\ call.op = "rewrite"
  BY <1>2 DEF CallSet, RewriteCall
<1>5. calls' = [calls EXCEPT ![c] = call] /\ UNCHANGED files
  BY DEF ReorderReads, Call, Asked, next
<1>6. calls'[c] = call
  BY <1>5, OtherCalls DEF CatalogInv
<1>7. CallOK(c)'
  BY <1>1, <1>2, <1>3, <1>5, <1>6 DEF CallOK, CreationOK, RewriteOK, ChangeOK, files
<1>8. \A d \in Client \ {c} : Disjoint(call, calls[d])
  BY DEF ReorderReads, BatchFree, Disjoint, OnBatch
<1> HIDE DEF call
<1> QED
  BY <1>4, <1>5, <1>7, <1>8, CallOnly DEF files

LEMMA BeginCreation ==
    ASSUME CatalogInv, NEW c \in Client, NEW b \in Batch, NEW j \in Job, NEW now \in Time,
           CreateJobReads(c, b, j, now)
    PROVE  CatalogInv' /\ Keeps
<1> DEFINE members == batches[b].members
           call == [op |-> "create", at |-> "config", batch |-> b, job |-> j, now |-> now,
                    members |-> members]
<1>1. members \in Seq(Job) /\ batches[b].status = "draft"
  BY DEF CatalogInv, FilesOK, CreateJobReads, BatchDocument
<1>2. calls' = [calls EXCEPT ![c] = call] /\ UNCHANGED files
  BY DEF CreateJobReads, Call, Asked
<1>3. j \notin stored \cup configs /\ j \notin Entries(members)
  BY DEF CatalogInv, MembersExist, CreateJobReads, IsNew
<1>4. batches'[b] = batches[b]
  BY <1>2 DEF files
<1> HIDE DEF members
<1>5. call \in CallSet /\ call.op = "create"
  BY <1>1 DEF CallSet, CreateCall
<1>6. calls'[c] = call
  BY <1>2, OtherCalls DEF CatalogInv
<1>7. CallOK(c)'
  BY <1>1, <1>2, <1>3, <1>4, <1>6 DEF CallOK, CreationOK, RewriteOK, ChangeOK, files, members
<1>8. \A d \in Client \ {c} : Disjoint(call, calls[d])
  BY DEF CreateJobReads, BatchFree, IsNew, Disjoint, OnBatch
<1> HIDE DEF call
<1> QED
  BY <1>2, <1>5, <1>7, <1>8, CallOnly DEF files

(* Any change of a job that keeps its batch and forgets nothing: with a    *)
(* line about the change that follows, or with none and no new status.     *)
LEMMA BeginChange ==
    ASSUME CatalogInv, NEW c \in Client, NEW j \in Job, NEW next \in CatalogJob,
           NEW logged \in BOOLEAN, NEW event \in Event,
           Changes(c, j, next, logged, event),
           next.batch = jobs[j].batch, next.createdAt = jobs[j].createdAt,
           jobs[j].execution => next.execution,
           jobs[j].life.result => next.life.result,
           logged => /\ next.changes = jobs[j].changes + 1
                     /\ event.change = next.changes
                     /\ event.to = next.life.status
                     /\ event.kind # "created",
           ~ logged => /\ next.changes = jobs[j].changes
                       /\ next.life = jobs[j].life
    PROVE  CatalogInv' /\ Keeps
<1> DEFINE call == [op |-> "change", at |-> "write", job |-> j, logged |-> logged,
                    next |-> next, event |-> event]
<1>1. call \in CallSet /\ call.op = "change"
  BY DEF CallSet, ChangeCall
<1>2. calls' = [calls EXCEPT ![c] = call] /\ UNCHANGED files
  BY DEF Changes, Call, Asked
<1>3. calls'[c] = call
  BY <1>2, OtherCalls DEF CatalogInv
<1>4. j \in stored
  BY DEF Changes
<1>5. CallOK(c)'
  BY <1>2, <1>3, <1>4 DEF CallOK, CreationOK, RewriteOK, ChangeOK, files
<1>6. \A d \in Client \ {c} : Disjoint(call, calls[d])
  BY DEF Changes, JobFree, Disjoint, OnBatch
<1> HIDE DEF call
<1> QED
  BY <1>1, <1>2, <1>5, <1>6, CallOnly DEF files

(* A change with its event.                                                *)
LEMMA BeginLogged ==
    ASSUME CatalogInv, NEW c \in Client, NEW j \in Job, NEW kind \in Kinds \ {"created"},
           NEW life \in JobDocument, Logs(c, j, kind, life),
           jobs[j].life.result => life.result
    PROVE  CatalogInv' /\ Keeps
<1> DEFINE n == jobs[j].changes + 1
           next == [jobs[j] EXCEPT !.life = life, !.changes = n]
           event == [kind |-> kind, change |-> n, to |-> life.status]
<1>1. jobs[j] \in CatalogJob
  BY DEF CatalogInv, FilesOK
<1>2. n \in Nat /\ life.status \in JobStatuses
  BY <1>1 DEF CatalogJob, JobDocument
<1>3. event \in Event
  BY <1>2 DEF Event
<1>4. /\ next \in CatalogJob
      /\ next.batch = jobs[j].batch /\ next.createdAt = jobs[j].createdAt
      /\ next.execution = jobs[j].execution
      /\ next.life = life
      /\ next.changes = n
  BY <1>1, <1>2 DEF CatalogJob
<1>5. Changes(c, j, next, TRUE, event)
  BY DEF Logs
<1>6. event.change = n /\ event.to = life.status /\ event.kind # "created"
  OBVIOUS
<1> HIDE DEF next, event
<1> QED
  BY <1>3, <1>4, <1>5, <1>6, BeginChange

LEMMA BeginAction ==
    ASSUME CatalogInv, NEW c \in Client, NEW j \in Job, NEW action,
           Logs(c, j, "transition", Applied(jobs[j].life, action))
    PROVE  CatalogInv' /\ Keeps
<1>1. jobs[j].life \in JobDocument
  BY DEF CatalogInv, FilesOK, CatalogJob
<1>2. Applied(jobs[j].life, action) \in JobDocument
  BY <1>1, AppliedType
<1>3. Applied(jobs[j].life, action).result = jobs[j].life.result
  BY DEF Applied, withStatus
<1> QED
  BY <1>2, <1>3, BeginLogged DEF Kinds

LEMMA BeginOther ==
    ASSUME CatalogInv, NEW c \in Client, NEW j \in Job,
           SetJobAnnotations(c, j) \/ AttachJobResult(c, j) \/ SetJobExecution(c, j)
    PROVE  CatalogInv' /\ Keeps
<1>1. jobs[j] \in CatalogJob /\ jobs[j].life \in JobDocument
  BY DEF CatalogInv, FilesOK, CatalogJob
<1>2. CASE SetJobAnnotations(c, j)
  BY <1>1, <1>2, BeginLogged DEF SetJobAnnotations, Kinds
<1>3. CASE AttachJobResult(c, j)
  <2> DEFINE life == [jobs[j].life EXCEPT !.result = TRUE]
  <2>1. life \in JobDocument /\ life.result
    BY <1>1 DEF JobDocument
  <2>2. Logs(c, j, "result_attached", life)
    BY <1>3 DEF AttachJobResult
  <2> HIDE DEF life
  <2> QED
    BY <2>1, <2>2, BeginLogged DEF Kinds
<1>4. CASE SetJobExecution(c, j)
  <2> DEFINE next == [jobs[j] EXCEPT !.execution = TRUE]
  <2>1. /\ next \in CatalogJob
        /\ next.batch = jobs[j].batch /\ next.createdAt = jobs[j].createdAt /\ next.execution
        /\ next.life = jobs[j].life /\ next.changes = jobs[j].changes
    BY <1>1 DEF CatalogJob
  <2>2. NoEvent(j) \in Event
    BY <1>1 DEF NoEvent, Event, Kinds, CatalogJob, JobDocument
  <2>3. Changes(c, j, next, FALSE, NoEvent(j))
    BY <1>4 DEF SetJobExecution
  <2> HIDE DEF next
  <2> QED
    BY <2>1, <2>2, <2>3, BeginChange
<1> QED
  BY <1>2, <1>3, <1>4

-----------------------------------------------------------------------------
(* Writes of a batch document.                                             *)

(* The call that writes holds the batch: nobody else is about to write it, *)
(* so what the others know of their batches stays true.                    *)
LEMMA BatchWritten ==
    ASSUME CatalogInv, NEW c \in Client, NEW doc \in BatchDocument, OnBatch(calls[c]),
           batches' = [batches EXCEPT ![calls[c].batch] = doc],
           UNCHANGED <<stored, jobs, logs>>, configs' = configs,
           NEW d \in Client, d # c, calls'[d] = calls[d]
    PROVE  CallOK(d)'
<1>1. CallOK(d) /\ Disjoint(calls[c], calls[d])
  BY DEF CatalogInv, Locks
<1>2. ChangeOK(d)'
  BY <1>1 DEF CallOK, ChangeOK, Newer, ReadableIn
<1>3. OnBatch(calls[d]) => batches'[calls[d].batch] = batches[calls[d].batch]
  <2>1. OnBatch(calls[d]) => calls[c].batch # calls[d].batch
    BY <1>1 DEF Disjoint
  <2>2. OnBatch(calls[d]) => calls[d].batch \in Batch
    BY CallKinds DEF CatalogInv, CallsOK, OnBatch, CreateCall, RewriteCall
  <2> QED
    BY <2>1, <2>2 DEF CatalogInv, FilesOK
<1>4. CreationOK(d)' /\ RewriteOK(d)'
  BY <1>1, <1>3 DEF CallOK, CreationOK, RewriteOK, OnBatch
<1> QED
  BY <1>2, <1>4 DEF CallOK

LEMMA CreateBatchStep ==
    ASSUME CatalogInv, NEW b \in Batch, CreateBatch(b)
    PROVE  CatalogInv' /\ Keeps
<1>1. /\ batches' = [batches EXCEPT ![b].status = "draft"]
      /\ batches[b].status = "none"
      /\ UNCHANGED <<configs, stored, jobs, logs, calls>>
  BY DEF CreateBatch
<1>2. batches \in [Batch -> BatchDocument]
  BY DEF CatalogInv, FilesOK
<1>3. /\ batches' \in [Batch -> BatchDocument]
      /\ \A a \in Batch : batches'[a].members = batches[a].members
      /\ \A a \in Batch \ {b} : batches'[a] = batches[a]
      /\ batches'[b].status = "draft"
  BY <1>1, <1>2 DEF BatchDocument, BatchStatuses
<1>4. FilesOK' /\ CallsOK' /\ Locks' /\ LogIsHistory' /\ UnchangedIsQueued'
  BY <1>1, <1>3 DEF CatalogInv, FilesOK, CallsOK, Locks, Disjoint, OnBatch, LogIsHistory,
       UnchangedIsQueued
<1>5. MembersExist'
  BY <1>1, <1>3 DEF CatalogInv, MembersExist
<1>6. ASSUME NEW d \in Client PROVE CallOK(d)'
  <2>1. CallOK(d)
    BY DEF CatalogInv
  <2>2. ChangeOK(d)'
    BY <1>1, <2>1 DEF CallOK, ChangeOK, Newer, ReadableIn
  <2>3. OnBatch(calls[d]) => calls[d].batch \in Batch
    BY CallKinds DEF CatalogInv, CallsOK, OnBatch, CreateCall, RewriteCall
  <2>4. CreationOK(d)'
    BY <1>1, <1>3, <2>1, <2>3 DEF CallOK, CreationOK, OnBatch
  <2>5. RewriteOK(d)'
    BY <1>1, <1>3, <2>1, <2>3 DEF CallOK, RewriteOK, OnBatch
  <2> QED
    BY <2>2, <2>4, <2>5 DEF CallOK
<1>7. Keeps
  <2>1. \A j \in stored : jobs[j].changes \in Nat
    BY DEF CatalogInv, FilesOK, CatalogJob
  <2> QED
    BY <1>1, <1>3, <2>1 DEF Keeps
<1> QED
  BY <1>4, <1>5, <1>6, <1>7 DEF CatalogInv

LEMMA RewriteStep ==
    ASSUME CatalogInv, NEW c \in Client, RewriteWrites(c)
    PROVE  CatalogInv' /\ Keeps
<1> DEFINE b == calls[c].batch
           next == calls[c].next
<1>1. /\ calls[c].op = "rewrite"
      /\ batches' = [batches EXCEPT ![b] = next]
      /\ calls' = [calls EXCEPT ![c] = NoCall]
      /\ UNCHANGED <<configs, stored, jobs, logs>>
  BY DEF RewriteWrites, Return, Call
<1>2. b \in Batch /\ next \in BatchDocument
  BY <1>1, CallKinds DEF CatalogInv, CallsOK, RewriteCall
<1>3. batches \in [Batch -> BatchDocument]
  BY DEF CatalogInv, FilesOK
<1>4. /\ Entries(next.members) = Entries(batches[b].members)
      /\ Len(next.members) = Len(batches[b].members)
      /\ batches[b].status \notin {"none", "draft"} =>
            next.members = batches[b].members /\ next.status # "draft"
  BY <1>1 DEF CatalogInv, CallOK, RewriteOK
<1>5. CallsOK' /\ Locks'
  <2>1. NoCall \in CallSet /\ NoCall.op = "none"
    BY DEF CallSet, NoCall
  <2> QED
    BY <1>1, <2>1, LocksStep, LocksGoOn DEF CatalogInv
<1>6. ASSUME NEW d \in Client PROVE CallOK(d)'
  <2>1. CASE d = c
    BY <1>1, <2>1, NothingToKnowNext DEF CatalogInv, CallsOK, NoCall
  <2>2. CASE d # c
    <3>1. calls'[d] = calls[d] /\ OnBatch(calls[c])
      BY <1>1, <2>2 DEF CatalogInv, CallsOK, OnBatch
    <3> QED
      BY <1>1, <1>2, <2>2, <3>1, BatchWritten
  <2> QED
    BY <2>1, <2>2
<1> HIDE DEF b, next
<1>7. /\ batches' \in [Batch -> BatchDocument]
      /\ batches'[b] = next
      /\ \A a \in Batch \ {b} : batches'[a] = batches[a]
  BY <1>1, <1>2, <1>3
<1>8. FilesOK' /\ LogIsHistory' /\ UnchangedIsQueued'
  BY <1>1, <1>7 DEF CatalogInv, FilesOK, LogIsHistory, UnchangedIsQueued
<1>9. MembersExist'
  BY <1>1, <1>2, <1>4, <1>7 DEF CatalogInv, MembersExist
<1>10. Keeps
  <2>1. \A j \in stored : jobs[j].changes \in Nat
    BY DEF CatalogInv, FilesOK, CatalogJob
  <2>2. \A a \in Batch : Entries(batches[a].members) \subseteq Entries(batches'[a].members)
    BY <1>2, <1>4, <1>7
  <2>3. \A a \in Batch : batches[a].status \notin {"none", "draft"} =>
              batches'[a].members = batches[a].members /\ batches'[a].status # "draft"
    BY <1>2, <1>4, <1>7
  <2> QED
    BY <1>1, <2>1, <2>2, <2>3 DEF Keeps
<1> QED
  BY <1>5, <1>6, <1>8, <1>9, <1>10 DEF CatalogInv

(* The stages of a creation.                                               *)
LEMMA CreationCall ==
    ASSUME CatalogInv, NEW c \in Client, calls[c].op = "create", NEW stage,
           stage \in {"job", "member", "append"}, Goto(c, stage)
    PROVE  /\ calls[c] \in CreateCall
           /\ CallsOK' /\ Locks'
           /\ calls'[c] = [calls[c] EXCEPT !.at = stage]
           /\ \A d \in Client \ {c} : calls'[d] = calls[d]
<1> DEFINE call == [calls[c] EXCEPT !.at = stage]
<1>1. calls[c] \in CreateCall
  BY CallKinds DEF CatalogInv, CallsOK
<1>2. /\ call \in CallSet /\ call.op = "create"
      /\ call.batch = calls[c].batch /\ call.job = calls[c].job
  BY <1>1 DEF CallSet, CreateCall
<1>3. calls' = [calls EXCEPT ![c] = call]
  BY DEF Goto
<1> HIDE DEF call
<1>4. CallsOK' /\ Locks'
  BY <1>2, <1>3, LocksStep, LocksGoOn DEF CatalogInv
<1>5. calls'[c] = call /\ \A d \in Client \ {c} : calls'[d] = calls[d]
  BY <1>3, OtherCalls DEF CatalogInv
<1> QED
  BY <1>1, <1>4, <1>5 DEF call

LEMMA CreateConfigStep ==
    ASSUME CatalogInv, NEW c \in Client, CreateJobConfig(c)
    PROVE  CatalogInv' /\ Keeps
<1> DEFINE j == calls[c].job
<1>1. /\ calls[c].op = "create" /\ calls[c].at = "config"
      /\ configs' = configs \cup {j}
      /\ Goto(c, "job")
      /\ UNCHANGED <<batches, stored, jobs, logs>>
  BY DEF CreateJobConfig, Creating
<1>2. /\ calls[c] \in CreateCall /\ j \in Job
      /\ CallsOK' /\ Locks'
      /\ calls'[c] = [calls[c] EXCEPT !.at = "job"]
      /\ \A d \in Client \ {c} : calls'[d] = calls[d]
  BY <1>1, CreationCall DEF CreateCall
<1>3. ASSUME NEW d \in Client PROVE CallOK(d)'
  <2>1. CallOK(d)
    BY DEF CatalogInv
  <2>2. CASE d = c
    BY <1>1, <1>2, <2>1, <2>2 DEF CallOK, CreationOK, RewriteOK, ChangeOK, CreateCall
  <2>3. CASE d # c
    <3>1. calls'[d] = calls[d] /\ Disjoint(calls[c], calls[d])
      BY <1>2, <2>3 DEF CatalogInv, Locks
    <3>2. RewriteOK(d)' /\ ChangeOK(d)'
      BY <1>1, <2>1, <3>1 DEF CallOK, RewriteOK, ChangeOK, Newer, ReadableIn
    <3>3. CreationOK(d)'
      BY <1>1, <2>1, <3>1 DEF CallOK, CreationOK, Disjoint
    <3> QED
      BY <3>2, <3>3 DEF CallOK
  <2> QED
    BY <2>2, <2>3
<1>4. FilesOK' /\ MembersExist' /\ LogIsHistory' /\ UnchangedIsQueued'
  BY <1>1, <1>2 DEF CatalogInv, FilesOK, MembersExist, LogIsHistory, UnchangedIsQueued
<1>5. Keeps
  <2>1. \A i \in stored : jobs[i].changes \in Nat
    BY DEF CatalogInv, FilesOK, CatalogJob
  <2> QED
    BY <1>1, <2>1 DEF Keeps
<1> QED
  BY <1>2, <1>3, <1>4, <1>5 DEF CatalogInv

LEMMA FreshType ==
    ASSUME NEW b \in Batch, NEW now \in Time
    PROVE  Fresh(b, now) \in CatalogJob
BY DEF Fresh, CatalogJob, NewDocument, JobDocument, JobStatuses

LEMMA CreateDocumentStep ==
    ASSUME CatalogInv, NEW c \in Client, CreateJobDocument(c)
    PROVE  CatalogInv' /\ Keeps
<1> DEFINE j == calls[c].job
           fresh == Fresh(calls[c].batch, calls[c].now)
<1>1. /\ calls[c].op = "create" /\ calls[c].at = "job"
      /\ stored' = stored \cup {j}
      /\ jobs' = [jobs EXCEPT ![j] = fresh]
      /\ Goto(c, "member")
      /\ UNCHANGED <<batches, configs, logs>>
  BY DEF CreateJobDocument, Creating
<1>2. /\ calls[c] \in CreateCall
      /\ CallsOK' /\ Locks'
      /\ calls'[c] = [calls[c] EXCEPT !.at = "member"]
      /\ \A d \in Client \ {c} : calls'[d] = calls[d]
  BY <1>1, CreationCall
<1>3. /\ j \in Job /\ fresh \in CatalogJob
      /\ fresh.batch = calls[c].batch /\ fresh.life.status = "queued"
  BY <1>2, FreshType DEF CreateCall, Fresh, NewDocument
<1>4. j \in configs /\ j \notin stored
  BY <1>1 DEF CatalogInv, CallOK, CreationOK
<1>5. /\ jobs \in [Job -> CatalogJob] /\ stored \subseteq Job
      /\ jobs' \in [Job -> CatalogJob]
      /\ jobs'[j] = fresh
      /\ \A i \in stored : jobs'[i] = jobs[i]
  BY <1>1, <1>3, <1>4 DEF CatalogInv, FilesOK
<1> HIDE DEF fresh
<1>6. ASSUME NEW d \in Client PROVE CallOK(d)'
  <2>1. CallOK(d)
    BY DEF CatalogInv
  <2>2. CASE d = c
    BY <1>1, <1>2, <1>3, <1>5, <2>1, <2>2
       DEF CallOK, CreationOK, RewriteOK, ChangeOK, CreateCall
  <2>3. CASE d # c
    <3>1. calls'[d] = calls[d] /\ Disjoint(calls[c], calls[d])
      BY <1>2, <2>3 DEF CatalogInv, Locks
    <3>2. RewriteOK(d)'
      BY <1>1, <2>1, <3>1 DEF CallOK, RewriteOK
    <3>3. ChangeOK(d)'
      BY <1>1, <1>5, <2>1, <3>1 DEF CallOK, ChangeOK, Newer, ReadableIn
    <3>4. CreationOK(d)'
      BY <1>1, <1>5, <2>1, <3>1 DEF CallOK, CreationOK, Disjoint
    <3> QED
      BY <3>2, <3>3, <3>4 DEF CallOK
  <2> QED
    BY <2>2, <2>3
<1>7. FilesOK'
  BY <1>1, <1>3, <1>5 DEF CatalogInv, FilesOK
<1>8. MembersExist'
  BY <1>1, <1>4, <1>5 DEF CatalogInv, MembersExist
<1>9. LogIsHistory'
  <2>1. ASSUME NEW i \in Job, i # j PROVE jobs'[i] = jobs[i]
    BY <1>1, <1>5, <2>1
  <2>2. \A k \in DOMAIN logs[j] : ~ logs[j][k].readable
    BY <1>3, <1>4 DEF CatalogInv, LogIsHistory
  <2> QED
    BY <1>1, <2>1, <2>2 DEF CatalogInv, LogIsHistory
<1>10. UnchangedIsQueued'
  BY <1>1, <1>3, <1>5 DEF CatalogInv, UnchangedIsQueued
<1>11. Keeps
  <2>1. \A i \in stored : jobs[i].changes \in Nat
    BY <1>5 DEF CatalogJob
  <2> QED
    BY <1>1, <1>5, <2>1 DEF Keeps
<1> QED
  BY <1>2, <1>6, <1>7, <1>8, <1>9, <1>10, <1>11 DEF CatalogInv

LEMMA CreateMemberStep ==
    ASSUME CatalogInv, NEW c \in Client, CreateJobMember(c)
    PROVE  CatalogInv' /\ Keeps
<1> DEFINE j == calls[c].job
           b == calls[c].batch
           old == calls[c].members
           doc == [status |-> "draft", members |-> Append(old, j)]
<1>1. /\ calls[c].op = "create" /\ calls[c].at = "member"
      /\ batches' = [batches EXCEPT ![b] = doc]
      /\ Goto(c, "append")
      /\ UNCHANGED <<configs, stored, jobs, logs>>
  BY DEF CreateJobMember, Creating
<1>2. /\ calls[c] \in CreateCall
      /\ CallsOK' /\ Locks'
      /\ calls'[c] = [calls[c] EXCEPT !.at = "append"]
      /\ \A d \in Client \ {c} : calls'[d] = calls[d]
  BY <1>1, CreationCall
<1>3. j \in Job /\ b \in Batch /\ old \in Seq(Job)
  BY <1>2 DEF CreateCall
<1>4. /\ j \in stored /\ jobs[j].batch = b
      /\ old = batches[b].members /\ batches[b].status = "draft"
      /\ j \notin Entries(old)
  BY <1>1 DEF CatalogInv, CallOK, CreationOK
<1> HIDE DEF j, b, old
<1>5. doc \in BatchDocument /\ doc.members = Append(old, j) /\ doc.status = "draft"
  BY <1>3, AppendProperties DEF BatchDocument, BatchStatuses
<1>6. /\ Entries(doc.members) = Entries(old) \cup {j}
      /\ Cardinality(Entries(doc.members)) = Len(doc.members)
  BY <1>3, <1>4, <1>5, EntriesAppend, MembersAppend DEF CatalogInv, MembersExist
<1> HIDE DEF doc
<1>7. /\ batches' \in [Batch -> BatchDocument]
      /\ batches'[b] = doc
      /\ \A a \in Batch \ {b} : batches'[a] = batches[a]
  BY <1>1, <1>3, <1>5 DEF CatalogInv, FilesOK
<1>8. ASSUME NEW d \in Client PROVE CallOK(d)'
  <2>1. CASE d = c
    BY <1>1, <1>2, <1>4, <2>1
       DEF CallOK, CreationOK, RewriteOK, ChangeOK, CreateCall, j
  <2>2. CASE d # c
    <3>1. calls'[d] = calls[d] /\ OnBatch(calls[c])
      BY <1>1, <1>2, <2>2 DEF OnBatch
    <3> QED
      BY <1>1, <1>5, <2>2, <3>1, BatchWritten DEF b
  <2> QED
    BY <2>1, <2>2
<1>9. FilesOK' /\ LogIsHistory' /\ UnchangedIsQueued'
  BY <1>1, <1>7 DEF CatalogInv, FilesOK, LogIsHistory, UnchangedIsQueued
<1>10. MembersExist'
  <2>1. /\ stored' \subseteq configs'
        /\ stored' = stored /\ jobs' = jobs
    BY <1>1 DEF CatalogInv, MembersExist
  <2>2. ASSUME NEW a \in Batch
        PROVE  /\ Entries(batches'[a].members) \subseteq {i \in stored : jobs[i].batch = a}
               /\ Cardinality(Entries(batches'[a].members)) = Len(batches'[a].members)
    <3>1. /\ Entries(batches[a].members) \subseteq {i \in stored : jobs[i].batch = a}
          /\ Cardinality(Entries(batches[a].members)) = Len(batches[a].members)
      BY DEF CatalogInv, MembersExist
    <3>2. CASE a = b
      BY <1>4, <1>6, <1>7, <3>1, <3>2
    <3>3. CASE a # b
      BY <1>7, <3>1, <3>3
    <3> QED
      BY <3>2, <3>3
  <2> QED
    BY <2>1, <2>2 DEF MembersExist
<1>11. Keeps
  <2>1. \A i \in stored : jobs[i].changes \in Nat
    BY DEF CatalogInv, FilesOK, CatalogJob
  <2>2. \A a \in Batch : Entries(batches[a].members) \subseteq Entries(batches'[a].members)
    BY <1>3, <1>4, <1>6, <1>7
  <2>3. \A a \in Batch : batches[a].status \notin {"none", "draft"} => batches'[a] = batches[a]
    BY <1>3, <1>4, <1>7
  <2> QED
    BY <1>1, <2>1, <2>2, <2>3 DEF Keeps
<1> QED
  BY <1>2, <1>8, <1>9, <1>10, <1>11 DEF CatalogInv

-----------------------------------------------------------------------------
(* Writes of a job document and of its log.                                *)

LEMMA ChangeWritesStep ==
    ASSUME CatalogInv, NEW c \in Client, ChangeWrites(c)
    PROVE  CatalogInv' /\ Keeps
<1> DEFINE j == calls[c].job
           next == calls[c].next
           logged == calls[c].logged
           event == calls[c].event
           call == IF logged THEN [calls[c] EXCEPT !.at = "append"] ELSE NoCall
<1>1. /\ calls[c].op = "change" /\ calls[c].at = "write"
      /\ jobs' = [jobs EXCEPT ![j] = next]
      /\ calls' = [calls EXCEPT ![c] = call]
      /\ UNCHANGED <<batches, configs, stored, logs>>
  BY DEF ChangeWrites, Changing, Goto, Return, Call
<1>2. calls[c] \in ChangeCall
  BY <1>1, CallKinds DEF CatalogInv, CallsOK
<1>3. /\ j \in Job /\ next \in CatalogJob /\ logged \in BOOLEAN /\ event \in Event
  BY <1>2 DEF ChangeCall
<1>4. /\ j \in stored
      /\ next.batch = jobs[j].batch /\ next.createdAt = jobs[j].createdAt
      /\ jobs[j].execution => next.execution
      /\ jobs[j].life.result => next.life.result
      /\ logged => /\ next.changes = jobs[j].changes + 1
                   /\ event.change = next.changes
                   /\ event.to = next.life.status
                   /\ event.kind # "created"
      /\ ~ logged => next.changes = jobs[j].changes /\ next.life = jobs[j].life
  BY <1>1 DEF CatalogInv, CallOK, ChangeOK
<1>5. /\ call \in CallSet
      /\ logged => /\ call.op = "change" /\ call.at = "append"
                   /\ call.job = j /\ call.event = event
      /\ ~ logged => call.op = "none"
  BY <1>2, <1>3 DEF CallSet, ChangeCall, NoCall
<1> HIDE DEF call
<1>6. /\ CallsOK' /\ Locks'
      /\ calls'[c] = call
      /\ \A d \in Client \ {c} : calls'[d] = calls[d]
  <2>1. \A d \in Client \ {c} : Disjoint(call, calls[d])
    BY <1>1, <1>5, LocksGoOn DEF CatalogInv, OnBatch
  <2> QED
    BY <1>1, <1>5, <2>1, LocksStep, OtherCalls DEF CatalogInv
<1> HIDE DEF j, next, logged, event
<1>7. /\ \A i \in Job : jobs[i] \in CatalogJob /\ jobs[i].changes \in Nat
      /\ jobs' \in [Job -> CatalogJob]
      /\ jobs'[j] = next
      /\ \A i \in Job \ {j} : jobs'[i] = jobs[i]
      /\ stored \subseteq Job
  BY <1>1, <1>3 DEF CatalogInv, FilesOK, CatalogJob
<1>8. ASSUME NEW i \in ReadableIn(logs[j])
      PROVE  /\ logs[j][i].event.change \in Nat
             /\ logs[j][i].event.change <= jobs[j].changes
             /\ logs[j][i].event.change = jobs[j].changes
                   => logs[j][i].event.to = jobs[j].life.status
  <2>1. logs[j] \in Seq(Line) /\ i \in DOMAIN logs[j]
    BY <1>3 DEF CatalogInv, FilesOK, ReadableIn
  <2>2. logs[j][i] \in Line
    BY <2>1, LenProperties
  <2> QED
    BY <1>3, <2>2 DEF CatalogInv, LogIsHistory, ReadableIn, Line, Event
<1>9. ASSUME NEW d \in Client PROVE CallOK(d)'
  <2>1. CallOK(d)
    BY DEF CatalogInv
  <2>2. CASE d = c
    <3>1. CASE ~ logged
      BY <1>5, <1>6, <2>2, <3>1, NothingToKnowNext
    <3>2. CASE logged
      <4>1. /\ event.change = jobs'[j].changes
            /\ event.to = jobs'[j].life.status
            /\ event.change > 0
        BY <1>3, <1>4, <1>7, <3>2
      <4>2. Newer(event, logs'[j])
        BY <1>1, <1>3, <1>4, <1>7, <1>8, <3>2 DEF Newer, ReadableIn
      <4> QED
        BY <1>1, <1>4, <1>5, <1>6, <2>2, <3>2, <4>1, <4>2
           DEF CallOK, CreationOK, RewriteOK, ChangeOK
    <3> QED
      BY <3>1, <3>2
  <2>3. CASE d # c
    <3>1. calls'[d] = calls[d] /\ Disjoint(calls[c], calls[d]) /\ calls[d] \in CallSet
      BY <1>6, <2>3 DEF CatalogInv, Locks, CallsOK
    <3>2. RewriteOK(d)'
      BY <1>1, <2>1, <3>1 DEF CallOK, RewriteOK
    <3>3. calls[d].op = "change" => calls[d].job # j /\ calls[d].job \in Job
      BY <1>1, <3>1, CallKinds DEF Disjoint, ChangeCall, j
    <3>4. ChangeOK(d)'
      BY <1>1, <1>7, <2>1, <3>1, <3>3 DEF CallOK, ChangeOK, Newer, ReadableIn
    <3>5. \A i \in stored : jobs'[i].batch = jobs[i].batch
      BY <1>4, <1>7
    <3>6. CreationOK(d)'
      BY <1>1, <2>1, <3>1, <3>5 DEF CallOK, CreationOK
    <3> QED
      BY <3>2, <3>4, <3>6 DEF CallOK
  <2> QED
    BY <2>2, <2>3
<1>10. FilesOK'
  BY <1>1, <1>7 DEF CatalogInv, FilesOK
<1>11. MembersExist'
  <2>1. \A i \in stored : jobs'[i].batch = jobs[i].batch
    BY <1>4, <1>7
  <2> QED
    BY <1>1, <2>1 DEF CatalogInv, MembersExist
<1>12. LogIsHistory'
  <2>1. ASSUME NEW i \in ReadableIn(logs[j])
        PROVE  /\ logs[j][i].event.change <= jobs'[j].changes
               /\ logs[j][i].event.change = jobs'[j].changes
                     => logs[j][i].event.to = jobs'[j].life.status
    BY <1>3, <1>4, <1>7, <1>8
  <2> QED
    BY <1>1, <1>7, <2>1 DEF CatalogInv, LogIsHistory, ReadableIn
<1>13. UnchangedIsQueued'
  <2>1. next.changes = 0 => next.life.status = "queued"
    BY <1>3, <1>4, <1>7 DEF CatalogInv, UnchangedIsQueued
  <2> QED
    BY <1>1, <1>7, <2>1 DEF CatalogInv, UnchangedIsQueued
<1>14. Keeps
  BY <1>1, <1>3, <1>4, <1>7 DEF Keeps
<1> QED
  BY <1>6, <1>9, <1>10, <1>11, <1>12, <1>13, <1>14 DEF CatalogInv

(* The line a call is about to append tells of a change its document went  *)
(* through; unless it tells of the creation, it is newer than every line.  *)
LEMMA AppendFacts ==
    ASSUME CatalogInv, NEW c \in Client, Appending(c)
    PROVE  /\ calls[c].job \in stored /\ calls[c].job \in Job
           /\ EventOf(c) \in Event
           /\ EventOf(c).change <= jobs[calls[c].job].changes
           /\ EventOf(c).change = jobs[calls[c].job].changes
                 => EventOf(c).to = jobs[calls[c].job].life.status
           /\ EventOf(c).kind # "created" => Newer(EventOf(c), logs[calls[c].job])
           /\ calls[c].op = "create" => EventOf(c).change = 0
<1> DEFINE j == calls[c].job
<1>1. CallOK(c) /\ calls[c] \in CallSet
  BY DEF CatalogInv, CallsOK
<1>2. stored \subseteq Job /\ \A i \in Job : jobs[i].changes \in Nat
  BY DEF CatalogInv, FilesOK, CatalogJob
<1>3. CASE Creating(c, "append")
  <2>1. /\ j \in stored /\ EventOf(c) = CreatedEvent
        /\ calls[c].op = "create"
    BY <1>1, <1>3 DEF CallOK, CreationOK, Creating, EventOf
  <2>2. CreatedEvent \in Event /\ CreatedEvent.change = 0
        /\ CreatedEvent.to = "queued" /\ CreatedEvent.kind = "created"
    BY DEF CreatedEvent, Event, Kinds, JobStatuses
  <2>3. jobs[j].changes = 0 => jobs[j].life.status = "queued"
    BY <2>1 DEF CatalogInv, UnchangedIsQueued
  <2> QED
    BY <1>2, <2>1, <2>2, <2>3
<1>4. CASE Changing(c, "append")
  <2>1. /\ calls[c] \in ChangeCall /\ EventOf(c) = calls[c].event
        /\ calls[c].op = "change"
    BY <1>1, <1>4, CallKinds DEF Changing, EventOf
  <2>2. EventOf(c) \in Event
    BY <2>1 DEF ChangeCall
  <2>3. /\ j \in stored
        /\ EventOf(c).change = jobs[j].changes
        /\ EventOf(c).to = jobs[j].life.status
        /\ Newer(EventOf(c), logs[j])
    BY <1>1, <1>4, <2>1 DEF CallOK, ChangeOK, Changing
  <2> QED
    BY <1>2, <2>1, <2>2, <2>3
<1> QED
  BY <1>3, <1>4 DEF Appending

(* An append, whole or cut short, leaves every log a history, and what the *)
(* other calls are about to append as new as it was.                       *)
LEMMA LogStep ==
    ASSUME CatalogInv, NEW c \in Client, Appending(c), NEW new,
           Extends(new, logs[calls[c].job], EventOf(c)),
           logs' = [logs EXCEPT ![calls[c].job] = new],
           UNCHANGED <<jobs, stored>>
    PROVE  /\ logs' \in [Job -> Seq(Line)]
           /\ LogIsHistory'
           /\ \A d \in Client \ {c} :
                calls[d].op = "change" /\ calls[d].at = "append"
                   => Newer(calls[d].event, logs'[calls[d].job])
<1> DEFINE j == calls[c].job
           e == EventOf(c)
           old == logs[j]
<1>1. /\ j \in stored /\ j \in Job /\ e \in Event
      /\ e.change <= jobs[j].changes
      /\ e.change = jobs[j].changes => e.to = jobs[j].life.status
      /\ e.kind # "created" => Newer(e, old)
      /\ calls[c].op = "create" => e.change = 0
  BY AppendFacts
<1>2. /\ new \in Seq(Line)
      /\ \A i \in ReadableIn(new) :
            \/ i \in ReadableIn(old) /\ new[i].event = old[i].event
            \/ i = Len(old) + 1 /\ new[i].event = e
  BY DEF Extends
<1>3. logs \in [Job -> Seq(Line)]
  BY DEF CatalogInv, FilesOK
<1>4. /\ logs' \in [Job -> Seq(Line)]
      /\ logs'[j] = new
      /\ \A i \in Job \ {j} : logs'[i] = logs[i]
  BY <1>1, <1>2, <1>3
<1>5. /\ \A i \in ReadableIn(old) : i \in 1..Len(old)
      /\ Len(old) \in Nat
  BY <1>1, <1>3, LenProperties DEF ReadableIn
<1>6. /\ \A i \in ReadableIn(old) : old[i].event.change <= jobs[j].changes
      /\ \A i \in ReadableIn(old) : old[i].event.change = jobs[j].changes
               => old[i].event.to = jobs[j].life.status
      /\ \A i, k \in ReadableIn(old) : i < k /\ old[k].event.kind # "created"
               => old[i].event.change < old[k].event.change
  BY <1>1 DEF CatalogInv, LogIsHistory, ReadableIn
<1> HIDE DEF j, e, old
<1>7. /\ \A i \in ReadableIn(new) : new[i].event.change <= jobs[j].changes
      /\ \A i \in ReadableIn(new) : new[i].event.change = jobs[j].changes
               => new[i].event.to = jobs[j].life.status
  BY <1>1, <1>2, <1>6
<1>8. ASSUME NEW i \in ReadableIn(new), NEW k \in ReadableIn(new), i < k,
             new[k].event.kind # "created"
      PROVE  new[i].event.change < new[k].event.change
  <2>1. i \in ReadableIn(old) /\ new[i].event = old[i].event
    BY <1>2, <1>5, <1>8
  <2>2. CASE k \in ReadableIn(old) /\ new[k].event = old[k].event
    BY <1>6, <1>8, <2>1, <2>2
  <2>3. CASE k = Len(old) + 1 /\ new[k].event = e
    BY <1>1, <1>8, <2>1, <2>3 DEF Newer
  <2> QED
    BY <1>2, <2>2, <2>3
<1>9. LogIsHistory'
  <2>1. ASSUME NEW a \in Job, a # j PROVE logs'[a] = logs[a]
    BY <1>4, <2>1
  <2> QED
    BY <1>1, <1>4, <1>7, <1>8, <2>1 DEF CatalogInv, LogIsHistory, ReadableIn
<1>10. ASSUME NEW d \in Client \ {c}, calls[d].op = "change", calls[d].at = "append"
       PROVE  Newer(calls[d].event, logs'[calls[d].job])
  <2>1. /\ calls[d] \in ChangeCall
        /\ Newer(calls[d].event, logs[calls[d].job])
        /\ calls[d].event.change > 0
    BY <1>10, CallKinds DEF CatalogInv, CallsOK, CallOK, ChangeOK
  <2>2. CASE calls[d].job # j
    BY <1>4, <2>1, <2>2 DEF ChangeCall
  <2>3. CASE calls[d].job = j
    <3>1. e.change = 0
      BY <1>1, <1>10, <2>3 DEF CatalogInv, Locks, Disjoint, Appending, Creating, Changing, j
    <3>2. \A i \in ReadableIn(new) : new[i].event.change < calls[d].event.change
      BY <1>2, <2>1, <2>3, <3>1 DEF Newer, old
    <3> QED
      BY <1>4, <2>3, <3>2 DEF Newer
  <2> QED
    BY <2>2, <2>3
<1> QED
  BY <1>4, <1>9, <1>10

(* A step that ends one call or all of them, and may write to one log for  *)
(* a call that ends.                                                       *)
LEMMA CallsEnd ==
    ASSUME CatalogInv, CallsOK', Locks',
           UNCHANGED <<batches, configs, stored, jobs>>,
           logs' \in [Job -> Seq(Line)], LogIsHistory',
           \A d \in Client :
              \/ calls'[d] = NoCall
              \/ /\ calls'[d] = calls[d]
                 /\ calls[d].op = "change" /\ calls[d].at = "append"
                       => Newer(calls[d].event, logs'[calls[d].job])
    PROVE  CatalogInv' /\ Keeps
<1>1. ASSUME NEW d \in Client PROVE CallOK(d)'
  <2>1. CASE calls'[d] = NoCall
    BY <2>1, NothingToKnowNext DEF NoCall
  <2>2. CASE calls'[d] # NoCall
    <3>1. /\ calls'[d] = calls[d] /\ CallOK(d)
          /\ calls[d].op = "change" /\ calls[d].at = "append"
                => Newer(calls[d].event, logs'[calls[d].job])
      BY <2>2 DEF CatalogInv
    <3>2. CreationOK(d)' /\ RewriteOK(d)'
      BY <3>1 DEF CallOK, CreationOK, RewriteOK
    <3>3. ChangeOK(d)'
      BY <3>1 DEF CallOK, ChangeOK
    <3> QED
      BY <3>2, <3>3 DEF CallOK
  <2> QED
    BY <2>1, <2>2
<1>2. FilesOK' /\ MembersExist' /\ UnchangedIsQueued'
  BY DEF CatalogInv, FilesOK, MembersExist, UnchangedIsQueued
<1>3. Keeps
  <2>1. \A j \in stored : jobs[j].changes \in Nat
    BY DEF CatalogInv, FilesOK, CatalogJob
  <2> QED
    BY <2>1 DEF Keeps
<1> QED
  BY <1>1, <1>2, <1>3 DEF CatalogInv

LEMMA ReturnLocks ==
    ASSUME CatalogInv, NEW c \in Client, Return(c)
    PROVE  /\ CallsOK' /\ Locks'
           /\ calls'[c] = NoCall
           /\ \A d \in Client \ {c} : calls'[d] = calls[d]
<1>1. NoCall \in CallSet /\ NoCall.op = "none"
  BY DEF CallSet, NoCall
<1>2. calls' = [calls EXCEPT ![c] = NoCall]
  BY DEF Return, Call
<1> QED
  BY <1>1, <1>2, LocksStep, LocksGoOn, OtherCalls DEF CatalogInv

LEMMA AppendsStep ==
    ASSUME CatalogInv, NEW c \in Client, CreateJobAppends(c) \/ ChangeAppends(c)
    PROVE  CatalogInv' /\ Keeps
<1> DEFINE j == calls[c].job
           new == Appended(logs[j], EventOf(c))
<1>1. /\ Appending(c) /\ Return(c)
      /\ logs' = [logs EXCEPT ![j] = new]
      /\ UNCHANGED <<batches, configs, stored, jobs>>
  BY DEF CreateJobAppends, ChangeAppends, Appending, Creating, Changing, EventOf
<1>2. EventOf(c) \in Event /\ logs[j] \in Seq(Line)
  BY <1>1, AppendFacts DEF CatalogInv, FilesOK
<1>3. Extends(new, logs[j], EventOf(c))
  BY <1>2, AppendedExtends
<1> HIDE DEF new
<1>4. /\ logs' \in [Job -> Seq(Line)]
      /\ LogIsHistory'
      /\ \A d \in Client \ {c} : calls[d].op = "change" /\ calls[d].at = "append"
                                    => Newer(calls[d].event, logs'[calls[d].job])
  BY <1>1, <1>3, LogStep
<1> QED
  BY <1>1, <1>4, ReturnLocks, CallsEnd

(* What a call that fails or dies may leave in a log.                      *)
LEMMA CutShortStep ==
    ASSUME CatalogInv, NEW cut \in SUBSET Client, CutShort(cut), UNCHANGED <<stored, jobs>>
    PROVE  /\ logs' \in [Job -> Seq(Line)]
           /\ LogIsHistory'
           /\ \A d \in Client \ cut :
                calls[d].op = "change" /\ calls[d].at = "append"
                   => Newer(calls[d].event, logs'[calls[d].job])
<1>1. CASE UNCHANGED logs
  <2>1. logs' \in [Job -> Seq(Line)] /\ LogIsHistory'
    BY <1>1 DEF CatalogInv, FilesOK, LogIsHistory
  <2>2. \A d \in Client : calls[d].op = "change" /\ calls[d].at = "append"
                             => Newer(calls[d].event, logs'[calls[d].job])
    BY <1>1 DEF CatalogInv, CallOK, ChangeOK
  <2> QED
    BY <2>1, <2>2
<1>2. CASE \E c \in cut, readable \in BOOLEAN :
              /\ Appending(c)
              /\ logs' = [logs EXCEPT ![calls[c].job] = Torn(@, EventOf(c), readable)]
  <2>1. PICK c \in cut, readable \in BOOLEAN :
              /\ Appending(c)
              /\ logs' = [logs EXCEPT ![calls[c].job]
                                = Torn(logs[calls[c].job], EventOf(c), readable)]
    BY <1>2
  <2> DEFINE j == calls[c].job
             new == Torn(logs[j], EventOf(c), readable)
  <2>2. c \in Client /\ EventOf(c) \in Event /\ logs[j] \in Seq(Line)
    BY <2>1, AppendFacts DEF CatalogInv, FilesOK
  <2>3. Extends(new, logs[j], EventOf(c))
    BY <2>2, TornExtends
  <2>4. logs' = [logs EXCEPT ![j] = new]
    BY <2>1
  <2> HIDE DEF new
  <2> QED
    BY <2>1, <2>2, <2>3, <2>4, LogStep
<1> QED
  BY <1>1, <1>2 DEF CutShort

LEMMA ThrowsStep ==
    ASSUME CatalogInv, NEW c \in Client, Throws(c)
    PROVE  CatalogInv' /\ Keeps
<1>1. /\ CutShort({c}) /\ Return(c)
      /\ UNCHANGED <<batches, configs, stored, jobs>>
  BY DEF Throws
<1>2. /\ CallsOK' /\ Locks'
      /\ calls'[c] = NoCall
      /\ \A d \in Client \ {c} : calls'[d] = calls[d]
  BY <1>1, ReturnLocks
<1>3. /\ logs' \in [Job -> Seq(Line)] /\ LogIsHistory'
      /\ \A d \in Client \ {c} :
           calls[d].op = "change" /\ calls[d].at = "append"
              => Newer(calls[d].event, logs'[calls[d].job])
  BY <1>1, CutShortStep
<1> QED
  BY <1>1, <1>2, <1>3, CallsEnd

LEMMA CrashStep ==
    ASSUME CatalogInv, Crash
    PROVE  CatalogInv' /\ Keeps
<1>1. /\ CutShort(Client) /\ calls' = [c \in Client |-> NoCall]
      /\ UNCHANGED <<batches, configs, stored, jobs>>
  BY DEF Crash
<1>2. logs' \in [Job -> Seq(Line)] /\ LogIsHistory'
  BY <1>1, CutShortStep
<1>3. CallsOK' /\ Locks'
  BY <1>1 DEF CallsOK, CallSet, Locks, Disjoint, OnBatch, NoCall
<1> QED
  BY <1>1, <1>2, <1>3, CallsEnd

(* Steps that touch neither a document nor a call.                         *)
LEMMA NothingWritten ==
    ASSUME CatalogInv, UNCHANGED <<batches, configs, stored, jobs, logs, calls>>
    PROVE  CatalogInv' /\ Keeps
<1>1. CallsOK' /\ Locks'
  BY DEF CatalogInv, CallsOK, Locks, Disjoint, OnBatch
<1>2. logs' \in [Job -> Seq(Line)] /\ LogIsHistory'
  BY DEF CatalogInv, FilesOK, LogIsHistory
<1>3. \A d \in Client : calls[d].op = "change" /\ calls[d].at = "append"
                           => Newer(calls[d].event, logs'[calls[d].job])
  BY DEF CatalogInv, CallOK, ChangeOK
<1> QED
  BY <1>1, <1>2, <1>3, CallsEnd

LEMMA SaveStep ==
    ASSUME CatalogInv, NEW c \in Client, SaveChecks(c) \/ SaveWrites(c)
    PROVE  CatalogInv' /\ Keeps
<1>1. CASE SaveChecks(c)
  <2> DEFINE call == [op |-> "save"]
  <2>1. call \in CallSet /\ call.op = "save"
    BY DEF CallSet, SaveCall
  <2>2. calls' = [calls EXCEPT ![c] = call] /\ UNCHANGED files
    BY <1>1 DEF SaveChecks, Call, Asked
  <2>3. \A d \in Client \ {c} : Disjoint(call, calls[d])
    BY DEF Disjoint, OnBatch
  <2> HIDE DEF call
  <2>4. CallOK(c)'
    BY <2>1, <2>2, OtherCalls, NothingToKnowNext DEF CatalogInv
  <2> QED
    BY <2>1, <2>2, <2>3, <2>4, CallOnly DEF files
<1>2. CASE SaveWrites(c)
  <2>1. Return(c) /\ UNCHANGED <<batches, configs, stored, jobs, logs>>
    BY <1>2 DEF SaveWrites
  <2>2. logs' \in [Job -> Seq(Line)] /\ LogIsHistory'
    BY <2>1 DEF CatalogInv, FilesOK, LogIsHistory
  <2>3. \A d \in Client : calls[d].op = "change" /\ calls[d].at = "append"
                             => Newer(calls[d].event, logs'[calls[d].job])
    BY <2>1 DEF CatalogInv, CallOK, ChangeOK
  <2> QED
    BY <2>1, <2>2, <2>3, ReturnLocks, CallsEnd
<1> QED
  BY <1>1, <1>2

-----------------------------------------------------------------------------
(* The invariant.                                                          *)

LEMMA OrdersAreSequences ==
    ASSUME NEW proposed \in Orders
    PROVE  proposed \in Seq(Job)
<1>1. PICK n \in 0..Cardinality(Job) : proposed \in [1..n -> Job]
  BY DEF Orders
<1>2. n \in Nat
  BY <1>1
<1> QED
  BY <1>1, <1>2, SeqDef

LEMMA InitCatalogInv == Init => CatalogInv
<1> SUFFICES ASSUME Init PROVE CatalogInv
  OBVIOUS
<1> DEFINE none == [status |-> "none", members |-> <<>>]
           fresh == Fresh(CHOOSE b \in Batch : TRUE, CHOOSE t \in Time : TRUE)
<1>1. /\ batches = [b \in Batch |-> none]
      /\ configs = {} /\ stored = {}
      /\ jobs = [j \in Job |-> fresh]
      /\ logs = [j \in Job |-> <<>>]
      /\ calls = [c \in Client |-> NoCall]
  BY DEF Init
<1>2. none \in BatchDocument /\ Entries(none.members) = {} /\ Len(none.members) = 0
  BY DEF BatchDocument, Entries
<1>3. fresh \in CatalogJob
  BY CatalogConstants, FreshType
<1> HIDE DEF none, fresh
<1>4. FilesOK
  BY <1>1, <1>2, <1>3 DEF FilesOK
<1>5. CallsOK /\ Locks
  BY <1>1 DEF CallsOK, CallSet, Locks, Disjoint, OnBatch, NoCall
<1>6. \A c \in Client : CallOK(c)
  BY <1>1, NothingToKnow DEF NoCall
<1>7. MembersExist
  BY <1>1, <1>2, FS_EmptySet DEF MembersExist
<1>8. LogIsHistory /\ UnchangedIsQueued
  BY <1>1 DEF LogIsHistory, UnchangedIsQueued
<1> QED
  BY <1>4, <1>5, <1>6, <1>7, <1>8 DEF CatalogInv

LEMMA BatchStepKeeps ==
    ASSUME CatalogInv, NEW c \in Client, NEW b \in Batch, BatchStep(c, b)
    PROVE  CatalogInv' /\ Keeps
<1>1. ASSUME NEW action \in BatchActions, BatchActionReads(c, b, action)
      PROVE  CatalogInv' /\ Keeps
  BY <1>1, BeginBatchAction
<1>2. ASSUME NEW proposed \in Orders, ReorderReads(c, b, proposed)
      PROVE  CatalogInv' /\ Keeps
  BY <1>2, OrdersAreSequences, BeginReorder
<1>3. ASSUME NEW j \in Job, NEW now \in Time, CreateJobReads(c, b, j, now)
      PROVE  CatalogInv' /\ Keeps
  BY <1>3, BeginCreation
<1> QED
  BY <1>1, <1>2, <1>3 DEF BatchStep

LEMMA ChangeStepKeeps ==
    ASSUME CatalogInv, NEW c \in Client, NEW j \in Job, ChangeStep(c, j)
    PROVE  CatalogInv' /\ Keeps
<1>1. ASSUME NEW action \in Actions, ApplyJobAction(c, j, action)
      PROVE  CatalogInv' /\ Keeps
  BY <1>1, BeginAction DEF ApplyJobAction
<1>2. CASE SetJobAnnotations(c, j) \/ AttachJobResult(c, j) \/ SetJobExecution(c, j)
  BY <1>2, BeginOther
<1>3. CASE Recover(c, j)
  BY <1>3, BeginAction DEF Recover
<1> QED
  BY <1>1, <1>2, <1>3 DEF ChangeStep

LEMMA CallStepKeeps ==
    ASSUME CatalogInv, NEW c \in Client, CallStep(c)
    PROVE  CatalogInv' /\ Keeps
BY RewriteStep, CreateConfigStep, CreateDocumentStep, CreateMemberStep, AppendsStep,
   ChangeWritesStep, SaveStep, ThrowsStep DEF CallStep

LEMMA NextKeeps ==
    ASSUME CatalogInv, [Next]_vars
    PROVE  CatalogInv' /\ (Keeps \/ UNCHANGED vars)
<1>1. ASSUME NEW b \in Batch, CreateBatch(b) PROVE CatalogInv' /\ Keeps
  BY <1>1, CreateBatchStep
<1>2. ASSUME NEW c \in Client, CallStep(c) PROVE CatalogInv' /\ Keeps
  BY <1>2, CallStepKeeps
<1>3. ASSUME NEW c \in Client, NEW b \in Batch, BatchStep(c, b) PROVE CatalogInv' /\ Keeps
  BY <1>3, BatchStepKeeps
<1>4. ASSUME NEW c \in Client, NEW j \in Job, ChangeStep(c, j) PROVE CatalogInv' /\ Keeps
  BY <1>4, ChangeStepKeeps
<1>5. CASE OpenTraversal \/ ListPage \/ Restart \/ Opened
  <2>1. UNCHANGED <<batches, configs, stored, jobs, logs, calls>>
    BY <1>5 DEF OpenTraversal, ListPage, Restart, Opened, files
  <2> QED
    BY <2>1, NothingWritten
<1>6. CASE Crash
  BY <1>6, CrashStep
<1>7. CASE UNCHANGED vars
  BY <1>7, NothingWritten DEF vars
<1> QED
  BY <1>1, <1>2, <1>3, <1>4, <1>5, <1>6, <1>7 DEF Next

LEMMA CatalogInvariant == Spec => []CatalogInv
<1>1. CatalogInv /\ [Next]_vars => CatalogInv'
  BY NextKeeps
<1> QED
  BY <1>1, InitCatalogInv, PTL DEF Spec

(* A batch lists only jobs that are there, are its own, and each once, and *)
(* every job has its configuration, whatever fails or dies between two of  *)
(* createJob's writes.                                                     *)
THEOREM ListedJobsExist == Spec => []MembersExist
<1>1. CatalogInv => MembersExist
  BY DEF CatalogInv
<1> QED
  BY <1>1, CatalogInvariant, PTL

(* A job's log is never ahead of its document and never out of order: the  *)
(* document is written first and the line appended under the same lock.    *)
THEOREM LogFollowsDocument == Spec => []LogIsHistory
<1>1. CatalogInv => LogIsHistory
  BY DEF CatalogInv
<1> QED
  BY <1>1, CatalogInvariant, PTL

(* No caller's read-modify-write undoes another's: KeyedMutex is taken for *)
(* the document that is written, from its reading to its writing.          *)
THEOREM UpdatesAreKept == Spec => NothingUndone
<1>1. CatalogInv /\ [Next]_vars => [Keeps]_vars
  BY NextKeeps
<1>2. [Keeps]_vars =>
        [/\ \A b \in Batch :
              /\ Entries(batches[b].members) \subseteq Entries(batches'[b].members)
              /\ batches[b].status \notin {"none", "draft"} =>
                   batches'[b].members = batches[b].members /\ batches'[b].status # "draft"
         /\ \A j \in stored :
              /\ j \in stored'
              /\ jobs[j].execution => jobs'[j].execution
              /\ jobs[j].life.result => jobs'[j].life.result
              /\ jobs[j].changes <= jobs'[j].changes]_vars
  BY DEF Keeps
<1> QED
  BY <1>1, <1>2, CatalogInvariant, PTL DEF Spec, NothingUndone

-----------------------------------------------------------------------------
(* The logs: what a log misses is what somebody is about to append.        *)

(* A log that no failure left a gap in ends all its lines and misses only  *)
(* what a caller is about to append.                                       *)
AllEnded(log) == \A i \in DOMAIN log : log[i].ended
SaidOrOwed(j, n) == n \in Readable(j) \/ \E c \in Owing(j) : EventOf(c).change = n

Complete(j) ==
    gaps[j] = 0 => /\ AllEnded(logs[j])
                   /\ j \in stored => \A n \in 0..jobs[j].changes : SaidOrOwed(j, n)

CompleteInv == gaps \in [Job -> Nat] /\ \A j \in Job : Complete(j)

LEMMA AtMostOneIsFinite ==
    ASSUME NEW S, \A x, y \in S : x = y
    PROVE  IsFiniteSet(S)
<1>1. CASE S = {}
  BY <1>1, FS_EmptySet
<1>2. CASE S # {}
  <2>1. PICK x \in S : TRUE
    BY <1>2
  <2>2. S = {x}
    BY <2>1
  <2> QED
    BY <2>2, FS_Singleton
<1> QED
  BY <1>1, <1>2

(* At most one creation and one change are under way of one job.           *)
LEMMA OwingFinite ==
    ASSUME CatalogInv, NEW j \in Job
    PROVE  IsFiniteSet(Owing(j))
<1> DEFINE creators == {c \in Client : calls[c].op = "create" /\ calls[c].job = j}
           changers == {c \in Client : calls[c].op = "change" /\ calls[c].job = j}
<1>1. /\ \A c, d \in creators : c = d
      /\ \A c, d \in changers : c = d
  BY DEF CatalogInv, Locks, Disjoint
<1>2. Owing(j) \subseteq creators \cup changers
  BY DEF Owing, Creating, Changing
<1> HIDE DEF creators, changers
<1>3. IsFiniteSet(creators) /\ IsFiniteSet(changers)
  BY <1>1, AtMostOneIsFinite
<1>4. IsFiniteSet(creators \cup changers)
  BY <1>3, FS_Union
<1> QED
  BY <1>2, <1>4, FS_Subset

LEMMA ReadableChanges ==
    ASSUME NEW j
    PROVE  Readable(j) = {logs[j][i].event.change : i \in ReadableIn(logs[j])}
BY DEF Readable, ReadableIn

(* Appending to a log whose lines all end adds a line that can be read.    *)
LEMMA AppendedIsWhole ==
    ASSUME NEW log \in Seq(Line), AllEnded(log), NEW event \in Event
    PROVE  /\ AllEnded(Appended(log, event))
           /\ \A i \in ReadableIn(log) : /\ i \in ReadableIn(Appended(log, event))
                                         /\ Appended(log, event)[i] = log[i]
           /\ \E i \in ReadableIn(Appended(log, event)) : Appended(log, event)[i].event = event
<1> DEFINE line == NewLine(event)
           new == Append(log, line)
<1>1. /\ DOMAIN log = 1..Len(log) /\ Len(log) \in Nat
      /\ DOMAIN new = 1..(Len(log) + 1)
      /\ \A i \in 1..Len(log) : new[i] = log[i]
      /\ new[Len(log) + 1] = line
  BY LenProperties, AppendProperties
<1>2. log # <<>> => Len(log) \in DOMAIN log
  BY <1>1
<1>3. Appended(log, event) = new
  BY <1>2 DEF Appended, AllEnded
<1>4. line.readable /\ line.ended /\ line.event = event
  BY DEF NewLine
<1> HIDE DEF line, new
<1>5. AllEnded(new)
  BY <1>1, <1>4 DEF AllEnded
<1>6. \A i \in ReadableIn(log) : i \in ReadableIn(new) /\ new[i] = log[i]
  BY <1>1 DEF ReadableIn
<1>7. Len(log) + 1 \in ReadableIn(new) /\ new[Len(log) + 1].event = event
  BY <1>1, <1>4 DEF ReadableIn
<1> QED
  BY <1>3, <1>5, <1>6, <1>7

(* A caller that goes on as it was owes what it owed.                      *)
LEMMA SameDebt ==
    ASSUME NEW c \in Client, NEW j \in Job, calls'[c] = calls[c]
    PROVE  /\ (c \in Owing(j))' <=> c \in Owing(j)
           /\ EventOf(c)' = EventOf(c)
BY DEF Owing, EventOf, Creating, Changing

(* A log nobody writes to, of a job that does not change, is as complete   *)
(* as it was if whoever owed it a line still does.                         *)
LEMMA StillComplete ==
    ASSUME NEW j \in Job, Complete(j),
           gaps'[j] = 0 => gaps[j] = 0 /\ logs'[j] = logs[j],
           j \in stored' => j \in stored /\ jobs'[j].changes = jobs[j].changes,
           gaps'[j] = 0 => \A d \in Owing(j) : (d \in Owing(j))' /\ EventOf(d)' = EventOf(d)
    PROVE  Complete(j)'
<1> SUFFICES ASSUME gaps'[j] = 0
             PROVE  /\ AllEnded(logs'[j])
                    /\ j \in stored' => \A n \in 0..jobs'[j].changes : SaidOrOwed(j, n)'
  BY DEF Complete, AllEnded
<1>1. /\ gaps[j] = 0 /\ logs'[j] = logs[j]
      /\ \A d \in Owing(j) : (d \in Owing(j))' /\ EventOf(d)' = EventOf(d)
  OBVIOUS
<1>2. Readable(j)' = Readable(j)
  BY <1>1 DEF Readable
<1>3. \A n : SaidOrOwed(j, n) => SaidOrOwed(j, n)'
  BY <1>1, <1>2 DEF SaidOrOwed
<1> QED
  BY <1>1, <1>3 DEF Complete

(* A step of a call that writes neither a log nor a document of a job.     *)
LEMMA QuietStep ==
    ASSUME CatalogInv, CompleteInv, UNCHANGED <<logs, gaps, stored, jobs>>,
           NEW c \in Client, NEW call, calls' = [calls EXCEPT ![c] = call],
           \A j \in Job : c \in Owing(j) => (c \in Owing(j))' /\ EventOf(c)' = EventOf(c)
    PROVE  CompleteInv'
<1>1. \A d \in Client \ {c} : calls'[d] = calls[d]
  BY OtherCalls DEF CatalogInv
<1>2. ASSUME NEW j \in Job PROVE Complete(j)'
  <2>1. ASSUME NEW d \in Owing(j) PROVE (d \in Owing(j))' /\ EventOf(d)' = EventOf(d)
    <3>1. d \in Client
      BY DEF Owing
    <3>2. CASE d = c
      BY <2>1, <3>2
    <3>3. CASE d # c
      BY <1>1, <2>1, <3>1, <3>3, SameDebt
    <3> QED
      BY <3>2, <3>3
  <2>2. Complete(j)
    BY DEF CompleteInv
  <2> QED
    BY <2>1, <2>2, StillComplete
<1> QED
  BY <1>2 DEF CompleteInv

(* A call that begins, or one that had no line to append and goes on.      *)
LEMMA OwesNothing ==
    ASSUME NEW c \in Client, NEW j,
           calls[c].op \in {"create", "change"} => calls[c].at \notin {"member", "append"}
    PROVE  c \notin Owing(j)
BY DEF Owing, Creating, Changing

LEMMA CreateDocumentComplete ==
    ASSUME CatalogInv, CompleteInv, NEW c \in Client, CreateJobDocument(c)
    PROVE  CompleteInv'
<1> DEFINE j == calls[c].job
<1>1. /\ calls[c].op = "create" /\ calls[c].at = "job"
      /\ stored' = stored \cup {j}
      /\ jobs' = [jobs EXCEPT ![j] = Fresh(calls[c].batch, calls[c].now)]
      /\ Goto(c, "member")
      /\ UNCHANGED <<logs, gaps>>
  BY DEF CreateJobDocument, Creating, bounds
<1>2. /\ calls[c] \in CreateCall
      /\ calls'[c] = [calls[c] EXCEPT !.at = "member"]
      /\ \A d \in Client \ {c} : calls'[d] = calls[d]
  BY <1>1, CreationCall
<1>3. /\ calls'[c].op = "create" /\ calls'[c].at = "member" /\ calls'[c].job = j
      /\ j \in Job
  BY <1>1, <1>2 DEF CreateCall
<1>4. /\ jobs \in [Job -> CatalogJob]
      /\ \A i \in Job \ {j} : jobs'[i] = jobs[i]
      /\ jobs'[j].changes = 0
  BY <1>1, <1>3 DEF CatalogInv, FilesOK, Fresh
<1> HIDE DEF j
<1>5. ASSUME NEW i \in Job PROVE Complete(i)'
  <2>1. Complete(i)
    BY DEF CompleteInv
  <2>2. CASE i # j
    <3>1. \A d \in Owing(i) : d \in Client /\ d # c
      BY <1>1, OwesNothing DEF Owing
    <3>2. \A d \in Owing(i) : (d \in Owing(i))' /\ EventOf(d)' = EventOf(d)
      BY <1>2, <3>1, SameDebt
    <3>3. i \in stored' => i \in stored /\ jobs'[i].changes = jobs[i].changes
      BY <1>1, <1>4, <2>2
    <3> QED
      BY <1>1, <2>1, <3>2, <3>3, StillComplete
  <2>3. CASE i = j
    <3>1. (c \in Owing(i))' /\ EventOf(c)' = CreatedEvent
      BY <1>3, <2>3 DEF Owing, Creating, EventOf
    <3>2. SaidOrOwed(i, 0)'
      BY <3>1 DEF SaidOrOwed, CreatedEvent
    <3>3. \A n \in 0..jobs'[i].changes : n = 0
      BY <1>4, <2>3
    <3>4. gaps[i] = 0 => AllEnded(logs[i])
      BY <2>1 DEF Complete
    <3> QED
      BY <1>1, <3>2, <3>3, <3>4 DEF Complete, AllEnded
  <2> QED
    BY <2>2, <2>3
<1> QED
  BY <1>1, <1>5 DEF CompleteInv

LEMMA AppendsComplete ==
    ASSUME CatalogInv, CompleteInv, NEW c \in Client, CreateJobAppends(c) \/ ChangeAppends(c)
    PROVE  CompleteInv'
<1> DEFINE j == calls[c].job
           e == EventOf(c)
           new == Appended(logs[j], e)
<1>1. /\ Appending(c) /\ Return(c)
      /\ logs' = [logs EXCEPT ![j] = new]
      /\ UNCHANGED <<stored, jobs, gaps>>
  BY DEF CreateJobAppends, ChangeAppends, Appending, Creating, Changing, EventOf, bounds
<1>2. /\ e \in Event /\ j \in Job
      /\ logs \in [Job -> Seq(Line)]
      /\ \A d \in Client \ {c} : calls'[d] = calls[d]
  BY <1>1, AppendFacts, ReturnLocks DEF CatalogInv, FilesOK
<1>3. \A i \in Job : logs'[i] = IF i = j THEN new ELSE logs[i]
  BY <1>1, <1>2
<1>4. ASSUME NEW i \in Job, NEW d \in Owing(i), d # c
      PROVE  (d \in Owing(i))' /\ EventOf(d)' = EventOf(d)
  BY <1>2, <1>4, SameDebt DEF Owing
<1>5. \A i \in Job \ {j} : c \notin Owing(i)
  BY DEF Owing
<1>6. ASSUME NEW i \in Job PROVE Complete(i)'
  <2>1. Complete(i)
    BY DEF CompleteInv
  <2>2. CASE i # j
    <3>1. \A d \in Owing(i) : (d \in Owing(i))' /\ EventOf(d)' = EventOf(d)
      BY <1>4, <1>5, <2>2
    <3> QED
      BY <1>1, <1>3, <2>1, <2>2, <3>1, StillComplete
  <2>3. CASE i = j
    <3> SUFFICES ASSUME gaps[i] = 0
                 PROVE  /\ AllEnded(new)
                        /\ i \in stored => \A n \in 0..jobs[i].changes : SaidOrOwed(i, n)'
      BY <1>1, <1>3, <2>3 DEF Complete, AllEnded
    <3>1. /\ AllEnded(logs[i])
          /\ i \in stored => \A n \in 0..jobs[i].changes : SaidOrOwed(i, n)
      BY <2>1 DEF Complete
    <3>2. /\ AllEnded(new)
          /\ \A k \in ReadableIn(logs[i]) : k \in ReadableIn(new) /\ new[k] = logs[i][k]
          /\ \E k \in ReadableIn(new) : new[k].event = e
      BY <1>2, <2>3, <3>1, AppendedIsWhole
    <3>3. Readable(i)' = {new[k].event.change : k \in ReadableIn(new)}
      BY <1>3, <2>3 DEF Readable, ReadableIn
    <3>4. Readable(i) = {logs[i][k].event.change : k \in ReadableIn(logs[i])}
      BY ReadableChanges
    <3> HIDE DEF new
    <3>5. Readable(i) \subseteq Readable(i)' /\ e.change \in Readable(i)'
      BY <3>2, <3>3, <3>4
    <3>6. ASSUME NEW n, SaidOrOwed(i, n) PROVE SaidOrOwed(i, n)'
      <4>1. CASE n \in Readable(i)
        BY <3>5, <4>1 DEF SaidOrOwed
      <4>2. CASE \E d \in Owing(i) : EventOf(d).change = n
        <5>1. PICK d \in Owing(i) : EventOf(d).change = n
          BY <4>2
        <5>2. CASE d = c
          BY <3>5, <5>1, <5>2 DEF SaidOrOwed
        <5>3. CASE d # c
          <6>1. (d \in Owing(i))' /\ EventOf(d)' = EventOf(d)
            BY <1>4, <5>3
          <6> QED
            BY <5>1, <6>1 DEF SaidOrOwed
        <5> QED
          BY <5>2, <5>3
      <4> QED
        BY <3>6, <4>1, <4>2 DEF SaidOrOwed
    <3> QED
      BY <3>1, <3>2, <3>6
  <2> QED
    BY <2>2, <2>3
<1> QED
  BY <1>1, <1>6 DEF CompleteInv

(* The document is written, and the line about it is owed.                 *)
LEMMA ChangeWritesComplete ==
    ASSUME CatalogInv, CompleteInv, NEW c \in Client, ChangeWrites(c)
    PROVE  CompleteInv'
<1> DEFINE j == calls[c].job
           next == calls[c].next
           logged == calls[c].logged
           call == IF logged THEN [calls[c] EXCEPT !.at = "append"] ELSE NoCall
<1>1. /\ calls[c].op = "change" /\ calls[c].at = "write"
      /\ jobs' = [jobs EXCEPT ![j] = next]
      /\ calls' = [calls EXCEPT ![c] = call]
      /\ UNCHANGED <<stored, logs, gaps>>
  BY DEF ChangeWrites, Changing, Goto, Return, Call, bounds
<1>2. calls[c] \in ChangeCall
  BY <1>1, CallKinds DEF CatalogInv, CallsOK
<1>3. /\ j \in Job /\ logged \in BOOLEAN
      /\ logged => /\ next.changes = jobs[j].changes + 1
                   /\ calls[c].event.change = next.changes
      /\ ~ logged => next.changes = jobs[j].changes
  BY <1>1, <1>2 DEF ChangeCall, CatalogInv, CallOK, ChangeOK
<1>4. logged => /\ call.op = "change" /\ call.at = "append"
                /\ call.job = j /\ call.event = calls[c].event
  BY <1>1, <1>2 DEF ChangeCall
<1>5. calls'[c] = call /\ \A d \in Client \ {c} : calls'[d] = calls[d]
  <2> HIDE DEF call
  <2> QED
    BY <1>1, OtherCalls DEF CatalogInv
<1> HIDE DEF call
<1>6. /\ \A i \in Job : jobs[i].changes \in Nat
      /\ \A i \in Job \ {j} : jobs'[i] = jobs[i]
      /\ jobs'[j] = next
  BY <1>1, <1>3 DEF CatalogInv, FilesOK, CatalogJob
<1>7. ASSUME NEW i \in Job, NEW d \in Owing(i)
      PROVE  (d \in Owing(i))' /\ EventOf(d)' = EventOf(d)
  <2>1. d \in Client /\ d # c
    BY <1>1, OwesNothing DEF Owing
  <2> QED
    BY <1>5, <2>1, SameDebt
<1>8. ASSUME NEW i \in Job PROVE Complete(i)'
  <2>1. Complete(i)
    BY DEF CompleteInv
  <2>2. CASE i # j \/ ~ logged
    <3>1. jobs'[i].changes = jobs[i].changes
      BY <1>3, <1>6, <2>2
    <3> QED
      BY <1>1, <1>7, <2>1, <3>1, StillComplete
  <2>3. CASE i = j /\ logged
    <3> SUFFICES ASSUME gaps[i] = 0
                 PROVE  /\ AllEnded(logs[i])
                        /\ i \in stored => \A n \in 0..jobs'[i].changes : SaidOrOwed(i, n)'
      BY <1>1 DEF Complete, AllEnded
    <3>1. /\ AllEnded(logs[i])
          /\ i \in stored => \A n \in 0..jobs[i].changes : SaidOrOwed(i, n)
      BY <2>1 DEF Complete
    <3>2. Readable(i)' = Readable(i)
      BY <1>1 DEF Readable
    <3>3. \A n : SaidOrOwed(i, n) => SaidOrOwed(i, n)'
      BY <1>7, <3>2 DEF SaidOrOwed
    <3>4. (c \in Owing(i))' /\ EventOf(c)' = calls[c].event
      BY <1>4, <1>5, <2>3 DEF Owing, Changing, EventOf
    <3>5. ASSUME NEW n, n = jobs'[i].changes PROVE SaidOrOwed(i, n)'
      <4>1. calls[c].event.change = n
        BY <1>3, <1>6, <2>3, <3>5
      <4> QED
        BY <3>4, <4>1 DEF SaidOrOwed
    <3>6. \A n \in 0..jobs'[i].changes : n \in 0..jobs[i].changes \/ n = jobs'[i].changes
      BY <1>3, <1>6, <2>3
    <3> QED
      BY <3>1, <3>3, <3>5, <3>6
  <2> QED
    BY <1>3, <2>2, <2>3
<1> QED
  BY <1>1, <1>8 DEF CompleteInv

(* A log without a gap is one whose append was not cut short.              *)
LEMMA CutShortElsewhere ==
    ASSUME CatalogInv, NEW cut \in SUBSET Client, CutShort(cut),
           NEW j \in Job, \A c \in cut : c \notin Owing(j)
    PROVE  logs'[j] = logs[j]
<1>1. CASE UNCHANGED logs
  BY <1>1
<1>2. CASE \E c \in cut, readable \in BOOLEAN :
              /\ Appending(c)
              /\ logs' = [logs EXCEPT ![calls[c].job] = Torn(@, EventOf(c), readable)]
  <2>1. PICK c \in cut, readable \in BOOLEAN :
              /\ Appending(c)
              /\ logs' = [logs EXCEPT ![calls[c].job]
                                = Torn(logs[calls[c].job], EventOf(c), readable)]
    BY <1>2
  <2>2. calls[c].job # j
    BY <2>1 DEF Owing, Appending
  <2> QED
    BY <2>1, <2>2 DEF CatalogInv, FilesOK
<1> QED
  BY <1>1, <1>2 DEF CutShort

LEMMA ThrowsComplete ==
    ASSUME CatalogInv, CompleteInv, NEW c \in Client, Throws(c)
    PROVE  CompleteInv'
<1>1. /\ gaps' = [j \in Job |-> IF c \in Owing(j) THEN gaps[j] + 1 ELSE gaps[j]]
      /\ CutShort({c}) /\ Return(c)
      /\ UNCHANGED <<stored, jobs>>
  BY DEF Throws
<1>2. gaps \in [Job -> Nat]
  BY DEF CompleteInv
<1>3. gaps' \in [Job -> Nat]
  BY <1>1, <1>2
<1>4. \A d \in Client \ {c} : calls'[d] = calls[d]
  BY <1>1, ReturnLocks
<1>5. ASSUME NEW j \in Job PROVE Complete(j)'
  <2>1. gaps'[j] = 0 => gaps[j] = 0 /\ c \notin Owing(j)
    BY <1>1, <1>2
  <2>2. c \notin Owing(j) => logs'[j] = logs[j]
    BY <1>1, CutShortElsewhere
  <2>3. \A d \in Owing(j) \ {c} : (d \in Owing(j))' /\ EventOf(d)' = EventOf(d)
    BY <1>4, SameDebt DEF Owing
  <2>4. Complete(j)
    BY DEF CompleteInv
  <2> QED
    BY <1>1, <2>1, <2>2, <2>3, <2>4, StillComplete
<1> QED
  BY <1>3, <1>5 DEF CompleteInv

LEMMA CrashComplete ==
    ASSUME CatalogInv, CompleteInv, Crash
    PROVE  CompleteInv'
<1>1. /\ gaps' = [j \in Job |-> gaps[j] + Cardinality(Owing(j))]
      /\ CutShort(Client)
      /\ UNCHANGED <<stored, jobs>>
  BY DEF Crash
<1>2. gaps \in [Job -> Nat]
  BY DEF CompleteInv
<1>3. \A j \in Job : IsFiniteSet(Owing(j)) /\ Cardinality(Owing(j)) \in Nat
  BY OwingFinite, FS_CardinalityType
<1>4. gaps' \in [Job -> Nat]
  BY <1>1, <1>2, <1>3
<1>5. ASSUME NEW j \in Job PROVE Complete(j)'
  <2>1. gaps'[j] = 0 => gaps[j] = 0 /\ Cardinality(Owing(j)) = 0
    BY <1>1, <1>2, <1>3
  <2>2. gaps'[j] = 0 => Owing(j) = {}
    BY <1>3, <2>1, FS_EmptySet
  <2>3. Owing(j) = {} => logs'[j] = logs[j]
    BY <1>1, CutShortElsewhere
  <2>4. Complete(j)
    BY DEF CompleteInv
  <2> QED
    BY <1>1, <2>1, <2>2, <2>3, <2>4, StillComplete
<1> QED
  BY <1>4, <1>5 DEF CompleteInv

(* A call that begins writes nothing and owes nothing.                     *)
LEMMA BeginComplete ==
    ASSUME CatalogInv, CompleteInv, NEW c \in Client, Idle(c), NEW call, Call(c, call),
           UNCHANGED <<logs, gaps, stored, jobs>>
    PROVE  CompleteInv'
<1>1. \A j \in Job : c \notin Owing(j)
  BY OwesNothing DEF Idle
<1> QED
  BY <1>1, QuietStep DEF Call

LEMMA BeginsComplete ==
    ASSUME CatalogInv, CompleteInv, NEW c \in Client,
           \/ \E b \in Batch : BatchStep(c, b)
           \/ \E j \in Job : ChangeStep(c, j)
           \/ SaveChecks(c)
    PROVE  CompleteInv'
<1>1. Idle(c) /\ (\E call : Call(c, call)) /\ UNCHANGED <<logs, gaps, stored, jobs>>
  <2>1. CASE SaveChecks(c)
    BY <2>1 DEF SaveChecks, Asked, files
  <2>2. ASSUME NEW b \in Batch, BatchStep(c, b)
        PROVE  Idle(c) /\ (\E call : Call(c, call)) /\ UNCHANGED <<logs, gaps, stored, jobs>>
    <3>1. ASSUME NEW action \in BatchActions, BatchActionReads(c, b, action)
          PROVE  Idle(c) /\ (\E call : Call(c, call)) /\ UNCHANGED <<logs, gaps, stored, jobs>>
      BY <3>1, Zenon DEF BatchActionReads, Asked, files
    <3>2. ASSUME NEW proposed \in Orders, ReorderReads(c, b, proposed)
          PROVE  Idle(c) /\ (\E call : Call(c, call)) /\ UNCHANGED <<logs, gaps, stored, jobs>>
      BY <3>2, Zenon DEF ReorderReads, Asked, files
    <3>3. ASSUME NEW j \in Job, NEW now \in Time, CreateJobReads(c, b, j, now)
          PROVE  Idle(c) /\ (\E call : Call(c, call)) /\ UNCHANGED <<logs, gaps, stored, jobs>>
      BY <3>3, Zenon DEF CreateJobReads, Asked, files
    <3> QED
      BY <2>2, <3>1, <3>2, <3>3 DEF BatchStep
  <2>3. ASSUME NEW j \in Job, ChangeStep(c, j)
        PROVE  Idle(c) /\ (\E call : Call(c, call)) /\ UNCHANGED <<logs, gaps, stored, jobs>>
    <3>1. ASSUME NEW next, NEW logged, NEW event, Changes(c, j, next, logged, event)
          PROVE  Idle(c) /\ (\E call : Call(c, call)) /\ UNCHANGED <<logs, gaps, stored, jobs>>
      BY <3>1, Zenon DEF Changes, Asked, files
    <3>2. \E next, logged, event : Changes(c, j, next, logged, event)
      BY <2>3, Zenon DEF ChangeStep, ApplyJobAction, SetJobAnnotations, AttachJobResult,
                  SetJobExecution, Recover, Logs
    <3> QED
      BY <3>1, <3>2
  <2> QED
    BY <2>1, <2>2, <2>3
<1> QED
  BY <1>1, BeginComplete

LEMMA CallComplete ==
    ASSUME CatalogInv, CompleteInv, NEW c \in Client, CallStep(c)
    PROVE  CompleteInv'
<1>1. CASE RewriteWrites(c) \/ SaveWrites(c)
  <2>1. /\ calls[c].op \in {"rewrite", "save"}
        /\ calls' = [calls EXCEPT ![c] = NoCall]
        /\ UNCHANGED <<logs, gaps, stored, jobs>>
    BY <1>1 DEF RewriteWrites, SaveWrites, Return, Call, bounds
  <2>2. \A j \in Job : c \notin Owing(j)
    BY <2>1, OwesNothing
  <2> QED
    BY <2>1, <2>2, QuietStep
<1>2. CASE CreateJobConfig(c)
  <2> DEFINE call == [calls[c] EXCEPT !.at = "job"]
  <2>1. /\ calls[c].op = "create" /\ calls[c].at = "config"
        /\ calls' = [calls EXCEPT ![c] = call]
        /\ UNCHANGED <<logs, gaps, stored, jobs>>
    BY <1>2 DEF CreateJobConfig, Creating, Goto, bounds
  <2>2. \A j \in Job : c \notin Owing(j)
    BY <2>1, OwesNothing
  <2> HIDE DEF call
  <2> QED
    BY <2>1, <2>2, QuietStep
<1>3. CASE CreateJobMember(c)
  <2> DEFINE call == [calls[c] EXCEPT !.at = "append"]
  <2>1. /\ calls[c].op = "create" /\ calls[c].at = "member"
        /\ Goto(c, "append")
        /\ calls' = [calls EXCEPT ![c] = call]
        /\ UNCHANGED <<logs, gaps, stored, jobs>>
    BY <1>3 DEF CreateJobMember, Creating, Goto, bounds
  <2>2. calls[c] \in CreateCall /\ calls'[c] = call
    BY <2>1, CreationCall
  <2>3. call.op = "create" /\ call.at = "append" /\ call.job = calls[c].job
    BY <2>1, <2>2 DEF CreateCall
  <2> HIDE DEF call
  <2>4. \A j \in Job : c \in Owing(j) => (c \in Owing(j))' /\ EventOf(c)' = EventOf(c)
    BY <2>1, <2>2, <2>3 DEF Owing, Creating, Changing, EventOf, CreatedEvent
  <2> QED
    BY <2>1, <2>4, QuietStep
<1> QED
  BY <1>1, <1>2, <1>3, CreateDocumentComplete, AppendsComplete, ChangeWritesComplete,
     BeginsComplete, ThrowsComplete DEF CallStep

LEMMA NextComplete ==
    ASSUME CatalogInv, CompleteInv, [Next]_vars
    PROVE  CompleteInv'
<1>1. ASSUME UNCHANGED <<logs, gaps, stored, jobs, calls>> PROVE CompleteInv'
  <2>1. ASSUME NEW j \in Job PROVE Complete(j)'
    <3>1. \A d \in Owing(j) : (d \in Owing(j))' /\ EventOf(d)' = EventOf(d)
      BY <1>1, SameDebt DEF Owing
    <3>2. Complete(j)
      BY DEF CompleteInv
    <3> QED
      BY <1>1, <3>1, <3>2, StillComplete
  <2> QED
    BY <1>1, <2>1 DEF CompleteInv
<1>2. ASSUME NEW b \in Batch, CreateBatch(b) PROVE CompleteInv'
  BY <1>1, <1>2 DEF CreateBatch, bounds
<1>3. CASE OpenTraversal \/ ListPage \/ Restart \/ Opened
  BY <1>1, <1>3 DEF OpenTraversal, ListPage, Restart, Opened, files, bounds
<1>4. CASE UNCHANGED vars
  BY <1>1, <1>4 DEF vars
<1> QED
  BY <1>2, <1>3, <1>4, CallComplete, BeginsComplete, CrashComplete DEF Next

LEMMA CompleteInvariant == Spec => []CompleteInv
<1>1. Init => CompleteInv
  BY DEF Init, CompleteInv, Complete, AllEnded
<1>2. CatalogInv /\ CompleteInv /\ [Next]_vars => CompleteInv'
  BY NextComplete
<1> QED
  BY <1>1, <1>2, CatalogInvariant, PTL DEF Spec

(* A log no failure touched lacks at most one line per caller about to     *)
(* append to it: every change of a document is followed by its line.       *)
THEOREM LogMissesNothing == Spec => []LogIsComplete
<1>1. ASSUME CatalogInv, CompleteInv PROVE LogIsComplete
  <2> SUFFICES ASSUME NEW j \in stored, gaps[j] = 0
               PROVE  Cardinality((0..jobs[j].changes) \ Readable(j)) <= Cardinality(Owing(j))
    BY DEF LogIsComplete
  <2> DEFINE missing == (0..jobs[j].changes) \ Readable(j)
             owed == [c \in Owing(j) |-> EventOf(c).change]
             owedChanges == {EventOf(c).change : c \in Owing(j)}
  <2>1. j \in Job
    BY <1>1 DEF CatalogInv, FilesOK
  <2>2. missing \subseteq owedChanges
    BY <1>1, <2>1 DEF CompleteInv, Complete, SaidOrOwed
  <2>3. owed \in Surjection(Owing(j), owedChanges)
    BY DEF Surjection
  <2>4. IsFiniteSet(Owing(j))
    BY <1>1, <2>1, OwingFinite
  <2> HIDE DEF missing, owed, owedChanges
  <2>5. /\ IsFiniteSet(owedChanges)
        /\ Cardinality(owedChanges) <= Cardinality(Owing(j))
    BY <2>3, <2>4, FS_Surjection
  <2>6. /\ IsFiniteSet(missing)
        /\ Cardinality(missing) <= Cardinality(owedChanges)
    BY <2>2, <2>5, FS_Subset
  <2>7. /\ Cardinality(missing) \in Nat /\ Cardinality(owedChanges) \in Nat
        /\ Cardinality(Owing(j)) \in Nat
    BY <2>4, <2>5, <2>6, FS_CardinalityType
  <2>8. Cardinality(missing) <= Cardinality(Owing(j))
    BY <2>5, <2>6, <2>7
  <2> QED
    BY <2>8 DEF missing
<1> QED
  BY <1>1, CatalogInvariant, CompleteInvariant, PTL

-----------------------------------------------------------------------------
(* The listing: its pages follow the order of the positions.               *)

(* What a reading of the list has not shown comes after its cursor, what   *)
(* it has shown does not.                                                  *)
ReadingOK ==
    traversal.open =>
        /\ traversal.left \subseteq stored
        /\ traversal.shown \subseteq stored
        /\ \A j \in traversal.left : isAfter(Position(j), traversal.cursor)
        /\ \A j \in traversal.shown : ~ isAfter(Position(j), traversal.cursor)

TraversalInv ==
    /\ IsFiniteSet(stored)
    /\ traversal \in Traversal
    /\ ReadingOK
    /\ TraversalIsWhole

(* The least of some numbers.                                              *)

Less == OpToRel(<, Nat)

LEMMA LessWellFounded == IsWellFoundedOn(Less, Nat)
  BY NatLessThanWellFounded, Zenon DEF OpToRel, Less

LEMMA Least ==
    ASSUME NEW S \in SUBSET Nat, S # {}
    PROVE  \E k \in S : \A j \in S : k <= j
<1>1. PICK k \in S : \A j \in S : ~ (<<j, k>> \in Less)
  BY LessWellFounded, WFMin
<1>2. \A i, j \in Nat : i < j => <<i, j>> \in Less
  BY DEF Less, OpToRel
<1>3. \A j \in S : k \in Nat /\ j \in Nat /\ ~ (j < k)
  BY <1>1, <1>2
<1> QED
  BY <1>3

(* The greatest of some numbers that have a bound.                         *)
LEMMA Greatest ==
    ASSUME NEW S \in SUBSET Nat, S # {}, NEW bound \in Nat, \A k \in S : k <= bound
    PROVE  \E k \in S : \A j \in S : j <= k
<1> DEFINE rest == {bound - k : k \in S}
<1>1. rest \in SUBSET Nat /\ rest # {}
  <2>1. \A k \in S : k \in Nat /\ k <= bound
    OBVIOUS
  <2>2. \A k \in S : bound - k \in Nat
    BY <2>1
  <2> QED
    BY <2>2
<1>2. PICK r \in rest : \A q \in rest : r <= q
  <2> HIDE DEF rest
  <2> QED
    BY <1>1, Least
<1>3. PICK k \in S : r = bound - k
  OBVIOUS
<1>4. \A j \in S : bound - k <= bound - j
  BY <1>2, <1>3
<1>5. \A j \in S : j <= k
  <2> SUFFICES ASSUME NEW j \in S PROVE j <= k
    OBVIOUS
  <2>1. bound - k <= bound - j /\ j \in Nat /\ k \in Nat
    BY <1>4
  <2> QED
    BY <2>1
<1> QED
  BY <1>5

(* The order of the listing, on positions: strict, and total on jobs.      *)
LEMMA BeforeOrder ==
    ASSUME NEW p \in Cursor, NEW q \in Cursor, NEW r \in Cursor
    PROVE  /\ ~ Before(p, p)
           /\ Before(p, q) => ~ Before(q, p)
           /\ Before(p, q) /\ Before(q, r) => Before(p, r)
           /\ p.id # q.id => Before(p, q) \/ Before(q, p)
<1>1. /\ p.at \in Int /\ p.id \in Int /\ q.at \in Int /\ q.id \in Int
      /\ r.at \in Int /\ r.id \in Int
  BY DEF Cursor
<1> QED
  BY <1>1 DEF Before

LEMMA PositionIsCursor ==
    ASSUME FilesOK, NEW j \in Job
    PROVE  Position(j) \in Cursor /\ Position(j).id = j
<1>1. j \in Int
  BY CatalogConstants
<1>2. jobs[j] \in CatalogJob
  BY DEF FilesOK
<1>3. jobs[j].createdAt \in Int
  <2>1. jobs[j].createdAt \in Time
    BY <1>2 DEF CatalogJob
  <2>2. \A t \in Time : t \in Int
    BY CatalogConstants
  <2> QED
    BY <2>1, <2>2
<1> QED
  BY <1>1, <1>3 DEF Position, Cursor

(* How many rows of the listing come before one of them.                   *)
Rank(rows, j) == Cardinality({k \in rows : Before(Position(k), Position(j))})

LEMMA RankType ==
    ASSUME NEW rows, IsFiniteSet(rows), NEW j
    PROVE  /\ IsFiniteSet({k \in rows : Before(Position(k), Position(j))})
           /\ Rank(rows, j) \in Nat
<1> DEFINE earlier == {k \in rows : Before(Position(k), Position(j))}
<1>1. earlier \subseteq rows
  OBVIOUS
<1> HIDE DEF earlier
<1>2. IsFiniteSet(earlier)
  BY <1>1, FS_Subset
<1> QED
  BY <1>2, FS_CardinalityType DEF Rank, earlier

(* A later row has a greater rank.                                         *)
LEMMA RankGrows ==
    ASSUME FilesOK, NEW rows \in SUBSET Job, IsFiniteSet(rows),
           NEW k \in rows, NEW j \in rows, Before(Position(k), Position(j))
    PROVE  Rank(rows, k) < Rank(rows, j)
<1> DEFINE early == {i \in rows : Before(Position(i), Position(k))}
           late == {i \in rows : Before(Position(i), Position(j))}
<1>1. \A i \in rows : Position(i) \in Cursor
  BY PositionIsCursor
<1>2. early \subseteq late
  BY <1>1, BeforeOrder
<1>3. k \in late /\ k \notin early
  BY <1>1, BeforeOrder
<1>4. /\ IsFiniteSet(late)
      /\ Rank(rows, k) = Cardinality(early) /\ Rank(rows, k) \in Nat
      /\ Rank(rows, j) = Cardinality(late) /\ Rank(rows, j) \in Nat
  BY RankType DEF Rank
<1> HIDE DEF early, late
<1>5. /\ Cardinality(early) <= Cardinality(late)
      /\ Cardinality(late) = Cardinality(early) => late = early
  BY <1>2, <1>4, FS_Subset
<1> QED
  BY <1>3, <1>4, <1>5

(* A page holds the first rows that are left: one at least, if there are   *)
(* any; the last of them comes after the cursor, after every other row of  *)
(* the page and before every row left for later.                           *)
LEMMA RemainingRows ==
    ASSUME CatalogInv, TraversalInv
    PROVE  /\ Remaining \in SUBSET Job /\ IsFiniteSet(Remaining)
           /\ Items = {j \in Remaining : Rank(Remaining, j) < PageLimit}
<1>1. Remaining \subseteq stored /\ stored \subseteq Job
  BY DEF Remaining, CatalogInv, FilesOK
<1>2. IsFiniteSet(stored)
  BY DEF TraversalInv
<1> QED
  BY <1>1, <1>2, FS_Subset DEF Items, Rank

LEMMA PageNotEmpty ==
    ASSUME CatalogInv, TraversalInv, Remaining # {}
    PROVE  Items # {}
<1> DEFINE ranks == {Rank(Remaining, j) : j \in Remaining}
<1>1. ranks \in SUBSET Nat /\ ranks # {}
  BY RemainingRows, RankType
<1> HIDE DEF ranks
<1>2. PICK r \in ranks : \A q \in ranks : r <= q
  BY <1>1, Least
<1>3. PICK j \in Remaining : r = Rank(Remaining, j)
  BY DEF ranks
<1>4. {k \in Remaining : Before(Position(k), Position(j))} = {}
  <2> SUFFICES ASSUME NEW k \in Remaining, Before(Position(k), Position(j)) PROVE FALSE
    OBVIOUS
  <2>1. Rank(Remaining, k) < Rank(Remaining, j)
    BY RemainingRows, RankGrows DEF CatalogInv
  <2>2. Rank(Remaining, j) <= Rank(Remaining, k)
    BY <1>2, <1>3 DEF ranks
  <2>3. Rank(Remaining, k) \in Nat /\ Rank(Remaining, j) \in Nat
    BY RemainingRows, RankType
  <2> QED
    BY <2>1, <2>2, <2>3
<1>5. Rank(Remaining, j) = 0
  BY <1>4, FS_EmptySet DEF Rank
<1> QED
  BY <1>5, RemainingRows, CatalogConstants

LEMMA LastOfPage ==
    ASSUME CatalogInv, TraversalInv, Items # {}
    PROVE  /\ LastOf(Items) \in Items
           /\ \A k \in Items \ {LastOf(Items)} : Before(Position(k), Position(LastOf(Items)))
<1> DEFINE ranks == {Rank(Remaining, j) : j \in Items}
<1>1. /\ Items \subseteq Remaining
      /\ \A j \in Items : Rank(Remaining, j) \in Nat /\ Rank(Remaining, j) < PageLimit
  BY RemainingRows, RankType
<1>2. PageLimit \in Nat
  BY CatalogConstants
<1>3. ranks \in SUBSET Nat /\ ranks # {} /\ \A r \in ranks : r <= PageLimit
  BY <1>1, <1>2
<1> HIDE DEF ranks
<1>4. PICK r \in ranks : \A q \in ranks : q <= r
  BY <1>2, <1>3, Greatest
<1>5. PICK j \in Items : r = Rank(Remaining, j)
  BY DEF ranks
<1>6. ASSUME NEW k \in Items \ {j} PROVE Before(Position(k), Position(j))
  <2>1. /\ k \in Job /\ j \in Job
        /\ Position(k) \in Cursor /\ Position(j) \in Cursor
        /\ Position(k).id # Position(j).id
    BY <1>1, <1>6, RemainingRows, PositionIsCursor DEF CatalogInv
  <2>2. Before(Position(k), Position(j)) \/ Before(Position(j), Position(k))
    BY <2>1, BeforeOrder
  <2>3. Before(Position(j), Position(k)) => Rank(Remaining, j) < Rank(Remaining, k)
    BY <1>1, RemainingRows, RankGrows DEF CatalogInv
  <2>4. Rank(Remaining, k) <= Rank(Remaining, j)
    BY <1>4, <1>5 DEF ranks
  <2>5. Rank(Remaining, k) \in Nat /\ Rank(Remaining, j) \in Nat
    BY <1>1
  <2> QED
    BY <2>2, <2>3, <2>4, <2>5
<1>7. \E i \in Items : \A k \in Items \ {i} : Before(Position(k), Position(i))
  BY <1>6
<1> QED
  BY <1>7, Zenon DEF LastOf

LEMMA LaterRows ==
    ASSUME CatalogInv, TraversalInv, NEW last \in Items, NEW j \in Remaining \ Items
    PROVE  Before(Position(last), Position(j))
<1>1. last \in Remaining /\ Remaining \subseteq Job
  BY RemainingRows
<1>2. /\ Position(j) \in Cursor /\ Position(last) \in Cursor
      /\ Position(j).id # Position(last).id
  BY <1>1, PositionIsCursor DEF CatalogInv
<1>3. Before(Position(j), Position(last)) \/ Before(Position(last), Position(j))
  BY <1>2, BeforeOrder
<1>4. Before(Position(j), Position(last)) => Rank(Remaining, j) < Rank(Remaining, last)
  BY <1>1, RemainingRows, RankGrows DEF CatalogInv
<1>5. Rank(Remaining, last) < PageLimit /\ ~ (Rank(Remaining, j) < PageLimit)
  BY RemainingRows
<1>6. Rank(Remaining, j) \in Nat /\ Rank(Remaining, last) \in Nat /\ PageLimit \in Nat
  BY RemainingRows, RankType, CatalogConstants
<1> QED
  BY <1>3, <1>4, <1>5, <1>6

(* A reading that has not begun, and one begun with some jobs left.        *)
LEMMA ReadingBegins ==
    ASSUME NEW left \in SUBSET Job, NEW again \in BOOLEAN
    PROVE  /\ [NoTraversal EXCEPT !.open = TRUE, !.left = left] \in Traversal
           /\ [NoTraversal EXCEPT !.left = left, !.again = again] \in Traversal
<1>1. NoTraversal \in Traversal
  BY DEF NoTraversal, Traversal, Start, Cursor
<1> QED
  BY <1>1 DEF Traversal

(* A page shows only what was not shown, and leaves nothing behind it.     *)
LEMMA ListPageStep ==
    ASSUME CatalogInv, TraversalInv, ListPage
    PROVE  TraversalInv'
<1> DEFINE left == traversal.left \ Items
           again == traversal.again \/ Items \cap traversal.shown # {}
           shown == traversal.shown \cup Items
           cursor == Position(LastOf(Items))
           closed == [NoTraversal EXCEPT !.left = left, !.again = again]
           next == [open |-> TRUE, left |-> left, again |-> again, shown |-> shown,
                    cursor |-> cursor]
<1>1. /\ traversal.open
      /\ traversal' = IF Items = Remaining THEN closed ELSE next
      /\ UNCHANGED <<stored, jobs>>
  BY DEF ListPage, files
<1>2. /\ stored \subseteq Job /\ IsFiniteSet(stored)
      /\ traversal \in Traversal /\ ~ traversal.again
      /\ traversal.left \subseteq stored /\ traversal.shown \subseteq stored
      /\ \A j \in traversal.left : isAfter(Position(j), traversal.cursor)
      /\ \A j \in traversal.shown : ~ isAfter(Position(j), traversal.cursor)
  BY <1>1 DEF CatalogInv, FilesOK, TraversalInv, TraversalIsWhole, ReadingOK
<1>3. /\ Items \subseteq Remaining /\ Remaining \subseteq stored
      /\ \A j \in Remaining : isAfter(Position(j), traversal.cursor)
      /\ traversal.left \subseteq Remaining
  BY <1>2 DEF Items, Remaining
<1>4. again = FALSE
  BY <1>2, <1>3
<1>5. /\ left \in SUBSET Job /\ shown \in SUBSET Job /\ again \in BOOLEAN
      /\ left \subseteq stored /\ shown \subseteq stored
  BY <1>2, <1>3, <1>4
<1>6. CASE Items = Remaining
  <2>1. left = {}
    BY <1>3, <1>6
  <2>2. /\ closed.open = FALSE
        /\ closed.left = left /\ closed.again = again
    BY DEF NoTraversal
  <2>3. closed \in Traversal
    <3> HIDE DEF left, again
    <3> QED
      BY <1>5, ReadingBegins
  <2> HIDE DEF closed, left, again
  <2>4. traversal' = closed
    BY <1>1, <1>6
  <2> QED
    BY <1>1, <1>2, <1>4, <2>1, <2>2, <2>3, <2>4 DEF TraversalInv, TraversalIsWhole, ReadingOK
<1>7. CASE Items # Remaining
  <2>1. /\ LastOf(Items) \in Items
        /\ \A k \in Items \ {LastOf(Items)} : Before(Position(k), cursor)
    BY <1>3, <1>7, PageNotEmpty, LastOfPage
  <2>2. cursor \in Cursor /\ \A j \in stored : Position(j) \in Cursor
    BY <1>2, <1>3, <2>1, PositionIsCursor DEF CatalogInv
  <2>3. \A j \in left : Before(cursor, Position(j))
    BY <1>3, <2>1, LaterRows
  <2>4. ASSUME NEW j \in shown PROVE ~ Before(cursor, Position(j))
    <3>1. traversal.cursor \in Cursor /\ Position(j) \in Cursor
      BY <1>2, <1>5, <2>2, <2>4 DEF Traversal
    <3>2. CASE j \in traversal.shown
      <4>1. Before(traversal.cursor, cursor) /\ ~ Before(traversal.cursor, Position(j))
        BY <1>2, <1>3, <2>1, <3>2 DEF isAfter
      <4> HIDE DEF cursor
      <4> QED
        BY <2>2, <3>1, <4>1, BeforeOrder
    <3>3. CASE j \in Items
      <4>1. Before(Position(j), cursor) \/ Position(j) = cursor
        BY <2>1, <3>3
      <4> HIDE DEF cursor
      <4> QED
        BY <2>2, <3>1, <4>1, BeforeOrder
    <3> QED
      BY <2>4, <3>2, <3>3
  <2>5. /\ next \in Traversal /\ next.open /\ next.left = left /\ next.again = again
        /\ next.shown = shown /\ next.cursor = cursor
    <3> HIDE DEF left, again, shown, cursor
    <3> QED
      BY <1>5, <2>2 DEF Traversal
  <2> HIDE DEF next, left, again, shown, cursor
  <2>6. traversal' = next
    BY <1>1, <1>7
  <2>7. \A j : Position(j)' = Position(j)
    BY <1>1 DEF Position
  <2>8. ReadingOK'
    BY <1>1, <1>5, <2>3, <2>4, <2>5, <2>6, <2>7 DEF ReadingOK, isAfter
  <2> QED
    BY <1>1, <1>2, <1>4, <2>5, <2>6, <2>8 DEF TraversalInv, TraversalIsWhole
<1> QED
  BY <1>6, <1>7

LEMMA OpenTraversalStep ==
    ASSUME CatalogInv, TraversalInv, OpenTraversal
    PROVE  TraversalInv'
<1> DEFINE begun == [NoTraversal EXCEPT !.open = TRUE, !.left = stored]
<1>1. /\ traversal' = begun
      /\ UNCHANGED <<stored, jobs>>
  BY DEF OpenTraversal, files
<1>2. stored \subseteq Job /\ IsFiniteSet(stored)
  BY DEF CatalogInv, FilesOK, TraversalInv
<1>3. /\ begun \in Traversal /\ begun.open /\ begun.left = stored /\ begun.shown = {}
      /\ ~ begun.again /\ begun.cursor = Start
  <2>1. /\ begun.open /\ begun.left = stored /\ begun.shown = {}
        /\ ~ begun.again /\ begun.cursor = Start
    BY DEF NoTraversal
  <2>2. begun \in Traversal
    BY <1>2, ReadingBegins
  <2> QED
    BY <2>1, <2>2
<1> HIDE DEF begun
<1>4. ASSUME NEW j \in stored PROVE isAfter(Position(j)', Start)
  <2>1. jobs[j] \in CatalogJob
    BY <1>2 DEF CatalogInv, FilesOK
  <2>2. jobs[j].createdAt \in Nat
    BY <2>1, CatalogConstants DEF CatalogJob
  <2> QED
    BY <1>1, <2>2 DEF isAfter, Position, Before, Start
<1>5. ReadingOK'
  BY <1>1, <1>3, <1>4 DEF ReadingOK, isAfter
<1> QED
  BY <1>1, <1>2, <1>3, <1>5 DEF TraversalInv, TraversalIsWhole

(* Whatever else is written meanwhile, no job goes away or changes its     *)
(* place.                                                                  *)
LEMMA ReadingStays ==
    ASSUME CatalogInv, TraversalInv, Keeps, UNCHANGED traversal,
           stored' = stored \/ \E j : stored' = stored \cup {j}
    PROVE  TraversalInv'
<1>1. IsFiniteSet(stored')
  BY FS_AddElement DEF TraversalInv
<1>2. \A j \in stored : j \in stored' /\ Position(j)' = Position(j)
  BY DEF Keeps, Position
<1>3. ReadingOK'
  BY <1>2 DEF TraversalInv, ReadingOK, isAfter
<1> QED
  BY <1>1, <1>3 DEF TraversalInv, TraversalIsWhole

LEMMA NextReading ==
    ASSUME CatalogInv, TraversalInv, [Next]_vars
    PROVE  TraversalInv'
<1>1. CASE OpenTraversal
  BY <1>1, OpenTraversalStep
<1>2. CASE ListPage
  BY <1>2, ListPageStep
<1>3. CASE UNCHANGED vars
  BY <1>3 DEF vars, TraversalInv, TraversalIsWhole, ReadingOK, isAfter, Position
<1>4. ASSUME NEW b \in Batch, CreateBatch(b) PROVE TraversalInv'
  BY <1>4, CreateBatchStep, ReadingStays DEF CreateBatch
<1>5. CASE Crash
  BY <1>5, CrashStep, ReadingStays DEF Crash
<1>6. CASE Restart \/ Opened
  <2>1. UNCHANGED <<batches, configs, stored, jobs, logs, calls, traversal>>
    BY <1>6 DEF Restart, Opened, files
  <2> QED
    BY <2>1, NothingWritten, ReadingStays
<1>7. ASSUME NEW c \in Client, CallStep(c) PROVE TraversalInv'
  <2>1. UNCHANGED traversal /\ (stored' = stored \/ \E j : stored' = stored \cup {j})
    BY <1>7, Zenon DEF CallStep, RewriteWrites, CreateJobConfig, CreateJobDocument,
       CreateJobMember, CreateJobAppends, ChangeWrites, ChangeAppends, SaveChecks, SaveWrites,
       Throws, Asked, files
  <2> QED
    BY <1>7, <2>1, CallStepKeeps, ReadingStays
<1>8. ASSUME NEW c \in Client, NEW b \in Batch, BatchStep(c, b) PROVE TraversalInv'
  <2>1. UNCHANGED traversal /\ stored' = stored
    BY <1>8, Zenon DEF BatchStep, BatchActionReads, ReorderReads, CreateJobReads, Asked, files
  <2> QED
    BY <1>8, <2>1, BatchStepKeeps, ReadingStays
<1>9. ASSUME NEW c \in Client, NEW j \in Job, ChangeStep(c, j) PROVE TraversalInv'
  <2>1. UNCHANGED traversal /\ stored' = stored
    BY <1>9, Zenon DEF ChangeStep, ApplyJobAction, SetJobAnnotations, AttachJobResult,
       SetJobExecution, Recover, Logs, Changes, Asked, files
  <2> QED
    BY <1>9, <2>1, ChangeStepKeeps, ReadingStays
<1> QED
  BY <1>1, <1>2, <1>3, <1>4, <1>5, <1>6, <1>7, <1>8, <1>9 DEF Next

LEMMA TraversalInvariant == Spec => []TraversalInv
<1>1. Init => TraversalInv
  <2> SUFFICES ASSUME Init PROVE TraversalInv
    OBVIOUS
  <2>1. stored = {} /\ traversal = NoTraversal
    BY DEF Init
  <2>2. NoTraversal \in Traversal /\ ~ NoTraversal.open /\ NoTraversal.left = {}
        /\ ~ NoTraversal.again
    BY DEF NoTraversal, Traversal, Start, Cursor
  <2> QED
    BY <2>1, <2>2, FS_EmptySet DEF TraversalInv, TraversalIsWhole, ReadingOK
<1>2. CatalogInv /\ TraversalInv /\ [Next]_vars => TraversalInv'
  BY NextReading
<1> QED
  BY <1>1, <1>2, CatalogInvariant, PTL DEF Spec

(* Reading the list page by page shows every job that was there at the     *)
(* beginning, and none twice, for any size of a page, any clock and        *)
(* whatever is created meanwhile.                                          *)
THEOREM ListingIsWhole == Spec => []TraversalIsWhole
<1>1. TraversalInv => TraversalIsWhole
  BY DEF TraversalInv
<1> QED
  BY <1>1, TraversalInvariant, PTL

-----------------------------------------------------------------------------
(* Types.                                                                  *)

CountersOK ==
    /\ mode \in {"down", "opening", "serving"}
    /\ saved \in Nat
    /\ asked \in 0..MaxCalls
    /\ failures \in 0..MaxFailures

Bumped(n, m) == m = n \/ m = n + 1
CountersStep ==
    /\ mode' \in {mode, "down", "opening", "serving"}
    /\ Bumped(saved, saved')
    /\ Bumped(asked, asked') /\ (asked' # asked => asked < MaxCalls)
    /\ Bumped(failures, failures') /\ (failures' # failures => failures < MaxFailures)

LEMMA ChangeCounters ==
    ASSUME NEW c, NEW j, ChangeStep(c, j)
    PROVE  CountersStep
<1>1. ASSUME NEW next, NEW logged, NEW event, Changes(c, j, next, logged, event),
             asked' = asked \/ (asked < MaxCalls /\ asked' = asked + 1)
      PROVE  CountersStep
  BY <1>1 DEF Changes, Asked, files, CountersStep, Bumped
<1>2. ASSUME NEW kind, NEW life, Logs(c, j, kind, life),
             asked' = asked \/ (asked < MaxCalls /\ asked' = asked + 1)
      PROVE  CountersStep
  BY <1>1, <1>2 DEF Logs
<1>3. \/ \E kind, life : Logs(c, j, kind, life)
      \/ \E next, logged, event : Changes(c, j, next, logged, event)
  BY Zenon DEF ChangeStep, ApplyJobAction, SetJobAnnotations, AttachJobResult,
     SetJobExecution, Recover
<1>4. asked' = asked \/ (asked < MaxCalls /\ asked' = asked + 1)
  BY Zenon DEF ChangeStep, ApplyJobAction, SetJobAnnotations, AttachJobResult,
     SetJobExecution, Recover, Serves, Asks
<1> QED
  BY <1>1, <1>2, <1>3, <1>4

LEMMA BatchCounters ==
    ASSUME NEW c, NEW b, BatchStep(c, b)
    PROVE  CountersStep
<1>1. asked < MaxCalls /\ asked' = asked + 1 /\ UNCHANGED Asked
  BY Zenon DEF BatchStep, BatchActionReads, ReorderReads, CreateJobReads, Asks
<1> QED
  BY <1>1 DEF Asked, files, CountersStep, Bumped

LEMMA CallCounters ==
    ASSUME NEW c, CallStep(c)
    PROVE  CountersStep
<1>1. CASE \/ RewriteWrites(c) \/ ChangeWrites(c) \/ ChangeAppends(c)
           \/ CreateJobConfig(c) \/ CreateJobDocument(c) \/ CreateJobMember(c)
           \/ CreateJobAppends(c)
  <2>1. UNCHANGED <<mode, saved, bounds>>
    BY <1>1, Zenon DEF RewriteWrites, ChangeWrites, ChangeAppends, CreateJobConfig,
       CreateJobDocument, CreateJobMember, CreateJobAppends
  <2> QED
    BY <2>1 DEF bounds, CountersStep, Bumped
<1>2. CASE SaveChecks(c)
  BY <1>2 DEF SaveChecks, Asks, Asked, files, CountersStep, Bumped
<1>3. CASE SaveWrites(c)
  BY <1>3 DEF SaveWrites, bounds, CountersStep, Bumped
<1>4. CASE Throws(c)
  BY <1>4 DEF Throws, CountersStep, Bumped
<1> QED
  BY <1>1, <1>2, <1>3, <1>4 DEF CallStep

LEMMA NextCounters ==
    ASSUME CountersOK, [Next]_vars
    PROVE  CountersOK'
<1>1. CASE CountersStep
  <2>1. MaxCalls \in Nat /\ MaxFailures \in Nat
    BY CatalogConstants
  <2> QED
    BY <1>1, <2>1 DEF CountersOK, CountersStep, Bumped
<1>2. ASSUME NEW b \in Batch, CreateBatch(b) PROVE CountersStep
  BY <1>2 DEF CreateBatch, bounds, CountersStep, Bumped
<1>3. CASE OpenTraversal \/ ListPage
  <2>1. CountersStep
    BY <1>3 DEF OpenTraversal, ListPage, Asks, files, bounds, CountersStep, Bumped
  <2> QED
    BY <1>1, <2>1
<1>4. CASE Crash \/ Restart \/ Opened
  <2>1. CountersStep
    BY <1>4 DEF Crash, Restart, Opened, files, bounds, CountersStep, Bumped
  <2> QED
    BY <1>1, <2>1
<1>5. CASE UNCHANGED vars
  BY <1>5 DEF vars, CountersOK
<1> QED
  BY <1>1, <1>2, <1>3, <1>4, <1>5, CallCounters, BatchCounters, ChangeCounters DEF Next

(* Every file, call and reading keeps its shape, and nothing is done       *)
(* beyond the bounds of the model.                                         *)
THEOREM TypeCorrect == Spec => []TypeOK
<1>1. Init => CountersOK
  BY CatalogConstants DEF Init, CountersOK
<1>2. CountersOK /\ [Next]_vars => CountersOK'
  BY NextCounters
<1>3. CatalogInv /\ CompleteInv /\ TraversalInv /\ CountersOK => TypeOK
  <2> SUFFICES ASSUME CatalogInv, CompleteInv, TraversalInv, CountersOK PROVE TypeOK
    OBVIOUS
  <2>1. FilesOK /\ CallsOK
    BY DEF CatalogInv
  <2>2. gaps \in [Job -> Nat] /\ traversal \in Traversal
    BY DEF CompleteInv, TraversalInv
  <2> QED
    BY <2>1, <2>2 DEF FilesOK, CallsOK, CallSet, CountersOK, TypeOK
<1> QED
  BY <1>1, <1>2, <1>3, CatalogInvariant, CompleteInvariant, TraversalInvariant, PTL DEF Spec
=============================================================================
