------------------------- MODULE AdminProcess_proofs -------------------------
(***************************************************************************)
(* Mutual exclusion of the orchestrator lock, for any set of processes,    *)
(* hosts and pids, provided the recovery step is run separately from an    *)
(* ordinary start; and that the admin service keeps the discipline of the  *)
(* lock, so that what holds of the lock holds of the service.              *)
(***************************************************************************)
EXTENDS AdminProcess, TLAPS

-----------------------------------------------------------------------------
(* The lock: what is proved here is about Spec of OrchestratorLock.        *)

(* Live processes of one machine have different pids.                      *)
PidsUnique ==
    \A p, q \in Proc :
        Alive(p) /\ Alive(q) /\ HostOf[p] = HostOf[q] /\ PidOf[p] = PidOf[q] => p = q

(* The file names whoever holds the lock.                                  *)
HolderPublished == \A p \in Proc : Holds(p) => file = RecordOf(p)

(* One recovery step at a time, and no start while one is under way.       *)
RecoveryAlone ==
    \A r \in Proc : Recovering(r) =>
        /\ \A q \in Proc : Recovering(q) => q = r
        /\ \A q \in Proc : phase[q] # "starting"

(* While a recovery step runs the file can only have gone; when the step   *)
(* is about to remove it, nobody holds the lock.                           *)
RecoveryKnows ==
    \A r \in Proc :
        /\ phase[r] = "recovering" => file \in {seen[r], NoFile}
        /\ phase[r] = "removing_stale" => \A q \in Proc : ~ Holds(q)

IInv == TypeOK /\ PidsUnique /\ HolderPublished /\ RecoveryAlone /\ RecoveryKnows

(* The records of processes that could be confused are told apart.         *)
LEMMA RecordNames ==
    ASSUME NEW p \in Proc, NEW q \in Proc, RecordOf(p) = RecordOf(q)
    PROVE  HostOf[p] = HostOf[q] /\ PidOf[p] = PidOf[q]
  <1>1. RecordOf(p).host = RecordOf(q).host /\ RecordOf(p).pid = RecordOf(q).pid
    OBVIOUS
  <1>2. QED  BY <1>1 DEF RecordOf

(* A record is a content, and never one of the two other contents.         *)
LEMMA RecordIsContent ==
    ASSUME NEW p \in Proc
    PROVE  /\ RecordOf(p) \in Record
           /\ RecordOf(p) \in Content
           /\ RecordOf(p) # NoFile
           /\ RecordOf(p) # Damaged
  <1>1. RecordOf(p) \in Record  BY LockConstants DEF RecordOf, Record
  <1>2. RecordOf(p).kind = "record" /\ NoFile.kind = "absent" /\ Damaged.kind = "damaged"
    BY DEF RecordOf, NoFile, Damaged
  <1>3. QED  BY <1>1, <1>2 DEF Content

(* The strengthened invariant holds initially.                             *)
LEMMA InitIInv == Init => IInv
  BY DEF Init, IInv, TypeOK, Phases, Replies, Content, PidsUnique, HolderPublished,
         RecoveryAlone, RecoveryKnows, Alive, Holds, Recovering

(* Every step keeps the type invariant.                                    *)
LEMMA TypeStep == TypeOK /\ [Next]_vars => TypeOK'
  <1> SUFFICES ASSUME TypeOK, [Next]_vars PROVE TypeOK'  OBVIOUS
  <1>0. NoFile \in Content  BY DEF Content
  <1>1. CASE UNCHANGED vars  BY <1>1 DEF TypeOK, vars
  <1>2. ASSUME NEW p \in Proc, Start(p) PROVE TypeOK'
    BY <1>2 DEF TypeOK, Start, Phases
  <1>3. ASSUME NEW p \in Proc, tryCreateLock(p) PROVE TypeOK'
    BY <1>3, RecordIsContent DEF TypeOK, tryCreateLock, Phases
  <1>4. ASSUME NEW p \in Proc, LinkRefused(p) PROVE TypeOK'
    BY <1>4 DEF TypeOK, LinkRefused, Phases
  <1>5. ASSUME NEW p \in Proc, ClassifyRefusal(p) PROVE TypeOK'
    <2>1. Refusal(p, file) \in Replies  BY DEF Refusal, Replies
    <2>2. QED  BY <1>5, <2>1 DEF TypeOK, ClassifyRefusal, Phases
  <1>6. ASSUME NEW p \in Proc, Close(p) PROVE TypeOK'
    BY <1>6 DEF TypeOK, Close, Phases
  <1>7. ASSUME NEW p \in Proc, ReleaseRead(p) PROVE TypeOK'
    BY <1>7 DEF TypeOK, ReleaseRead, Phases
  <1>8. ASSUME NEW p \in Proc, ReleaseRemove(p) PROVE TypeOK'
    BY <1>0, <1>8 DEF TypeOK, ReleaseRemove, Phases
  <1>9. ASSUME NEW p \in Proc, Exit(p) PROVE TypeOK'
    BY <1>0, <1>9 DEF TypeOK, Exit, Phases
  <1>10. ASSUME NEW p \in Proc, StartRecovery(p) PROVE TypeOK'
    BY <1>10 DEF TypeOK, StartRecovery, Phases
  <1>11. ASSUME NEW p \in Proc, CheckStale(p) PROVE TypeOK'
    BY <1>11 DEF TypeOK, CheckStale, Phases
  <1>12. ASSUME NEW p \in Proc, RemoveStale(p) PROVE TypeOK'
    BY <1>0, <1>12 DEF TypeOK, RemoveStale, Phases
  <1>13. QED
    BY <1>1, <1>2, <1>3, <1>4, <1>5, <1>6, <1>7, <1>8, <1>9, <1>10, <1>11, <1>12
    DEF Next

(* Every step of separately recovered processes keeps the invariant.       *)
LEMMA StepIInv == SeparateRecovery /\ IInv /\ [Next]_vars => IInv'
  <1> SUFFICES ASSUME SeparateRecovery, IInv, [Next]_vars PROVE IInv'  OBVIOUS
  <1> USE DEF Alive, Holds, Recovering
  <1>0. TypeOK'  BY TypeStep DEF IInv
  <1>T. phase \in [Proc -> Phases] /\ seen \in [Proc -> Content]  BY DEF IInv, TypeOK
  <1>1. CASE UNCHANGED vars
    BY <1>0, <1>1 DEF IInv, vars, PidsUnique, HolderPublished, RecoveryAlone, RecoveryKnows
  <1>2. ASSUME NEW p \in Proc, Start(p) PROVE IInv'
    <2>1. PidsUnique'
      BY <1>2, <1>T DEF IInv, Start, PidsUnique, PidIsFree, processIsAlive
    <2>2. HolderPublished'  BY <1>2, <1>T DEF IInv, Start, HolderPublished, RecordOf
    <2>3. RecoveryAlone'  BY <1>2, <1>T DEF IInv, Start, RecoveryAlone
    <2>4. RecoveryKnows'  BY <1>2, <1>T DEF IInv, Start, RecoveryKnows
    <2>5. QED  BY <1>0, <2>1, <2>2, <2>3, <2>4 DEF IInv
  <1>3. ASSUME NEW p \in Proc, tryCreateLock(p) PROVE IInv'
    <2>1. PidsUnique'  BY <1>3, <1>T DEF IInv, tryCreateLock, PidsUnique
    <2>2. \A q \in Proc : ~ Holds(q)
      BY <1>3, RecordIsContent DEF IInv, tryCreateLock, HolderPublished
    <2>3. HolderPublished'
      BY <1>3, <1>T, <2>2 DEF tryCreateLock, HolderPublished, RecordOf
    <2>4. \A r \in Proc : ~ Recovering(r)
      BY <1>3 DEF IInv, tryCreateLock, RecoveryAlone
    <2>5. RecoveryAlone' /\ RecoveryKnows'
      BY <1>3, <1>T, <2>4 DEF tryCreateLock, RecoveryAlone, RecoveryKnows
    <2>6. QED  BY <1>0, <2>1, <2>3, <2>5 DEF IInv
  <1>4. ASSUME NEW p \in Proc, LinkRefused(p) PROVE IInv'
    BY <1>0, <1>4, <1>T
    DEF IInv, LinkRefused, PidsUnique, HolderPublished, RecoveryAlone, RecoveryKnows, RecordOf
  <1>5. ASSUME NEW p \in Proc, ClassifyRefusal(p) PROVE IInv'
    BY <1>0, <1>5, <1>T
    DEF IInv, ClassifyRefusal, PidsUnique, HolderPublished, RecoveryAlone, RecoveryKnows, RecordOf
  <1>6. ASSUME NEW p \in Proc, Close(p) PROVE IInv'
    BY <1>0, <1>6, <1>T
    DEF IInv, Close, PidsUnique, HolderPublished, RecoveryAlone, RecoveryKnows, RecordOf
  <1>7. ASSUME NEW p \in Proc, ReleaseRead(p) PROVE IInv'
    BY <1>0, <1>7, <1>T
    DEF IInv, ReleaseRead, PidsUnique, HolderPublished, RecoveryAlone, RecoveryKnows, RecordOf
  <1>8. ASSUME NEW p \in Proc, ReleaseRemove(p) PROVE IInv'
    <2>1. PidsUnique'  BY <1>8, <1>T DEF IInv, ReleaseRemove, PidsUnique
    <2>2. \A q \in Proc : Holds(q) => q = p
      BY <1>8, RecordNames DEF IInv, ReleaseRemove, HolderPublished, PidsUnique
    <2>3. HolderPublished'  BY <1>8, <1>T, <2>2 DEF ReleaseRemove, HolderPublished
    <2>4. RecoveryAlone'  BY <1>8, <1>T DEF IInv, ReleaseRemove, RecoveryAlone
    <2>5. RecoveryKnows'  BY <1>8, <1>T DEF IInv, ReleaseRemove, RecoveryKnows
    <2>6. QED  BY <1>0, <2>1, <2>3, <2>4, <2>5 DEF IInv
  <1>9. ASSUME NEW p \in Proc, Exit(p) PROVE IInv'
    <2>1. PidsUnique'  BY <1>9, <1>T DEF IInv, Exit, PidsUnique
    <2>2. HolderPublished'  BY <1>9, <1>T DEF IInv, Exit, HolderPublished, RecordOf
    <2>3. RecoveryAlone'  BY <1>9, <1>T DEF IInv, Exit, RecoveryAlone
    <2>4. RecoveryKnows'  BY <1>9, <1>T DEF IInv, Exit, RecoveryKnows
    <2>5. QED  BY <1>0, <2>1, <2>2, <2>3, <2>4 DEF IInv
  <1>10. ASSUME NEW p \in Proc, StartRecovery(p) PROVE IInv'
    <2>1. PidsUnique'
      BY <1>10, <1>T DEF IInv, StartRecovery, PidsUnique, PidIsFree, processIsAlive
    <2>2. HolderPublished'  BY <1>10, <1>T DEF IInv, StartRecovery, HolderPublished, RecordOf
    <2>3. RecoveryAlone'  BY <1>10, <1>T DEF IInv, StartRecovery, RecoveryAlone
    <2>4. RecoveryKnows'  BY <1>10, <1>T DEF IInv, StartRecovery, RecoveryKnows
    <2>5. QED  BY <1>0, <2>1, <2>2, <2>3, <2>4 DEF IInv
  <1>11. ASSUME NEW p \in Proc, CheckStale(p) PROVE IInv'
    <2>1. PidsUnique'  BY <1>11, <1>T DEF IInv, CheckStale, PidsUnique
    <2>2. HolderPublished'  BY <1>11, <1>T DEF IInv, CheckStale, HolderPublished, RecordOf
    <2>3. RecoveryAlone'  BY <1>11, <1>T DEF IInv, CheckStale, RecoveryAlone
    <2>4. MayClear(p) => \A q \in Proc : ~ Holds(q)
      <3>1. SUFFICES ASSUME MayClear(p), NEW q \in Proc, Holds(q) PROVE FALSE  OBVIOUS
      <3>2. file = RecordOf(q) /\ file = seen[p]
        BY <1>11, <3>1, RecordIsContent DEF IInv, CheckStale, HolderPublished, RecoveryKnows
      <3>3. seen[p].host = HostOf[q] /\ seen[p].pid = PidOf[q]
        BY <3>2 DEF RecordOf
      <3>4. QED  BY <3>1, <3>2, <3>3, RecordIsContent DEF MayClear, processIsAlive
    <2>5. RecoveryKnows'  BY <1>11, <1>T, <2>4 DEF IInv, CheckStale, RecoveryKnows
    <2>6. QED  BY <1>0, <2>1, <2>2, <2>3, <2>5 DEF IInv
  <1>12. ASSUME NEW p \in Proc, RemoveStale(p) PROVE IInv'
    <2>1. PidsUnique'  BY <1>12, <1>T DEF IInv, RemoveStale, PidsUnique
    <2>2. \A q \in Proc : ~ Holds(q)  BY <1>12 DEF IInv, RemoveStale, RecoveryKnows
    <2>3. HolderPublished'  BY <1>12, <1>T, <2>2 DEF RemoveStale, HolderPublished
    <2>4. RecoveryAlone'  BY <1>12, <1>T DEF IInv, RemoveStale, RecoveryAlone
    <2>5. RecoveryKnows'  BY <1>12, <1>T, <2>2 DEF IInv, RemoveStale, RecoveryKnows
    <2>6. QED  BY <1>0, <2>1, <2>3, <2>4, <2>5 DEF IInv
  <1>13. QED
    BY <1>1, <1>2, <1>3, <1>4, <1>5, <1>6, <1>7, <1>8, <1>9, <1>10, <1>11, <1>12
    DEF Next

(* Type correctness of every reachable state, with no assumption about     *)
(* when the recovery step is run.                                          *)
THEOREM TypeCorrect == Spec => []TypeOK
  <1>1. Init => TypeOK  BY InitIInv DEF IInv
  <1>2. QED  BY <1>1, TypeStep, PTL DEF Spec

(* The published record makes the holder unique.                           *)
LEMMA IInvExcludes == IInv => MutualExclusion
  <1> SUFFICES ASSUME IInv, NEW p \in Proc, NEW q \in Proc, Holds(p), Holds(q) PROVE p = q
    BY DEF MutualExclusion
  <1>1. RecordOf(p) = RecordOf(q)  BY DEF IInv, HolderPublished
  <1>2. QED  BY <1>1, RecordNames DEF IInv, PidsUnique, Alive, Holds

(* However many processes contend for the catalog, at most one holds it.   *)
THEOREM Exclusion == SeparateRecovery => (Spec => []MutualExclusion)
  <1> SUFFICES ASSUME SeparateRecovery PROVE Spec => []MutualExclusion  OBVIOUS
  <1>1. IInv /\ [Next]_vars => IInv'  BY StepIInv
  <1>2. QED  BY <1>1, InitIInv, IInvExcludes, PTL DEF Spec

(* Nobody but its holder takes a live lock away.                           *)
THEOREM LiveLockSafe == SeparateRecovery => (Spec => LiveLockUntouched)
  <1> SUFFICES ASSUME SeparateRecovery PROVE Spec => LiveLockUntouched  OBVIOUS
  <1>1. IInv /\ [Next]_vars => IInv'  BY StepIInv
  <1>2. IInv' => (\A p \in Proc : Holds(p) /\ Holds(p)' => file' = RecordOf(p))
    BY DEF IInv, HolderPublished, RecordOf
  <1>3. QED  BY <1>1, <1>2, InitIInv, PTL DEF Spec, LiveLockUntouched

-----------------------------------------------------------------------------
(* The service: what is proved from here on is about ProcessSpec.          *)

(* A step of the service is a step of the lock, or none.                   *)
LEMMA StepIsLockStep == [ProcessNext]_processVars => [Next]_vars
  <1> SUFFICES ASSUME [ProcessNext]_processVars PROVE [Next]_vars  OBVIOUS
  <1>1. CASE UNCHANGED processVars  BY <1>1 DEF processVars
  <1>2. ASSUME NEW p \in Proc, LockStep(p) PROVE [Next]_vars  BY <1>2 DEF LockStep, Next
  <1>3. ASSUME NEW p \in Proc, Dies(p) PROVE [Next]_vars  BY <1>3 DEF Dies, Next
  <1>4. ASSUME NEW p \in Proc, QueueStep(p) PROVE [Next]_vars
    BY <1>4 DEF QueueStep, Opens, Release, FillDone, Ask, Begin, Settles
  <1>5. QED  BY <1>1, <1>2, <1>3, <1>4 DEF ProcessNext

(* The service implements the lock.                                        *)
THEOREM ImplementsLock == ProcessSpec => Spec
  <1>1. ProcessInit => Init  BY DEF ProcessInit
  <1>2. QED  BY <1>1, StepIsLockStep, PTL DEF ProcessSpec, Spec

(* Whatever the queues do, one process at a time holds the catalog.        *)
THEOREM ServiceExclusion == SeparateRecovery => (ProcessSpec => []MutualExclusion)
  BY Exclusion, ImplementsLock, PTL

(* And nobody but the holder removes its record.                           *)
THEOREM ServiceLiveLockSafe == SeparateRecovery => (ProcessSpec => LiveLockUntouched)
  BY LiveLockSafe, ImplementsLock, PTL

-----------------------------------------------------------------------------
(* Only a process that took the lock runs anything: it holds it still, or  *)
(* has given it back.                                                      *)
RunsUnderLock ==
    /\ filling \subseteq opened
    /\ attempts \in [Proc -> SUBSET Job]
    /\ \A p \in Proc :
        /\ attempts[p] # {} => p \in opened
        /\ p \in opened => Holds(p) \/ phase[p] = "released"

ProcessInv == TypeOK /\ RunsUnderLock

LEMMA InitProcessInv == ProcessInit => ProcessInv
  <1>1. ProcessInit => TypeOK  BY InitIInv DEF ProcessInit, IInv
  <1>2. ProcessInit => RunsUnderLock  BY DEF ProcessInit, RunsUnderLock
  <1>3. QED  BY <1>1, <1>2 DEF ProcessInv

(* No step lets a process run anything before it has the lock.             *)
LEMMA StepProcessInv == ProcessInv /\ [ProcessNext]_processVars => ProcessInv'
  <1> SUFFICES ASSUME ProcessInv, [ProcessNext]_processVars PROVE ProcessInv'  OBVIOUS
  <1>0. TypeOK'  BY StepIsLockStep, TypeStep DEF ProcessInv
  <1>T. phase \in [Proc -> Phases] /\ RunsUnderLock  BY DEF ProcessInv, TypeOK
  <1>1. ASSUME UNCHANGED processVars PROVE RunsUnderLock'
    BY <1>1, <1>T DEF processVars, vars, queues, RunsUnderLock, Holds
  <1>2. ASSUME NEW p \in Proc, LockStep(p) PROVE RunsUnderLock'
    <2>1. /\ UNCHANGED <<opened, filling, attempts>>
          /\ \A q \in Proc : Holds(q) \/ phase[q] = "released"
                                => (Holds(q) \/ phase[q] = "released")'
      BY <1>2, <1>T
      DEF LockStep, queues, Holds, Start, tryCreateLock, LinkRefused, ClassifyRefusal, Close,
          ReleaseRead, ReleaseRemove, StartRecovery, CheckStale, RemoveStale
    <2>2. QED  BY <2>1, <1>T DEF RunsUnderLock
  <1>3. ASSUME NEW p \in Proc, Dies(p) PROVE RunsUnderLock'
    BY <1>3, <1>T DEF Dies, Exit, RunsUnderLock, Holds
  <1>4. ASSUME NEW p \in Proc, Opens(p) PROVE RunsUnderLock'
    BY <1>4, <1>T DEF Opens, vars, RunsUnderLock, Holds
  <1>5. ASSUME NEW p \in Proc, Release(p) PROVE RunsUnderLock'
    BY <1>5, <1>T DEF Release, Serves, vars, RunsUnderLock, Holds
  <1>6. ASSUME NEW p \in Proc, FillDone(p) PROVE RunsUnderLock'
    BY <1>6, <1>T DEF FillDone, vars, RunsUnderLock, Holds
  <1>7. ASSUME NEW p \in Proc, NEW j \in Job, NEW verb \in Verbs, Ask(p, j, verb)
        PROVE  RunsUnderLock'
    BY <1>7, <1>T DEF Ask, Serves, vars, RunsUnderLock, Holds
  <1>8. ASSUME NEW p \in Proc, NEW j \in Job, Begin(p, j) PROVE RunsUnderLock'
    BY <1>8, <1>T DEF Begin, vars, RunsUnderLock, Holds
  <1>9. ASSUME NEW p \in Proc, NEW j \in Job, Settles(p, j) PROVE RunsUnderLock'
    BY <1>9, <1>T DEF Settles, vars, RunsUnderLock, Holds
  <1>10. RunsUnderLock'
    BY <1>1, <1>2, <1>3, <1>4, <1>5, <1>6, <1>7, <1>8, <1>9 DEF ProcessNext, QueueStep
  <1>11. QED  BY <1>0, <1>10 DEF ProcessInv

(* Two processes run one job only when one of them was told to stop, gave  *)
(* the lock back and went on.                                              *)
THEOREM LeftBehind == SeparateRecovery => (ProcessSpec => []OnlyLeftBehind)
  <1>1. ProcessInv /\ MutualExclusion => OnlyLeftBehind
    BY DEF ProcessInv, RunsUnderLock, MutualExclusion, OnlyLeftBehind
  <1>2. QED
    BY <1>1, InitProcessInv, StepProcessInv, ServiceExclusion, PTL DEF ProcessSpec
=============================================================================
