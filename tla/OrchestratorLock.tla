-------------------------- MODULE OrchestratorLock --------------------------
(***************************************************************************)
(* One orchestration process per catalog: the advisory lock file of        *)
(* apps/admin-server/src/service/lock.ts, taken and given back by main.ts. *)
(*                                                                         *)
(* A process publishes a complete record naming its pid and host with an   *)
(* exclusive link, or fails with EEXIST and then reads the file to say     *)
(* why.  Nothing that acquires a lock ever removes one; a stale file is    *)
(* removed only by the recovery step an operator runs by hand.             *)
(***************************************************************************)
EXTENDS Naturals, FiniteSets

CONSTANTS
    Proc,              \* operating system processes, each alive at most once
    Host, Pid,         \* machines, and the pids a machine hands out (reused)
    HostOf, PidOf,     \* what a process is called: functions on Proc
    SeparateRecovery   \* TRUE: the recovery step never overlaps a start
                       \* (main.ts: "run separately from an ordinary start")

ASSUME LockConstants ==
    /\ HostOf \in [Proc -> Host]
    /\ PidOf \in [Proc -> Pid]
    /\ SeparateRecovery \in BOOLEAN

NoFile  == [kind |-> "absent"]
Damaged == [kind |-> "damaged"]          \* bytes parseLockText refuses
RecordOf(p) == [kind |-> "record", pid |-> PidOf[p], host |-> HostOf[p]]
Record == [kind : {"record"}, pid : Pid, host : Host]
Content == Record \cup {NoFile, Damaged}

VARIABLES
    file,       \* orchestrator.lock under the catalog root
    phase,      \* where each process is in main()
    reply,      \* the refusal an unsuccessful start reported
    seen        \* the text a recovery step has read and not yet acted on

vars == <<file, phase, reply, seen>>

Phases == {"unborn", "starting", "refused", "held", "closing", "removing",
           "released", "recovering", "removing_stale", "dead"}
Replies == {"none", "admin/already_running", "admin/stale_lock"}

Alive(p) == phase[p] \notin {"unborn", "dead"}
Holds(p) == phase[p] \in {"held", "closing", "removing"}
Recovering(p) == phase[p] \in {"recovering", "removing_stale"}

(* process.kill(pid, 0) as seen from host h: some process has that pid.    *)
processIsAlive(h, pid) == \E q \in Proc : Alive(q) /\ HostOf[q] = h /\ PidOf[q] = pid

(* The operating system never gives one pid to two live processes.         *)
PidIsFree(p) == ~ processIsAlive(HostOf[p], PidOf[p])

TypeOK ==
    /\ file \in Content
    /\ phase \in [Proc -> Phases]
    /\ reply \in [Proc -> Replies]
    /\ seen \in [Proc -> Content]

Init ==
    /\ file \in Content              \* whatever the last crash left behind
    /\ phase = [p \in Proc |-> "unborn"]
    /\ reply = [p \in Proc |-> "none"]
    /\ seen = [p \in Proc |-> NoFile]

-----------------------------------------------------------------------------
(* An ordinary start.                                                      *)

Start(p) ==
    /\ phase[p] = "unborn"
    /\ PidIsFree(p)
    /\ SeparateRecovery => \A q \in Proc : ~ Recovering(q)
    /\ phase' = [phase EXCEPT ![p] = "starting"]
    /\ UNCHANGED <<file, reply, seen>>

(* Mutant: published with a rename, which replaces what was there.         *)
MutLinkReplaces(p) ==
    /\ phase[p] = "starting"
    /\ file' = RecordOf(p)
    /\ phase' = [phase EXCEPT ![p] = "held"]
    /\ UNCHANGED <<reply, seen>>

(* tryCreateLock wins: link creates the destination, which did not exist.  *)
tryCreateLock(p) ==
    /\ phase[p] = "starting"
    /\ file = NoFile
    /\ file' = RecordOf(p)
    /\ phase' = [phase EXCEPT ![p] = "held"]
    /\ UNCHANGED <<reply, seen>>

(* tryCreateLock fails with EEXIST.                                        *)
LinkRefused(p) ==
    /\ phase[p] = "starting"
    /\ file # NoFile
    /\ phase' = [phase EXCEPT ![p] = "refused"]
    /\ UNCHANGED <<file, reply, seen>>

(* What acquireOrchestratorLock answers about the file it then reads: the  *)
(* holder may have given it back in between.                               *)
Refusal(p, held) ==
    IF /\ held \in Record
       /\ \/ held.host # HostOf[p]
          \/ processIsAlive(HostOf[p], held.pid)
    THEN "admin/already_running"
    ELSE "admin/stale_lock"

ClassifyRefusal(p) ==
    /\ phase[p] = "refused"
    /\ reply' = [reply EXCEPT ![p] = Refusal(p, file)]
    /\ phase' = [phase EXCEPT ![p] = "dead"]
    /\ UNCHANGED <<file, seen>>

-----------------------------------------------------------------------------
(* Giving the lock back: release() reads the file, and removes it only if  *)
(* it still names this process.                                            *)

Close(p) ==
    /\ phase[p] = "held"
    /\ phase' = [phase EXCEPT ![p] = "closing"]
    /\ UNCHANGED <<file, reply, seen>>

ReleaseRead(p) ==
    /\ phase[p] = "closing"
    /\ phase' = [phase EXCEPT ![p] = IF file = RecordOf(p) THEN "removing" ELSE "released"]
    /\ UNCHANGED <<file, reply, seen>>

ReleaseRemove(p) ==
    /\ phase[p] = "removing"
    /\ file' = NoFile
    /\ phase' = [phase EXCEPT ![p] = "released"]
    /\ UNCHANGED <<reply, seen>>

(* A process that released its lock ends; any live process may be killed.  *)
Exit(p) ==
    /\ Alive(p)
    /\ phase' = [phase EXCEPT ![p] = "dead"]
    /\ seen' = [seen EXCEPT ![p] = NoFile]
    /\ UNCHANGED <<file, reply>>

-----------------------------------------------------------------------------
(* The recovery step (TCG_ADMIN_RECOVER_LOCK), a process of its own.  The  *)
(* administrator runs one at a time.                                       *)

StartRecovery(p) ==
    /\ phase[p] = "unborn"
    /\ PidIsFree(p)
    /\ \A q \in Proc : ~ Recovering(q)
    /\ SeparateRecovery => \A q \in Proc : phase[q] # "starting"
    /\ phase' = [phase EXCEPT ![p] = "recovering"]
    /\ seen' = [seen EXCEPT ![p] = file]
    /\ UNCHANGED <<file, reply>>

(* Mutant: clears without asking whether the named process is alive.       *)
MutClearLive(p) ==
    seen[p] = Damaged \/ (seen[p] \in Record /\ seen[p].host = HostOf[p])

MayClear(p) ==
    \/ seen[p] = Damaged
    \/ /\ seen[p] \in Record
       /\ seen[p].host = HostOf[p]
       /\ ~ processIsAlive(HostOf[p], seen[p].pid)

(* The checks of clearStaleOrchestratorLock on the text it read.           *)
CheckStale(p) ==
    /\ phase[p] = "recovering"
    /\ phase' = [phase EXCEPT ![p] = IF MayClear(p) THEN "removing_stale" ELSE "dead"]
    /\ UNCHANGED <<file, reply, seen>>

(* rm(path, force): whatever is there by now goes.                         *)
RemoveStale(p) ==
    /\ phase[p] = "removing_stale"
    /\ file' = NoFile
    /\ phase' = [phase EXCEPT ![p] = "dead"]
    /\ UNCHANGED <<reply, seen>>

-----------------------------------------------------------------------------
Next ==
    \E p \in Proc :
        \/ Start(p) \/ tryCreateLock(p) \/ LinkRefused(p) \/ ClassifyRefusal(p)
        \/ Close(p) \/ ReleaseRead(p) \/ ReleaseRemove(p) \/ Exit(p)
        \/ StartRecovery(p) \/ CheckStale(p) \/ RemoveStale(p)

Spec == Init /\ [][Next]_vars

-----------------------------------------------------------------------------
(* At most one process at a time holds the catalog: what lock.ts says the  *)
(* exclusive link guarantees for any number of simultaneous contenders.    *)
MutualExclusion ==
    \A p, q \in Proc : Holds(p) /\ Holds(q) => p = q

(* A live holder's record stays published until the holder itself removes  *)
(* it: no start, no other release and no recovery step takes it away       *)
(* (clearStaleOrchestratorLock: "A live lock, same-host or cross-host, is  *)
(* left untouched").                                                       *)
LiveLockUntouched ==
    [][\A p \in Proc : Holds(p) /\ Holds(p)' => file' = RecordOf(p)]_vars
=============================================================================
