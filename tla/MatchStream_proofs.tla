-------------------------- MODULE MatchStream_proofs --------------------------
(***************************************************************************)
(* Proofs about MatchStream: nothing is played or recorded twice, a stop   *)
(* leaves nothing behind that was handed out, and no document is written   *)
(* over half a schedule, for any schedule, any number of workers and any   *)
(* size of buffer, wherever an attempt is stopped, fails or dies.          *)
(***************************************************************************)
EXTENDS MatchStream, SequenceTheorems, TLAPS

-----------------------------------------------------------------------------
(* Lines: what is in a sequence, and in two of them one after the other.   *)

LEMMA JoinedLines ==
    ASSUME NEW S, NEW s \in Seq(S), NEW t \in Seq(S)
    PROVE  /\ s \o t \in Seq(S)
           /\ Entries(s \o t) = Entries(s) \cup Entries(t)
           /\ IsInjective(s \o t)
                <=> IsInjective(s) /\ IsInjective(t) /\ Entries(s) \cap Entries(t) = {}
<1> DEFINE m == Len(s)  n == Len(t)  both == s \o t
<1>1. /\ m \in Nat /\ n \in Nat /\ both \in Seq(S)
      /\ DOMAIN s = 1..m /\ DOMAIN t = 1..n /\ DOMAIN both = 1..(m + n)
  BY LenProperties, ConcatProperties
<1>2. \A i \in 1..m : i \in 1..(m + n) /\ both[i] = s[i]
  BY <1>1, ConcatProperties
<1>3. \A i \in 1..n : m + i \in 1..(m + n) /\ both[m + i] = t[i]
  <2> SUFFICES ASSUME NEW i \in 1..n PROVE m + i \in 1..(m + n) /\ both[m + i] = t[i]
    OBVIOUS
  <2>1. m + i \in 1..(m + n) /\ ~ (m + i <= m) /\ (m + i) - m = i
    BY <1>1
  <2>2. both[m + i] = IF m + i <= m THEN s[m + i] ELSE t[(m + i) - m]
    BY <2>1, ConcatProperties
  <2> QED
    BY <2>1, <2>2
<1>4. \A k \in 1..(m + n) : k \in 1..m \/ \E i \in 1..n : k = m + i
  <2> SUFFICES ASSUME NEW k \in 1..(m + n), k \notin 1..m PROVE \E i \in 1..n : k = m + i
    OBVIOUS
  <2>1. k - m \in 1..n /\ k = m + (k - m)
    BY <1>1
  <2> QED
    BY <2>1
<1> HIDE DEF m, n, both
<1>5. Entries(both) = Entries(s) \cup Entries(t)
  <2>1. \A x \in Entries(both) : x \in Entries(s) \cup Entries(t)
    <3> SUFFICES ASSUME NEW k \in 1..(m + n)
                 PROVE  both[k] \in Entries(s) \cup Entries(t)
      BY <1>1 DEF Entries
    <3>1. CASE k \in 1..m
      BY <3>1, <1>1, <1>2 DEF Entries
    <3>2. CASE k \notin 1..m
      <4>1. PICK i \in 1..n : k = m + i
        BY <3>2, <1>4
      <4>2. both[k] = t[i] /\ i \in DOMAIN t
        BY <4>1, <1>1, <1>3
      <4> QED
        BY <4>2 DEF Entries
    <3> QED
      BY <3>1, <3>2
  <2>2. \A x \in Entries(s) : x \in Entries(both)
    BY <1>1, <1>2 DEF Entries
  <2>3. \A x \in Entries(t) : x \in Entries(both)
    BY <1>1, <1>3 DEF Entries
  <2> QED
    BY <2>1, <2>2, <2>3
<1>6. ASSUME IsInjective(both)
      PROVE  IsInjective(s) /\ IsInjective(t) /\ Entries(s) \cap Entries(t) = {}
  <2>1. \A i, k \in 1..m : s[i] = s[k] => i = k
    BY <1>1, <1>2, <1>6 DEF IsInjective
  <2>2. \A i, k \in 1..n : t[i] = t[k] => i = k
    <3> SUFFICES ASSUME NEW i \in 1..n, NEW k \in 1..n, t[i] = t[k] PROVE i = k
      OBVIOUS
    <3>1. m + i = m + k
      BY <1>1, <1>3, <1>6 DEF IsInjective
    <3> QED
      BY <3>1, <1>1
  <2>3. \A i \in 1..m, k \in 1..n : s[i] # t[k]
    <3> SUFFICES ASSUME NEW i \in 1..m, NEW k \in 1..n, s[i] = t[k] PROVE FALSE
      OBVIOUS
    <3>1. i = m + k
      BY <1>1, <1>2, <1>3, <1>6 DEF IsInjective
    <3> QED
      BY <3>1, <1>1
  <2> QED
    BY <1>1, <2>1, <2>2, <2>3 DEF IsInjective, Entries
<1>7. ASSUME IsInjective(s), IsInjective(t), Entries(s) \cap Entries(t) = {}
      PROVE  IsInjective(both)
  <2>1. \A i \in 1..m, k \in 1..n : s[i] # t[k]
    BY <1>1, <1>7 DEF Entries
  <2>2. \A i, k \in 1..(m + n) : both[i] = both[k] => i = k
    <3> SUFFICES ASSUME NEW i \in 1..(m + n), NEW k \in 1..(m + n), both[i] = both[k]
                 PROVE  i = k
      OBVIOUS
    <3>1. CASE i \in 1..m /\ k \in 1..m
      BY <3>1, <1>1, <1>2, <1>7 DEF IsInjective
    <3>2. CASE i \in 1..m /\ k \notin 1..m
      BY <3>2, <1>2, <1>3, <1>4, <2>1
    <3>3. CASE i \notin 1..m /\ k \in 1..m
      BY <3>3, <1>2, <1>3, <1>4, <2>1
    <3>4. CASE i \notin 1..m /\ k \notin 1..m
      <4>1. PICK j \in 1..n, h \in 1..n : i = m + j /\ k = m + h
        BY <3>4, <1>4
      <4>2. t[j] = t[h]
        BY <4>1, <1>3
      <4> QED
        BY <4>1, <4>2, <1>1, <1>7 DEF IsInjective
    <3> QED
      BY <3>1, <3>2, <3>3, <3>4
  <2> QED
    BY <1>1, <2>2 DEF IsInjective
<1> QED
  BY <1>1, <1>5, <1>6, <1>7 DEF both

(* A sequence is what it begins with and the rest.                         *)
LEMMA CutLines ==
    ASSUME NEW S, NEW s \in Seq(S), NEW n \in 0..Len(s)
    PROVE  LET begun == SubSeq(s, 1, n)
               rest == SubSeq(s, n + 1, Len(s))
           IN  /\ begun \in Seq(S) /\ rest \in Seq(S) /\ Len(begun) = n
               /\ Entries(s) = Entries(begun) \cup Entries(rest)
               /\ IsInjective(s) => /\ IsInjective(begun) /\ IsInjective(rest)
                                    /\ Entries(begun) \cap Entries(rest) = {}
<1> DEFINE begun == SubSeq(s, 1, n)
           rest == SubSeq(s, n + 1, Len(s))
<1>1. Len(s) \in Nat /\ n \in Nat /\ n <= Len(s)
  BY LenProperties
<1>2. \A i \in 1..Len(s) : s[i] \in S
  BY ElementOfSeq
<1>3. begun \in Seq(S) /\ Len(begun) = n
  <2>1. \A i \in 1..n : s[i] \in S
    BY <1>1, <1>2
  <2> QED
    BY <1>1, <2>1, SubSeqProperties
<1>4. rest \in Seq(S)
  <2>1. \A i \in (n + 1)..Len(s) : s[i] \in S
    BY <1>1, <1>2
  <2>2. n + 1 \in Int /\ Len(s) \in Int
    BY <1>1
  <2> QED
    BY <2>1, <2>2, SubSeqProperties
<1>5. s = begun \o rest
  <2>1. 1 \in 1..(Len(s) + 1) /\ n \in (1 - 1)..Len(s) /\ Len(s) \in n..Len(s)
    BY <1>1
  <2>2. begun \o rest = SubSeq(s, 1, Len(s))
    BY <2>1, ConcatAdjacentSubSeq
  <2> QED
    BY <2>2, SubSeqFull
<1> HIDE DEF begun, rest
<1>6. /\ Entries(begun \o rest) = Entries(begun) \cup Entries(rest)
      /\ IsInjective(begun \o rest)
           <=> IsInjective(begun) /\ IsInjective(rest) /\ Entries(begun) \cap Entries(rest) = {}
  BY <1>3, <1>4, JoinedLines
<1> QED
  BY <1>3, <1>4, <1>5, <1>6 DEF begun, rest

LEMMA OneLine ==
    ASSUME NEW S, NEW s \in Seq(S), NEW x \in S
    PROVE  /\ Append(s, x) \in Seq(S) /\ Len(Append(s, x)) = Len(s) + 1
           /\ Entries(Append(s, x)) = Entries(s) \cup {x}
           /\ IsInjective(s) /\ x \notin Entries(s) => IsInjective(Append(s, x))
<1> DEFINE one == <<x>>
<1>1. one \in Seq(S) /\ Entries(one) = {x} /\ IsInjective(one)
  BY DEF Entries, IsInjective
<1>2. Append(s, x) = s \o one
  BY AppendIsConcat
<1>3. Append(s, x) \in Seq(S) /\ Len(Append(s, x)) = Len(s) + 1
  BY AppendProperties
<1> HIDE DEF one
<1>4. /\ Entries(s \o one) = Entries(s) \cup Entries(one)
      /\ IsInjective(s \o one)
           <=> IsInjective(s) /\ IsInjective(one) /\ Entries(s) \cap Entries(one) = {}
  BY <1>1, JoinedLines
<1> QED
  BY <1>1, <1>2, <1>3, <1>4

LEMMA NoLines == /\ Entries(<<>>) = {} /\ IsInjective(<<>>)
                 /\ \A S : <<>> \in Seq(S)
  BY DEF Entries, IsInjective

LEMMA LinesAre == \A S : \A s \in Seq(S) : Entries(s) \subseteq S
  BY LenProperties, ElementOfSeq DEF Entries

-----------------------------------------------------------------------------
(* The store and the file.                                                 *)

(* No line is written twice: not in the stream, not in what is read of it  *)
(* and not yet written again, not in the buffer.                           *)
LinesApart ==
    /\ IsInjective(stream) /\ IsInjective(left) /\ IsInjective(buffer)
    /\ Entries(stream) \cap (Entries(left) \cup Entries(buffer)) = {}

(* What the store knows is what is on disk, about to be there again or     *)
(* buffered; half a line and what is half read are left by a dead attempt  *)
(* and dealt with as the next one opens the file.  Only a batch has        *)
(* matches to hand out.                                                    *)
AttemptIsSound ==
    /\ ~ created => stream = <<>> /\ ~ torn
    /\ at # "idle" => created /\ ~ torn
    /\ at # "rewriting" => left = <<>>
    /\ at \in {"idle", "rewriting", "header"} => buffer = <<>>
    /\ at # "idle" => known = Entries(stream) \cup Entries(left) \cup Entries(buffer)
    /\ at \notin {"batch", "closing"} => jobs = {}

StoreInv == TypeOK /\ LinesApart /\ AttemptIsSound

LEMMA ScheduleIs ==
    /\ 1 \in DOMAIN Schedule
    /\ Len(Schedule) \in Nat /\ DOMAIN Schedule = 1..Len(Schedule)
    /\ \A k \in DOMAIN Schedule : Schedule[k] \in Seq(Match)
    /\ \A k \in DOMAIN Schedule : \A n \in DOMAIN Schedule[k] : Schedule[k][n] \in Match
<1>1. Schedule \in Seq(Seq(Match)) /\ Schedule # <<>>
  BY StreamConstants
<1>2. Len(Schedule) \in Nat /\ DOMAIN Schedule = 1..Len(Schedule) /\ Len(Schedule) # 0
  BY <1>1, LenProperties, EmptySeq
<1>3. \A k \in DOMAIN Schedule : Schedule[k] \in Seq(Match)
  BY <1>1, <1>2, ElementOfSeq
<1>4. \A k \in DOMAIN Schedule : \A n \in DOMAIN Schedule[k] : Schedule[k][n] \in Match
  BY <1>3, LenProperties, ElementOfSeq
<1> QED
  BY <1>2, <1>3, <1>4

LEMMA InitStore == Init => StoreInv
<1> SUFFICES ASSUME Init PROVE StoreInv
  OBVIOUS
<1>1. TypeOK
  <2>1. playing \in [Threads -> Match \cup {"off", "starting", "idle"}]
    BY DEF Init, AllOff
  <2>2. /\ buffer \in Seq(Match) /\ Len(buffer) <= FlushEvery
        /\ stream \in Seq(Match) /\ left \in Seq(Match)
    BY StreamConstants DEF Init
  <2>3. attempts \in 0..MaxAttempts /\ arm \in DOMAIN Schedule
    BY StreamConstants, ScheduleIs DEF Init
  <2> QED
    BY <2>1, <2>2, <2>3 DEF Init, TypeOK, Places
<1>2. LinesApart /\ AttemptIsSound
  BY NoLines DEF Init, LinesApart, AttemptIsSound
<1> QED
  BY <1>1, <1>2 DEF StoreInv

(* A flush puts the whole buffer behind the stream.                        *)
LEMMA BufferWritten ==
    ASSUME StoreInv, at # "idle", Flushed
    PROVE  /\ stream' \in Seq(Match) /\ torn' = FALSE
           /\ Entries(stream') = Entries(stream) \cup Entries(buffer)
           /\ IsInjective(stream')
<1>1. /\ stream \in Seq(Match) /\ buffer \in Seq(Match) /\ torn = FALSE
      /\ IsInjective(stream) /\ IsInjective(buffer) /\ Entries(stream) \cap Entries(buffer) = {}
  BY DEF StoreInv, TypeOK, LinesApart, AttemptIsSound
<1>2. CASE buffer = <<>>
  BY <1>1, <1>2, NoLines DEF Flushed
<1>3. CASE buffer # <<>>
  <2>1. stream' = stream \o buffer /\ torn' = FALSE
    BY <1>1, <1>3 DEF Flushed, AppendLines
  <2> QED
    BY <1>1, <2>1, JoinedLines
<1> QED
  BY <1>2, <1>3

(* What is left is what is written next and the rest.                      *)
LEMMA ChunkIs ==
    ASSUME TypeOK
    PROVE  LET rest == SubSeq(left, Len(Chunk) + 1, Len(left))
           IN  /\ Chunk \in Seq(Match) /\ rest \in Seq(Match)
               /\ Entries(left) = Entries(Chunk) \cup Entries(rest)
               /\ IsInjective(left)
                    => /\ IsInjective(Chunk) /\ IsInjective(rest)
                       /\ Entries(Chunk) \cap Entries(rest) = {}
<1> DEFINE n == IF Len(left) < FlushEvery THEN Len(left) ELSE FlushEvery
           rest == SubSeq(left, n + 1, Len(left))
<1>1. left \in Seq(Match) /\ Len(left) \in Nat /\ FlushEvery \in Nat
  BY StreamConstants, LenProperties DEF TypeOK
<1>2. n \in 0..Len(left)
  BY <1>1
<1>3. Chunk = SubSeq(left, 1, n)
  BY DEF Chunk
<1> HIDE DEF n
<1> QED
  BY <1>1, <1>2, <1>3, CutLines

(* A write that is cut short leaves whole lines and at most half of one.   *)
LEMMA CutShortIs ==
    ASSUME StoreInv, at # "idle", CutShort
    PROVE  stream' \in Seq(Match) /\ torn' \in BOOLEAN /\ IsInjective(stream')
<1>1. /\ stream \in Seq(Match) /\ buffer \in Seq(Match) /\ torn = FALSE
      /\ IsInjective(stream) /\ IsInjective(buffer) /\ Entries(stream) \cap Entries(buffer) = {}
      /\ IsInjective(left) /\ Entries(stream) \cap Entries(left) = {}
  BY DEF StoreInv, TypeOK, LinesApart, AttemptIsSound
<1>2. /\ Writing \in Seq(Match) /\ IsInjective(Writing)
      /\ Entries(stream) \cap Entries(Writing) = {}
  <2>1. /\ Chunk \in Seq(Match) /\ IsInjective(Chunk)
        /\ Entries(stream) \cap Entries(Chunk) = {}
    BY <1>1, ChunkIs DEF StoreInv
  <2>2. Writing = Chunk \/ Writing = buffer \/ Writing = <<>>
    BY DEF Writing
  <2> QED
    BY <1>1, <2>1, <2>2, NoLines
<1>3. CASE UNCHANGED <<stream, torn>>
  BY <1>1, <1>3
<1>4. ASSUME NEW n \in 0..Len(Writing), NEW half \in BOOLEAN,
             stream' = stream \o (IF torn /\ n > 0 THEN Tail(SubSeq(Writing, 1, n))
                                                   ELSE SubSeq(Writing, 1, n)),
             torn' = (half \/ (torn /\ n = 0))
      PROVE  stream' \in Seq(Match) /\ torn' \in BOOLEAN /\ IsInjective(stream')
  <2> DEFINE begun == SubSeq(Writing, 1, n)
  <2>1. stream' = stream \o begun /\ torn' = half
    BY <1>1, <1>4
  <2>2. /\ begun \in Seq(Match) /\ IsInjective(begun)
        /\ Entries(begun) \subseteq Entries(Writing)
    BY <1>2, CutLines
  <2> HIDE DEF begun
  <2>3. Entries(stream) \cap Entries(begun) = {}
    BY <1>2, <2>2
  <2> QED
    BY <1>1, <2>1, <2>2, <2>3, JoinedLines
<1> QED
  BY <1>3, <1>4 DEF CutShort

(* A record that is accepted is known, buffered and nowhere else.          *)
LEMMA Accepted ==
    ASSUME StoreInv, at = "batch", ~ Full,
           NEW match \in Match, NEW outcome, Accept(match, outcome)
    PROVE  /\ buffer' \in Seq(Match) /\ Len(buffer') <= FlushEvery /\ IsInjective(buffer')
           /\ known' = Entries(stream) \cup Entries(buffer')
           /\ Entries(stream) \cap Entries(buffer') = {}
           /\ known \subseteq known' /\ known' \subseteq known \cup {match}
           /\ known' \cup failed' = known \cup failed \cup {match}
           /\ failed \subseteq failed' /\ failed' \subseteq Match /\ known' \subseteq Match
           /\ fresh' \subseteq Match /\ abnormal' \in BOOLEAN
<1>1. /\ stream \in Seq(Match) /\ buffer \in Seq(Match) /\ IsInjective(buffer)
      /\ Entries(stream) \cap Entries(buffer) = {} /\ left = <<>>
      /\ known = Entries(stream) \cup Entries(left) \cup Entries(buffer)
      /\ failed \subseteq Match /\ fresh \subseteq Match /\ known \subseteq Match
      /\ abnormal \in BOOLEAN /\ Len(buffer) <= FlushEvery
  BY DEF StoreInv, TypeOK, LinesApart, AttemptIsSound
<1>2. known = Entries(stream) \cup Entries(buffer)
  BY <1>1, NoLines
<1>3. Len(buffer) + 1 <= FlushEvery
  BY <1>1, StreamConstants, LenProperties DEF Full
<1>4. abnormal' \in BOOLEAN
  BY <1>1 DEF Accept
<1>5. CASE outcome = "failed"
  BY <1>1, <1>2, <1>4, <1>5 DEF Accept
<1>6. CASE outcome # "failed" /\ match \in known
  BY <1>1, <1>2, <1>4, <1>6 DEF Accept
<1>7. CASE outcome # "failed" /\ match \notin known
  <2>1. /\ buffer' = Append(buffer, match) /\ known' = known \cup {match}
        /\ fresh' = fresh \cup {match} /\ failed' = failed
    BY <1>7 DEF Accept
  <2>2. /\ buffer' \in Seq(Match) /\ Len(buffer') = Len(buffer) + 1 /\ IsInjective(buffer')
        /\ Entries(buffer') = Entries(buffer) \cup {match}
    BY <1>1, <1>2, <1>7, <2>1, OneLine
  <2> QED
    BY <1>1, <1>2, <1>3, <1>4, <1>7, <2>1, <2>2
<1> QED
  BY <1>5, <1>6, <1>7

(* What a thread is given next, or that there is nothing more to give.     *)
LEMMA Dispatched ==
    ASSUME TypeOK, NEW worker \in Worker,
           Dispatch(worker, [playing EXCEPT ![worker] = "idle"])
    PROVE  /\ at' \in {at, "closing"}
           /\ jobs' \subseteq jobs /\ taken' \subseteq Match /\ stoppedFor' \in BOOLEAN
           /\ playing' \in [Threads -> Match \cup {"off", "starting", "idle"}]
<1> DEFINE free == [playing EXCEPT ![worker] = "idle"]
<1>1. free \in [Threads -> Match \cup {"off", "starting", "idle"}]
  BY DEF TypeOK
<1>2. AllOff \in [Threads -> Match \cup {"off", "starting", "idle"}]
  BY DEF AllOff
<1>3. stoppedFor' \in BOOLEAN /\ taken \subseteq Match
  BY DEF Dispatch, SeesStop, TypeOK
<1> HIDE DEF free
<1>4. CASE Takes(worker, free) /\ UNCHANGED at
  <2>1. PICK n \in jobs : /\ playing' = [free EXCEPT ![worker] = Schedule[arm][n]]
                          /\ jobs' = jobs \ {n} /\ taken' = taken \cup {Schedule[arm][n]}
    BY <1>4 DEF Takes
  <2>2. Schedule[arm][n] \in Match
    BY ScheduleIs DEF TypeOK
  <2> QED
    BY <1>1, <1>3, <1>4, <2>1, <2>2
<1>5. CASE playing' = AllOff /\ at' = "closing" /\ UNCHANGED <<jobs, taken>>
  BY <1>2, <1>3, <1>5
<1>6. CASE playing' = free /\ UNCHANGED <<jobs, taken, at>>
  BY <1>1, <1>3, <1>6
<1> QED
  BY <1>4, <1>5, <1>6 DEF Dispatch, free

LEMMA LoopTook ==
    ASSUME TypeOK, LoopTakes
    PROVE  /\ at' \in {at, "closing"}
           /\ jobs' \subseteq jobs /\ taken' \subseteq Match /\ stoppedFor' \in BOOLEAN
           /\ playing' \in [Threads -> Match \cup {"off", "starting", "idle"}]
<1>1. playing \in [Threads -> Match \cup {"off", "starting", "idle"}] /\ taken \subseteq Match
  BY DEF TypeOK
<1>2. AllOff \in [Threads -> Match \cup {"off", "starting", "idle"}]
  BY DEF AllOff
<1>3. stoppedFor' \in BOOLEAN
  BY DEF LoopTakes, SeesStop, TypeOK
<1>4. CASE Takes(Main, playing) /\ UNCHANGED at
  <2>1. PICK n \in jobs : /\ playing' = [playing EXCEPT ![Main] = Schedule[arm][n]]
                          /\ jobs' = jobs \ {n} /\ taken' = taken \cup {Schedule[arm][n]}
    BY <1>4 DEF Takes
  <2>2. Schedule[arm][n] \in Match
    BY ScheduleIs DEF TypeOK
  <2> QED
    BY <1>1, <1>3, <1>4, <2>1, <2>2
<1>5. CASE playing' = AllOff /\ at' = "closing" /\ UNCHANGED <<jobs, taken>>
  BY <1>1, <1>2, <1>3, <1>5
<1> QED
  BY <1>4, <1>5 DEF LoopTakes

(* The end of an attempt, however it comes.                                *)
LEMMA Ended ==
    ASSUME StoreInv, NEW how \in {"stopped", "failed", "completed"}, Ends(how),
           stream' \in Seq(Match), torn' \in BOOLEAN, IsInjective(stream'), created' = created,
           header' \in {"none", "torn", "whole"}, created,
           UNCHANGED <<documents, threads, known, arm, stoppedFor, abnormal, fresh, failed, taken,
                       asked, failFast, attempts>>
    PROVE  StoreInv'
<1>1. TypeOK'
  <2>1. AllOff \in [Threads -> Match \cup {"off", "starting", "idle"}]
    BY DEF AllOff
  <2>2. /\ buffer' \in Seq(Match) /\ Len(buffer') <= FlushEvery /\ left' \in Seq(Match)
        /\ at' = "idle" /\ result' = how /\ playing' = AllOff /\ jobs' = {}
    BY StreamConstants DEF Ends
  <2> QED
    BY <2>1, <2>2 DEF StoreInv, TypeOK, Places
<1>2. LinesApart' /\ AttemptIsSound'
  BY NoLines DEF Ends, StoreInv, LinesApart, AttemptIsSound, TypeOK
<1> QED
  BY <1>1, <1>2 DEF StoreInv

LEMMA Opened ==
    ASSUME StoreInv, NEW workers \in SUBSET Worker, OpenFresh(workers) \/ OpenResumed(workers)
    PROVE  StoreInv'
<1>1. CASE OpenFresh(workers)
  <2>1. TypeOK'
    <3>1. attempts' \in 0..MaxAttempts
      BY <1>1, StreamConstants DEF OpenFresh, NewAttempt, StoreInv, TypeOK
    <3> QED
      BY <1>1, <3>1 DEF OpenFresh, NewAttempt, StoreInv, TypeOK, Places
  <2>2. LinesApart' /\ AttemptIsSound'
    BY <1>1, NoLines
    DEF OpenFresh, NewAttempt, StoreInv, LinesApart, AttemptIsSound, TypeOK
  <2> QED
    BY <2>1, <2>2 DEF StoreInv
<1>2. CASE OpenResumed(workers)
  <2>1. Entries(stream) \subseteq Match
    BY LinesAre DEF StoreInv, TypeOK
  <2>2. TypeOK'
    <3>1. attempts' \in 0..MaxAttempts
      BY <1>2, StreamConstants DEF OpenResumed, NewAttempt, StoreInv, TypeOK
    <3> QED
      BY <1>2, <2>1, <3>1, NoLines
      DEF OpenResumed, NewAttempt, Truncated, StoreInv, TypeOK, Places
  <2>3. LinesApart' /\ AttemptIsSound'
    BY <1>2, NoLines
    DEF OpenResumed, NewAttempt, Truncated, StoreInv, LinesApart, AttemptIsSound, TypeOK
  <2> QED
    BY <2>2, <2>3 DEF StoreInv
<1> QED
  BY <1>1, <1>2

(* Each batch of lines goes from what is left to the end of the stream.    *)
LEMMA Rewritten ==
    ASSUME StoreInv, Rewrite
    PROVE  StoreInv'
<1>1. /\ stream \in Seq(Match) /\ left \in Seq(Match) /\ torn = FALSE /\ buffer = <<>>
      /\ IsInjective(stream) /\ IsInjective(left) /\ Entries(stream) \cap Entries(left) = {}
      /\ known = Entries(stream) \cup Entries(left) \cup Entries(buffer)
  BY DEF Rewrite, StoreInv, TypeOK, LinesApart, AttemptIsSound
<1>2. CASE left = <<>>
  <2>1. TypeOK'
    BY <1>2 DEF Rewrite, batch, StoreInv, TypeOK, Places
  <2>2. LinesApart' /\ AttemptIsSound'
    BY <1>1, <1>2, NoLines DEF Rewrite, batch, StoreInv, LinesApart, AttemptIsSound
  <2> QED
    BY <2>1, <2>2 DEF StoreInv
<1>3. CASE left # <<>>
  <2> DEFINE rest == SubSeq(left, Len(Chunk) + 1, Len(left))
  <2>1. /\ Chunk \in Seq(Match) /\ rest \in Seq(Match)
        /\ Entries(left) = Entries(Chunk) \cup Entries(rest)
        /\ IsInjective(Chunk) /\ IsInjective(rest) /\ Entries(Chunk) \cap Entries(rest) = {}
    BY <1>1, ChunkIs DEF StoreInv
  <2>2. stream' = stream \o Chunk /\ left' = rest /\ torn' = FALSE /\ at' = at
    BY <1>1, <1>3 DEF Rewrite, AppendLines
  <2> HIDE DEF rest
  <2>3. Entries(stream) \cap Entries(Chunk) = {}
    BY <1>1, <2>1
  <2>4. /\ stream' \in Seq(Match) /\ IsInjective(stream')
        /\ Entries(stream') = Entries(stream) \cup Entries(Chunk)
    BY <1>1, <2>1, <2>2, <2>3, JoinedLines
  <2>5. TypeOK'
    BY <2>1, <2>2, <2>4 DEF Rewrite, batch, StoreInv, TypeOK
  <2>6. LinesApart' /\ AttemptIsSound'
    BY <1>1, <2>1, <2>2, <2>4, NoLines DEF Rewrite, batch, StoreInv, LinesApart, AttemptIsSound
  <2> QED
    BY <2>5, <2>6 DEF StoreInv
<1> QED
  BY <1>2, <1>3

LEMMA BufferFlushed ==
    ASSUME StoreInv, Flush
    PROVE  StoreInv'
<1>1. buffer # <<>>
  BY StreamConstants DEF Flush, Full
<1>2. at \notin {"idle", "rewriting", "header"} /\ left = <<>>
  BY <1>1 DEF StoreInv, AttemptIsSound
<1>3. /\ stream' \in Seq(Match) /\ torn' = FALSE /\ IsInjective(stream')
      /\ Entries(stream') = Entries(stream) \cup Entries(buffer)
  BY <1>2, BufferWritten DEF Flush
<1>4. TypeOK'
  <2>1. buffer' \in Seq(Match) /\ Len(buffer') <= FlushEvery
    BY StreamConstants DEF Flush
  <2> QED
    BY <1>3, <2>1 DEF Flush, batch, StoreInv, TypeOK
<1>5. LinesApart' /\ AttemptIsSound'
  BY <1>2, <1>3, NoLines DEF Flush, batch, StoreInv, LinesApart, AttemptIsSound
<1> QED
  BY <1>4, <1>5 DEF StoreInv

LEMMA BatchStarted ==
    ASSUME StoreInv, StartBatch
    PROVE  StoreInv'
<1>1. playing' \in [Threads -> Match \cup {"off", "starting", "idle"}]
  BY DEF StartBatch, AllOff, Threads
<1>2. jobs' \subseteq DOMAIN Schedule[arm]
  BY DEF StartBatch, Pending
<1>3. TypeOK'
  BY <1>1, <1>2 DEF StartBatch, disk, StoreInv, TypeOK, Places
<1>4. LinesApart' /\ AttemptIsSound'
  BY DEF StartBatch, disk, StoreInv, LinesApart, AttemptIsSound
<1> QED
  BY <1>3, <1>4 DEF StoreInv

(* An answer is accepted and the thread is given its next match.           *)
LEMMA AnswerTaken ==
    ASSUME StoreInv, NEW worker \in Worker, NEW outcome, WorkerAnswers(worker, outcome)
    PROVE  StoreInv'
<1> DEFINE match == playing[worker]
<1>1. at = "batch" /\ ~ Full /\ match \in Match /\ Accept(match, outcome)
  BY DEF WorkerAnswers, Handling
<1> HIDE DEF match
<1>2. /\ buffer' \in Seq(Match) /\ Len(buffer') <= FlushEvery /\ IsInjective(buffer')
      /\ known' = Entries(stream) \cup Entries(buffer')
      /\ Entries(stream) \cap Entries(buffer') = {}
      /\ failed' \subseteq Match /\ known' \subseteq Match
      /\ fresh' \subseteq Match /\ abnormal' \in BOOLEAN
  BY <1>1, Accepted
<1>3. /\ at' \in {at, "closing"} /\ jobs' \subseteq jobs /\ taken' \subseteq Match
      /\ stoppedFor' \in BOOLEAN
      /\ playing' \in [Threads -> Match \cup {"off", "starting", "idle"}]
  BY Dispatched DEF WorkerAnswers, StoreInv
<1>4. TypeOK'
  BY <1>2, <1>3 DEF WorkerAnswers, disk, StoreInv, TypeOK, Places
<1>5. LinesApart' /\ AttemptIsSound'
  BY <1>1, <1>2, <1>3, NoLines DEF WorkerAnswers, disk, StoreInv, LinesApart, AttemptIsSound
<1> QED
  BY <1>4, <1>5 DEF StoreInv

LEMMA MatchEnded ==
    ASSUME StoreInv, NEW outcome, MatchEnds(outcome)
    PROVE  StoreInv'
<1> DEFINE match == playing[Main]
<1>1. at = "batch" /\ ~ Full /\ match \in Match /\ Accept(match, outcome)
  BY DEF MatchEnds, Handling
<1> HIDE DEF match
<1>2. /\ buffer' \in Seq(Match) /\ Len(buffer') <= FlushEvery /\ IsInjective(buffer')
      /\ known' = Entries(stream) \cup Entries(buffer')
      /\ Entries(stream) \cap Entries(buffer') = {}
      /\ failed' \subseteq Match /\ known' \subseteq Match
      /\ fresh' \subseteq Match /\ abnormal' \in BOOLEAN
  BY <1>1, Accepted
<1>3. playing' \in [Threads -> Match \cup {"off", "starting", "idle"}]
  BY DEF MatchEnds, StoreInv, TypeOK
<1>4. TypeOK'
  BY <1>2, <1>3 DEF MatchEnds, disk, StoreInv, TypeOK
<1>5. LinesApart' /\ AttemptIsSound'
  BY <1>1, <1>2, NoLines DEF MatchEnds, disk, StoreInv, LinesApart, AttemptIsSound
<1> QED
  BY <1>4, <1>5 DEF StoreInv

LEMMA StoreStep == StoreInv /\ [Next]_vars => StoreInv'
<1> SUFFICES ASSUME StoreInv, [Next]_vars PROVE StoreInv'
  OBVIOUS
<1>1. ASSUME NEW workers \in (SUBSET Worker) \ {{}}, OpenFresh(workers) \/ OpenResumed(workers)
      PROVE  StoreInv'
  BY <1>1, Opened
<1>2. CASE OpenRefused
  <2>1. attempts' \in 0..MaxAttempts
    BY <1>2, StreamConstants DEF OpenRefused, NewAttempt, StoreInv, TypeOK
  <2>2. TypeOK'
    BY <1>2, <2>1 DEF OpenRefused, NewAttempt, StoreInv, TypeOK
  <2>3. LinesApart' /\ AttemptIsSound'
    BY <1>2 DEF OpenRefused, NewAttempt, StoreInv, LinesApart, AttemptIsSound
  <2> QED
    BY <2>2, <2>3 DEF StoreInv
<1>3. CASE Flush
  BY <1>3, BufferFlushed
<1>4. CASE Rewrite
  BY <1>4, Rewritten
<1>5. CASE WriteHeader
  <2>1. TypeOK'
    BY <1>5, ScheduleIs DEF WriteHeader, StoreInv, TypeOK, Places, AttemptIsSound
  <2>2. LinesApart' /\ AttemptIsSound'
    BY <1>5 DEF WriteHeader, StoreInv, LinesApart, AttemptIsSound
  <2> QED
    BY <2>1, <2>2 DEF StoreInv
<1>6. CASE StartBatch
  BY <1>6, BatchStarted
<1>7. CASE LoopTakes
  <2>1. /\ at = "batch" /\ at' \in {at, "closing"} /\ jobs' \subseteq jobs /\ taken' \subseteq Match
        /\ stoppedFor' \in BOOLEAN
        /\ playing' \in [Threads -> Match \cup {"off", "starting", "idle"}]
    BY <1>7, LoopTook DEF StoreInv, LoopTakes, Handling
  <2>2. TypeOK'
    BY <1>7, <2>1 DEF LoopTakes, disk, StoreInv, TypeOK, Places
  <2>3. LinesApart' /\ AttemptIsSound'
    BY <1>7, <2>1 DEF LoopTakes, disk, StoreInv, LinesApart, AttemptIsSound
  <2> QED
    BY <2>2, <2>3 DEF StoreInv
<1>8. ASSUME NEW outcome \in Outcomes, MatchEnds(outcome)
      PROVE  StoreInv'
  BY <1>8, MatchEnded
<1>9. CASE BatchStops
  <2>1. created /\ at # "idle"
    BY <1>9 DEF BatchStops, StoreInv, AttemptIsSound
  <2>2. stream' \in Seq(Match) /\ torn' \in BOOLEAN /\ IsInjective(stream')
    BY <1>9, <2>1, BufferWritten DEF BatchStops, FlushedAtStop
  <2> QED
    BY <1>9, <2>1, <2>2, Ended DEF BatchStops, StoreInv, TypeOK
<1>10. CASE BatchReturns
  <2>1. arm' \in DOMAIN Schedule
    BY <1>10, ScheduleIs DEF BatchReturns, StoreInv, TypeOK
  <2>2. TypeOK'
    BY <1>10, <2>1 DEF BatchReturns, disk, StoreInv, TypeOK, Places, Documents
  <2>3. LinesApart' /\ AttemptIsSound'
    BY <1>10 DEF BatchReturns, disk, StoreInv, LinesApart, AttemptIsSound
  <2> QED
    BY <2>2, <2>3 DEF StoreInv
<1>11. CASE WriteDocument
  <2>1. at' \in {"summary", "report", "flush"} /\ at \in Documents
    BY <1>11 DEF WriteDocument, Documents, After
  <2>2. TypeOK'
    BY <1>11, <2>1 DEF WriteDocument, batch, StoreInv, TypeOK, Places, Documents
  <2>3. LinesApart' /\ AttemptIsSound'
    BY <1>11, <2>1 DEF WriteDocument, batch, StoreInv, LinesApart, AttemptIsSound, Documents
  <2> QED
    BY <2>2, <2>3 DEF StoreInv
<1>12. CASE Finish
  <2>1. created /\ at # "idle"
    BY <1>12 DEF Finish, StoreInv, AttemptIsSound
  <2>2. stream' \in Seq(Match) /\ torn' \in BOOLEAN /\ IsInjective(stream')
    BY <1>12, <2>1, BufferWritten DEF Finish, FlushedAtEnd
  <2> QED
    BY <1>12, <2>1, <2>2, Ended DEF Finish, StoreInv, TypeOK
<1>13. ASSUME NEW worker \in Worker, WorkerReady(worker)
       PROVE  StoreInv'
  <2>1. /\ at = "batch" /\ at' \in {at, "closing"} /\ jobs' \subseteq jobs /\ taken' \subseteq Match
        /\ stoppedFor' \in BOOLEAN
        /\ playing' \in [Threads -> Match \cup {"off", "starting", "idle"}]
    BY <1>13, Dispatched DEF StoreInv, WorkerReady, Handling
  <2>2. TypeOK'
    BY <1>13, <2>1 DEF WorkerReady, disk, StoreInv, TypeOK, Places
  <2>3. LinesApart' /\ AttemptIsSound'
    BY <1>13, <2>1 DEF WorkerReady, disk, StoreInv, LinesApart, AttemptIsSound
  <2> QED
    BY <2>2, <2>3 DEF StoreInv
<1>14. ASSUME NEW worker \in Worker, NEW outcome \in Outcomes, WorkerAnswers(worker, outcome)
       PROVE  StoreInv'
  BY <1>14, AnswerTaken
<1>15. ASSUME NEW worker \in Worker, PoolFails(worker)
       PROVE  StoreInv'
  <2>1. created /\ at # "idle"
    BY <1>15 DEF PoolFails, Handling, StoreInv, AttemptIsSound
  <2> QED
    BY <1>15, <2>1, Ended DEF PoolFails, disk, StoreInv, TypeOK, LinesApart
<1>16. CASE AskStop
  BY <1>16 DEF AskStop, disk, batch, StoreInv, TypeOK, LinesApart, AttemptIsSound
<1>17. CASE Crash
  <2>1. created /\ at # "idle"
    BY <1>17 DEF Crash, StoreInv, AttemptIsSound
  <2>2. stream' \in Seq(Match) /\ torn' \in BOOLEAN /\ IsInjective(stream')
    BY <1>17, <2>1, CutShortIs DEF Crash
  <2>3. header' \in {"none", "torn", "whole"}
    BY <1>17 DEF Crash, StoreInv, TypeOK
  <2> QED
    BY <1>17, <2>1, <2>2, <2>3, Ended DEF Crash
<1>18. CASE UNCHANGED vars
  BY <1>18 DEF vars, disk, batch, StoreInv, TypeOK, LinesApart, AttemptIsSound
<1> QED
  BY <1>1, <1>2, <1>3, <1>4, <1>5, <1>6, <1>7, <1>8, <1>9, <1>10, <1>11, <1>12, <1>13, <1>14,
     <1>15, <1>16, <1>17, <1>18
  DEF Next, Open, MainStep, WorkerStep

(* The stream, the buffer and the threads keep their shapes, however the   *)
(* attempts of a run are opened, stopped, cut short and resumed.           *)
THEOREM TypeCorrect == Spec => []TypeOK
<1>1. StoreInv => TypeOK
  BY DEF StoreInv
<1> QED
  BY InitStore, StoreStep, <1>1, PTL DEF Spec

-----------------------------------------------------------------------------
(* The work of a batch.                                                    *)

Held(hand, match) == \E t \in Threads : hand[t] = match

(* The main thread plays or the workers do; they play different matches,   *)
(* none of them in the store and none still to be handed out.              *)
Apart(hand, store) ==
    /\ hand[Main] # "off" => \A worker \in Worker : hand[worker] = "off"
    /\ \A t \in Threads : hand[t] \in Match => hand[t] \notin store
    /\ \A t, u \in Threads : hand[t] \in Match /\ hand[t] = hand[u] => t = u
    /\ \A n \in jobs : Schedule[arm][n] \notin store /\ ~ Held(hand, Schedule[arm][n])

(* A match that was handed out has come to an end or is played; so has     *)
(* every match of the schedule up to here that is not still to be taken.   *)
PastIsOver(over) == \A k \in DOMAIN Schedule : k < arm => Entries(Schedule[k]) \subseteq over

Whole(hand, over) ==
    /\ \A match \in taken : match \in over \/ Held(hand, match)
    /\ ~ failFast =>
          /\ PastIsOver(over)
          /\ \A n \in DOMAIN Schedule[arm] :
                n \in jobs \/ Schedule[arm][n] \in over \/ Held(hand, Schedule[arm][n])

BatchIsOver(over) ==
    /\ taken \subseteq over
    /\ ~ failFast => /\ PastIsOver(over)
                     /\ ~ stoppedFor => Entries(Schedule[arm]) \subseteq over

Over == known \cup failed

WorkIsSound ==
    /\ at # "batch" => playing = AllOff
    /\ at \in {"batch", "closing"} => Apart(playing, known)
    /\ at = "batch" => Whole(playing, Over)
    /\ at = "closing" => BatchIsOver(Over)
    /\ at \notin {"idle", "batch"} => taken \subseteq Over
    /\ at = "arm" /\ ~ failFast => PastIsOver(Over)
    /\ at \in Documents \cup {"flush"} /\ ~ failFast => Scheduled \subseteq Over

StreamInv == StoreInv /\ WorkIsSound

Hand == [Threads -> Match \cup {"off", "starting", "idle"}]

LEMMA NoMatch == /\ "off" \notin Match /\ "starting" \notin Match /\ "idle" \notin Match
                 /\ Main \notin Worker
  BY StreamConstants

(* The match a thread takes is nobody else's and nobody takes it again.    *)
LEMMA Given ==
    ASSUME TypeOK, NEW hand \in Hand, NEW worker \in Threads, hand[worker] = "idle",
           Takes(worker, hand), UNCHANGED <<arm, failFast>>,
           Apart(hand, known'), Whole(hand, Over')
    PROVE  Apart(playing, known)' /\ Whole(playing, Over)'
<1>1. PICK n \in jobs : /\ playing' = [hand EXCEPT ![worker] = Schedule[arm][n]]
                        /\ jobs' = jobs \ {n} /\ taken' = taken \cup {Schedule[arm][n]}
  BY DEF Takes
<1> DEFINE match == Schedule[arm][n]
<1>2. match \in Match /\ n \in DOMAIN Schedule[arm] /\ arm \in DOMAIN Schedule
  BY ScheduleIs DEF TypeOK
<1>3. /\ playing'[worker] = match
      /\ \A t \in Threads : t # worker => playing'[t] = hand[t]
  BY <1>1 DEF Hand
<1>4. match \notin known' /\ \A t \in Threads : hand[t] # match
  BY DEF Apart, Held
<1>5. \A k \in jobs' : Schedule[arm][k] # match
  BY <1>1, <1>2, Distinct DEF TypeOK
<1>6. \A other \in Match : Held(hand, other) => Held(playing, other)'
  BY <1>3, NoMatch DEF Held
<1>7. Apart(playing, known)'
  <2>1. playing'[Main] # "off" => \A w \in Worker : playing'[w] = "off"
    BY <1>3, NoMatch DEF Apart, Threads
  <2>2. \A t \in Threads : playing'[t] \in Match => playing'[t] \notin known'
    BY <1>3, <1>4 DEF Apart
  <2>3. \A t, u \in Threads : playing'[t] \in Match /\ playing'[t] = playing'[u] => t = u
    BY <1>2, <1>3, <1>4 DEF Apart
  <2>4. \A k \in jobs' : /\ Schedule[arm][k] \notin known'
                         /\ \A t \in Threads : playing'[t] # Schedule[arm][k]
    BY <1>1, <1>3, <1>5 DEF Apart, Held
  <2> QED
    BY <2>1, <2>2, <2>3, <2>4 DEF Apart, Held
<1>8. Whole(playing, Over)'
  <2>1. \A other \in taken' : other \in Over' \/ Held(playing, other)'
    <3>1. Held(playing, match)'
      BY <1>3 DEF Held
    <3>2. \A other \in taken : other \in Over' \/ Held(playing, other)'
      BY <1>6 DEF Whole, TypeOK
    <3> QED
      BY <1>1, <3>1, <3>2
  <2>2. ASSUME ~ failFast, NEW k \in DOMAIN Schedule[arm]
        PROVE  k \in jobs' \/ Schedule[arm][k] \in Over' \/ Held(playing, Schedule[arm][k])'
    <3>1. CASE k = n
      BY <1>3, <3>1 DEF Held
    <3>2. CASE k # n
      BY <1>1, <1>2, <1>6, <2>2, <3>2, ScheduleIs DEF Whole
    <3> QED
      BY <3>1, <3>2
  <2>3. ~ failFast => PastIsOver(Over)'
    BY DEF Whole, PastIsOver
  <2> QED
    BY <2>1, <2>2, <2>3 DEF Whole
<1> QED
  BY <1>7, <1>8

(* With nobody at work and nothing to take the batch has come to its end.  *)
LEMMA Closed ==
    ASSUME TypeOK, NEW hand \in Hand, NobodyPlays(hand),
           NoMoreWork \/ failFast, SeesStop \/ failFast,
           playing' = AllOff, UNCHANGED <<arm, failFast, jobs, taken>>,
           Apart(hand, known'), Whole(hand, Over')
    PROVE  Apart(playing, known)' /\ BatchIsOver(Over)' /\ taken' \subseteq Over'
<1>1. \A t \in Threads : playing'[t] = "off"
  BY DEF AllOff
<1>2. \A match \in Match : ~ Held(hand, match)
  BY DEF Held, NobodyPlays
<1>3. \A n \in DOMAIN Schedule[arm] : Schedule[arm][n] \in Match
  BY ScheduleIs DEF TypeOK
<1>4. Apart(playing, known)'
  <2>1. \A n \in jobs : /\ Schedule[arm][n] \notin known' /\ Schedule[arm][n] \in Match
    BY <1>3 DEF Apart, TypeOK
  <2> QED
    BY <1>1, <2>1, NoMatch DEF Apart, Held, Threads
<1>5. taken' \subseteq Over'
  BY <1>2 DEF Whole, TypeOK
<1>6. ASSUME ~ failFast
      PROVE  PastIsOver(Over)' /\ (~ stoppedFor' => Entries(Schedule[arm]) \subseteq Over')
  <2>1. PastIsOver(Over)'
    BY <1>6 DEF Whole, PastIsOver
  <2>2. ~ stoppedFor' => jobs = {}
    BY <1>6 DEF SeesStop, NoMoreWork
  <2>3. ~ stoppedFor' => \A n \in DOMAIN Schedule[arm] : Schedule[arm][n] \in Over'
    BY <1>2, <1>3, <1>6, <2>2 DEF Whole
  <2> QED
    BY <2>1, <2>3 DEF Entries
<1> QED
  BY <1>4, <1>5, <1>6 DEF BatchIsOver

(* What the dispatcher does next keeps the batch sound.                    *)
LEMMA DispatchIsSound ==
    ASSUME TypeOK, NEW worker \in Worker, at = "batch",
           Dispatch(worker, [playing EXCEPT ![worker] = "idle"]), UNCHANGED <<arm, failFast>>,
           Apart([playing EXCEPT ![worker] = "idle"], known'),
           Whole([playing EXCEPT ![worker] = "idle"], Over')
    PROVE  WorkIsSound'
<1> DEFINE free == [playing EXCEPT ![worker] = "idle"]
<1>1. free \in Hand /\ worker \in Threads /\ free[worker] = "idle"
  BY DEF TypeOK, Hand, Threads
<1> HIDE DEF free
<1>2. CASE Takes(worker, free) /\ UNCHANGED at
  <2>1. Apart(playing, known)' /\ Whole(playing, Over)'
    BY <1>1, <1>2, Given DEF free
  <2> QED
    BY <1>2, <2>1 DEF WorkIsSound, Documents
<1>3. CASE /\ NoMoreWork /\ PoolIsDone(free)
           /\ playing' = AllOff /\ at' = "closing" /\ UNCHANGED <<jobs, taken>>
  <2>1. Apart(playing, known)' /\ BatchIsOver(Over)' /\ taken' \subseteq Over'
    BY <1>1, <1>3, Closed DEF PoolIsDone, Dispatch, free
  <2> QED
    BY <1>3, <2>1 DEF WorkIsSound, Documents, AllOff
<1>4. CASE playing' = free /\ UNCHANGED <<jobs, taken, at>>
  <2>1. Apart(playing, known)' /\ Whole(playing, Over)'
    BY <1>4 DEF Apart, Whole, Held, PastIsOver, free
  <2> QED
    BY <1>4, <2>1 DEF WorkIsSound, Documents
<1> QED
  BY <1>2, <1>3, <1>4 DEF Dispatch, free

(* The end of a match frees its thread and leaves it accounted for.        *)
LEMMA MatchIsOver ==
    ASSUME StreamInv, at = "batch", NEW thread \in Threads, playing[thread] \in Match,
           known \subseteq known', known' \subseteq known \cup {playing[thread]},
           Over' = Over \cup {playing[thread]}
    PROVE  /\ Apart([playing EXCEPT ![thread] = "idle"], known')
           /\ Whole([playing EXCEPT ![thread] = "idle"], Over')
<1> DEFINE match == playing[thread]
           free == [playing EXCEPT ![thread] = "idle"]
<1>1. /\ playing \in Hand /\ Apart(playing, known) /\ Whole(playing, Over)
  BY DEF StreamInv, StoreInv, TypeOK, WorkIsSound, Hand
<1>2. free[thread] = "idle" /\ \A t \in Threads : t # thread => free[t] = playing[t]
  BY <1>1 DEF Hand
<1>3. match # "off" /\ match # "idle" /\ "idle" \notin Match
  BY NoMatch
<1> HIDE DEF match, free
<1>4. \A other : Held(free, other) => other = "idle" \/ Held(playing, other)
  BY <1>2 DEF Held
<1>5. \A other : Held(playing, other) => other = match \/ Held(free, other)
  BY <1>2 DEF Held, match
<1>6. \A n \in jobs : Schedule[arm][n] \in Match
  BY ScheduleIs DEF StreamInv, StoreInv, TypeOK
<1>7. Apart(free, known')
  <2>1. free[Main] # "off" => \A w \in Worker : free[w] = "off"
    <3>1. CASE thread = Main
      BY <1>1, <1>2, <1>3, <3>1, NoMatch DEF Apart, Threads, match
    <3>2. CASE thread # Main
      <4>1. thread \in Worker /\ playing[thread] # "off"
        BY <1>3, <3>2 DEF Threads, match
      <4>2. playing[Main] = "off"
        BY <1>1, <4>1 DEF Apart
      <4> QED
        BY <1>2, <3>2, <4>2 DEF Threads
    <3> QED
      BY <3>1, <3>2
  <2>2. \A t \in Threads : free[t] \in Match => free[t] \notin known'
    BY <1>1, <1>2, <1>3 DEF Apart, match
  <2>3. \A t, u \in Threads : free[t] \in Match /\ free[t] = free[u] => t = u
    BY <1>1, <1>2, <1>3 DEF Apart
  <2>4. \A n \in jobs : Schedule[arm][n] \notin known' /\ ~ Held(free, Schedule[arm][n])
    <3> SUFFICES ASSUME NEW n \in jobs
                 PROVE  Schedule[arm][n] \notin known' /\ ~ Held(free, Schedule[arm][n])
      OBVIOUS
    <3>1. Schedule[arm][n] \notin known /\ ~ Held(playing, Schedule[arm][n])
      BY <1>1 DEF Apart
    <3>2. Held(playing, match)
      BY DEF Held, match
    <3> QED
      BY <1>3, <1>4, <1>6, <3>1, <3>2 DEF match
  <2> QED
    BY <2>1, <2>2, <2>3, <2>4 DEF Apart
<1>8. Whole(free, Over')
  <2>1. Over' = Over \cup {match}
    BY DEF match
  <2> HIDE DEF match
  <2>2. \A other : other \in Over \/ Held(playing, other) => other \in Over' \/ Held(free, other)
    BY <1>5, <2>1
  <2>3. PastIsOver(Over) => PastIsOver(Over')
    BY <2>1 DEF PastIsOver
  <2> QED
    BY <1>1, <2>2, <2>3 DEF Whole
<1> QED
  BY <1>7, <1>8 DEF free

LEMMA BatchBegins ==
    ASSUME StreamInv, StartBatch
    PROVE  WorkIsSound'
<1>1. /\ taken \subseteq Over /\ (~ failFast => PastIsOver(Over)) /\ taken \subseteq Match
      /\ arm \in DOMAIN Schedule
  BY DEF StartBatch, StreamInv, StoreInv, TypeOK, WorkIsSound
<1>2. /\ UNCHANGED <<known, failed, taken, arm, failFast>> /\ at' = "batch"
      /\ jobs' = {n \in DOMAIN Schedule[arm] : Schedule[arm][n] \notin known}
  BY DEF StartBatch, Pending
<1>3. \A t \in Threads : playing'[t] \notin Match
  BY NoMatch DEF StartBatch, AllOff, Threads
<1>4. playing'[Main] # "off" => \A w \in Worker : playing'[w] = "off"
  <2>1. CASE playing' = [AllOff EXCEPT ![Main] = "idle"]
    BY <2>1, NoMatch DEF AllOff, Threads
  <2>2. ASSUME NEW workers \in SUBSET threads,
               playing' = [t \in Threads |-> IF t \in workers THEN "starting" ELSE "off"]
        PROVE  playing'[Main] = "off"
    <3>1. Main \notin workers /\ Main \in Threads
      BY NoMatch DEF StreamInv, StoreInv, TypeOK, Threads
    <3> QED
      BY <2>2, <3>1
  <2> QED
    BY <2>1, <2>2 DEF StartBatch
<1>5. \A n \in DOMAIN Schedule[arm] : Schedule[arm][n] \in Match
  BY <1>1, ScheduleIs
<1>6. Apart(playing, known)'
  BY <1>2, <1>3, <1>4, <1>5 DEF Apart, Held
<1>7. Whole(playing, Over)'
  <2>1. Over' = Over
    BY <1>2 DEF Over
  <2>2. \A n \in DOMAIN Schedule[arm] : n \in jobs' \/ Schedule[arm][n] \in Over'
    BY <1>2, <2>1 DEF Over
  <2>3. (~ failFast => PastIsOver(Over)')
    BY <1>1, <1>2, <2>1 DEF PastIsOver
  <2> QED
    BY <1>1, <1>2, <2>1, <2>2, <2>3 DEF Whole
<1> QED
  BY <1>2, <1>6, <1>7 DEF WorkIsSound, Documents

LEMMA LoopIsSound ==
    ASSUME StreamInv, LoopTakes
    PROVE  WorkIsSound'
<1>1. /\ TypeOK /\ at = "batch" /\ playing[Main] = "idle" /\ playing \in Hand /\ Main \in Threads
      /\ UNCHANGED <<arm, failFast, known, failed>>
      /\ Apart(playing, known) /\ Whole(playing, Over)
  BY DEF LoopTakes, Handling, disk, StreamInv, StoreInv, TypeOK, WorkIsSound, Hand, Threads
<1>2. known' = known /\ Over' = Over
  BY <1>1 DEF Over
<1>3. Apart(playing, known') /\ Whole(playing, Over')
  BY <1>1, <1>2
<1>4. CASE Takes(Main, playing) /\ UNCHANGED at
  <2>1. Apart(playing, known)' /\ Whole(playing, Over)'
    BY <1>1, <1>3, <1>4, Given
  <2> QED
    BY <1>1, <1>4, <2>1 DEF WorkIsSound, Documents
<1>5. CASE /\ NoMoreWork \/ FailedFast
           /\ playing' = AllOff /\ at' = "closing" /\ UNCHANGED <<jobs, taken>>
  <2>1. NobodyPlays(playing)
    BY <1>1, NoMatch DEF NobodyPlays, Apart, Threads
  <2>2. Apart(playing, known)' /\ BatchIsOver(Over)' /\ taken' \subseteq Over'
    BY <1>1, <1>3, <1>5, <2>1, Closed DEF LoopTakes, FailedFast
  <2> QED
    BY <1>5, <2>2 DEF WorkIsSound, Documents, AllOff
<1> QED
  BY <1>4, <1>5 DEF LoopTakes

(* The end of an attempt and the steps that touch no batch.                *)
LEMMA QuietWork ==
    ASSUME WorkIsSound,
           UNCHANGED <<at, known, failed, taken, arm, jobs, playing, stoppedFor, failFast>>
    PROVE  WorkIsSound'
BY DEF WorkIsSound, Apart, Whole, BatchIsOver, PastIsOver, Over, Held, AllOff

LEMMA EndedWork ==
    ASSUME NEW how, Ends(how)
    PROVE  WorkIsSound'
BY DEF Ends, WorkIsSound, Documents, AllOff

(* A batch that was not stopped leaves nothing open.                       *)
LEMMA BatchIsLeft ==
    ASSUME StreamInv, BatchReturns
    PROVE  WorkIsSound'
<1>1. /\ at = "closing" /\ ~ stoppedFor /\ arm \in DOMAIN Schedule
      /\ BatchIsOver(Over) /\ taken \subseteq Over /\ playing = AllOff
  BY DEF BatchReturns, Stopped, StreamInv, StoreInv, TypeOK, WorkIsSound
<1>2. /\ UNCHANGED <<known, failed, taken, playing, failFast>>
      /\ \/ at' = "arm" /\ arm' = arm + 1
         \/ ~ (arm < Len(Schedule)) /\ at' = "manifest" /\ arm' = arm
  BY DEF BatchReturns, disk
<1>3. Over' = Over
  BY <1>2 DEF Over
<1>4. ASSUME ~ failFast, NEW k \in DOMAIN Schedule, k <= arm
      PROVE  Entries(Schedule[k]) \subseteq Over
  <2>1. k < arm \/ k = arm
    BY <1>1, <1>4, ScheduleIs
  <2> QED
    BY <1>1, <1>4, <2>1 DEF BatchIsOver, PastIsOver
<1>5. CASE at' = "arm" /\ arm' = arm + 1
  <2>1. ASSUME ~ failFast, NEW k \in DOMAIN Schedule, k < arm + 1
        PROVE  Entries(Schedule[k]) \subseteq Over
    <3>1. k <= arm
      BY <1>1, <2>1, ScheduleIs
    <3> QED
      BY <1>4, <2>1, <3>1
  <2>2. ~ failFast => PastIsOver(Over)'
    BY <1>3, <1>5, <2>1 DEF PastIsOver
  <2> QED
    BY <1>1, <1>2, <1>3, <1>5, <2>2 DEF WorkIsSound, Documents, AllOff
<1>6. CASE ~ (arm < Len(Schedule)) /\ at' = "manifest" /\ arm' = arm
  <2>1. \A k \in DOMAIN Schedule : k <= arm
    BY <1>1, <1>6, ScheduleIs
  <2>2. ~ failFast => Scheduled \subseteq Over
    BY <1>4, <2>1 DEF Scheduled
  <2> QED
    BY <1>1, <1>2, <1>3, <1>6, <2>2 DEF WorkIsSound, Documents, AllOff
<1> QED
  BY <1>2, <1>5, <1>6

LEMMA WorkStep == StreamInv /\ [Next]_vars => WorkIsSound'
<1> SUFFICES ASSUME StreamInv, [Next]_vars PROVE WorkIsSound'
  OBVIOUS
<1>1. StoreInv /\ WorkIsSound /\ playing \in Hand
  BY DEF StreamInv, StoreInv, TypeOK, Hand
<1>2. ASSUME NEW workers \in (SUBSET Worker) \ {{}}, OpenFresh(workers) \/ OpenResumed(workers)
      PROVE  WorkIsSound'
  BY <1>1, <1>2
  DEF OpenFresh, OpenResumed, NewAttempt, WorkIsSound, Documents, AllOff
<1>3. CASE OpenRefused
  BY <1>1, <1>3 DEF OpenRefused, NewAttempt, WorkIsSound, Documents, AllOff
<1>4. CASE Flush
  BY <1>1, <1>4, QuietWork DEF Flush, batch
<1>5. CASE Rewrite
  <2>1. at = "rewriting" /\ at' \in {"rewriting", "header"}
    BY <1>5 DEF Rewrite
  <2> QED
    BY <1>1, <1>5, <2>1 DEF Rewrite, batch, WorkIsSound, Documents, AllOff, Over
<1>6. CASE WriteHeader
  <2>1. PastIsOver(Over)'
    BY <1>6, ScheduleIs DEF WriteHeader, PastIsOver
  <2> QED
    BY <1>1, <1>6, <2>1 DEF WriteHeader, WorkIsSound, Documents, AllOff, Over
<1>7. CASE StartBatch
  BY <1>7, BatchBegins
<1>8. CASE LoopTakes
  BY <1>8, LoopIsSound
<1>9. ASSUME NEW outcome \in Outcomes, MatchEnds(outcome)
      PROVE  WorkIsSound'
  <2> DEFINE match == playing[Main]
  <2>1. /\ at = "batch" /\ ~ Full /\ match \in Match /\ Accept(match, outcome) /\ Main \in Threads
        /\ playing' = [playing EXCEPT ![Main] = "idle"]
        /\ UNCHANGED <<at, jobs, arm, stoppedFor, taken, failFast>>
    BY <1>9 DEF MatchEnds, Handling, Threads
  <2>2. /\ known \subseteq known' /\ known' \subseteq known \cup {match}
        /\ Over' = Over \cup {match}
    <3> HIDE DEF match
    <3> QED
      BY <1>1, <2>1, Accepted DEF Over
  <2>3. Apart(playing', known') /\ Whole(playing', Over')
    BY <2>1, <2>2, MatchIsOver
  <2>4. Apart(playing, known)' /\ Whole(playing, Over)'
    BY <2>1, <2>3 DEF Apart, Whole, Held, PastIsOver
  <2> QED
    BY <2>1, <2>4 DEF WorkIsSound, Documents
<1>10. CASE BatchStops
  BY <1>10, EndedWork DEF BatchStops
<1>11. CASE BatchReturns
  BY <1>11, BatchIsLeft
<1>12. CASE WriteDocument
  <2>1. at' \in {"summary", "report", "flush"} /\ at \in Documents
    BY <1>12 DEF WriteDocument, Documents, After
  <2> QED
    BY <1>1, <1>12, <2>1 DEF WriteDocument, batch, WorkIsSound, Documents, AllOff, Over
<1>13. CASE Finish
  BY <1>13, EndedWork DEF Finish
<1>14. ASSUME NEW worker \in Worker, WorkerReady(worker)
       PROVE  WorkIsSound'
  <2> DEFINE free == [playing EXCEPT ![worker] = "idle"]
  <2>1. /\ at = "batch" /\ playing[worker] = "starting" /\ Dispatch(worker, free)
        /\ UNCHANGED <<arm, failFast, known, failed>> /\ worker \in Threads
    BY <1>14 DEF WorkerReady, Handling, Threads
  <2>2. Apart(playing, known) /\ Whole(playing, Over) /\ Over' = Over
    BY <1>1, <2>1 DEF WorkIsSound, Over
  <2>3. free[worker] = "idle" /\ \A t \in Threads : t # worker => free[t] = playing[t]
    BY <1>1, <2>1 DEF Hand
  <2>4. \A match \in Match : Held(free, match) <=> Held(playing, match)
    BY <2>1, <2>3, NoMatch DEF Held
  <2>5. Apart(free, known')
    <3>1. free[Main] # "off" => \A w \in Worker : free[w] = "off"
      <4>1. playing[Main] = "off" /\ Main # worker /\ Main \in Threads
        BY <2>1, <2>2, NoMatch DEF Apart, Threads
      <4> QED
        BY <2>3, <4>1
    <3>2. \A t \in Threads : free[t] \in Match => free[t] \notin known'
      BY <2>1, <2>2, <2>3, NoMatch DEF Apart
    <3>3. \A t, u \in Threads : free[t] \in Match /\ free[t] = free[u] => t = u
      BY <2>2, <2>3, NoMatch DEF Apart
    <3>4. \A n \in jobs : Schedule[arm][n] \in Match
      BY <1>1, ScheduleIs DEF StoreInv, TypeOK
    <3> HIDE DEF free
    <3>5. \A n \in jobs : Schedule[arm][n] \notin known' /\ ~ Held(free, Schedule[arm][n])
      BY <2>1, <2>2, <2>4, <3>4 DEF Apart
    <3> QED
      BY <3>1, <3>2, <3>3, <3>5 DEF Apart
  <2>6. Whole(free, Over')
    <3>1. /\ taken \subseteq Match
          /\ \A n \in DOMAIN Schedule[arm] : Schedule[arm][n] \in Match
      BY <1>1, ScheduleIs DEF StoreInv, TypeOK
    <3> HIDE DEF free
    <3> QED
      BY <2>2, <2>4, <3>1 DEF Whole
  <2> QED
    BY <1>1, <2>1, <2>5, <2>6, DispatchIsSound DEF StoreInv
<1>15. ASSUME NEW worker \in Worker, NEW outcome \in Outcomes, WorkerAnswers(worker, outcome)
       PROVE  WorkIsSound'
  <2> DEFINE match == playing[worker]
  <2>1. /\ at = "batch" /\ ~ Full /\ match \in Match /\ Accept(match, outcome)
        /\ worker \in Threads /\ Dispatch(worker, [playing EXCEPT ![worker] = "idle"])
        /\ UNCHANGED <<arm, failFast>>
    BY <1>15 DEF WorkerAnswers, Handling, Threads
  <2>2. /\ known \subseteq known' /\ known' \subseteq known \cup {match}
        /\ Over' = Over \cup {match}
    <3> HIDE DEF match
    <3> QED
      BY <1>1, <2>1, Accepted DEF Over
  <2>3. /\ Apart([playing EXCEPT ![worker] = "idle"], known')
        /\ Whole([playing EXCEPT ![worker] = "idle"], Over')
    BY <2>1, <2>2, MatchIsOver
  <2> QED
    BY <1>1, <2>1, <2>3, DispatchIsSound DEF StoreInv
<1>16. ASSUME NEW worker \in Worker, PoolFails(worker)
       PROVE  WorkIsSound'
  BY <1>16, EndedWork DEF PoolFails
<1>17. CASE AskStop
  BY <1>1, <1>17, QuietWork DEF AskStop, batch
<1>18. CASE Crash
  BY <1>18, EndedWork DEF Crash
<1>19. CASE UNCHANGED vars
  BY <1>1, <1>19, QuietWork DEF vars, batch
<1> QED
  BY <1>2, <1>3, <1>4, <1>5, <1>6, <1>7, <1>8, <1>9, <1>10, <1>11, <1>12, <1>13, <1>14,
     <1>15, <1>16, <1>17, <1>18, <1>19
  DEF Next, Open, MainStep, WorkerStep

LEMMA InitWork == Init => WorkIsSound
  BY DEF Init, WorkIsSound, Documents, AllOff

LEMMA StreamStep == StreamInv /\ [Next]_vars => StreamInv'
  BY StoreStep, WorkStep DEF StreamInv

LEMMA StreamInvariant == Spec => []StreamInv
<1>1. Init => StreamInv
  BY InitStore, InitWork DEF StreamInv
<1> QED
  BY <1>1, StreamStep, PTL DEF Spec

-----------------------------------------------------------------------------
(* Nobody plays a match the store has or another thread plays, none of     *)
(* those is handed out once more, and no record is written twice: not by   *)
(* two workers, nor by an attempt that resumes what another had written    *)
(* (run-batch.ts:116-123, pool.ts).                                        *)
THEOREM NothingTwice == Spec => []PlayedOnce
<1>1. ASSUME StreamInv PROVE PlayedOnce
  <2>1. at \in {"batch", "closing"} \/ (jobs = {} /\ playing = AllOff)
    BY <1>1 DEF StreamInv, StoreInv, AttemptIsSound, WorkIsSound
  <2>2. IsInjective(stream \o buffer)
    <3>1. /\ stream \in Seq(Match) /\ buffer \in Seq(Match)
          /\ IsInjective(stream) /\ IsInjective(buffer)
          /\ Entries(stream) \cap Entries(buffer) = {}
      BY <1>1 DEF StreamInv, StoreInv, TypeOK, LinesApart
    <3> QED
      BY <3>1, JoinedLines
  <2>3. /\ \A t \in InPlay : playing[t] \notin known
        /\ \A t, u \in InPlay : playing[t] = playing[u] => t = u
        /\ {Schedule[arm][n] : n \in jobs} \cap ({playing[t] : t \in InPlay} \cup known) = {}
    <3>1. CASE at \in {"batch", "closing"}
      <4>1. Apart(playing, known)
        BY <1>1, <3>1 DEF StreamInv, WorkIsSound
      <4> QED
        BY <4>1 DEF Apart, Held, InPlay
    <3>2. CASE jobs = {} /\ playing = AllOff
      BY <3>2, NoMatch DEF InPlay, AllOff
    <3> QED
      BY <2>1, <3>1, <3>2
  <2> QED
    BY <2>2, <2>3 DEF PlayedOnce
<1> QED
  BY <1>1, StreamInvariant, PTL

(* An attempt that is stopped or completes leaves on disk every record it  *)
(* found there and every match it handed out, but for those that could not *)
(* be run (stop.ts: "every record it played is committed").                *)
THEOREM StopKeepsAll == Spec => HandedOutIsKept
<1> DEFINE Kept == result' \in {"stopped", "completed"} /\ at # "idle" /\ at' = "idle"
                     => known \cup taken \subseteq Entries(stream') \cup failed
<1>1. ASSUME StreamInv, [Next]_vars PROVE [Kept]_vars
  <2>1. SUFFICES ASSUME result' \in {"stopped", "completed"}, at # "idle", at' = "idle"
                 PROVE  known \cup taken \subseteq Entries(stream') \cup failed
    OBVIOUS
  <2>2. BatchStops \/ Finish
    <3>1. at \in Places
      BY <1>1 DEF StreamInv, StoreInv, TypeOK
    <3>2. ASSUME NEW worker \in Worker, WorkerReady(worker) PROVE FALSE
      BY <2>1, <3>2 DEF WorkerReady, Handling, Dispatch
    <3>3. ASSUME NEW worker \in Worker, NEW outcome, WorkerAnswers(worker, outcome) PROVE FALSE
      BY <2>1, <3>3 DEF WorkerAnswers, Handling, Dispatch
    <3>4. ASSUME NEW worker \in Worker, PoolFails(worker) PROVE FALSE
      BY <2>1, <3>4 DEF PoolFails, Ends
    <3>5. ~ Open /\ ~ Crash /\ ~ AskStop /\ vars' # vars
      BY <2>1 DEF Open, OpenFresh, OpenResumed, OpenRefused, NewAttempt, Crash, Ends, AskStop, vars
    <3>6. ~ Flush /\ ~ Rewrite /\ ~ WriteHeader /\ ~ StartBatch /\ ~ LoopTakes /\ ~ BatchReturns
      BY <2>1 DEF Flush, Rewrite, WriteHeader, StartBatch, LoopTakes, Handling, BatchReturns
    <3>7. ~ WriteDocument /\ \A outcome \in Outcomes : ~ MatchEnds(outcome)
      BY <2>1 DEF WriteDocument, Documents, After, MatchEnds
    <3> QED
      BY <1>1, <3>2, <3>3, <3>4, <3>5, <3>6, <3>7 DEF Next, MainStep, WorkerStep
  <2>3. at \in {"closing", "flush"} /\ Flushed
    BY <2>2 DEF BatchStops, FlushedAtStop, Finish, FlushedAtEnd
  <2>4. Entries(stream') = Entries(stream) \cup Entries(buffer)
    BY <1>1, <2>1, <2>3, BufferWritten DEF StreamInv
  <2>5. known = Entries(stream) \cup Entries(left) \cup Entries(buffer) /\ left = <<>>
    BY <1>1, <2>3 DEF StreamInv, StoreInv, AttemptIsSound
  <2>6. taken \subseteq Over
    BY <1>1, <2>3 DEF StreamInv, WorkIsSound
  <2> QED
    BY <2>4, <2>5, <2>6, NoLines DEF Over
<1> QED
  BY <1>1, StreamInvariant, PTL DEF Spec, HandedOutIsKept

(* No document of a finished run is written while a match of the schedule  *)
(* is neither recorded nor known to fail, whenever the stop comes, unless  *)
(* failFast ended a batch (experiment.ts:1482-1784).                       *)
THEOREM OnlyWholeRunsFinish == Spec => FinishedIsWhole
<1> DEFINE Finished == documents' # documents => failFast \/ Scheduled \subseteq known \cup failed
<1>1. ASSUME StreamInv, [Next]_vars PROVE [Finished]_vars
  <2>1. SUFFICES ASSUME documents' # documents, ~ failFast
                 PROVE  Scheduled \subseteq known \cup failed
    OBVIOUS
  <2>2. WriteDocument
    <3>1. ASSUME NEW worker \in Worker, WorkerReady(worker) PROVE FALSE
      BY <2>1, <3>1 DEF WorkerReady, disk
    <3>2. ASSUME NEW worker \in Worker, NEW outcome, WorkerAnswers(worker, outcome) PROVE FALSE
      BY <2>1, <3>2 DEF WorkerAnswers, disk
    <3>3. ASSUME NEW worker \in Worker, PoolFails(worker) PROVE FALSE
      BY <2>1, <3>3 DEF PoolFails, disk
    <3>4. ~ Open /\ ~ Crash /\ ~ AskStop /\ vars' # vars
      BY <2>1 DEF Open, OpenFresh, OpenResumed, OpenRefused, NewAttempt, Crash, AskStop, vars, disk
    <3>5. ~ Flush /\ ~ Rewrite /\ ~ WriteHeader /\ ~ StartBatch /\ ~ LoopTakes /\ ~ BatchReturns
      BY <2>1 DEF Flush, Rewrite, WriteHeader, StartBatch, LoopTakes, BatchReturns, disk
    <3>6. ~ BatchStops /\ ~ Finish /\ \A outcome \in Outcomes : ~ MatchEnds(outcome)
      BY <2>1 DEF BatchStops, Finish, MatchEnds, disk
    <3> QED
      BY <1>1, <3>1, <3>2, <3>3, <3>4, <3>5, <3>6 DEF Next, MainStep, WorkerStep
  <2>3. at \in Documents
    BY <2>2 DEF WriteDocument
  <2> QED
    BY <1>1, <2>1, <2>3 DEF StreamInv, WorkIsSound, Over
<1> QED
  BY <1>1, StreamInvariant, PTL DEF Spec, FinishedIsWhole
=============================================================================
