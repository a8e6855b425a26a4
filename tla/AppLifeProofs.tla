---------------------------- MODULE AppLifeProofs ----------------------------
(***************************************************************************)
(* Proofs about the window's stores, for any bounds, records and files.      *)
(***************************************************************************)
EXTENDS AppLife, SequenceTheorems, FiniteSetTheorems, TLAPS

-----------------------------------------------------------------------------
(* The backlog of outcomes: what a save replaces the file by holds what the   *)
(* file holds, or the server has it.                                        *)

Accounted == server \cup dropped

QueueShape ==
  /\ queue \subseteq Nat /\ qdisk \subseteq Nat
  /\ qwrites \in Seq(SUBSET Nat)

(* The file, each save on its way and the queue: each holds what those before *)
(* it hold, but for what is accounted for.  Before the read there is no save. *)
Growing ==
  /\ qwrites # <<>> => qloaded
  /\ qloaded => qdisk \subseteq queue \cup Accounted
  /\ \A i \in 1..Len(qwrites) :
       /\ qdisk \subseteq qwrites[i] \cup Accounted
       /\ qwrites[i] \subseteq queue \cup Accounted
       /\ \A j \in (i + 1)..Len(qwrites) : qwrites[i] \subseteq qwrites[j] \cup Accounted

BacklogInv == ops \in Nat /\ QueueShape /\ Growing

-----------------------------------------------------------------------------
(* The user's operations are counted up: an edit's number is a natural.       *)
LEMMA OpsCounted ==
  ASSUME ops \in Nat, [Next]_vars
  PROVE  ops' \in Nat /\ ops' >= ops
<1> DEFINE Counts == ops' \in Nat /\ ops' >= ops
<1>0. ops' = ops \/ ops' = ops + 1 => Counts
  OBVIOUS
<1> HIDE DEF Counts
<1>1. ASSUME ConfigTask PROVE Counts
  <2>1. ASSUME LoadConfig PROVE Counts
    BY <1>0, <2>1 DEF LoadConfig
  <2>2. ASSUME SaveTimer \/ RetryHeld \/ LearnPermitted PROVE Counts
    BY <1>0, <2>2 DEF SaveTimer, RetryHeld, LearnPermitted
  <2>3. ASSUME SaveLands \/ SaveFails \/ Rebinds PROVE Counts
    BY <1>0, <2>3 DEF SaveLands, SaveFails, Rebinds, callVars
  <2>4. ASSUME NEW s, Changes(s) PROVE Counts
    BY <1>0, <2>4 DEF Changes, Acts
  <2>5. QED
    BY <1>1, <2>1, <2>2, <2>3, <2>4 DEF ConfigTask, EditPlain, EditChords
<1>2. ASSUME HistoryTask PROVE Counts
  <2>1. ASSUME NEW r \in Records, EditRecord(r) \/ TypeEdit(r) \/ DeleteRecord(r)
        PROVE  Counts
    BY <1>0, <2>1 DEF EditRecord, TypeEdit, DeleteRecord, Acts
  <2>2. ASSUME NEW r \in Records, TypingTimer(r) \/ CoalesceTimer(r) \/ DeleteRuns(r)
        PROVE  Counts
    BY <1>0, <2>2 DEF TypingTimer, CoalesceTimer, DeleteRuns
  <2>3. ASSUME OpenHistory \/ ListArrives \/ ListRuns \/ ListLands \/ SaveRecord PROVE Counts
    BY <1>0, <2>3 DEF OpenHistory, ListArrives, ListRuns, ListLands, SaveRecord, callVars
  <2>4. ASSUME DeleteArrives \/ WipeArrives \/ WipeRuns \/ WipeFails \/ WipeAnswered PROVE Counts
    BY <1>0, <2>4 DEF DeleteArrives, WipeArrives, WipeRuns, WipeFails, WipeAnswered, callVars
  <2>5. ASSUME AskWipe PROVE Counts
    BY <1>0, <2>5 DEF AskWipe, Acts
  <2>6. ASSUME HearSweep(settings.keep) PROVE Counts
    <3>1. ops' = ops
      BY <2>6 DEF HearSweep
    <3> QED
      BY <1>0, <3>1
  <2>7. QED
    BY <1>2, <2>1, <2>2, <2>3, <2>4, <2>5, <2>6 DEF HistoryTask
<1>3. ASSUME QueueTask PROVE Counts
  BY <1>0, <1>3 DEF QueueTask, Enqueue, Acts, QueueTimer, WriteSettles, ReadLands, ReadFails, Post,
     PostSent, PostRetried, PostRefused, ApplyPost, callVars
<1>4. ASSUME KeepDictations \/ RecordNew PROVE Counts
  BY <1>0, <1>4 DEF KeepDictations, EditKeep, Changes, RecordNew, AddRecord, Acts
<1>5. ASSUME Callbacks PROVE Counts
  BY <1>0, <1>5 DEF Callbacks, Reflush, FlushSettles, Chained
<1>6. ASSUME BeforeQuit \/ SessionEnding PROVE Counts
  BY <1>0, <1>6 DEF BeforeQuit, SessionEnding, FlushAll
<1>7. ASSUME Break \/ Launch \/ Crash \/ Exit PROVE Counts
  BY <1>0, <1>7 DEF Break, Launch, Crash, Exit, Dies
<1>8. ASSUME TakeSweep \/ RunSweep \/ RequestQuit \/ QuitReady PROVE Counts
  BY <1>0, <1>8 DEF TakeSweep, RunSweep, RequestQuit, QuitReady, callVars
<1>9. ASSUME UNCHANGED vars PROVE Counts
  BY <1>0, <1>9 DEF vars, callVars
<1>10. QED
  BY <1>1, <1>2, <1>3, <1>4, <1>5, <1>6, <1>7, <1>8, <1>9 DEF Next, Counts

-----------------------------------------------------------------------------
(* A step that only takes from the queue what it accounts for.                *)
LEMMA QueueKept ==
  ASSUME BacklogInv, ops' \in Nat, UNCHANGED <<qdisk, qwrites, qloaded>>,
         queue' \subseteq Nat, queue \subseteq queue' \cup Accounted',
         Accounted \subseteq Accounted'
  PROVE  BacklogInv'
<1>1. QueueShape'
  BY DEF BacklogInv, QueueShape
<1>2. Growing'
  BY DEF BacklogInv, Growing
<1>3. QED
  BY <1>1, <1>2 DEF BacklogInv

(* A step that only sends the queue to the file.                            *)
LEMMA SaveKept ==
  ASSUME BacklogInv, ops' \in Nat, UNCHANGED <<qdisk, server, dropped>>, qloaded',
         queue \subseteq queue', queue' \subseteq Nat, qdisk \subseteq queue' \cup Accounted,
         qwrites' = Append(qwrites, queue')
  PROVE  BacklogInv'
<1>1. qwrites \in Seq(SUBSET Nat) /\ queue' \in SUBSET Nat
  BY DEF BacklogInv, QueueShape
<1>2. /\ qwrites' \in Seq(SUBSET Nat)
      /\ Len(qwrites') = Len(qwrites) + 1
      /\ \A i \in 1..Len(qwrites) : qwrites'[i] = qwrites[i]
      /\ qwrites'[Len(qwrites) + 1] = queue'
  BY <1>1, AppendProperties
<1>3. Len(qwrites) \in Nat
  BY <1>1, LenProperties
<1>4. QueueShape'
  BY <1>1, <1>2 DEF BacklogInv, QueueShape
<1>5. Accounted' = Accounted
  BY DEF Accounted
<1>6. ASSUME NEW i \in 1..Len(qwrites')
      PROVE  /\ qdisk \subseteq qwrites'[i] \cup Accounted
             /\ qwrites'[i] \subseteq queue' \cup Accounted
             /\ \A j \in (i + 1)..Len(qwrites') : qwrites'[i] \subseteq qwrites'[j] \cup Accounted
  <2>1. CASE i = Len(qwrites) + 1
    BY <1>2, <1>3, <2>1
  <2>2. CASE i # Len(qwrites) + 1
    <3>1. i \in 1..Len(qwrites)
      BY <1>2, <1>3, <2>2
    <3>2. /\ qdisk \subseteq qwrites[i] \cup Accounted
          /\ qwrites[i] \subseteq queue \cup Accounted
          /\ \A j \in (i + 1)..Len(qwrites) : qwrites[i] \subseteq qwrites[j] \cup Accounted
      BY <3>1 DEF BacklogInv, Growing
    <3>3. ASSUME NEW j \in (i + 1)..Len(qwrites')
          PROVE  qwrites'[i] \subseteq qwrites'[j] \cup Accounted
      <4>1. CASE j = Len(qwrites) + 1
        BY <1>2, <3>1, <3>2, <4>1
      <4>2. CASE j # Len(qwrites) + 1
        <5>1. j \in (i + 1)..Len(qwrites) /\ j \in 1..Len(qwrites)
          BY <1>2, <1>3, <3>1, <3>3, <4>2
        <5>2. QED
          BY <1>2, <3>1, <3>2, <5>1
      <4>3. QED
        BY <4>1, <4>2
    <3>4. QED
      BY <1>2, <3>1, <3>2, <3>3
  <2>3. QED
    BY <2>1, <2>2
<1>7. Growing'
  BY <1>5, <1>6 DEF Growing
<1>8. QED
  BY <1>4, <1>7 DEF BacklogInv

(* startSave, from the timer or from a flush.                               *)
LEMMA StartSaveKept ==
  ASSUME BacklogInv, ops' \in Nat, StartSave,
         UNCHANGED <<queue, qloaded, qdisk, server, dropped>>
  PROVE  BacklogInv'
<1>1. queue \subseteq Nat
  BY DEF BacklogInv, QueueShape
<1>2. CASE qloaded
  <2>1. qwrites' = Append(qwrites, queue')
    BY <1>2 DEF StartSave
  <2>2. qdisk \subseteq queue' \cup Accounted
    BY <1>2 DEF BacklogInv, Growing
  <2>3. QED
    BY <1>1, <1>2, <2>1, <2>2, SaveKept
<1>3. CASE ~qloaded
  <2>1. qwrites' = qwrites
    BY <1>3 DEF StartSave
  <2>2. QED
    BY <1>1, <2>1, QueueKept DEF Accounted
<1>4. QED
  BY <1>2, <1>3

(* A save that lands, or fails: the file only ever gives up what is accounted *)
(* for, and the saves behind it still hold what it holds.                    *)
LEMMA WriteKept ==
  ASSUME BacklogInv, ops' \in Nat, WriteSettles
  PROVE  BacklogInv' /\ qdisk \subseteq qdisk' \cup Accounted
<1>1. /\ qwrites \in Seq(SUBSET Nat) /\ qwrites # <<>> /\ qwrites' = Tail(qwrites)
      /\ qdisk' \in {qdisk, qwrites[1]}
      /\ UNCHANGED <<queue, qloaded, server, dropped>>
  BY DEF BacklogInv, QueueShape, WriteSettles
<1>2. /\ qwrites' \in Seq(SUBSET Nat) /\ Len(qwrites) \in Nat \ {0}
      /\ Len(qwrites') = Len(qwrites) - 1
      /\ \A i \in 1..Len(qwrites') : qwrites'[i] = qwrites[i + 1]
  BY <1>1, HeadTailProperties, LenProperties, EmptySeq
<1>3. /\ qloaded
      /\ qdisk \subseteq qwrites[1] \cup Accounted
      /\ qwrites[1] \subseteq queue \cup Accounted
      /\ \A j \in 2..Len(qwrites) : qwrites[1] \subseteq qwrites[j] \cup Accounted
  BY <1>1, <1>2 DEF BacklogInv, Growing
<1>4. qwrites[1] \subseteq Nat
  BY <1>1, <1>2, ElementOfSeq
<1>5. QueueShape'
  BY <1>1, <1>2, <1>4 DEF BacklogInv, QueueShape
<1>6. Accounted' = Accounted
  BY <1>1 DEF Accounted
<1>7. ASSUME NEW i \in 1..Len(qwrites')
      PROVE  /\ qdisk' \subseteq qwrites'[i] \cup Accounted
             /\ qwrites'[i] \subseteq queue \cup Accounted
             /\ \A j \in (i + 1)..Len(qwrites') : qwrites'[i] \subseteq qwrites'[j] \cup Accounted
  <2>1. i + 1 \in 2..Len(qwrites) /\ i + 1 \in 1..Len(qwrites)
    BY <1>2
  <2>2. /\ qdisk \subseteq qwrites[i + 1] \cup Accounted
        /\ qwrites[i + 1] \subseteq queue \cup Accounted
        /\ \A j \in (i + 2)..Len(qwrites) : qwrites[i + 1] \subseteq qwrites[j] \cup Accounted
    BY <1>2, <2>1 DEF BacklogInv, Growing
  <2>3. ASSUME NEW j \in (i + 1)..Len(qwrites')
        PROVE  qwrites'[i] \subseteq qwrites'[j] \cup Accounted
    <3>1. j + 1 \in (i + 2)..Len(qwrites) /\ j \in 1..Len(qwrites')
      BY <1>2, <2>3
    <3>2. QED
      BY <1>2, <2>2, <3>1
  <2>4. qdisk' \subseteq qwrites[i + 1] \cup Accounted
    BY <1>1, <1>3, <2>1, <2>2
  <2>5. QED
    BY <1>2, <2>2, <2>3, <2>4
<1>8. qdisk' \subseteq queue \cup Accounted
  BY <1>1, <1>3 DEF BacklogInv, Growing
<1>9. Growing'
  BY <1>1, <1>3, <1>6, <1>7, <1>8 DEF Growing
<1>10. QED
  BY <1>1, <1>3, <1>5, <1>9 DEF BacklogInv

-----------------------------------------------------------------------------
(* The answer of the read: what was queued meanwhile and the file are merged.  *)
LEMMA ReadKept ==
  ASSUME BacklogInv, ops' \in Nat, ReadLands
  PROVE  BacklogInv'
<1>1. /\ qloaded' /\ queue' = queue \cup qdisk
      /\ UNCHANGED <<qdisk, server, dropped>>
      /\ qwrites' \in {qwrites, Append(qwrites, queue')}
  BY DEF ReadLands
<1>2. queue' \subseteq Nat /\ qdisk \subseteq queue' \cup Accounted
  BY <1>1 DEF BacklogInv, QueueShape
<1>3. CASE qwrites' = Append(qwrites, queue')
  BY <1>1, <1>2, <1>3, SaveKept
<1>4. CASE qwrites' = qwrites
  <2>1. QueueShape'
    BY <1>1, <1>2, <1>4 DEF BacklogInv, QueueShape
  <2>2. Growing'
    BY <1>1, <1>4 DEF BacklogInv, Growing, Accounted
  <2>3. QED
    BY <2>1, <2>2 DEF BacklogInv
<1>5. QED
  BY <1>1, <1>3, <1>4

(* The answer of a post: what leaves the queue is the server's, or refused.    *)
LEMMA PostKept ==
  ASSUME BacklogInv, ops' \in Nat, PostSent \/ PostRetried \/ PostRefused
  PROVE  BacklogInv' /\ qdisk' = qdisk
<1>1. /\ UNCHANGED <<qdisk, qwrites, qloaded>>
      /\ queue' \subseteq queue
      /\ Accounted \subseteq Accounted'
      /\ queue \subseteq queue' \cup Accounted'
  BY DEF PostSent, PostRetried, PostRefused, ApplyPost, Accounted
<1>2. queue' \subseteq Nat
  BY <1>1 DEF BacklogInv, QueueShape
<1>3. QED
  BY <1>1, <1>2, QueueKept

LEMMA BacklogStep ==
  ASSUME BacklogInv, [Next]_vars
  PROVE  BacklogInv' /\ qdisk \subseteq qdisk' \cup Accounted'
<1> DEFINE Kept == BacklogInv' /\ qdisk \subseteq qdisk' \cup Accounted'
<1>1. ops \in Nat /\ ops' \in Nat /\ queue \subseteq Nat
  BY OpsCounted DEF BacklogInv, QueueShape
<1>2. ASSUME UNCHANGED queueVars PROVE Kept
  <2>1. UNCHANGED <<queue, qloaded, qwrites, qdisk, server, dropped>>
    BY <1>2 DEF queueVars, queueWindow
  <2>2. QED
    BY <1>1, <2>1, QueueKept DEF Accounted
<1>3. ASSUME Launch PROVE Kept
  <2>1. UNCHANGED <<queue, qloaded, qwrites, qdisk, server, dropped>>
    BY <1>3 DEF Launch, QueueBoots
  <2>2. QED
    BY <1>1, <2>1, QueueKept DEF Accounted
<1>4. ASSUME Dies PROVE Kept
  <2>1. /\ queue' = {} /\ ~qloaded' /\ qwrites' = <<>>
        /\ UNCHANGED <<qdisk, server, dropped>>
    BY <1>4 DEF Dies, QueueDies
  <2>2. QueueShape' /\ Growing'
    BY <2>1, EmptySeq DEF BacklogInv, QueueShape, Growing
  <2>3. QED
    BY <1>1, <2>1, <2>2 DEF BacklogInv
<1>5. ASSUME FlushQueue(TRUE) \/ FlushQueue(FALSE),
             UNCHANGED <<queue, qloaded, qdisk, post, server, dropped, qfailed>>
      PROVE  Kept
  <2>1. CASE qtimer
    BY <1>1, <1>5, <2>1, StartSaveKept DEF FlushQueue
  <2>2. CASE ~qtimer
    <3>1. qwrites' = qwrites
      BY <1>5, <2>2 DEF FlushQueue
    <3>2. QED
      BY <1>1, <1>5, <3>1, QueueKept DEF Accounted
  <2>3. QED
    BY <2>1, <2>2
<1>6. ASSUME QueueTask PROVE Kept
  <2>1. CASE Enqueue
    <3>1. queue' = queue \cup {ops + 1} /\ UNCHANGED <<qloaded, qwrites, qdisk, server, dropped>>
      BY <2>1 DEF Enqueue, Edit
    <3>2. QED
      BY <1>1, <3>1, QueueKept DEF Accounted
  <2>2. CASE QueueTimer
    <3>1. StartSave /\ UNCHANGED <<queue, qloaded, qdisk, server, dropped>>
      BY <2>2 DEF QueueTimer
    <3>2. QED
      BY <1>1, <3>1, StartSaveKept
  <2>3. CASE WriteSettles
    <3>1. Accounted' = Accounted
      BY <2>3 DEF WriteSettles, Accounted
    <3>2. QED
      BY <1>1, <2>3, <3>1, WriteKept
  <2>4. CASE ReadLands
    <3>1. qdisk' = qdisk
      BY <2>4 DEF ReadLands
    <3>2. QED
      BY <1>1, <2>4, <3>1, ReadKept
  <2>5. CASE ReadFails \/ Post
    <3>1. UNCHANGED <<queue, qloaded, qwrites, qdisk, server, dropped>>
      BY <2>5 DEF ReadFails, Post
    <3>2. QED
      BY <1>1, <3>1, QueueKept DEF Accounted
  <2>6. CASE PostSent \/ PostRetried \/ PostRefused
    BY <1>1, <2>6, PostKept
  <2>7. QED
    BY <1>6, <2>1, <2>2, <2>3, <2>4, <2>5, <2>6 DEF QueueTask
<1>7. CASE BeforeQuit \/ SessionEnding
  BY <1>5, <1>7 DEF BeforeQuit, SessionEnding, FlushAll
<1>8. CASE Crash \/ Exit
  BY <1>4, <1>8 DEF Crash, Exit
<1>9. CASE Break \/ Callbacks \/ TakeSweep \/ RunSweep \/ RequestQuit \/ QuitReady
  BY <1>2, <1>9 DEF Break, Callbacks, OnConfig, OnHistory, TakeSweep, RunSweep, RequestQuit,
     QuitReady
<1>10. CASE KeepDictations \/ RecordNew
  BY <1>2, <1>10 DEF KeepDictations, RecordNew, OnHistory
<1>11. CASE (ConfigTask /\ OnConfig) \/ (HistoryTask /\ OnHistory)
  BY <1>2, <1>11 DEF OnConfig, OnHistory
<1>12. CASE UNCHANGED vars
  BY <1>2, <1>12 DEF vars
<1>13. QED
  BY <1>3, <1>6, <1>7, <1>8, <1>9, <1>10, <1>11, <1>12 DEF Next

LEMMA BacklogInit == Init => BacklogInv
  BY EmptySeq DEF Init, QueueInit, BacklogInv, QueueShape, Growing

(* An outcome on the disk stays there until the server has it or refused it:   *)
(* usageOutcome.ts saves nothing before the file was read (startSave).         *)
THEOREM BacklogKept == Spec => BacklogSurvives
<1>1. BacklogInv /\ [Next]_vars => BacklogInv'
  BY BacklogStep
<1>2. BacklogInv /\ [Next]_vars => [qdisk \ qdisk' \subseteq server' \cup dropped']_vars
  BY BacklogStep DEF Accounted
<1>3. QED
  BY BacklogInit, <1>1, <1>2, PTL DEF Spec, BacklogSurvives

-----------------------------------------------------------------------------
(* The calls on their way.                                                  *)

IsCalls(s) == \E X : s \in Seq(X)
ConfigCmds == {"save_config", "load_config"}
OtherCalls(s) == IsCalls(s) /\ \A i \in 1..Len(s) : s[i].cmd \notin ConfigCmds

LEMMA CallsShapes ==
  ASSUME NEW s, IsCalls(s)
  PROVE  Len(s) \in Nat /\ (s # <<>> => 1 \in 1..Len(s) /\ Head(s) = s[1])
<1>1. PICK X : s \in Seq(X)
  BY DEF IsCalls
<1>2. Len(s) \in Nat
  BY <1>1, LenProperties
<1>3. ASSUME s # <<>> PROVE 1 \in 1..Len(s) /\ Head(s) = s[1]
  BY <1>1, <1>2, <1>3, EmptySeq
<1> QED
  BY <1>2, <1>3

LEMMA CallsTail ==
  ASSUME NEW s, IsCalls(s), s # <<>>
  PROVE  /\ IsCalls(Tail(s)) /\ Len(Tail(s)) = Len(s) - 1
         /\ \A i \in 1..Len(Tail(s)) : i + 1 \in 1..Len(s) /\ Tail(s)[i] = s[i + 1]
<1>1. PICK X : s \in Seq(X)
  BY DEF IsCalls
<1>2. Tail(s) \in Seq(X) /\ Len(Tail(s)) = Len(s) - 1
      /\ \A i \in 1..Len(Tail(s)) : Tail(s)[i] = s[i + 1]
  BY <1>1, HeadTailProperties
<1>3. Len(s) \in Nat
  BY <1>1, LenProperties
<1>4. \A i \in 1..Len(Tail(s)) : i + 1 \in 1..Len(s)
  BY <1>2, <1>3
<1> QED
  BY <1>2, <1>4 DEF IsCalls

LEMMA CallsConcat ==
  ASSUME NEW s, NEW t, IsCalls(s), IsCalls(t)
  PROVE  /\ IsCalls(s \o t) /\ Len(s \o t) = Len(s) + Len(t)
         /\ \A i \in 1..Len(s) : i \in 1..Len(s \o t) /\ (s \o t)[i] = s[i]
         /\ \A i \in 1..Len(t) : Len(s) + i \in 1..Len(s \o t) /\ (s \o t)[Len(s) + i] = t[i]
         /\ \A i \in 1..Len(s \o t) :
              \/ i \in 1..Len(s) /\ (s \o t)[i] = s[i]
              \/ i - Len(s) \in 1..Len(t) /\ (s \o t)[i] = t[i - Len(s)]
<1>1. PICK X : s \in Seq(X)
  BY DEF IsCalls
<1>2. PICK Y : t \in Seq(Y)
  BY DEF IsCalls
<1>3. s \in Seq(X \cup Y) /\ t \in Seq(X \cup Y)
  BY <1>1, <1>2
<1> DEFINE r == s \o t
<1>4. /\ r \in Seq(X \cup Y) /\ Len(r) = Len(s) + Len(t)
      /\ \A i \in 1 .. Len(s) + Len(t) : r[i] = IF i <= Len(s) THEN s[i] ELSE t[i - Len(s)]
  BY <1>3, ConcatProperties
<1>5. Len(s) \in Nat /\ Len(t) \in Nat
  BY <1>1, <1>2, LenProperties
<1> HIDE DEF r
<1>6. IsCalls(r)
  BY <1>4 DEF IsCalls
<1>7. \A i \in 1..Len(s) : i \in 1..Len(r) /\ r[i] = s[i]
  BY <1>4, <1>5
<1>8. ASSUME NEW i \in 1..Len(t) PROVE Len(s) + i \in 1..Len(r) /\ r[Len(s) + i] = t[i]
  <2> DEFINE k == Len(s) + i
  <2>1. k \in 1..(Len(s) + Len(t)) /\ ~(k <= Len(s)) /\ k - Len(s) = i
    BY <1>5
  <2>2. k \in 1..Len(r)
    BY <1>4, <2>1
  <2> HIDE DEF k
  <2>3. r[k] = t[i]
    BY <1>4, <2>1
  <2> QED
    BY <2>2, <2>3 DEF k
<1>9. ASSUME NEW i \in 1..Len(r)
      PROVE  \/ i \in 1..Len(s) /\ r[i] = s[i]
             \/ i - Len(s) \in 1..Len(t) /\ r[i] = t[i - Len(s)]
  BY <1>4, <1>5
<1> QED
  BY <1>4, <1>6, <1>7, <1>8, <1>9 DEF r

LEMMA CallsOne ==
  ASSUME NEW c
  PROVE  IsCalls(<<c>>) /\ Len(<<c>>) = 1 /\ <<c>>[1] = c
<1>1. <<c>> \in Seq({c})
  OBVIOUS
<1> QED
  BY <1>1 DEF IsCalls

LEMMA CallsNone == IsCalls(<<>>) /\ Len(<<>>) = 0
<1>1. <<>> \in Seq({})
  OBVIOUS
<1> QED
  BY <1>1 DEF IsCalls

(* A finite set as a sequence.                                              *)
LEMMA Ordered ==
  ASSUME NEW S, IsFiniteSet(S)
  PROVE  /\ SetToSeq(S) \in Seq(S) /\ Len(SetToSeq(S)) \in Nat
         /\ \A i \in 1..Len(SetToSeq(S)) : SetToSeq(S)[i] \in S
         /\ \A x \in S : \E i \in 1..Len(SetToSeq(S)) : SetToSeq(S)[i] = x
<1>1. Cardinality(S) \in Nat /\ ExistsBijection(1..Cardinality(S), S)
  BY FS_CardinalityType
<1>2. PICK g \in Bijection(1..Cardinality(S), S) : TRUE
  BY <1>1 DEF ExistsBijection
<1>3. g \in [1..Cardinality(S) -> S] /\ IsInjective(g)
  BY <1>2 DEF Bijection, Injection, IsInjective
<1> DEFINE n == Cardinality(S)
           f == SetToSeq(S)
<1>4. f \in [1..n -> S] /\ IsInjective(f)
  BY <1>3 DEF SetToSeq
<1>5. Len(f) = n /\ f \in Seq(S)
  <2> HIDE DEF f
  <2> QED
    BY <1>1, <1>4
<1>6. f \in Injection(1..n, S)
  BY <1>4 DEF Injection
<1>7. IsFiniteSet(1..n) /\ Cardinality(1..n) = n
  BY <1>1, FS_Interval
<1> HIDE DEF f, n
<1>8. f \in Surjection(1..n, S)
  BY <1>6, <1>7, FS_Injection DEF n
<1>9. \A x \in S : \E i \in 1..n : f[i] = x
  BY <1>8 DEF Surjection
<1> QED
  BY <1>1, <1>4, <1>5, <1>9 DEF f, n

(* The calls that write records: one for each, with its copy.                 *)
Written(rs, copies) ==
  LET order == SetToSeq(rs)
  IN  [i \in 1..Len(order) |-> RecordCall(order[i], copies[order[i]])]

LEMMA WrittenCalls ==
  ASSUME NEW rs \in SUBSET Records, NEW copies
  PROVE  /\ OtherCalls(Written(rs, copies))
         /\ \A i \in 1..Len(Written(rs, copies)) :
              /\ Written(rs, copies)[i].cmd = "save_record"
              /\ Written(rs, copies)[i].rec \in rs
              /\ Written(rs, copies)[i].body = copies[Written(rs, copies)[i].rec]
         /\ \A r \in rs : \E i \in 1..Len(Written(rs, copies)) : Written(rs, copies)[i].rec = r
<1> DEFINE order == SetToSeq(rs)
           t == Written(rs, copies)
<1>1. IsFiniteSet(rs)
  <2>1. IsFiniteSet(Records)
    BY RecordsAssumption DEF Records
  <2> QED
    BY <2>1, FS_Subset
<1>2. /\ Len(order) \in Nat /\ \A i \in 1..Len(order) : order[i] \in rs
      /\ \A r \in rs : \E i \in 1..Len(order) : order[i] = r
  BY <1>1, Ordered
<1>3. t = [i \in 1..Len(order) |-> RecordCall(order[i], copies[order[i]])]
  BY DEF Written
<1> HIDE DEF order, t
<1> DEFINE X == {t[i] : i \in 1..Len(order)}
<1>4. t \in Seq(X) /\ Len(t) = Len(order)
  <2>1. t \in [1..Len(order) -> X]
    BY <1>3
  <2> HIDE DEF X
  <2> QED
    BY <1>2, <2>1
<1>5. ASSUME NEW i \in 1..Len(t)
      PROVE  /\ t[i].cmd = "save_record" /\ t[i].rec = order[i] /\ t[i].rec \in rs
             /\ t[i].body = copies[t[i].rec]
  BY <1>2, <1>3, <1>4 DEF RecordCall
<1>6. OtherCalls(t)
  <2>1. \A i \in 1..Len(t) : t[i].cmd \notin ConfigCmds
    BY <1>5 DEF ConfigCmds
  <2> QED
    BY <1>4, <2>1 DEF OtherCalls, IsCalls
<1>7. ASSUME NEW r \in rs PROVE \E i \in 1..Len(t) : t[i].rec = r
  <2>1. PICK i \in 1..Len(order) : order[i] = r
    BY <1>2
  <2>2. i \in 1..Len(t)
    BY <1>4
  <2> QED
    BY <1>5, <2>1, <2>2
<1> QED
  BY <1>5, <1>6, <1>7 DEF t

LEMMA SavesWritten ==
  ASSUME NEW rs \in SUBSET Records, NEW copies
  PROVE  /\ Saves(rs, copies) = Written(Writable(rs), copies)
         /\ Writable(rs) \subseteq rs /\ OtherCalls(Saves(rs, copies))
<1>1. Saves(rs, copies) = Written(Writable(rs), copies)
  BY DEF Saves, Written
<1>2. Writable(rs) \subseteq rs
  BY DEF Writable
<1>3. OtherCalls(Written(Writable(rs), copies))
  BY <1>2, WrittenCalls
<1> QED
  BY <1>1, <1>2, <1>3

-----------------------------------------------------------------------------
(* The settings: the inductive invariant.                                   *)

SavesAt == {i \in 1..Len(asked) : asked[i].cmd = "save_config"}
Shape == [rev : Int, chords : Int, clash : {"none", "sides", "real"}, keep : BOOLEAN,
          brief : BOOLEAN]

SettingsShape ==
  /\ ops \in Nat /\ chordsDue \in BOOLEAN /\ ready \in {"no", "yes", "failed"}
  /\ settings \in Shape /\ file \in Shape /\ sweep \in Shape /\ sweeping \in Shape

(* The load comes first; a save is one of settings that were edited.         *)
CallsInOrder ==
  /\ IsCalls(asked)
  /\ life = "down" => asked = <<>> /\ ready = "no"
  /\ \A i \in 1..Len(asked) : asked[i].cmd = "load_config" =>
       /\ i = 1 /\ ready = "no"
       /\ ~recovered => live = file.chords /\ ~bad
  /\ \A i \in SavesAt : /\ ready # "no" /\ settings.rev > 0 /\ asked[i].chords \in BOOLEAN
                        /\ asked[i].body \in Shape /\ asked[i].body.rev > 0

Booted ==
  /\ ready = "no" => ~timer /\ ~held /\ ~frozen /\ ~chordsDue
  /\ timer \/ held => settings.rev > 0
  /\ frozen => held

(* config.json is known to the window, or backed up; the factory's settings   *)
(* are neither in it nor what a sweep goes by.                               *)
KnownFile ==
  /\ file = NoFile \/ file.rev > 0
  /\ bad => file # NoFile
  /\ file = NoFile => backups # {}
  /\ ready = "yes" => file = NoFile \/ file \in backups \/ file \in kin \/ refused
  /\ sweep.rev # 0 /\ sweeping.rev # 0

(* With no timer and no freeze the last save underway has the settings; with  *)
(* none underway, and none held, the file has.                              *)
Landing ==
  ready = "yes" =>
    /\ ~timer /\ ~frozen =>
         \A i \in SavesAt : (\A j \in SavesAt : j <= i) => asked[i].body = settings
    /\ settings.rev > 0 /\ ~timer /\ ~held /\ SavesAt = {} => file = settings

(* What no save that re-registers follows has the settings' chords; and what  *)
(* is registered is the file's, or somebody is still to register it.         *)
Bindings ==
  ready = "yes" /\ ~recovered =>
    /\ ~chordsDue =>
         /\ \A i \in SavesAt : (\A j \in SavesAt : j > i => ~asked[j].chords) =>
              asked[i].body.chords = settings.chords
         /\ (\A j \in SavesAt : ~asked[j].chords) => file.chords = settings.chords
    /\ \/ live = file.chords
       \/ rebind \/ missed
       \/ \E j \in SavesAt : asked[j].chords
       \/ chordsDue /\ (timer \/ held \/ SavesAt # {})

ConfigInv == SettingsShape /\ CallsInOrder /\ Booted /\ KnownFile /\ Landing /\ Bindings

LEMMA ConfigStart == Init => ConfigInv
<1> SUFFICES ASSUME Init PROVE ConfigInv
  OBVIOUS
<1>1. asked = <<>> /\ SavesAt = {} /\ IsCalls(asked)
  BY CallsNone DEF Init, SavesAt
<1>2. /\ settings = Defaults /\ file = Mine /\ sweep = NoFile /\ sweeping = NoFile
      /\ ready = "no" /\ ~timer /\ ~held /\ ~frozen /\ chordsDue = FALSE /\ ops = 0
      /\ bad = FALSE /\ life = "down"
  BY DEF Init, ConfigInit
<1>3. /\ Defaults \in Shape /\ Mine \in Shape /\ NoFile \in Shape
      /\ Mine # NoFile /\ Mine.rev = 1 /\ NoFile.rev = -1
  BY DEF Defaults, Mine, NoFile, Settings, Shape
<1>4. SettingsShape /\ KnownFile
  <2>1. SettingsShape
    BY <1>2, <1>3 DEF SettingsShape
  <2>2. file.rev > 0 /\ sweep.rev # 0 /\ sweeping.rev # 0
    BY <1>2, <1>3
  <2> QED
    BY <1>2, <1>3, <2>1, <2>2 DEF KnownFile
<1>5. CallsInOrder
  BY <1>1, <1>2, CallsNone DEF CallsInOrder
<1>6. Booted /\ Landing /\ Bindings
  BY <1>2 DEF Booted, Landing, Bindings
<1> QED
  BY <1>4, <1>5, <1>6 DEF ConfigInv

-----------------------------------------------------------------------------
(* How the calls of the other stores move those of the settings.             *)
Moved(d) ==
  /\ IsCalls(asked') /\ d \in 0..1
  /\ \A i \in 1..Len(asked') : asked'[i].cmd \in ConfigCmds =>
       i + d \in 1..Len(asked) /\ asked'[i] = asked[i + d]
  /\ \A i \in 1..Len(asked) : asked[i].cmd \in ConfigCmds =>
       i - d \in 1..Len(asked') /\ asked'[i - d] = asked[i]

LEMMA MovedSame ==
  ASSUME IsCalls(asked), asked' = asked
  PROVE  Moved(0)
<1>1. \A i \in 1..Len(asked) : i + 0 = i /\ i - 0 = i
  BY CallsShapes
<1> QED
  BY <1>1 DEF Moved

LEMMA MovedOn ==
  ASSUME IsCalls(asked), NEW t, OtherCalls(t), asked' = asked \o t
  PROVE  Moved(0)
<1>1. /\ IsCalls(asked')
      /\ \A i \in 1..Len(asked) : i \in 1..Len(asked') /\ asked'[i] = asked[i]
      /\ \A i \in 1..Len(asked') :
           \/ i \in 1..Len(asked) /\ asked'[i] = asked[i]
           \/ i - Len(asked) \in 1..Len(t) /\ asked'[i] = t[i - Len(asked)]
  BY CallsConcat DEF OtherCalls
<1>2. \A i \in 1..Len(asked') : asked'[i].cmd \in ConfigCmds =>
        i \in 1..Len(asked) /\ asked'[i] = asked[i]
  BY <1>1 DEF OtherCalls
<1>3. \A i \in 1..Len(asked) : i + 0 = i /\ i - 0 = i
  BY CallsShapes
<1> QED
  BY <1>1, <1>2, <1>3 DEF Moved

LEMMA MovedUp ==
  ASSUME IsCalls(asked), asked # <<>>, Head(asked).cmd \notin ConfigCmds, asked' = Tail(asked)
  PROVE  Moved(1)
<1>1. /\ IsCalls(asked') /\ Len(asked') = Len(asked) - 1
      /\ \A i \in 1..Len(asked') : i + 1 \in 1..Len(asked) /\ asked'[i] = asked[i + 1]
  BY CallsTail
<1>2. Len(asked) \in Nat /\ Head(asked) = asked[1]
  BY CallsShapes
<1>3. ASSUME NEW i \in 1..Len(asked), asked[i].cmd \in ConfigCmds
      PROVE  i - 1 \in 1..Len(asked') /\ asked'[i - 1] = asked[i]
  <2> DEFINE k == i - 1
  <2>1. k \in 1..Len(asked') /\ k + 1 = i
    BY <1>1, <1>2, <1>3
  <2> HIDE DEF k
  <2>2. asked'[k] = asked[i]
    BY <1>1, <2>1
  <2> QED
    BY <2>1, <2>2 DEF k
<1> QED
  BY <1>1, <1>3 DEF Moved

(* The saves on their way, after calls of the other stores moved.            *)
LEMMA MovedSaves ==
  ASSUME IsCalls(asked), NEW d, Moved(d)
  PROVE  /\ \A i \in SavesAt' : i + d \in SavesAt /\ asked'[i] = asked[i + d]
         /\ \A i \in SavesAt : i - d \in SavesAt' /\ asked'[i - d] = asked[i]
         /\ SavesAt \subseteq Int /\ SavesAt' \subseteq Int
<1>1. ASSUME NEW i \in SavesAt' PROVE i + d \in SavesAt /\ asked'[i] = asked[i + d]
  <2>1. i \in 1..Len(asked') /\ asked'[i].cmd = "save_config"
    BY DEF SavesAt
  <2>2. i + d \in 1..Len(asked) /\ asked'[i] = asked[i + d]
    BY <2>1 DEF Moved, ConfigCmds
  <2> QED
    BY <2>1, <2>2 DEF SavesAt
<1>2. ASSUME NEW i \in SavesAt PROVE i - d \in SavesAt' /\ asked'[i - d] = asked[i]
  <2>1. i \in 1..Len(asked) /\ asked[i].cmd = "save_config"
    BY DEF SavesAt
  <2>2. i - d \in 1..Len(asked') /\ asked'[i - d] = asked[i]
    BY <2>1 DEF Moved, ConfigCmds
  <2> QED
    BY <2>1, <2>2 DEF SavesAt
<1>3. SavesAt \subseteq Int /\ SavesAt' \subseteq Int
  BY DEF SavesAt
<1> QED
  BY <1>1, <1>2, <1>3

(* What the other stores do leaves the invariant alone.                      *)
LEMMA ConfigMoved ==
  ASSUME ConfigInv, NEW d, Moved(d), ops' \in Nat, life' = life, life = "up" \/ asked' = asked,
         UNCHANGED <<settings, ready, timer, chordsDue, held, frozen, fileVars, bindVars, kin>>
  PROVE  ConfigInv'
<1> USE DEF ConfigInv
<1>1. IsCalls(asked) /\ d \in 0..1 /\ IsCalls(asked')
  BY DEF CallsInOrder, Moved
<1>2. /\ \A i \in SavesAt' : i + d \in SavesAt /\ asked'[i] = asked[i + d]
      /\ \A i \in SavesAt : i - d \in SavesAt' /\ asked'[i - d] = asked[i]
      /\ SavesAt \subseteq Int /\ SavesAt' \subseteq Int
  BY <1>1, MovedSaves
<1>3. SettingsShape' /\ Booted' /\ KnownFile'
  BY DEF SettingsShape, Booted, KnownFile, fileVars
<1>4. CallsInOrder'
  <2>1. ASSUME life' = "down" PROVE asked' = <<>> /\ ready' = "no"
    BY <2>1 DEF CallsInOrder
  <2>2. ASSUME NEW i \in 1..Len(asked'), asked'[i].cmd = "load_config"
        PROVE  i = 1 /\ ready' = "no" /\ (~recovered' => live' = file'.chords /\ ~bad')
    <3>1. i + d \in 1..Len(asked) /\ asked[i + d].cmd = "load_config"
      BY <2>2 DEF Moved, ConfigCmds
    <3>2. i + d = 1 /\ ready = "no" /\ (~recovered => live = file.chords /\ ~bad)
      BY <3>1 DEF CallsInOrder
    <3>3. i = 1
      BY <1>1, <3>2
    <3> QED
      BY <3>2, <3>3 DEF fileVars, bindVars
  <2>3. ASSUME NEW i \in SavesAt'
        PROVE  /\ ready' # "no" /\ settings'.rev > 0 /\ asked'[i].chords \in BOOLEAN
               /\ asked'[i].body \in Shape /\ asked'[i].body.rev > 0
    BY <1>2 DEF CallsInOrder
  <2> QED
    BY <1>1, <2>1, <2>2, <2>3 DEF CallsInOrder
<1>5. Landing'
  <2> SUFFICES ASSUME ready = "yes" PROVE Landing'
    BY DEF Landing
  <2>1. ASSUME ~timer, ~frozen, NEW i \in SavesAt', \A j \in SavesAt' : j <= i
        PROVE  asked'[i].body = settings
    <3>1. ASSUME NEW j \in SavesAt PROVE j <= i + d
      <4>1. j - d <= i
        BY <1>2, <2>1
      <4> QED
        BY <1>1, <1>2, <4>1
    <3> QED
      BY <1>2, <2>1, <3>1 DEF Landing
  <2>2. SavesAt' = {} => SavesAt = {}
    BY <1>2
  <2> QED
    BY <2>1, <2>2 DEF Landing, fileVars
<1>6. Bindings'
  <2> SUFFICES ASSUME ready = "yes", ~recovered PROVE Bindings'
    BY DEF Bindings, fileVars
  <2>1. ASSUME ~chordsDue, NEW i \in SavesAt', \A j \in SavesAt' : j > i => ~asked'[j].chords
        PROVE  asked'[i].body.chords = settings.chords
    <3>1. ASSUME NEW j \in SavesAt, j > i + d PROVE ~asked[j].chords
      <4>1. j - d > i /\ j - d \in SavesAt' /\ asked'[j - d] = asked[j]
        BY <1>1, <1>2, <3>1
      <4> QED
        BY <2>1, <4>1
    <3>2. i + d \in SavesAt /\ asked'[i] = asked[i + d]
      BY <1>2
    <3> DEFINE k == i + d
    <3>3. k \in SavesAt /\ \A j \in SavesAt : j > k => ~asked[j].chords
      BY <3>1, <3>2
    <3> HIDE DEF k
    <3>4. asked[k].body.chords = settings.chords
      BY <2>1, <3>3 DEF Bindings
    <3> QED
      BY <3>2, <3>4 DEF k
  <2>2. (\A j \in SavesAt' : ~asked'[j].chords) => \A j \in SavesAt : ~asked[j].chords
    BY <1>2
  <2>3. (\E j \in SavesAt : asked[j].chords) => \E j \in SavesAt' : asked'[j].chords
    BY <1>2
  <2>4. SavesAt # {} => SavesAt' # {}
    BY <1>2
  <2> QED
    BY <2>1, <2>2, <2>3, <2>4 DEF Bindings, fileVars, bindVars
<1> QED
  BY <1>3, <1>4, <1>5, <1>6

-----------------------------------------------------------------------------
(* A save issued after the calls there are, perhaps after other stores' ones.  *)
Issued ==
  /\ IsCalls(asked') /\ Len(asked') > Len(asked) /\ asked'[Len(asked')] = ConfigCall
  /\ \A i \in 1..Len(asked) : asked'[i] = asked[i]
  /\ \A i \in 1..Len(asked') :
       i \in 1..Len(asked) \/ i = Len(asked') \/ asked'[i].cmd \notin ConfigCmds

LEMMA IssuedBy ==
  ASSUME IsCalls(asked), NEW t, OtherCalls(t), asked' = asked \o t \o <<ConfigCall>>
  PROVE  Issued
<1> DEFINE u == asked \o t
<1>1. /\ IsCalls(u) /\ Len(u) = Len(asked) + Len(t)
      /\ \A i \in 1..Len(asked) : i \in 1..Len(u) /\ u[i] = asked[i]
      /\ \A i \in 1..Len(u) :
           \/ i \in 1..Len(asked) /\ u[i] = asked[i]
           \/ i - Len(asked) \in 1..Len(t) /\ u[i] = t[i - Len(asked)]
  BY CallsConcat DEF OtherCalls
<1>2. asked' = u \o <<ConfigCall>>
  OBVIOUS
<1>3. Len(asked) \in Nat /\ Len(t) \in Nat
  BY CallsShapes DEF OtherCalls
<1> HIDE DEF u
<1> DEFINE c == <<ConfigCall>>
<1>4. IsCalls(c) /\ Len(c) = 1 /\ c[1] = ConfigCall
  BY CallsOne
<1>5. asked' = u \o c
  BY <1>2
<1> HIDE DEF c
<1> DEFINE n == Len(asked')
<1>6. /\ IsCalls(asked') /\ n = Len(u) + Len(c)
      /\ \A i \in 1..Len(u) : i \in 1..n /\ asked'[i] = u[i]
      /\ \A i \in 1..Len(c) : Len(u) + i \in 1..n /\ asked'[Len(u) + i] = c[i]
      /\ \A i \in 1..n :
           \/ i \in 1..Len(u) /\ asked'[i] = u[i]
           \/ i - Len(u) \in 1..Len(c) /\ asked'[i] = c[i - Len(u)]
  <2> DEFINE w == u \o c
  <2>1. /\ IsCalls(w) /\ Len(w) = Len(u) + Len(c)
        /\ \A i \in 1..Len(u) : i \in 1..Len(w) /\ w[i] = u[i]
        /\ \A i \in 1..Len(c) : Len(u) + i \in 1..Len(w) /\ w[Len(u) + i] = c[i]
        /\ \A i \in 1..Len(w) :
             \/ i \in 1..Len(u) /\ w[i] = u[i]
             \/ i - Len(u) \in 1..Len(c) /\ w[i] = c[i - Len(u)]
    <3>1. IsCalls(u) /\ IsCalls(c)
      BY <1>1, <1>4
    <3> QED
      BY <3>1, CallsConcat
  <2>2. asked' = w
    BY <1>5
  <2> HIDE DEF w
  <2> QED
    BY <2>1, <2>2
<1> HIDE DEF n
<1>7. n > Len(asked) /\ Len(u) \in Nat /\ n = Len(u) + 1
  BY <1>1, <1>3, <1>4, <1>6
<1>8. asked'[n] = ConfigCall
  <2>1. 1 \in 1..Len(c)
    BY <1>4
  <2>2. asked'[Len(u) + 1] = c[1]
    BY <1>6, <2>1
  <2> QED
    BY <1>4, <1>7, <2>2
<1>9. ASSUME NEW i \in 1..n, i \notin 1..Len(asked), i # n
      PROVE  asked'[i].cmd \notin ConfigCmds
  <2>1. i \in 1..Len(u)
    BY <1>7, <1>9
  <2>2. asked'[i] = u[i] /\ i - Len(asked) \in 1..Len(t) /\ u[i] = t[i - Len(asked)]
    BY <1>1, <1>6, <1>9, <2>1
  <2> QED
    BY <2>2 DEF OtherCalls
<1>10. \A i \in 1..Len(asked) : asked'[i] = asked[i]
  BY <1>1, <1>6
<1> QED
  BY <1>6, <1>7, <1>8, <1>9, <1>10 DEF Issued, n

(* saveNow: the settings are sent, or a conflict freezes them.                *)
LEMMA ConfigSaved ==
  ASSUME ConfigInv, NEW known, SaveNow(known), ready # "no", settings.rev > 0,
         ops' \in Nat, life = "up", life' = "up",
         Clashes(known) => Moved(0), ~Clashes(known) => Issued,
         UNCHANGED <<settings, ready, fileVars, bindVars, kin>>
  PROVE  ConfigInv'
<1> USE DEF ConfigInv
<1>1. IsCalls(asked) /\ Len(asked) \in Nat /\ chordsDue \in BOOLEAN /\ settings \in Shape
  BY CallsShapes DEF CallsInOrder, SettingsShape
<1>2. /\ timer' = FALSE /\ frozen' = Clashes(known) /\ held' = (held \/ Clashes(known))
      /\ chordsDue' = (chordsDue /\ Clashes(known))
  BY DEF SaveNow
<1>3. SettingsShape' /\ KnownFile' /\ Booted'
  <2>1. SettingsShape' /\ KnownFile'
    BY <1>2 DEF SettingsShape, KnownFile, fileVars
  <2>2. Booted'
    BY <1>2 DEF Booted
  <2> QED
    BY <2>1, <2>2
<1>4. CASE Clashes(known)
  <2>1. /\ \A i \in SavesAt' : i \in SavesAt /\ asked'[i] = asked[i]
        /\ \A i \in SavesAt : i \in SavesAt' /\ asked'[i] = asked[i]
    <3>1. /\ \A i \in SavesAt' : i + 0 \in SavesAt /\ asked'[i] = asked[i + 0]
          /\ \A i \in SavesAt : i - 0 \in SavesAt' /\ asked'[i - 0] = asked[i]
          /\ SavesAt \subseteq Int /\ SavesAt' \subseteq Int
      BY <1>1, <1>4, MovedSaves
    <3>2. \A i \in Int : i + 0 = i /\ i - 0 = i
      OBVIOUS
    <3> QED
      BY <3>1, <3>2
  <2>2. CallsInOrder'
    <3>1. \A i \in 1..Len(asked') : asked'[i].cmd # "load_config"
      BY <1>4 DEF Moved, ConfigCmds, CallsInOrder
    <3>2. IsCalls(asked')
      BY <1>4 DEF Moved
    <3> QED
      BY <2>1, <3>1, <3>2 DEF CallsInOrder
  <2>3. Landing'
    BY <1>2, <1>4 DEF Landing
  <2>4. Bindings'
    <3>1. chordsDue' = chordsDue /\ held'
      BY <1>1, <1>2, <1>4
    <3> QED
      BY <2>1, <3>1 DEF Bindings, fileVars, bindVars
  <2> QED
    BY <1>3, <2>2, <2>3, <2>4
<1>5. CASE ~Clashes(known)
  <2> DEFINE n == Len(asked')
  <2>1. /\ IsCalls(asked') /\ n \in Nat /\ n > Len(asked)
        /\ asked'[n].cmd = "save_config" /\ asked'[n].body = settings
        /\ asked'[n].chords = chordsDue
        /\ \A i \in 1..Len(asked) : asked'[i] = asked[i]
        /\ \A i \in 1..n : i \in 1..Len(asked) \/ i = n \/ asked'[i].cmd \notin ConfigCmds
    BY <1>5, CallsShapes DEF Issued, ConfigCall
  <2> HIDE DEF n
  <2>2. /\ n \in SavesAt' /\ \A i \in SavesAt' : i = n \/ (i \in SavesAt /\ asked'[i] = asked[i])
        /\ \A i \in SavesAt : i \in SavesAt' /\ i < n /\ asked'[i] = asked[i]
        /\ SavesAt' \subseteq 1..n
    <3>1. n \in 1..n /\ \A i \in 1..Len(asked) : i \in 1..n /\ i < n
      BY <1>1, <2>1
    <3>2. SavesAt' = {i \in 1..n : asked'[i].cmd = "save_config"}
      BY DEF SavesAt, n
    <3> QED
      BY <2>1, <3>1, <3>2 DEF SavesAt, ConfigCmds
  <2>3. CallsInOrder'
    <3>1. ASSUME NEW i \in 1..n PROVE asked'[i].cmd # "load_config"
      BY <2>1 DEF ConfigCmds, CallsInOrder
    <3>2. settings.rev > 0 /\ asked'[n].chords \in BOOLEAN /\ asked'[n].body \in Shape
      BY <1>1, <2>1
    <3>3. ASSUME NEW i \in SavesAt'
          PROVE  /\ ready' # "no" /\ settings'.rev > 0 /\ asked'[i].chords \in BOOLEAN
                 /\ asked'[i].body \in Shape /\ asked'[i].body.rev > 0
      <4>1. CASE i = n
        BY <2>1, <3>2, <4>1
      <4>2. CASE i # n
        BY <2>2, <4>2 DEF CallsInOrder
      <4> QED
        BY <4>1, <4>2
    <3> QED
      BY <2>1, <3>1, <3>3 DEF CallsInOrder, n
  <2>4. Landing'
    <3>1. ASSUME NEW i \in SavesAt', \A j \in SavesAt' : j <= i PROVE asked'[i].body = settings
      <4>1. n <= i /\ i \in 1..n
        BY <2>2, <3>1
      <4>2. i = n
        BY <2>1, <4>1
      <4> QED
        BY <2>1, <4>2
    <3>2. SavesAt' # {}
      BY <2>2
    <3> QED
      BY <3>1, <3>2 DEF Landing
  <2>5. Bindings'
    <3> SUFFICES ASSUME ready = "yes", ~recovered PROVE Bindings'
      BY DEF Bindings, fileVars
    <3>1. ASSUME NEW i \in SavesAt', \A j \in SavesAt' : j > i => ~asked'[j].chords
          PROVE  asked'[i].body.chords = settings.chords
      <4>1. CASE i = n
        BY <2>1, <4>1
      <4>2. CASE i # n
        <5>1. i \in SavesAt /\ i < n /\ asked'[i] = asked[i]
          BY <2>2, <4>2
        <5>2. i \in Int /\ n > i
          BY <2>1, <2>2, <5>1
        <5>3. ~chordsDue
          BY <2>1, <2>2, <3>1, <5>2
        <5>4. \A j \in SavesAt : j > i => ~asked[j].chords
          BY <2>2, <3>1
        <5> QED
          BY <5>1, <5>3, <5>4 DEF Bindings
      <4> QED
        BY <4>1, <4>2
    <3>2. (\A j \in SavesAt' : ~asked'[j].chords) => file.chords = settings.chords
      BY <2>1, <2>2 DEF Bindings
    <3>3. live = file.chords \/ rebind \/ missed \/ \E j \in SavesAt' : asked'[j].chords
      BY <2>1, <2>2 DEF Bindings
    <3> QED
      BY <1>2, <3>1, <3>2, <3>3 DEF Bindings, fileVars, bindVars
  <2> QED
    BY <1>3, <2>3, <2>4, <2>5
<1> QED
  BY <1>4, <1>5

-----------------------------------------------------------------------------
(* What the other stores' actions do to the calls.                          *)

(* Calls added one after the other are added as one sequence.                *)
LEMMA Regrouped ==
  ASSUME NEW s, NEW t, NEW u, IsCalls(s), IsCalls(t), IsCalls(u)
  PROVE  (s \o t) \o u = s \o (t \o u)
<1>1. PICK X : s \in Seq(X)
  BY DEF IsCalls
<1>2. PICK Y : t \in Seq(Y)
  BY DEF IsCalls
<1>3. PICK Z : u \in Seq(Z)
  BY DEF IsCalls
<1> DEFINE W == X \cup Y \cup Z
<1>4. X \subseteq W /\ Y \subseteq W /\ Z \subseteq W
  OBVIOUS
<1> HIDE DEF W
<1>5. s \in Seq(W) /\ t \in Seq(W) /\ u \in Seq(W)
  BY <1>1, <1>2, <1>3, <1>4, SeqMonotonic
<1> QED
  BY <1>5, ConcatAssociative

LEMMA Joined ==
  ASSUME NEW t, NEW u, OtherCalls(t), OtherCalls(u)
  PROVE  OtherCalls(t \o u)
<1> DEFINE v == t \o u
<1>1. /\ IsCalls(v)
      /\ \A i \in 1..Len(v) :
           \/ i \in 1..Len(t) /\ v[i] = t[i]
           \/ i - Len(t) \in 1..Len(u) /\ v[i] = u[i - Len(t)]
  BY CallsConcat DEF OtherCalls
<1> HIDE DEF v
<1>2. OtherCalls(v)
  BY <1>1 DEF OtherCalls
<1> QED
  BY <1>2 DEF v

LEMMA MovedPast ==
  ASSUME IsCalls(asked), NEW t, NEW u, OtherCalls(t), OtherCalls(u), asked' = asked \o t \o u
  PROVE  Moved(0)
<1>1. IsCalls(t) /\ IsCalls(u)
  BY DEF OtherCalls
<1>2. asked \o t \o u = asked \o (t \o u)
  BY <1>1, Regrouped
<1>3. OtherCalls(t \o u)
  BY Joined
<1> QED
  BY <1>2, <1>3, MovedOn

LEMMA MovedBy ==
  ASSUME IsCalls(asked), NEW c, c.cmd \notin ConfigCmds, asked' = Append(asked, c)
  PROVE  Moved(0) /\ OtherCalls(<<c>>)
<1>1. PICK X : asked \in Seq(X)
  BY DEF IsCalls
<1>2. asked \in Seq(X \cup {c}) /\ c \in X \cup {c}
  BY <1>1, SeqMonotonic
<1>3. asked' = asked \o <<c>>
  BY <1>2, AppendProperties
<1>4. OtherCalls(<<c>>)
  <2> DEFINE s == <<c>>
  <2>1. IsCalls(s) /\ Len(s) = 1 /\ s[1] = c
    BY CallsOne
  <2> HIDE DEF s
  <2>2. OtherCalls(s)
    BY <2>1 DEF OtherCalls
  <2> QED
    BY <2>2 DEF s
<1> QED
  BY <1>3, <1>4, MovedOn

LEMMA OtherCommands ==
  /\ OtherCalls(<<ListCall>>) /\ OtherCalls(<<>>)
  /\ WipeCall.cmd \notin ConfigCmds /\ \A r : DeleteCall(r).cmd \notin ConfigCmds
<1> DEFINE s == <<ListCall>>
<1>1. IsCalls(s) /\ Len(s) = 1 /\ s[1] = ListCall
  BY CallsOne
<1>2. ListCall.cmd \notin ConfigCmds
  BY DEF ListCall, ConfigCmds
<1> HIDE DEF s
<1>3. OtherCalls(s)
  BY <1>1, <1>2 DEF OtherCalls
<1>4. OtherCalls(<<>>)
  BY CallsNone DEF OtherCalls
<1>5. WipeCall.cmd \notin ConfigCmds /\ \A r : DeleteCall(r).cmd \notin ConfigCmds
  BY DEF WipeCall, DeleteCall, ConfigCmds
<1> QED
  BY <1>3, <1>4, <1>5 DEF s

LEMMA MovedUpsert ==
  ASSUME IsCalls(asked), NEW r \in Records, NEW copy, Upsert(r, copy)
  PROVE  Moved(0)
<1>1. CASE asked' = asked
  BY <1>1, MovedSame
<1>2. CASE asked' = asked \o Saves({r}, mirror')
  <2>1. OtherCalls(Saves({r}, mirror'))
    BY SavesWritten
  <2> QED
    BY <1>2, <2>1, MovedOn
<1> QED
  BY <1>1, <1>2 DEF Upsert

LEMMA MovedLoad ==
  ASSUME IsCalls(asked), NEW force, NEW parks, NEW kept, LoadHistory(force, parks, kept)
  PROVE  Moved(0)
<1>1. CASE asked' = asked
  BY <1>1, MovedSame
<1>2. CASE asked' = asked \o Saves(Listed(parks), parks) \o <<ListCall>>
  <2>1. OtherCalls(Saves(Listed(parks), parks))
    BY SavesWritten DEF Listed
  <2> QED
    BY <1>2, <2>1, OtherCommands, MovedPast
<1> QED
  BY <1>1, <1>2 DEF LoadHistory

LEMMA MovedSweep ==
  ASSUME IsCalls(asked), NEW keep, HearSweep(keep)
  PROVE  Moved(0)
<1> DEFINE drops == Head(swept) /\ ~keep
           parks == IF drops THEN Dropped(Dictations) ELSE parked
           rs == IF wipedHeard \/ drops THEN Listed(parks) \ Dictations ELSE Listed(parks)
<1>1. asked' = asked \o Written(rs, parks) /\ rs \in SUBSET Records
  BY DEF HearSweep, Written, Listed
<1> HIDE DEF parks, rs
<1>2. OtherCalls(Written(rs, parks))
  BY <1>1, WrittenCalls
<1> QED
  BY <1>1, <1>2, MovedOn

(* Every task of History, of the queue and of the sweep's worker.             *)
LEMMA HistoryMoves ==
  ASSUME IsCalls(asked), HistoryTask \/ RecordNew \/ Chained \/ FlushSettles
  PROVE  Moved(0) \/ Moved(1)
<1>1. ASSUME NEW r \in Records,
             EditRecord(r) \/ TypeEdit(r) \/ TypingTimer(r) \/ CoalesceTimer(r) \/ AddRecord(r)
      PROVE  Moved(0)
  <2>1. CASE TypeEdit(r)
    BY <2>1, MovedSame DEF TypeEdit
  <2>2. ASSUME NEW copy, Upsert(r, copy) PROVE Moved(0)
    BY <2>2, MovedUpsert
  <2>3. CASE TypingTimer(r)
    BY <2>2, <2>3, MovedSame DEF TypingTimer
  <2>4. CASE EditRecord(r) \/ AddRecord(r)
    BY <2>2, <2>4 DEF EditRecord, AddRecord
  <2>5. CASE CoalesceTimer(r)
    <3>1. asked' = asked \o Saves({r}, parked) /\ OtherCalls(Saves({r}, parked))
      BY <2>5, SavesWritten DEF CoalesceTimer
    <3> QED
      BY <3>1, MovedOn
  <2> QED
    BY <1>1, <2>1, <2>3, <2>4, <2>5
<1>2. ASSUME NEW r \in Records, DeleteRecord(r) PROVE Moved(0)
  <2>1. asked' = Append(asked, DeleteCall(r))
    BY <1>2 DEF DeleteRecord
  <2> QED
    BY <2>1, OtherCommands, MovedBy
<1>3. ASSUME asked' = asked \/ asked' = asked \o Saves(Listed(parked), parked) PROVE Moved(0)
  <2>1. OtherCalls(Saves(Listed(parked), parked))
    BY SavesWritten DEF Listed
  <2> QED
    BY <1>3, <2>1, MovedSame, MovedOn
<1>4. ASSUME NEW r \in Records, DeleteRuns(r) PROVE Moved(0)
  BY <1>3, <1>4 DEF DeleteRuns
<1>5. CASE AskWipe
  BY <1>3, <1>5 DEF AskWipe
<1>6. CASE ListRuns \/ ListLands \/ WipeRuns \/ WipeFails
  BY <1>6, MovedSame DEF ListRuns, ListLands, WipeRuns, WipeFails, callVars
<1>7. CASE OpenHistory \/ WipeAnswered
  BY <1>7, MovedLoad DEF OpenHistory, WipeAnswered
<1>8. CASE ListArrives \/ SaveRecord \/ DeleteArrives \/ WipeArrives
  <2>1. asked # <<>> /\ Head(asked).cmd \notin ConfigCmds /\ asked' = Tail(asked)
    BY <1>8 DEF ListArrives, SaveRecord, DeleteArrives, WipeArrives, Arrives, ConfigCmds
  <2> QED
    BY <2>1, MovedUp
<1>9. CASE HearSweep(settings.keep)
  BY <1>9, MovedSweep
<1>10. CASE RecordNew
  BY <1>1, <1>10 DEF RecordNew
<1>11. CASE Chained
  <2>1. asked' = asked \o Saves(Listed(parked), parked) \o <<ListCall>>
    BY <1>11 DEF Chained
  <2>2. OtherCalls(Saves(Listed(parked), parked))
    BY SavesWritten DEF Listed
  <2> QED
    BY <2>1, <2>2, OtherCommands, MovedPast
<1>12. CASE FlushSettles
  <2>1. CASE LoadHistory(TRUE, parked, stamped)
    BY <2>1, MovedLoad
  <2>2. CASE asked' = Append(asked, WipeCall)
    BY <2>2, OtherCommands, MovedBy
  <2>3. CASE asked' = asked
    BY <2>3, MovedSame
  <2> QED
    BY <1>12, <2>1, <2>2, <2>3 DEF FlushSettles
<1>13. CASE HistoryTask
  BY <1>1, <1>2, <1>4, <1>5, <1>6, <1>7, <1>8, <1>9, <1>13 DEF HistoryTask
<1> QED
  BY <1>10, <1>11, <1>12, <1>13

-----------------------------------------------------------------------------
(* How many saves are underway.                                             *)
LEMMA WritingCount ==
  ASSUME IsCalls(asked)
  PROVE  /\ Writing \in Nat /\ (Writing = 0 <=> SavesAt = {})
         /\ Writing = 1 => \E k : SavesAt = {k}
         /\ \A k : SavesAt = {k} => Writing = 1
<1>1. Writing = Cardinality(SavesAt)
  BY DEF Writing, Underway, SavesAt
<1>2. IsFiniteSet(SavesAt)
  <2>1. Len(asked) \in Nat
    BY CallsShapes
  <2>2. IsFiniteSet(1..Len(asked))
    BY <2>1, FS_Interval
  <2> QED
    BY <2>2, FS_Subset DEF SavesAt
<1>3. Cardinality(SavesAt) \in Nat
  BY <1>2, FS_CardinalityType
<1>4. Cardinality(SavesAt) = 0 <=> SavesAt = {}
  BY <1>2, FS_EmptySet
<1>5. Cardinality(SavesAt) = 1 <=> \E k : SavesAt = {k}
  BY <1>2, FS_Singleton
<1> QED
  BY <1>1, <1>3, <1>4, <1>5

(* A flush of the settings: a save, or a freeze, or nothing.                 *)
LEMMA ConfigFlushed ==
  ASSUME ConfigInv, NEW known, NEW ws, NEW quits, FlushSave(ws, quits, known),
         ready # "no", ops' \in Nat, life = "up", life' = "up",
         NEW t, OtherCalls(t), asked' = asked \o t \o FlushCalls(known),
         UNCHANGED <<settings, ready, fileVars, bindVars, kin>>
  PROVE  ConfigInv'
<1>1. IsCalls(asked)
  BY DEF ConfigInv, CallsInOrder
<1>2. CASE MustSave
  <2>1. SaveNow(known) /\ settings.rev > 0 /\ FlushCalls(known) = SaveCalls(known)
    BY <1>2 DEF FlushSave, ConfigInv, Booted, MustSave, FlushCalls
  <2>2. Clashes(known) => Moved(0)
    <3>1. Clashes(known) => asked' = asked \o t \o <<>>
      BY <2>1 DEF SaveCalls
    <3> QED
      BY <1>1, <3>1, OtherCommands, MovedPast
  <2>3. ~Clashes(known) => Issued
    <3>1. ~Clashes(known) => asked' = asked \o t \o <<ConfigCall>>
      BY <2>1 DEF SaveCalls
    <3> QED
      BY <1>1, <3>1, IssuedBy
  <2> QED
    BY <2>1, <2>2, <2>3, ConfigSaved
<1>3. CASE ~MustSave
  <2>1. asked' = asked \o t \o <<>> /\ UNCHANGED <<timer, frozen, held, chordsDue>>
    BY <1>3 DEF FlushSave, FlushCalls
  <2>2. Moved(0)
    BY <1>1, <2>1, OtherCommands, MovedPast
  <2> QED
    BY <2>1, <2>2, ConfigMoved
<1> QED
  BY <1>2, <1>3

LEMMA NoneFirst ==
  ASSUME IsCalls(asked), NEW t, asked' = asked \o t
  PROVE  asked' = asked \o <<>> \o t
<1>1. PICK X : asked \in Seq(X)
  BY DEF IsCalls
<1>2. asked \o <<>> = asked
  BY <1>1, ConcatEmptySeq
<1> QED
  BY <1>2

(* The auto-save, its retries, and the flushes.                              *)
LEMMA ConfigSaves ==
  ASSUME ConfigInv, ops' \in Nat, life = "up", life' = "up",
         SaveTimer \/ RetryHeld \/ LearnPermitted \/ Reflush
  PROVE  ConfigInv'
<1>1. IsCalls(asked) /\ OtherCalls(<<>>)
  BY OtherCommands DEF ConfigInv, CallsInOrder
<1>2. CASE SaveTimer
  <2>1. /\ SaveNow(permitted) /\ timer /\ asked' = asked \o SaveCalls(permitted)
        /\ UNCHANGED <<settings, ready, fileVars, bindVars, kin>>
    BY <1>2 DEF SaveTimer
  <2>2. settings.rev > 0 /\ ready # "no"
    BY <2>1 DEF ConfigInv, Booted
  <2>3. asked' = asked \o <<>> \o SaveCalls(permitted)
    BY <1>1, <2>1, NoneFirst
  <2>4. Clashes(permitted) => Moved(0)
    BY <1>1, <2>3, MovedPast DEF SaveCalls
  <2>5. ~Clashes(permitted) => Issued
    BY <1>1, <2>3, IssuedBy DEF SaveCalls
  <2> QED
    BY <2>1, <2>2, <2>4, <2>5, ConfigSaved
<1>3. ASSUME NEW known, NEW ws, NEW quits, FlushSave(ws, quits, known), ready # "no",
             asked' = asked \o FlushCalls(known),
             UNCHANGED <<settings, ready, fileVars, bindVars, kin>>
      PROVE  ConfigInv'
  <2>1. asked' = asked \o <<>> \o FlushCalls(known)
    BY <1>1, <1>3, NoneFirst
  <2> QED
    BY <1>1, <1>3, <2>1, ConfigFlushed
<1>4. CASE RetryHeld
  <2>1. ready # "no"
    BY <1>4 DEF RetryHeld, ConfigInv, Booted
  <2> QED
    BY <1>3, <1>4, <2>1 DEF RetryHeld
<1>5. CASE LearnPermitted
  <2>1. CASE held
    BY <1>3, <1>5, <2>1 DEF LearnPermitted
  <2>2. CASE ~held
    <3>1. /\ asked' = asked
          /\ UNCHANGED <<settings, ready, timer, chordsDue, held, frozen, fileVars, bindVars, kin>>
      BY <1>5, <2>2 DEF LearnPermitted
    <3> QED
      BY <1>1, <3>1, MovedSame, ConfigMoved
  <2> QED
    BY <2>1, <2>2
<1>6. CASE Reflush
  <2>1. CASE ready # "no"
    BY <1>3, <1>6, <2>1 DEF Reflush
  <2>2. CASE ready = "no"
    <3>1. ~timer /\ ~held
      BY <2>2 DEF ConfigInv, Booted
    <3>2. ~MustSave
      BY <3>1 DEF MustSave
    <3>3. /\ asked' = asked \o <<>>
          /\ UNCHANGED <<settings, ready, timer, chordsDue, held, frozen, fileVars, bindVars, kin>>
      BY <1>6, <3>2 DEF Reflush, FlushSave, FlushCalls
    <3> QED
      BY <1>1, <3>3, MovedOn, ConfigMoved
  <2> QED
    BY <2>1, <2>2
<1> QED
  BY <1>2, <1>4, <1>5, <1>6

(* A change the auto-save hears.                                            *)
LEMMA ConfigChanged ==
  ASSUME ConfigInv, NEW s \in Shape, s.rev > 0, Changes(s), ops' \in Nat,
         life = "up", life' = "up"
  PROVE  ConfigInv'
<1> USE DEF ConfigInv
<1>1. /\ ready # "no" /\ asked' = asked /\ settings' = s /\ timer' = TRUE
      /\ chordsDue' = (chordsDue \/ s.chords # settings.chords)
      /\ UNCHANGED <<ready, held, frozen, fileVars, bindVars, kin>>
  BY DEF Changes
<1>2. SavesAt' = SavesAt
  BY <1>1 DEF SavesAt
<1>3. SettingsShape' /\ KnownFile' /\ Booted' /\ Landing'
  BY <1>1 DEF SettingsShape, KnownFile, Booted, Landing, fileVars
<1>4. CallsInOrder'
  BY <1>1, <1>2 DEF CallsInOrder
<1>5. Bindings'
  <2>1. CASE s.chords = settings.chords
    BY <1>1, <1>2, <2>1 DEF Bindings, SettingsShape, fileVars, bindVars
  <2>2. CASE s.chords # settings.chords
    BY <1>1, <2>2 DEF Bindings
  <2> QED
    BY <2>1, <2>2
<1> QED
  BY <1>3, <1>4, <1>5

LEMMA ConfigEdited ==
  ASSUME ConfigInv, ops' \in Nat, life = "up", life' = "up",
         EditPlain \/ EditKeep \/ \E clash \in {"none", "sides", "real"} : EditChords(clash)
  PROVE  ConfigInv'
<1>1. Rev \in Int /\ Rev > 0 /\ settings \in Shape
  BY DEF ConfigInv, SettingsShape, Rev, Edit
<1>2. ASSUME NEW clash \in {"none", "sides", "real"}
      PROVE  /\ [settings EXCEPT !.rev = Rev, !.chords = Rev, !.clash = clash] \in Shape
             /\ [settings EXCEPT !.rev = Rev, !.chords = Rev, !.clash = clash].rev > 0
  BY <1>1 DEF Shape
<1>3. /\ [settings EXCEPT !.rev = Rev] \in Shape /\ [settings EXCEPT !.rev = Rev].rev > 0
      /\ [settings EXCEPT !.rev = Rev, !.keep = ~@] \in Shape
      /\ [settings EXCEPT !.rev = Rev, !.keep = ~@].rev > 0
  BY <1>1 DEF Shape
<1> QED
  BY <1>2, <1>3, ConfigChanged DEF EditPlain, EditKeep, EditChords

-----------------------------------------------------------------------------
(* The calls after the first of them arrived.                               *)
LEMMA SavesTail ==
  ASSUME IsCalls(asked), asked # <<>>, asked' = Tail(asked)
  PROVE  /\ IsCalls(asked') /\ SavesAt \subseteq Int /\ SavesAt' \subseteq Int
         /\ \A i \in 1..Len(asked') : asked'[i].cmd = "load_config" =>
              i + 1 \in 2..Len(asked) /\ asked[i + 1].cmd = "load_config"
         /\ \A i \in SavesAt' : i + 1 \in SavesAt /\ i + 1 > 1 /\ asked'[i] = asked[i + 1]
         /\ \A i \in SavesAt : i # 1 =>
              i > 1 /\ i - 1 \in SavesAt' /\ asked'[i - 1] = asked[i]
<1>1. /\ IsCalls(asked') /\ Len(asked') = Len(asked) - 1
      /\ \A i \in 1..Len(asked') : i + 1 \in 1..Len(asked) /\ asked'[i] = asked[i + 1]
  BY CallsTail
<1>2. Len(asked) \in Nat
  BY CallsShapes
<1>3. SavesAt' = {i \in 1..Len(asked') : asked'[i].cmd = "save_config"}
  BY DEF SavesAt
<1>4. ASSUME NEW i \in SavesAt, i # 1
      PROVE  i > 1 /\ i - 1 \in SavesAt' /\ asked'[i - 1] = asked[i]
  <2> DEFINE k == i - 1
  <2>1. k \in 1..Len(asked') /\ k + 1 = i /\ i > 1
    BY <1>1, <1>2, <1>4 DEF SavesAt
  <2> HIDE DEF k
  <2>2. asked'[k] = asked[i]
    BY <1>1, <2>1
  <2> QED
    BY <1>3, <2>1, <2>2 DEF SavesAt, k
<1>5. \A i \in SavesAt' : i + 1 \in SavesAt /\ i + 1 > 1 /\ asked'[i] = asked[i + 1]
  BY <1>1, <1>3 DEF SavesAt
<1>6. SavesAt \subseteq Int /\ SavesAt' \subseteq Int
  BY <1>3 DEF SavesAt
<1>7. \A i \in 1..Len(asked') : asked'[i].cmd = "load_config" =>
        i + 1 \in 2..Len(asked) /\ asked[i + 1].cmd = "load_config"
  BY <1>1
<1> QED
  BY <1>1, <1>4, <1>5, <1>6, <1>7

(* The launch's load arrives: there is no save yet.                          *)
LEMMA LoadAlone ==
  ASSUME ConfigInv, Arrives("load_config"), asked' = Tail(asked)
  PROVE  /\ ready = "no" /\ IsCalls(asked') /\ SavesAt' = {} /\ life # "down"
         /\ \A i \in 1..Len(asked') : asked'[i].cmd # "load_config"
         /\ ~recovered => live = file.chords /\ ~bad
<1>1. IsCalls(asked) /\ asked # <<>> /\ life # "down"
  BY DEF ConfigInv, CallsInOrder, Arrives
<1>2. 1 \in 1..Len(asked) /\ asked[1].cmd = "load_config"
  BY <1>1, CallsShapes DEF Arrives
<1>3. ready = "no" /\ (~recovered => live = file.chords /\ ~bad)
  BY <1>2 DEF ConfigInv, CallsInOrder
<1>4. SavesAt = {}
  BY <1>3 DEF ConfigInv, CallsInOrder
<1>5. SavesAt' = {}
  BY <1>1, <1>4, SavesTail
<1>6. ASSUME NEW i \in 1..Len(asked'), asked'[i].cmd = "load_config" PROVE FALSE
  <2>1. i + 1 \in 2..Len(asked) /\ asked[i + 1].cmd = "load_config"
    BY <1>1, <1>6, SavesTail
  <2>2. i + 1 \in 1..Len(asked) /\ i + 1 # 1
    BY <2>1
  <2> QED
    BY <2>1, <2>2 DEF ConfigInv, CallsInOrder
<1> QED
  BY <1>1, <1>3, <1>5, <1>6, SavesTail

(* What a load does to the files.                                           *)
LEMMA Loaded ==
  ASSUME SettingsShape, KnownFile, NEW body, Loads(body)
  PROVE  /\ body \in Shape /\ file' \in Shape
         /\ file' \in {file, NoFile} /\ (file' # file => file \in backups')
         /\ file' = NoFile \/ file'.rev > 0
         /\ bad' => file' # NoFile
         /\ file' = NoFile => backups' # {}
         /\ file' = NoFile \/ file' \in backups' \/ file' = body \/ refused'
         /\ body.rev > 0 => body = file'
         /\ body.rev = 0 \/ body.rev > 0
         /\ body.rev = 0 => body = Defaults /\ (recovered' \/ file' = NoFile)
         /\ ~recovered' => /\ file' = file
                           /\ body = file \/ (file = NoFile /\ body = Defaults)
                           /\ ~bad'
<1>1. /\ Defaults \in Shape /\ NoFile \in Shape /\ Defaults.rev = 0 /\ NoFile.rev = -1
  BY DEF Defaults, NoFile, Settings, Shape
<1>2. /\ file \in Shape /\ (file = NoFile \/ file.rev > 0) /\ (bad => file # NoFile)
      /\ file = NoFile => backups # {}
  BY DEF SettingsShape, KnownFile
<1>3. file.rev \in Int
  BY <1>2 DEF Shape
<1>4. CASE ~bad /\ body = (IF file = NoFile THEN Defaults ELSE file)
           /\ UNCHANGED <<file, bad, backups, recovered, refused>>
  BY <1>1, <1>2, <1>3, <1>4
<1>5. CASE bad /\ body = file /\ ~bad' /\ UNCHANGED <<file, backups, recovered, refused>>
  BY <1>1, <1>2, <1>3, <1>5
<1>6. CASE /\ bad /\ body = Defaults /\ recovered'
           /\ \/ file' = NoFile /\ ~bad' /\ backups' = backups \cup {file}
              \/ backups' = backups \cup {file} /\ file' = file
              \/ refused' /\ file' = file /\ backups' = backups
  BY <1>1, <1>2, <1>3, <1>6
<1> QED
  BY <1>4, <1>5, <1>6 DEF Loads

LEMMA ConfigLoads ==
  ASSUME ConfigInv, ops' \in Nat, life' = life, LoadConfig
  PROVE  ConfigInv'
<1> USE DEF ConfigInv
<1>1. /\ Arrives("load_config") /\ asked' = Tail(asked)
      /\ UNCHANGED <<timer, chordsDue, held, frozen, sweep, sweeping, live, rebind>>
  BY DEF LoadConfig, bindVars
<1>2. /\ ready = "no" /\ IsCalls(asked') /\ SavesAt' = {} /\ life # "down"
      /\ \A i \in 1..Len(asked') : asked'[i].cmd # "load_config"
      /\ ~recovered => live = file.chords /\ ~bad
  BY <1>1, LoadAlone
<1>3. ~timer /\ ~held /\ ~frozen /\ ~chordsDue
  BY <1>2 DEF Booted
<1>4. CallsInOrder'
  <2>1. life' # "down"
    BY <1>2
  <2> QED
    BY <1>2, <2>1 DEF CallsInOrder
<1>5. CASE ready' = "failed" /\ UNCHANGED <<settings, file, bad, backups, recovered, refused, kin>>
  <2>1. SettingsShape' /\ KnownFile'
    BY <1>1, <1>5 DEF SettingsShape, KnownFile
  <2>2. Booted' /\ Landing' /\ Bindings'
    BY <1>1, <1>3, <1>5 DEF Booted, Landing, Bindings
  <2> QED
    BY <1>4, <2>1, <2>2
<1>6. ASSUME NEW body, Loads(body), settings' = body, kin' = {body}, ready' = "yes"
      PROVE  ConfigInv'
  <2>1. /\ body \in Shape /\ file' \in Shape
        /\ file' = NoFile \/ file'.rev > 0
        /\ bad' => file' # NoFile
        /\ file' = NoFile => backups' # {}
        /\ file' = NoFile \/ file' \in backups' \/ file' = body \/ refused'
        /\ body.rev > 0 => body = file'
        /\ ~recovered' => /\ file' = file
                          /\ body = file \/ (file = NoFile /\ body = Defaults)
                          /\ ~bad'
    BY <1>6, Loaded
  <2>2. recovered => recovered'
    BY <1>6 DEF Loads
  <2>3. SettingsShape'
    BY <1>1, <1>6, <2>1 DEF SettingsShape
  <2>4. KnownFile'
    BY <1>1, <1>6, <2>1 DEF KnownFile
  <2>5. Booted' /\ Landing'
    BY <1>1, <1>2, <1>3, <1>6, <2>1 DEF Booted, Landing
  <2>6. ~recovered' => file'.chords = body.chords /\ live = file'.chords
    <3>1. Defaults.chords = 0 /\ NoFile.chords = 0
      BY DEF Defaults, NoFile, Settings
    <3> QED
      BY <1>2, <2>1, <2>2, <3>1
  <2>7. Bindings'
    BY <1>1, <1>2, <1>6, <2>6 DEF Bindings
  <2> QED
    BY <1>4, <2>3, <2>4, <2>5, <2>7
<1> QED
  BY <1>5, <1>6 DEF LoadConfig

LEMMA ConfigLaunched ==
  ASSUME ConfigInv, ops' \in Nat, Launch
  PROVE  ConfigInv'
<1> USE DEF ConfigInv
<1>1. /\ life' = "up" /\ asked' = <<[cmd |-> "load_config"]>> /\ ready = "no"
      /\ UNCHANGED <<settings, ready, timer, chordsDue, held, frozen, rebind, missed, sweeping,
                     kin>>
      /\ live' = (IF bad' \/ file' = NoFile THEN 0 ELSE file'.chords)
  BY DEF Launch, ConfigBoots, storeVars, CallsInOrder
<1>2. PICK body : Loads(body) /\ sweep' = (IF RetentionHeld' THEN NoFile ELSE body)
  BY DEF Launch, ConfigBoots
<1>3. /\ body \in Shape /\ file' \in Shape
      /\ file' = NoFile \/ file'.rev > 0
      /\ bad' => file' # NoFile
      /\ file' = NoFile => backups' # {}
      /\ body.rev = 0 \/ body.rev > 0
      /\ body.rev = 0 => body = Defaults /\ (recovered' \/ file' = NoFile)
      /\ ~recovered' => ~bad'
  BY <1>2, Loaded
<1>4. NoFile \in Shape /\ NoFile.rev = -1 /\ NoFile.chords = 0
  BY DEF NoFile, Settings, Shape
<1>5. sweep' \in Shape /\ sweep'.rev # 0
  <2>1. RetentionHeld' = (recovered' \/ (file' = NoFile /\ backups' # {}))
    BY DEF RetentionHeld
  <2>2. CASE RetentionHeld'
    BY <1>2, <1>4, <2>2
  <2>3. CASE ~RetentionHeld'
    <3>1. body.rev # 0 /\ sweep' = body
      BY <1>2, <1>3, <2>1, <2>3
    <3> QED
      BY <1>3, <3>1
  <2> QED
    BY <2>2, <2>3
<1>6. SettingsShape'
  BY <1>1, <1>3, <1>5 DEF SettingsShape
<1>7. KnownFile'
  BY <1>1, <1>3, <1>5 DEF KnownFile
<1>8. Booted' /\ Landing' /\ Bindings'
  BY <1>1 DEF Booted, Landing, Bindings
<1>9. CallsInOrder'
  <2> DEFINE c == [cmd |-> "load_config"]
             s == <<c>>
  <2>1. IsCalls(s) /\ Len(s) = 1 /\ s[1] = c
    BY CallsOne
  <2>2. c.cmd = "load_config"
    OBVIOUS
  <2> HIDE DEF s
  <2>3. asked' = s
    BY <1>1 DEF s
  <2>4. SavesAt' = {}
    <3>1. \A i \in 1..Len(s) : s[i].cmd # "save_config"
      BY <2>1, <2>2
    <3> QED
      BY <2>3, <3>1 DEF SavesAt
  <2>5. ~recovered' => live' = file'.chords /\ ~bad'
    BY <1>1, <1>3, <1>4
  <2>6. \A i \in 1..Len(s) : i = 1
    BY <2>1
  <2> QED
    BY <1>1, <2>1, <2>3, <2>4, <2>5, <2>6 DEF CallsInOrder
<1> QED
  BY <1>6, <1>7, <1>8, <1>9

LEMMA ConfigDied ==
  ASSUME ConfigInv, ops' \in Nat, Dies
  PROVE  ConfigInv'
<1> USE DEF ConfigInv
<1>1. /\ life' = "down" /\ asked' = <<>> /\ settings' = Defaults /\ ready' = "no"
      /\ timer' = FALSE /\ chordsDue' = FALSE /\ held' = FALSE /\ frozen' = FALSE
      /\ sweep' = NoFile /\ sweeping' = NoFile /\ UNCHANGED <<file, bad, backups>>
  BY DEF Dies, ConfigDies
<1>2. Defaults \in Shape /\ NoFile \in Shape /\ NoFile.rev = -1
  BY DEF Defaults, NoFile, Settings, Shape
<1>3. SavesAt' = {} /\ IsCalls(asked') /\ Len(asked') = 0
  BY <1>1, CallsNone DEF SavesAt
<1>4. SettingsShape' /\ KnownFile'
  <2>1. SettingsShape'
    BY <1>1, <1>2 DEF SettingsShape
  <2>2. KnownFile'
    BY <1>1, <1>2 DEF KnownFile
  <2> QED
    BY <2>1, <2>2
<1>5. CallsInOrder'
  BY <1>1, <1>3 DEF CallsInOrder
<1>6. Booted' /\ Landing' /\ Bindings'
  BY <1>1 DEF Booted, Landing, Bindings
<1> QED
  BY <1>4, <1>5, <1>6

(* What the main thread, the worker and the disk do besides.                 *)
LEMMA ConfigRest ==
  ASSUME ConfigInv, ops' \in Nat,
         Break \/ TakeSweep \/ RunSweep \/ (Rebinds /\ life' = life)
  PROVE  ConfigInv'
<1> USE DEF ConfigInv
<1>1. /\ UNCHANGED <<asked, life, settings, ready, timer, chordsDue, held, frozen, file, backups,
                     recovered, refused, kin>>
      /\ bad' => bad \/ file # NoFile
      /\ ~bad' => ~bad
      /\ sweep' \in {sweep, NoFile} /\ sweeping' \in {sweeping, sweep, NoFile}
      /\ \/ bad' = bad /\ UNCHANGED bindVars
         \/ life = "down" /\ UNCHANGED bindVars
         \/ live' = file.chords /\ bad' = bad
         \/ live' = live /\ missed' /\ bad' = bad
  BY DEF Break, TakeSweep, RunSweep, Rebinds, callVars, storeVars, lifeVars, historyWindow,
     fileVars, bindVars
<1>2. NoFile \in Shape /\ NoFile.rev = -1
  BY DEF NoFile, Settings, Shape
<1>3. SettingsShape' /\ KnownFile' /\ Booted' /\ Landing'
  <2>1. SettingsShape'
    BY <1>1, <1>2 DEF SettingsShape
  <2>2. KnownFile'
    BY <1>1, <1>2 DEF KnownFile
  <2>3. Booted' /\ Landing'
    BY <1>1 DEF Booted, Landing, SavesAt
  <2> QED
    BY <2>1, <2>2, <2>3
<1>4. SavesAt' = SavesAt
  BY <1>1 DEF SavesAt
<1>5. CallsInOrder'
  <2>1. CASE life = "down"
    <3>1. Len(asked') = 0 /\ SavesAt' = {}
      BY <1>1, <1>4, <2>1, CallsNone DEF CallsInOrder, SavesAt
    <3> QED
      BY <1>1, <2>1, <3>1 DEF CallsInOrder
  <2>2. CASE life # "down"
    <3>1. bad' = bad /\ (live' = live \/ live' = file.chords)
      BY <1>1, <2>2 DEF bindVars
    <3> QED
      BY <1>1, <1>4, <2>2, <3>1 DEF CallsInOrder
  <2> QED
    BY <2>1, <2>2
<1>6. Bindings'
  <2>1. CASE UNCHANGED bindVars
    BY <1>1, <1>4, <2>1 DEF Bindings, bindVars
  <2>2. CASE live' = file.chords \/ missed'
    BY <1>1, <1>4, <2>2 DEF Bindings
  <2> QED
    BY <1>1, <2>1, <2>2
<1> QED
  BY <1>3, <1>5, <1>6

-----------------------------------------------------------------------------
(* The answer of a save.                                                    *)

LEMMA SaveFirst ==
  ASSUME ConfigInv, Arrives("save_config"), asked' = Tail(asked)
  PROVE  /\ 1 \in SavesAt /\ Head(asked) = asked[1] /\ life # "down"
         /\ ready # "no" /\ settings.rev > 0 /\ asked[1].chords \in BOOLEAN
         /\ asked[1].body \in Shape /\ asked[1].body.rev > 0
         /\ \A i \in 1..Len(asked') : asked'[i].cmd # "load_config"
         /\ SavesAt' = {} => SavesAt = {1} /\ Writing = 1
         /\ Writing = 1 => SavesAt = {1} /\ SavesAt' = {}
<1>1. IsCalls(asked) /\ asked # <<>> /\ life # "down"
  BY DEF ConfigInv, CallsInOrder, Arrives
<1>2. 1 \in 1..Len(asked) /\ Head(asked) = asked[1] /\ asked[1].cmd = "save_config"
  BY <1>1, CallsShapes DEF Arrives
<1>3. 1 \in SavesAt
  BY <1>2 DEF SavesAt
<1>4. /\ ready # "no" /\ settings.rev > 0 /\ asked[1].chords \in BOOLEAN
      /\ asked[1].body \in Shape /\ asked[1].body.rev > 0
  BY <1>3 DEF ConfigInv, CallsInOrder
<1>5. ASSUME NEW i \in 1..Len(asked'), asked'[i].cmd = "load_config" PROVE FALSE
  <2>1. i + 1 \in 2..Len(asked) /\ asked[i + 1].cmd = "load_config"
    BY <1>1, <1>5, SavesTail
  <2>2. i + 1 \in 1..Len(asked)
    BY <2>1
  <2> QED
    BY <1>4, <2>1, <2>2 DEF ConfigInv, CallsInOrder
<1>6. SavesAt' = {} => SavesAt = {1}
  BY <1>1, <1>3, SavesTail
<1>7. Writing = 1 => SavesAt = {1}
  BY <1>1, <1>3, WritingCount
<1>8. SavesAt = {1} => Writing = 1 /\ SavesAt' = {}
  <2>1. SavesAt = {1} => Writing = 1
    BY <1>1, WritingCount
  <2>2. \A i \in SavesAt' : i + 1 \in SavesAt /\ i + 1 > 1
    BY <1>1, SavesTail
  <2>3. SavesAt = {1} => SavesAt' = {}
    BY <2>2
  <2> QED
    BY <2>1, <2>3
<1> QED
  BY <1>1, <1>2, <1>3, <1>4, <1>5, <1>6, <1>7, <1>8

(* What is left of the saves, seen from before the first of them arrived.     *)
LEMMA SavesLeft ==
  ASSUME IsCalls(asked), asked # <<>>, asked' = Tail(asked), 1 \in SavesAt
  PROVE  /\ \A i \in SavesAt' : (\A j \in SavesAt' : j <= i) =>
              \A j \in SavesAt : j <= i + 1
         /\ \A i \in SavesAt' : (\A j \in SavesAt' : j > i => ~asked'[j].chords) =>
              \A j \in SavesAt : j > i + 1 => ~asked[j].chords
         /\ (\A j \in SavesAt' : ~asked'[j].chords) =>
              \A j \in SavesAt : j > 1 => ~asked[j].chords
         /\ (\E j \in SavesAt : asked[j].chords) =>
              asked[1].chords \/ \E j \in SavesAt' : asked'[j].chords
<1>1. /\ SavesAt \subseteq Int /\ SavesAt' \subseteq Int
      /\ \A i \in SavesAt' : i + 1 \in SavesAt /\ i + 1 > 1 /\ asked'[i] = asked[i + 1]
      /\ \A i \in SavesAt : i # 1 =>
           i > 1 /\ i - 1 \in SavesAt' /\ asked'[i - 1] = asked[i]
  BY SavesTail
<1>2. ASSUME NEW i \in SavesAt', \A j \in SavesAt' : j <= i, NEW j \in SavesAt
      PROVE  j <= i + 1
  <2>1. CASE j = 1
    BY <1>1, <2>1
  <2>2. CASE j # 1
    <3>1. j - 1 <= i
      BY <1>1, <1>2, <2>2
    <3> QED
      BY <1>1, <3>1
  <2> QED
    BY <2>1, <2>2
<1>3. ASSUME NEW i \in SavesAt', \A j \in SavesAt' : j > i => ~asked'[j].chords,
             NEW j \in SavesAt, j > i + 1
      PROVE  ~asked[j].chords
  <2>1. j # 1 /\ j - 1 > i
    BY <1>1, <1>3
  <2>2. j - 1 \in SavesAt' /\ asked'[j - 1] = asked[j]
    BY <1>1, <2>1
  <2> QED
    BY <1>3, <2>1, <2>2
<1>4. ASSUME \A j \in SavesAt' : ~asked'[j].chords, NEW j \in SavesAt, j > 1
      PROVE  ~asked[j].chords
  <2>1. j # 1
    BY <1>1, <1>4
  <2>2. j - 1 \in SavesAt' /\ asked'[j - 1] = asked[j]
    BY <1>1, <2>1
  <2> QED
    BY <1>4, <2>2
<1>5. ASSUME NEW j \in SavesAt, asked[j].chords, ~asked[1].chords
      PROVE  \E k \in SavesAt' : asked'[k].chords
  <2>1. j - 1 \in SavesAt' /\ asked'[j - 1] = asked[j]
    BY <1>1, <1>5
  <2> QED
    BY <1>5, <2>1
<1> QED
  BY <1>2, <1>3, <1>4, <1>5

LEMMA ConfigLanded ==
  ASSUME ConfigInv, ops' \in Nat, life' = life, SaveLands
  PROVE  ConfigInv'
<1> USE DEF ConfigInv
<1>1. /\ Arrives("save_config") /\ ~refused /\ asked' = Tail(asked)
      /\ file' = asked[1].body /\ bad' = FALSE
      /\ sweep' = (IF RetentionHeld THEN sweep ELSE asked[1].body)
      /\ kin' = kin \cup {asked[1].body}
      /\ held' = (held /\ ~Newest)
      /\ rebind' = (rebind \/ asked[1].chords \/ (Newest /\ chordsDue))
      /\ UNCHANGED <<settings, ready, timer, chordsDue, frozen, backups, recovered, refused,
                     sweeping, live, missed>>
  <2>1. Arrives("save_config") /\ asked' = Tail(asked)
    BY DEF SaveLands
  <2>2. Head(asked) = asked[1]
    BY <2>1, SaveFirst
  <2> QED
    BY <2>2 DEF SaveLands
<1>2. /\ 1 \in SavesAt /\ life # "down" /\ ready # "no" /\ settings.rev > 0
      /\ asked[1].chords \in BOOLEAN /\ asked[1].body \in Shape /\ asked[1].body.rev > 0
      /\ \A i \in 1..Len(asked') : asked'[i].cmd # "load_config"
      /\ SavesAt' = {} => SavesAt = {1} /\ Writing = 1
      /\ Writing = 1 => SavesAt = {1} /\ SavesAt' = {}
  BY <1>1, SaveFirst
<1>3. IsCalls(asked) /\ asked # <<>>
  BY <1>1 DEF CallsInOrder, Arrives
<1>4. /\ IsCalls(asked') /\ SavesAt \subseteq Int /\ SavesAt' \subseteq Int
      /\ \A i \in SavesAt' : i + 1 \in SavesAt /\ i + 1 > 1 /\ asked'[i] = asked[i + 1]
  BY <1>1, <1>3, SavesTail
<1>5. /\ \A i \in SavesAt' : (\A j \in SavesAt' : j <= i) =>
           \A j \in SavesAt : j <= i + 1
      /\ \A i \in SavesAt' : (\A j \in SavesAt' : j > i => ~asked'[j].chords) =>
           \A j \in SavesAt : j > i + 1 => ~asked[j].chords
      /\ (\A j \in SavesAt' : ~asked'[j].chords) =>
           \A j \in SavesAt : j > 1 => ~asked[j].chords
      /\ (\E j \in SavesAt : asked[j].chords) =>
           asked[1].chords \/ \E j \in SavesAt' : asked'[j].chords
  BY <1>1, <1>2, <1>3, SavesLeft
<1>6. SettingsShape'
  BY <1>1, <1>2 DEF SettingsShape
<1>7. KnownFile'
  <2>1. file' \in kin' /\ file'.rev > 0 /\ sweep'.rev # 0
    BY <1>1, <1>2 DEF KnownFile, SettingsShape, Shape
  <2>2. file' # NoFile
    BY <2>1 DEF NoFile, Settings
  <2> QED
    BY <1>1, <2>1, <2>2 DEF KnownFile
<1>8. CallsInOrder'
  <2>1. ASSUME NEW i \in SavesAt'
        PROVE  /\ asked'[i].chords \in BOOLEAN
               /\ asked'[i].body \in Shape /\ asked'[i].body.rev > 0
    BY <1>4 DEF CallsInOrder
  <2> QED
    BY <1>1, <1>2, <1>4, <2>1 DEF CallsInOrder
<1>9. frozen => held'
  BY <1>1 DEF Booted, Newest
<1>10. Booted'
  BY <1>1, <1>2, <1>9 DEF Booted
<1>11. Landing'
  <2> SUFFICES ASSUME ready = "yes" PROVE Landing'
    BY <1>1 DEF Landing
  <2>1. ASSUME ~timer, ~frozen, NEW i \in SavesAt', \A j \in SavesAt' : j <= i
        PROVE  asked'[i].body = settings
    <3>1. i + 1 \in SavesAt /\ asked'[i] = asked[i + 1] /\ \A j \in SavesAt : j <= i + 1
      BY <1>4, <1>5, <2>1
    <3> QED
      BY <2>1, <3>1 DEF Landing
  <2>2. ASSUME ~timer, ~held', SavesAt' = {} PROVE file' = settings
    <3>1. ~frozen /\ SavesAt = {1}
      BY <1>2, <1>9, <2>2
    <3>2. \A j \in SavesAt : j <= 1
      BY <3>1
    <3>3. asked[1].body = settings
      BY <1>2, <2>2, <3>1, <3>2 DEF Landing
    <3> QED
      BY <1>1, <3>3
  <2> QED
    BY <1>1, <2>1, <2>2 DEF Landing
<1>12. Bindings'
  <2> SUFFICES ASSUME ready = "yes", ~recovered PROVE Bindings'
    BY <1>1 DEF Bindings
  <2>1. ASSUME ~chordsDue, NEW i \in SavesAt', \A j \in SavesAt' : j > i => ~asked'[j].chords
        PROVE  asked'[i].body.chords = settings.chords
    <3> DEFINE k == i + 1
    <3>1. k \in SavesAt /\ asked'[i] = asked[k] /\ \A j \in SavesAt : j > k => ~asked[j].chords
      BY <1>4, <1>5, <2>1
    <3> HIDE DEF k
    <3> QED
      BY <2>1, <3>1 DEF Bindings
  <2>2. ASSUME ~chordsDue, \A j \in SavesAt' : ~asked'[j].chords
        PROVE  asked[1].body.chords = settings.chords
    BY <1>2, <1>5, <2>2 DEF Bindings
  <2>3. ASSUME chordsDue, SavesAt' = {} PROVE rebind' \/ held'
    BY <1>1, <1>2, <1>9, <2>3 DEF Newest
  <2>4. \/ live = asked[1].body.chords \/ rebind' \/ missed
        \/ \E j \in SavesAt' : asked'[j].chords
        \/ chordsDue /\ (timer \/ held' \/ SavesAt' # {})
    <3>1. CASE chordsDue
      BY <2>3, <3>1
    <3>2. CASE ~chordsDue /\ ~asked[1].chords /\ \A j \in SavesAt' : ~asked'[j].chords
      <4>1. \A j \in SavesAt : ~asked[j].chords
        BY <1>5, <3>2
      <4>2. file.chords = settings.chords /\ asked[1].body.chords = settings.chords
        BY <2>2, <3>2, <4>1 DEF Bindings
      <4>3. live = file.chords \/ rebind \/ missed
        BY <3>2, <4>1 DEF Bindings
      <4> QED
        BY <1>1, <4>2, <4>3
    <3>3. CASE asked[1].chords
      BY <1>1, <3>3
    <3> QED
      BY <3>1, <3>2, <3>3
  <2> QED
    BY <1>1, <2>1, <2>2, <2>4 DEF Bindings
<1> QED
  BY <1>6, <1>7, <1>8, <1>10, <1>11, <1>12

LEMMA ConfigFailed ==
  ASSUME ConfigInv, ops' \in Nat, life' = life, SaveFails
  PROVE  ConfigInv'
<1> USE DEF ConfigInv
<1>1. /\ Arrives("save_config") /\ asked' = Tail(asked)
      /\ held' = (held \/ Newest) /\ chordsDue' = (chordsDue \/ asked[1].chords)
      /\ UNCHANGED <<settings, ready, timer, frozen, fileVars, bindVars, kin>>
  <2>1. Arrives("save_config") /\ asked' = Tail(asked)
    BY DEF SaveFails
  <2>2. Head(asked) = asked[1]
    BY <2>1, SaveFirst
  <2> QED
    BY <2>2 DEF SaveFails
<1>2. /\ 1 \in SavesAt /\ life # "down" /\ ready # "no" /\ settings.rev > 0
      /\ asked[1].chords \in BOOLEAN
      /\ \A i \in 1..Len(asked') : asked'[i].cmd # "load_config"
      /\ SavesAt' = {} => SavesAt = {1} /\ Writing = 1
  BY <1>1, SaveFirst
<1>3. IsCalls(asked) /\ asked # <<>>
  BY <1>1 DEF CallsInOrder, Arrives
<1>4. /\ IsCalls(asked') /\ SavesAt \subseteq Int /\ SavesAt' \subseteq Int
      /\ \A i \in SavesAt' : i + 1 \in SavesAt /\ i + 1 > 1 /\ asked'[i] = asked[i + 1]
  BY <1>1, <1>3, SavesTail
<1>5. /\ \A i \in SavesAt' : (\A j \in SavesAt' : j <= i) =>
           \A j \in SavesAt : j <= i + 1
      /\ \A i \in SavesAt' : (\A j \in SavesAt' : j > i => ~asked'[j].chords) =>
           \A j \in SavesAt : j > i + 1 => ~asked[j].chords
      /\ (\A j \in SavesAt' : ~asked'[j].chords) =>
           \A j \in SavesAt : j > 1 => ~asked[j].chords
      /\ (\E j \in SavesAt : asked[j].chords) =>
           asked[1].chords \/ \E j \in SavesAt' : asked'[j].chords
  BY <1>1, <1>2, <1>3, SavesLeft
<1>6. SettingsShape'
  BY <1>1, <1>2 DEF SettingsShape, fileVars
<1>7. KnownFile'
  BY <1>1 DEF KnownFile, fileVars
<1>8. CallsInOrder'
  <2>1. ASSUME NEW i \in SavesAt'
        PROVE  /\ asked'[i].chords \in BOOLEAN
               /\ asked'[i].body \in Shape /\ asked'[i].body.rev > 0
    BY <1>4 DEF CallsInOrder
  <2> QED
    BY <1>1, <1>2, <1>4, <2>1 DEF CallsInOrder
<1>9. SavesAt' = {} => held'
  BY <1>1, <1>2 DEF Booted, Newest
<1>10. Booted'
  BY <1>1, <1>2 DEF Booted
<1>11. Landing'
  <2> SUFFICES ASSUME ready = "yes" PROVE Landing'
    BY <1>1 DEF Landing
  <2>1. ASSUME ~timer, ~frozen, NEW i \in SavesAt', \A j \in SavesAt' : j <= i
        PROVE  asked'[i].body = settings
    <3>1. i + 1 \in SavesAt /\ asked'[i] = asked[i + 1] /\ \A j \in SavesAt : j <= i + 1
      BY <1>4, <1>5, <2>1
    <3> QED
      BY <2>1, <3>1 DEF Landing
  <2> QED
    BY <1>1, <1>9, <2>1 DEF Landing
<1>12. Bindings'
  <2> SUFFICES ASSUME ready = "yes", ~recovered PROVE Bindings'
    BY <1>1 DEF Bindings, fileVars
  <2>1. ASSUME ~chordsDue, NEW i \in SavesAt', \A j \in SavesAt' : j > i => ~asked'[j].chords
        PROVE  asked'[i].body.chords = settings.chords
    <3> DEFINE k == i + 1
    <3>1. k \in SavesAt /\ asked'[i] = asked[k] /\ \A j \in SavesAt : j > k => ~asked[j].chords
      BY <1>4, <1>5, <2>1
    <3> HIDE DEF k
    <3> QED
      BY <2>1, <3>1 DEF Bindings
  <2>2. ASSUME ~chordsDue', \A j \in SavesAt' : ~asked'[j].chords
        PROVE  file.chords = settings.chords
    <3>1. ~chordsDue /\ ~asked[1].chords
      BY <1>1, <2>2
    <3>2. \A j \in SavesAt : ~asked[j].chords
      BY <1>5, <2>2, <3>1
    <3> QED
      BY <3>1, <3>2 DEF Bindings
  <2>3. \/ live = file.chords \/ rebind \/ missed
        \/ \E j \in SavesAt' : asked'[j].chords
        \/ chordsDue' /\ (timer \/ held' \/ SavesAt' # {})
    <3>1. chordsDue' => held' \/ SavesAt' # {}
      BY <1>9
    <3>2. CASE ~chordsDue /\ ~asked[1].chords
      BY <1>5, <3>2 DEF Bindings
    <3>3. CASE chordsDue \/ asked[1].chords
      BY <1>1, <3>1, <3>3
    <3> QED
      BY <3>2, <3>3
  <2>4. ~chordsDue' => ~chordsDue
    BY <1>1
  <2> QED
    BY <1>1, <2>1, <2>2, <2>3, <2>4 DEF Bindings, fileVars, bindVars
<1> QED
  BY <1>6, <1>7, <1>8, <1>10, <1>11, <1>12

-----------------------------------------------------------------------------
(* The window's tasks keep the application up.                              *)
LEMMA ConfigStep ==
  ASSUME ConfigInv, [Next]_vars
  PROVE  ConfigInv'
<1>1. IsCalls(asked) /\ ops' \in Nat /\ OtherCalls(<<>>)
  BY OpsCounted, OtherCommands DEF ConfigInv, CallsInOrder, SettingsShape
<1>2. ASSUME UNCHANGED configVars, life' = life, life = "up", Moved(0) \/ Moved(1)
      PROVE  ConfigInv'
  <2>1. UNCHANGED <<settings, ready, timer, chordsDue, held, frozen, fileVars, bindVars, kin>>
    BY <1>2 DEF configVars, storeVars
  <2> QED
    BY <1>1, <1>2, <2>1, ConfigMoved
<1>3. ASSUME UNCHANGED configVars, life' = life, asked' = asked PROVE ConfigInv'
  <2>1. UNCHANGED <<settings, ready, timer, chordsDue, held, frozen, fileVars, bindVars, kin>>
    BY <1>3 DEF configVars, storeVars
  <2> QED
    BY <1>1, <1>3, <2>1, MovedSame, ConfigMoved
<1>4. CASE Break \/ TakeSweep \/ RunSweep
  BY <1>1, <1>4, ConfigRest
<1>5. CASE Launch
  BY <1>1, <1>5, ConfigLaunched
<1>6. CASE Crash \/ Exit
  BY <1>1, <1>6, ConfigDied DEF Crash, Exit
<1>7. CASE Callbacks
  <2>1. CASE Reflush /\ OnConfig
    <3>1. life = "up" /\ life' = "up"
      BY <1>7, <2>1 DEF Callbacks, OnConfig, lifeVars
    <3> QED
      BY <1>1, <2>1, <3>1, ConfigSaves
  <2>2. CASE (FlushSettles \/ Chained) /\ OnHistory
    <3>1. life = "up" /\ life' = life /\ UNCHANGED configVars
      BY <1>7, <2>2 DEF Callbacks, OnHistory, lifeVars
    <3> QED
      BY <1>1, <1>2, <2>2, <3>1, HistoryMoves
  <2> QED
    BY <1>7, <2>1, <2>2 DEF Callbacks
<1>8. CASE Task /\ ConfigTask /\ OnConfig
  <2>1. life = "up" /\ life' = "up"
    BY <1>8 DEF Task, OnConfig, lifeVars
  <2>2. CASE LoadConfig
    BY <1>1, <2>1, <2>2, ConfigLoads
  <2>3. CASE EditPlain \/ \E clash \in {"none", "sides", "real"} : EditChords(clash)
    BY <1>1, <2>1, <2>3, ConfigEdited
  <2>4. CASE SaveTimer \/ RetryHeld \/ LearnPermitted
    BY <1>1, <2>1, <2>4, ConfigSaves
  <2>5. CASE SaveLands
    BY <1>1, <2>1, <2>5, ConfigLanded
  <2>6. CASE SaveFails
    BY <1>1, <2>1, <2>6, ConfigFailed
  <2>7. CASE Rebinds
    BY <1>1, <2>1, <2>7, ConfigRest
  <2> QED
    BY <1>8, <2>2, <2>3, <2>4, <2>5, <2>6, <2>7 DEF ConfigTask
<1>9. CASE Task /\ HistoryTask /\ OnHistory
  <2>1. life = "up" /\ life' = life /\ UNCHANGED configVars
    BY <1>9 DEF Task, OnHistory, lifeVars
  <2> QED
    BY <1>1, <1>2, <1>9, <2>1, HistoryMoves
<1>10. CASE Task /\ QueueTask /\ OnQueue
  <2>1. life' = life /\ UNCHANGED configVars
    BY <1>10 DEF OnQueue, lifeVars
  <2>2. asked' = asked
    BY <1>10 DEF QueueTask, Enqueue, QueueTimer, WriteSettles, ReadLands, ReadFails, Post,
       PostSent, PostRetried, PostRefused, ApplyPost, callVars
  <2> QED
    BY <1>3, <2>1, <2>2
<1>11. CASE Task /\ KeepDictations
  <2>1. life = "up" /\ life' = "up" /\ EditKeep
    BY <1>11 DEF Task, KeepDictations, lifeVars
  <2> QED
    BY <1>1, <2>1, ConfigEdited
<1>12. CASE Task /\ RecordNew
  <2>1. life = "up" /\ life' = life /\ UNCHANGED configVars
    BY <1>12 DEF Task, RecordNew, OnHistory, lifeVars
  <2> QED
    BY <1>1, <1>2, <1>12, <2>1, HistoryMoves
<1>13. CASE RequestQuit \/ QuitReady
  <2>1. life' = life /\ UNCHANGED configVars /\ asked' = asked
    BY <1>13 DEF RequestQuit, QuitReady, callVars
  <2> QED
    BY <1>3, <2>1
<1>14. ASSUME NEW quits, FlushAll(quits), Task PROVE ConfigInv'
  <2>1. /\ life = "up" /\ life' = "up"
        /\ UNCHANGED <<settings, ready, fileVars, bindVars, kin>>
    BY <1>14 DEF Task, FlushAll
  <2>2. OtherCalls(FlushHistoryCalls)
    <3>1. Listed(TypedParked) \subseteq Records
      BY DEF Listed
    <3> QED
      BY <3>1, SavesWritten DEF FlushHistoryCalls
  <2>3. CASE ready = "no"
    <3>1. asked' = asked \o FlushHistoryCalls \o <<>>
      BY <1>14, <2>3 DEF FlushAll
    <3>2. UNCHANGED <<timer, frozen, held, chordsDue>>
      BY <1>14, <2>3 DEF FlushAll
    <3>3. Moved(0)
      BY <1>1, <2>2, <3>1, MovedPast
    <3> QED
      BY <1>1, <2>1, <3>2, <3>3, ConfigMoved
  <2>4. CASE ready # "no"
    <3>1. /\ FlushSave(waits, {quits}, permitted)
          /\ asked' = asked \o FlushHistoryCalls \o FlushCalls(permitted)
      BY <1>14, <2>4 DEF FlushAll
    <3> QED
      BY <1>1, <2>1, <2>2, <2>4, <3>1, ConfigFlushed
  <2> QED
    BY <2>3, <2>4
<1>15. CASE BeforeQuit \/ SessionEnding
  BY <1>14, <1>15 DEF BeforeQuit, SessionEnding
<1>16. CASE UNCHANGED vars
  <2>1. life' = life /\ UNCHANGED configVars /\ asked' = asked
    BY <1>16 DEF vars, callVars, lifeVars
  <2> QED
    BY <1>3, <2>1
<1> QED
  BY <1>4, <1>5, <1>6, <1>7, <1>8, <1>9, <1>10, <1>11, <1>12, <1>13, <1>15, <1>16 DEF Next

LEMMA ConfigAlways == Spec => []ConfigInv
  BY ConfigStart, ConfigStep, PTL DEF Spec

(* However edits, freezes, failed saves, flushes and the launch interleave,    *)
(* once the auto-save is at rest config.json is what the window shows, and the *)
(* hotkeys are those of config.json, unless the last re-registration failed or *)
(* could not read it (persistence.ts).                                       *)
THEOREM SettingsSettle == Spec => []SettlesOnDisk
<1>1. ASSUME ConfigInv PROVE SettlesOnDisk
  <2> SUFFICES ASSUME ConfigQuiet PROVE /\ settings.rev > 0 => file = settings
                                        /\ ~rebind /\ ~missed /\ ~recovered /\ file # NoFile
                                             => live = file.chords
    BY DEF SettlesOnDisk
  <2>1. ready = "yes" /\ ~timer /\ ~held /\ SavesAt = {}
    BY <1>1, WritingCount DEF ConfigQuiet, ConfigInv, CallsInOrder
  <2>2. settings.rev > 0 => file = settings
    BY <1>1, <2>1 DEF ConfigInv, Landing
  <2>3. ~rebind /\ ~missed /\ ~recovered => live = file.chords
    BY <1>1, <2>1 DEF ConfigInv, Bindings
  <2> QED
    BY <2>2, <2>3
<1> QED
  BY <1>1, ConfigAlways, PTL

(* Only a load that backs it up and a save of what the window knew replace     *)
(* config.json, and no sweep goes by the factory's settings.                 *)
LEMMA ResetStep ==
  ASSUME ConfigInv, [Next]_vars
  PROVE  /\ file' # file =>
              file = NoFile \/ file \in backups' \/ file \in kin \/ ready = "failed"
         /\ sweeping = Defaults /\ sweeping' # sweeping => disk' = disk
<1>1. sweeping # Defaults
  BY DEF ConfigInv, KnownFile, Defaults, Settings
<1> DEFINE Kept == file' # file =>
                     file = NoFile \/ file \in backups' \/ file \in kin \/ ready = "failed"
<1>2. ASSUME UNCHANGED configVars \/ UNCHANGED fileVars \/ file' = file PROVE Kept
  BY <1>2 DEF configVars, fileVars
<1>3. ASSUME NEW body, Loads(body) PROVE Kept
  BY <1>3, Loaded DEF ConfigInv
<1>4. ASSUME ConfigTask PROVE Kept
  <2>1. ASSUME LoadConfig PROVE Kept
    BY <1>2, <1>3, <2>1 DEF LoadConfig
  <2>2. ASSUME SaveTimer \/ RetryHeld \/ LearnPermitted \/ SaveFails \/ Rebinds PROVE Kept
    BY <1>2, <2>2 DEF SaveTimer, RetryHeld, LearnPermitted, SaveFails, Rebinds
  <2>3. ASSUME SaveLands PROVE Kept
    <3>1. Arrives("save_config") /\ asked' = Tail(asked) /\ ~refused /\ backups' = backups
      BY <2>3 DEF SaveLands
    <3>2. ready \in {"yes", "failed"}
      BY <3>1, SaveFirst DEF ConfigInv, SettingsShape
    <3> QED
      BY <3>1, <3>2 DEF ConfigInv, KnownFile
  <2>4. ASSUME NEW s, Changes(s) PROVE Kept
    BY <1>2, <2>4 DEF Changes
  <2> QED
    BY <1>4, <2>1, <2>2, <2>3, <2>4 DEF ConfigTask, EditPlain, EditChords
<1>5. ASSUME HistoryTask /\ OnHistory PROVE Kept
  BY <1>2, <1>5 DEF OnHistory
<1>6. ASSUME QueueTask /\ OnQueue PROVE Kept
  BY <1>2, <1>6 DEF OnQueue
<1>7. ASSUME KeepDictations \/ RecordNew PROVE Kept
  BY <1>2, <1>7 DEF KeepDictations, EditKeep, Changes, RecordNew, OnHistory
<1>8. ASSUME Callbacks PROVE Kept
  BY <1>2, <1>8 DEF Callbacks, Reflush, OnHistory
<1>9. ASSUME BeforeQuit \/ SessionEnding PROVE Kept
  BY <1>2, <1>9 DEF BeforeQuit, SessionEnding, FlushAll
<1>10. ASSUME Launch PROVE Kept
  BY <1>3, <1>10 DEF Launch, ConfigBoots
<1>11. ASSUME Break \/ Crash \/ Exit PROVE Kept
  BY <1>2, <1>11 DEF Break, Crash, Exit, Dies, ConfigDies
<1>12. ASSUME TakeSweep \/ RunSweep \/ RequestQuit \/ QuitReady PROVE Kept
  BY <1>2, <1>12 DEF TakeSweep, RunSweep, RequestQuit, QuitReady
<1>13. ASSUME UNCHANGED vars PROVE Kept
  BY <1>2, <1>13 DEF vars
<1>14. Kept
  BY <1>4, <1>5, <1>6, <1>7, <1>8, <1>9, <1>10, <1>11, <1>12, <1>13 DEF Next
<1> QED
  BY <1>1, <1>14

(* A reset of settings that could not be read costs nothing: config.json is    *)
(* backed up or known before it is replaced, and retention waits for settings  *)
(* of the user's (backup_unreadable, retention_held).                        *)
THEOREM ResetLosesNothing == Spec => ResetIsHarmless
<1>1. ConfigInv /\ [Next]_vars =>
        [/\ file' # file =>
              file = NoFile \/ file \in backups' \/ file \in kin \/ ready = "failed"
         /\ sweeping = Defaults /\ sweeping' # sweeping => disk' = disk]_vars
  BY ResetStep
<1> QED
  BY <1>1, ConfigAlways, PTL DEF Spec, ResetIsHarmless

-----------------------------------------------------------------------------
(* Deletes: the inductive invariant.                                        *)

CallsOf(cmd) == {i \in 1..Len(asked) : asked[i].cmd = cmd}
Saved    == {asked[i].rec : i \in CallsOf("save_record")}
Deleting == {asked[i].rec : i \in CallsOf("delete")}

(* Records that a save follows a delete of.                                  *)
Late == {r \in Deleting : \E i \in CallsOf("delete"), j \in CallsOf("save_record") :
                            j > i /\ asked[i].rec = r /\ asked[j].rec = r}

(* Deleted, before or after the delete runs, with no listing to tell.          *)
Gone == buried \cup (Dying \ ghosts)

IsMap(m) == m = [r \in Records |-> m[r]]
Blank(r) == mirror[r] = {} /\ parked[r] = {} /\ (r \in DOMAIN touched => touched[r] = {})

RecordsShape ==
  /\ IsMap(mirror) /\ IsMap(parked) /\ IsMap(disk) /\ IsMap(snap)
  /\ buried \subseteq Records /\ pool \subseteq Records /\ Deleting \subseteq Records

(* One listing at a time, and only it replays what was touched.               *)
OneListing ==
  /\ listing = "no" => DOMAIN touched = {}
  /\ \A i \in CallsOf("list") : listing = "asked" /\ \A j \in CallsOf("list") : j = i

(* There is nothing of a record whose id was never used: an id comes once.     *)
BornFirst ==
  /\ Saved \subseteq born
  /\ \A r \in Records : r \in born \/ (Blank(r) /\ disk[r] = {} /\ snap[r] = {})

(* The window has nothing of a deleted record, and the listing underway is     *)
(* told of the delete, unless it ran before the listing did.                 *)
Doomed ==
  \A r \in Gone : /\ r \in born /\ Blank(r)
                  /\ r \in buried \/ listing = "no" \/ r \in DOMAIN touched

(* Nor has the disk, nor the listing, once the delete ran; and the delete is   *)
(* behind every save there was.                                             *)
Buried ==
  \A r \in buried : /\ r \notin Saved /\ disk[r] = {}
                    /\ listing = "read" => r \in DOMAIN touched \/ snap[r] = {}
Behind ==
  /\ \A r \in pool \ ghosts : r \notin Saved
  /\ Late \subseteq ghosts

DeletesInv == RecordsShape /\ OneListing /\ BornFirst /\ Doomed /\ Buried /\ Behind

-----------------------------------------------------------------------------
(* What a step adds to the calls, or takes from them.                        *)

SavesIn(t)   == {t[i].rec : i \in {k \in 1..Len(t) : t[k].cmd = "save_record"}}
DeletesIn(t) == {t[i].rec : i \in {k \in 1..Len(t) : t[k].cmd = "delete"}}
ListsIn(t)   == {i \in 1..Len(t) : t[i].cmd = "list"}

LEMMA CallsAdded ==
  ASSUME IsCalls(asked), NEW t, IsCalls(t), asked' = asked \o t
  PROVE  /\ Saved' \subseteq Saved \cup SavesIn(t)
         /\ Deleting' \subseteq Deleting \cup DeletesIn(t)
         /\ ListsIn(t) = {} => CallsOf("list")' = CallsOf("list")
         /\ DeletesIn(t) = {} => Late' \subseteq Late \cup (Deleting \cap SavesIn(t))
         /\ SavesIn(t) = {} => Late' \subseteq Late
<1>1. /\ \A i \in 1..Len(asked) : i \in 1..Len(asked') /\ asked'[i] = asked[i]
      /\ \A i \in 1..Len(asked') :
           \/ i \in 1..Len(asked) /\ asked'[i] = asked[i]
           \/ i - Len(asked) \in 1..Len(t) /\ asked'[i] = t[i - Len(asked)]
  BY CallsConcat
<1>2. Len(asked) \in Nat /\ Len(t) \in Nat
  BY CallsShapes
<1>3. ASSUME NEW i \in 1..Len(asked')
      PROVE  \/ i \in 1..Len(asked) /\ asked'[i] = asked[i]
             \/ /\ i > Len(asked)
                /\ \E k \in 1..Len(t) : asked'[i] = t[k]
  BY <1>1, <1>2
<1>4. ASSUME NEW i \in CallsOf("save_record")'
      PROVE  \/ i \in CallsOf("save_record") /\ asked'[i] = asked[i]
             \/ i > Len(asked) /\ asked'[i].rec \in SavesIn(t)
  BY <1>3 DEF CallsOf, SavesIn
<1>5. ASSUME NEW i \in CallsOf("delete")'
      PROVE  \/ i \in CallsOf("delete") /\ asked'[i] = asked[i]
             \/ i > Len(asked) /\ asked'[i].rec \in DeletesIn(t)
  BY <1>3 DEF CallsOf, DeletesIn
<1>6. Saved' \subseteq Saved \cup SavesIn(t)
  BY <1>4 DEF Saved
<1>7. Deleting' \subseteq Deleting \cup DeletesIn(t)
  BY <1>5 DEF Deleting
<1>8. ListsIn(t) = {} => CallsOf("list")' = CallsOf("list")
  <2>1. ASSUME ListsIn(t) = {}, NEW i \in CallsOf("list")' PROVE i \in CallsOf("list")
    <3>1. i \in 1..Len(asked') /\ asked'[i].cmd = "list"
      BY DEF CallsOf
    <3>2. \A k \in 1..Len(t) : t[k].cmd # "list"
      BY <2>1 DEF ListsIn
    <3> QED
      BY <1>3, <3>1, <3>2 DEF CallsOf
  <2>2. ASSUME NEW i \in CallsOf("list") PROVE i \in CallsOf("list")'
    BY <1>1 DEF CallsOf
  <2> QED
    BY <2>1, <2>2
<1>9. ASSUME DeletesIn(t) = {}, NEW r \in Late' PROVE r \in Late \cup (Deleting \cap SavesIn(t))
  <2>1. PICK i \in CallsOf("delete")', j \in CallsOf("save_record")' :
          j > i /\ asked'[i].rec = r /\ asked'[j].rec = r
    BY <1>9 DEF Late
  <2>2. i \in CallsOf("delete") /\ asked[i].rec = r
    BY <1>5, <1>9, <2>1
  <2>3. r \in Deleting
    BY <2>2 DEF Deleting
  <2> QED
    BY <1>4, <2>1, <2>2, <2>3 DEF Late
<1>10. ASSUME SavesIn(t) = {}, NEW r \in Late' PROVE r \in Late
  <2>1. PICK i \in CallsOf("delete")', j \in CallsOf("save_record")' :
          j > i /\ asked'[i].rec = r /\ asked'[j].rec = r
    BY <1>10 DEF Late
  <2>2. j \in CallsOf("save_record") /\ asked[j].rec = r /\ j <= Len(asked)
    BY <1>2, <1>4, <1>10, <2>1 DEF CallsOf
  <2>3. j \in Int /\ i \in Int
    BY <2>1, <2>2 DEF CallsOf
  <2>4. ~(i > Len(asked))
    BY <1>2, <2>1, <2>2, <2>3
  <2>5. i \in CallsOf("delete") /\ asked[i].rec = r
    BY <1>5, <2>1, <2>4
  <2> QED
    BY <2>1, <2>2, <2>5 DEF Late, Deleting
<1> QED
  BY <1>6, <1>7, <1>8, <1>9, <1>10

LEMMA CallsTaken ==
  ASSUME IsCalls(asked), asked # <<>>, asked' = Tail(asked)
  PROVE  /\ Saved' \subseteq Saved /\ Deleting' \subseteq Deleting /\ Late' \subseteq Late
         /\ \A i \in CallsOf("list")' : i + 1 \in CallsOf("list") /\ i + 1 > 1
         /\ Head(asked).cmd = "list" => 1 \in CallsOf("list")
         /\ Head(asked).cmd = "save_record" => Head(asked).rec \in Saved
         /\ Head(asked).cmd = "delete" => /\ Head(asked).rec \in Deleting
                                          /\ Head(asked).rec \in Saved' => Head(asked).rec \in Late
<1>1. /\ Len(asked') = Len(asked) - 1
      /\ \A i \in 1..Len(asked') : i + 1 \in 1..Len(asked) /\ asked'[i] = asked[i + 1]
  BY CallsTail
<1>2. Len(asked) \in Nat /\ 1 \in 1..Len(asked) /\ Head(asked) = asked[1]
  BY CallsShapes
<1>3. ASSUME NEW cmd, NEW i \in CallsOf(cmd)'
      PROVE  i \in Int /\ i + 1 > 1 /\ i + 1 \in CallsOf(cmd) /\ asked'[i] = asked[i + 1]
  BY <1>1 DEF CallsOf
<1>4. Saved' \subseteq Saved /\ Deleting' \subseteq Deleting
  BY <1>3 DEF Saved, Deleting
<1>5. ASSUME NEW r \in Late' PROVE r \in Late
  <2>1. PICK i \in CallsOf("delete")', j \in CallsOf("save_record")' :
          j > i /\ asked'[i].rec = r /\ asked'[j].rec = r
    BY <1>5 DEF Late
  <2>2. i \in Int /\ i + 1 \in CallsOf("delete") /\ asked[i + 1].rec = r
    BY <1>3, <2>1
  <2>3. j \in Int /\ j + 1 \in CallsOf("save_record") /\ asked[j + 1].rec = r
    BY <1>3, <2>1
  <2>4. j + 1 > i + 1
    BY <2>1, <2>2, <2>3
  <2> QED
    BY <2>2, <2>3, <2>4 DEF Late, Deleting
<1>6. ASSUME Head(asked).cmd = "delete", Head(asked).rec \in Saved'
      PROVE  Head(asked).rec \in Late
  <2>1. PICK j \in CallsOf("save_record")' : asked'[j].rec = Head(asked).rec
    BY <1>6 DEF Saved
  <2>2. j + 1 \in CallsOf("save_record") /\ j + 1 > 1 /\ asked[j + 1].rec = Head(asked).rec
    BY <1>3, <2>1
  <2>3. 1 \in CallsOf("delete")
    BY <1>2, <1>6 DEF CallsOf
  <2> QED
    BY <1>2, <2>2, <2>3 DEF Late, Deleting
<1>7. /\ Head(asked).cmd = "list" => 1 \in CallsOf("list")
      /\ Head(asked).cmd = "save_record" => Head(asked).rec \in Saved
      /\ Head(asked).cmd = "delete" => Head(asked).rec \in Deleting
  BY <1>2 DEF CallsOf, Saved, Deleting
<1>8. \A i \in CallsOf("list")' : i + 1 \in CallsOf("list") /\ i + 1 > 1
  BY <1>3
<1> QED
  BY <1>4, <1>5, <1>6, <1>7, <1>8

LEMMA InWritten ==
  ASSUME NEW rs \in SUBSET Records, NEW copies
  PROVE  /\ IsCalls(Written(rs, copies)) /\ SavesIn(Written(rs, copies)) = rs
         /\ DeletesIn(Written(rs, copies)) = {} /\ ListsIn(Written(rs, copies)) = {}
<1> DEFINE t == Written(rs, copies)
<1>1. /\ IsCalls(t)
      /\ \A i \in 1..Len(t) : t[i].cmd = "save_record" /\ t[i].rec \in rs
      /\ \A r \in rs : \E i \in 1..Len(t) : t[i].rec = r
  <2>1. /\ OtherCalls(t)
        /\ \A i \in 1..Len(t) : /\ t[i].cmd = "save_record" /\ t[i].rec \in rs
                                /\ t[i].body = copies[t[i].rec]
        /\ \A r \in rs : \E i \in 1..Len(t) : t[i].rec = r
    BY WrittenCalls
  <2> HIDE DEF t
  <2> QED
    BY <2>1 DEF OtherCalls
<1> HIDE DEF t
<1>2. SavesIn(t) = rs
  BY <1>1 DEF SavesIn
<1>3. DeletesIn(t) = {} /\ ListsIn(t) = {}
  BY <1>1 DEF DeletesIn, ListsIn
<1> QED
  BY <1>1, <1>2, <1>3 DEF t

LEMMA InSaves ==
  ASSUME NEW rs \in SUBSET Records, NEW copies
  PROVE  /\ IsCalls(Saves(rs, copies)) /\ SavesIn(Saves(rs, copies)) = Writable(rs)
         /\ Writable(rs) \subseteq rs
         /\ DeletesIn(Saves(rs, copies)) = {} /\ ListsIn(Saves(rs, copies)) = {}
<1>1. Saves(rs, copies) = Written(Writable(rs), copies) /\ Writable(rs) \subseteq rs
  BY SavesWritten
<1> QED
  BY <1>1, InWritten

LEMMA InOne ==
  ASSUME NEW c
  PROVE  /\ IsCalls(<<c>>)
         /\ c.cmd # "save_record" => SavesIn(<<c>>) = {}
         /\ c.cmd # "delete" => DeletesIn(<<c>>) = {}
         /\ c.cmd = "delete" => DeletesIn(<<c>>) = {c.rec}
         /\ c.cmd # "list" => ListsIn(<<c>>) = {}
<1> DEFINE s == <<c>>
<1>1. IsCalls(s) /\ Len(s) = 1 /\ s[1] = c
  BY CallsOne
<1> HIDE DEF s
<1>2. 1..Len(s) = {1}
  BY <1>1
<1>3. c.cmd # "save_record" => SavesIn(s) = {}
  BY <1>1, <1>2 DEF SavesIn
<1>4. c.cmd # "delete" => DeletesIn(s) = {}
  BY <1>1, <1>2 DEF DeletesIn
<1>5. c.cmd = "delete" => DeletesIn(s) = {c.rec}
  BY <1>1, <1>2 DEF DeletesIn
<1>6. c.cmd # "list" => ListsIn(s) = {}
  BY <1>1, <1>2 DEF ListsIn
<1> QED
  BY <1>1, <1>3, <1>4, <1>5, <1>6 DEF s

LEMMA InNone == IsCalls(<<>>) /\ SavesIn(<<>>) = {} /\ DeletesIn(<<>>) = {} /\ ListsIn(<<>>) = {}
<1> DEFINE s == <<>>
<1>1. IsCalls(s) /\ Len(s) = 0
  BY CallsNone
<1> HIDE DEF s
<1>2. 1..Len(s) = {}
  BY <1>1
<1>3. SavesIn(s) = {} /\ DeletesIn(s) = {} /\ ListsIn(s) = {}
  BY <1>2 DEF SavesIn, DeletesIn, ListsIn
<1> QED
  BY <1>1, <1>3 DEF s

LEMMA InBoth ==
  ASSUME NEW t, NEW u, IsCalls(t), IsCalls(u)
  PROVE  /\ IsCalls(t \o u)
         /\ SavesIn(t \o u) \subseteq SavesIn(t) \cup SavesIn(u)
         /\ DeletesIn(t \o u) \subseteq DeletesIn(t) \cup DeletesIn(u)
         /\ ListsIn(t) = {} /\ ListsIn(u) = {} => ListsIn(t \o u) = {}
<1> DEFINE v == t \o u
<1>1. /\ IsCalls(v)
      /\ \A i \in 1..Len(v) :
           \/ i \in 1..Len(t) /\ v[i] = t[i]
           \/ i - Len(t) \in 1..Len(u) /\ v[i] = u[i - Len(t)]
  BY CallsConcat
<1> HIDE DEF v
<1>2. ASSUME NEW i \in 1..Len(v)
      PROVE  \/ \E k \in 1..Len(t) : v[i] = t[k]
             \/ \E k \in 1..Len(u) : v[i] = u[k]
  BY <1>1
<1>3. SavesIn(v) \subseteq SavesIn(t) \cup SavesIn(u)
  BY <1>2 DEF SavesIn
<1>4. DeletesIn(v) \subseteq DeletesIn(t) \cup DeletesIn(u)
  BY <1>2 DEF DeletesIn
<1>5. ListsIn(t) = {} /\ ListsIn(u) = {} => ListsIn(v) = {}
  BY <1>2 DEF ListsIn
<1> QED
  BY <1>1, <1>3, <1>4, <1>5 DEF v

-----------------------------------------------------------------------------
(* A step that takes nothing to a deleted or an unborn record.                *)
Quiet ==
  /\ IsMap(mirror') /\ IsMap(parked') /\ IsMap(disk') /\ snap' = snap
  /\ UNCHANGED <<buried, ghosts>> /\ born \subseteq born'
  /\ pool' \subseteq pool \cup {r \in Deleting : r \in ghosts \/ r \notin Saved'}
  /\ DOMAIN touched \subseteq DOMAIN touched'
  /\ \A r \in Records : (r \in Gone \/ r \notin born') /\ Blank(r) => Blank(r)'
  /\ \A r \in Records : disk[r] = {} => disk'[r] = {} \/ r \in Saved

LEMMA GoneIsDying == Dying = pool \cup Deleting /\ Gone = buried \cup ((pool \cup Deleting) \ ghosts)
<1>1. Dying = pool \cup Deleting
  BY DEF Dying, Deleting, CallsOf
<1> QED
  BY <1>1 DEF Gone

LEMMA DeletesQuiet ==
  ASSUME DeletesInv, Quiet, OneListing',
         NEW S, S \subseteq born', S \cap Gone = {},
         Saved' \subseteq Saved \cup S, Deleting' \subseteq Deleting,
         Late' \subseteq Late \cup (Deleting \cap S),
         listing = "no" => listing' = "no", listing' = "read" => listing = "read"
  PROVE  DeletesInv'
<1> USE DEF DeletesInv, Quiet
<1>1. Gone = buried \cup ((pool \cup Deleting) \ ghosts)
  BY GoneIsDying
<1>2. Gone' = buried \cup ((pool' \cup Deleting') \ ghosts)
  <2>1. Dying' = pool' \cup Deleting'
    BY DEF Dying, Deleting, CallsOf
  <2> QED
    BY <2>1 DEF Gone
<1>3. Gone' \subseteq Gone /\ buried \subseteq Gone
  BY <1>1, <1>2
<1>4. Gone \subseteq Records
  BY <1>1 DEF RecordsShape
<1>5. RecordsShape'
  BY DEF RecordsShape
<1>6. BornFirst'
  <2>1. Saved' \subseteq born'
    BY DEF BornFirst
  <2>2. ASSUME NEW r \in Records, r \notin born'
        PROVE  Blank(r)' /\ disk'[r] = {} /\ snap'[r] = {}
    <3>1. r \notin born /\ r \notin Saved
      BY <2>2 DEF BornFirst
    <3>2. Blank(r) /\ disk[r] = {} /\ snap[r] = {}
      BY <3>1 DEF BornFirst
    <3> QED
      BY <2>2, <3>1, <3>2
  <2> QED
    BY <2>1, <2>2 DEF BornFirst
<1>7. Doomed'
  <2>1. ASSUME NEW r \in Gone'
        PROVE  r \in born' /\ Blank(r)' /\ (r \in buried' \/ listing' = "no" \/ r \in DOMAIN touched')
    <3>1. r \in Gone /\ r \in Records
      BY <1>3, <1>4
    <3>2. r \in born /\ Blank(r) /\ (r \in buried \/ listing = "no" \/ r \in DOMAIN touched)
      BY <3>1 DEF Doomed
    <3> QED
      BY <3>1, <3>2
  <2> QED
    BY <2>1 DEF Doomed
<1>8. Buried'
  <2>1. ASSUME NEW r \in buried'
        PROVE  r \notin Saved' /\ disk'[r] = {} /\ (listing' = "read" => r \in DOMAIN touched' \/ snap'[r] = {})
    <3>1. r \in buried /\ r \in Gone /\ r \in Records
      BY <1>3, <1>4
    <3>2. r \notin Saved /\ disk[r] = {} /\ (listing = "read" => r \in DOMAIN touched \/ snap[r] = {})
      BY <3>1 DEF Buried
    <3> QED
      BY <3>1, <3>2
  <2> QED
    BY <2>1 DEF Buried
<1>9. Behind'
  <2>1. ASSUME NEW r \in pool' \ ghosts' PROVE r \notin Saved'
    <3>1. CASE r \in pool
      BY <1>1, <2>1, <3>1 DEF Behind
    <3>2. CASE r \notin pool
      BY <2>1, <3>2
    <3> QED
      BY <3>1, <3>2
  <2>2. Late' \subseteq ghosts'
    BY <1>1 DEF Behind
  <2> QED
    BY <2>1, <2>2 DEF Behind
<1> QED
  BY <1>5, <1>6, <1>7, <1>8, <1>9

(* A quiet step that adds calls, and one at which the first call arrives.      *)
LEMMA DeletesAdd ==
  ASSUME DeletesInv, Quiet, IsCalls(asked), NEW t, IsCalls(t), asked' = asked \o t,
         DeletesIn(t) = {}, ListsIn(t) = {}, SavesIn(t) \subseteq born', SavesIn(t) \cap Gone = {},
         listing' = listing, listing = "no" => DOMAIN touched' = {}
  PROVE  DeletesInv'
<1>1. /\ Saved' \subseteq Saved \cup SavesIn(t) /\ Deleting' \subseteq Deleting
      /\ CallsOf("list")' = CallsOf("list")
      /\ Late' \subseteq Late \cup (Deleting \cap SavesIn(t))
  BY CallsAdded
<1>2. OneListing'
  BY <1>1 DEF DeletesInv, OneListing
<1> QED
  BY <1>1, <1>2, DeletesQuiet

LEMMA DeletesSame ==
  ASSUME DeletesInv, Quiet, IsCalls(asked), asked' = asked,
         listing' = listing, listing = "no" => DOMAIN touched' = {}
  PROVE  DeletesInv'
<1>1. Saved' = Saved /\ Deleting' = Deleting /\ Late' = Late /\ CallsOf("list")' = CallsOf("list")
  BY DEF Saved, Deleting, Late, CallsOf
<1>2. OneListing'
  BY <1>1 DEF DeletesInv, OneListing
<1> QED
  BY <1>1, <1>2, DeletesQuiet

LEMMA ListsTaken ==
  ASSUME OneListing, IsCalls(asked), asked # <<>>, asked' = Tail(asked),
         touched' = touched,
         \/ listing' = listing
         \/ Head(asked).cmd = "list" /\ listing' = "running"
  PROVE  OneListing' /\ (Head(asked).cmd = "list" => listing = "asked")
<1>1. /\ \A i \in CallsOf("list")' : i + 1 \in CallsOf("list") /\ i + 1 > 1
      /\ Head(asked).cmd = "list" => 1 \in CallsOf("list")
  BY CallsTaken
<1>2. /\ listing = "no" => DOMAIN touched = {}
      /\ \A i \in CallsOf("list") : listing = "asked" /\ \A j \in CallsOf("list") : j = i
  BY DEF OneListing
<1>3. Head(asked).cmd = "list" => listing = "asked" /\ CallsOf("list")' = {}
  BY <1>1, <1>2
<1>4. \A i \in CallsOf("list")' : i \in Int /\ i + 1 \in CallsOf("list")
  BY <1>1 DEF CallsOf
<1>5. ASSUME NEW i \in CallsOf("list")'
      PROVE  listing' = "asked" /\ \A j \in CallsOf("list")' : j = i
  <2>1. listing = "asked" /\ listing' = listing
    BY <1>2, <1>3, <1>4
  <2>2. ASSUME NEW j \in CallsOf("list")' PROVE j = i
    <3>1. i \in Int /\ j \in Int /\ i + 1 = j + 1
      BY <1>2, <1>4
    <3> QED
      BY <3>1
  <2> QED
    BY <2>1, <2>2
<1>6. OneListing'
  BY <1>2, <1>3, <1>5 DEF OneListing
<1> QED
  BY <1>3, <1>6

LEMMA DeletesTake ==
  ASSUME DeletesInv, Quiet, IsCalls(asked), asked # <<>>, asked' = Tail(asked),
         touched' = touched,
         \/ listing' = listing
         \/ Head(asked).cmd = "list" /\ listing' = "running"
  PROVE  DeletesInv'
<1>1. /\ Saved' \subseteq Saved /\ Deleting' \subseteq Deleting /\ Late' \subseteq Late
  BY CallsTaken
<1>2. OneListing' /\ (Head(asked).cmd = "list" => listing = "asked")
  BY ListsTaken DEF DeletesInv
<1> DEFINE S == {}
<1>3. /\ S \subseteq born' /\ S \cap Gone = {}
      /\ Saved' \subseteq Saved \cup S /\ Late' \subseteq Late \cup (Deleting \cap S)
  BY <1>1
<1>4. (listing = "no" => listing' = "no") /\ (listing' = "read" => listing = "read")
  BY <1>2
<1> HIDE DEF S
<1> QED
  BY <1>1, <1>2, <1>3, <1>4, DeletesQuiet

-----------------------------------------------------------------------------
(* The actions of History.                                                  *)

(* What is left alone by the steps that only touch calls.                    *)
LEMMA QuietHistory ==
  ASSUME DeletesInv, UNCHANGED <<mirror, parked, snap, touched, disk, buried, ghosts, pool, born>>
  PROVE  Quiet
<1>1. \A r \in Records : Blank(r) => Blank(r)'
  BY DEF Blank
<1>2. IsMap(mirror') /\ IsMap(parked') /\ IsMap(disk')
  BY DEF DeletesInv, RecordsShape
<1> QED
  BY <1>1, <1>2 DEF Quiet

(* Nothing is parked of, and no save is on its way for, what is gone.         *)
LEMMA ParkedLives ==
  ASSUME DeletesInv
  PROVE  /\ Listed(parked) \subseteq born \ Gone /\ Listed(mirror) \subseteq born \ Gone
         /\ Saved \subseteq born
         /\ listing = "no" => DOMAIN touched = {}
  BY DEF DeletesInv, Listed, BornFirst, Doomed, Blank, OneListing

(* What Touch does to the listing's replay.                                  *)
LEMMA TouchedOne ==
  ASSUME NEW r, NEW copy, touched' = Touch(r, copy), listing = "no" => DOMAIN touched = {}
  PROVE  /\ DOMAIN touched \subseteq DOMAIN touched' /\ DOMAIN touched' \subseteq DOMAIN touched \cup {r}
         /\ \A q \in DOMAIN touched : q # r => touched'[q] = touched[q]
         /\ listing = "no" => DOMAIN touched' = {}
         /\ listing # "no" => r \in DOMAIN touched' /\ touched'[r] = copy
<1>1. CASE listing = "no"
  BY <1>1 DEF Touch
<1>2. CASE listing # "no"
  <2> DEFINE one == [q \in {r} |-> copy]
  <2>1. one[r] = copy
    OBVIOUS
  <2> HIDE DEF one
  <2>2. touched' = [q \in {r} \cup DOMAIN touched |-> IF q \in {r} THEN one[q] ELSE touched[q]]
    BY <1>2 DEF Touch, TouchAll, one
  <2> QED
    BY <1>2, <2>1, <2>2
<1> QED
  BY <1>1, <1>2

LEMMA DeletesUpsert ==
  ASSUME DeletesInv, IsCalls(asked), NEW r \in Records \ Gone, NEW copy, Upsert(r, copy),
         r \in born', born \subseteq born',
         UNCHANGED <<snap, disk, buried, ghosts, pool, listing>>
  PROVE  DeletesInv'
<1>1. /\ mirror' = [mirror EXCEPT ![r] = copy] /\ touched' = Touch(r, copy)
      /\ \/ parked' = [parked EXCEPT ![r] = copy]
         \/ parked' = parked
  BY DEF Upsert
<1>2. IsMap(mirror) /\ IsMap(parked) /\ IsMap(disk)
  BY DEF DeletesInv, RecordsShape
<1>3. /\ IsMap(mirror') /\ IsMap(parked')
      /\ \A q \in Records : q # r => mirror'[q] = mirror[q] /\ parked'[q] = parked[q]
  <2>1. IsMap(mirror') /\ \A q \in Records : q # r => mirror'[q] = mirror[q]
    BY <1>1, <1>2 DEF IsMap
  <2>2. IsMap(parked') /\ \A q \in Records : q # r => parked'[q] = parked[q]
    BY <1>1, <1>2 DEF IsMap
  <2> QED
    BY <2>1, <2>2
<1>4. /\ DOMAIN touched \subseteq DOMAIN touched' /\ DOMAIN touched' \subseteq DOMAIN touched \cup {r}
      /\ \A q \in DOMAIN touched : q # r => touched'[q] = touched[q]
      /\ listing = "no" => DOMAIN touched' = {}
  BY <1>1, ParkedLives, TouchedOne
<1>5. ASSUME NEW q \in Records, q \in Gone \/ q \notin born', Blank(q) PROVE Blank(q)'
  <2>1. q # r
    BY <1>5
  <2> QED
    BY <1>3, <1>4, <1>5, <2>1 DEF Blank
<1>6. Quiet
  BY <1>2, <1>3, <1>4, <1>5 DEF Quiet
<1>7. CASE asked' = asked
  BY <1>4, <1>6, <1>7, DeletesSame
<1>8. CASE asked' = asked \o Saves({r}, mirror')
  <2>1. /\ IsCalls(Saves({r}, mirror')) /\ SavesIn(Saves({r}, mirror')) \subseteq {r}
        /\ DeletesIn(Saves({r}, mirror')) = {} /\ ListsIn(Saves({r}, mirror')) = {}
    BY InSaves
  <2>2. /\ SavesIn(Saves({r}, mirror')) \subseteq born'
        /\ SavesIn(Saves({r}, mirror')) \cap Gone = {}
    BY <2>1
  <2> QED
    BY <1>4, <1>6, <1>8, <2>1, <2>2, DeletesAdd
<1> QED
  BY <1>7, <1>8 DEF Upsert

(* Writing what is parked, or a part of it.                                  *)
LEMMA DeletesFlushed ==
  ASSUME DeletesInv, IsCalls(asked), NEW t, IsCalls(t), asked' = asked \o t,
         DeletesIn(t) = {}, ListsIn(t) = {}, SavesIn(t) \subseteq Listed(parked),
         IsMap(parked'), \A r \in Records : parked'[r] \in {{}, parked[r]},
         pool' \subseteq pool,
         UNCHANGED <<mirror, snap, touched, disk, buried, ghosts, born, listing>>
  PROVE  DeletesInv'
<1>1. \A r \in Records : Blank(r) => Blank(r)'
  BY DEF Blank
<1>2. IsMap(mirror) /\ IsMap(disk)
  BY DEF DeletesInv, RecordsShape
<1>3. Quiet
  BY <1>1, <1>2 DEF Quiet
<1>4. /\ SavesIn(t) \subseteq born' /\ SavesIn(t) \cap Gone = {}
      /\ listing = "no" => DOMAIN touched' = {}
  BY ParkedLives
<1> QED
  BY <1>3, <1>4, DeletesAdd

LEMMA NothingIsMap == IsMap(Nothing) /\ \A r \in Records : Nothing[r] = {}
  BY DEF Nothing, IsMap

LEMMA ListedParked ==
  /\ Listed(parked) \subseteq Records
  /\ IsCalls(Saves(Listed(parked), parked))
  /\ SavesIn(Saves(Listed(parked), parked)) \subseteq Listed(parked)
  /\ DeletesIn(Saves(Listed(parked), parked)) = {}
  /\ ListsIn(Saves(Listed(parked), parked)) = {}
<1> DEFINE rs == Listed(parked)
<1>1. rs \in SUBSET Records
  BY DEF Listed
<1> HIDE DEF rs
<1>2. /\ IsCalls(Saves(rs, parked)) /\ SavesIn(Saves(rs, parked)) \subseteq rs
      /\ DeletesIn(Saves(rs, parked)) = {} /\ ListsIn(Saves(rs, parked)) = {}
  BY <1>1, InSaves
<1> QED
  BY <1>1, <1>2 DEF rs

LEMMA DeletesWrites ==
  ASSUME DeletesInv, IsCalls(asked), NEW r \in Records,
         \/ EditRecord(r) \/ AddRecord(r) \/ TypeEdit(r) \/ TypingTimer(r) \/ CoalesceTimer(r)
  PROVE  DeletesInv'
<1>1. CASE TypeEdit(r)
  <2>1. /\ UNCHANGED <<mirror, parked, snap, touched, disk, buried, ghosts, pool, born>>
        /\ asked' = asked /\ listing' = listing
    BY <1>1 DEF TypeEdit, restHistory, historyDisk
  <2> QED
    BY <2>1, QuietHistory, ParkedLives, DeletesSame
<1>2. ASSUME mirror[r] # {}, NEW copy, Upsert(r, copy), born' = born,
             UNCHANGED <<snap, disk, buried, ghosts, pool, listing>>
      PROVE  DeletesInv'
  <2>1. r \in born \ Gone
    BY <1>2, ParkedLives DEF Listed
  <2> QED
    BY <1>2, <2>1, DeletesUpsert
<1>3. CASE EditRecord(r)
  BY <1>2, <1>3 DEF EditRecord, restHistory, historyDisk
<1>4. CASE TypingTimer(r)
  <2>1. CASE mirror[r] # {}
    BY <1>2, <1>4, <2>1 DEF TypingTimer, restHistory, historyDisk
  <2>2. CASE mirror[r] = {}
    <3>1. /\ UNCHANGED <<mirror, parked, snap, touched, disk, buried, ghosts, pool, born>>
          /\ asked' = asked /\ listing' = listing
      BY <1>4, <2>2 DEF TypingTimer, restHistory, historyDisk
    <3> QED
      BY <3>1, QuietHistory, ParkedLives, DeletesSame
  <2> QED
    BY <2>1, <2>2
<1>5. CASE AddRecord(r)
  <2>1. r \notin Gone
    BY <1>5 DEF AddRecord, DeletesInv, Doomed
  <2> QED
    BY <1>5, <2>1, DeletesUpsert DEF AddRecord, restHistory, historyDisk
<1>6. CASE CoalesceTimer(r)
  <2> DEFINE t == Saves({r}, parked)
  <2>1. /\ parked[r] # {} /\ parked' = [parked EXCEPT ![r] = {}] /\ asked' = asked \o t
        /\ UNCHANGED <<mirror, snap, touched, disk, buried, ghosts, pool, born, listing>>
    BY <1>6 DEF CoalesceTimer, restHistory, historyDisk
  <2>2. /\ IsCalls(t) /\ SavesIn(t) \subseteq {r} /\ DeletesIn(t) = {} /\ ListsIn(t) = {}
    BY InSaves
  <2> HIDE DEF t
  <2>3. SavesIn(t) \subseteq Listed(parked)
    BY <2>1, <2>2 DEF Listed
  <2>4. IsMap(parked)
    BY DEF DeletesInv, RecordsShape
  <2>5. IsMap(parked') /\ \A q \in Records : parked'[q] \in {{}, parked[q]}
    BY <2>1, <2>4 DEF IsMap
  <2> QED
    BY <2>1, <2>2, <2>3, <2>5, DeletesFlushed
<1> QED
  BY <1>1, <1>3, <1>4, <1>5, <1>6

(* deleteRecord: the window forgets the record before the delete is on its way. *)
LEMMA DeletesAsked ==
  ASSUME DeletesInv, IsCalls(asked), NEW r \in Records, DeleteRecord(r)
  PROVE  DeletesInv'
<1> USE DEF DeletesInv
<1>1. /\ mirror[r] # {} /\ mirror' = [mirror EXCEPT ![r] = {}] /\ parked' = Dropped({r})
      /\ touched' = Touch(r, {}) /\ asked' = Append(asked, DeleteCall(r))
      /\ UNCHANGED <<snap, disk, buried, ghosts, pool, born, listing>>
  BY DEF DeleteRecord, restHistory, historyDisk
<1>2. r \in born \ Gone
  BY <1>1, ParkedLives DEF Listed
<1>3. asked' = asked \o <<DeleteCall(r)>>
  <2>1. PICK X : asked \in Seq(X)
    BY DEF IsCalls
  <2>2. asked \in Seq(X \cup {DeleteCall(r)}) /\ DeleteCall(r) \in X \cup {DeleteCall(r)}
    BY <2>1, SeqMonotonic
  <2> QED
    BY <1>1, <2>2, AppendIsConcat
<1>4. /\ IsCalls(<<DeleteCall(r)>>) /\ SavesIn(<<DeleteCall(r)>>) = {}
      /\ DeletesIn(<<DeleteCall(r)>>) = {r} /\ ListsIn(<<DeleteCall(r)>>) = {}
  <2> DEFINE c == DeleteCall(r)
  <2>1. c.cmd = "delete" /\ c.rec = r
    BY DEF DeleteCall
  <2> HIDE DEF c
  <2>2. /\ IsCalls(<<c>>) /\ SavesIn(<<c>>) = {} /\ DeletesIn(<<c>>) = {r} /\ ListsIn(<<c>>) = {}
    BY <2>1, InOne
  <2> QED
    BY <2>2 DEF c
<1>5. /\ Saved' \subseteq Saved /\ Deleting' \subseteq Deleting \cup {r}
      /\ CallsOf("list")' = CallsOf("list") /\ Late' \subseteq Late
  BY <1>3, <1>4, CallsAdded
<1>6. /\ IsMap(mirror') /\ IsMap(parked') /\ mirror'[r] = {} /\ parked'[r] = {}
      /\ \A q \in Records : q # r => mirror'[q] = mirror[q] /\ parked'[q] = parked[q]
  <2>1. IsMap(mirror') /\ mirror'[r] = {} /\ \A q \in Records : q # r => mirror'[q] = mirror[q]
    BY <1>1 DEF RecordsShape, IsMap
  <2>2. parked'[r] = {} /\ \A q \in Records : q # r => parked'[q] = parked[q]
    BY <1>1 DEF Dropped
  <2>3. IsMap(parked')
    BY <1>1 DEF Dropped, IsMap
  <2> QED
    BY <2>1, <2>2, <2>3
<1>7. /\ DOMAIN touched \subseteq DOMAIN touched' /\ DOMAIN touched' \subseteq DOMAIN touched \cup {r}
      /\ \A q \in DOMAIN touched : q # r => touched'[q] = touched[q]
      /\ listing = "no" => DOMAIN touched' = {}
      /\ listing # "no" => r \in DOMAIN touched' /\ touched'[r] = {}
  BY <1>1, ParkedLives, TouchedOne
<1>8. Blank(r)' /\ \A q \in Records : Blank(q) => Blank(q)'
  <2>1. Blank(r)'
    BY <1>6, <1>7 DEF Blank
  <2>2. \A q \in Records : q # r /\ Blank(q) => Blank(q)'
    BY <1>6, <1>7 DEF Blank
  <2> QED
    BY <2>1, <2>2
<1>9. Gone' \subseteq Gone \cup {r} /\ r \notin buried /\ buried \subseteq Gone /\ Gone \subseteq Records
  <2>1. Gone' = buried \cup ((pool \cup Deleting') \ ghosts)
    BY <1>1 DEF Gone, Dying, Deleting, CallsOf
  <2> QED
    BY <1>2, <1>5, <2>1, GoneIsDying DEF RecordsShape
<1>10. RecordsShape'
  BY <1>1, <1>5, <1>6 DEF RecordsShape
<1>11. OneListing'
  BY <1>1, <1>5, <1>7 DEF OneListing
<1>12. BornFirst'
  BY <1>1, <1>5, <1>8 DEF BornFirst
<1>13. Doomed'
  <2>1. ASSUME NEW q \in Gone'
        PROVE  q \in born' /\ Blank(q)' /\ (q \in buried' \/ listing' = "no" \/ q \in DOMAIN touched')
    <3>1. CASE q = r
      BY <1>1, <1>2, <1>7, <1>8, <3>1
    <3>2. CASE q # r
      <4>1. q \in Gone /\ q \in Records
        BY <1>9, <3>2
      <4> QED
        BY <1>1, <1>7, <1>8, <4>1 DEF Doomed
    <3> QED
      BY <3>1, <3>2
  <2> QED
    BY <2>1 DEF Doomed
<1>14. Buried'
  BY <1>1, <1>5, <1>7 DEF Buried
<1>15. Behind'
  BY <1>1, <1>5 DEF Behind
<1> QED
  BY <1>10, <1>11, <1>12, <1>13, <1>14, <1>15

-----------------------------------------------------------------------------
(* Listings.                                                                *)

LEMMA ListAdded ==
  ASSUME IsCalls(asked), NEW t, IsCalls(t), ListsIn(t) = {}, CallsOf("list") = {},
         asked' = asked \o t \o <<ListCall>>
  PROVE  /\ \A i \in CallsOf("list")', j \in CallsOf("list")' : j = i
         /\ DeletesIn(t) = {} => Deleting' \subseteq Deleting
         /\ Saved' \subseteq Saved \cup SavesIn(t)
<1> DEFINE u == asked \o t
           one == <<ListCall>>
<1>1. /\ IsCalls(u)
      /\ \A i \in 1..Len(u) : (\E k \in 1..Len(asked) : u[i] = asked[k])
                              \/ (\E k \in 1..Len(t) : u[i] = t[k])
  <2>1. /\ IsCalls(u)
        /\ \A i \in 1..Len(u) : \/ i \in 1..Len(asked) /\ u[i] = asked[i]
                                \/ i - Len(asked) \in 1..Len(t) /\ u[i] = t[i - Len(asked)]
    BY CallsConcat
  <2> HIDE DEF u
  <2> QED
    BY <2>1
<1>2. IsCalls(one) /\ Len(one) = 1 /\ one[1] = ListCall
  BY CallsOne
<1> DEFINE v == u \o one
<1>3. asked' = v /\ ListCall.cmd = "list"
  BY DEF ListCall
<1> HIDE DEF u, one
<1>4. \A i \in 1..Len(v) : \/ i \in 1..Len(u) /\ v[i] = u[i]
                           \/ i - Len(u) \in 1..Len(one) /\ v[i] = one[i - Len(u)]
  BY <1>1, <1>2, CallsConcat
<1> HIDE DEF v
<1>5. Len(u) \in Nat
  BY <1>1, CallsShapes
<1>6. ASSUME NEW i \in 1..Len(asked')
      PROVE  \/ \E k \in 1..Len(asked) : asked'[i] = asked[k]
             \/ \E k \in 1..Len(t) : asked'[i] = t[k]
             \/ i = Len(u) + 1 /\ asked'[i].cmd = "list"
  <2>1. CASE i \in 1..Len(u) /\ asked'[i] = u[i]
    BY <1>1, <2>1
  <2>2. CASE i - Len(u) \in 1..Len(one) /\ asked'[i] = one[i - Len(u)]
    <3>1. i - Len(u) = 1
      BY <1>2, <2>2
    <3>2. i = Len(u) + 1
      BY <1>5, <3>1
    <3> QED
      BY <1>2, <1>3, <2>2, <3>1, <3>2
  <2> QED
    BY <1>3, <1>4, <2>1, <2>2
<1>7. ASSUME NEW i \in CallsOf("list")' PROVE i = Len(u) + 1
  <2>1. i \in 1..Len(asked') /\ asked'[i].cmd = "list"
    BY DEF CallsOf
  <2>2. (\A k \in 1..Len(t) : t[k].cmd # "list") /\ (\A k \in 1..Len(asked) : asked[k].cmd # "list")
    BY DEF ListsIn, CallsOf
  <2> QED
    BY <1>6, <2>1, <2>2
<1>8. ASSUME DeletesIn(t) = {}, NEW i \in CallsOf("delete")' PROVE asked'[i].rec \in Deleting
  <2>1. i \in 1..Len(asked') /\ asked'[i].cmd = "delete"
    BY DEF CallsOf
  <2>2. \A k \in 1..Len(t) : t[k].cmd # "delete"
    BY <1>8 DEF DeletesIn
  <2>3. PICK k \in 1..Len(asked) : asked'[i] = asked[k]
    BY <1>6, <2>1, <2>2
  <2> QED
    BY <2>1, <2>3 DEF Deleting, CallsOf
<1>9. ASSUME NEW i \in CallsOf("save_record")' PROVE asked'[i].rec \in Saved \cup SavesIn(t)
  <2>1. i \in 1..Len(asked') /\ asked'[i].cmd = "save_record"
    BY DEF CallsOf
  <2>2. CASE \E k \in 1..Len(asked) : asked'[i] = asked[k]
    BY <2>1, <2>2 DEF Saved, CallsOf
  <2>3. CASE \E k \in 1..Len(t) : asked'[i] = t[k]
    BY <2>1, <2>3 DEF SavesIn
  <2> QED
    BY <1>6, <2>1, <2>2, <2>3
<1>10. DeletesIn(t) = {} => Deleting' \subseteq Deleting
  BY <1>8 DEF Deleting
<1>11. Saved' \subseteq Saved \cup SavesIn(t)
  BY <1>9 DEF Saved
<1> QED
  BY <1>7, <1>10, <1>11

(* A listing begins: it replays only what is alive, and the deletes on their   *)
(* way become the ghosts it may still find.                                  *)
LEMMA DeletesListed ==
  ASSUME DeletesInv, IsCalls(asked), listing = "no", NEW t, IsCalls(t),
         SavesIn(t) \subseteq Listed(parked), DeletesIn(t) = {}, ListsIn(t) = {},
         asked' = asked \o t \o <<ListCall>>, listing' = "asked", ghosts' = Dying,
         parked' = Nothing, DOMAIN touched' \subseteq Listed(parked) \cup Listed(mirror),
         UNCHANGED <<mirror, snap, disk, buried, pool, born>>
  PROVE  DeletesInv'
<1> USE DEF DeletesInv
<1>1. /\ Listed(parked) \subseteq born \ Gone /\ Listed(mirror) \subseteq born \ Gone
      /\ Saved \subseteq born
  BY ParkedLives
<1>2. CallsOf("list") = {}
  BY DEF OneListing
<1>3. /\ \A i \in CallsOf("list")', j \in CallsOf("list")' : j = i
      /\ Deleting' \subseteq Deleting /\ Saved' \subseteq Saved \cup SavesIn(t)
  BY <1>2, ListAdded
<1>4. ghosts' = pool \cup Deleting /\ buried \subseteq Gone
  BY GoneIsDying
<1>5. Gone' = buried \cup ((pool' \cup Deleting') \ ghosts')
  <2>1. Dying' = pool' \cup Deleting' /\ buried' = buried
    BY DEF Dying, Deleting, CallsOf
  <2> QED
    BY <2>1 DEF Gone
<1>6. Gone' = buried
  BY <1>3, <1>4, <1>5
<1>7. IsMap(parked') /\ \A r \in Records : parked'[r] = {}
  BY NothingIsMap
<1>8. RecordsShape'
  BY <1>3, <1>7 DEF RecordsShape
<1>9. OneListing'
  BY <1>3 DEF OneListing
<1>10. ASSUME NEW r \in Records, r \in Gone \/ r \notin born PROVE Blank(r)'
  <2>1. r \notin DOMAIN touched'
    BY <1>1, <1>10
  <2>2. mirror[r] = {}
    BY <1>1, <1>10 DEF Listed
  <2> QED
    BY <1>7, <2>1, <2>2 DEF Blank
<1>11. BornFirst'
  BY <1>1, <1>3, <1>10 DEF BornFirst
<1>12. Doomed'
  BY <1>4, <1>6, <1>10 DEF Doomed, RecordsShape
<1>13. Buried'
  <2>1. \A r \in buried : r \notin Saved'
    BY <1>1, <1>3, <1>4 DEF Buried
  <2> QED
    BY <2>1 DEF Buried
<1>14. Behind'
  <2>1. Late' \subseteq Deleting'
    BY DEF Late
  <2> QED
    BY <1>3, <1>4, <2>1 DEF Behind
<1> QED
  BY <1>8, <1>9, <1>11, <1>12, <1>13, <1>14

LEMMA DeletesLoad ==
  ASSUME DeletesInv, IsCalls(asked), NEW force, NEW parks, NEW kept,
         IsMap(parks), \A r \in Records : parks[r] \in {{}, parked[r]},
         LoadHistory(force, parks, kept),
         UNCHANGED <<mirror, snap, disk, buried, pool, born>>
  PROVE  DeletesInv'
<1>1. CASE parked' = parks /\ UNCHANGED <<asked, listing, touched, ghosts>>
  <2>1. IsMap(mirror) /\ IsMap(disk)
    BY DEF DeletesInv, RecordsShape
  <2>2. \A r \in Records : Blank(r) => Blank(r)'
    BY <1>1 DEF Blank
  <2>3. Quiet
    BY <1>1, <2>1, <2>2 DEF Quiet
  <2> QED
    BY <1>1, <2>3, ParkedLives, DeletesSame
<1>2. CASE listing = "no" /\ ~(parked' = parks /\ UNCHANGED <<asked, listing, touched, ghosts>>)
  <2> DEFINE t == Saves(Listed(parks), parks)
             seed == IF sessionOnly' THEN Listed(mirror) ELSE {}
  <2>1. /\ asked' = asked \o t \o <<ListCall>> /\ parked' = Nothing
        /\ listing' = "asked" /\ ghosts' = Dying
        /\ touched' = [r \in Listed(parks) \cup seed |->
                         IF mirror[r] # {} THEN mirror[r] ELSE parks[r]]
    BY <1>2 DEF LoadHistory
  <2>2. Listed(parks) \subseteq Records /\ Listed(parks) \subseteq Listed(parked)
    BY DEF Listed
  <2>3. /\ IsCalls(t) /\ SavesIn(t) \subseteq Listed(parks)
        /\ DeletesIn(t) = {} /\ ListsIn(t) = {}
    BY <2>2, InSaves
  <2>4. seed \subseteq Listed(mirror)
    OBVIOUS
  <2> HIDE DEF t, seed
  <2>5. DOMAIN touched' \subseteq Listed(parked) \cup Listed(mirror)
    BY <2>1, <2>2, <2>4
  <2>6. SavesIn(t) \subseteq Listed(parked)
    BY <2>2, <2>3
  <2> QED
    BY <1>2, <2>1, <2>3, <2>5, <2>6, DeletesListed
<1>3. listing = "no" \/ (parked' = parks /\ UNCHANGED <<asked, listing, touched, ghosts>>)
  BY DEF LoadHistory
<1> QED
  BY <1>1, <1>2, <1>3

LEMMA ListRan ==
  ASSUME DeletesInv, listing = "running", asked' = asked,
         \/ snap' = disk /\ listing' = "read"
         \/ snap' = snap /\ listing' = "unread",
         UNCHANGED <<mirror, parked, touched, disk, buried, ghosts, pool, born>>
  PROVE  DeletesInv'
<1> USE DEF DeletesInv
<1>1. /\ Saved' = Saved /\ Deleting' = Deleting /\ Late' = Late /\ Gone' = Gone
      /\ CallsOf("list")' = CallsOf("list")
  BY DEF Saved, Deleting, Late, Gone, Dying, CallsOf
<1>2. CallsOf("list") = {}
  BY DEF OneListing
<1>3. \A r : Blank(r)' <=> Blank(r)
  BY DEF Blank
<1>4. RecordsShape'
  BY <1>1 DEF RecordsShape
<1>5. OneListing'
  BY <1>1, <1>2 DEF OneListing
<1>6. BornFirst'
  BY <1>1, <1>3 DEF BornFirst
<1>7. Doomed'
  BY <1>1, <1>3 DEF Doomed
<1>8. Buried'
  BY <1>1 DEF Buried
<1>9. Behind'
  BY <1>1 DEF Behind
<1> QED
  BY <1>4, <1>5, <1>6, <1>7, <1>8, <1>9

(* A listing lands: what it replays of the deleted is nothing, and of those it  *)
(* replays nothing it read nothing.                                         *)
LEMMA ListLanded ==
  ASSUME DeletesInv, listing \in {"read", "unread"}, asked' = asked, listing' = "no",
         touched' = <<>>, snap' = Nothing,
         \/ listing = "read" /\ mirror' = Replayed
         \/ mirror' = mirror,
         UNCHANGED <<parked, disk, buried, ghosts, pool, born>>
  PROVE  DeletesInv'
<1> USE DEF DeletesInv
<1>1. /\ Saved' = Saved /\ Deleting' = Deleting /\ Late' = Late /\ Gone' = Gone
      /\ CallsOf("list")' = CallsOf("list")
  BY DEF Saved, Deleting, Late, Gone, Dying, CallsOf
<1>2. CallsOf("list") = {} /\ DOMAIN touched' = {}
  <2>1. CallsOf("list") = {}
    BY DEF OneListing
  <2>2. DOMAIN <<>> = {}
    OBVIOUS
  <2> QED
    BY <2>1, <2>2
<1>3. IsMap(snap') /\ \A r \in Records : snap'[r] = {}
  BY NothingIsMap
<1>4. IsMap(mirror')
  BY DEF Replayed, IsMap, RecordsShape
<1>5. ASSUME NEW r \in Records, Blank(r), listing = "read" => r \in DOMAIN touched \/ snap[r] = {}
      PROVE  Blank(r)'
  <2>1. mirror'[r] = {}
    BY <1>5 DEF Blank, Replayed
  <2> QED
    BY <1>2, <1>5, <2>1 DEF Blank
<1>6. RecordsShape'
  BY <1>1, <1>3, <1>4 DEF RecordsShape
<1>7. OneListing'
  BY <1>1, <1>2 DEF OneListing
<1>8. BornFirst'
  BY <1>1, <1>3, <1>5 DEF BornFirst
<1>9. Doomed'
  <2>1. ASSUME NEW r \in Gone PROVE r \in Records /\ r \in born /\ Blank(r)'
    <3>1. r \in Records
      BY GoneIsDying DEF RecordsShape
    <3>2. r \in born /\ Blank(r) /\ (r \in buried \/ r \in DOMAIN touched)
      BY DEF Doomed
    <3> QED
      BY <1>5, <3>1, <3>2 DEF Buried
  <2> QED
    BY <1>1, <2>1 DEF Doomed
<1>10. Buried'
  BY <1>1 DEF Buried
<1>11. Behind'
  BY <1>1 DEF Behind
<1> QED
  BY <1>6, <1>7, <1>8, <1>9, <1>10, <1>11

LEMMA DeletesLists ==
  ASSUME DeletesInv, IsCalls(asked),
         OpenHistory \/ Chained \/ ListArrives \/ ListRuns \/ ListLands
  PROVE  DeletesInv'
<1>1. CASE OpenHistory
  <2>1. /\ LoadHistory(FALSE, parked, stamped) /\ IsMap(parked)
        /\ UNCHANGED <<mirror, snap, disk, buried, pool, born>>
    BY <1>1 DEF OpenHistory, historyDisk, DeletesInv, RecordsShape
  <2> QED
    BY <2>1, DeletesLoad
<1>2. CASE Chained
  <2> DEFINE t == Saves(Listed(parked), parked)
  <2>1. /\ listing = "no" /\ asked' = asked \o t \o <<ListCall>> /\ parked' = Nothing
        /\ touched' = [r \in Listed(parked) |-> IF mirror[r] # {} THEN mirror[r] ELSE parked[r]]
        /\ listing' = "asked" /\ ghosts' = Dying
        /\ UNCHANGED <<mirror, snap, disk, buried, pool, born>>
    BY <1>2 DEF Chained, ChainDue, historyDisk
  <2>2. /\ IsCalls(t) /\ SavesIn(t) \subseteq Listed(parked)
        /\ DeletesIn(t) = {} /\ ListsIn(t) = {}
    BY ListedParked
  <2> HIDE DEF t
  <2>3. DOMAIN touched' \subseteq Listed(parked) \cup Listed(mirror)
    BY <2>1
  <2> QED
    BY <2>1, <2>2, <2>3, DeletesListed
<1>3. CASE ListArrives
  <2>1. /\ asked # <<>> /\ Head(asked).cmd = "list" /\ asked' = Tail(asked)
        /\ listing' = "running" /\ touched' = touched
        /\ UNCHANGED <<mirror, parked, snap, touched, disk, buried, ghosts, pool, born>>
    BY <1>3 DEF ListArrives, Arrives, restWindow, historyDisk
  <2> QED
    BY <2>1, QuietHistory, DeletesTake
<1>4. CASE ListRuns
  <2>1. /\ listing = "running" /\ asked' = asked
        /\ \/ snap' = disk /\ listing' = "read"
           \/ snap' = snap /\ listing' = "unread"
        /\ UNCHANGED <<mirror, parked, touched, disk, buried, ghosts, pool, born>>
    BY <1>4 DEF ListRuns, restWindow, historyDisk
  <2> QED
    BY <2>1, ListRan
<1>5. CASE ListLands
  <2>1. /\ listing \in {"read", "unread"} /\ asked' = asked /\ listing' = "no"
        /\ touched' = <<>> /\ snap' = Nothing
        /\ \/ listing = "read" /\ mirror' = Replayed
           \/ mirror' = mirror
        /\ UNCHANGED <<parked, disk, buried, ghosts, pool, born>>
    BY <1>5 DEF ListLands, callVars, historyDisk
  <2> QED
    BY <2>1, ListLanded
<1> QED
  BY <1>1, <1>2, <1>3, <1>4, <1>5

-----------------------------------------------------------------------------
(* The calls that arrive, and the deletes that run.                          *)

(* A record's file is written by a save that was on its way.                  *)
LEMMA DeletesWritten ==
  ASSUME DeletesInv, IsCalls(asked), SaveRecord
  PROVE  DeletesInv'
<1> DEFINE c == Head(asked)
<1>1. /\ asked # <<>> /\ c.cmd = "save_record" /\ asked' = Tail(asked)
      /\ disk' = [disk EXCEPT ![c.rec] = c.body] \/ disk' = disk
      /\ UNCHANGED <<mirror, parked, snap, touched, buried, ghosts, pool, born, listing>>
  BY DEF SaveRecord, Arrives
<1>2. c.rec \in Saved
  BY <1>1, CallsTaken
<1> HIDE DEF c
<1>3. IsMap(mirror) /\ IsMap(parked) /\ IsMap(disk)
  BY DEF DeletesInv, RecordsShape
<1>4. IsMap(disk') /\ \A r \in Records : r # c.rec => disk'[r] = disk[r]
  BY <1>1, <1>3 DEF IsMap
<1>5. \A r \in Records : Blank(r) => Blank(r)'
  BY <1>1 DEF Blank
<1>6. Quiet
  BY <1>1, <1>2, <1>3, <1>4, <1>5 DEF Quiet
<1> QED
  BY <1>1, <1>6, DeletesTake

(* A delete on its way is behind every save of its record, or a ghost.         *)
LEMMA DeletesPooled ==
  ASSUME DeletesInv, IsCalls(asked), DeleteArrives
  PROVE  DeletesInv'
<1> DEFINE d == Head(asked).rec
<1>1. /\ asked # <<>> /\ Head(asked).cmd = "delete" /\ asked' = Tail(asked)
      /\ pool' = pool \cup {d}
      /\ UNCHANGED <<mirror, parked, snap, touched, disk, buried, ghosts, born, listing>>
  BY DEF DeleteArrives, Arrives, historyWindow
<1>2. d \in Deleting /\ (d \in Saved' => d \in Late)
  BY <1>1, CallsTaken
<1> HIDE DEF d
<1>3. Late \subseteq ghosts
  BY DEF DeletesInv, Behind
<1>4. IsMap(mirror) /\ IsMap(parked) /\ IsMap(disk)
  BY DEF DeletesInv, RecordsShape
<1>5. \A r \in Records : Blank(r) => Blank(r)'
  BY <1>1 DEF Blank
<1>6. Quiet
  BY <1>1, <1>2, <1>3, <1>4, <1>5 DEF Quiet
<1> QED
  BY <1>1, <1>6, DeletesTake

LEMMA DeletesRan ==
  ASSUME DeletesInv, NEW r \in Records, r \in pool, asked' = asked,
         pool' = pool \ {r}, disk' = [disk EXCEPT ![r] = {}],
         buried' = buried \cup ({r} \ ghosts),
         UNCHANGED <<mirror, parked, snap, touched, ghosts, born, listing>>
  PROVE  DeletesInv'
<1> USE DEF DeletesInv
<1>1. /\ Saved' = Saved /\ Deleting' = Deleting /\ Late' = Late
      /\ CallsOf("list")' = CallsOf("list")
  BY DEF Saved, Deleting, Late, CallsOf
<1>2. Gone' = buried' \cup ((pool' \cup Deleting) \ ghosts)
  BY DEF Gone, Dying, Deleting, CallsOf
<1>3. Gone' \subseteq Gone /\ r \in Gone \cup ghosts
  BY <1>2, GoneIsDying
<1>4. \A q : Blank(q)' <=> Blank(q)
  BY DEF Blank
<1>5. IsMap(disk') /\ disk'[r] = {} /\ \A q \in Records : q # r => disk'[q] = disk[q]
  BY DEF RecordsShape, IsMap
<1>6. RecordsShape'
  BY <1>1, <1>5 DEF RecordsShape
<1>7. OneListing'
  BY <1>1 DEF OneListing
<1>8. BornFirst'
  BY <1>1, <1>4, <1>5 DEF BornFirst
<1>9. Doomed'
  <2>1. buried \subseteq buried'
    OBVIOUS
  <2> QED
    BY <1>3, <1>4, <2>1 DEF Doomed
<1>10. Buried'
  <2>1. ASSUME NEW q \in buried'
        PROVE  q \notin Saved' /\ disk'[q] = {} /\ (listing' = "read" => q \in DOMAIN touched' \/ snap'[q] = {})
    <3>1. CASE q \in buried
      BY <1>1, <1>5, <3>1 DEF Buried, RecordsShape
    <3>2. CASE q \notin buried
      <4>1. q = r /\ r \notin ghosts /\ r \notin buried
        BY <3>2
      <4>2. r \notin Saved /\ disk'[r] = {}
        BY <1>5, <4>1 DEF Behind
      <4>3. listing = "read" => r \in DOMAIN touched
        BY <1>3, <4>1 DEF Doomed
      <4> QED
        BY <1>1, <4>1, <4>2, <4>3
    <3> QED
      BY <3>1, <3>2
  <2> QED
    BY <2>1 DEF Buried
<1>11. Behind'
  BY <1>1 DEF Behind
<1> QED
  BY <1>6, <1>7, <1>8, <1>9, <1>10, <1>11

(* Writing what is parked, all of it.                                        *)
LEMMA DeletesParked ==
  ASSUME DeletesInv, IsCalls(asked), asked' = asked \o Saves(Listed(parked), parked),
         parked' = Nothing, pool' \subseteq pool,
         UNCHANGED <<mirror, snap, touched, disk, buried, ghosts, born, listing>>
  PROVE  DeletesInv'
<1> DEFINE t == Saves(Listed(parked), parked)
<1>1. /\ IsCalls(t) /\ SavesIn(t) \subseteq Listed(parked)
      /\ DeletesIn(t) = {} /\ ListsIn(t) = {}
  BY ListedParked
<1>2. asked' = asked \o t
  OBVIOUS
<1> HIDE DEF t
<1>3. IsMap(parked') /\ \A r \in Records : parked'[r] \in {{}, parked[r]}
  BY NothingIsMap
<1> QED
  BY <1>1, <1>2, <1>3, DeletesFlushed

LEMMA DeletesRuns ==
  ASSUME DeletesInv, IsCalls(asked), NEW r \in Records, DeleteRuns(r)
  PROVE  DeletesInv'
<1>1. /\ r \in pool /\ pool' = pool \ {r}
      /\ UNCHANGED <<mirror, snap, touched, ghosts, born, listing>>
  BY DEF DeleteRuns
<1>2. CASE disk' = [disk EXCEPT ![r] = {}] /\ buried' = buried \cup ({r} \ ghosts)
           /\ UNCHANGED <<asked, parked>>
  BY <1>1, <1>2, DeletesRan
<1>3. CASE asked' = asked \o Saves(Listed(parked), parked) /\ parked' = Nothing
           /\ UNCHANGED <<disk, buried>>
  BY <1>1, <1>3, DeletesParked
<1> QED
  BY <1>2, <1>3 DEF DeleteRuns

-----------------------------------------------------------------------------
(* Sweeps and wipes.                                                        *)

(* A sweep or a wipe takes from the disk, and from nothing else.              *)
LEMMA DeletesSwept ==
  ASSUME DeletesInv, IsCalls(asked), asked' = asked, IsMap(disk'),
         \A r \in Records : disk'[r] \in {{}, disk[r]},
         UNCHANGED <<mirror, parked, snap, touched, buried, ghosts, pool, born, listing>>
  PROVE  DeletesInv'
<1>1. IsMap(mirror) /\ IsMap(parked)
  BY DEF DeletesInv, RecordsShape
<1>2. \A r \in Records : Blank(r) => Blank(r)'
  BY DEF Blank
<1>3. \A r \in Records : disk[r] = {} => disk'[r] = {} \/ r \in Saved
  OBVIOUS
<1>4. Quiet
  BY <1>1, <1>2, <1>3 DEF Quiet
<1> QED
  BY <1>4, ParkedLives, DeletesSame

LEMMA DeletesHeard ==
  ASSUME DeletesInv, IsCalls(asked), NEW keep, HearSweep(keep)
  PROVE  DeletesInv'
<1> DEFINE drops == Head(swept) /\ ~keep
           parks == IF drops THEN Dropped(Dictations) ELSE parked
           rs == IF wipedHeard \/ drops THEN Listed(parks) \ Dictations ELSE Listed(parks)
           t == Written(rs, parks)
<1>1. /\ asked' = asked \o t /\ rs \in SUBSET Records /\ parked' = Nothing
      /\ UNCHANGED <<mirror, snap, touched, disk, buried, ghosts, pool, born, listing>>
  BY DEF HearSweep, Written, Listed
<1>2. rs \subseteq Listed(parked)
  BY DEF Dropped, Listed
<1>3. IsCalls(t) /\ SavesIn(t) = rs /\ DeletesIn(t) = {} /\ ListsIn(t) = {}
  BY <1>1, InWritten
<1> HIDE DEF rs, t
<1>4. IsMap(parked') /\ (\A r \in Records : parked'[r] \in {{}, parked[r]}) /\ pool' \subseteq pool
  BY <1>1, NothingIsMap
<1> QED
  BY <1>1, <1>2, <1>3, <1>4, DeletesFlushed

LEMMA DeletesWiped ==
  ASSUME DeletesInv, IsCalls(asked),
         AskWipe \/ WipeArrives \/ WipeRuns \/ WipeFails \/ WipeAnswered \/ RunSweep
  PROVE  DeletesInv'
<1>1. CASE AskWipe
  <2>1. /\ asked' = asked \o Saves(Listed(parked), parked) /\ parked' = Nothing
        /\ UNCHANGED <<mirror, snap, touched, disk, buried, ghosts, pool, born, listing>>
    BY <1>1 DEF AskWipe, historyDisk
  <2> QED
    BY <2>1, DeletesParked
<1>2. CASE WipeArrives
  <2>1. /\ asked # <<>> /\ asked' = Tail(asked) /\ listing' = listing
        /\ UNCHANGED <<mirror, parked, snap, touched, disk, buried, ghosts, pool, born>>
    BY <1>2 DEF WipeArrives, Arrives, restWindow, historyDisk
  <2> QED
    BY <2>1, QuietHistory, DeletesTake
<1>3. CASE WipeRuns
  <2>1. /\ asked' = asked /\ disk' = [r \in Records |-> IF r \in Dictations THEN {} ELSE disk[r]]
        /\ UNCHANGED <<mirror, parked, snap, touched, buried, ghosts, pool, born, listing>>
    BY <1>3 DEF WipeRuns, callVars, restWindow
  <2>2. IsMap(disk') /\ \A r \in Records : disk'[r] \in {{}, disk[r]}
    BY <2>1 DEF IsMap
  <2> QED
    BY <2>1, <2>2, DeletesSwept
<1>4. CASE WipeFails
  <2>1. /\ asked' = asked /\ listing' = listing
        /\ UNCHANGED <<mirror, parked, snap, touched, disk, buried, ghosts, pool, born>>
    BY <1>4 DEF WipeFails, restWindow, historyDisk
  <2> QED
    BY <2>1, QuietHistory, ParkedLives, DeletesSame
<1>5. CASE WipeAnswered
  <2> DEFINE drop == IF wipe = "wiped" THEN preWipe ELSE {}
             parks == Dropped(drop)
  <2>1. /\ LoadHistory(TRUE, parks, Unstamped(drop))
        /\ UNCHANGED <<mirror, snap, disk, buried, pool, born>>
    BY <1>5 DEF WipeAnswered, historyDisk
  <2>2. IsMap(parks) /\ \A r \in Records : parks[r] \in {{}, parked[r]}
    BY DEF Dropped, IsMap
  <2> HIDE DEF parks, drop
  <2> QED
    BY <2>1, <2>2, DeletesLoad
<1>6. CASE RunSweep
  <2>1. PICK old \in SUBSET (Aged \cap Listed(disk)) :
          disk' = [r \in Records |->
                     IF r \in (IF ~sweeping.keep THEN Dictations \cap Listed(disk) ELSE {})
                              \cup (IF sweeping.brief THEN old ELSE {})
                     THEN {} ELSE disk[r]]
    BY <1>6 DEF RunSweep, Sweep
  <2>2. /\ asked' = asked
        /\ UNCHANGED <<mirror, parked, snap, touched, buried, ghosts, pool, born, listing>>
    BY <1>6 DEF RunSweep, callVars, historyWindow
  <2>3. IsMap(disk') /\ \A r \in Records : disk'[r] \in {{}, disk[r]}
    BY <2>1 DEF IsMap
  <2> QED
    BY <2>2, <2>3, DeletesSwept
<1> QED
  BY <1>1, <1>2, <1>3, <1>4, <1>5, <1>6

-----------------------------------------------------------------------------
(* Flushes, the other stores' calls, and the ends of a life.                  *)

(* The calls of the settings are none of History's.                          *)
LEMMA ConfigCalls ==
  ASSUME NEW known, NEW t, t = FlushCalls(known) \/ t = SaveCalls(known)
  PROVE  IsCalls(t) /\ SavesIn(t) = {} /\ DeletesIn(t) = {} /\ ListsIn(t) = {}
<1>1. t = <<>> \/ t = <<ConfigCall>>
  BY DEF FlushCalls, SaveCalls
<1>2. ConfigCall.cmd = "save_config"
  BY DEF ConfigCall
<1>3. CASE t = <<>>
  BY <1>3, InNone
<1>4. CASE t = <<ConfigCall>>
  <2> DEFINE c == ConfigCall
  <2>1. c.cmd # "save_record" /\ c.cmd # "delete" /\ c.cmd # "list" /\ t = <<c>>
    BY <1>2, <1>4
  <2> HIDE DEF c
  <2> QED
    BY <2>1, InOne
<1> QED
  BY <1>1, <1>3, <1>4

(* A step of another store: it adds calls of its own, takes one, or none.      *)
LEMMA DeletesElsewhere ==
  ASSUME DeletesInv, IsCalls(asked), UNCHANGED historyVars,
         \/ asked' = asked
         \/ asked # <<>> /\ asked' = Tail(asked)
         \/ \E known : asked' = asked \o FlushCalls(known) \/ asked' = asked \o SaveCalls(known)
  PROVE  DeletesInv'
<1>1. UNCHANGED <<mirror, parked, snap, touched, disk, buried, ghosts, pool, born, listing>>
  BY DEF historyVars, historyWindow, historyDisk
<1>2. Quiet /\ (listing = "no" => DOMAIN touched' = {})
  BY <1>1, QuietHistory, ParkedLives
<1>3. CASE asked' = asked
  BY <1>1, <1>2, <1>3, DeletesSame
<1>4. CASE asked # <<>> /\ asked' = Tail(asked)
  BY <1>1, <1>2, <1>4, DeletesTake
<1>5. ASSUME NEW known, asked' = asked \o FlushCalls(known) \/ asked' = asked \o SaveCalls(known)
      PROVE  DeletesInv'
  <2>1. PICK t : asked' = asked \o t /\ (t = FlushCalls(known) \/ t = SaveCalls(known))
    BY <1>5
  <2>2. IsCalls(t) /\ SavesIn(t) = {} /\ DeletesIn(t) = {} /\ ListsIn(t) = {}
    BY <2>1, ConfigCalls
  <2>3. SavesIn(t) \subseteq born' /\ SavesIn(t) \cap Gone = {}
    BY <2>2
  <2> QED
    BY <1>1, <1>2, <2>1, <2>2, <2>3, DeletesAdd
<1> QED
  BY <1>3, <1>4, <1>5

LEMMA DeletesSettled ==
  ASSUME DeletesInv, IsCalls(asked), FlushSettles
  PROVE  DeletesInv'
<1>1. UNCHANGED <<mirror, snap, disk, buried, pool, born>>
  BY DEF FlushSettles, historyDisk
<1>2. CASE LoadHistory(TRUE, parked, stamped)
  <2>1. IsMap(parked)
    BY DEF DeletesInv, RecordsShape
  <2> QED
    BY <1>1, <1>2, <2>1, DeletesLoad
<1>3. CASE asked' = Append(asked, WipeCall) /\ UNCHANGED <<parked, listing, touched, ghosts>>
  <2>1. Quiet /\ (listing = "no" => DOMAIN touched' = {})
    BY <1>1, <1>3, QuietHistory, ParkedLives
  <2> DEFINE c == WipeCall
             t == <<c>>
  <2>2. c.cmd = "wipe"
    BY DEF WipeCall
  <2>3. asked' = asked \o t
    <3>1. PICK X : asked \in Seq(X)
      BY DEF IsCalls
    <3>2. asked \in Seq(X \cup {c}) /\ c \in X \cup {c}
      BY <3>1, SeqMonotonic
    <3> HIDE DEF c
    <3> QED
      BY <1>3, <3>2, AppendIsConcat DEF c
  <2> HIDE DEF c
  <2>4. IsCalls(t) /\ SavesIn(t) = {} /\ DeletesIn(t) = {} /\ ListsIn(t) = {}
    BY <2>2, InOne
  <2> HIDE DEF t
  <2>5. SavesIn(t) \subseteq born' /\ SavesIn(t) \cap Gone = {}
    BY <2>4
  <2> QED
    BY <1>3, <2>1, <2>3, <2>4, <2>5, DeletesAdd
<1>4. CASE UNCHANGED <<asked, parked, listing, touched, ghosts>>
  BY <1>1, <1>4, QuietHistory, ParkedLives, DeletesSame
<1> QED
  BY <1>2, <1>3, <1>4 DEF FlushSettles

(* Every write there is to make is made at once: of the living only.           *)
LEMMA DeletesFlushAll ==
  ASSUME DeletesInv, IsCalls(asked), NEW quits, FlushAll(quits)
  PROVE  DeletesInv'
<1> DEFINE t == FlushHistoryCalls
           u == IF ready = "no" THEN <<>> ELSE FlushCalls(permitted)
<1>1. /\ mirror' = TypedMirror /\ parked' = Nothing /\ asked' = (asked \o t) \o u
      /\ touched' = (IF listing = "no" THEN touched ELSE TouchAll(TypedMirror, Typed))
      /\ UNCHANGED <<snap, disk, buried, ghosts, pool, born, listing>>
  BY DEF FlushAll, FlushHistory, historyDisk
<1>2. /\ IsCalls(t) /\ SavesIn(t) \subseteq Listed(TypedParked)
      /\ DeletesIn(t) = {} /\ ListsIn(t) = {}
  <2>1. Listed(TypedParked) \subseteq Records
    BY DEF Listed
  <2> QED
    BY <2>1, InSaves DEF FlushHistoryCalls
<1>3. IsCalls(u) /\ SavesIn(u) = {} /\ DeletesIn(u) = {} /\ ListsIn(u) = {}
  BY ConfigCalls, InNone
<1> HIDE DEF t, u
<1>4. asked' = asked \o (t \o u)
  BY <1>1, <1>2, <1>3, Regrouped
<1>5. /\ IsCalls(t \o u) /\ SavesIn(t \o u) \subseteq Listed(TypedParked)
      /\ DeletesIn(t \o u) = {} /\ ListsIn(t \o u) = {}
  BY <1>2, <1>3, InBoth
<1>6. Listed(TypedParked) \subseteq Listed(parked) \cup Listed(mirror)
  BY DEF Listed, TypedParked, Typed
<1>7. SavesIn(t \o u) \subseteq born' /\ SavesIn(t \o u) \cap Gone = {}
  BY <1>1, <1>5, <1>6, ParkedLives
<1>8. IsMap(mirror') /\ IsMap(parked') /\ IsMap(disk') /\ \A r \in Records : parked'[r] = {}
  BY <1>1, NothingIsMap DEF TypedMirror, IsMap, DeletesInv, RecordsShape
<1>9. DOMAIN touched \subseteq DOMAIN touched' /\ (listing = "no" => DOMAIN touched' = {})
  BY <1>1, ParkedLives DEF TouchAll
<1>10. ASSUME NEW r \in Records, Blank(r) PROVE Blank(r)'
  <2>1. r \notin Typed /\ mirror'[r] = {}
    BY <1>1, <1>10 DEF Typed, TypedMirror, Blank
  <2>2. r \in DOMAIN touched' => touched'[r] = {}
    BY <1>1, <1>10, <2>1 DEF TouchAll, Blank
  <2> QED
    BY <1>8, <2>1, <2>2 DEF Blank
<1>11. Quiet
  BY <1>1, <1>8, <1>9, <1>10 DEF Quiet
<1> HIDE DEF Quiet
<1> QED
  BY <1>1, <1>4, <1>5, <1>7, <1>9, <1>11, DeletesAdd

(* A life begins and ends with no call underway; what is on the disk stays.    *)
LEMMA DeletesBegun ==
  ASSUME DeletesInv, ConfigInv, Launch
  PROVE  DeletesInv'
<1> USE DEF DeletesInv
<1>1. /\ asked = <<>> /\ asked' = <<[cmd |-> "load_config"]>>
      /\ UNCHANGED <<mirror, parked, snap, touched, disk, buried, ghosts, pool, born, listing>>
  BY DEF Launch, ConfigInv, CallsInOrder, historyVars, historyWindow, historyDisk
<1>2. \A cmd : cmd # "load_config" => CallsOf(cmd)' = {}
  <2> DEFINE c == [cmd |-> "load_config"]
             s == <<c>>
  <2>1. Len(s) = 1 /\ s[1] = c /\ c.cmd = "load_config"
    BY CallsOne
  <2> HIDE DEF c
  <2>2. \A i \in 1..Len(s) : s[i] = c
    BY <2>1
  <2> HIDE DEF s
  <2>3. asked' = s
    BY <1>1 DEF s, c
  <2> QED
    BY <2>1, <2>2, <2>3 DEF CallsOf
<1>3. Saved' = {} /\ Deleting' = {} /\ Late' = {} /\ CallsOf("list")' = {}
  <2>1. CallsOf("save_record")' = {} /\ CallsOf("delete")' = {} /\ CallsOf("list")' = {}
    BY <1>2
  <2> QED
    BY <2>1 DEF Saved, Deleting, Late
<1>4. Gone' \subseteq Gone
  <2>1. Gone' = buried' \cup ((pool' \cup Deleting') \ ghosts')
    BY DEF Gone, Dying, Deleting, CallsOf
  <2> QED
    BY <1>1, <1>3, <2>1, GoneIsDying
<1>5. \A r : Blank(r)' <=> Blank(r)
  BY <1>1 DEF Blank
<1>6. RecordsShape'
  BY <1>1, <1>3 DEF RecordsShape
<1>7. OneListing'
  BY <1>1, <1>3 DEF OneListing
<1>8. BornFirst'
  BY <1>1, <1>3, <1>5 DEF BornFirst
<1>9. Doomed'
  BY <1>1, <1>4, <1>5 DEF Doomed
<1>10. Buried'
  BY <1>1, <1>3 DEF Buried
<1>11. Behind'
  BY <1>1, <1>3 DEF Behind
<1> QED
  BY <1>6, <1>7, <1>8, <1>9, <1>10, <1>11

LEMMA DeletesEnded ==
  ASSUME DeletesInv, Dies
  PROVE  DeletesInv'
<1> USE DEF DeletesInv
<1>1. /\ asked' = <<>> /\ mirror' = Nothing /\ parked' = Nothing /\ snap' = Nothing
      /\ touched' = <<>> /\ listing' = "no" /\ pool' = {} /\ ghosts' = {}
      /\ UNCHANGED <<disk, buried, born>>
  BY DEF Dies, HistoryDies
<1>2. Saved' = {} /\ Deleting' = {} /\ Late' = {} /\ CallsOf("list")' = {}
  <2>1. \A cmd : CallsOf(cmd)' = {}
    <3>1. Len(asked') = 0
      BY <1>1, CallsNone
    <3> QED
      BY <3>1 DEF CallsOf
  <2> QED
    BY <2>1 DEF Saved, Deleting, Late
<1>3. Gone' = buried /\ buried \subseteq Gone
  <2>1. Gone' = buried' \cup ((pool' \cup Deleting') \ ghosts')
    BY DEF Gone, Dying, Deleting, CallsOf
  <2> QED
    BY <1>1, <1>2, <2>1, GoneIsDying
<1>4. /\ IsMap(mirror') /\ IsMap(parked') /\ IsMap(snap') /\ DOMAIN touched' = {}
      /\ \A r \in Records : mirror'[r] = {} /\ parked'[r] = {} /\ snap'[r] = {}
  <2>1. DOMAIN <<>> = {}
    OBVIOUS
  <2> QED
    BY <1>1, <2>1, NothingIsMap
<1>5. \A r \in Records : Blank(r)'
  BY <1>4 DEF Blank
<1>6. RecordsShape'
  BY <1>1, <1>2, <1>4 DEF RecordsShape
<1>7. OneListing'
  BY <1>2, <1>4 DEF OneListing
<1>8. BornFirst'
  BY <1>1, <1>2, <1>4, <1>5 DEF BornFirst
<1>9. Doomed'
  BY <1>1, <1>3, <1>5 DEF Doomed, RecordsShape
<1>10. Buried'
  BY <1>1, <1>2 DEF Buried
<1>11. Behind'
  BY <1>1, <1>2 DEF Behind
<1> QED
  BY <1>6, <1>7, <1>8, <1>9, <1>10, <1>11

LEMMA DeletesStart == Init => DeletesInv
<1> SUFFICES ASSUME Init PROVE DeletesInv
  OBVIOUS
<1>1. /\ asked = <<>> /\ mirror = Nothing /\ parked = Nothing /\ snap = Nothing
      /\ touched = <<>> /\ listing = "no" /\ pool = {} /\ ghosts = {} /\ buried = {}
      /\ born = OldRecords /\ disk = [r \in Records |-> IF r \in OldRecords THEN {0} ELSE {}]
  BY DEF Init, HistoryInit
<1>2. Saved = {} /\ Deleting = {} /\ Late = {} /\ CallsOf("list") = {}
  <2>1. \A cmd : CallsOf(cmd) = {}
    <3>1. Len(asked) = 0
      BY <1>1, CallsNone
    <3> QED
      BY <3>1 DEF CallsOf
  <2> QED
    BY <2>1 DEF Saved, Deleting, Late
<1>3. Gone = {}
  BY <1>1, <1>2, GoneIsDying
<1>4. /\ IsMap(mirror) /\ IsMap(parked) /\ IsMap(snap) /\ DOMAIN touched = {}
      /\ \A r \in Records : mirror[r] = {} /\ parked[r] = {} /\ snap[r] = {}
  <2>1. DOMAIN <<>> = {}
    OBVIOUS
  <2> QED
    BY <1>1, <2>1, NothingIsMap
<1>5. \A r \in Records : Blank(r)
  BY <1>4 DEF Blank
<1>6. IsMap(disk) /\ \A r \in Records \ OldRecords : disk[r] = {}
  BY <1>1 DEF IsMap
<1>7. RecordsShape
  BY <1>1, <1>2, <1>4, <1>6 DEF RecordsShape
<1>8. OneListing /\ Doomed /\ Buried /\ Behind
  BY <1>1, <1>2, <1>3, <1>4 DEF OneListing, Doomed, Buried, Behind
<1>9. BornFirst
  BY <1>1, <1>2, <1>4, <1>5, <1>6 DEF BornFirst
<1> QED
  BY <1>7, <1>8, <1>9 DEF DeletesInv

LEMMA DeletesStep ==
  ASSUME DeletesInv, ConfigInv, [Next]_vars
  PROVE  DeletesInv'
<1>1. IsCalls(asked)
  BY DEF ConfigInv, CallsInOrder
<1>2. ASSUME UNCHANGED historyVars, asked' = asked PROVE DeletesInv'
  BY <1>1, <1>2, DeletesElsewhere
<1>3. CASE Launch
  BY <1>3, DeletesBegun
<1>4. CASE Crash \/ Exit
  BY <1>4, DeletesEnded DEF Crash, Exit
<1>5. CASE Callbacks
  <2>1. CASE Reflush /\ OnConfig
    <3>1. UNCHANGED historyVars /\ asked' = asked \o FlushCalls(permitted)
      BY <2>1 DEF Reflush, OnConfig
    <3> QED
      BY <1>1, <3>1, DeletesElsewhere
  <2>2. CASE FlushSettles
    BY <1>1, <2>2, DeletesSettled
  <2>3. CASE Chained
    BY <1>1, <2>3, DeletesLists
  <2> QED
    BY <1>5, <2>1, <2>2, <2>3 DEF Callbacks
<1>6. CASE Task /\ ConfigTask /\ OnConfig
  <2>1. UNCHANGED historyVars
    BY <1>6 DEF OnConfig
  <2>2. CASE LoadConfig \/ SaveLands \/ SaveFails
    <3>1. asked # <<>> /\ asked' = Tail(asked)
      BY <2>2 DEF LoadConfig, SaveLands, SaveFails, Arrives
    <3> QED
      BY <1>1, <2>1, <3>1, DeletesElsewhere
  <2>3. CASE EditPlain \/ (\E clash \in {"none", "sides", "real"} : EditChords(clash)) \/ Rebinds
    <3>1. asked' = asked
      BY <2>3 DEF EditPlain, EditChords, Changes, Rebinds, callVars
    <3> QED
      BY <1>2, <2>1, <3>1
  <2>4. CASE SaveTimer \/ RetryHeld \/ LearnPermitted
    <3>1. \/ asked' = asked
          \/ \E known : asked' = asked \o FlushCalls(known) \/ asked' = asked \o SaveCalls(known)
      BY <2>4 DEF SaveTimer, RetryHeld, LearnPermitted
    <3> QED
      BY <1>1, <2>1, <3>1, DeletesElsewhere
  <2> QED
    BY <1>6, <2>2, <2>3, <2>4 DEF ConfigTask
<1>7. CASE Task /\ HistoryTask /\ OnHistory
  <2>1. ASSUME NEW r \in Records,
               \/ EditRecord(r) \/ TypeEdit(r) \/ TypingTimer(r) \/ CoalesceTimer(r)
               \/ DeleteRecord(r) \/ DeleteRuns(r)
        PROVE  DeletesInv'
    BY <1>1, <2>1, DeletesWrites, DeletesAsked, DeletesRuns
  <2>2. CASE OpenHistory \/ ListArrives \/ ListRuns \/ ListLands
    BY <1>1, <2>2, DeletesLists
  <2>3. CASE SaveRecord \/ DeleteArrives
    BY <1>1, <2>3, DeletesWritten, DeletesPooled
  <2>4. CASE AskWipe \/ WipeArrives \/ WipeRuns \/ WipeFails \/ WipeAnswered
    BY <1>1, <2>4, DeletesWiped
  <2>5. CASE HearSweep(settings.keep)
    BY <1>1, <2>5, DeletesHeard
  <2> QED
    BY <1>7, <2>1, <2>2, <2>3, <2>4, <2>5 DEF HistoryTask
<1>8. CASE Task /\ QueueTask /\ OnQueue
  <2>1. UNCHANGED historyVars
    BY <1>8 DEF OnQueue
  <2>2. asked' = asked
    BY <1>8 DEF QueueTask, Enqueue, QueueTimer, WriteSettles, ReadLands, ReadFails, Post,
       PostSent, PostRetried, PostRefused, ApplyPost, callVars
  <2> QED
    BY <1>2, <2>1, <2>2
<1>9. CASE Task /\ KeepDictations
  <2>1. /\ asked' = asked /\ listing' = listing
        /\ UNCHANGED <<mirror, parked, snap, touched, disk, buried, ghosts, pool, born>>
    BY <1>9 DEF KeepDictations, EditKeep, Changes, historyDisk
  <2> QED
    BY <1>1, <2>1, QuietHistory, ParkedLives, DeletesSame
<1>10. CASE Task /\ RecordNew
  <2>1. PICK r \in Records : AddRecord(r)
    BY <1>10 DEF RecordNew
  <2> QED
    BY <1>1, <2>1, DeletesWrites
<1>11. CASE Break \/ TakeSweep \/ RequestQuit \/ QuitReady
  <2>1. UNCHANGED historyVars /\ asked' = asked
    BY <1>11 DEF Break, TakeSweep, RequestQuit, QuitReady, callVars
  <2> QED
    BY <1>2, <2>1
<1>12. CASE RunSweep
  BY <1>1, <1>12, DeletesWiped
<1>13. CASE BeforeQuit \/ SessionEnding
  BY <1>1, <1>13, DeletesFlushAll DEF BeforeQuit, SessionEnding
<1>14. CASE UNCHANGED vars
  <2>1. UNCHANGED historyVars /\ asked' = asked
    BY <1>14 DEF vars, callVars
  <2> QED
    BY <1>2, <2>1
<1> QED
  BY <1>3, <1>4, <1>5, <1>6, <1>7, <1>8, <1>9, <1>10, <1>11, <1>12, <1>13, <1>14 DEF Next

LEMMA DeletesAlways == Spec => []DeletesInv
<1>1. DeletesInv /\ ConfigInv /\ [Next]_vars => DeletesInv'
  BY DeletesStep
<1> QED
  BY DeletesStart, ConfigAlways, <1>1, PTL DEF Spec

(* Once its delete ran, a deleted record has no file: no parked write, typed    *)
(* edit, save on its way, listing, sweep, wipe, flush or relaunch brings it     *)
(* back, unless a later listing overtook the delete (transcriptHistory.ts,      *)
(* store/transcripts.rs).                                                   *)
THEOREM DeletedForGood == Spec => []DeletedStaysDeleted
<1>1. DeletesInv => DeletedStaysDeleted
  BY DEF DeletesInv, Buried, DeletedStaysDeleted
<1> QED
  BY DeletesAlways, <1>1, PTL

-----------------------------------------------------------------------------
(* The mirror: the inductive invariant.                                     *)

SavesOf(r) == {i \in CallsOf("save_record") : asked[i].rec = r}

(* What is parked, and what a listing will replay, is the mirror's copy.       *)
TypedFiles == IsMap(typing) /\ \A r \in Records : typing[r] # {} => r \in Files
Copies ==
  /\ TypedFiles
  /\ \A r \in Records : /\ parked[r] \in {{}, mirror[r]}
                        /\ r \in DOMAIN touched => touched[r] = mirror[r]

(* The saves on their way: each copy holds the one before, the mirror them all. *)
Rising ==
  \A r \in Records : \A i \in SavesOf(r) :
    /\ mirror[r] = {} \/ asked[i].body \subseteq mirror[r]
    /\ \A j \in SavesOf(r) : j > i => asked[i].body \subseteq asked[j].body

(* Of what a listing will not replay nothing is parked, and no save is behind it. *)
Replays ==
  listing # "no" =>
    \A r \in Records \ DOMAIN touched :
      /\ parked[r] = {}
      /\ \A i \in SavesOf(r) : \E j \in CallsOf("list") : j > i

(* The mirror's copy is on the disk, on its way there, or parked.             *)
Sent(r) ==
  \/ \E i \in SavesOf(r) : asked[i].body = mirror[r]
  \/ SavesOf(r) = {} /\ (mirror[r] \subseteq disk[r] \/ disk[r] = {})
Waits(r) == parked[r] # {} /\ r \in Writable({r})
OnItsWay == \A r \in Records \ lost : mirror[r] = {} \/ Sent(r) \/ Waits(r)

(* So what a listing read and will not replay is no older than the mirror.     *)
ReadIsNew ==
  listing = "read" =>
    \A r \in Records \ DOMAIN touched :
      /\ snap[r] \subseteq disk[r] \/ disk[r] = {}
      /\ r \in lost \/ mirror[r] = {} \/ snap[r] = {} \/ mirror[r] \subseteq snap[r]

MirrorInv == Copies /\ Rising /\ Replays /\ OnItsWay /\ ReadIsNew

(* What the property says of a step of the window.                           *)
Forward ==
  \A r \in Records : mirror'[r] = {} \/ mirror[r] \subseteq mirror'[r] \/ r \in lost

-----------------------------------------------------------------------------
(* Saves found by their record.                                             *)

(* A save among the calls added.                                             *)
AddedBy(i, t) == \E k \in 1..Len(t) : t[k].cmd = "save_record" /\ asked'[i] = t[k]

LEMMA SavesMoved ==
  ASSUME IsCalls(asked), NEW t, IsCalls(t), asked' = asked \o t, NEW r
  PROVE  /\ \A i \in SavesOf(r) : i \in SavesOf(r)' /\ asked'[i] = asked[i]
         /\ \A i \in SavesOf(r)' :
              \/ i \in SavesOf(r) /\ asked'[i] = asked[i]
              \/ /\ \A j \in SavesOf(r) : i > j
                 /\ r \in SavesIn(t)
                 /\ AddedBy(i, t)
         /\ r \in SavesIn(t) => \E i \in SavesOf(r)' : AddedBy(i, t)
         /\ \A i \in CallsOf("list") : i \in CallsOf("list")'
<1>1. /\ \A i \in 1..Len(asked) : i \in 1..Len(asked') /\ asked'[i] = asked[i]
      /\ \A i \in 1..Len(t) : /\ Len(asked) + i \in 1..Len(asked')
                              /\ asked'[Len(asked) + i] = t[i]
      /\ \A i \in 1..Len(asked') :
           \/ i \in 1..Len(asked) /\ asked'[i] = asked[i]
           \/ i - Len(asked) \in 1..Len(t) /\ asked'[i] = t[i - Len(asked)]
  BY CallsConcat
<1>2. Len(asked) \in Nat /\ Len(t) \in Nat
  BY CallsShapes
<1>3. ASSUME NEW cmd, NEW i \in CallsOf(cmd) PROVE i \in CallsOf(cmd)' /\ asked'[i] = asked[i]
  BY <1>1 DEF CallsOf
<1>4. ASSUME NEW i \in SavesOf(r) PROVE i \in SavesOf(r)' /\ asked'[i] = asked[i]
  BY <1>3 DEF SavesOf
<1>5. ASSUME NEW i \in SavesOf(r)', ~(i \in SavesOf(r) /\ asked'[i] = asked[i])
      PROVE  /\ \A j \in SavesOf(r) : i > j
             /\ r \in SavesIn(t)
             /\ AddedBy(i, t)
  <2>1. i \in 1..Len(asked') /\ asked'[i].cmd = "save_record" /\ asked'[i].rec = r
    BY DEF SavesOf, CallsOf
  <2>2. ~(i \in 1..Len(asked) /\ asked'[i] = asked[i])
    BY <1>5, <2>1 DEF SavesOf, CallsOf
  <2> DEFINE k == i - Len(asked)
  <2>3. k \in 1..Len(t) /\ asked'[i] = t[k]
    BY <1>1, <2>1, <2>2
  <2>4. i > Len(asked)
    BY <1>2, <2>1, <2>3
  <2>5. \A j \in SavesOf(r) : j \in 1..Len(asked)
    BY DEF SavesOf, CallsOf
  <2>6. \A j \in SavesOf(r) : i > j
    BY <1>2, <2>1, <2>4, <2>5
  <2> HIDE DEF k
  <2> QED
    BY <2>1, <2>3, <2>6 DEF SavesIn, AddedBy
<1>6. ASSUME r \in SavesIn(t)
      PROVE  \E i \in SavesOf(r)' : AddedBy(i, t)
  <2>1. PICK k \in 1..Len(t) : t[k].cmd = "save_record" /\ t[k].rec = r
    BY <1>6 DEF SavesIn
  <2> DEFINE i == Len(asked) + k
  <2>2. i \in 1..Len(asked') /\ asked'[i] = t[k]
    BY <1>1
  <2> HIDE DEF i
  <2>3. i \in SavesOf(r)'
    BY <2>1, <2>2 DEF SavesOf, CallsOf
  <2> QED
    BY <2>1, <2>2, <2>3 DEF AddedBy
<1> QED
  BY <1>3, <1>4, <1>5, <1>6

LEMMA SavesShifted ==
  ASSUME IsCalls(asked), asked # <<>>, asked' = Tail(asked), NEW r
  PROVE  /\ \A i \in SavesOf(r)' : /\ i \in Int /\ i + 1 \in SavesOf(r)
                                   /\ asked'[i] = asked[i + 1]
         /\ \A i \in SavesOf(r) : \/ i = 1 /\ Head(asked).cmd = "save_record" /\ Head(asked).rec = r
                                  \/ i - 1 \in SavesOf(r)' /\ asked'[i - 1] = asked[i]
         /\ Head(asked).cmd = "save_record" /\ Head(asked).rec = r =>
              1 \in SavesOf(r) /\ asked[1] = Head(asked) /\ \A i \in SavesOf(r)' : i + 1 > 1
         /\ \A i \in CallsOf("list") : i \in Int /\ (i > 1 => i - 1 \in CallsOf("list")')
<1>1. /\ Len(asked') = Len(asked) - 1
      /\ \A i \in 1..Len(asked') : i + 1 \in 1..Len(asked) /\ asked'[i] = asked[i + 1]
  BY CallsTail
<1>2. Len(asked) \in Nat /\ 1 \in 1..Len(asked) /\ Head(asked) = asked[1]
  BY CallsShapes
<1>3. ASSUME NEW i \in SavesOf(r)'
      PROVE  i \in Int /\ i + 1 > 1 /\ i + 1 \in SavesOf(r) /\ asked'[i] = asked[i + 1]
  BY <1>1 DEF SavesOf, CallsOf
<1>4. ASSUME NEW i \in 1..Len(asked), i > 1
      PROVE  i - 1 \in 1..Len(asked') /\ asked'[i - 1] = asked[i]
  <2> DEFINE k == i - 1
  <2>1. k \in 1..Len(asked') /\ k + 1 = i
    BY <1>1, <1>2, <1>4
  <2> HIDE DEF k
  <2>2. asked'[k] = asked[i]
    BY <1>1, <2>1
  <2> QED
    BY <2>1, <2>2 DEF k
<1>5. ASSUME NEW i \in SavesOf(r)
      PROVE  \/ i = 1 /\ Head(asked).cmd = "save_record" /\ Head(asked).rec = r
             \/ i - 1 \in SavesOf(r)' /\ asked'[i - 1] = asked[i]
  <2>1. i \in 1..Len(asked) /\ asked[i].cmd = "save_record" /\ asked[i].rec = r
    BY DEF SavesOf, CallsOf
  <2>2. CASE i = 1
    BY <1>2, <2>1, <2>2
  <2>3. CASE i # 1
    <3>1. i > 1
      BY <1>2, <2>1, <2>3
    <3>2. i - 1 \in 1..Len(asked') /\ asked'[i - 1] = asked[i]
      BY <1>4, <2>1, <3>1
    <3> DEFINE k == i - 1
    <3>3. k \in 1..Len(asked') /\ asked'[k] = asked[i]
      BY <3>2
    <3> HIDE DEF k
    <3>4. k \in SavesOf(r)' /\ asked'[k] = asked[i]
      BY <2>1, <3>3 DEF SavesOf, CallsOf
    <3> QED
      BY <3>4 DEF k
  <2> QED
    BY <2>2, <2>3
<1>6. ASSUME Head(asked).cmd = "save_record", Head(asked).rec = r
      PROVE  1 \in SavesOf(r) /\ asked[1] = Head(asked)
  BY <1>2, <1>6 DEF SavesOf, CallsOf
<1>7. ASSUME NEW i \in CallsOf("list") PROVE i \in Int /\ (i > 1 => i - 1 \in CallsOf("list")')
  <2>1. i \in 1..Len(asked) /\ asked[i].cmd = "list"
    BY DEF CallsOf
  <2>2. ASSUME i > 1 PROVE i - 1 \in CallsOf("list")'
    <3> DEFINE k == i - 1
    <3>1. k \in 1..Len(asked') /\ asked'[k] = asked[i]
      BY <1>4, <2>1, <2>2
    <3> HIDE DEF k
    <3>2. k \in CallsOf("list")'
      BY <2>1, <3>1 DEF CallsOf
    <3> QED
      BY <3>2 DEF k
  <2> QED
    BY <2>1, <2>2
<1> QED
  BY <1>3, <1>5, <1>6, <1>7

-----------------------------------------------------------------------------
(* What a step does to the mirror's copy of a record.                        *)

(* Calls that write copies of these records, and ones that write the mirror's.  *)
Copying(t, rs, copies) ==
  \A k \in 1..Len(t) :
    t[k].cmd = "save_record" => t[k].rec \in rs /\ t[k].body = copies[t[k].rec]
WritesMirror(t) ==
  \A k \in 1..Len(t) :
    t[k].cmd = "save_record" => t[k].body = mirror'[t[k].rec] /\ t[k].body # {}

(* The mirror's copy grows, or goes; or is the first there is.                *)
Grows(r) ==
  \/ mirror'[r] = {} \/ mirror'[r] = mirror[r]
  \/ mirror[r] # {} /\ mirror[r] \subseteq mirror'[r]
  \/ mirror[r] = {} /\ SavesOf(r) = {}

(* It is written by these calls, waits, or was on its way.                    *)
Carried(r, t) ==
  \/ r \in lost' \/ mirror'[r] = {} \/ r \in SavesIn(t) \/ Waits(r)'
  \/ mirror'[r] = mirror[r] /\ Sent(r)

LEMMA MirrorCalls ==
  ASSUME MirrorInv, IsCalls(asked), NEW t, IsCalls(t), asked' = asked \o t, WritesMirror(t),
         \A r \in Records : disk'[r] \in {{}, disk[r]} /\ Grows(r) /\ Carried(r, t)
  PROVE  Rising' /\ OnItsWay' /\ Forward
<1>0. ASSUME NEW r \in Records
      PROVE  \A i \in SavesOf(r)' :
               \/ i \in SavesOf(r) /\ asked'[i] = asked[i]
               \/ /\ \A j \in SavesOf(r) : i > j
                  /\ AddedBy(i, t)
  BY SavesMoved
<1>1. ASSUME NEW r \in Records, NEW i \in SavesOf(r)'
      PROVE  /\ mirror'[r] = {} \/ asked'[i].body \subseteq mirror'[r]
             /\ \A j \in SavesOf(r)' : j > i => asked'[i].body \subseteq asked'[j].body
  <2>1. ASSUME NEW j \in SavesOf(r)'
        PROVE  \/ j \in SavesOf(r) /\ asked'[j] = asked[j]
               \/ /\ \A k \in SavesOf(r) : j > k
                  /\ asked'[j].body = mirror'[r] /\ mirror'[r] # {}
    <3>1. asked'[j].rec = r
      BY DEF SavesOf
    <3>2. \A k \in 1..Len(t) : t[k].cmd = "save_record" /\ asked'[j] = t[k]
                               => asked'[j].body = mirror'[r] /\ mirror'[r] # {}
      BY <3>1 DEF WritesMirror
    <3> QED
      BY <1>0, <3>2 DEF AddedBy
  <2>2. CASE i \in SavesOf(r) /\ asked'[i] = asked[i]
    <3>1. /\ mirror[r] = {} \/ asked[i].body \subseteq mirror[r]
          /\ \A j \in SavesOf(r) : j > i => asked[i].body \subseteq asked[j].body
      BY <2>2 DEF MirrorInv, Rising
    <3>2. mirror'[r] = {} \/ asked'[i].body \subseteq mirror'[r]
      BY <2>2, <3>1 DEF Grows
    <3>3. ASSUME NEW j \in SavesOf(r)', j > i PROVE asked'[i].body \subseteq asked'[j].body
      BY <2>1, <2>2, <3>1, <3>2, <3>3
    <3> QED
      BY <3>2, <3>3
  <2>3. CASE (\A k \in SavesOf(r) : i > k) /\ asked'[i].body = mirror'[r] /\ mirror'[r] # {}
    <3>1. ASSUME NEW j \in SavesOf(r)', j > i PROVE asked'[j].body = mirror'[r]
      <4>1. ASSUME j \in SavesOf(r) PROVE FALSE
        <5>1. i > j /\ j > i /\ i \in Int /\ j \in Int
          BY <2>3, <3>1, <4>1 DEF SavesOf, CallsOf
        <5> QED
          BY <5>1
      <4> QED
        BY <2>1, <4>1
    <3> QED
      BY <2>3, <3>1
  <2> QED
    BY <2>1, <2>2, <2>3
<1>2. ASSUME NEW r \in Records \ lost', mirror'[r] # {}, ~Waits(r)' PROVE Sent(r)'
  <2>1. CASE r \in SavesIn(t)
    <3>0. r \in SavesIn(t) => \E i \in SavesOf(r)' : AddedBy(i, t)
      BY SavesMoved
    <3>1. PICK i \in SavesOf(r)' : AddedBy(i, t)
      BY <2>1, <3>0
    <3>2. asked'[i].rec = r
      BY DEF SavesOf
    <3>3. asked'[i].body = mirror'[r]
      BY <3>1, <3>2 DEF WritesMirror, AddedBy
    <3> QED
      BY <3>3 DEF Sent
  <2>2. CASE mirror'[r] = mirror[r] /\ Sent(r) /\ r \notin SavesIn(t)
    <3>1. /\ \A i \in SavesOf(r) : i \in SavesOf(r)' /\ asked'[i] = asked[i]
          /\ SavesOf(r)' \subseteq SavesOf(r)
      BY <2>2, SavesMoved
    <3>2. disk'[r] \in {{}, disk[r]}
      OBVIOUS
    <3> QED
      BY <2>2, <3>1, <3>2 DEF Sent
  <2> QED
    BY <1>2, <2>1, <2>2 DEF Carried
<1>3. Rising'
  BY <1>1 DEF Rising
<1>4. OnItsWay'
  BY <1>2 DEF OnItsWay
<1>5. Forward
  BY DEF Forward, Grows
<1> QED
  BY <1>3, <1>4, <1>5

(* A step that adds calls and begins no listing.                             *)
LEMMA MirrorAdd ==
  ASSUME MirrorInv, IsCalls(asked), NEW t, IsCalls(t), asked' = asked \o t, WritesMirror(t),
         \A r \in Records : disk'[r] \in {{}, disk[r]} /\ Grows(r) /\ Carried(r, t),
         Copies', listing' = listing, snap' = snap, DOMAIN touched \subseteq DOMAIN touched',
         listing # "no" =>
           \A r \in Records \ DOMAIN touched' :
             /\ mirror'[r] = mirror[r] /\ parked'[r] \in {{}, parked[r]}
             /\ r \notin SavesIn(t) /\ (r \in lost => r \in lost')
  PROVE  MirrorInv' /\ Forward
<1>1. Rising' /\ OnItsWay' /\ Forward
  BY MirrorCalls
<1>2. Replays'
  <2>1. ASSUME listing # "no", NEW r \in Records \ DOMAIN touched', NEW i \in SavesOf(r)'
        PROVE  \E j \in CallsOf("list")' : j > i
    <3>1. i \in SavesOf(r) /\ \A j \in CallsOf("list") : j \in CallsOf("list")'
      BY <2>1, SavesMoved
    <3> QED
      BY <2>1, <3>1 DEF MirrorInv, Replays
  <2>2. ASSUME listing # "no", NEW r \in Records \ DOMAIN touched' PROVE parked'[r] = {}
    BY <2>2 DEF MirrorInv, Replays
  <2> QED
    BY <2>1, <2>2 DEF Replays
<1>3. ReadIsNew'
  <2>1. ASSUME listing = "read", NEW r \in Records \ DOMAIN touched'
        PROVE  /\ snap'[r] \subseteq disk'[r] \/ disk'[r] = {}
               /\ r \in lost' \/ mirror'[r] = {} \/ snap'[r] = {} \/ mirror'[r] \subseteq snap'[r]
    <3>1. /\ snap[r] \subseteq disk[r] \/ disk[r] = {}
          /\ r \in lost \/ mirror[r] = {} \/ snap[r] = {} \/ mirror[r] \subseteq snap[r]
      BY <2>1 DEF MirrorInv, ReadIsNew
    <3>2. disk'[r] \in {{}, disk[r]} /\ mirror'[r] = mirror[r] /\ (r \in lost => r \in lost')
      BY <2>1
    <3> QED
      BY <3>1, <3>2
  <2> QED
    BY <2>1 DEF ReadIsNew
<1> QED
  BY <1>1, <1>2, <1>3 DEF MirrorInv

(* Writing what is parked, or a part of it; what is dropped is lost.            *)
LEMMA MirrorFlushed ==
  ASSUME MirrorInv, IsCalls(asked), NEW t, IsCalls(t), asked' = asked \o t, ListsIn(t) = {},
         Copying(t, Listed(parked), parked),
         \A r \in Records : disk'[r] \in {{}, disk[r]} /\ parked'[r] \in {{}, parked[r]},
         \A r \in Records : Waits(r) => r \in SavesIn(t) \/ r \in lost' \/ Waits(r)',
         lost \subseteq lost', TypedFiles',
         UNCHANGED <<mirror, touched, snap, listing>>
  PROVE  MirrorInv' /\ Forward
<1>1. \A r \in Listed(parked) : r \in Records /\ parked[r] = mirror[r] /\ parked[r] # {}
  BY DEF MirrorInv, Copies, Listed
<1>2. WritesMirror(t)
  BY <1>1 DEF WritesMirror, Copying
<1>3. \A r \in Records : Carried(r, t)
  BY DEF Carried, MirrorInv, OnItsWay
<1>4. \A r \in Records : Grows(r)
  BY DEF Grows
<1>5. Copies'
  BY DEF MirrorInv, Copies
<1>6. ASSUME listing # "no", NEW r \in Records \ DOMAIN touched' PROVE r \notin SavesIn(t)
  <2>1. parked[r] = {}
    BY <1>6 DEF MirrorInv, Replays
  <2> QED
    BY <2>1 DEF SavesIn, Copying, Listed
<1> QED
  BY <1>2, <1>3, <1>4, <1>5, <1>6, MirrorAdd

(* The calls that write these copies.                                        *)
LEMMA SavesCopy ==
  ASSUME NEW rs \in SUBSET Records, NEW copies
  PROVE  /\ IsCalls(Saves(rs, copies)) /\ Copying(Saves(rs, copies), rs, copies)
         /\ ListsIn(Saves(rs, copies)) = {} /\ SavesIn(Saves(rs, copies)) = Writable(rs)
<1>1. /\ Saves(rs, copies) = Written(Writable(rs), copies) /\ Writable(rs) \subseteq rs
      /\ IsCalls(Saves(rs, copies)) /\ ListsIn(Saves(rs, copies)) = {}
      /\ SavesIn(Saves(rs, copies)) = Writable(rs)
  BY SavesWritten, InSaves
<1> DEFINE t == Written(Writable(rs), copies)
<1>2. \A i \in 1..Len(t) : t[i].rec \in Writable(rs) /\ t[i].body = copies[t[i].rec]
  BY <1>1, WrittenCalls
<1> HIDE DEF t
<1>3. Copying(t, rs, copies)
  BY <1>1, <1>2 DEF Copying
<1> QED
  BY <1>1, <1>3 DEF t

(* No call but that of a save copies anything.                               *)
LEMMA NoneCopied ==
  ASSUME NEW t, SavesIn(t) = {}, NEW rs, NEW copies
  PROVE  Copying(t, rs, copies)
  BY DEF SavesIn, Copying

(* A step that adds calls of another kind, or none.                          *)
LEMMA MirrorBeside ==
  ASSUME MirrorInv, IsCalls(asked), NEW t, IsCalls(t), asked' = asked \o t,
         ListsIn(t) = {}, SavesIn(t) = {},
         \A r \in Records : disk'[r] \in {{}, disk[r]} /\ parked'[r] \in {{}, parked[r]},
         \A r \in Records : Waits(r) => r \in lost' \/ Waits(r)',
         lost \subseteq lost', TypedFiles', UNCHANGED <<mirror, touched, snap, listing>>
  PROVE  MirrorInv' /\ Forward
<1>1. Copying(t, Listed(parked), parked)
  BY NoneCopied
<1>2. \A r \in Records : Waits(r) => r \in SavesIn(t) \/ r \in lost' \/ Waits(r)'
  OBVIOUS
<1> QED
  BY <1>1, <1>2, MirrorFlushed

LEMMA NoCalls ==
  ASSUME NEW s, IsCalls(s)
  PROVE  s = s \o <<>>
<1>1. PICK X : s \in Seq(X)
  BY DEF IsCalls
<1> QED
  BY <1>1, ConcatEmptySeq

LEMMA MirrorSame ==
  ASSUME MirrorInv, IsCalls(asked), asked' = asked,
         \A r \in Records : disk'[r] \in {{}, disk[r]} /\ parked'[r] \in {{}, parked[r]},
         \A r \in Records : Waits(r) => r \in lost' \/ Waits(r)',
         lost \subseteq lost', TypedFiles', UNCHANGED <<mirror, touched, snap, listing>>
  PROVE  MirrorInv' /\ Forward
<1> DEFINE t == <<>>
<1>1. IsCalls(t) /\ SavesIn(t) = {} /\ ListsIn(t) = {}
  BY InNone
<1>2. asked' = asked \o t
  BY NoCalls
<1> HIDE DEF t
<1> QED
  BY <1>1, <1>2, MirrorBeside

(* Writing what is parked, all of it.                                        *)
LEMMA MirrorParked ==
  ASSUME MirrorInv, IsCalls(asked), asked' = asked \o Saves(Listed(parked), parked),
         parked' = Nothing,
         UNCHANGED <<mirror, touched, snap, listing, disk, lost, typing, wipedHeard>>
  PROVE  MirrorInv' /\ Forward
<1> DEFINE t == Saves(Listed(parked), parked)
<1>1. Listed(parked) \subseteq Records
  BY DEF Listed
<1>2. /\ IsCalls(t) /\ Copying(t, Listed(parked), parked)
      /\ ListsIn(t) = {} /\ SavesIn(t) = Writable(Listed(parked))
  BY <1>1, SavesCopy
<1>3. asked' = asked \o t
  OBVIOUS
<1> HIDE DEF t
<1>4. \A r \in Records : parked'[r] \in {{}, parked[r]} /\ disk'[r] \in {{}, disk[r]}
  BY NothingIsMap
<1>5. \A r \in Records : Waits(r) => r \in SavesIn(t)
  BY <1>2 DEF Waits, Writable, Listed
<1>6. TypedFiles'
  BY DEF MirrorInv, Copies, TypedFiles
<1> QED
  BY <1>2, <1>3, <1>4, <1>5, <1>6, MirrorFlushed

-----------------------------------------------------------------------------
(* The actions that change the mirror's copies.                              *)

(* What Upsert asks for: the new copy is written, parked or lost.              *)
Upserts(t, r, copy) ==
  /\ IsCalls(t) /\ asked' = asked \o t /\ WritesMirror(t) /\ SavesIn(t) \subseteq {r}
  /\ parked'[r] \in {{}, copy} /\ (parked'[r] # {} => r \notin SavesIn(t))
  /\ \A q \in Records : q # r => parked'[q] = parked[q]
  /\ r \in lost' \/ r \in SavesIn(t) \/ Waits(r)'

LEMMA UpsertCalls ==
  ASSUME IsMap(mirror), IsMap(parked), NEW r \in Records, NEW copy, copy # {}, Upsert(r, copy),
         IsCalls(asked), wipedHeard' = wipedHeard
  PROVE  \E t : Upserts(t, r, copy)
<1>1. /\ mirror' = [mirror EXCEPT ![r] = copy] /\ lost' = lost \cup ({r} \ Writable({r}))
  BY DEF Upsert
<1>2. mirror'[r] = copy
  BY <1>1 DEF IsMap
<1>3. CASE parked' = [parked EXCEPT ![r] = copy] /\ asked' = asked
  <2>1. parked'[r] = copy /\ \A q \in Records : q # r => parked'[q] = parked[q]
    BY <1>3 DEF IsMap
  <2>2. r \in lost' \/ Waits(r)'
    BY <1>1, <2>1 DEF Waits, Writable
  <2> DEFINE t == <<>>
  <2>3. IsCalls(t) /\ SavesIn(t) = {} /\ asked' = asked \o t
    BY <1>3, InNone, NoCalls
  <2> HIDE DEF t
  <2>4. WritesMirror(t)
    BY <2>3 DEF WritesMirror, SavesIn
  <2> QED
    BY <2>1, <2>2, <2>3, <2>4 DEF Upserts
<1>4. CASE parked[r] = {} /\ parked' = parked /\ asked' = asked \o Saves({r}, mirror')
  <2> DEFINE t == Saves({r}, mirror')
  <2>1. IsCalls(t) /\ Copying(t, {r}, mirror') /\ SavesIn(t) = Writable({r})
    BY SavesCopy
  <2>2. asked' = asked \o t
    BY <1>4
  <2> HIDE DEF t
  <2>3. SavesIn(t) \subseteq {r} /\ (r \in lost' \/ r \in SavesIn(t))
    BY <1>1, <2>1 DEF Writable
  <2>4. WritesMirror(t)
    BY <1>2, <2>1 DEF WritesMirror, Copying
  <2> QED
    BY <1>4, <2>1, <2>2, <2>3, <2>4 DEF Upserts
<1> QED
  BY <1>3, <1>4 DEF Upsert

LEMMA MirrorUpsert ==
  ASSUME MirrorInv, IsCalls(asked), IsMap(mirror), IsMap(parked),
         NEW r \in Records, NEW copy, copy # {}, mirror[r] \subseteq copy,
         mirror[r] # {} \/ SavesOf(r) = {}, Upsert(r, copy),
         listing = "no" => DOMAIN touched = {}, TypedFiles',
         UNCHANGED <<snap, disk, listing, wipedHeard>>
  PROVE  MirrorInv' /\ Forward
<1>1. /\ mirror' = [mirror EXCEPT ![r] = copy] /\ touched' = Touch(r, copy)
      /\ lost' = lost \cup ({r} \ Writable({r}))
  BY DEF Upsert
<1>2. mirror'[r] = copy /\ \A q \in Records : q # r => mirror'[q] = mirror[q]
  BY <1>1 DEF IsMap
<1>3. /\ DOMAIN touched \subseteq DOMAIN touched' /\ DOMAIN touched' \subseteq DOMAIN touched \cup {r}
      /\ \A q \in DOMAIN touched : q # r => touched'[q] = touched[q]
      /\ listing = "no" => DOMAIN touched' = {}
      /\ listing # "no" => r \in DOMAIN touched' /\ touched'[r] = copy
  BY <1>1, TouchedOne
<1>4. \A q \in Records : disk'[q] \in {{}, disk[q]} /\ Grows(q)
  BY <1>2 DEF Grows
<1>5. PICK t : Upserts(t, r, copy)
  BY UpsertCalls
<1>6. /\ IsCalls(t) /\ asked' = asked \o t /\ WritesMirror(t) /\ SavesIn(t) \subseteq {r}
      /\ parked'[r] \in {{}, copy} /\ \A q \in Records : q # r => parked'[q] = parked[q]
      /\ r \in lost' \/ r \in SavesIn(t) \/ Waits(r)'
  BY <1>5 DEF Upserts
<1>7. ASSUME NEW q \in Records PROVE Carried(q, t)
  <2>1. CASE q = r
    BY <1>6, <2>1 DEF Carried
  <2>2. CASE q # r
    <3>1. q \in lost \/ mirror[q] = {} \/ Sent(q) \/ Waits(q)
      BY DEF MirrorInv, OnItsWay
    <3>2. mirror'[q] = mirror[q] /\ parked'[q] = parked[q] /\ (q \in lost => q \in lost')
      BY <1>1, <1>2, <1>6, <2>2
    <3>3. Waits(q) => Waits(q)'
      BY <3>2 DEF Waits, Writable
    <3> QED
      BY <3>1, <3>2, <3>3 DEF Carried
  <2> QED
    BY <2>1, <2>2
<1>8. ASSUME NEW q \in Records
      PROVE  parked'[q] \in {{}, mirror'[q]} /\ (q \in DOMAIN touched' => touched'[q] = mirror'[q])
  <2>1. CASE q = r
    BY <1>2, <1>3, <1>6, <2>1
  <2>2. CASE q # r
    <3>1. parked[q] \in {{}, mirror[q]} /\ (q \in DOMAIN touched => touched[q] = mirror[q])
      BY DEF MirrorInv, Copies
    <3> QED
      BY <1>2, <1>3, <1>6, <2>2, <3>1
  <2> QED
    BY <2>1, <2>2
<1>9. Copies'
  BY <1>8 DEF Copies
<1>10. ASSUME listing # "no", NEW q \in Records \ DOMAIN touched'
       PROVE  /\ mirror'[q] = mirror[q] /\ parked'[q] \in {{}, parked[q]}
              /\ q \notin SavesIn(t) /\ (q \in lost => q \in lost')
  BY <1>1, <1>2, <1>3, <1>6, <1>10
<1> QED
  BY <1>3, <1>4, <1>6, <1>7, <1>9, <1>10, MirrorAdd

LEMMA MirrorDeleted ==
  ASSUME MirrorInv, IsCalls(asked), IsMap(mirror), NEW r \in Records, DeleteRecord(r),
         listing = "no" => DOMAIN touched = {}
  PROVE  MirrorInv' /\ Forward
<1>1. /\ mirror' = [mirror EXCEPT ![r] = {}] /\ parked' = Dropped({r})
      /\ touched' = Touch(r, {}) /\ asked' = Append(asked, DeleteCall(r))
      /\ typing' = [typing EXCEPT ![r] = {}]
      /\ UNCHANGED <<snap, disk, listing, wipedHeard, lost>>
  BY DEF DeleteRecord, restHistory, historyDisk
<1> DEFINE t == <<DeleteCall(r)>>
<1>2. asked' = asked \o t
  <2>1. PICK X : asked \in Seq(X)
    BY DEF IsCalls
  <2>2. asked \in Seq(X \cup {DeleteCall(r)}) /\ DeleteCall(r) \in X \cup {DeleteCall(r)}
    BY <2>1, SeqMonotonic
  <2> QED
    BY <1>1, <2>2, AppendIsConcat
<1>3. IsCalls(t) /\ SavesIn(t) = {}
  <2> DEFINE c == DeleteCall(r)
  <2>1. c.cmd # "save_record"
    BY DEF DeleteCall
  <2> HIDE DEF c
  <2>2. IsCalls(<<c>>) /\ SavesIn(<<c>>) = {}
    BY <2>1, InOne
  <2> QED
    BY <2>2 DEF c
<1> HIDE DEF t
<1>4. /\ mirror'[r] = {} /\ parked'[r] = {}
      /\ \A q \in Records : q # r => mirror'[q] = mirror[q] /\ parked'[q] = parked[q]
  <2>1. mirror'[r] = {} /\ \A q \in Records : q # r => mirror'[q] = mirror[q]
    BY <1>1 DEF IsMap
  <2>2. parked'[r] = {} /\ \A q \in Records : q # r => parked'[q] = parked[q]
    BY <1>1 DEF Dropped
  <2> QED
    BY <2>1, <2>2
<1>5. /\ DOMAIN touched \subseteq DOMAIN touched' /\ DOMAIN touched' \subseteq DOMAIN touched \cup {r}
      /\ \A q \in DOMAIN touched : q # r => touched'[q] = touched[q]
      /\ listing = "no" => DOMAIN touched' = {}
      /\ listing # "no" => r \in DOMAIN touched' /\ touched'[r] = {}
  BY <1>1, TouchedOne
<1>6. WritesMirror(t)
  BY <1>3 DEF WritesMirror, SavesIn
<1>7. \A q \in Records : disk'[q] \in {{}, disk[q]} /\ Grows(q)
  BY <1>1, <1>4 DEF Grows
<1>8. ASSUME NEW q \in Records PROVE Carried(q, t)
  <2>1. CASE q = r
    BY <1>4, <2>1 DEF Carried
  <2>2. CASE q # r
    <3>1. q \in lost \/ mirror[q] = {} \/ Sent(q) \/ Waits(q)
      BY DEF MirrorInv, OnItsWay
    <3>2. mirror'[q] = mirror[q] /\ parked'[q] = parked[q] /\ lost' = lost
      BY <1>1, <1>4, <2>2
    <3>3. Waits(q) => Waits(q)'
      BY <1>1, <3>2 DEF Waits, Writable
    <3> QED
      BY <3>1, <3>2, <3>3 DEF Carried
  <2> QED
    BY <2>1, <2>2
<1>9. TypedFiles'
  <2>1. IsMap(typing) /\ \A q \in Records : typing[q] # {} => q \in Files
    BY DEF MirrorInv, Copies, TypedFiles
  <2> QED
    BY <1>1, <2>1 DEF TypedFiles, IsMap
<1>10. ASSUME NEW q \in Records
       PROVE  parked'[q] \in {{}, mirror'[q]} /\ (q \in DOMAIN touched' => touched'[q] = mirror'[q])
  <2>1. parked[q] \in {{}, mirror[q]} /\ (q \in DOMAIN touched => touched[q] = mirror[q])
    BY DEF MirrorInv, Copies
  <2> QED
    BY <1>4, <1>5, <2>1
<1>11. Copies'
  BY <1>9, <1>10 DEF Copies
<1>12. ASSUME listing # "no", NEW q \in Records \ DOMAIN touched'
       PROVE  /\ mirror'[q] = mirror[q] /\ parked'[q] \in {{}, parked[q]}
              /\ q \notin SavesIn(t) /\ (q \in lost => q \in lost')
  BY <1>1, <1>3, <1>4, <1>5, <1>12
<1> QED
  BY <1>1, <1>2, <1>3, <1>5, <1>6, <1>7, <1>8, <1>11, <1>12, MirrorAdd

(* Calls among which only the first ones save.                               *)
LEMMA SavesBoth ==
  ASSUME NEW t, NEW u, IsCalls(t), IsCalls(u), SavesIn(u) = {}
  PROVE  /\ IsCalls(t \o u) /\ SavesIn(t) \subseteq SavesIn(t \o u)
         /\ \A rs, copies : Copying(t, rs, copies) => Copying(t \o u, rs, copies)
<1> DEFINE v == t \o u
<1>1. /\ IsCalls(v)
      /\ \A i \in 1..Len(t) : i \in 1..Len(v) /\ v[i] = t[i]
      /\ \A i \in 1..Len(v) :
           \/ i \in 1..Len(t) /\ v[i] = t[i]
           \/ i - Len(t) \in 1..Len(u) /\ v[i] = u[i - Len(t)]
  BY CallsConcat
<1> HIDE DEF v
<1>2. SavesIn(t) \subseteq SavesIn(v)
  BY <1>1 DEF SavesIn
<1>3. ASSUME NEW rs, NEW copies, Copying(t, rs, copies) PROVE Copying(v, rs, copies)
  <2>1. \A k \in 1..Len(u) : u[k].cmd # "save_record"
    BY DEF SavesIn
  <2>2. ASSUME NEW k \in 1..Len(v), v[k].cmd = "save_record"
        PROVE  v[k].rec \in rs /\ v[k].body = copies[v[k].rec]
    <3>1. k \in 1..Len(t) /\ v[k] = t[k]
      BY <1>1, <2>1, <2>2
    <3> QED
      BY <1>3, <2>2, <3>1 DEF Copying
  <2> QED
    BY <2>2 DEF Copying
<1> QED
  BY <1>1, <1>2, <1>3 DEF v

(* A flush of what is typed and parked: its copies, and its calls.              *)
LEMMA TypedCopies ==
  ASSUME Copies, mirror' = TypedMirror, NEW q \in Records
  PROVE  /\ q \in Typed => /\ mirror'[q] = mirror[q] \cup typing[q] /\ mirror[q] # {}
                           /\ TypedParked[q] = mirror'[q] /\ q \in Files
         /\ q \notin Typed => mirror'[q] = mirror[q] /\ TypedParked[q] = parked[q]
         /\ TypedParked[q] \in {{}, mirror'[q]}
<1>1. q \in Typed <=> typing[q] # {} /\ mirror[q] # {}
  BY DEF Typed
<1>2. TypedMirror[q] = IF q \in Typed THEN mirror[q] \cup typing[q] ELSE mirror[q]
  BY DEF TypedMirror
<1>3. TypedParked[q] = IF q \in Typed THEN TypedMirror[q] ELSE parked[q]
  BY DEF TypedParked
<1>4. parked[q] \in {{}, mirror[q]} /\ (typing[q] # {} => q \in Files)
  BY DEF Copies, TypedFiles
<1> QED
  BY <1>1, <1>2, <1>3, <1>4

FlushesAll(v) ==
  /\ IsCalls(v) /\ asked' = asked \o v /\ WritesMirror(v)
  /\ Writable(Listed(TypedParked)) \subseteq SavesIn(v) /\ SavesIn(v) \subseteq Listed(TypedParked)

LEMMA FlushAllCalls ==
  ASSUME Copies, IsCalls(asked), NEW quits, FlushAll(quits)
  PROVE  \E v : FlushesAll(v)
<1> DEFINE t == FlushHistoryCalls
           u == IF ready = "no" THEN <<>> ELSE FlushCalls(permitted)
           v == t \o u
<1>1. mirror' = TypedMirror /\ asked' = (asked \o t) \o u
  BY DEF FlushAll, FlushHistory
<1>2. /\ IsCalls(t) /\ Copying(t, Listed(TypedParked), TypedParked)
      /\ SavesIn(t) = Writable(Listed(TypedParked))
  <2>1. Listed(TypedParked) \subseteq Records
    BY DEF Listed
  <2> QED
    BY <2>1, SavesCopy DEF FlushHistoryCalls
<1>3. IsCalls(u) /\ SavesIn(u) = {}
  BY ConfigCalls, InNone
<1> HIDE DEF t, u
<1>4. /\ asked' = asked \o v /\ IsCalls(v) /\ SavesIn(t) \subseteq SavesIn(v)
      /\ Copying(v, Listed(TypedParked), TypedParked)
  <2>1. asked' = asked \o (t \o u)
    BY <1>1, <1>2, <1>3, Regrouped
  <2>2. /\ IsCalls(t \o u) /\ SavesIn(t) \subseteq SavesIn(t \o u)
        /\ \A rs, copies : Copying(t, rs, copies) => Copying(t \o u, rs, copies)
    BY <1>2, <1>3, SavesBoth
  <2> QED
    BY <1>2, <2>1, <2>2
<1> HIDE DEF v
<1>5. ASSUME NEW q \in Listed(TypedParked) PROVE TypedParked[q] = mirror'[q] /\ mirror'[q] # {}
  <2>1. q \in Records /\ TypedParked[q] # {}
    BY DEF Listed
  <2>2. TypedParked[q] \in {{}, mirror'[q]}
    BY <1>1, <2>1, TypedCopies
  <2> QED
    BY <2>1, <2>2
<1>6. WritesMirror(v)
  BY <1>4, <1>5 DEF WritesMirror, Copying
<1>7. SavesIn(v) \subseteq Listed(TypedParked)
  BY <1>4 DEF SavesIn, Copying
<1> QED
  BY <1>2, <1>4, <1>6, <1>7 DEF FlushesAll

LEMMA MirrorFlushAll ==
  ASSUME MirrorInv, IsCalls(asked), listing = "no" => DOMAIN touched = {},
         NEW quits, FlushAll(quits)
  PROVE  MirrorInv' /\ Forward
<1>1. /\ mirror' = TypedMirror /\ parked' = Nothing
      /\ touched' = (IF listing = "no" THEN touched ELSE TouchAll(TypedMirror, Typed))
      /\ typing' = Nothing
      /\ UNCHANGED <<snap, disk, listing, wipedHeard, lost>>
  BY DEF FlushAll, FlushHistory, historyDisk
<1>2. PICK v : FlushesAll(v)
  BY FlushAllCalls DEF MirrorInv
<1>3. /\ IsCalls(v) /\ asked' = asked \o v /\ WritesMirror(v)
      /\ Writable(Listed(TypedParked)) \subseteq SavesIn(v)
      /\ SavesIn(v) \subseteq Listed(TypedParked)
  BY <1>2 DEF FlushesAll
<1>4. ASSUME NEW q \in Records
      PROVE  /\ q \in Typed => /\ mirror'[q] = mirror[q] \cup typing[q] /\ mirror[q] # {}
                               /\ TypedParked[q] = mirror'[q] /\ q \in Files
             /\ q \notin Typed => mirror'[q] = mirror[q] /\ TypedParked[q] = parked[q]
  BY <1>1, TypedCopies DEF MirrorInv
<1>5. \A q \in Records : disk'[q] \in {{}, disk[q]} /\ Grows(q)
  BY <1>1, <1>4 DEF Grows
<1>6. ASSUME NEW q \in Records PROVE Carried(q, v)
  <2>1. CASE q \in Typed
    <3>1. TypedParked[q] # {} /\ q \notin Dictations
      BY <1>4, <2>1, RecordsAssumption
    <3>2. q \in SavesIn(v)
      BY <1>3, <3>1 DEF Writable, Listed
    <3> QED
      BY <3>2 DEF Carried
  <2>2. CASE q \notin Typed
    <3>1. q \in lost \/ mirror[q] = {} \/ Sent(q) \/ Waits(q)
      BY DEF MirrorInv, OnItsWay
    <3>2. Waits(q) => q \in SavesIn(v)
      BY <1>3, <1>4, <2>2 DEF Waits, Writable, Listed
    <3>3. mirror'[q] = mirror[q] /\ lost' = lost
      BY <1>1, <1>4, <2>2
    <3> QED
      BY <3>1, <3>2, <3>3 DEF Carried
  <2> QED
    BY <2>1, <2>2
<1>7. /\ DOMAIN touched \subseteq DOMAIN touched'
      /\ listing # "no" => DOMAIN touched' = Typed \cup DOMAIN touched
      /\ \A q \in DOMAIN touched' : touched'[q] = IF q \in Typed THEN mirror'[q] ELSE touched[q]
  <2>1. CASE listing = "no"
    BY <1>1, <2>1
  <2>2. CASE listing # "no"
    BY <1>1, <2>2 DEF TouchAll
  <2> QED
    BY <2>1, <2>2
<1>8. \A q \in DOMAIN touched' : q \notin Typed => q \in DOMAIN touched
  BY <1>1, <1>7
<1>9. \A q \in Records : parked'[q] = {} /\ typing'[q] = {}
  BY <1>1, NothingIsMap
<1>10. Copies'
  <2>1. TypedFiles'
    BY <1>1, <1>9, NothingIsMap DEF TypedFiles
  <2>2. ASSUME NEW q \in Records, q \in DOMAIN touched' PROVE touched'[q] = mirror'[q]
    <3>1. q \in DOMAIN touched => touched[q] = mirror[q]
      BY DEF MirrorInv, Copies
    <3> QED
      BY <1>4, <1>7, <1>8, <2>2, <3>1
  <2> QED
    BY <1>9, <2>1, <2>2 DEF Copies
<1>11. ASSUME listing # "no", NEW q \in Records \ DOMAIN touched'
       PROVE  /\ mirror'[q] = mirror[q] /\ parked'[q] \in {{}, parked[q]}
              /\ q \notin SavesIn(v) /\ (q \in lost => q \in lost')
  <2>1. q \notin Typed /\ q \notin DOMAIN touched
    BY <1>7, <1>11
  <2>2. parked[q] = {}
    BY <1>11, <2>1 DEF MirrorInv, Replays
  <2>3. q \notin SavesIn(v)
    BY <1>3, <1>4, <2>1, <2>2 DEF Listed
  <2> QED
    BY <1>1, <1>4, <1>9, <2>1, <2>3
<1> QED
  BY <1>1, <1>3, <1>5, <1>6, <1>7, <1>10, <1>11, MirrorAdd

-----------------------------------------------------------------------------
(* Listings.                                                                *)

LEMMA ListLast ==
  ASSUME IsCalls(asked), NEW t, IsCalls(t), asked' = asked \o (t \o <<ListCall>>)
  PROVE  \E j \in CallsOf("list")' : \A r : \A i \in SavesOf(r) : j > i
<1> DEFINE one == <<ListCall>>
           v == t \o one
<1>1. IsCalls(one) /\ Len(one) = 1 /\ one[1] = ListCall
  BY CallsOne
<1>2. asked' = asked \o v
  OBVIOUS
<1>3. ListCall.cmd = "list"
  BY DEF ListCall
<1> HIDE DEF one
<1>4. /\ IsCalls(v)
      /\ \A i \in 1..Len(one) : Len(t) + i \in 1..Len(v) /\ v[Len(t) + i] = one[i]
  <2>1. IsCalls(one)
    BY <1>1
  <2> QED
    BY <2>1, CallsConcat
<1> HIDE DEF v
<1>5. Len(asked) \in Nat /\ Len(t) \in Nat /\ Len(v) \in Nat
  BY <1>4, CallsShapes
<1> DEFINE k == Len(t) + 1
<1>6. k \in 1..Len(v) /\ v[k] = ListCall
  <2>1. 1 \in 1..Len(one)
    BY <1>1
  <2> QED
    BY <1>1, <1>4, <2>1
<1> HIDE DEF k
<1>7. \A i \in 1..Len(v) : Len(asked) + i \in 1..Len(asked') /\ asked'[Len(asked) + i] = v[i]
  BY <1>2, <1>4, CallsConcat
<1> DEFINE j == Len(asked) + k
<1>8. j \in 1..Len(asked') /\ asked'[j] = ListCall
  BY <1>6, <1>7
<1>9. j > Len(asked) /\ j \in Int
  BY <1>5, <1>6
<1> HIDE DEF j
<1>10. j \in CallsOf("list")'
  BY <1>3, <1>8 DEF CallsOf
<1>11. ASSUME NEW r, NEW i \in SavesOf(r) PROVE j > i
  <2>1. i \in 1..Len(asked)
    BY DEF SavesOf, CallsOf
  <2> QED
    BY <1>5, <1>9, <2>1
<1> QED
  BY <1>10, <1>11

(* A listing begins: what is still parked is written before it, and replayed.  *)
Begins(v, parks) ==
  /\ IsCalls(v) /\ asked' = asked \o v /\ WritesMirror(v)
  /\ Writable(Listed(parks)) \subseteq SavesIn(v) /\ SavesIn(v) \subseteq Listed(parks)
  /\ \E j \in CallsOf("list")' : \A r : \A i \in SavesOf(r) : j > i

LEMMA ListedCalls ==
  ASSUME Copies, IsCalls(asked), NEW parks, \A r \in Records : parks[r] \in {{}, parked[r]},
         asked' = asked \o Saves(Listed(parks), parks) \o <<ListCall>>, mirror' = mirror
  PROVE  \E v : Begins(v, parks)
<1> DEFINE t == Saves(Listed(parks), parks)
           u == <<ListCall>>
           v == t \o u
<1>1. /\ IsCalls(t) /\ Copying(t, Listed(parks), parks)
      /\ SavesIn(t) = Writable(Listed(parks))
  <2>1. Listed(parks) \subseteq Records
    BY DEF Listed
  <2> QED
    BY <2>1, SavesCopy
<1>2. asked' = (asked \o t) \o u
  OBVIOUS
<1> HIDE DEF t
<1>3. IsCalls(u) /\ SavesIn(u) = {}
  <2> DEFINE c == ListCall
  <2>1. c.cmd # "save_record"
    BY DEF ListCall
  <2> HIDE DEF c
  <2>2. IsCalls(<<c>>) /\ SavesIn(<<c>>) = {}
    BY <2>1, InOne
  <2> QED
    BY <2>2 DEF c
<1>4. \E j \in CallsOf("list")' : \A r : \A i \in SavesOf(r) : j > i
  <2>1. asked' = asked \o (t \o <<ListCall>>)
    <3>1. (asked \o t) \o u = asked \o (t \o u)
      BY <1>1, <1>3, Regrouped
    <3> QED
      BY <1>2, <3>1
  <2> QED
    BY <1>1, <2>1, ListLast
<1> HIDE DEF u
<1>5. /\ asked' = asked \o v /\ IsCalls(v) /\ SavesIn(t) \subseteq SavesIn(v)
      /\ Copying(v, Listed(parks), parks)
  <2>1. (asked \o t) \o u = asked \o (t \o u)
    BY <1>1, <1>3, Regrouped, SMTT(30)
  <2>2. /\ IsCalls(t \o u) /\ SavesIn(t) \subseteq SavesIn(t \o u)
        /\ \A rs, copies : Copying(t, rs, copies) => Copying(t \o u, rs, copies)
    BY <1>1, <1>3, SavesBoth
  <2> QED
    BY <1>1, <1>2, <2>1, <2>2
<1> HIDE DEF v
<1>6. \A r \in Listed(parks) : parks[r] = mirror'[r] /\ mirror'[r] # {}
  BY DEF Copies, Listed
<1>7. WritesMirror(v)
  <2>1. ASSUME NEW k \in 1..Len(v), v[k].cmd = "save_record"
        PROVE  v[k].body = mirror'[v[k].rec] /\ v[k].body # {}
    <3>1. v[k].rec \in Listed(parks) /\ v[k].body = parks[v[k].rec]
      BY <1>5, <2>1 DEF Copying
    <3> QED
      BY <1>6, <3>1
  <2> QED
    BY <2>1 DEF WritesMirror
<1>8. SavesIn(v) \subseteq Listed(parks)
  BY <1>5 DEF SavesIn, Copying
<1> QED
  BY <1>1, <1>4, <1>5, <1>7, <1>8 DEF Begins

LEMMA MirrorListed ==
  ASSUME MirrorInv, IsCalls(asked), listing = "no", NEW parks,
         \A r \in Records : parks[r] \in {{}, parked[r]},
         asked' = asked \o Saves(Listed(parks), parks) \o <<ListCall>>,
         parked' = Nothing, listing' = "asked", Listed(parks) \subseteq DOMAIN touched',
         \A r \in DOMAIN touched' : touched'[r] = IF mirror[r] # {} THEN mirror[r] ELSE parks[r],
         lost \subseteq lost',
         \A r \in Records : parked[r] # {} /\ parks[r] = {} => r \in lost',
         UNCHANGED <<mirror, disk, typing, wipedHeard>>
  PROVE  MirrorInv' /\ Forward
<1>1. PICK v : Begins(v, parks)
  BY ListedCalls DEF MirrorInv
<1>2. /\ IsCalls(v) /\ asked' = asked \o v /\ WritesMirror(v)
      /\ Writable(Listed(parks)) \subseteq SavesIn(v) /\ SavesIn(v) \subseteq Listed(parks)
      /\ \E j \in CallsOf("list")' : \A r : \A i \in SavesOf(r) : j > i
  BY <1>1 DEF Begins
<1>3. \A r \in Records : parked[r] \in {{}, mirror[r]} /\ parked'[r] = {}
  BY NothingIsMap DEF MirrorInv, Copies
<1>4. \A r \in Records : disk'[r] \in {{}, disk[r]} /\ Grows(r)
  BY DEF Grows
<1>5. ASSUME NEW r \in Records PROVE Carried(r, v)
  <2>1. r \in lost \/ mirror[r] = {} \/ Sent(r) \/ Waits(r)
    BY DEF MirrorInv, OnItsWay
  <2>2. Waits(r) => r \in lost' \/ r \in SavesIn(v)
    <3>1. CASE parks[r] = {}
      BY <3>1 DEF Waits
    <3>2. CASE parks[r] # {}
      BY <1>2, <3>2 DEF Waits, Writable, Listed
    <3> QED
      BY <3>1, <3>2
  <2> QED
    BY <2>1, <2>2 DEF Carried
<1>6. Rising' /\ OnItsWay' /\ Forward
  BY <1>2, <1>4, <1>5, MirrorCalls
<1>7. Copies'
  <2>1. TypedFiles'
    BY DEF MirrorInv, Copies, TypedFiles
  <2>2. \A r \in Records : r \in DOMAIN touched' => touched'[r] = mirror'[r]
    BY <1>3
  <2> QED
    BY <1>3, <2>1, <2>2 DEF Copies
<1>8. Replays'
  <2>1. ASSUME NEW r \in Records \ DOMAIN touched', NEW i \in SavesOf(r)'
        PROVE  \E j \in CallsOf("list")' : j > i
    <3>1. r \notin SavesIn(v)
      BY <1>2
    <3>2. \A k \in SavesOf(r)' : k \in SavesOf(r) \/ r \in SavesIn(v)
      BY <1>2, SavesMoved
    <3> QED
      BY <1>2, <3>1, <3>2
  <2> QED
    BY <1>3, <2>1 DEF Replays
<1>9. ReadIsNew'
  BY DEF ReadIsNew
<1> QED
  BY <1>6, <1>7, <1>8, <1>9 DEF MirrorInv

LEMMA MirrorLoad ==
  ASSUME MirrorInv, IsCalls(asked), NEW force, NEW parks, NEW kept,
         \A r \in Records : parks[r] \in {{}, parked[r]},
         LoadHistory(force, parks, kept), lost \subseteq lost',
         \A r \in Records : parked[r] # {} /\ parks[r] = {} => r \in lost',
         UNCHANGED <<mirror, snap, disk, typing, wipedHeard>>
  PROVE  MirrorInv' /\ Forward
<1>1. CASE parked' = parks /\ UNCHANGED <<asked, listing, touched>>
  <2>1. \A r \in Records : disk'[r] \in {{}, disk[r]} /\ parked'[r] \in {{}, parked[r]}
    BY <1>1
  <2>2. \A r \in Records : Waits(r) => r \in lost' \/ Waits(r)'
    BY <1>1 DEF Waits, Writable
  <2>3. TypedFiles'
    BY DEF MirrorInv, Copies, TypedFiles
  <2> QED
    BY <1>1, <2>1, <2>2, <2>3, MirrorSame
<1>2. CASE listing = "no" /\ ~(parked' = parks /\ UNCHANGED <<asked, listing, touched>>)
  <2> DEFINE seed == IF sessionOnly' THEN Listed(mirror) ELSE {}
  <2>1. /\ asked' = asked \o Saves(Listed(parks), parks) \o <<ListCall>>
        /\ parked' = Nothing /\ listing' = "asked"
        /\ touched' = [r \in Listed(parks) \cup seed |->
                         IF mirror[r] # {} THEN mirror[r] ELSE parks[r]]
    BY <1>2 DEF LoadHistory
  <2> HIDE DEF seed
  <2>2. /\ Listed(parks) \subseteq DOMAIN touched'
        /\ \A r \in DOMAIN touched' : touched'[r] = IF mirror[r] # {} THEN mirror[r] ELSE parks[r]
    BY <2>1
  <2> QED
    BY <1>2, <2>1, <2>2, MirrorListed
<1>3. listing = "no" \/ (parked' = parks /\ UNCHANGED <<asked, listing, touched>>)
  BY DEF LoadHistory
<1> QED
  BY <1>1, <1>2, <1>3

(* A listing's read finds every copy it will not replay, or a newer file.       *)
LEMMA MirrorListRan ==
  ASSUME MirrorInv, OneListing, listing = "running", asked' = asked,
         \/ snap' = disk /\ listing' = "read"
         \/ listing' = "unread",
         UNCHANGED <<mirror, parked, touched, disk, lost, typing, wipedHeard>>
  PROVE  MirrorInv' /\ Forward
<1> USE DEF MirrorInv
<1>1. CallsOf("list")' = CallsOf("list") /\ CallsOf("list") = {}
  BY DEF OneListing, CallsOf
<1>2. \A r : SavesOf(r)' = SavesOf(r)
  BY DEF SavesOf, CallsOf
<1>3. ASSUME NEW r \in Records \ DOMAIN touched PROVE parked[r] = {} /\ SavesOf(r) = {}
  BY <1>1 DEF Replays
<1>4. Copies'
  BY DEF Copies, TypedFiles
<1>5. Rising'
  BY <1>2 DEF Rising
<1>6. Replays'
  BY <1>2, <1>3 DEF Replays
<1>7. \A r : (Sent(r)' <=> Sent(r)) /\ (Waits(r)' <=> Waits(r))
  BY <1>2 DEF Sent, Waits, Writable
<1>8. OnItsWay'
  BY <1>7 DEF OnItsWay
<1>9. ASSUME snap' = disk, NEW r \in Records \ DOMAIN touched
      PROVE  r \in lost \/ mirror[r] = {} \/ snap'[r] = {} \/ mirror[r] \subseteq snap'[r]
  <2>1. ~Waits(r)
    BY <1>3 DEF Waits
  <2>2. Sent(r) => mirror[r] \subseteq disk[r] \/ disk[r] = {}
    BY <1>3 DEF Sent
  <2> QED
    BY <1>9, <2>1, <2>2 DEF OnItsWay
<1>10. ReadIsNew'
  BY <1>9 DEF ReadIsNew
<1>11. Forward
  BY DEF Forward
<1> QED
  BY <1>4, <1>5, <1>6, <1>8, <1>10, <1>11

(* Its answer replays the window's copies, and takes what it read for the rest.  *)
LEMMA MirrorListLanded ==
  ASSUME MirrorInv, OneListing, listing \in {"read", "unread"}, asked' = asked,
         listing' = "no", touched' = <<>>,
         \/ listing = "read" /\ mirror' = Replayed
         \/ mirror' = mirror,
         UNCHANGED <<parked, disk, lost, typing, wipedHeard>>
  PROVE  MirrorInv' /\ Forward
<1> USE DEF MirrorInv
<1>1. CallsOf("list") = {}
  BY DEF OneListing
<1>2. \A r : SavesOf(r)' = SavesOf(r)
  BY DEF SavesOf, CallsOf
<1>3. ASSUME NEW r \in Records \ DOMAIN touched PROVE parked[r] = {} /\ SavesOf(r) = {}
  BY <1>1 DEF Replays
<1>4. DOMAIN touched' = {}
  <2>1. DOMAIN <<>> = {}
    OBVIOUS
  <2> QED
    BY <2>1
<1>5. ASSUME NEW r \in Records
      PROVE  \/ mirror'[r] = mirror[r]
             \/ listing = "read" /\ r \notin DOMAIN touched /\ mirror'[r] = snap[r]
  <2>1. CASE mirror' = Replayed /\ r \in DOMAIN touched
    BY <2>1 DEF Replayed, Copies
  <2>2. CASE listing = "read" /\ mirror' = Replayed /\ r \notin DOMAIN touched
    BY <2>2 DEF Replayed
  <2> QED
    BY <2>1, <2>2
<1>6. ASSUME NEW r \in Records, mirror'[r] = snap[r], listing = "read", r \notin DOMAIN touched
      PROVE  /\ parked[r] = {} /\ SavesOf(r) = {}
             /\ mirror'[r] \subseteq disk[r] \/ disk[r] = {}
             /\ r \in lost \/ mirror[r] = {} \/ mirror'[r] = {} \/ mirror[r] \subseteq mirror'[r]
  BY <1>3, <1>6 DEF ReadIsNew
<1>7. Copies'
  <2>1. \A r \in Records : parked'[r] \in {{}, mirror'[r]}
    BY <1>5, <1>6 DEF Copies
  <2> QED
    BY <1>4, <2>1 DEF Copies, TypedFiles
<1>8. Rising'
  <2>1. ASSUME NEW r \in Records, NEW i \in SavesOf(r)'
        PROVE  /\ mirror'[r] = {} \/ asked'[i].body \subseteq mirror'[r]
               /\ \A j \in SavesOf(r)' : j > i => asked'[i].body \subseteq asked'[j].body
    <3>1. mirror'[r] = mirror[r]
      BY <1>2, <1>5, <1>6, <2>1
    <3> QED
      BY <1>2, <3>1 DEF Rising
  <2> QED
    BY <2>1 DEF Rising
<1>9. Replays'
  BY DEF Replays
<1>10. OnItsWay'
  <2>1. ASSUME NEW r \in Records \ lost, mirror'[r] # {} PROVE Sent(r)' \/ Waits(r)'
    <3>1. CASE mirror'[r] = mirror[r]
      <4>1. (Sent(r) => Sent(r)') /\ (Waits(r) => Waits(r)')
        BY <1>2, <3>1 DEF Sent, Waits, Writable
      <4> QED
        BY <2>1, <3>1, <4>1 DEF OnItsWay
    <3>2. CASE mirror'[r] # mirror[r]
      BY <1>2, <1>5, <1>6, <3>2 DEF Sent
    <3> QED
      BY <3>1, <3>2
  <2> QED
    BY <2>1 DEF OnItsWay
<1>11. ReadIsNew'
  BY DEF ReadIsNew
<1>12. Forward
  BY <1>5, <1>6 DEF Forward
<1> QED
  BY <1>7, <1>8, <1>9, <1>10, <1>11, <1>12

-----------------------------------------------------------------------------
(* The calls that arrive.                                                   *)

IsSaveOf(r) == Head(asked).cmd = "save_record" /\ Head(asked).rec = r

LEMMA MirrorTaken ==
  ASSUME MirrorInv, OneListing, IsCalls(asked), asked # <<>>, asked' = Tail(asked),
         \A r \in Records : ~IsSaveOf(r) => disk'[r] = disk[r] /\ (r \in lost' <=> r \in lost),
         \A r \in Records : IsSaveOf(r) =>
           \/ r \in lost'
           \/ disk'[r] = Head(asked).body /\ (r \in lost => Head(asked).body = mirror[r]),
         \/ listing' = listing
         \/ Head(asked).cmd = "list" /\ listing' = "running",
         UNCHANGED <<mirror, parked, touched, snap, typing, wipedHeard>>
  PROVE  MirrorInv' /\ Forward
<1> USE DEF MirrorInv
<1>1. ASSUME NEW r
      PROVE  /\ \A i \in SavesOf(r)' : /\ i \in Int /\ i + 1 \in SavesOf(r)
                                       /\ asked'[i] = asked[i + 1]
             /\ \A i \in SavesOf(r) :
                  \/ i = 1 /\ IsSaveOf(r)
                  \/ i - 1 \in SavesOf(r)' /\ asked'[i - 1] = asked[i]
             /\ IsSaveOf(r) => 1 \in SavesOf(r) /\ asked[1] = Head(asked) /\ \A i \in SavesOf(r)' : i + 1 > 1
  BY SavesShifted DEF IsSaveOf
<1>2. \A i \in CallsOf("list") : i \in Int /\ (i > 1 => i - 1 \in CallsOf("list")')
  BY SavesShifted
<1>3. /\ Head(asked).cmd = "list" => listing = "asked"
      /\ listing' = "read" => listing = "read" /\ CallsOf("list") = {}
      /\ listing' # "no" => listing # "no"
  <2>1. Head(asked).cmd = "list" => 1 \in CallsOf("list")
    BY CallsTaken
  <2> QED
    BY <2>1 DEF OneListing
<1>4. Copies'
  BY DEF Copies, TypedFiles
<1>5. ASSUME NEW r \in Records, NEW i \in SavesOf(r)'
      PROVE  /\ mirror'[r] = {} \/ asked'[i].body \subseteq mirror'[r]
             /\ \A j \in SavesOf(r)' : j > i => asked'[i].body \subseteq asked'[j].body
  <2>1. i \in Int /\ i + 1 \in SavesOf(r) /\ asked'[i] = asked[i + 1]
    BY <1>1
  <2>2. ASSUME NEW j \in SavesOf(r)', j > i PROVE asked'[i].body \subseteq asked'[j].body
    <3>1. j \in Int /\ j + 1 \in SavesOf(r) /\ asked'[j] = asked[j + 1]
      BY <1>1
    <3>2. j + 1 > i + 1
      BY <2>1, <2>2, <3>1
    <3> DEFINE k == i + 1
               l == j + 1
    <3>3. k \in SavesOf(r) /\ l \in SavesOf(r) /\ l > k /\ asked'[i] = asked[k] /\ asked'[j] = asked[l]
      BY <2>1, <3>1, <3>2
    <3> HIDE DEF k, l
    <3>4. asked[k].body \subseteq asked[l].body
      BY <3>3 DEF Rising
    <3> QED
      BY <3>3, <3>4
  <2> QED
    BY <2>1, <2>2 DEF Rising
<1>6. Rising'
  BY <1>5 DEF Rising
<1>7. Replays'
  <2>1. ASSUME listing # "no", NEW r \in Records \ DOMAIN touched, NEW i \in SavesOf(r)'
        PROVE  \E j \in CallsOf("list")' : j > i
    <3>1. i \in Int /\ i + 1 \in SavesOf(r)
      BY <1>1
    <3>2. PICK j \in CallsOf("list") : j > i + 1
      BY <2>1, <3>1 DEF Replays
    <3>3. i + 1 >= 1
      BY <3>1 DEF SavesOf, CallsOf
    <3>4. j \in Int /\ j > 1 /\ j - 1 > i
      BY <1>2, <3>1, <3>2, <3>3
    <3> QED
      BY <1>2, <3>4
  <2> QED
    BY <1>3, <2>1 DEF Replays
<1>8. ASSUME NEW r \in Records \ lost', mirror[r] # {}, ~Waits(r) PROVE Sent(r)'
  <2>1. CASE ~IsSaveOf(r)
    <3>1. r \notin lost /\ disk'[r] = disk[r]
      BY <1>8, <2>1
    <3>2. Sent(r)
      BY <1>8, <3>1 DEF OnItsWay
    <3>3. CASE \E i \in SavesOf(r) : asked[i].body = mirror[r]
      <4>1. PICK i \in SavesOf(r) : asked[i].body = mirror[r]
        BY <3>3
      <4>2. i - 1 \in SavesOf(r)' /\ asked'[i - 1] = asked[i]
        BY <1>1, <2>1
      <4> QED
        BY <4>1, <4>2 DEF Sent
    <3>4. CASE SavesOf(r) = {} /\ (mirror[r] \subseteq disk[r] \/ disk[r] = {})
      BY <1>1, <3>1, <3>4 DEF Sent
    <3> QED
      BY <3>2, <3>3, <3>4 DEF Sent
  <2>2. CASE IsSaveOf(r)
    <3>1. /\ disk'[r] = Head(asked).body /\ (r \in lost => Head(asked).body = mirror[r])
          /\ 1 \in SavesOf(r) /\ asked[1] = Head(asked) /\ \A i \in SavesOf(r)' : i + 1 > 1
      BY <1>1, <1>8, <2>2
    <3>2. CASE Head(asked).body = mirror[r]
      <4>1. CASE SavesOf(r)' = {}
        BY <3>1, <3>2, <4>1 DEF Sent
      <4>2. ASSUME NEW i \in SavesOf(r)' PROVE Sent(r)'
        <5>1. i \in Int /\ i + 1 \in SavesOf(r) /\ asked'[i] = asked[i + 1] /\ i + 1 > 1
          BY <1>1, <3>1, <4>2
        <5> DEFINE k == i + 1
        <5>2. k \in SavesOf(r) /\ k > 1 /\ asked'[i] = asked[k]
          BY <5>1
        <5> HIDE DEF k
        <5>3. asked[1].body \subseteq asked[k].body /\ asked[k].body \subseteq mirror[r]
          BY <1>8, <3>1, <5>2 DEF Rising
        <5>4. asked[k].body = mirror[r]
          BY <3>1, <3>2, <5>3
        <5>5. asked'[i].body = mirror'[r]
          BY <5>2, <5>4
        <5> QED
          BY <4>2, <5>5 DEF Sent
      <4> QED
        BY <4>1, <4>2
    <3>3. CASE Head(asked).body # mirror[r]
      <4>1. Sent(r)
        BY <1>8, <3>1, <3>3 DEF OnItsWay
      <4>2. PICK i \in SavesOf(r) : asked[i].body = mirror[r]
        BY <3>1, <4>1 DEF Sent
      <4>3. i # 1
        BY <3>1, <3>3, <4>2
      <4>4. i - 1 \in SavesOf(r)' /\ asked'[i - 1] = asked[i]
        BY <1>1, <4>2, <4>3
      <4> QED
        BY <4>2, <4>4 DEF Sent
    <3> QED
      BY <3>2, <3>3
  <2> QED
    BY <2>1, <2>2
<1>9. OnItsWay'
  <2>1. \A r : Waits(r)' <=> Waits(r)
    BY DEF Waits, Writable
  <2> QED
    BY <1>8, <2>1 DEF OnItsWay
<1>10. ReadIsNew'
  <2>1. ASSUME listing = "read", CallsOf("list") = {}, NEW r \in Records \ DOMAIN touched
        PROVE  /\ snap'[r] \subseteq disk'[r] \/ disk'[r] = {}
               /\ r \in lost' \/ mirror'[r] = {} \/ snap'[r] = {} \/ mirror'[r] \subseteq snap'[r]
    <3>1. SavesOf(r) = {}
      BY <2>1 DEF Replays
    <3>2. ~IsSaveOf(r)
      BY <1>1, <3>1
    <3>3. disk'[r] = disk[r] /\ (r \in lost' <=> r \in lost)
      BY <3>2
    <3> QED
      BY <2>1, <3>3 DEF ReadIsNew
  <2> QED
    BY <1>3, <2>1 DEF ReadIsNew
<1>11. Forward
  BY DEF Forward
<1> QED
  BY <1>4, <1>6, <1>7, <1>9, <1>10, <1>11

LEMMA MirrorSaved ==
  ASSUME MirrorInv, OneListing, IsCalls(asked), IsMap(disk), SaveRecord
  PROVE  MirrorInv' /\ Forward
<1> DEFINE c == Head(asked)
<1>1. /\ asked # <<>> /\ c.cmd = "save_record" /\ asked' = Tail(asked) /\ listing' = listing
      /\ UNCHANGED <<mirror, parked, touched, snap, typing, wipedHeard>>
      /\ \/ disk' = [disk EXCEPT ![c.rec] = c.body] /\ lost' = lost \ {r \in {c.rec} : c.body = mirror[r]}
         \/ disk' = disk /\ lost' = lost \cup {c.rec}
  BY DEF SaveRecord, Arrives
<1>2. ASSUME NEW r \in Records, ~IsSaveOf(r)
      PROVE  disk'[r] = disk[r] /\ (r \in lost' <=> r \in lost)
  <2>1. r # c.rec
    BY <1>1, <1>2 DEF IsSaveOf
  <2> HIDE DEF c
  <2> QED
    BY <1>1, <2>1 DEF IsMap
<1>3. ASSUME NEW r \in Records, IsSaveOf(r)
      PROVE  r \in lost' \/ (disk'[r] = c.body /\ (r \in lost => c.body = mirror[r]))
  <2>1. r = c.rec
    BY <1>3 DEF IsSaveOf
  <2> HIDE DEF c
  <2> QED
    BY <1>1, <2>1 DEF IsMap
<1> QED
  BY <1>1, <1>2, <1>3, MirrorTaken

(* Another call arrives.                                                    *)
LEMMA MirrorTook ==
  ASSUME MirrorInv, OneListing, IsCalls(asked), asked # <<>>, asked' = Tail(asked),
         Head(asked).cmd # "save_record",
         \/ listing' = listing
         \/ Head(asked).cmd = "list" /\ listing' = "running",
         UNCHANGED <<mirror, parked, touched, snap, typing, wipedHeard, disk, lost>>
  PROVE  MirrorInv' /\ Forward
<1>1. \A r : ~IsSaveOf(r)
  BY DEF IsSaveOf
<1> QED
  BY <1>1, MirrorTaken

-----------------------------------------------------------------------------
(* The actions of History.                                                  *)

LEMMA MirrorWrites ==
  ASSUME MirrorInv, DeletesInv, IsCalls(asked), NEW r \in Records,
         \/ EditRecord(r) \/ AddRecord(r) \/ TypeEdit(r) \/ TypingTimer(r) \/ CoalesceTimer(r)
  PROVE  MirrorInv' /\ Forward
<1>1. /\ IsMap(mirror) /\ IsMap(parked) /\ (listing = "no" => DOMAIN touched = {})
      /\ IsMap(typing) /\ \A q \in Records : typing[q] # {} => q \in Files
  BY ParkedLives DEF DeletesInv, RecordsShape, MirrorInv, Copies, TypedFiles
<1>2. typing' = typing => TypedFiles'
  BY <1>1 DEF TypedFiles
<1>3. ASSUME NEW copy, copy # {}, mirror[r] \subseteq copy, mirror[r] # {} \/ SavesOf(r) = {},
             Upsert(r, copy), TypedFiles', UNCHANGED <<snap, disk, listing, wipedHeard>>
      PROVE  MirrorInv' /\ Forward
  BY <1>1, <1>3, MirrorUpsert
<1>4. ASSUME asked' = asked, TypedFiles',
             UNCHANGED <<disk, parked, lost, wipedHeard, mirror, touched, snap, listing>>
      PROVE  MirrorInv' /\ Forward
  <2>1. \A q \in Records : Waits(q) => Waits(q)'
    BY <1>4 DEF Waits, Writable
  <2>2. \A q \in Records : disk'[q] \in {{}, disk[q]} /\ parked'[q] \in {{}, parked[q]}
    BY <1>4
  <2> QED
    BY <1>4, <2>1, <2>2, MirrorSame
<1>5. CASE EditRecord(r)
  <2> DEFINE copy == mirror[r] \cup {Edit}
  <2>1. /\ mirror[r] # {} /\ Upsert(r, copy) /\ typing' = typing
        /\ UNCHANGED <<snap, disk, listing, wipedHeard>>
    BY <1>5 DEF EditRecord, restHistory, historyDisk
  <2>2. copy # {} /\ mirror[r] \subseteq copy
    OBVIOUS
  <2> HIDE DEF copy
  <2> QED
    BY <1>2, <1>3, <2>1, <2>2
<1>6. CASE AddRecord(r)
  <2> DEFINE copy == {Edit}
  <2>1. /\ r \notin born /\ Upsert(r, copy) /\ typing' = typing
        /\ UNCHANGED <<snap, disk, listing, wipedHeard>>
    BY <1>6 DEF AddRecord, restHistory, historyDisk
  <2>2. mirror[r] = {} /\ r \notin Saved
    BY <2>1 DEF DeletesInv, BornFirst, Blank
  <2>3. SavesOf(r) = {}
    BY <2>2 DEF Saved, SavesOf
  <2>4. copy # {}
    OBVIOUS
  <2> HIDE DEF copy
  <2> QED
    BY <1>2, <1>3, <2>1, <2>2, <2>3, <2>4
<1>7. CASE TypeEdit(r)
  <2>1. /\ r \in Files /\ typing' = [typing EXCEPT ![r] = @ \cup {Edit}] /\ asked' = asked
        /\ UNCHANGED <<disk, parked, lost, wipedHeard, mirror, touched, snap, listing>>
    BY <1>7 DEF TypeEdit, restHistory, historyDisk
  <2>2. TypedFiles'
    BY <1>1, <2>1 DEF TypedFiles, IsMap
  <2> QED
    BY <1>4, <2>1, <2>2
<1>8. CASE TypingTimer(r)
  <2> DEFINE copy == mirror[r] \cup typing[r]
  <2>1. /\ typing[r] # {} /\ typing' = [typing EXCEPT ![r] = {}]
        /\ \/ mirror[r] = {} /\ UNCHANGED <<asked, mirror, parked, touched, lost>>
           \/ mirror[r] # {} /\ Upsert(r, copy)
        /\ UNCHANGED <<snap, disk, listing, wipedHeard>>
    BY <1>8 DEF TypingTimer, restHistory, historyDisk
  <2>2. TypedFiles'
    BY <1>1, <2>1 DEF TypedFiles, IsMap
  <2>3. copy # {} /\ mirror[r] \subseteq copy
    BY <2>1
  <2> HIDE DEF copy
  <2> QED
    BY <1>3, <1>4, <2>1, <2>2, <2>3
<1>9. CASE CoalesceTimer(r)
  <2> DEFINE t == Saves({r}, parked)
  <2>1. /\ parked[r] # {} /\ parked' = [parked EXCEPT ![r] = {}] /\ asked' = asked \o t
        /\ UNCHANGED <<mirror, touched, snap, listing, disk, lost, typing, wipedHeard>>
    BY <1>9 DEF CoalesceTimer, restHistory, historyDisk
  <2>2. IsCalls(t) /\ Copying(t, {r}, parked) /\ ListsIn(t) = {} /\ SavesIn(t) = Writable({r})
    BY SavesCopy
  <2> HIDE DEF t
  <2>3. Copying(t, Listed(parked), parked)
    BY <2>1, <2>2 DEF Copying, Listed
  <2>4. \A q \in Records : parked'[q] = IF q = r THEN {} ELSE parked[q]
    BY <1>1, <2>1 DEF IsMap
  <2>5. ASSUME NEW q \in Records, Waits(q) PROVE q \in SavesIn(t) \/ Waits(q)'
    BY <2>1, <2>2, <2>4, <2>5 DEF Waits, Writable
  <2>6. \A q \in Records : disk'[q] \in {{}, disk[q]} /\ parked'[q] \in {{}, parked[q]}
    BY <2>1, <2>4
  <2> QED
    BY <1>2, <2>1, <2>2, <2>3, <2>5, <2>6, MirrorFlushed
<1> QED
  BY <1>5, <1>6, <1>7, <1>8, <1>9

LEMMA MirrorLists ==
  ASSUME MirrorInv, DeletesInv, IsCalls(asked),
         OpenHistory \/ Chained \/ ListArrives \/ ListRuns \/ ListLands
  PROVE  MirrorInv' /\ Forward
<1>1. OneListing
  BY DEF DeletesInv
<1>2. CASE OpenHistory
  <2>1. /\ LoadHistory(FALSE, parked, stamped)
        /\ UNCHANGED <<mirror, snap, disk, typing, wipedHeard, lost>>
    BY <1>2 DEF OpenHistory, historyDisk
  <2>2. \A r \in Records : parked[r] \in {{}, parked[r]}
    OBVIOUS
  <2> QED
    BY <2>1, <2>2, MirrorLoad
<1>3. CASE Chained
  <2>1. /\ listing = "no" /\ asked' = asked \o Saves(Listed(parked), parked) \o <<ListCall>>
        /\ parked' = Nothing /\ listing' = "asked"
        /\ touched' = [r \in Listed(parked) |-> IF mirror[r] # {} THEN mirror[r] ELSE parked[r]]
        /\ UNCHANGED <<mirror, disk, typing, wipedHeard, lost>>
    BY <1>3 DEF Chained, ChainDue, historyDisk
  <2>2. \A r \in Records : parked[r] \in {{}, parked[r]}
    OBVIOUS
  <2>3. /\ Listed(parked) \subseteq DOMAIN touched'
        /\ \A r \in DOMAIN touched' : touched'[r] = IF mirror[r] # {} THEN mirror[r] ELSE parked[r]
    BY <2>1
  <2> QED
    BY <2>1, <2>2, <2>3, MirrorListed
<1>4. CASE ListArrives
  <2>1. /\ asked # <<>> /\ Head(asked).cmd = "list" /\ asked' = Tail(asked)
        /\ listing' = "running"
        /\ UNCHANGED <<mirror, parked, touched, snap, typing, wipedHeard, disk, lost>>
    BY <1>4 DEF ListArrives, Arrives, restWindow, historyDisk
  <2>2. Head(asked).cmd # "save_record"
    BY <2>1
  <2> QED
    BY <1>1, <2>1, <2>2, MirrorTook
<1>5. CASE ListRuns
  <2>1. /\ listing = "running" /\ asked' = asked
        /\ \/ snap' = disk /\ listing' = "read"
           \/ listing' = "unread"
        /\ UNCHANGED <<mirror, parked, touched, disk, lost, typing, wipedHeard>>
    BY <1>5 DEF ListRuns, restWindow, historyDisk
  <2> QED
    BY <1>1, <2>1, MirrorListRan
<1>6. CASE ListLands
  <2>1. /\ listing \in {"read", "unread"} /\ asked' = asked /\ listing' = "no"
        /\ touched' = <<>>
        /\ \/ listing = "read" /\ mirror' = Replayed
           \/ mirror' = mirror
        /\ UNCHANGED <<parked, disk, lost, typing, wipedHeard>>
    BY <1>6 DEF ListLands, callVars, historyDisk
  <2> QED
    BY <1>1, <2>1, MirrorListLanded
<1> QED
  BY <1>2, <1>3, <1>4, <1>5, <1>6

LEMMA MirrorRuns ==
  ASSUME MirrorInv, DeletesInv, IsCalls(asked), NEW r \in Records, DeleteRuns(r)
  PROVE  MirrorInv' /\ Forward
<1>1. UNCHANGED <<mirror, touched, snap, listing, lost, typing, wipedHeard>>
  BY DEF DeleteRuns
<1>2. CASE disk' = [disk EXCEPT ![r] = {}] /\ UNCHANGED <<asked, parked>>
  <2>1. \A q \in Records : disk'[q] \in {{}, disk[q]} /\ parked'[q] \in {{}, parked[q]}
    BY <1>2 DEF DeletesInv, RecordsShape, IsMap
  <2>2. \A q \in Records : Waits(q) => Waits(q)'
    BY <1>1, <1>2 DEF Waits, Writable
  <2>3. TypedFiles'
    BY <1>1 DEF MirrorInv, Copies, TypedFiles
  <2> QED
    BY <1>1, <1>2, <2>1, <2>2, <2>3, MirrorSame
<1>3. CASE asked' = asked \o Saves(Listed(parked), parked) /\ parked' = Nothing /\ disk' = disk
  BY <1>1, <1>3, MirrorParked
<1> QED
  BY <1>2, <1>3 DEF DeleteRuns

(* What was parked is written, or waits on, or is lost.                       *)
Flushes(t) ==
  /\ IsCalls(t) /\ asked' = asked \o t /\ ListsIn(t) = {}
  /\ Copying(t, Listed(parked), parked) /\ lost \subseteq lost'
  /\ \A r \in Records : /\ parked'[r] \in {{}, parked[r]}
                        /\ Waits(r) => r \in SavesIn(t) \/ r \in lost' \/ Waits(r)'
                        /\ parked'[r] # {} => r \notin SavesIn(t)

LEMMA HeardCalls ==
  ASSUME IsCalls(asked), NEW keep, HearSweep(keep)
  PROVE  \E t : Flushes(t)
<1> DEFINE drops == Head(swept) /\ ~keep
           parks == IF drops THEN Dropped(Dictations) ELSE parked
           rs == IF wipedHeard \/ drops THEN Listed(parks) \ Dictations ELSE Listed(parks)
           t == Written(rs, parks)
<1>1. /\ asked' = asked \o t /\ rs \in SUBSET Records /\ parked' = Nothing
      /\ lost' = lost \cup (IF drops THEN {r \in Dictations : parked[r] # {}} ELSE {})
  BY DEF HearSweep, Written, Listed
<1>2. \A r \in Listed(parks) : r \in Listed(parked) /\ parks[r] = parked[r]
  BY DEF Dropped, Listed
<1>3. /\ IsCalls(t) /\ SavesIn(t) = rs /\ ListsIn(t) = {}
      /\ \A i \in 1..Len(t) : t[i].rec \in rs /\ t[i].body = parks[t[i].rec]
  <2>1. IsCalls(t) /\ SavesIn(t) = rs /\ ListsIn(t) = {}
    BY <1>1, InWritten
  <2>2. rs \in SUBSET Records
    BY <1>1
  <2> HIDE DEF drops, parks, rs
  <2>3. \A i \in 1..Len(t) : t[i].rec \in rs /\ t[i].body = parks[t[i].rec]
    BY <2>2, WrittenCalls
  <2> QED
    BY <2>1, <2>3
<1>4. rs \subseteq Listed(parks)
  OBVIOUS
<1>5. ASSUME NEW r \in Records, Waits(r) PROVE r \in rs \/ r \in lost'
  <2>1. CASE drops /\ r \in Dictations
    BY <1>1, <1>5, <2>1 DEF Waits
  <2>2. CASE ~(drops /\ r \in Dictations)
    <3>1. parks[r] = parked[r] /\ parked[r] # {}
      BY <1>5, <2>2 DEF Waits, Dropped
    <3>2. r \in Listed(parks)
      BY <3>1 DEF Listed
    <3>3. (wipedHeard \/ drops) => r \notin Dictations
      BY <1>5, <2>2 DEF Waits, Writable
    <3> QED
      BY <3>2, <3>3
  <2> QED
    BY <2>1, <2>2
<1> HIDE DEF drops, parks, rs, t
<1>6. Copying(t, Listed(parked), parked)
  BY <1>2, <1>3, <1>4 DEF Copying
<1>7. \A r \in Records : parked'[r] = {}
  BY <1>1, NothingIsMap
<1> QED
  BY <1>1, <1>3, <1>5, <1>6, <1>7 DEF Flushes

LEMMA MirrorHeard ==
  ASSUME MirrorInv, IsCalls(asked), NEW keep, HearSweep(keep)
  PROVE  MirrorInv' /\ Forward
<1>1. UNCHANGED <<mirror, snap, touched, disk, listing, typing>>
  BY DEF HearSweep
<1>2. PICK t : Flushes(t)
  BY HeardCalls
<1>3. TypedFiles'
  BY <1>1 DEF MirrorInv, Copies, TypedFiles
<1> QED
  BY <1>1, <1>2, <1>3, MirrorFlushed DEF Flushes

(* A step that leaves all this alone, but that the disk may lose.              *)
LEMMA MirrorSwept ==
  ASSUME MirrorInv, IsCalls(asked), asked' = asked,
         \A r \in Records : disk'[r] \in {{}, disk[r]}, wipedHeard' => wipedHeard,
         UNCHANGED <<mirror, parked, snap, touched, listing, lost, typing>>
  PROVE  MirrorInv' /\ Forward
<1>1. \A r \in Records : disk'[r] \in {{}, disk[r]} /\ parked'[r] \in {{}, parked[r]}
  OBVIOUS
<1>2. \A r \in Records : Waits(r) => Waits(r)'
  BY DEF Waits, Writable
<1>3. TypedFiles'
  BY DEF MirrorInv, Copies, TypedFiles
<1> QED
  BY <1>1, <1>2, <1>3, MirrorSame

LEMMA MirrorWiped ==
  ASSUME MirrorInv, DeletesInv, IsCalls(asked),
         AskWipe \/ WipeArrives \/ WipeRuns \/ WipeFails \/ WipeAnswered \/ RunSweep
  PROVE  MirrorInv' /\ Forward
<1>1. CASE AskWipe
  <2>1. /\ asked' = asked \o Saves(Listed(parked), parked) /\ parked' = Nothing
        /\ UNCHANGED <<mirror, touched, snap, listing, disk, lost, typing, wipedHeard>>
    BY <1>1 DEF AskWipe, historyDisk
  <2> QED
    BY <2>1, MirrorParked
<1>2. CASE WipeArrives
  <2>1. /\ asked # <<>> /\ Head(asked).cmd = "wipe" /\ asked' = Tail(asked) /\ listing' = listing
        /\ UNCHANGED <<mirror, parked, touched, snap, typing, wipedHeard, disk, lost>>
    BY <1>2 DEF WipeArrives, Arrives, restWindow, historyDisk
  <2>2. Head(asked).cmd # "save_record" /\ OneListing
    BY <2>1 DEF DeletesInv
  <2> QED
    BY <2>1, <2>2, MirrorTook
<1>3. CASE WipeRuns
  <2>1. /\ asked' = asked /\ disk' = [r \in Records |-> IF r \in Dictations THEN {} ELSE disk[r]]
        /\ UNCHANGED <<mirror, parked, snap, touched, listing, lost, typing, wipedHeard>>
    BY <1>3 DEF WipeRuns, callVars, restWindow
  <2>2. \A r \in Records : disk'[r] \in {{}, disk[r]}
    BY <2>1
  <2> QED
    BY <2>1, <2>2, MirrorSwept
<1>4. CASE WipeFails
  <2>1. /\ asked' = asked /\ disk' = disk
        /\ UNCHANGED <<mirror, parked, snap, touched, listing, lost, typing, wipedHeard>>
    BY <1>4 DEF WipeFails, restWindow, historyDisk
  <2> QED
    BY <2>1, MirrorSwept
<1>5. CASE WipeAnswered
  <2> DEFINE drop == IF wipe = "wiped" THEN preWipe ELSE {}
             parks == Dropped(drop)
  <2>1. /\ LoadHistory(TRUE, parks, Unstamped(drop))
        /\ lost' = lost \cup {r \in drop : parked[r] # {}}
        /\ UNCHANGED <<mirror, snap, disk, typing, wipedHeard>>
    BY <1>5 DEF WipeAnswered, historyDisk
  <2>2. \A r \in Records : parks[r] = IF r \in drop THEN {} ELSE parked[r]
    BY DEF Dropped
  <2> HIDE DEF parks, drop
  <2>3. \A r \in Records : /\ parks[r] \in {{}, parked[r]}
                           /\ parked[r] # {} /\ parks[r] = {} => r \in lost'
    BY <2>1, <2>2
  <2> QED
    BY <2>1, <2>3, MirrorLoad
<1>6. CASE RunSweep
  <2>1. PICK old \in SUBSET (Aged \cap Listed(disk)) :
          disk' = [r \in Records |->
                     IF r \in (IF ~sweeping.keep THEN Dictations \cap Listed(disk) ELSE {})
                              \cup (IF sweeping.brief THEN old ELSE {})
                     THEN {} ELSE disk[r]]
    BY <1>6 DEF RunSweep, Sweep
  <2>2. /\ asked' = asked
        /\ UNCHANGED <<mirror, parked, snap, touched, listing, lost, typing, wipedHeard>>
    BY <1>6 DEF RunSweep, callVars, historyWindow
  <2>3. \A r \in Records : disk'[r] \in {{}, disk[r]}
    BY <2>1
  <2> QED
    BY <2>2, <2>3, MirrorSwept
<1> QED
  BY <1>1, <1>2, <1>3, <1>4, <1>5, <1>6

LEMMA MirrorSettled ==
  ASSUME MirrorInv, IsCalls(asked), FlushSettles
  PROVE  MirrorInv' /\ Forward
<1>1. UNCHANGED <<mirror, snap, disk, typing, wipedHeard, lost>>
  BY DEF FlushSettles, historyDisk
<1>2. TypedFiles'
  BY <1>1 DEF MirrorInv, Copies, TypedFiles
<1>3. parked' = parked => \A r \in Records : Waits(r) => Waits(r)'
  BY <1>1 DEF Waits, Writable
<1>4. \A r \in Records : disk'[r] \in {{}, disk[r]} /\ parked[r] \in {{}, parked[r]}
  BY <1>1
<1>5. CASE LoadHistory(TRUE, parked, stamped)
  BY <1>1, <1>4, <1>5, MirrorLoad
<1>6. CASE asked' = Append(asked, WipeCall) /\ UNCHANGED <<parked, listing, touched>>
  <2> DEFINE c == WipeCall
             t == <<c>>
  <2>1. c.cmd # "save_record" /\ c.cmd # "list"
    BY DEF WipeCall
  <2>2. asked' = asked \o t
    <3>1. PICK X : asked \in Seq(X)
      BY DEF IsCalls
    <3>2. asked \in Seq(X \cup {c}) /\ c \in X \cup {c}
      BY <3>1, SeqMonotonic
    <3> HIDE DEF c
    <3> QED
      BY <1>6, <3>2, AppendIsConcat DEF c
  <2> HIDE DEF c
  <2>3. IsCalls(t) /\ SavesIn(t) = {} /\ ListsIn(t) = {}
    BY <2>1, InOne
  <2> HIDE DEF t
  <2> QED
    BY <1>1, <1>2, <1>3, <1>4, <1>6, <2>2, <2>3, MirrorBeside
<1>7. CASE UNCHANGED <<asked, parked, listing, touched>>
  BY <1>1, <1>2, <1>3, <1>4, <1>7, MirrorSame
<1> QED
  BY <1>5, <1>6, <1>7 DEF FlushSettles

-----------------------------------------------------------------------------
(* The other stores' steps, and the ends of a life.                          *)

LEMMA MirrorElsewhere ==
  ASSUME MirrorInv, DeletesInv, IsCalls(asked), UNCHANGED historyVars,
         \/ asked' = asked
         \/ asked # <<>> /\ asked' = Tail(asked) /\ Head(asked).cmd \in ConfigCmds
         \/ \E known : asked' = asked \o FlushCalls(known) \/ asked' = asked \o SaveCalls(known)
  PROVE  MirrorInv' /\ Forward
<1>1. UNCHANGED <<mirror, parked, snap, touched, disk, listing, lost, typing, wipedHeard>>
  BY DEF historyVars, historyWindow, historyDisk
<1>2. /\ TypedFiles' /\ \A r \in Records : Waits(r) => Waits(r)'
      /\ \A r \in Records : disk'[r] \in {{}, disk[r]} /\ parked'[r] \in {{}, parked[r]}
  BY <1>1 DEF MirrorInv, Copies, TypedFiles, Waits, Writable
<1>3. CASE asked' = asked
  BY <1>1, <1>2, <1>3, MirrorSame
<1>4. CASE asked # <<>> /\ asked' = Tail(asked) /\ Head(asked).cmd \in ConfigCmds
  <2>1. Head(asked).cmd # "save_record" /\ OneListing
    BY <1>4 DEF ConfigCmds, DeletesInv
  <2> QED
    BY <1>1, <1>4, <2>1, MirrorTook
<1>5. ASSUME NEW known, asked' = asked \o FlushCalls(known) \/ asked' = asked \o SaveCalls(known)
      PROVE  MirrorInv' /\ Forward
  <2>1. PICK t : asked' = asked \o t /\ (t = FlushCalls(known) \/ t = SaveCalls(known))
    BY <1>5
  <2>2. IsCalls(t) /\ SavesIn(t) = {} /\ ListsIn(t) = {}
    BY <2>1, ConfigCalls
  <2> QED
    BY <1>1, <1>2, <2>1, <2>2, MirrorBeside
<1> QED
  BY <1>3, <1>4, <1>5

LEMMA MirrorBegun ==
  ASSUME MirrorInv, DeletesInv, ConfigInv, Launch
  PROVE  MirrorInv' /\ Forward
<1> DEFINE c == [cmd |-> "load_config"]
           t == <<c>>
<1>1. asked = <<>> /\ asked' = t /\ UNCHANGED historyVars
  BY DEF Launch, ConfigInv, CallsInOrder
<1>2. c.cmd # "save_record" /\ c.cmd # "list"
  OBVIOUS
<1> HIDE DEF c
<1>3. IsCalls(t) /\ SavesIn(t) = {} /\ ListsIn(t) = {}
  BY <1>2, InOne
<1> HIDE DEF t
<1>4. asked' = asked \o t
  <2>1. PICK X : t \in Seq(X)
    BY <1>3 DEF IsCalls
  <2>2. <<>> \o t = t
    BY <2>1, ConcatEmptySeq
  <2> QED
    BY <1>1, <2>2
<1>5. UNCHANGED <<mirror, parked, snap, touched, disk, listing, lost, typing, wipedHeard>>
  BY <1>1 DEF historyVars, historyWindow, historyDisk
<1>6. /\ TypedFiles' /\ \A r \in Records : Waits(r) => Waits(r)'
      /\ \A r \in Records : disk'[r] \in {{}, disk[r]} /\ parked'[r] \in {{}, parked[r]}
  BY <1>5 DEF MirrorInv, Copies, TypedFiles, Waits, Writable
<1>7. IsCalls(asked)
  BY DEF ConfigInv, CallsInOrder
<1> QED
  BY <1>3, <1>4, <1>5, <1>6, <1>7, MirrorBeside

(* A window that knows of nothing.                                           *)
Blankly ==
  /\ asked = <<>> /\ mirror = Nothing /\ parked = Nothing /\ typing = Nothing
  /\ touched = <<>> /\ listing = "no"

LEMMA MirrorBlank == Blankly => MirrorInv
<1> SUFFICES ASSUME Blankly PROVE MirrorInv
  OBVIOUS
<1> USE DEF Blankly
<1>1. \A r : SavesOf(r) = {}
  <2>1. Len(asked) = 0
    BY CallsNone
  <2> QED
    BY <2>1 DEF SavesOf, CallsOf
<1>2. IsMap(typing) /\ \A r \in Records : mirror[r] = {} /\ parked[r] = {} /\ typing[r] = {}
  BY NothingIsMap
<1>3. DOMAIN touched = {}
  <2>1. DOMAIN <<>> = {}
    OBVIOUS
  <2> QED
    BY <2>1
<1>4. Copies
  BY <1>2, <1>3 DEF Copies, TypedFiles
<1>5. Rising /\ Replays /\ OnItsWay /\ ReadIsNew
  BY <1>1, <1>2 DEF Rising, Replays, OnItsWay, ReadIsNew
<1> QED
  BY <1>4, <1>5 DEF MirrorInv

LEMMA MirrorStart == Init => MirrorInv
<1>1. Init => Blankly
  BY DEF Init, HistoryInit, Blankly
<1> QED
  BY <1>1, MirrorBlank

LEMMA MirrorEnded == Dies => MirrorInv' /\ life' = "down"
<1>1. Dies => Blankly' /\ life' = "down"
  BY DEF Dies, HistoryDies, Blankly
<1>2. Blankly' => MirrorInv'
  BY MirrorBlank, PTL
<1> QED
  BY <1>1, <1>2

LEMMA MirrorStep ==
  ASSUME MirrorInv, DeletesInv, ConfigInv, [Next]_vars
  PROVE  MirrorInv' /\ (life' = "up" => Forward)
<1>1. IsCalls(asked)
  BY DEF ConfigInv, CallsInOrder
<1>2. ASSUME UNCHANGED historyVars, asked' = asked PROVE MirrorInv' /\ Forward
  BY <1>1, <1>2, MirrorElsewhere
<1>3. CASE Launch
  BY <1>3, MirrorBegun
<1>4. CASE Crash \/ Exit
  BY <1>4, MirrorEnded DEF Crash, Exit
<1>5. CASE Callbacks
  <2>1. CASE Reflush /\ OnConfig
    <3>1. UNCHANGED historyVars /\ asked' = asked \o FlushCalls(permitted)
      BY <2>1 DEF Reflush, OnConfig
    <3> QED
      BY <1>1, <3>1, MirrorElsewhere
  <2>2. CASE FlushSettles
    BY <1>1, <2>2, MirrorSettled
  <2>3. CASE Chained
    BY <1>1, <2>3, MirrorLists
  <2> QED
    BY <1>5, <2>1, <2>2, <2>3 DEF Callbacks
<1>6. CASE Task /\ ConfigTask /\ OnConfig
  <2>1. UNCHANGED historyVars
    BY <1>6 DEF OnConfig
  <2>2. CASE LoadConfig \/ SaveLands \/ SaveFails
    <3>1. asked # <<>> /\ asked' = Tail(asked) /\ Head(asked).cmd \in ConfigCmds
      BY <2>2 DEF LoadConfig, SaveLands, SaveFails, Arrives, ConfigCmds
    <3> QED
      BY <1>1, <2>1, <3>1, MirrorElsewhere
  <2>3. CASE EditPlain \/ (\E clash \in {"none", "sides", "real"} : EditChords(clash)) \/ Rebinds
    <3>1. asked' = asked
      BY <2>3 DEF EditPlain, EditChords, Changes, Rebinds, callVars
    <3> QED
      BY <1>2, <2>1, <3>1
  <2>4. CASE SaveTimer \/ RetryHeld \/ LearnPermitted
    <3>1. \/ asked' = asked
          \/ \E known : asked' = asked \o FlushCalls(known) \/ asked' = asked \o SaveCalls(known)
      BY <2>4 DEF SaveTimer, RetryHeld, LearnPermitted
    <3> QED
      BY <1>1, <2>1, <3>1, MirrorElsewhere
  <2> QED
    BY <1>6, <2>2, <2>3, <2>4 DEF ConfigTask
<1>7. CASE Task /\ HistoryTask /\ OnHistory
  <2>1. ASSUME NEW r \in Records,
               EditRecord(r) \/ TypeEdit(r) \/ TypingTimer(r) \/ CoalesceTimer(r)
        PROVE  MirrorInv' /\ Forward
    BY <1>1, <2>1, MirrorWrites
  <2>2. ASSUME NEW r \in Records, DeleteRecord(r) PROVE MirrorInv' /\ Forward
    BY <1>1, <2>2, ParkedLives, MirrorDeleted DEF DeletesInv, RecordsShape
  <2>3. ASSUME NEW r \in Records, DeleteRuns(r) PROVE MirrorInv' /\ Forward
    BY <1>1, <2>3, MirrorRuns
  <2>4. CASE OpenHistory \/ ListArrives \/ ListRuns \/ ListLands
    BY <1>1, <2>4, MirrorLists
  <2>5. CASE SaveRecord
    BY <1>1, <2>5, MirrorSaved DEF DeletesInv, RecordsShape
  <2>6. CASE DeleteArrives
    <3>1. /\ asked # <<>> /\ Head(asked).cmd = "delete" /\ asked' = Tail(asked)
          /\ UNCHANGED <<mirror, parked, touched, snap, typing, wipedHeard, disk, lost, listing>>
      BY <2>6 DEF DeleteArrives, Arrives, historyWindow
    <3>2. Head(asked).cmd # "save_record" /\ OneListing
      BY <3>1 DEF DeletesInv
    <3> QED
      BY <1>1, <3>1, <3>2, MirrorTook
  <2>7. CASE AskWipe \/ WipeArrives \/ WipeRuns \/ WipeFails \/ WipeAnswered
    BY <1>1, <2>7, MirrorWiped
  <2>8. CASE HearSweep(settings.keep)
    BY <1>1, <2>8, MirrorHeard
  <2> QED
    BY <1>7, <2>1, <2>2, <2>3, <2>4, <2>5, <2>6, <2>7, <2>8 DEF HistoryTask
<1>8. CASE Task /\ QueueTask /\ OnQueue
  <2>1. UNCHANGED historyVars
    BY <1>8 DEF OnQueue
  <2>2. asked' = asked
    BY <1>8 DEF QueueTask, Enqueue, QueueTimer, WriteSettles, ReadLands, ReadFails, Post,
       PostSent, PostRetried, PostRefused, ApplyPost, callVars
  <2> QED
    BY <1>2, <2>1, <2>2
<1>9. CASE Task /\ KeepDictations
  <2>1. /\ asked' = asked /\ disk' = disk /\ (wipedHeard' => wipedHeard)
        /\ UNCHANGED <<mirror, parked, snap, touched, listing, lost, typing>>
    BY <1>9 DEF KeepDictations, EditKeep, Changes, historyDisk
  <2> QED
    BY <1>1, <2>1, MirrorSwept
<1>10. CASE Task /\ RecordNew
  <2>1. PICK r \in Records : AddRecord(r)
    BY <1>10 DEF RecordNew
  <2> QED
    BY <1>1, <2>1, MirrorWrites
<1>11. CASE Break \/ TakeSweep \/ RequestQuit \/ QuitReady
  <2>1. UNCHANGED historyVars /\ asked' = asked
    BY <1>11 DEF Break, TakeSweep, RequestQuit, QuitReady, callVars
  <2> QED
    BY <1>2, <2>1
<1>12. CASE RunSweep
  BY <1>1, <1>12, MirrorWiped
<1>13. CASE BeforeQuit \/ SessionEnding
  BY <1>1, <1>13, ParkedLives, MirrorFlushAll DEF BeforeQuit, SessionEnding
<1>14. CASE UNCHANGED vars
  <2>1. UNCHANGED historyVars /\ asked' = asked
    BY <1>14 DEF vars, callVars
  <2> QED
    BY <1>2, <2>1
<1> QED
  BY <1>3, <1>4, <1>5, <1>6, <1>7, <1>8, <1>9, <1>10, <1>11, <1>12, <1>13, <1>14 DEF Next

LEMMA MirrorAlways == Spec => []MirrorInv
<1>1. MirrorInv /\ DeletesInv /\ ConfigInv /\ [Next]_vars => MirrorInv'
  BY MirrorStep
<1> QED
  BY MirrorStart, DeletesAlways, ConfigAlways, <1>1, PTL DEF Spec

(* The mirror's copy of a record is never replaced by an older one: no listing  *)
(* that read the disk before a write, no replay, sweep, wipe, delete or flush    *)
(* takes an edit back, but of a record whose save failed                     *)
(* (transcriptHistory.ts, transcribeRun.ts).                                 *)
THEOREM MirrorForward == Spec => MirrorNeverReverts
<1>1. MirrorInv /\ DeletesInv /\ ConfigInv /\ [Next]_vars =>
        [life' = "up" =>
           \A r \in Records : mirror'[r] = {} \/ mirror[r] \subseteq mirror'[r] \/ r \in lost]_vars
  BY MirrorStep DEF Forward
<1> QED
  BY MirrorAlways, DeletesAlways, ConfigAlways, <1>1, PTL DEF Spec, MirrorNeverReverts
-----------------------------------------------------------------------------
(* What History shows and the disk: the inductive invariant.                  *)

(* A forced listing is due: it will tell History of the disk.                 *)
Relists(ws) == \E i \in 1..Len(ws) : ws[i].then = "list"
ListDue == swept # <<>> \/ again > 0 \/ wipe # "no" \/ Relists(flushes)

(* History shows this copy: it was listed, or is replayed over the listing.     *)
Shown(r) ==
  IF listing = "no" THEN loaded = "yes" \/ (sessionOnly /\ mirror[r] # {})
  ELSE r \in DOMAIN touched

(* The copy is on the disk, or on its way there, or a delete is.               *)
Lands(r) ==
  \/ r \in Dying \/ Waits(r)
  \/ \E i \in SavesOf(r) : asked[i].body = mirror[r]
  \/ SavesOf(r) = {} /\ disk[r] = mirror[r]
Excused(r) == r \in lost \/ r \in ghosts
Told(r) == Excused(r) \/ ~Shown(r) \/ Lands(r)
ReadTrue(r) == Excused(r) \/ r \in DOMAIN touched \/ snap[r] = disk[r]
Shows == \A r \in Records : Told(r) /\ (listing = "read" => ReadTrue(r))

(* Before the first full listing the window has only what was made since it     *)
(* opened; and a listing underway replays all of that.                        *)
Seeded ==
  /\ ghosts \subseteq born
  /\ sessionOnly => \A r \in Records : mirror[r] # {} =>
                       r \notin ghosts /\ (listing = "no" \/ r \in DOMAIN touched)

(* No copy has an edit yet to be made, and no save writes nothing.              *)
Known(r) ==
  /\ mirror[r] \cup disk[r] \cup snap[r] \subseteq 0..ops
  /\ \A i \in SavesOf(r) : asked[i].body \subseteq 0..ops
Edits ==
  /\ ops \in Nat
  /\ \A r \in Records : \A i \in SavesOf(r) : asked[i].body # {}
  /\ \A r \in Dictations : Known(r)

(* A parked copy that a wipe forbids is lost, and no save will find it again.   *)
Forbidden ==
  wipedHeard => \A r \in Dictations : parked[r] # {} =>
                  r \in lost /\ \A i \in SavesOf(r) : asked[i].body # mirror[r]

Waiters(ws) == IsCalls(ws) /\ \A i \in 1..Len(ws) : "then" \in DOMAIN ws[i]
Waiting == Waiters(flushes) /\ IsCalls(swept) /\ again \in Nat

HistoryInv == Waiting /\ (ListDue \/ Shows) /\ Seeded /\ Edits /\ Forbidden

-----------------------------------------------------------------------------
(* Those who wait for a flush.                                              *)

LEMMA WaitersAdded ==
  ASSUME NEW ws, Waiters(ws), NEW w, "then" \in DOMAIN w
  PROVE  /\ Waiters(Append(ws, w))
         /\ Relists(ws) \/ w.then = "list" => Relists(Append(ws, w))
<1> DEFINE one == <<w>>
           vs == ws \o one
<1>1. IsCalls(one) /\ Len(one) = 1 /\ one[1] = w
  BY CallsOne
<1>2. Append(ws, w) = vs
  <2>1. PICK X : ws \in Seq(X)
    BY DEF Waiters, IsCalls
  <2>2. ws \in Seq(X \cup {w}) /\ w \in X \cup {w}
    BY <2>1, SeqMonotonic
  <2> QED
    BY <2>2, AppendIsConcat
<1> HIDE DEF one
<1>3. IsCalls(ws) /\ IsCalls(one)
  BY <1>1 DEF Waiters
<1>4. /\ IsCalls(vs)
      /\ \A i \in 1..Len(ws) : i \in 1..Len(vs) /\ vs[i] = ws[i]
      /\ \A i \in 1..Len(one) : Len(ws) + i \in 1..Len(vs) /\ vs[Len(ws) + i] = one[i]
      /\ \A i \in 1..Len(vs) :
           \/ i \in 1..Len(ws) /\ vs[i] = ws[i]
           \/ i - Len(ws) \in 1..Len(one) /\ vs[i] = one[i - Len(ws)]
  BY <1>3, CallsConcat
<1> HIDE DEF vs
<1>5. ASSUME NEW i \in 1..Len(vs) PROVE vs[i] = w \/ \E k \in 1..Len(ws) : vs[i] = ws[k]
  BY <1>1, <1>4
<1>6. \E k \in 1..Len(vs) : vs[k] = w
  BY <1>1, <1>4
<1>7. Waiters(vs)
  BY <1>4, <1>5 DEF Waiters
<1>8. Relists(ws) \/ w.then = "list" => Relists(vs)
  BY <1>4, <1>6 DEF Relists
<1> QED
  BY <1>2, <1>7, <1>8

LEMMA WaitersTold ==
  ASSUME NEW ws, Waiters(ws), NEW r
  PROVE  /\ Waiters(Settled(ws)) /\ Waiters(Deleted(ws, r))
         /\ Relists(ws) => Relists(Settled(ws)) /\ Relists(Deleted(ws, r))
<1>1. Len(ws) \in Nat
  BY CallsShapes DEF Waiters
<1>2. ASSUME NEW vs, vs = Settled(ws) \/ vs = Deleted(ws, r)
      PROVE  Waiters(vs) /\ (Relists(ws) => Relists(vs))
  <2>1. vs = [i \in 1..Len(ws) |-> vs[i]] /\ Len(vs) = Len(ws)
    BY <1>1, <1>2 DEF Settled, Deleted
  <2>2. ASSUME NEW i \in 1..Len(ws) PROVE "then" \in DOMAIN vs[i] /\ vs[i].then = ws[i].then
    BY <1>2 DEF Settled, Deleted, Waiters
  <2>3. vs \in Seq({vs[i] : i \in 1..Len(ws)})
    BY <1>1, <2>1
  <2> QED
    BY <2>1, <2>2, <2>3 DEF Waiters, IsCalls, Relists
<1> QED
  BY <1>2

(* One of them goes on.                                                     *)
LEMMA WaiterLeft ==
  ASSUME NEW ws, Waiters(ws), NEW k \in 1..Len(ws)
  PROVE  /\ Waiters(RemoveAt(ws, k))
         /\ Relists(ws) /\ ws[k].then # "list" => Relists(RemoveAt(ws, k))
<1>1. PICK X : ws \in Seq(X)
  BY DEF Waiters, IsCalls
<1>2. Len(ws) \in Nat /\ \A i \in 1..Len(ws) : ws[i] \in X
  BY <1>1, ElementOfSeq, LenProperties
<1> DEFINE s == SubSeq(ws, 1, k - 1)
           t == SubSeq(ws, k + 1, Len(ws))
           vs == s \o t
<1>3. /\ s \in Seq(X) /\ Len(s) = k - 1
      /\ \A i \in 1..Len(s) : s[i] = ws[i]
  <2>1. /\ s \in Seq(X) /\ Len(s) = IF 1 <= k - 1 THEN (k - 1) - 1 + 1 ELSE 0
        /\ \A i \in 1..((k - 1) - 1 + 1) : s[i] = ws[1 + i - 1]
    <3> DEFINE n == k - 1
    <3>1. 1 \in Int /\ n \in Int /\ \A i \in 1..n : ws[i] \in X
      BY <1>2
    <3> HIDE DEF n
    <3>2. /\ SubSeq(ws, 1, n) \in Seq(X) /\ Len(SubSeq(ws, 1, n)) = IF 1 <= n THEN n - 1 + 1 ELSE 0
          /\ \A i \in 1..(n - 1 + 1) : SubSeq(ws, 1, n)[i] = ws[1 + i - 1]
      BY <3>1, SubSeqProperties
    <3> QED
      BY <3>2 DEF n
  <2> HIDE DEF s
  <2> QED
    BY <2>1
<1>4. /\ t \in Seq(X) /\ Len(t) = Len(ws) - k
      /\ \A i \in 1..Len(t) : t[i] = ws[k + i]
  <2>1. /\ t \in Seq(X) /\ Len(t) = IF k + 1 <= Len(ws) THEN Len(ws) - (k + 1) + 1 ELSE 0
        /\ \A i \in 1..(Len(ws) - (k + 1) + 1) : t[i] = ws[(k + 1) + i - 1]
    <3> DEFINE m == k + 1
    <3>1. m \in Int /\ Len(ws) \in Int /\ \A i \in m..Len(ws) : ws[i] \in X
      BY <1>2
    <3> HIDE DEF m
    <3>2. /\ SubSeq(ws, m, Len(ws)) \in Seq(X)
          /\ Len(SubSeq(ws, m, Len(ws))) = IF m <= Len(ws) THEN Len(ws) - m + 1 ELSE 0
          /\ \A i \in 1..(Len(ws) - m + 1) : SubSeq(ws, m, Len(ws))[i] = ws[m + i - 1]
      BY <3>1, SubSeqProperties
    <3> QED
      BY <3>2 DEF m
  <2> HIDE DEF t
  <2>2. Len(t) = Len(ws) - k /\ Len(ws) - (k + 1) + 1 = Len(ws) - k
    BY <1>2, <2>1
  <2>3. \A i \in 1..Len(t) : (k + 1) + i - 1 = k + i
    BY <1>2, <2>2
  <2> QED
    BY <2>1, <2>2, <2>3
<1>5. RemoveAt(ws, k) = vs
  BY DEF RemoveAt
<1> HIDE DEF s, t
<1>6. IsCalls(s) /\ IsCalls(t)
  BY <1>3, <1>4 DEF IsCalls
<1>7. /\ IsCalls(vs)
      /\ \A i \in 1..Len(s) : i \in 1..Len(vs) /\ vs[i] = s[i]
      /\ \A i \in 1..Len(t) : Len(s) + i \in 1..Len(vs) /\ vs[Len(s) + i] = t[i]
      /\ \A i \in 1..Len(vs) :
           \/ i \in 1..Len(s) /\ vs[i] = s[i]
           \/ i - Len(s) \in 1..Len(t) /\ vs[i] = t[i - Len(s)]
  BY <1>6, CallsConcat
<1> HIDE DEF vs
<1>8. ASSUME NEW i \in 1..Len(vs) PROVE \E j \in 1..Len(ws) : vs[i] = ws[j]
  <2>1. CASE i \in 1..Len(s) /\ vs[i] = s[i]
    <3>1. i \in 1..Len(ws) /\ vs[i] = ws[i]
      BY <1>2, <1>3, <2>1
    <3> QED
      BY <3>1
  <2>2. CASE i - Len(s) \in 1..Len(t) /\ vs[i] = t[i - Len(s)]
    <3> DEFINE n == i - Len(s)
    <3>1. n \in 1..Len(t) /\ vs[i] = t[n] /\ k + n \in 1..Len(ws)
      BY <1>2, <1>4, <2>2
    <3> HIDE DEF n
    <3>2. vs[i] = ws[k + n]
      BY <1>4, <3>1
    <3> QED
      BY <3>1, <3>2
  <2> QED
    BY <1>7, <2>1, <2>2
<1>9. ASSUME NEW j \in 1..Len(ws), j # k PROVE \E i \in 1..Len(vs) : vs[i] = ws[j]
  <2>1. CASE j < k
    <3>1. j \in 1..Len(s)
      BY <1>3, <2>1
    <3> QED
      BY <1>3, <1>7, <3>1
  <2>2. CASE j > k
    <3> DEFINE n == j - k
    <3>1. n \in 1..Len(t) /\ k + n = j
      BY <1>2, <1>4, <2>2
    <3> HIDE DEF n
    <3>2. t[n] = ws[j]
      BY <1>4, <3>1
    <3> QED
      BY <1>7, <3>1, <3>2
  <2> QED
    BY <1>9, <2>1, <2>2
<1>10. Waiters(vs)
  BY <1>7, <1>8 DEF Waiters
<1>11. ASSUME Relists(ws), ws[k].then # "list" PROVE Relists(vs)
  <2>1. PICK j \in 1..Len(ws) : ws[j].then = "list"
    BY <1>11 DEF Relists
  <2>2. j # k
    BY <1>11, <2>1
  <2> QED
    BY <1>9, <2>1, <2>2 DEF Relists
<1> QED
  BY <1>5, <1>10, <1>11

-----------------------------------------------------------------------------
(* A step that adds calls.                                                  *)

(* The copy is left alone, and no longer parked only if it is written or lost.   *)
Stays(r, t) ==
  /\ mirror'[r] = mirror[r] /\ parked'[r] \in {{}, parked[r]}
  /\ r \in DOMAIN touched' => r \in DOMAIN touched
  /\ Waits(r) => r \in SavesIn(t) \/ Waits(r)' \/ r \in lost'

(* Another copy is written, parked or lost, or the record deleted.              *)
Remade(r, t) ==
  /\ r \in lost' \/ r \in SavesIn(t) \/ Waits(r)' \/ r \in Dying'
  /\ listing # "no" => r \in DOMAIN touched'
  /\ mirror'[r] # {} => mirror[r] # {} \/ r \notin born
  /\ r \in Dictations =>
       /\ mirror'[r] \subseteq mirror[r] \cup 0..ops'
       /\ wipedHeard /\ parked'[r] # {} => r \in lost' /\ ~(mirror'[r] \subseteq 0..ops)

(* The disk keeps its copy, or loses what is gone.                            *)
Clears(r) ==
  \/ disk'[r] = disk[r] /\ (r \in pool => r \in pool')
  \/ r \in ghosts
  \/ /\ mirror'[r] = {} /\ disk'[r] = {} /\ SavesOf(r)' = {}
     /\ listing = "read" => r \in DOMAIN touched \/ snap[r] = {}

LEMMA EditsAdded ==
  ASSUME Edits, IsCalls(asked), NEW t, IsCalls(t), asked' = asked \o t, WritesMirror(t),
         ops' \in {ops, Edit},
         \A r \in Dictations :
           mirror'[r] \cup disk'[r] \cup snap'[r] \subseteq mirror[r] \cup disk[r] \cup snap[r] \cup 0..ops'
  PROVE  Edits'
<1>1. /\ ops \in Nat /\ \A r \in Dictations : Known(r)
      /\ \A r \in Records : \A i \in SavesOf(r) : asked[i].body # {}
  BY DEF Edits
<1>2. ops' \in Nat /\ 0..ops \subseteq 0..ops'
  BY <1>1 DEF Edit
<1>3. ASSUME NEW r \in Records, NEW i \in SavesOf(r)'
      PROVE  \/ i \in SavesOf(r) /\ asked'[i] = asked[i]
             \/ asked'[i].body = mirror'[r] /\ asked'[i].body # {}
  <2>1. (i \in SavesOf(r) /\ asked'[i] = asked[i]) \/ AddedBy(i, t)
    BY SavesMoved
  <2>2. asked'[i].rec = r
    BY DEF SavesOf
  <2>3. AddedBy(i, t) => asked'[i].body = mirror'[r] /\ asked'[i].body # {}
    BY <2>2 DEF AddedBy, WritesMirror
  <2> QED
    BY <2>1, <2>3
<1>4. ASSUME NEW r \in Dictations PROVE Known(r)'
  <2>1. Known(r) /\ r \in Records
    BY <1>1 DEF Records
  <2>2. mirror'[r] \cup disk'[r] \cup snap'[r] \subseteq 0..ops'
    BY <1>2, <2>1 DEF Known
  <2>3. \A i \in SavesOf(r)' : asked'[i].body \subseteq 0..ops'
    BY <1>2, <1>3, <2>1, <2>2 DEF Known
  <2> QED
    BY <2>2, <2>3 DEF Known
<1>5. \A r \in Records : \A i \in SavesOf(r)' : asked'[i].body # {}
  BY <1>1, <1>3
<1> QED
  BY <1>2, <1>4, <1>5 DEF Edits

LEMMA ShownAdded ==
  ASSUME IsCalls(asked), NEW t, IsCalls(t), asked' = asked \o t, WritesMirror(t),
         NEW r \in Records, Told(r), Clears(r), Stays(r, t) \/ Remade(r, t),
         sessionOnly' => sessionOnly, r \in lost => r \in lost',
         UNCHANGED <<listing, loaded, ghosts>>
  PROVE  Told(r)'
<1>1. /\ \A i \in SavesOf(r) : i \in SavesOf(r)' /\ asked'[i] = asked[i]
      /\ r \in SavesIn(t) => \E i \in SavesOf(r)' : AddedBy(i, t)
      /\ r \notin SavesIn(t) => SavesOf(r)' \subseteq SavesOf(r)
  BY SavesMoved
<1>2. r \in SavesIn(t) => Lands(r)'
  <2>1. ASSUME NEW i \in SavesOf(r)', AddedBy(i, t) PROVE asked'[i].body = mirror'[r]
    <3>1. asked'[i].rec = r
      BY DEF SavesOf
    <3> QED
      BY <2>1, <3>1 DEF AddedBy, WritesMirror
  <2> QED
    BY <1>1, <2>1 DEF Lands
<1>3. r \in Deleting => r \in Deleting'
  <2>1. \A i \in 1..Len(asked) : i \in 1..Len(asked') /\ asked'[i] = asked[i]
    BY CallsConcat
  <2> QED
    BY <2>1 DEF Deleting, CallsOf
<1>4. Dying = pool \cup Deleting /\ Dying' = pool' \cup Deleting'
  BY DEF Dying, Deleting, CallsOf
<1>5. CASE Remade(r, t)
  BY <1>2, <1>5 DEF Remade, Told, Excused, Lands
<1>6. CASE Stays(r, t) /\ ~Excused(r) /\ Shown(r)
  <2>1. CASE disk'[r] = disk[r] /\ (r \in pool => r \in pool')
    <3>1. Lands(r)
      BY <1>6 DEF Told
    <3>2. CASE r \in Dying
      BY <1>3, <1>4, <2>1, <3>2 DEF Told, Lands
    <3>3. CASE Waits(r)
      BY <1>2, <1>6, <3>3 DEF Stays, Told, Excused, Lands
    <3>4. CASE \E i \in SavesOf(r) : asked[i].body = mirror[r]
      <4>1. \E i \in SavesOf(r)' : asked'[i].body = mirror'[r]
        BY <1>1, <1>6, <3>4 DEF Stays
      <4> QED
        BY <4>1 DEF Told, Lands
    <3>5. CASE SavesOf(r) = {} /\ disk[r] = mirror[r]
      <4>1. r \notin SavesIn(t) => SavesOf(r)' = {} /\ disk'[r] = mirror'[r]
        BY <1>1, <1>6, <2>1, <3>5 DEF Stays
      <4> QED
        BY <1>2, <4>1 DEF Told, Lands
    <3> QED
      BY <3>1, <3>2, <3>3, <3>4, <3>5 DEF Lands
  <2>2. CASE mirror'[r] = {} /\ disk'[r] = {} /\ SavesOf(r)' = {}
    BY <2>2 DEF Told, Lands
  <2> QED
    BY <1>6, <2>1, <2>2 DEF Clears, Excused
<1>7. CASE Stays(r, t) /\ Excused(r)
  BY <1>7 DEF Excused, Told
<1>8. CASE Stays(r, t) /\ ~Shown(r)
  <2>1. ~Shown(r)'
    BY <1>8 DEF Stays, Shown
  <2> QED
    BY <2>1 DEF Told
<1> QED
  BY <1>5, <1>6, <1>7, <1>8

LEMMA ForbiddenAdded ==
  ASSUME Forbidden, Edits, IsCalls(asked), NEW t, IsCalls(t), asked' = asked \o t,
         lost \subseteq lost', wipedHeard' => wipedHeard,
         \A r \in Dictations : /\ Stays(r, t) \/ Remade(r, t)
                               /\ parked'[r] # {} => r \notin SavesIn(t)
  PROVE  Forbidden'
<1>1. ASSUME wipedHeard, NEW r \in Dictations, parked'[r] # {}
      PROVE  r \in lost' /\ \A i \in SavesOf(r)' : asked'[i].body # mirror'[r]
  <2>1. r \in Records
    BY DEF Records
  <2>2. \A i \in SavesOf(r)' : i \in SavesOf(r) /\ asked'[i] = asked[i]
    BY <1>1, SavesMoved
  <2>3. CASE Stays(r, t)
    <3>1. parked[r] # {} /\ mirror'[r] = mirror[r]
      BY <1>1, <2>3 DEF Stays
    <3>2. r \in lost /\ \A i \in SavesOf(r) : asked[i].body # mirror[r]
      BY <1>1, <3>1 DEF Forbidden
    <3> QED
      BY <2>2, <3>1, <3>2
  <2>4. CASE Remade(r, t)
    <3>1. r \in lost' /\ ~(mirror'[r] \subseteq 0..ops)
      BY <1>1, <2>4 DEF Remade
    <3>2. \A i \in SavesOf(r) : asked[i].body \subseteq 0..ops
      BY DEF Edits, Known
    <3> QED
      BY <2>2, <3>1, <3>2
  <2> QED
    BY <2>3, <2>4
<1> QED
  BY <1>1 DEF Forbidden

LEMMA HistoryAdd ==
  ASSUME HistoryInv, IsCalls(asked), NEW t, IsCalls(t), asked' = asked \o t, WritesMirror(t),
         Waiting', ops' \in {ops, Edit}, lost \subseteq lost', born \subseteq born',
         sessionOnly' => sessionOnly, UNCHANGED <<listing, loaded, snap, ghosts>>,
         DOMAIN touched \subseteq DOMAIN touched',
         ListDue' \/ (~ListDue /\ \A r \in Records : Clears(r)),
         wipedHeard' => wipedHeard \/ parked' = Nothing,
         \A r \in Records : /\ disk'[r] \in {{}, disk[r]}
                            /\ Stays(r, t) \/ Remade(r, t)
                            /\ parked'[r] # {} => r \notin SavesIn(t)
  PROVE  HistoryInv'
<1> USE DEF HistoryInv
<1>1. \A r \in Dictations : r \in Records
  BY DEF Records
<1>2. Edits'
  <2>1. ASSUME NEW r \in Dictations
        PROVE  mirror'[r] \cup disk'[r] \cup snap'[r] \subseteq mirror[r] \cup disk[r] \cup snap[r] \cup 0..ops'
    <3>1. mirror'[r] \subseteq mirror[r] \cup 0..ops'
      BY <1>1 DEF Stays, Remade
    <3>2. disk'[r] \subseteq disk[r] /\ snap'[r] = snap[r]
      BY <1>1
    <3> QED
      BY <3>1, <3>2
  <2> QED
    BY <2>1, EditsAdded
<1>3. Forbidden'
  <2>1. CASE parked' = Nothing
    <3>1. \A r \in Dictations : parked'[r] = {}
      BY <1>1, <2>1, NothingIsMap
    <3> QED
      BY <3>1 DEF Forbidden
  <2>2. CASE wipedHeard' => wipedHeard
    BY <1>1, <2>2, ForbiddenAdded
  <2> QED
    BY <2>1, <2>2
<1>4. Seeded'
  <2>1. ghosts' \subseteq born'
    BY DEF Seeded
  <2>2. ASSUME sessionOnly', NEW r \in Records, mirror'[r] # {}
        PROVE  r \notin ghosts' /\ (listing' = "no" \/ r \in DOMAIN touched')
    <3>1. CASE Stays(r, t)
      BY <2>2, <3>1 DEF Stays, Seeded
    <3>2. CASE Remade(r, t)
      BY <2>2, <3>2 DEF Remade, Seeded
    <3> QED
      BY <3>1, <3>2
  <2> QED
    BY <2>1, <2>2 DEF Seeded
<1>5. ListDue' \/ Shows'
  <2>1. ASSUME ~ListDue', NEW r \in Records
        PROVE  Told(r)' /\ (listing' = "read" => ReadTrue(r)')
    <3>1. Told(r) /\ Clears(r) /\ (listing = "read" => ReadTrue(r))
      BY <2>1 DEF Shows
    <3>2. Told(r)'
      BY <3>1, ShownAdded
    <3>3. ASSUME listing = "read" PROVE ReadTrue(r)'
      <4>1. Stays(r, t) \/ Remade(r, t)
        OBVIOUS
      <4> QED
        BY <3>1, <3>3, <4>1 DEF ReadTrue, Excused, Clears, Stays, Remade
    <3> QED
      BY <3>2, <3>3
  <2> QED
    BY <2>1 DEF Shows
<1> QED
  BY <1>2, <1>3, <1>4, <1>5

-----------------------------------------------------------------------------
(* A call that arrives.                                                     *)

LEMMA EditsTaken ==
  ASSUME Edits, IsCalls(asked), asked # <<>>, asked' = Tail(asked), ops' = ops,
         \A r \in Records : disk'[r] = disk[r] \/ (IsSaveOf(r) /\ disk'[r] = Head(asked).body),
         UNCHANGED <<mirror, snap>>
  PROVE  Edits'
<1>1. ASSUME NEW r
      PROVE  /\ \A i \in SavesOf(r)' : i + 1 \in SavesOf(r) /\ asked'[i] = asked[i + 1]
             /\ IsSaveOf(r) => 1 \in SavesOf(r) /\ asked[1] = Head(asked)
  BY SavesShifted DEF IsSaveOf
<1>2. \A r \in Records : \A i \in SavesOf(r)' : asked'[i].body # {}
  BY <1>1 DEF Edits
<1>3. ASSUME NEW r \in Dictations PROVE Known(r)'
  <2>1. Known(r) /\ r \in Records
    BY DEF Edits, Records
  <2>2. disk'[r] \subseteq 0..ops
    BY <1>1, <2>1 DEF Known
  <2>3. \A i \in SavesOf(r)' : asked'[i].body \subseteq 0..ops
    BY <1>1, <2>1 DEF Known
  <2> QED
    BY <2>1, <2>2, <2>3 DEF Known
<1> QED
  BY <1>2, <1>3 DEF Edits

LEMMA ShownTaken ==
  ASSUME MirrorInv, Edits, IsCalls(asked), asked # <<>>, asked' = Tail(asked),
         NEW r \in Records, Told(r), Shown(r)' => Shown(r), Dying \subseteq Dying',
         ~IsSaveOf(r) => disk'[r] = disk[r] /\ (r \in lost => r \in lost'),
         IsSaveOf(r) =>
           \/ r \in lost'
           \/ disk'[r] = Head(asked).body /\ (r \in lost => Head(asked).body = mirror[r]),
         UNCHANGED <<mirror, parked, wipedHeard, ghosts>>
  PROVE  Told(r)'
<1>1. /\ \A i \in SavesOf(r)' : i \in Int /\ i + 1 \in SavesOf(r) /\ asked'[i] = asked[i + 1]
      /\ \A i \in SavesOf(r) :
           \/ i = 1 /\ IsSaveOf(r)
           \/ i - 1 \in SavesOf(r)' /\ asked'[i - 1] = asked[i]
      /\ IsSaveOf(r) => /\ 1 \in SavesOf(r) /\ asked[1] = Head(asked)
                        /\ \A i \in SavesOf(r)' : i + 1 > 1
  BY SavesShifted DEF IsSaveOf
<1>2. SUFFICES ASSUME ~Excused(r)', Shown(r) PROVE Lands(r)'
  BY DEF Told
<1>3. r \notin lost' /\ r \notin ghosts
  BY <1>2 DEF Excused
<1>4. Waits(r) => Waits(r)'
  BY DEF Waits, Writable
<1>5. CASE IsSaveOf(r) /\ Head(asked).body = mirror[r]
  <2>1. 1 \in SavesOf(r) /\ asked[1].body = mirror[r] /\ mirror[r] # {}
    BY <1>1, <1>5 DEF Edits
  <2>2. ASSUME NEW i \in SavesOf(r)' PROVE asked'[i].body = mirror'[r]
    <3>1. i + 1 \in SavesOf(r) /\ i + 1 > 1 /\ asked'[i] = asked[i + 1]
      BY <1>1, <1>5
    <3> DEFINE j == i + 1
    <3>2. j \in SavesOf(r) /\ j > 1 /\ asked'[i] = asked[j]
      BY <3>1
    <3> HIDE DEF j
    <3>3. asked[1].body \subseteq asked[j].body /\ asked[j].body \subseteq mirror[r]
      BY <2>1, <3>2 DEF MirrorInv, Rising
    <3>4. asked[j].body = mirror[r]
      BY <2>1, <3>3
    <3>5. mirror'[r] = mirror[r]
      OBVIOUS
    <3> QED
      BY <3>2, <3>4, <3>5
  <2>3. disk'[r] = mirror'[r]
    BY <1>3, <1>5
  <2> QED
    BY <2>2, <2>3 DEF Lands
<1>6. CASE ~(IsSaveOf(r) /\ Head(asked).body = mirror[r])
  <2>1. r \notin lost
    BY <1>3, <1>6
  <2>2. Lands(r)
    BY <1>2, <1>3, <2>1 DEF Told, Excused
  <2>3. ASSUME NEW i \in SavesOf(r), asked[i].body = mirror[r] PROVE Lands(r)'
    <3>1. i - 1 \in SavesOf(r)' /\ asked'[i - 1] = asked[i]
      BY <1>1, <1>6, <2>3
    <3> DEFINE k == i - 1
    <3>2. k \in SavesOf(r)' /\ asked'[k].body = mirror'[r]
      BY <2>3, <3>1
    <3> HIDE DEF k
    <3> QED
      BY <3>2 DEF Lands
  <2>4. ASSUME SavesOf(r) = {}, disk[r] = mirror[r] PROVE Lands(r)'
    <3>1. SavesOf(r)' = {} /\ ~IsSaveOf(r)
      BY <1>1, <2>4
    <3> QED
      BY <2>4, <3>1 DEF Lands
  <2> QED
    BY <1>4, <2>2, <2>3, <2>4 DEF Lands
<1> QED
  BY <1>5, <1>6

LEMMA HistoryTaken ==
  ASSUME HistoryInv, MirrorInv, OneListing, IsCalls(asked), asked # <<>>, asked' = Tail(asked),
         Waiting', ListDue => ListDue', Dying \subseteq Dying',
         \A r \in Records : ~IsSaveOf(r) => disk'[r] = disk[r] /\ (r \in lost' <=> r \in lost),
         \A r \in Records : IsSaveOf(r) =>
           \/ disk'[r] = disk[r] /\ r \in lost'
           \/ /\ disk'[r] = Head(asked).body
              /\ r \in lost' <=> r \in lost /\ Head(asked).body # mirror[r],
         \/ listing' = listing
         \/ Head(asked).cmd = "list" /\ listing' = "running",
         UNCHANGED <<ops, mirror, parked, touched, snap, wipedHeard, loaded, sessionOnly, ghosts,
                     born>>
  PROVE  HistoryInv'
<1> USE DEF HistoryInv
<1>1. Head(asked).cmd = "list" => listing = "asked"
  BY ListsTaken
<1>2. (listing = "no" <=> listing' = "no") /\ (listing' = "read" => listing = "read")
  BY <1>1
<1>3. Edits'
  BY EditsTaken
<1>4. ASSUME NEW r \in Records
      PROVE  /\ \A i \in SavesOf(r)' : i + 1 \in SavesOf(r) /\ asked'[i] = asked[i + 1]
             /\ IsSaveOf(r) => 1 \in SavesOf(r) /\ asked[1] = Head(asked)
  BY SavesShifted DEF IsSaveOf
<1>5. Forbidden'
  <2>1. ASSUME wipedHeard, NEW r \in Dictations, parked[r] # {}
        PROVE  r \in lost' /\ \A i \in SavesOf(r)' : asked'[i].body # mirror[r]
    <3>1. r \in Records /\ r \in lost /\ \A i \in SavesOf(r) : asked[i].body # mirror[r]
      BY <2>1 DEF Forbidden, Records
    <3>2. IsSaveOf(r) => Head(asked).body # mirror[r]
      BY <1>4, <3>1
    <3>3. r \in lost'
      BY <3>1, <3>2
    <3> QED
      BY <1>4, <3>1, <3>3
  <2> QED
    BY <2>1 DEF Forbidden
<1>6. Seeded'
  BY <1>2 DEF Seeded
<1>7. ListDue' \/ Shows'
  <2>1. ASSUME ~ListDue', NEW r \in Records
        PROVE  Told(r)' /\ (listing' = "read" => ReadTrue(r)')
    <3>1. Told(r) /\ (listing = "read" => ReadTrue(r))
      BY <2>1 DEF Shows
    <3>2. Shown(r)' => Shown(r)
      BY <1>2 DEF Shown
    <3>3. /\ ~IsSaveOf(r) => disk'[r] = disk[r] /\ (r \in lost => r \in lost')
          /\ IsSaveOf(r) => \/ r \in lost'
                            \/ disk'[r] = Head(asked).body /\ (r \in lost => Head(asked).body = mirror[r])
      OBVIOUS
    <3>4. Told(r)'
      BY <3>1, <3>2, <3>3, ShownTaken
    <3>5. ASSUME listing = "read" PROVE ReadTrue(r)'
      <4>1. CASE r \in DOMAIN touched
        BY <4>1 DEF ReadTrue
      <4>2. CASE r \notin DOMAIN touched
        <5>1. CallsOf("list") = {}
          BY <3>5 DEF OneListing
        <5>2. SavesOf(r) = {}
          BY <3>5, <4>2, <5>1 DEF MirrorInv, Replays
        <5>3. ~IsSaveOf(r)
          BY <1>4, <5>2
        <5> QED
          BY <3>1, <3>3, <3>5, <5>3 DEF ReadTrue, Excused
      <4> QED
        BY <4>1, <4>2
    <3> QED
      BY <1>2, <3>4, <3>5
  <2> QED
    BY <2>1 DEF Shows
<1> QED
  BY <1>3, <1>5, <1>6, <1>7

-----------------------------------------------------------------------------
(* Listings.                                                                *)

(* What a listing that begins does not tell of is on its way, or lost.          *)
LEMMA HistoryListed ==
  ASSUME HistoryInv, MirrorInv, DeletesInv, IsCalls(asked), listing = "no", NEW parks,
         \A r \in Records : parks[r] \in {{}, parked[r]},
         asked' = asked \o Saves(Listed(parks), parks) \o <<ListCall>>,
         parked' = Nothing, listing' = "asked", ghosts' = Dying, Waiting',
         DOMAIN touched' = Listed(parks) \cup (IF sessionOnly' THEN Listed(mirror) ELSE {}),
         sessionOnly' => sessionOnly /\ (ListDue => ListDue'),
         lost \subseteq lost',
         \A r \in Records : parked[r] # {} /\ parks[r] = {} => r \in lost',
         UNCHANGED <<mirror, disk, snap, pool, wipedHeard, ops, born>>
  PROVE  HistoryInv'
<1> USE DEF HistoryInv
<1>1. PICK v : Begins(v, parks)
  BY ListedCalls DEF MirrorInv
<1>2. /\ IsCalls(v) /\ asked' = asked \o v /\ WritesMirror(v)
      /\ Writable(Listed(parks)) \subseteq SavesIn(v)
  BY <1>1 DEF Begins
<1>3. Edits'
  BY <1>2, EditsAdded
<1>4. Forbidden'
  BY NothingIsMap DEF Forbidden, Records
<1>5. ASSUME NEW r \in Dying PROVE r \in born /\ (mirror[r] # {} => r \in ghosts)
  <2>1. CASE r \in ghosts
    BY <2>1 DEF Seeded
  <2>2. CASE r \notin ghosts
    <3>1. r \in Gone
      BY <2>2 DEF Gone
    <3> QED
      BY <3>1 DEF DeletesInv, Doomed, Blank
  <2> QED
    BY <2>1, <2>2
<1>6. Seeded'
  BY <1>5 DEF Seeded, Listed
<1>7. ASSUME NEW r \in Records, ~ListDue', r \notin lost', r \notin Dying, r \in DOMAIN touched'
      PROVE  Lands(r)'
  <2>1. /\ \A i \in SavesOf(r) : i \in SavesOf(r)' /\ asked'[i] = asked[i]
        /\ r \in SavesIn(v) => \E i \in SavesOf(r)' : AddedBy(i, v)
        /\ r \notin SavesIn(v) => SavesOf(r)' \subseteq SavesOf(r)
    BY <1>2, SavesMoved
  <2>2. r \in SavesIn(v) => Lands(r)'
    <3>1. ASSUME NEW i \in SavesOf(r)', AddedBy(i, v) PROVE asked'[i].body = mirror'[r]
      <4>1. asked'[i].rec = r
        BY DEF SavesOf
      <4> QED
        BY <1>2, <3>1, <4>1 DEF AddedBy, WritesMirror
    <3> QED
      BY <2>1, <3>1 DEF Lands
  <2>3. parked[r] # {} => r \in SavesIn(v)
    <3>1. ASSUME parked[r] # {} PROVE r \in Listed(parks) /\ (r \in Dictations => ~wipedHeard)
      <4>1. parks[r] # {}
        BY <1>7, <3>1
      <4>2. r \in Dictations => ~wipedHeard
        BY <1>7, <3>1 DEF Forbidden
      <4> QED
        BY <4>1, <4>2 DEF Listed
    <3> QED
      BY <1>2, <3>1 DEF Writable
  <2>4. CASE parked[r] # {}
    BY <2>2, <2>3, <2>4
  <2>5. CASE parked[r] = {}
    <3>1. parks[r] = {}
      BY <2>5
    <3>2. sessionOnly' /\ mirror[r] # {}
      BY <1>7, <3>1 DEF Listed
    <3>3. Told(r) /\ Shown(r) /\ ~Excused(r)
      BY <1>7, <3>2 DEF Shows, Shown, Excused, Seeded
    <3>4. Lands(r) /\ ~Waits(r)
      BY <2>5, <3>3 DEF Told, Waits
    <3>5. \/ \E i \in SavesOf(r) : asked[i].body = mirror[r]
          \/ SavesOf(r) = {} /\ disk[r] = mirror[r]
      BY <1>7, <3>4 DEF Lands
    <3> QED
      BY <2>1, <2>2, <3>5 DEF Lands
  <2> QED
    BY <2>4, <2>5
<1>8. ListDue' \/ Shows'
  <2>1. ASSUME ~ListDue', NEW r \in Records PROVE Told(r)'
    BY <1>7, <2>1 DEF Told, Excused, Shown
  <2> QED
    BY <2>1 DEF Shows
<1> QED
  BY <1>3, <1>4, <1>6, <1>8

(* loadHistory: a forced listing begins, or is due once the one underway landed. *)
LEMMA HistoryLoad ==
  ASSUME HistoryInv, MirrorInv, DeletesInv, IsCalls(asked), NEW force, NEW parks, NEW kept,
         force \in BOOLEAN, \A r \in Records : parks[r] \in {{}, parked[r]},
         LoadHistory(force, parks, kept), Waiters(flushes'), IsCalls(swept'), lost \subseteq lost',
         force \/ (listing = "no" /\ loaded # "yes" /\ UNCHANGED <<swept, wipe, flushes>>),
         \A r \in Records : parked[r] # {} /\ parks[r] = {} => r \in lost',
         UNCHANGED <<mirror, disk, snap, pool, wipedHeard, ops, born, loaded>>
  PROVE  HistoryInv'
<1>1. again \in Nat /\ (sessionOnly' <=> sessionOnly /\ ~force)
  BY DEF HistoryInv, Waiting, LoadHistory
<1>2. CASE force /\ listing # "no"
  <2>1. /\ again' = again + 1 /\ parked' = parks
        /\ UNCHANGED <<asked, listing, touched, ghosts>>
    BY <1>2 DEF LoadHistory
  <2>2. Waiting' /\ ListDue'
    BY <1>1, <2>1 DEF Waiting, ListDue
  <2> DEFINE t == <<>>
  <2>3. IsCalls(t) /\ SavesIn(t) = {} /\ asked' = asked \o t
    BY <2>1, InNone, NoCalls
  <2> HIDE DEF t
  <2>4. WritesMirror(t)
    BY <2>3 DEF WritesMirror, SavesIn
  <2>5. ASSUME NEW r \in Records PROVE Stays(r, t)
    BY <2>1 DEF Stays, Waits, Writable
  <2> QED
    BY <1>1, <2>1, <2>2, <2>3, <2>4, <2>5, HistoryAdd
<1>3. CASE ~(force /\ listing # "no")
  <2> DEFINE seed == IF sessionOnly' THEN Listed(mirror) ELSE {}
  <2>1. listing = "no" /\ ~(~force /\ loaded = "yes")
    BY <1>3
  <2>2. /\ asked' = asked \o Saves(Listed(parks), parks) \o <<ListCall>>
        /\ parked' = Nothing /\ listing' = "asked" /\ ghosts' = Dying /\ again' = again
        /\ touched' = [r \in Listed(parks) \cup seed |->
                         IF mirror[r] # {} THEN mirror[r] ELSE parks[r]]
    BY <2>1 DEF LoadHistory
  <2>3. DOMAIN touched' = Listed(parks) \cup seed
    BY <2>2
  <2>4. Waiting'
    BY <1>1, <2>2 DEF Waiting
  <2>5. sessionOnly' => sessionOnly /\ (ListDue => ListDue')
    BY <1>1, <2>2 DEF ListDue
  <2> QED
    BY <2>1, <2>2, <2>3, <2>4, <2>5, HistoryListed
<1> QED
  BY <1>2, <1>3

(* It reads the disk.                                                       *)
LEMMA HistoryListRan ==
  ASSUME HistoryInv, listing = "running", asked' = asked,
         \/ snap' = disk /\ listing' = "read"
         \/ snap' = snap /\ listing' = "unread",
         UNCHANGED <<mirror, parked, touched, disk, pool, lost, wipedHeard, ghosts, born, ops,
                     loaded, sessionOnly, swept, again, wipe, flushes>>
  PROVE  HistoryInv'
<1> USE DEF HistoryInv
<1>1. Waiting' /\ (ListDue' <=> ListDue)
  BY DEF Waiting, ListDue
<1>2. \A r : SavesOf(r)' = SavesOf(r)
  BY DEF SavesOf, CallsOf
<1>3. Edits'
  <2>1. \A r \in Dictations : Known(r)'
    BY <1>2 DEF Edits, Known
  <2> QED
    BY <1>2, <2>1 DEF Edits
<1>4. Forbidden' /\ Seeded'
  BY <1>2 DEF Forbidden, Seeded
<1>5. Dying' = Dying
  BY DEF Dying
<1>6. \A r \in Records : Told(r) => Told(r)'
  BY <1>2, <1>5 DEF Told, Excused, Shown, Lands, Waits, Writable
<1>7. listing' = "read" => \A r \in Records : ReadTrue(r)'
  BY DEF ReadTrue
<1>8. Shows => Shows'
  BY <1>6, <1>7 DEF Shows
<1> QED
  BY <1>1, <1>3, <1>4, <1>8

(* Its answer shows what the disk held, but for what it replays.               *)
LEMMA HistoryLanded ==
  ASSUME HistoryInv, MirrorInv, OneListing, listing \in {"read", "unread"}, asked' = asked,
         listing' = "no", snap' = Nothing,
         \/ listing = "read" /\ mirror' = Replayed /\ sessionOnly' = FALSE
         \/ listing = "unread" /\ mirror' = mirror /\ loaded' = "failed" /\ sessionOnly' = sessionOnly,
         UNCHANGED <<parked, disk, pool, lost, wipedHeard, ghosts, born, ops, swept, again, wipe,
                     flushes>>
  PROVE  HistoryInv'
<1> USE DEF HistoryInv
<1>1. Waiting' /\ (ListDue' <=> ListDue)
  BY DEF Waiting, ListDue
<1>2. \A r : SavesOf(r)' = SavesOf(r)
  BY DEF SavesOf, CallsOf
<1>3. ASSUME NEW r \in Records \ DOMAIN touched PROVE parked[r] = {} /\ SavesOf(r) = {}
  <2>1. CallsOf("list") = {}
    BY DEF OneListing
  <2> QED
    BY <2>1 DEF MirrorInv, Replays
<1>4. ASSUME NEW r \in Records
      PROVE  \/ mirror'[r] = mirror[r] /\ (listing = "unread" \/ r \in DOMAIN touched)
             \/ listing = "read" /\ r \notin DOMAIN touched /\ mirror'[r] = snap[r]
  <2>1. CASE mirror' = Replayed /\ r \in DOMAIN touched
    BY <2>1 DEF Replayed, MirrorInv, Copies
  <2>2. CASE listing = "read" /\ mirror' = Replayed /\ r \notin DOMAIN touched
    BY <2>2 DEF Replayed
  <2> QED
    BY <2>1, <2>2
<1>5. Edits'
  <2>1. ASSUME NEW r \in Dictations PROVE Known(r)'
    <3>1. r \in Records /\ Known(r)
      BY DEF Records, Edits
    <3>2. snap'[r] = {} /\ (mirror'[r] = mirror[r] \/ mirror'[r] = snap[r])
      BY <1>4, <3>1, NothingIsMap
    <3> QED
      BY <1>2, <3>1, <3>2 DEF Known
  <2> QED
    BY <1>2, <2>1 DEF Edits
<1>6. Forbidden'
  <2>1. ASSUME NEW r \in Dictations, parked[r] # {} PROVE mirror'[r] = mirror[r]
    <3>1. r \in Records
      BY DEF Records
    <3> QED
      BY <1>3, <1>4, <2>1, <3>1
  <2> QED
    BY <1>2, <2>1 DEF Forbidden
<1>7. Seeded'
  BY DEF Seeded
<1>8. Dying' = Dying
  BY DEF Dying
<1>9. ASSUME Shows, NEW r \in Records PROVE Told(r)'
  <2>1. Told(r) /\ (listing = "read" => ReadTrue(r))
    BY <1>9 DEF Shows
  <2>2. CASE Excused(r)
    BY <2>2 DEF Told, Excused
  <2>3. CASE ~Excused(r) /\ mirror'[r] = mirror[r] /\ r \in DOMAIN touched
    <3>1. Lands(r)
      BY <2>1, <2>3 DEF Told, Shown
    <3>2. Lands(r)'
      BY <1>2, <1>8, <2>3, <3>1 DEF Lands, Waits, Writable
    <3> QED
      BY <3>2 DEF Told
  <2>4. CASE ~Excused(r) /\ listing = "unread" /\ r \notin DOMAIN touched
    <3>1. mirror'[r] = mirror[r] /\ loaded' = "failed" /\ sessionOnly' = sessionOnly
      BY <2>4
    <3>2. ~(sessionOnly /\ mirror[r] # {})
      BY <2>4 DEF Seeded
    <3> QED
      BY <3>1, <3>2 DEF Told, Shown
  <2>5. CASE ~Excused(r) /\ listing = "read" /\ r \notin DOMAIN touched
    <3>1. snap[r] = disk[r] /\ mirror'[r] = snap[r] /\ SavesOf(r) = {}
      BY <1>3, <1>4, <2>1, <2>5 DEF ReadTrue
    <3> QED
      BY <1>2, <3>1 DEF Told, Lands
  <2> QED
    BY <1>4, <2>2, <2>3, <2>4, <2>5
<1>10. Shows => Shows'
  BY <1>9 DEF Shows
<1> QED
  BY <1>1, <1>5, <1>6, <1>7, <1>10

-----------------------------------------------------------------------------
(* The actions of History.                                                  *)

(* What is parked is written, and the disk kept unless a listing is due.        *)
LEMMA HistoryFlushed ==
  ASSUME HistoryInv, MirrorInv, IsCalls(asked), NEW t, Flushes(t),
         Waiting', ops' \in {ops, Edit}, sessionOnly' => sessionOnly,
         UNCHANGED <<mirror, touched, listing, loaded, snap, ghosts, born>>,
         ListDue => ListDue', ListDue' \/ UNCHANGED <<pool, disk>>,
         wipedHeard' => wipedHeard \/ parked' = Nothing,
         \A r \in Records : disk'[r] \in {{}, disk[r]}
  PROVE  HistoryInv'
<1>1. /\ IsCalls(t) /\ asked' = asked \o t /\ lost \subseteq lost'
      /\ Copying(t, Listed(parked), parked)
      /\ \A r \in Records : /\ parked'[r] \in {{}, parked[r]}
                            /\ Waits(r) => r \in SavesIn(t) \/ r \in lost' \/ Waits(r)'
                            /\ parked'[r] # {} => r \notin SavesIn(t)
  BY DEF Flushes
<1>2. \A r \in Listed(parked) : parked[r] = mirror[r] /\ parked[r] # {}
  BY DEF MirrorInv, Copies, Listed
<1>3. WritesMirror(t)
  BY <1>1, <1>2 DEF WritesMirror, Copying
<1>4. ListDue' \/ (~ListDue /\ \A r \in Records : Clears(r))
  BY DEF Clears
<1>5. \A r \in Records : Stays(r, t)
  BY <1>1 DEF Stays
<1> QED
  BY <1>1, <1>3, <1>4, <1>5, HistoryAdd

(* All of it; or none of it, with calls of another kind.                      *)
LEMMA ParkedCalls ==
  ASSUME IsCalls(asked), asked' = asked \o Saves(Listed(parked), parked), parked' = Nothing,
         lost \subseteq lost'
  PROVE  \E t : Flushes(t)
<1> DEFINE t == Saves(Listed(parked), parked)
<1>1. Listed(parked) \subseteq Records
  BY DEF Listed
<1>2. /\ IsCalls(t) /\ Copying(t, Listed(parked), parked)
      /\ ListsIn(t) = {} /\ SavesIn(t) = Writable(Listed(parked))
  BY <1>1, SavesCopy
<1>3. asked' = asked \o t
  OBVIOUS
<1> HIDE DEF t
<1>4. \A r \in Records : parked'[r] = {}
  BY NothingIsMap
<1>5. \A r \in Records : Waits(r) => r \in SavesIn(t)
  BY <1>2 DEF Waits, Writable, Listed
<1> QED
  BY <1>2, <1>3, <1>4, <1>5 DEF Flushes

LEMMA HistoryBeside ==
  ASSUME HistoryInv, MirrorInv, IsCalls(asked), NEW t, IsCalls(t), asked' = asked \o t,
         SavesIn(t) = {}, ListsIn(t) = {}, Waiting', ops' \in {ops, Edit},
         UNCHANGED <<mirror, parked, touched, listing, loaded, sessionOnly, snap, ghosts, lost,
                     born>>,
         ListDue => ListDue', ListDue' \/ UNCHANGED <<pool, disk>>,
         wipedHeard' => wipedHeard, \A r \in Records : disk'[r] \in {{}, disk[r]}
  PROVE  HistoryInv'
<1>1. Copying(t, Listed(parked), parked)
  BY NoneCopied
<1>2. \A r \in Records : Waits(r) => Waits(r)'
  BY DEF Waits, Writable
<1>3. Flushes(t)
  BY <1>1, <1>2 DEF Flushes
<1> QED
  BY <1>3, HistoryFlushed

LEMMA HistorySame ==
  ASSUME HistoryInv, MirrorInv, IsCalls(asked), asked' = asked, Waiting', ops' \in {ops, Edit},
         UNCHANGED <<mirror, parked, touched, listing, loaded, sessionOnly, snap, ghosts, lost,
                     born>>,
         ListDue => ListDue', ListDue' \/ UNCHANGED <<pool, disk>>,
         wipedHeard' => wipedHeard, \A r \in Records : disk'[r] \in {{}, disk[r]}
  PROVE  HistoryInv'
<1> DEFINE t == <<>>
<1>1. IsCalls(t) /\ SavesIn(t) = {} /\ ListsIn(t) = {}
  BY InNone
<1>2. asked' = asked \o t
  BY NoCalls
<1> HIDE DEF t
<1> QED
  BY <1>1, <1>2, HistoryBeside

(* Nobody new waits, and no listing is newly due or no longer.                 *)
LEMMA WaitingSame ==
  ASSUME HistoryInv, UNCHANGED <<swept, again, wipe, flushes>>
  PROVE  Waiting' /\ (ListDue <=> ListDue')
  BY DEF HistoryInv, Waiting, ListDue

LEMMA HistoryUpsert ==
  ASSUME HistoryInv, DeletesInv, IsCalls(asked), NEW r \in Records, NEW copy, copy # {},
         Upsert(r, copy), ops' \in {ops, Edit}, mirror[r] # {} \/ r \notin born,
         r \in Dictations => copy \subseteq mirror[r] \cup {Edit} /\ Edit \in copy /\ ops' = Edit,
         born \subseteq born',
         UNCHANGED <<disk, snap, listing, loaded, sessionOnly, ghosts, pool, wipedHeard, swept,
                     again, wipe, flushes>>
  PROVE  HistoryInv'
<1>1. IsMap(mirror) /\ IsMap(parked) /\ (listing = "no" => DOMAIN touched = {})
  BY ParkedLives DEF DeletesInv, RecordsShape
<1>2. /\ mirror' = [mirror EXCEPT ![r] = copy] /\ touched' = Touch(r, copy)
      /\ lost' = lost \cup ({r} \ Writable({r}))
  BY DEF Upsert
<1>3. mirror'[r] = copy /\ \A q \in Records : q # r => mirror'[q] = mirror[q]
  BY <1>1, <1>2 DEF IsMap
<1>4. /\ DOMAIN touched \subseteq DOMAIN touched' /\ DOMAIN touched' \subseteq DOMAIN touched \cup {r}
      /\ listing # "no" => r \in DOMAIN touched'
  BY <1>1, <1>2, TouchedOne
<1>5. PICK t : Upserts(t, r, copy)
  BY <1>1, UpsertCalls
<1>6. /\ IsCalls(t) /\ asked' = asked \o t /\ WritesMirror(t) /\ SavesIn(t) \subseteq {r}
      /\ parked'[r] \in {{}, copy} /\ (parked'[r] # {} => r \notin SavesIn(t))
      /\ \A q \in Records : q # r => parked'[q] = parked[q]
      /\ r \in lost' \/ r \in SavesIn(t) \/ Waits(r)'
  BY <1>5 DEF Upserts
<1>7. Remade(r, t)
  <2>1. ASSUME r \in Dictations
        PROVE  /\ mirror'[r] \subseteq mirror[r] \cup 0..ops'
               /\ wipedHeard => r \in lost' /\ ~(mirror'[r] \subseteq 0..ops)
    <3>1. ops \in Nat /\ Edit = ops + 1 /\ ops' = Edit
      BY <2>1 DEF HistoryInv, Edits, Edit
    <3>2. Edit \in 0..ops' /\ Edit \notin 0..ops
      BY <3>1
    <3>3. wipedHeard => r \in lost'
      BY <1>2, <2>1 DEF Writable
    <3> QED
      BY <1>3, <2>1, <3>2, <3>3
  <2> QED
    BY <1>4, <1>6, <2>1 DEF Remade
<1>8. ASSUME NEW q \in Records, q # r PROVE Stays(q, t) /\ q \notin SavesIn(t)
  <2>1. Waits(q) => Waits(q)'
    BY <1>6, <1>8 DEF Waits, Writable
  <2> QED
    BY <1>3, <1>4, <1>6, <1>8, <2>1 DEF Stays
<1>9. \A q \in Records : Clears(q)
  BY DEF Clears
<1>10. Waiting' /\ (ListDue <=> ListDue')
  BY WaitingSame
<1>11. lost \subseteq lost'
  BY <1>2
<1> QED
  BY <1>4, <1>6, <1>7, <1>8, <1>9, <1>10, <1>11, HistoryAdd

LEMMA HistoryWrites ==
  ASSUME HistoryInv, MirrorInv, DeletesInv, IsCalls(asked), NEW r \in Records,
         \/ EditRecord(r) \/ AddRecord(r) \/ TypeEdit(r) \/ TypingTimer(r) \/ CoalesceTimer(r)
  PROVE  HistoryInv'
<1>1. UNCHANGED <<disk, snap, listing, loaded, sessionOnly, ghosts, pool, wipedHeard, swept, again,
                  wipe, flushes>>
  BY DEF EditRecord, AddRecord, TypeEdit, TypingTimer, CoalesceTimer, restHistory, historyDisk
<1>2. Waiting' /\ (ListDue <=> ListDue')
  BY <1>1, WaitingSame
<1>3. CASE EditRecord(r)
  <2> DEFINE copy == mirror[r] \cup {Edit}
  <2>1. mirror[r] # {} /\ Upsert(r, copy) /\ ops' = Edit /\ born' = born
    BY <1>3 DEF EditRecord, Acts, Edit
  <2>2. copy # {} /\ copy \subseteq mirror[r] \cup {Edit} /\ Edit \in copy
    OBVIOUS
  <2> HIDE DEF copy
  <2> QED
    BY <1>1, <2>1, <2>2, HistoryUpsert
<1>4. CASE AddRecord(r)
  <2> DEFINE copy == {Edit}
  <2>1. r \notin born /\ Upsert(r, copy) /\ ops' = Edit /\ born \subseteq born'
    BY <1>4 DEF AddRecord, Acts, Edit
  <2>2. copy # {} /\ copy \subseteq mirror[r] \cup {Edit} /\ Edit \in copy
    OBVIOUS
  <2> HIDE DEF copy
  <2> QED
    BY <1>1, <2>1, <2>2, HistoryUpsert
<1>5. CASE TypeEdit(r)
  <2>1. ops' = Edit /\ UNCHANGED <<asked, mirror, parked, touched, born, lost>>
    BY <1>5 DEF TypeEdit, Acts, Edit
  <2> QED
    BY <1>1, <1>2, <2>1, HistorySame
<1>6. CASE TypingTimer(r)
  <2> DEFINE copy == mirror[r] \cup typing[r]
  <2>1. /\ typing[r] # {} /\ ops' = ops /\ born' = born
        /\ \/ UNCHANGED <<asked, mirror, parked, touched, lost>>
           \/ mirror[r] # {} /\ Upsert(r, copy)
    BY <1>6 DEF TypingTimer
  <2>2. r \notin Dictations
    BY <2>1, RecordsAssumption DEF MirrorInv, Copies, TypedFiles
  <2>3. copy # {}
    BY <2>1
  <2> HIDE DEF copy
  <2>4. CASE UNCHANGED <<asked, mirror, parked, touched, lost>>
    BY <1>1, <1>2, <2>1, <2>4, HistorySame
  <2>5. CASE mirror[r] # {} /\ Upsert(r, copy)
    BY <1>1, <2>1, <2>2, <2>3, <2>5, HistoryUpsert
  <2> QED
    BY <2>1, <2>4, <2>5
<1>7. CASE CoalesceTimer(r)
  <2> DEFINE t == Saves({r}, parked)
  <2>1. /\ parked[r] # {} /\ parked' = [parked EXCEPT ![r] = {}] /\ asked' = asked \o t
        /\ UNCHANGED <<mirror, touched, lost, born, ops>>
    BY <1>7 DEF CoalesceTimer
  <2>2. IsCalls(t) /\ Copying(t, {r}, parked) /\ ListsIn(t) = {} /\ SavesIn(t) = Writable({r})
    BY SavesCopy
  <2> HIDE DEF t
  <2>3. Copying(t, Listed(parked), parked)
    BY <2>1, <2>2 DEF Copying, Listed
  <2>4. \A q \in Records : parked'[q] = IF q = r THEN {} ELSE parked[q]
    BY <2>1 DEF DeletesInv, RecordsShape, IsMap
  <2>5. ASSUME NEW q \in Records, Waits(q) PROVE q \in SavesIn(t) \/ Waits(q)'
    BY <1>1, <2>1, <2>2, <2>4, <2>5 DEF Waits, Writable
  <2>6. \A q \in Records : parked'[q] \in {{}, parked[q]} /\ (parked'[q] # {} => q \notin SavesIn(t))
    BY <2>2, <2>4 DEF Writable
  <2>7. Flushes(t)
    BY <2>1, <2>2, <2>3, <2>5, <2>6 DEF Flushes
  <2> QED
    BY <1>1, <1>2, <2>1, <2>7, HistoryFlushed
<1> QED
  BY <1>3, <1>4, <1>5, <1>6, <1>7

LEMMA HistoryDeleted ==
  ASSUME HistoryInv, DeletesInv, IsCalls(asked), NEW r \in Records, DeleteRecord(r)
  PROVE  HistoryInv'
<1> DEFINE t == <<DeleteCall(r)>>
<1>1. /\ mirror' = [mirror EXCEPT ![r] = {}] /\ parked' = Dropped({r})
      /\ touched' = Touch(r, {}) /\ asked' = Append(asked, DeleteCall(r)) /\ ops' = Edit
      /\ UNCHANGED <<disk, snap, listing, loaded, sessionOnly, ghosts, pool, wipedHeard, swept,
                     again, wipe, flushes, lost, born>>
  BY DEF DeleteRecord, restHistory, historyDisk, Acts, Edit
<1>2. asked' = asked \o t
  <2>1. PICK X : asked \in Seq(X)
    BY DEF IsCalls
  <2>2. asked \in Seq(X \cup {DeleteCall(r)}) /\ DeleteCall(r) \in X \cup {DeleteCall(r)}
    BY <2>1, SeqMonotonic
  <2> QED
    BY <1>1, <2>2, AppendIsConcat
<1>3. IsCalls(t) /\ SavesIn(t) = {} /\ r \in Deleting'
  <2> DEFINE c == DeleteCall(r)
  <2>1. c.cmd = "delete" /\ c.cmd # "save_record" /\ c.rec = r
    BY DEF DeleteCall
  <2> HIDE DEF c
  <2> DEFINE u == <<c>>
  <2>2. IsCalls(u) /\ SavesIn(u) = {} /\ Len(u) = 1 /\ u[1] = c
    BY <2>1, InOne, CallsOne
  <2>3. asked' = asked \o u
    BY <1>2 DEF c
  <2> HIDE DEF u
  <2>4. \A i \in 1..Len(u) : Len(asked) + i \in 1..Len(asked') /\ asked'[Len(asked) + i] = u[i]
    <3>1. IsCalls(asked) /\ IsCalls(u)
      BY <2>2
    <3> DEFINE vs == asked \o u
    <3>2. \A i \in 1..Len(u) : Len(asked) + i \in 1..Len(vs) /\ vs[Len(asked) + i] = u[i]
      BY <3>1, CallsConcat
    <3>3. asked' = vs
      BY <2>3
    <3> HIDE DEF vs
    <3> QED
      BY <3>2, <3>3
  <2> DEFINE k == Len(asked) + 1
  <2>5. k \in 1..Len(asked') /\ asked'[k] = c
    BY <2>2, <2>4
  <2> HIDE DEF k
  <2>6. r \in Deleting'
    BY <2>1, <2>5 DEF Deleting, CallsOf
  <2> QED
    BY <2>2, <2>6 DEF u, c
<1> HIDE DEF t
<1>4. IsMap(mirror) /\ (listing = "no" => DOMAIN touched = {})
  BY ParkedLives DEF DeletesInv, RecordsShape
<1>5. /\ mirror'[r] = {} /\ parked'[r] = {}
      /\ \A q \in Records : q # r => mirror'[q] = mirror[q] /\ parked'[q] = parked[q]
  <2>1. mirror'[r] = {} /\ \A q \in Records : q # r => mirror'[q] = mirror[q]
    BY <1>1, <1>4 DEF IsMap
  <2>2. \A q \in Records : parked'[q] = IF q = r THEN {} ELSE parked[q]
    BY <1>1 DEF Dropped
  <2> QED
    BY <2>1, <2>2
<1>6. /\ DOMAIN touched \subseteq DOMAIN touched' /\ DOMAIN touched' \subseteq DOMAIN touched \cup {r}
      /\ listing # "no" => r \in DOMAIN touched'
  BY <1>1, <1>4, TouchedOne
<1>7. Remade(r, t)
  <2>1. r \in Dying'
    BY <1>3 DEF Dying, Deleting, CallsOf
  <2> QED
    BY <1>5, <1>6, <2>1 DEF Remade
<1>8. ASSUME NEW q \in Records, q # r PROVE Stays(q, t)
  <2>1. Waits(q) => Waits(q)'
    BY <1>1, <1>5, <1>8 DEF Waits, Writable
  <2> QED
    BY <1>5, <1>6, <1>8, <2>1 DEF Stays
<1>9. WritesMirror(t)
  BY <1>3 DEF WritesMirror, SavesIn
<1>10. \A q \in Records : Clears(q)
  BY <1>1 DEF Clears
<1>11. Waiting' /\ (ListDue <=> ListDue')
  BY <1>1, WaitingSame
<1> QED
  BY <1>1, <1>2, <1>3, <1>6, <1>7, <1>8, <1>9, <1>10, <1>11, HistoryAdd

LEMMA HistoryRuns ==
  ASSUME HistoryInv, MirrorInv, DeletesInv, IsCalls(asked), NEW r \in Records, DeleteRuns(r)
  PROVE  HistoryInv'
<1>1. /\ r \in pool /\ pool' = pool \ {r}
      /\ UNCHANGED <<ops, mirror, loaded, sessionOnly, listing, snap, touched, again, wipedHeard,
                     wipe, swept, lost, born, ghosts>>
  BY DEF DeleteRuns
<1>2. Waiters(flushes) /\ IsCalls(swept) /\ again \in Nat
  BY DEF HistoryInv, Waiting
<1>3. /\ Waiters(Deleted(flushes, r))
      /\ Relists(flushes) => Relists(Deleted(flushes, r))
  BY <1>2, WaitersTold
<1>4. CASE /\ disk' = [disk EXCEPT ![r] = {}]
           /\ flushes' = Deleted(flushes, r)
           /\ UNCHANGED <<asked, parked>>
  <2> DEFINE t == <<>>
  <2>1. IsCalls(t) /\ SavesIn(t) = {} /\ asked' = asked \o t
    BY <1>4, InNone, NoCalls
  <2> HIDE DEF t
  <2>2. WritesMirror(t)
    BY <2>1 DEF WritesMirror, SavesIn
  <2>3. disk'[r] = {} /\ \A q \in Records : q # r => disk'[q] = disk[q]
    BY <1>4 DEF DeletesInv, RecordsShape, IsMap
  <2>4. Waiting' /\ (ListDue => ListDue')
    BY <1>1, <1>2, <1>3, <1>4 DEF Waiting, ListDue
  <2>5. ASSUME r \notin ghosts PROVE Clears(r)
    <3>1. r \in Gone /\ r \notin Saved
      BY <1>1, <2>5 DEF DeletesInv, Behind, Gone, Dying
    <3>2. mirror[r] = {} /\ (listing = "no" \/ r \in buried \/ r \in DOMAIN touched)
      BY <3>1 DEF DeletesInv, Doomed, Blank
    <3>3. listing = "read" => r \in DOMAIN touched \/ snap[r] = {}
      BY <3>2 DEF DeletesInv, Buried
    <3>4. SavesOf(r)' = {}
      BY <1>4, <3>1 DEF SavesOf, Saved, CallsOf
    <3> QED
      BY <1>1, <2>3, <3>2, <3>3, <3>4 DEF Clears
  <2>6. ASSUME NEW q \in Records PROVE Clears(q)
    <3>1. CASE q = r
      BY <2>5, <3>1 DEF Clears
    <3>2. CASE q # r
      BY <1>1, <2>3, <3>2 DEF Clears
    <3> QED
      BY <3>1, <3>2
  <2>7. \A q \in Records : Stays(q, t)
    BY <1>1, <1>4 DEF Stays, Waits, Writable
  <2>8. \A q \in Records : disk'[q] \in {{}, disk[q]}
    BY <2>3
  <2> QED
    BY <1>1, <2>1, <2>2, <2>4, <2>6, <2>7, <2>8, HistoryAdd
<1>5. CASE /\ asked' = asked \o Saves(Listed(parked), parked) /\ parked' = Nothing /\ disk' = disk
           /\ \E saves, dels : flushes' = Append(Deleted(flushes, r),
                                                 [saves |-> saves, dels |-> dels, then |-> "list"])
  <2>1. PICK t : Flushes(t)
    BY <1>1, <1>5, ParkedCalls
  <2>2. PICK saves, dels : flushes' = Append(Deleted(flushes, r),
                                             [saves |-> saves, dels |-> dels, then |-> "list"])
    BY <1>5
  <2>3. Waiters(flushes') /\ Relists(flushes')
    <3> DEFINE w == [saves |-> saves, dels |-> dels, then |-> "list"]
    <3>1. "then" \in DOMAIN w /\ w.then = "list"
      OBVIOUS
    <3>2. flushes' = Append(Deleted(flushes, r), w)
      BY <2>2
    <3> HIDE DEF w
    <3> QED
      BY <1>3, <3>1, <3>2, WaitersAdded
  <2>4. Waiting' /\ ListDue'
    BY <1>1, <1>2, <2>3 DEF Waiting, ListDue
  <2> QED
    BY <1>1, <1>5, <2>1, <2>4, HistoryFlushed
<1>6. \/ /\ disk' = [disk EXCEPT ![r] = {}] /\ flushes' = Deleted(flushes, r)
         /\ UNCHANGED <<asked, parked>>
      \/ /\ asked' = asked \o Saves(Listed(parked), parked) /\ parked' = Nothing /\ disk' = disk
         /\ \E saves, dels : flushes' = Append(Deleted(flushes, r),
                                               [saves |-> saves, dels |-> dels, then |-> "list"])
  BY DEF DeleteRuns
<1> QED
  BY <1>4, <1>5, <1>6

LEMMA HistoryLists ==
  ASSUME HistoryInv, MirrorInv, DeletesInv, IsCalls(asked),
         OpenHistory \/ Chained \/ ListRuns \/ ListLands
  PROVE  HistoryInv'
<1>1. OneListing /\ Waiters(flushes) /\ IsCalls(swept) /\ again \in Nat
  BY DEF DeletesInv, HistoryInv, Waiting
<1>2. CASE OpenHistory
  <2>1. /\ LoadHistory(FALSE, parked, stamped) /\ listing = "no" /\ loaded # "yes"
        /\ UNCHANGED <<mirror, disk, snap, pool, swept, wipedHeard, ops, born, loaded, lost, wipe,
                       flushes>>
    BY <1>2 DEF OpenHistory, historyDisk
  <2>2. \A r \in Records : parked[r] \in {{}, parked[r]}
    OBVIOUS
  <2>3. Waiters(flushes') /\ IsCalls(swept') /\ lost \subseteq lost'
    BY <1>1, <2>1
  <2>4. \A r \in Records : parked[r] # {} /\ parked[r] = {} => r \in lost'
    OBVIOUS
  <2> DEFINE force == FALSE
  <2>5. force \in BOOLEAN /\ LoadHistory(force, parked, stamped)
    BY <2>1
  <2>6. force \/ (listing = "no" /\ loaded # "yes" /\ UNCHANGED <<swept, wipe, flushes>>)
    BY <2>1
  <2> HIDE DEF force
  <2>7. UNCHANGED <<mirror, disk, snap, pool, wipedHeard, ops, born, loaded>>
    BY <2>1
  <2> QED
    BY <2>2, <2>3, <2>4, <2>5, <2>6, <2>7, HistoryLoad
<1>3. CASE Chained
  <2>1. /\ listing = "no" /\ asked' = asked \o Saves(Listed(parked), parked) \o <<ListCall>>
        /\ parked' = Nothing /\ listing' = "asked" /\ sessionOnly' = FALSE /\ ghosts' = Dying
        /\ touched' = [r \in Listed(parked) |-> IF mirror[r] # {} THEN mirror[r] ELSE parked[r]]
        /\ again > 0 /\ again' = again - 1
        /\ UNCHANGED <<mirror, disk, snap, pool, wipedHeard, ops, born, lost, flushes, swept>>
    BY <1>3 DEF Chained, ChainDue, historyDisk
  <2>2. \A r \in Records : parked[r] \in {{}, parked[r]}
    OBVIOUS
  <2>3. DOMAIN touched' = Listed(parked) \cup (IF sessionOnly' THEN Listed(mirror) ELSE {})
    BY <2>1
  <2>4. again' \in Nat
    BY <1>1, <2>1
  <2>5. Waiting'
    BY <1>1, <2>1, <2>4 DEF Waiting
  <2> QED
    BY <2>1, <2>2, <2>3, <2>5, HistoryListed
<1>4. CASE ListRuns
  <2>1. /\ listing = "running" /\ asked' = asked
        /\ \/ snap' = disk /\ listing' = "read"
           \/ snap' = snap /\ listing' = "unread"
        /\ UNCHANGED <<mirror, parked, touched, disk, pool, lost, wipedHeard, ghosts, born, ops,
                       loaded, sessionOnly, swept, again, wipe, flushes>>
    BY <1>4 DEF ListRuns, restWindow, historyDisk
  <2> QED
    BY <2>1, HistoryListRan
<1>5. CASE ListLands
  <2>1. /\ listing \in {"read", "unread"} /\ asked' = asked /\ listing' = "no" /\ snap' = Nothing
        /\ \/ listing = "read" /\ mirror' = Replayed /\ sessionOnly' = FALSE
           \/ /\ listing = "unread" /\ mirror' = mirror /\ loaded' = "failed"
              /\ sessionOnly' = sessionOnly
        /\ UNCHANGED <<parked, disk, pool, lost, wipedHeard, ghosts, born, ops, swept, again, wipe,
                       flushes>>
    BY <1>5 DEF ListLands, callVars, historyDisk
  <2> QED
    BY <1>1, <2>1, HistoryLanded
<1> QED
  BY <1>2, <1>3, <1>4, <1>5

-----------------------------------------------------------------------------
(* The oldest of those whose wait is over.                                  *)

LEMMA Least ==
  ASSUME NEW S \in SUBSET Nat, S # {}
  PROVE  \E m \in S : \A k \in S : m <= k
<1> DEFINE R == OpToRel(<, Nat)
<1>1. IsWellFoundedOn(R, Nat)
  BY NatLessThanWellFounded, Zenon
<1>2. \A x, y \in Nat : <<y, x>> \in R <=> y < x
  BY DEF OpToRel
<1> HIDE DEF R
<1>3. \E x \in S : \A y \in S : ~(<<y, x>> \in R)
  BY <1>1, WFMin
<1>4. PICK m \in S : \A y \in S : ~(<<y, m>> \in R)
  BY <1>3
<1>5. \A k \in S : m <= k
  <2>1. \A k \in S : ~(k < m)
    BY <1>2, <1>4
  <2>2. m \in Nat /\ \A k \in S : k \in Nat
    OBVIOUS
  <2> QED
    BY <2>1, <2>2
<1> QED
  BY <1>5

LEMMA OldestDue ==
  ASSUME Waiters(flushes), FlushDue
  PROVE  \E i \in 1..Len(flushes) : Due(flushes[i]) /\ \A j \in 1..(i - 1) : ~Due(flushes[j])
<1> DEFINE S == {i \in 1..Len(flushes) : Due(flushes[i])}
<1>1. Len(flushes) \in Nat
  BY CallsShapes DEF Waiters
<1>2. S \in SUBSET Nat /\ S # {}
  BY DEF FlushDue
<1>3. \A i : i \in S <=> i \in 1..Len(flushes) /\ Due(flushes[i])
  OBVIOUS
<1> HIDE DEF S
<1>4. PICK m \in S : \A k \in S : m <= k
  BY <1>2, Least
<1>5. ASSUME NEW j \in 1..(m - 1) PROVE ~Due(flushes[j])
  <2>1. m \in 1..Len(flushes)
    BY <1>3
  <2>2. j \in 1..Len(flushes) /\ j < m
    BY <1>1, <2>1
  <2>3. j \notin S
    BY <1>1, <1>4, <2>1, <2>2
  <2> QED
    BY <1>3, <2>2, <2>3
<1> QED
  BY <1>3, <1>4, <1>5

-----------------------------------------------------------------------------
(* The calls of History that arrive, its sweeps and wipes.                    *)

LEMMA DyingTaken ==
  ASSUME IsCalls(asked), asked # <<>>, asked' = Tail(asked), pool \subseteq pool',
         Head(asked).cmd = "delete" => Head(asked).rec \in pool'
  PROVE  Dying \subseteq Dying'
<1>1. /\ Len(asked') = Len(asked) - 1
      /\ \A i \in 1..Len(asked') : i + 1 \in 1..Len(asked) /\ asked'[i] = asked[i + 1]
  BY CallsTail
<1>2. Len(asked) \in Nat /\ Head(asked) = asked[1]
  BY CallsShapes
<1>3. ASSUME NEW i \in 1..Len(asked), asked[i].cmd = "delete" PROVE asked[i].rec \in Dying'
  <2>1. CASE i = 1
    BY <1>2, <1>3, <2>1 DEF Dying
  <2>2. CASE i # 1
    <3> DEFINE k == i - 1
    <3>1. k \in 1..Len(asked') /\ k + 1 = i
      BY <1>1, <1>2, <2>2
    <3> HIDE DEF k
    <3>2. asked'[k] = asked[i]
      BY <1>1, <3>1
    <3> QED
      BY <1>3, <3>1, <3>2 DEF Dying
  <2> QED
    BY <2>1, <2>2
<1>4. pool \subseteq Dying'
  BY DEF Dying
<1> QED
  BY <1>3, <1>4 DEF Dying

LEMMA HistoryTook ==
  ASSUME HistoryInv, MirrorInv, OneListing, IsCalls(asked), asked # <<>>, asked' = Tail(asked),
         Head(asked).cmd # "save_record", pool \subseteq pool',
         Head(asked).cmd = "delete" => Head(asked).rec \in pool',
         Waiting', ListDue => ListDue',
         \/ listing' = listing
         \/ Head(asked).cmd = "list" /\ listing' = "running",
         UNCHANGED <<ops, mirror, parked, touched, snap, wipedHeard, loaded, sessionOnly, ghosts,
                     born, disk, lost>>
  PROVE  HistoryInv'
<1>1. \A r : ~IsSaveOf(r)
  BY DEF IsSaveOf
<1>2. Dying \subseteq Dying'
  BY DyingTaken
<1>3. \A r \in Records : ~IsSaveOf(r) => disk'[r] = disk[r] /\ (r \in lost' <=> r \in lost)
  OBVIOUS
<1>4. \A r \in Records : IsSaveOf(r) =>
        \/ disk'[r] = disk[r] /\ r \in lost'
        \/ /\ disk'[r] = Head(asked).body
           /\ r \in lost' <=> r \in lost /\ Head(asked).body # mirror[r]
  BY <1>1
<1> QED
  BY <1>2, <1>3, <1>4, HistoryTaken

LEMMA HistorySaved ==
  ASSUME HistoryInv, MirrorInv, DeletesInv, IsCalls(asked), SaveRecord
  PROVE  HistoryInv'
<1> DEFINE c == Head(asked)
<1>1. /\ asked # <<>> /\ c.cmd = "save_record" /\ asked' = Tail(asked) /\ listing' = listing
      /\ flushes' = Settled(flushes)
      /\ UNCHANGED <<ops, mirror, parked, touched, snap, wipedHeard, loaded, sessionOnly, ghosts,
                     born, pool, swept, again, wipe>>
      /\ \/ disk' = [disk EXCEPT ![c.rec] = c.body] /\ lost' = lost \ {r \in {c.rec} : c.body = mirror[r]}
         \/ disk' = disk /\ lost' = lost \cup {c.rec}
  BY DEF SaveRecord, Arrives
<1>2. OneListing /\ IsMap(disk) /\ Waiters(flushes) /\ IsCalls(swept) /\ again \in Nat
  BY DEF DeletesInv, RecordsShape, HistoryInv, Waiting
<1>3. Waiters(Settled(flushes)) /\ (Relists(flushes) => Relists(Settled(flushes)))
  BY <1>2, WaitersTold
<1>4. Waiting' /\ (ListDue => ListDue')
  BY <1>1, <1>2, <1>3 DEF Waiting, ListDue
<1>5. Dying \subseteq Dying'
  BY <1>1, DyingTaken
<1>6. ASSUME NEW r \in Records, ~IsSaveOf(r)
      PROVE  disk'[r] = disk[r] /\ (r \in lost' <=> r \in lost)
  <2>1. r # c.rec
    BY <1>1, <1>6 DEF IsSaveOf
  <2> HIDE DEF c
  <2> QED
    BY <1>1, <1>2, <2>1 DEF IsMap
<1>7. ASSUME NEW r \in Records, IsSaveOf(r)
      PROVE  \/ disk'[r] = disk[r] /\ r \in lost'
             \/ /\ disk'[r] = Head(asked).body
                /\ r \in lost' <=> r \in lost /\ Head(asked).body # mirror[r]
  <2>1. r = c.rec
    BY <1>7 DEF IsSaveOf
  <2>2. CASE disk' = disk /\ lost' = lost \cup {c.rec}
    BY <2>1, <2>2
  <2>3. CASE disk' = [disk EXCEPT ![c.rec] = c.body] /\ lost' = lost \ {q \in {c.rec} : c.body = mirror[q]}
    <3> DEFINE b == c.body
    <3>1. disk'[r] = b
      BY <1>2, <2>1, <2>3 DEF IsMap
    <3>2. r \in lost' <=> r \in lost /\ b # mirror[r]
      BY <2>1, <2>3
    <3> QED
      BY <3>1, <3>2
  <2> QED
    BY <1>1, <2>2, <2>3
<1> HIDE DEF c
<1>8. asked # <<>> /\ asked' = Tail(asked)
  BY <1>1
<1> QED
  BY <1>1, <1>2, <1>4, <1>5, <1>6, <1>7, <1>8, HistoryTaken

LEMMA HistoryArrives ==
  ASSUME HistoryInv, MirrorInv, DeletesInv, IsCalls(asked), DeleteArrives \/ ListArrives \/ WipeArrives
  PROVE  HistoryInv'
<1>1. OneListing /\ Waiters(flushes) /\ IsCalls(swept) /\ again \in Nat
  BY DEF DeletesInv, HistoryInv, Waiting
<1>2. CASE DeleteArrives
  <2>1. /\ asked # <<>> /\ Head(asked).cmd = "delete" /\ asked' = Tail(asked)
        /\ pool' = pool \cup {Head(asked).rec} /\ listing' = listing
        /\ UNCHANGED <<ops, mirror, parked, touched, snap, wipedHeard, loaded, sessionOnly, ghosts,
                       born, disk, lost>>
    BY <1>2 DEF DeleteArrives, Arrives, historyWindow
  <2>2. UNCHANGED <<swept, again, wipe, flushes>>
    BY <1>2 DEF DeleteArrives, historyWindow
  <2>3. Waiting' /\ (ListDue => ListDue')
    BY <2>2, WaitingSame
  <2>4. pool \subseteq pool' /\ Head(asked).rec \in pool' /\ Head(asked).cmd # "save_record"
    BY <2>1
  <2> QED
    BY <1>1, <2>1, <2>3, <2>4, HistoryTook
<1>3. CASE ListArrives
  <2>1. /\ asked # <<>> /\ Head(asked).cmd = "list" /\ asked' = Tail(asked)
        /\ pool' = pool /\ listing' = "running"
        /\ UNCHANGED <<ops, mirror, parked, touched, snap, wipedHeard, loaded, sessionOnly, ghosts,
                       born, disk, lost>>
    BY <1>3 DEF ListArrives, Arrives, restWindow, historyDisk
  <2>2. UNCHANGED <<swept, again, wipe, flushes>>
    BY <1>3 DEF ListArrives, restWindow, historyDisk
  <2>3. Waiting' /\ (ListDue => ListDue')
    BY <2>2, WaitingSame
  <2>4. pool \subseteq pool' /\ Head(asked).cmd # "delete" /\ Head(asked).cmd # "save_record"
    BY <2>1
  <2> QED
    BY <1>1, <2>1, <2>3, <2>4, HistoryTook
<1>4. CASE WipeArrives
  <2>1. /\ asked # <<>> /\ Head(asked).cmd = "wipe" /\ asked' = Tail(asked)
        /\ pool' = pool /\ listing' = listing /\ wipe' = "running"
        /\ UNCHANGED <<ops, mirror, parked, touched, snap, wipedHeard, loaded, sessionOnly, ghosts,
                       born, disk, lost, swept, again, flushes>>
    BY <1>4 DEF WipeArrives, Arrives, restWindow, historyDisk
  <2>2. pool \subseteq pool' /\ Head(asked).cmd # "delete" /\ Head(asked).cmd # "save_record"
    BY <2>1
  <2>3. Waiting' /\ ListDue'
    BY <1>1, <2>1 DEF Waiting, ListDue
  <2> QED
    BY <1>1, <2>1, <2>2, <2>3, HistoryTook
<1> QED
  BY <1>2, <1>3, <1>4

LEMMA HistoryHeard ==
  ASSUME HistoryInv, MirrorInv, IsCalls(asked), NEW keep, HearSweep(keep)
  PROVE  HistoryInv'
<1>1. /\ parked' = Nothing
      /\ UNCHANGED <<ops, mirror, snap, touched, disk, listing, loaded, sessionOnly, ghosts, born,
                     again, pool>>
      /\ swept # <<>> /\ swept' = Tail(swept)
      /\ \E saves : flushes' = Append(flushes, Waiter(saves, "list"))
  BY DEF HearSweep
<1>2. PICK t : Flushes(t)
  BY HeardCalls
<1>3. PICK saves : flushes' = Append(flushes, Waiter(saves, "list"))
  BY <1>1
<1>4. Waiters(flushes') /\ Relists(flushes')
  <2> DEFINE w == Waiter(saves, "list")
  <2>1. "then" \in DOMAIN w /\ w.then = "list"
    BY DEF Waiter
  <2>2. flushes' = Append(flushes, w) /\ Waiters(flushes)
    BY <1>3 DEF HistoryInv, Waiting
  <2> HIDE DEF w
  <2> QED
    BY <2>1, <2>2, WaitersAdded
<1>5. Waiting' /\ ListDue'
  <2>1. IsCalls(swept')
    BY <1>1, CallsTail DEF HistoryInv, Waiting
  <2> QED
    BY <1>1, <1>4, <2>1 DEF HistoryInv, Waiting, ListDue
<1>6. \A r \in Records : disk'[r] \in {{}, disk[r]}
  BY <1>1
<1> QED
  BY <1>1, <1>2, <1>5, <1>6, HistoryFlushed

LEMMA HistoryAsked ==
  ASSUME HistoryInv, MirrorInv, IsCalls(asked), AskWipe
  PROVE  HistoryInv'
<1>1. /\ asked' = asked \o Saves(Listed(parked), parked) /\ parked' = Nothing /\ ops' = Edit
      /\ wipe' = "flushing" /\ lost' = lost
      /\ UNCHANGED <<mirror, snap, touched, disk, listing, loaded, sessionOnly, ghosts, born,
                     again, pool, wipedHeard, swept>>
      /\ \E saves : flushes' = Append(flushes, Waiter(saves, "wipe"))
  BY DEF AskWipe, Acts, Edit, historyDisk
<1>2. PICK t : Flushes(t)
  BY <1>1, ParkedCalls
<1>3. PICK saves : flushes' = Append(flushes, Waiter(saves, "wipe"))
  BY <1>1
<1>4. Waiters(flushes')
  <2> DEFINE w == Waiter(saves, "wipe")
  <2>1. "then" \in DOMAIN w
    BY DEF Waiter
  <2>2. flushes' = Append(flushes, w) /\ Waiters(flushes)
    BY <1>3 DEF HistoryInv, Waiting
  <2> HIDE DEF w
  <2> QED
    BY <2>1, <2>2, WaitersAdded
<1>5. Waiting' /\ ListDue'
  BY <1>1, <1>4 DEF HistoryInv, Waiting, ListDue
<1>6. \A r \in Records : disk'[r] \in {{}, disk[r]}
  BY <1>1
<1> QED
  BY <1>1, <1>2, <1>5, <1>6, HistoryFlushed

LEMMA HistoryWiped ==
  ASSUME HistoryInv, MirrorInv, DeletesInv, IsCalls(asked),
         WipeRuns \/ WipeFails \/ WipeAnswered \/ RunSweep
  PROVE  HistoryInv'
<1>1. Waiters(flushes) /\ IsCalls(swept) /\ again \in Nat
  BY DEF HistoryInv, Waiting
<1>2. CASE WipeRuns
  <2>1. /\ asked' = asked /\ disk' = [r \in Records |-> IF r \in Dictations THEN {} ELSE disk[r]]
        /\ wipe' = "wiped" /\ ops' = ops
        /\ UNCHANGED <<mirror, parked, snap, touched, listing, lost, wipedHeard, loaded, sessionOnly,
                       ghosts, born, pool, again, flushes, swept>>
    BY <1>2 DEF WipeRuns, callVars, restWindow
  <2>2. \A r \in Records : disk'[r] \in {{}, disk[r]}
    BY <2>1
  <2>3. Waiting' /\ ListDue'
    BY <1>1, <2>1 DEF Waiting, ListDue
  <2> QED
    BY <2>1, <2>2, <2>3, HistorySame
<1>3. CASE WipeFails
  <2>1. /\ asked' = asked /\ disk' = disk /\ wipe' = "failed" /\ ops' = ops
        /\ UNCHANGED <<mirror, parked, snap, touched, listing, lost, wipedHeard, loaded, sessionOnly,
                       ghosts, born, pool, again, flushes, swept>>
    BY <1>3 DEF WipeFails, restWindow, historyDisk
  <2>2. \A r \in Records : disk'[r] \in {{}, disk[r]}
    BY <2>1
  <2>3. Waiting' /\ ListDue'
    BY <1>1, <2>1 DEF Waiting, ListDue
  <2> QED
    BY <2>1, <2>2, <2>3, HistorySame
<1>4. CASE WipeAnswered
  <2> DEFINE drop == IF wipe = "wiped" THEN preWipe ELSE {}
             parks == Dropped(drop)
             kept == Unstamped(drop)
             force == TRUE
  <2>1. /\ LoadHistory(force, parks, kept)
        /\ lost' = lost \cup {r \in drop : parked[r] # {}}
        /\ flushes' = flushes /\ swept' = swept
        /\ UNCHANGED <<mirror, disk, snap, pool, wipedHeard, ops, born, loaded>>
    BY <1>4 DEF WipeAnswered, historyDisk
  <2>2. \A r \in Records : parks[r] = IF r \in drop THEN {} ELSE parked[r]
    BY DEF Dropped
  <2>3. force \in BOOLEAN /\ force
    OBVIOUS
  <2> HIDE DEF force, kept, parks, drop
  <2>4. \A r \in Records : parks[r] \in {{}, parked[r]}
    BY <2>2
  <2>5. lost \subseteq lost'
    BY <2>1
  <2>6. \A r \in Records : parked[r] # {} /\ parks[r] = {} => r \in lost'
    BY <2>1, <2>2
  <2>7. /\ LoadHistory(force, parks, kept)
        /\ UNCHANGED <<mirror, disk, snap, pool, wipedHeard, ops, born, loaded>>
    BY <2>1
  <2>8. force \/ (listing = "no" /\ loaded # "yes" /\ UNCHANGED <<swept, wipe, flushes>>)
    BY <2>3
  <2>9. Waiters(flushes') /\ IsCalls(swept')
    BY <1>1, <2>1
  <2> QED
    <3>1. ASSUME NEW p, NEW k, NEW f, p = parks, k = kept, f = force PROVE HistoryInv'
      <4>1. /\ f \in BOOLEAN /\ LoadHistory(f, p, k)
            /\ \A r \in Records : p[r] \in {{}, parked[r]}
            /\ \A r \in Records : parked[r] # {} /\ p[r] = {} => r \in lost'
            /\ f \/ (listing = "no" /\ loaded # "yes" /\ UNCHANGED <<swept, wipe, flushes>>)
        BY <2>3, <2>4, <2>6, <2>7, <2>8, <3>1
      <4> QED
        BY <2>5, <2>7, <2>9, <4>1, HistoryLoad
    <3> QED
      BY <3>1
<1>5. CASE RunSweep
  <2>1. /\ asked' = asked /\ ops' = ops
        /\ UNCHANGED <<mirror, parked, snap, touched, listing, lost, wipedHeard, loaded, sessionOnly,
                       ghosts, born, pool, again, wipe, flushes>>
    BY <1>5 DEF RunSweep, callVars, historyWindow
  <2>2. PICK gone : /\ disk' = [r \in Records |-> IF r \in gone THEN {} ELSE disk[r]]
                    /\ \E w : swept' = IF gone = {} THEN swept ELSE Append(swept, w)
    <3>1. PICK old \in SUBSET (Aged \cap Listed(disk)) :
            LET gone == (IF ~sweeping.keep THEN Dictations \cap Listed(disk) ELSE {})
                        \cup (IF sweeping.brief THEN old ELSE {})
            IN  /\ disk' = [r \in Records |-> IF r \in gone THEN {} ELSE disk[r]]
                /\ swept' = IF gone = {} THEN swept ELSE Append(swept, ~sweeping.keep)
      BY <1>5 DEF RunSweep, Sweep
    <3> QED
      BY <3>1
  <2>3. \A r \in Records : disk'[r] \in {{}, disk[r]}
    BY <2>2
  <2>4. CASE gone = {}
    <3>1. swept' = swept /\ IsMap(disk)
      BY <2>2, <2>4 DEF DeletesInv, RecordsShape
    <3>2. disk' = disk
      BY <2>2, <2>4, <3>1 DEF IsMap
    <3>3. Waiting' /\ (ListDue => ListDue')
      BY <2>1, <3>1, WaitingSame
    <3> QED
      BY <2>1, <2>3, <3>2, <3>3, HistorySame
  <2>5. CASE gone # {}
    <3>1. PICK w : swept' = Append(swept, w)
      BY <2>2, <2>5
    <3>2. PICK X : swept \in Seq(X)
      BY <1>1 DEF IsCalls
    <3>3. swept \in Seq(X \cup {w}) /\ w \in X \cup {w}
      BY <3>2, SeqMonotonic
    <3>4. IsCalls(swept') /\ swept' # <<>>
      BY <3>1, <3>3, AppendProperties DEF IsCalls
    <3>5. Waiting' /\ ListDue'
      BY <1>1, <2>1, <3>4 DEF Waiting, ListDue
    <3> QED
      BY <2>1, <2>3, <3>5, HistorySame
  <2> QED
    BY <2>4, <2>5
<1> QED
  BY <1>2, <1>3, <1>4, <1>5

LEMMA HistorySettled ==
  ASSUME HistoryInv, MirrorInv, DeletesInv, IsCalls(asked), FlushSettles
  PROVE  HistoryInv'
<1>1. Waiters(flushes) /\ IsCalls(swept) /\ again \in Nat
  BY DEF HistoryInv, Waiting
<1> DEFINE i == CHOOSE i \in 1..Len(flushes) :
                  Due(flushes[i]) /\ \A j \in 1..(i - 1) : ~Due(flushes[j])
<1>2. i \in 1..Len(flushes)
  <2>1. FlushDue
    BY DEF FlushSettles
  <2> QED
    BY <1>1, <2>1, OldestDue
<1>3. /\ flushes' = RemoveAt(flushes, i)
      /\ \/ LoadHistory(TRUE, parked, stamped)
         \/ /\ flushes[i].then = "wipe" /\ asked' = Append(asked, WipeCall) /\ wipe' = "asked"
            /\ UNCHANGED <<parked, sessionOnly, again, listing, touched, ghosts>>
         \/ /\ flushes[i].then = "quit"
            /\ UNCHANGED <<asked, wipe, parked, sessionOnly, again, listing, touched, ghosts>>
      /\ UNCHANGED <<mirror, snap, disk, wipedHeard, lost, ops, born, pool, loaded, swept>>
  BY DEF FlushSettles, historyDisk
<1> HIDE DEF i
<1>4. Waiters(RemoveAt(flushes, i))
  BY <1>1, <1>2, WaiterLeft
<1>5. flushes[i].then # "list" => (Relists(flushes) => Relists(RemoveAt(flushes, i)))
  BY <1>1, <1>2, WaiterLeft
<1>6. Waiters(flushes') /\ IsCalls(swept')
  BY <1>1, <1>3, <1>4
<1>7. \A r \in Records : disk'[r] \in {{}, disk[r]} /\ parked[r] \in {{}, parked[r]}
  BY <1>3
<1>8. CASE LoadHistory(TRUE, parked, stamped)
  <2>1. ASSUME NEW f, f = TRUE PROVE HistoryInv'
    <3>1. f \in BOOLEAN /\ LoadHistory(f, parked, stamped)
      BY <1>8, <2>1
    <3>2. f \/ (listing = "no" /\ loaded # "yes" /\ UNCHANGED <<swept, wipe, flushes>>)
      BY <2>1
    <3>3. lost \subseteq lost' /\ \A r \in Records : parked[r] # {} /\ parked[r] = {} => r \in lost'
      BY <1>3
    <3>4. UNCHANGED <<mirror, disk, snap, pool, wipedHeard, ops, born, loaded>>
      BY <1>3
    <3> QED
      BY <1>6, <1>7, <3>1, <3>2, <3>3, <3>4, HistoryLoad
  <2> QED
    BY <2>1
<1>9. CASE /\ asked' = Append(asked, WipeCall) /\ wipe' = "asked"
           /\ UNCHANGED <<parked, sessionOnly, again, listing, touched, ghosts>>
  <2> DEFINE c == WipeCall
             t == <<c>>
  <2>1. c.cmd # "save_record" /\ c.cmd # "list"
    BY DEF WipeCall
  <2>2. asked' = asked \o t
    <3>1. PICK X : asked \in Seq(X)
      BY DEF IsCalls
    <3>2. asked \in Seq(X \cup {c}) /\ c \in X \cup {c}
      BY <3>1, SeqMonotonic
    <3> HIDE DEF c
    <3> QED
      BY <1>9, <3>2, AppendIsConcat DEF c
  <2> HIDE DEF c
  <2>3. IsCalls(t) /\ SavesIn(t) = {} /\ ListsIn(t) = {}
    BY <2>1, InOne
  <2> HIDE DEF t
  <2>4. Waiting' /\ ListDue'
    BY <1>1, <1>6, <1>9 DEF Waiting, ListDue
  <2> QED
    BY <1>3, <1>7, <1>9, <2>2, <2>3, <2>4, HistoryBeside
<1>10. CASE /\ flushes[i].then = "quit"
            /\ UNCHANGED <<asked, wipe, parked, sessionOnly, again, listing, touched, ghosts>>
  <2>1. Relists(flushes) => Relists(flushes')
    BY <1>3, <1>5, <1>10
  <2>2. Waiting' /\ (ListDue => ListDue')
    BY <1>1, <1>3, <1>6, <1>10, <2>1 DEF Waiting, ListDue
  <2> QED
    BY <1>3, <1>7, <1>10, <2>2, HistorySame
<1> QED
  BY <1>3, <1>8, <1>9, <1>10

LEMMA HistoryFlushAll ==
  ASSUME HistoryInv, MirrorInv, DeletesInv, IsCalls(asked), NEW quits, FlushAll(quits)
  PROVE  HistoryInv'
<1>1. /\ mirror' = TypedMirror /\ parked' = Nothing
      /\ touched' = (IF listing = "no" THEN touched ELSE TouchAll(TypedMirror, Typed))
      /\ UNCHANGED <<snap, disk, pool, listing, loaded, sessionOnly, ghosts, wipedHeard, lost, born,
                     ops, swept, again, wipe>>
      /\ flushes' = flushes \/ \E saves : flushes' = Append(flushes, Waiter(saves, "quit"))
  BY DEF FlushAll, FlushHistory, historyDisk
<1>2. PICK v : FlushesAll(v)
  BY FlushAllCalls DEF MirrorInv
<1>3. /\ IsCalls(v) /\ asked' = asked \o v /\ WritesMirror(v)
      /\ Writable(Listed(TypedParked)) \subseteq SavesIn(v)
  BY <1>2 DEF FlushesAll
<1>4. ASSUME NEW q \in Records
      PROVE  /\ q \in Typed => /\ mirror'[q] = mirror[q] \cup typing[q] /\ mirror[q] # {}
                               /\ TypedParked[q] = mirror'[q] /\ q \in Files
             /\ q \notin Typed => mirror'[q] = mirror[q] /\ TypedParked[q] = parked[q]
  BY <1>1, TypedCopies DEF MirrorInv
<1>5. Waiting' /\ (ListDue => ListDue')
  <2>1. Waiters(flushes) /\ IsCalls(swept) /\ again \in Nat
    BY DEF HistoryInv, Waiting
  <2>2. Waiters(flushes') /\ (Relists(flushes) => Relists(flushes'))
    <3>1. ASSUME NEW saves, flushes' = Append(flushes, Waiter(saves, "quit"))
          PROVE  Waiters(flushes') /\ (Relists(flushes) => Relists(flushes'))
      <4> DEFINE w == Waiter(saves, "quit")
      <4>1. "then" \in DOMAIN w /\ flushes' = Append(flushes, w)
        BY <3>1 DEF Waiter
      <4> HIDE DEF w
      <4> QED
        BY <2>1, <4>1, WaitersAdded
    <3> QED
      BY <1>1, <2>1, <3>1
  <2> QED
    BY <1>1, <2>1, <2>2 DEF Waiting, ListDue
<1>6. /\ DOMAIN touched \subseteq DOMAIN touched'
      /\ listing # "no" => DOMAIN touched' = Typed \cup DOMAIN touched
      /\ listing = "no" => touched' = touched
  <2>1. CASE listing = "no"
    BY <1>1, <2>1
  <2>2. CASE listing # "no"
    BY <1>1, <2>2 DEF TouchAll
  <2> QED
    BY <2>1, <2>2
<1>7. \A q \in Records : parked'[q] = {}
  BY <1>1, NothingIsMap
<1>8. ASSUME NEW q \in Records, q \in Typed PROVE Remade(q, v)
  <2>1. TypedParked[q] # {} /\ q \notin Dictations /\ mirror[q] # {}
    BY <1>4, <1>8, RecordsAssumption
  <2>2. q \in SavesIn(v)
    BY <1>3, <2>1 DEF Writable, Listed
  <2> QED
    BY <1>6, <1>8, <2>1, <2>2 DEF Remade
<1>9. ASSUME NEW q \in Records, q \notin Typed PROVE Stays(q, v)
  <2>1. Waits(q) => q \in SavesIn(v)
    BY <1>3, <1>4, <1>9 DEF Waits, Writable, Listed
  <2>2. q \in DOMAIN touched' => q \in DOMAIN touched
    BY <1>6, <1>9
  <2> QED
    BY <1>4, <1>7, <1>9, <2>1, <2>2 DEF Stays
<1>10. ListDue' \/ (~ListDue /\ \A q \in Records : Clears(q))
  BY <1>1, <1>5 DEF Clears
<1>11. \A q \in Records : /\ disk'[q] \in {{}, disk[q]}
                          /\ Stays(q, v) \/ Remade(q, v)
                          /\ parked'[q] # {} => q \notin SavesIn(v)
  BY <1>1, <1>7, <1>8, <1>9
<1> QED
  BY <1>1, <1>3, <1>5, <1>6, <1>10, <1>11, HistoryAdd

-----------------------------------------------------------------------------
(* The other stores' steps, and the ends of a life.                          *)

LEMMA HistoryElsewhere ==
  ASSUME HistoryInv, MirrorInv, DeletesInv, IsCalls(asked), UNCHANGED historyVars,
         ops' \in {ops, Edit},
         \/ asked' = asked
         \/ asked # <<>> /\ asked' = Tail(asked) /\ Head(asked).cmd \in ConfigCmds /\ ops' = ops
         \/ \E known : asked' = asked \o FlushCalls(known) \/ asked' = asked \o SaveCalls(known)
  PROVE  HistoryInv'
<1>1. UNCHANGED <<mirror, parked, snap, touched, disk, pool, listing, loaded, sessionOnly, lost,
                  wipedHeard, ghosts, born, swept, again, wipe, flushes>>
  BY DEF historyVars, historyWindow, historyDisk
<1>2. Waiting' /\ (ListDue => ListDue')
  BY <1>1, WaitingSame
<1>3. \A r \in Records : disk'[r] \in {{}, disk[r]}
  BY <1>1
<1>4. CASE asked' = asked
  BY <1>1, <1>2, <1>3, <1>4, HistorySame
<1>5. CASE asked # <<>> /\ asked' = Tail(asked) /\ Head(asked).cmd \in ConfigCmds /\ ops' = ops
  <2>1. Head(asked).cmd # "save_record" /\ Head(asked).cmd # "delete" /\ OneListing
    BY <1>5 DEF ConfigCmds, DeletesInv
  <2> QED
    BY <1>1, <1>2, <1>5, <2>1, HistoryTook
<1>6. ASSUME NEW known, asked' = asked \o FlushCalls(known) \/ asked' = asked \o SaveCalls(known)
      PROVE  HistoryInv'
  <2>1. PICK t : asked' = asked \o t /\ (t = FlushCalls(known) \/ t = SaveCalls(known))
    BY <1>6
  <2>2. IsCalls(t) /\ SavesIn(t) = {} /\ ListsIn(t) = {}
    BY <2>1, ConfigCalls
  <2> QED
    BY <1>1, <1>2, <1>3, <2>1, <2>2, HistoryBeside
<1> QED
  BY <1>4, <1>5, <1>6

LEMMA HistoryBegun ==
  ASSUME HistoryInv, MirrorInv, ConfigInv, Launch
  PROVE  HistoryInv'
<1> DEFINE c == [cmd |-> "load_config"]
           t == <<c>>
<1>1. asked = <<>> /\ asked' = t /\ UNCHANGED historyVars /\ ops' = ops
  BY DEF Launch, ConfigInv, CallsInOrder
<1>2. c.cmd # "save_record" /\ c.cmd # "list"
  OBVIOUS
<1> HIDE DEF c
<1>3. IsCalls(t) /\ SavesIn(t) = {} /\ ListsIn(t) = {}
  BY <1>2, InOne
<1> HIDE DEF t
<1>4. asked' = asked \o t
  <2>1. PICK X : t \in Seq(X)
    BY <1>3 DEF IsCalls
  <2>2. <<>> \o t = t
    BY <2>1, ConcatEmptySeq
  <2> QED
    BY <1>1, <2>2
<1>5. UNCHANGED <<mirror, parked, snap, touched, disk, pool, listing, loaded, sessionOnly, lost,
                  wipedHeard, ghosts, born, swept, again, wipe, flushes>>
  BY <1>1 DEF historyVars, historyWindow, historyDisk
<1>6. Waiting' /\ (ListDue => ListDue')
  BY <1>5, WaitingSame
<1>7. IsCalls(asked) /\ \A r \in Records : disk'[r] \in {{}, disk[r]}
  BY <1>5 DEF ConfigInv, CallsInOrder
<1> QED
  BY <1>1, <1>3, <1>4, <1>5, <1>6, <1>7, HistoryBeside

(* A window that knows of nothing, nor waits for anything.                     *)
Fresh ==
  /\ Blankly /\ loaded = "no" /\ sessionOnly = TRUE /\ snap = Nothing /\ flushes = <<>>
  /\ swept = <<>> /\ again = 0 /\ ghosts = {} /\ wipedHeard = FALSE
  /\ ops \in Nat /\ \A r \in Dictations : disk[r] \subseteq 0..ops

LEMMA HistoryBlank == Fresh => HistoryInv
<1> SUFFICES ASSUME Fresh PROVE HistoryInv
  OBVIOUS
<1> USE DEF Fresh, Blankly
<1>1. \A r : SavesOf(r) = {}
  <2>1. Len(asked) = 0
    BY CallsNone
  <2> QED
    BY <2>1 DEF SavesOf, CallsOf
<1>2. \A r \in Records : mirror[r] = {} /\ parked[r] = {} /\ snap[r] = {}
  BY NothingIsMap
<1>3. Waiting
  <2>1. Len(flushes) = 0 /\ IsCalls(flushes) /\ IsCalls(swept)
    BY CallsNone
  <2> QED
    BY <2>1 DEF Waiting, Waiters
<1>4. Shows
  BY <1>2 DEF Shows, Told, Shown
<1>5. Seeded
  BY <1>2 DEF Seeded
<1>6. Edits
  BY <1>1, <1>2 DEF Edits, Known, Records
<1>7. Forbidden
  BY DEF Forbidden
<1> QED
  BY <1>3, <1>4, <1>5, <1>6, <1>7 DEF HistoryInv

LEMMA HistoryStart == Init => HistoryInv
<1>1. Init => Fresh
  BY DEF Init, HistoryInit, Fresh, Blankly, Records
<1> QED
  BY <1>1, HistoryBlank

LEMMA HistoryEnded == ASSUME HistoryInv, Dies PROVE HistoryInv'
<1>1. ops \in Nat /\ \A r \in Dictations : disk[r] \subseteq 0..ops
  BY DEF HistoryInv, Edits, Known
<1>2. Fresh'
  BY <1>1 DEF Dies, HistoryDies, Fresh, Blankly
<1>3. Fresh' => HistoryInv'
  BY HistoryBlank, PTL
<1> QED
  BY <1>2, <1>3

LEMMA HistoryStep ==
  ASSUME HistoryInv, MirrorInv, DeletesInv, ConfigInv, [Next]_vars
  PROVE  HistoryInv'
<1>1. IsCalls(asked)
  BY DEF ConfigInv, CallsInOrder
<1>2. ASSUME UNCHANGED historyVars, asked' = asked, ops' \in {ops, Edit} PROVE HistoryInv'
  BY <1>1, <1>2, HistoryElsewhere
<1>3. CASE Launch
  BY <1>3, HistoryBegun
<1>4. CASE Crash \/ Exit
  BY <1>4, HistoryEnded DEF Crash, Exit
<1>5. CASE Callbacks
  <2>1. CASE Reflush /\ OnConfig
    <3>1. UNCHANGED historyVars /\ asked' = asked \o FlushCalls(permitted) /\ ops' = ops
      BY <2>1 DEF Reflush, OnConfig
    <3> QED
      BY <1>1, <3>1, HistoryElsewhere
  <2>2. CASE FlushSettles
    BY <1>1, <2>2, HistorySettled
  <2>3. CASE Chained
    BY <1>1, <2>3, HistoryLists
  <2> QED
    BY <1>5, <2>1, <2>2, <2>3 DEF Callbacks
<1>6. CASE Task /\ ConfigTask /\ OnConfig
  <2>1. UNCHANGED historyVars
    BY <1>6 DEF OnConfig
  <2>2. CASE LoadConfig \/ SaveLands \/ SaveFails
    <3>1. asked # <<>> /\ asked' = Tail(asked) /\ Head(asked).cmd \in ConfigCmds /\ ops' = ops
      BY <2>2 DEF LoadConfig, SaveLands, SaveFails, Arrives, ConfigCmds
    <3> QED
      BY <1>1, <2>1, <3>1, HistoryElsewhere
  <2>3. CASE EditPlain \/ (\E clash \in {"none", "sides", "real"} : EditChords(clash)) \/ Rebinds
    <3>1. asked' = asked /\ ops' \in {ops, Edit}
      BY <2>3 DEF EditPlain, EditChords, Changes, Acts, Edit, Rebinds, callVars
    <3> QED
      BY <1>2, <2>1, <3>1
  <2>4. CASE SaveTimer \/ RetryHeld \/ LearnPermitted
    <3>1. /\ \/ asked' = asked
             \/ \E known : asked' = asked \o FlushCalls(known) \/ asked' = asked \o SaveCalls(known)
          /\ ops' = ops
      BY <2>4 DEF SaveTimer, RetryHeld, LearnPermitted
    <3> QED
      BY <1>1, <2>1, <3>1, HistoryElsewhere
  <2> QED
    BY <1>6, <2>2, <2>3, <2>4 DEF ConfigTask
<1>7. CASE Task /\ HistoryTask /\ OnHistory
  <2>1. ASSUME NEW r \in Records,
               EditRecord(r) \/ TypeEdit(r) \/ TypingTimer(r) \/ CoalesceTimer(r)
        PROVE  HistoryInv'
    BY <1>1, <2>1, HistoryWrites
  <2>2. ASSUME NEW r \in Records, DeleteRecord(r) PROVE HistoryInv'
    BY <1>1, <2>2, HistoryDeleted
  <2>3. ASSUME NEW r \in Records, DeleteRuns(r) PROVE HistoryInv'
    BY <1>1, <2>3, HistoryRuns
  <2>4. CASE OpenHistory \/ ListRuns \/ ListLands
    BY <1>1, <2>4, HistoryLists
  <2>5. CASE SaveRecord
    BY <1>1, <2>5, HistorySaved
  <2>6. CASE DeleteArrives \/ ListArrives \/ WipeArrives
    BY <1>1, <2>6, HistoryArrives
  <2>7. CASE AskWipe
    BY <1>1, <2>7, HistoryAsked
  <2>8. CASE WipeRuns \/ WipeFails \/ WipeAnswered
    BY <1>1, <2>8, HistoryWiped
  <2>9. CASE HearSweep(settings.keep)
    BY <1>1, <2>9, HistoryHeard
  <2> QED
    BY <1>7, <2>1, <2>2, <2>3, <2>4, <2>5, <2>6, <2>7, <2>8, <2>9 DEF HistoryTask
<1>8. CASE Task /\ QueueTask /\ OnQueue
  <2>1. UNCHANGED historyVars
    BY <1>8 DEF OnQueue
  <2>2. asked' = asked /\ ops' \in {ops, Edit}
    BY <1>8 DEF QueueTask, Enqueue, Acts, Edit, QueueTimer, WriteSettles, ReadLands, ReadFails, Post,
       PostSent, PostRetried, PostRefused, ApplyPost, callVars
  <2> QED
    BY <1>2, <2>1, <2>2
<1>9. CASE Task /\ KeepDictations
  <2>1. /\ asked' = asked /\ disk' = disk /\ (wipedHeard' => wipedHeard) /\ ops' = Edit
        /\ UNCHANGED <<mirror, parked, snap, touched, pool, listing, loaded, sessionOnly, lost, ghosts,
                       born, swept, again, wipe, flushes>>
    BY <1>9 DEF KeepDictations, EditKeep, Changes, Acts, Edit, historyDisk
  <2>2. Waiting' /\ (ListDue => ListDue') /\ \A r \in Records : disk'[r] \in {{}, disk[r]}
    BY <2>1, WaitingSame
  <2> QED
    BY <1>1, <2>1, <2>2, HistorySame
<1>10. CASE Task /\ RecordNew
  <2>1. PICK r \in Records : AddRecord(r)
    BY <1>10 DEF RecordNew
  <2> QED
    BY <1>1, <2>1, HistoryWrites
<1>11. CASE Break \/ TakeSweep \/ RequestQuit \/ QuitReady
  <2>1. UNCHANGED historyVars /\ asked' = asked /\ ops' = ops
    BY <1>11 DEF Break, TakeSweep, RequestQuit, QuitReady, callVars
  <2> QED
    BY <1>2, <2>1
<1>12. CASE RunSweep
  BY <1>1, <1>12, HistoryWiped
<1>13. CASE BeforeQuit \/ SessionEnding
  BY <1>1, <1>13, HistoryFlushAll DEF BeforeQuit, SessionEnding
<1>14. CASE UNCHANGED vars
  <2>1. UNCHANGED historyVars /\ asked' = asked /\ ops' = ops
    BY <1>14 DEF vars, callVars
  <2> QED
    BY <1>2, <2>1
<1> QED
  BY <1>3, <1>4, <1>5, <1>6, <1>7, <1>8, <1>9, <1>10, <1>11, <1>12, <1>13, <1>14 DEF Next

LEMMA HistoryAlways == Spec => []HistoryInv
<1>1. HistoryInv /\ MirrorInv /\ DeletesInv /\ ConfigInv /\ [Next]_vars => HistoryInv'
  BY HistoryStep
<1> QED
  BY HistoryStart, MirrorAlways, DeletesAlways, ConfigAlways, <1>1, PTL DEF Spec

(* Once nothing is underway, History shows what the record files hold: whatever  *)
(* the order of edits, coalesced and typed writes, listings, sweeps, wipes,      *)
(* deletes that fail, flushes, crashes and relaunches was, but for a record     *)
(* whose save failed or whose delete a listing overtook (transcriptHistory.ts,   *)
(* store/transcripts.rs).                                                    *)
THEOREM HistoryTold == Spec => []HistorySettles
<1>1. HistoryInv => HistorySettles
  <2> SUFFICES ASSUME HistoryInv, HistoryQuiet, NEW r \in Records \ (lost \cup ghosts)
               PROVE  mirror[r] = disk[r]
    BY DEF HistorySettles
  <2>1. /\ loaded = "yes" /\ asked = <<>> /\ pool = {} /\ swept = <<>> /\ parked = Nothing
        /\ flushes = <<>> /\ listing = "no" /\ again = 0 /\ wipe = "no"
    BY DEF HistoryQuiet
  <2>2. Len(asked) = 0 /\ Len(flushes) = 0
    BY <2>1, CallsNone
  <2>3. ~ListDue
    BY <2>1, <2>2 DEF ListDue, Relists
  <2>4. Shown(r) /\ ~Excused(r)
    BY <2>1 DEF Shown, Excused
  <2>5. Lands(r)
    BY <2>3, <2>4 DEF HistoryInv, Shows, Told
  <2>6. SavesOf(r) = {} /\ r \notin Dying
    BY <2>1, <2>2 DEF SavesOf, CallsOf, Dying
  <2>7. ~Waits(r)
    BY <2>1, NothingIsMap DEF Waits
  <2> QED
    BY <2>5, <2>6, <2>7 DEF Lands
<1> QED
  BY HistoryAlways, <1>1, PTL
=============================================================================
