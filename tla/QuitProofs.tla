---------------------------- MODULE QuitProofs -----------------------------
(***************************************************************************)
(* Proofs about a quit: what the window promised when it was asked and     *)
(* confirmed is on the disk, for every record, every number of operations, *)
(* faults and launches.  The queue, the settings and the records each have *)
(* an invariant: what was promised is written, or a save on its way that   *)
(* the quit still waits for has it.                                        *)
(***************************************************************************)
EXTENDS AppLifeProofs

-----------------------------------------------------------------------------
(* A quit: what it was promised, and what happens to it.                     *)

Quitting == quit \in {"flushing", "ready"}
Faulted == faults > promised.faults
Counted ==
  /\ faults \in Nat /\ promised.faults \in 0..faults
  /\ life = "down" => quit = "no" /\ ~qloaded

(* Faults are counted up.                                                   *)
LEMMA FaultsCounted ==
  ASSUME faults \in Nat, [Next]_vars
  PROVE  faults' \in {faults, faults + 1}
<1> DEFINE Counts == faults' \in {faults, faults + 1}
<1>1. Fails \/ faults' = faults => Counts
  BY DEF Fails
<1>2. ASSUME ConfigTask PROVE Counts
  <2>1. ASSUME LoadConfig \/ SaveTimer \/ RetryHeld \/ LearnPermitted PROVE Counts
    BY <1>1, <2>1 DEF LoadConfig, SaveTimer, RetryHeld, LearnPermitted
  <2>2. ASSUME SaveLands \/ SaveFails \/ Rebinds PROVE Counts
    BY <1>1, <2>2 DEF SaveLands, SaveFails, Rebinds, callVars
  <2>3. ASSUME NEW s, Changes(s) PROVE Counts
    BY <1>1, <2>3 DEF Changes
  <2> QED
    BY <1>2, <2>1, <2>2, <2>3 DEF ConfigTask, EditPlain, EditChords
<1>3. ASSUME HistoryTask PROVE Counts
  <2>1. ASSUME NEW r \in Records, EditRecord(r) \/ TypeEdit(r) \/ DeleteRecord(r) PROVE Counts
    BY <1>1, <2>1 DEF EditRecord, TypeEdit, DeleteRecord
  <2>2. ASSUME NEW r \in Records, TypingTimer(r) \/ CoalesceTimer(r) \/ DeleteRuns(r)
        PROVE  Counts
    BY <1>1, <2>2 DEF TypingTimer, CoalesceTimer, DeleteRuns
  <2>3. CASE OpenHistory \/ ListArrives \/ ListRuns \/ ListLands \/ SaveRecord
    BY <1>1, <2>3 DEF OpenHistory, ListArrives, ListRuns, ListLands, SaveRecord, callVars
  <2>4. CASE DeleteArrives \/ WipeArrives \/ WipeRuns \/ WipeFails \/ WipeAnswered
    BY <1>1, <2>4 DEF DeleteArrives, WipeArrives, WipeRuns, WipeFails, WipeAnswered, callVars
  <2>5. CASE AskWipe \/ HearSweep(settings.keep)
    BY <1>1, <2>5 DEF AskWipe, HearSweep
  <2> QED
    BY <1>3, <2>1, <2>2, <2>3, <2>4, <2>5 DEF HistoryTask
<1>4. ASSUME QueueTask PROVE Counts
  BY <1>1, <1>4 DEF QueueTask, Enqueue, QueueTimer, WriteSettles, ReadLands, ReadFails, Post,
     PostSent, PostRetried, PostRefused, ApplyPost, callVars
<1>5. ASSUME KeepDictations \/ RecordNew PROVE Counts
  BY <1>1, <1>5 DEF KeepDictations, EditKeep, Changes, RecordNew, AddRecord
<1>6. ASSUME Callbacks PROVE Counts
  BY <1>1, <1>6 DEF Callbacks, Reflush, FlushSettles, Chained
<1>7. ASSUME BeforeQuit \/ SessionEnding PROVE Counts
  BY <1>1, <1>7 DEF BeforeQuit, SessionEnding, FlushAll
<1>8. ASSUME Break \/ Launch \/ Crash \/ Exit PROVE Counts
  BY <1>1, <1>8 DEF Break, Launch, Crash, Exit, Dies
<1>9. ASSUME TakeSweep \/ RunSweep \/ RequestQuit \/ QuitReady PROVE Counts
  BY <1>1, <1>9 DEF TakeSweep, RunSweep, RequestQuit, QuitReady, callVars
<1>10. CASE UNCHANGED vars
  BY <1>1, <1>10 DEF vars, callVars
<1> QED
  BY <1>2, <1>3, <1>4, <1>5, <1>6, <1>7, <1>8, <1>9, <1>10 DEF Next

(* What a step does to a quit that is underway.                              *)
LEMMA QuitMoves ==
  ASSUME [Next]_vars
  PROVE  \/ BeforeQuit \/ Dies \/ RequestQuit
         \/ QuitReady
         \/ UNCHANGED <<quit, promised>>
<1>1. ASSUME OnConfig \/ OnHistory \/ OnQueue PROVE UNCHANGED <<quit, promised>>
  BY <1>1 DEF OnConfig, OnHistory, OnQueue, lifeVars
<1>2. ASSUME Callbacks \/ KeepDictations \/ RecordNew PROVE UNCHANGED <<quit, promised>>
  BY <1>1, <1>2 DEF Callbacks, KeepDictations, RecordNew, lifeVars
<1>3. ASSUME Break \/ Launch \/ TakeSweep \/ RunSweep \/ SessionEnding
      PROVE  UNCHANGED <<quit, promised>>
  BY <1>3 DEF Break, Launch, TakeSweep, RunSweep, SessionEnding, lifeVars
<1>4. ASSUME UNCHANGED vars PROVE UNCHANGED <<quit, promised>>
  BY <1>4 DEF vars, lifeVars
<1> QED
  BY <1>1, <1>2, <1>3, <1>4 DEF Next, Crash, Exit

(* The application goes down by dying; down, it stays so but for a launch.  *)
LEMMA DownAgain ==
  ASSUME [Next]_vars, life' = "down"
  PROVE  Dies \/ (life = "down" /\ UNCHANGED <<quit, qloaded>>)
<1>1. ASSUME OnConfig \/ OnHistory \/ OnQueue PROVE life' = life
  BY <1>1 DEF OnConfig, OnHistory, OnQueue, lifeVars
<1>2. ASSUME Callbacks \/ KeepDictations \/ RecordNew PROVE life' = life
  BY <1>1, <1>2 DEF Callbacks, KeepDictations, RecordNew, lifeVars
<1>3. ASSUME TakeSweep \/ RunSweep \/ RequestQuit PROVE life' = life /\ life = "up"
  BY <1>3 DEF TakeSweep, RunSweep, RequestQuit, lifeVars
<1>4. ASSUME BeforeQuit \/ SessionEnding \/ QuitReady PROVE life' = life /\ life = "up"
  BY <1>4 DEF BeforeQuit, SessionEnding, QuitReady, FlushAll, Task
<1>5. ASSUME Break \/ UNCHANGED vars PROVE UNCHANGED <<life, quit, qloaded>>
  BY <1>5 DEF Break, vars, lifeVars, queueVars, queueWindow
<1>6. Launch => life' = "up"
  BY DEF Launch
<1> QED
  BY <1>1, <1>2, <1>3, <1>4, <1>5, <1>6 DEF Next, Crash, Exit, Task, Callbacks

(* Every step keeps the count of the faults since the promise.              *)
LEMMA CountedStep ==
  ASSUME Counted, [Next]_vars
  PROVE  Counted'
<1>1. faults' \in Nat /\ faults' >= faults /\ faults \in Nat
  BY FaultsCounted DEF Counted
<1>2. promised'.faults \in 0..faults'
  <2>1. BeforeQuit => promised'.faults = faults
    BY DEF BeforeQuit
  <2>2. Dies => promised'.faults = 0
    BY DEF Dies, NoPromise
  <2>3. RequestQuit \/ QuitReady => promised' = promised
    BY DEF RequestQuit, QuitReady
  <2> QED
    BY <1>1, <2>1, <2>2, <2>3, QuitMoves DEF Counted
<1>3. ASSUME life' = "down" PROVE quit' = "no" /\ ~qloaded'
  <2>1. Dies => quit' = "no" /\ ~qloaded'
    BY DEF Dies, QueueDies
  <2> QED
    BY <1>3, <2>1, DownAgain DEF Counted
<1> QED
  BY <1>1, <1>2, <1>3 DEF Counted

-----------------------------------------------------------------------------
(* The queue: without a save timer, the last save holds it, or the file does,  *)
(* or a save failed.  Once a quit flushed it, what it held is in the file, or a  *)
(* save that the quit waits for holds it, or the saves behind a failed one do.   *)
QueueSaved ==
  /\ qwait \in Nat
  /\ qloaded =>
       /\ qreading = "no"
       /\ ~qtimer => IF qwrites = <<>> THEN qfailed \/ queue \subseteq qdisk \cup Accounted
                     ELSE queue \subseteq qwrites[Len(qwrites)] \cup Accounted

HasQueue(q) == promised.queue \subseteq q \cup Accounted
QueueKeeps ==
  Quitting =>
    /\ HasQueue(queue)
    /\ \/ Faulted \/ HasQueue(qdisk)
       \/ qfailed /\ \A i \in 1..Len(qwrites) : HasQueue(qwrites[i])
       \/ quit = "flushing" /\ \E i \in 1..Len(qwrites) : i <= qwait /\ HasQueue(qwrites[i])

QueueInv == QueueSaved /\ QueueKeeps

(* A step that only sends the queue to the file, if anything.                  *)
LEMMA QueueSent ==
  ASSUME QueueKeeps, Counted, faults' \in {faults, faults + 1}, UNCHANGED <<quit, promised>>,
         qwrites \in Seq(SUBSET Nat), queue' \in SUBSET Nat,
         Accounted \subseteq Accounted', queue \subseteq queue' \cup Accounted',
         UNCHANGED <<qdisk, qwait, qfailed>>,
         qwrites' = qwrites \/ qwrites' = Append(qwrites, queue')
  PROVE  QueueKeeps'
<1> SUFFICES ASSUME Quitting PROVE QueueKeeps'
  BY DEF QueueKeeps, Quitting
<1>1. \A q : HasQueue(q) => promised.queue \subseteq q \cup Accounted'
  BY DEF HasQueue
<1>2. HasQueue(queue)'
  BY DEF QueueKeeps, HasQueue
<1>3. Faulted => Faulted'
  BY DEF Faulted, Counted
<1>4. /\ Len(qwrites) \in Nat /\ Len(qwrites') \in {Len(qwrites), Len(qwrites) + 1}
      /\ \A i \in 1..Len(qwrites) : i \in 1..Len(qwrites') /\ qwrites'[i] = qwrites[i]
      /\ \A i \in 1..Len(qwrites') : i \in 1..Len(qwrites) \/ qwrites'[i] = queue'
  <2>1. CASE qwrites' = qwrites
    BY <2>1, LenProperties
  <2>2. CASE qwrites' = Append(qwrites, queue')
    <3>1. /\ Len(qwrites) \in Nat /\ Len(qwrites') = Len(qwrites) + 1
          /\ \A i \in 1..Len(qwrites) : qwrites'[i] = qwrites[i]
          /\ qwrites'[Len(qwrites) + 1] = queue'
      BY <2>2, AppendProperties, LenProperties
    <3> QED
      BY <3>1
  <2> QED
    BY <2>1, <2>2
<1>5. CASE Faulted \/ HasQueue(qdisk)
  BY <1>1, <1>2, <1>3, <1>5 DEF QueueKeeps, HasQueue
<1>6. CASE qfailed /\ \A i \in 1..Len(qwrites) : HasQueue(qwrites[i])
  <2>1. \A i \in 1..Len(qwrites') : HasQueue(qwrites[i])'
    BY <1>1, <1>2, <1>4, <1>6 DEF HasQueue
  <2> QED
    BY <1>2, <1>6, <2>1 DEF QueueKeeps
<1>7. CASE quit = "flushing" /\ \E i \in 1..Len(qwrites) : i <= qwait /\ HasQueue(qwrites[i])
  <2>1. PICK i \in 1..Len(qwrites) : i <= qwait /\ HasQueue(qwrites[i])
    BY <1>7
  <2>2. i \in 1..Len(qwrites') /\ i <= qwait' /\ HasQueue(qwrites[i])'
    BY <1>1, <1>4, <2>1 DEF HasQueue
  <2> QED
    BY <1>2, <1>7, <2>2 DEF QueueKeeps
<1> QED
  BY <1>5, <1>6, <1>7 DEF QueueKeeps

(* A save lands, or fails.                                                  *)
LEMMA QueueWritten ==
  ASSUME QueueSaved, QueueKeeps, Counted, BacklogInv, UNCHANGED <<quit, promised>>, WriteSettles
  PROVE  QueueSaved' /\ QueueKeeps'
<1>1. /\ qwrites # <<>> /\ qwrites' = Tail(qwrites) /\ Head(qwrites) = qwrites[1]
      /\ qwait' = (IF qwait = 0 THEN 0 ELSE qwait - 1)
      /\ \/ qdisk' = qwrites[1] /\ ~qfailed'
         \/ faults' = faults + 1 /\ qfailed' /\ qdisk' = qdisk
      /\ faults' \in {faults, faults + 1}
      /\ UNCHANGED <<queue, qloaded, qreading, qtimer, server, dropped>>
  BY DEF WriteSettles, Fails
<1>2. /\ Len(qwrites) \in Nat \ {0} /\ Len(qwrites') = Len(qwrites) - 1
      /\ \A i \in 1..Len(qwrites') : qwrites'[i] = qwrites[i + 1]
      /\ qwrites' = <<>> <=> Len(qwrites) = 1
  <2>1. qwrites \in Seq(SUBSET Nat)
    BY DEF BacklogInv, QueueShape
  <2>2. /\ Len(qwrites) \in Nat \ {0} /\ qwrites' \in Seq(SUBSET Nat)
        /\ Len(qwrites') = Len(qwrites) - 1
        /\ \A i \in 1..Len(qwrites') : qwrites'[i] = qwrites[i + 1]
    BY <1>1, <2>1, HeadTailProperties, LenProperties, EmptySeq
  <2>3. qwrites' = <<>> <=> Len(qwrites') = 0
    BY <2>2, EmptySeq
  <2> QED
    BY <2>2, <2>3
<1>3. Accounted' = Accounted /\ \A q : HasQueue(q)' <=> promised.queue \subseteq q' \cup Accounted
  BY <1>1 DEF Accounted, HasQueue
<1>4. QueueSaved'
  <2> SUFFICES ASSUME qloaded, ~qtimer
               PROVE  IF qwrites' = <<>> THEN qfailed' \/ queue' \subseteq qdisk' \cup Accounted'
                      ELSE queue' \subseteq qwrites'[Len(qwrites')] \cup Accounted'
    BY <1>1 DEF QueueSaved
  <2>1. queue \subseteq qwrites[Len(qwrites)] \cup Accounted
    BY <1>1 DEF QueueSaved
  <2>2. CASE Len(qwrites) = 1
    BY <1>1, <1>2, <1>3, <2>1, <2>2
  <2>3. CASE Len(qwrites) # 1
    <3>1. Len(qwrites') \in 1..Len(qwrites') /\ Len(qwrites') + 1 = Len(qwrites)
      BY <1>2, <2>3
    <3>2. qwrites'[Len(qwrites')] = qwrites[Len(qwrites)]
      BY <1>2, <3>1
    <3> QED
      BY <1>1, <1>2, <1>3, <2>1, <2>3, <3>2
  <2> QED
    BY <2>2, <2>3
<1>5. QueueKeeps'
  <2> SUFFICES ASSUME Quitting PROVE QueueKeeps'
    BY DEF QueueKeeps, Quitting
  <2>1. HasQueue(queue)'
    BY <1>1, <1>3 DEF QueueKeeps, HasQueue
  <2>2. CASE Faulted \/ faults' = faults + 1
    <3>1. Faulted'
      BY <1>1, <2>2 DEF Faulted, Counted
    <3> QED
      BY <2>1, <3>1 DEF QueueKeeps
  <2>3. CASE qdisk' = qwrites[1] /\ ~Faulted
    <3>1. CASE HasQueue(qwrites[1])
      <4>1. HasQueue(qdisk)'
        BY <1>3, <2>3, <3>1 DEF HasQueue
      <4> QED
        BY <2>1, <4>1 DEF QueueKeeps
    <3>2. CASE ~HasQueue(qwrites[1]) /\ HasQueue(qdisk)
      <4>1. 1 \in 1..Len(qwrites)
        BY <1>2
      <4>2. qdisk \subseteq qwrites[1] \cup Accounted
        BY <4>1 DEF BacklogInv, Growing
      <4> QED
        BY <3>2, <4>2 DEF HasQueue
    <3>3. CASE ~HasQueue(qwrites[1]) /\ ~HasQueue(qdisk)
      <4>1. 1 \in 1..Len(qwrites)
        BY <1>2
      <4>2. PICK i \in 1..Len(qwrites) : quit = "flushing" /\ i <= qwait /\ HasQueue(qwrites[i])
        BY <2>3, <3>3, <4>1 DEF QueueKeeps
      <4>3. i # 1
        BY <3>3, <4>2
      <4> DEFINE k == i - 1
      <4>4. k \in 1..Len(qwrites') /\ k + 1 = i
        BY <1>2, <4>3
      <4>5. k <= qwait'
        BY <1>1, <1>2, <4>2, <4>3 DEF QueueSaved
      <4> HIDE DEF k
      <4>6. qwrites'[k] = qwrites[i]
        BY <1>2, <4>4
      <4>7. HasQueue(qwrites[k])'
        BY <1>3, <4>2, <4>6 DEF HasQueue
      <4> QED
        BY <2>1, <4>2, <4>4, <4>5, <4>7 DEF QueueKeeps
    <3> QED
      BY <3>1, <3>2, <3>3
  <2> QED
    BY <1>1, <2>2, <2>3
<1> QED
  BY <1>4, <1>5

(* The queue is sent to the file by a timer or a flush.                        *)
LEMMA QueueFlushed ==
  ASSUME QueueSaved, BacklogInv, qtimer, StartSave, qwait' \in Nat,
         UNCHANGED <<queue, qloaded, qdisk, server, dropped, qfailed>>
  PROVE  QueueSaved'
<1> SUFFICES ASSUME qloaded
             PROVE  /\ qreading' = "no"
                    /\ qwrites' # <<>> /\ queue' \subseteq qwrites'[Len(qwrites')] \cup Accounted'
  BY DEF QueueSaved
<1>1. qwrites' = Append(qwrites, queue) /\ qreading' = qreading
  BY DEF StartSave
<1>2. qwrites \in Seq(SUBSET Nat) /\ queue \in SUBSET Nat
  BY DEF BacklogInv, QueueShape
<1>3. /\ qwrites' \in Seq(SUBSET Nat) /\ Len(qwrites) \in Nat
      /\ Len(qwrites') = Len(qwrites) + 1 /\ qwrites'[Len(qwrites) + 1] = queue
  BY <1>1, <1>2, AppendProperties, LenProperties
<1>4. qwrites' # <<>>
  BY <1>3, EmptySeq
<1> QED
  BY <1>1, <1>3, <1>4 DEF QueueSaved

(* A launch's read of the queue's file keeps what the last save holds.      *)
LEMMA QueueRead ==
  ASSUME QueueSaved, BacklogInv, ReadLands
  PROVE  QueueSaved'
<1>1. /\ qreading' = "no" /\ qwait' = qwait /\ queue' = queue \cup qdisk
      /\ \/ qtimer'
         \/ qwrites' = Append(qwrites, queue')
  BY DEF ReadLands
<1>2. qwrites \in Seq(SUBSET Nat) /\ queue' \in SUBSET Nat
  BY <1>1 DEF BacklogInv, QueueShape
<1>3. CASE qtimer'
  BY <1>1, <1>3 DEF QueueSaved
<1>4. CASE qwrites' = Append(qwrites, queue')
  <2>1. /\ qwrites' \in Seq(SUBSET Nat) /\ Len(qwrites) \in Nat
        /\ Len(qwrites') = Len(qwrites) + 1 /\ qwrites'[Len(qwrites) + 1] = queue'
    BY <1>2, <1>4, AppendProperties, LenProperties
  <2>2. qwrites' # <<>>
    BY <2>1, EmptySeq
  <2> QED
    BY <1>1, <2>1, <2>2 DEF QueueSaved
<1> QED
  BY <1>1, <1>3, <1>4

(* A quit's flush: what the queue holds is in the file, or on its way there and *)
(* waited for, or a save failed.                                            *)
LEMMA QueueQuits ==
  ASSUME QueueSaved, BacklogInv, BeforeQuit
  PROVE  QueueKeeps'
<1>1. /\ FlushQueue(TRUE) /\ promised'.queue = (IF qloaded THEN queue ELSE {})
      /\ quit' = "flushing"
      /\ UNCHANGED <<queue, qloaded, qdisk, server, dropped, qfailed>>
  BY DEF BeforeQuit, FlushAll
<1>2. Accounted' = Accounted /\ \A q : HasQueue(q)' <=> promised'.queue \subseteq q' \cup Accounted
  BY <1>1 DEF Accounted, HasQueue
<1>3. qwrites \in Seq(SUBSET Nat) /\ queue \in SUBSET Nat /\ Len(qwrites) \in Nat
  BY LenProperties DEF BacklogInv, QueueShape
<1>4. CASE ~qloaded
  BY <1>1, <1>2, <1>4 DEF QueueKeeps, HasQueue
<1>5. CASE qloaded
  <2>1. HasQueue(queue)'
    BY <1>1, <1>5 DEF HasQueue
  <2>2. CASE qtimer
    <3>1. qwrites' = Append(qwrites, queue) /\ qwait' = Len(qwrites) + 1
      BY <1>1, <1>3, <1>5, <2>2 DEF FlushQueue, StartSave, QueueSaves, QueueSaved
    <3>2. Len(qwrites') = Len(qwrites) + 1 /\ qwrites'[Len(qwrites) + 1] = queue
      BY <1>3, <3>1, AppendProperties
    <3>3. PICK n \in Nat : n = Len(qwrites) + 1
      BY <1>3
    <3>4. n \in 1..Len(qwrites') /\ n <= qwait' /\ qwrites'[n] = queue
      BY <1>3, <3>1, <3>2, <3>3
    <3>5. n \in 1..Len(qwrites') /\ n <= qwait' /\ promised'.queue \subseteq qwrites'[n] \cup Accounted'
      BY <1>1, <1>5, <3>4
    <3> QED
      BY <1>1, <2>1, <3>5 DEF QueueKeeps, HasQueue
  <2>3. CASE ~qtimer /\ qwrites = <<>>
    <3>1. qwrites' = <<>> /\ Len(qwrites') = 0
      BY <1>1, <2>3 DEF FlushQueue
    <3>2. qfailed' \/ HasQueue(qdisk)'
      BY <1>1, <1>2, <1>5, <2>3 DEF QueueSaved, HasQueue
    <3> QED
      BY <2>1, <3>1, <3>2 DEF QueueKeeps
  <2>4. CASE ~qtimer /\ qwrites # <<>>
    <3>1. qwrites' = qwrites /\ qwait' = Len(qwrites)
      BY <1>1, <1>3, <1>5, <2>4 DEF FlushQueue, QueueSaves, QueueSaved
    <3>2. PICK n \in Nat : n = Len(qwrites)
      BY <1>3
    <3>3. n \in 1..Len(qwrites') /\ n <= qwait' /\ queue \subseteq qwrites'[n] \cup Accounted
      BY <1>3, <1>5, <2>4, <3>1, <3>2, EmptySeq DEF QueueSaved
    <3>4. n \in 1..Len(qwrites') /\ n <= qwait' /\ promised'.queue \subseteq qwrites'[n] \cup Accounted'
      BY <1>1, <1>2, <1>5, <3>3
    <3> QED
      BY <1>1, <2>1, <3>4 DEF QueueKeeps, HasQueue
  <2> QED
    BY <2>2, <2>3, <2>4
<1> QED
  BY <1>4, <1>5

(* Every step keeps what was promised of the queue.                         *)
LEMMA QueueStep ==
  ASSUME QueueInv, Counted, BacklogInv, [Next]_vars
  PROVE  QueueInv'
<1>1. /\ faults' \in {faults, faults + 1} /\ QueueSaved /\ QueueKeeps
      /\ qwrites \in Seq(SUBSET Nat) /\ queue \in SUBSET Nat /\ ops \in Nat
      /\ qdisk \subseteq Nat /\ qwait \in Nat
  BY FaultsCounted DEF Counted, QueueInv, QueueSaved, BacklogInv, QueueShape
<1>2. ASSUME UNCHANGED <<quit, promised>>, UNCHANGED queueVars PROVE QueueInv'
  <2>1. UNCHANGED <<queue, qloaded, qreading, qtimer, qwrites, qwait, qdisk, server, dropped,
                    qfailed>>
    BY <1>2 DEF queueVars, queueWindow
  <2>2. QueueSaved'
    BY <2>1 DEF QueueInv, QueueSaved, Accounted
  <2>3. QueueKeeps'
    BY <1>1, <1>2, <2>1, QueueSent DEF QueueInv, Accounted
  <2> QED
    BY <2>2, <2>3 DEF QueueInv
<1>3. CASE Dies
  <2>1. quit' = "no" /\ ~qloaded' /\ qwait' = 0
    BY <1>3 DEF Dies, QueueDies
  <2> QED
    BY <2>1 DEF QueueInv, QueueSaved, QueueKeeps, Quitting
<1>4. CASE Launch
  <2>1. /\ quit = "no" /\ ~qloaded /\ UNCHANGED <<quit, qloaded, qwait>>
    BY <1>4 DEF Launch, QueueBoots, Counted
  <2> QED
    BY <1>1, <2>1 DEF QueueInv, QueueSaved, QueueKeeps, Quitting
<1>5. CASE BeforeQuit
  <2>1. /\ FlushQueue(TRUE)
        /\ UNCHANGED <<queue, qloaded, qdisk, server, dropped, qfailed>>
    BY <1>5 DEF BeforeQuit, FlushAll
  <2>2. Len(qwrites) \in Nat
    BY <1>1, LenProperties
  <2>3. qwait' \in Nat
    <3>1. QueueSaves \in Nat
      BY <2>2 DEF QueueSaves
    <3>2. qwait' = QueueSaves + (IF qtimer THEN 1 ELSE 0)
      BY <2>1 DEF FlushQueue
    <3> QED
      BY <3>1, <3>2
  <2>4. QueueSaved'
    <3>1. CASE qtimer
      BY <1>1, <2>1, <2>3, <3>1, QueueFlushed DEF FlushQueue
    <3>2. CASE ~qtimer
      BY <1>1, <2>1, <2>3, <3>2 DEF FlushQueue, QueueSaved, Accounted
    <3> QED
      BY <3>1, <3>2
  <2> QED
    BY <1>1, <1>5, <2>4, QueueQuits DEF QueueInv
<1>6. ASSUME UNCHANGED <<quit, promised>>, StartSave, qtimer,
             UNCHANGED <<queue, qloaded, qwait, qdisk, server, dropped, qfailed>>
      PROVE  QueueInv'
  <2>1. QueueSaved'
    BY <1>1, <1>6, QueueFlushed
  <2>2. qwrites' \in {qwrites, Append(qwrites, queue')} /\ Accounted' = Accounted
    BY <1>6 DEF StartSave, Accounted
  <2> QED
    BY <1>1, <1>6, <2>1, <2>2, QueueSent DEF QueueInv
<1>7. CASE SessionEnding
  <2>1. /\ FlushQueue(FALSE) /\ UNCHANGED <<quit, promised>>
        /\ UNCHANGED <<queue, qloaded, qdisk, post, server, dropped, qfailed>>
    BY <1>7 DEF SessionEnding, FlushAll
  <2>2. CASE qtimer
    BY <1>6, <2>1, <2>2 DEF FlushQueue
  <2>3. CASE ~qtimer
    <3>1. UNCHANGED <<qtimer, qwrites, qreading, qwait>>
      BY <2>1, <2>3 DEF FlushQueue
    <3> QED
      BY <1>2, <2>1, <3>1 DEF queueVars, queueWindow
  <2> QED
    BY <2>2, <2>3
<1>8. CASE RequestQuit
  <2>1. UNCHANGED queueVars /\ quit' = "asked"
    BY <1>8 DEF RequestQuit
  <2> QED
    BY <1>1, <2>1 DEF QueueInv, QueueSaved, QueueKeeps, Quitting, queueVars, queueWindow, Accounted
<1>9. CASE QuitReady
  <2>1. /\ UNCHANGED queueVars /\ faults' = faults /\ promised' = promised
        /\ quit = "flushing" /\ quit' = "ready" /\ ~(qwait > 0)
    BY <1>9 DEF QuitReady, QuitWaits, callVars
  <2>2. \A i \in 1..Len(qwrites) : ~(i <= qwait)
    <3>1. qwait = 0
      BY <1>1, <2>1
    <3> QED
      BY <3>1
  <2>3. UNCHANGED <<queue, qloaded, qreading, qtimer, qwrites, qwait, qdisk, server, dropped,
                    qfailed>>
    BY <2>1 DEF queueVars, queueWindow
  <2>4. QueueSaved'
    BY <1>1, <2>3 DEF QueueSaved, Accounted
  <2>5. QueueKeeps'
    BY <1>1, <2>1, <2>2, <2>3 DEF QueueKeeps, Quitting, HasQueue, Faulted, Accounted
  <2> QED
    BY <2>4, <2>5 DEF QueueInv
<1>10. CASE Task /\ QueueTask /\ OnQueue
  <2>1. UNCHANGED <<quit, promised>>
    BY <1>10 DEF OnQueue, lifeVars
  <2>2. CASE Enqueue
    <3>1. /\ queue' = queue \cup {ops + 1} /\ qtimer' = (qtimer \/ qreading = "no")
          /\ UNCHANGED <<qloaded, qreading, qwrites, qwait, qdisk, server, dropped, qfailed>>
      BY <2>2 DEF Enqueue, Edit, Persist
    <3>2. queue' \in SUBSET Nat /\ Accounted' = Accounted
      BY <1>1, <3>1 DEF Accounted
    <3>3. QueueSaved'
      BY <1>1, <3>1 DEF QueueSaved
    <3> QED
      BY <1>1, <2>1, <3>1, <3>2, <3>3, QueueSent DEF QueueInv
  <2>3. CASE QueueTimer
    BY <1>6, <2>1, <2>3 DEF QueueTimer
  <2>4. CASE WriteSettles
    BY <1>1, <2>1, <2>4, QueueWritten DEF QueueInv
  <2>5. CASE ReadLands
    <3>1. QueueSaved'
      BY <1>1, <2>5, QueueRead
    <3>2. /\ queue' = queue \cup qdisk /\ UNCHANGED <<qdisk, qwait, qfailed>>
          /\ qwrites' \in {qwrites, Append(qwrites, queue')} /\ Accounted' = Accounted
      BY <2>5 DEF ReadLands, Accounted
    <3>3. queue' \in SUBSET Nat
      BY <1>1, <3>2
    <3> QED
      BY <1>1, <2>1, <3>1, <3>2, <3>3, QueueSent DEF QueueInv
  <2>6. CASE ReadFails
    <3>1. /\ faults' = faults + 1 /\ qreading' = "no" /\ qwait' = 0 /\ qfailed'
          /\ UNCHANGED <<queue, qloaded, qtimer, qwrites, qdisk, server, dropped>>
      BY <2>6 DEF ReadFails, Fails
    <3>2. Faulted'
      BY <2>1, <3>1 DEF Faulted, Counted
    <3>3. QueueSaved'
      BY <1>1, <3>1 DEF QueueSaved, Accounted
    <3>4. QueueKeeps'
      BY <1>1, <2>1, <3>1, <3>2 DEF QueueKeeps, Quitting, HasQueue, Accounted
    <3> QED
      BY <3>3, <3>4 DEF QueueInv
  <2>7. CASE Post
    <3>1. UNCHANGED <<queue, qloaded, qreading, qtimer, qwrites, qwait, qdisk, server, dropped,
                      qfailed>>
      BY <2>7 DEF Post
    <3>2. QueueSaved'
      BY <1>1, <3>1 DEF QueueSaved, Accounted
    <3>3. QueueKeeps'
      BY <1>1, <2>1, <3>1, QueueSent DEF Accounted
    <3> QED
      BY <3>2, <3>3 DEF QueueInv
  <2>8. CASE PostSent \/ PostRetried \/ PostRefused
    <3>1. /\ queue' \subseteq queue /\ queue \subseteq queue' \cup Accounted'
          /\ Accounted \subseteq Accounted' /\ qtimer' = (qtimer \/ qreading = "no")
          /\ UNCHANGED <<qloaded, qreading, qwrites, qwait, qdisk, qfailed>>
      BY <2>8 DEF PostSent, PostRetried, PostRefused, ApplyPost, Persist, Accounted
    <3>2. queue' \in SUBSET Nat
      BY <1>1, <3>1
    <3>3. QueueSaved'
      BY <1>1, <3>1 DEF QueueSaved
    <3> QED
      BY <1>1, <2>1, <3>1, <3>2, <3>3, QueueSent DEF QueueInv
  <2> QED
    BY <1>10, <2>2, <2>3, <2>4, <2>5, <2>6, <2>7, <2>8 DEF QueueTask
<1>11. CASE Break \/ Callbacks \/ TakeSweep \/ RunSweep
  BY <1>2, <1>11 DEF Break, Callbacks, OnConfig, OnHistory, TakeSweep, RunSweep, lifeVars
<1>12. CASE KeepDictations \/ RecordNew
  BY <1>2, <1>12 DEF KeepDictations, RecordNew, OnHistory, lifeVars
<1>13. CASE (ConfigTask /\ OnConfig) \/ (HistoryTask /\ OnHistory)
  BY <1>2, <1>13 DEF OnConfig, OnHistory, lifeVars
<1>14. CASE UNCHANGED vars
  BY <1>2, <1>14 DEF vars, lifeVars
<1> QED
  BY <1>3, <1>4, <1>5, <1>7, <1>8, <1>9, <1>10, <1>11, <1>12, <1>13, <1>14 DEF Next, Crash, Exit

-----------------------------------------------------------------------------
(* A call's place among the calls of its kind: what a flush counts.           *)
UpTo(s, cmd, i) == {j \in 1..Len(s) : s[j].cmd = cmd /\ j <= i}
Rank(s, cmd, i) == Cardinality(UpTo(s, cmd, i))

(* A place is a number, and that of a call of its own kind is not 0.        *)
LEMMA RankCounts ==
  ASSUME NEW s, IsCalls(s), NEW cmd, NEW i \in 1..Len(s)
  PROVE  /\ IsFiniteSet(UpTo(s, cmd, i)) /\ Rank(s, cmd, i) \in Nat
         /\ s[i].cmd = cmd => Rank(s, cmd, i) > 0
<1>1. Len(s) \in Nat
  BY CallsShapes
<1>2. IsFiniteSet(1..Len(s)) /\ UpTo(s, cmd, i) \subseteq 1..Len(s)
  BY <1>1, FS_Interval DEF UpTo
<1>3. IsFiniteSet(UpTo(s, cmd, i))
  BY <1>2, FS_Subset
<1>4. Rank(s, cmd, i) \in Nat /\ (Rank(s, cmd, i) = 0 => UpTo(s, cmd, i) = {})
  BY <1>3, FS_CardinalityType, FS_EmptySet DEF Rank
<1>5. s[i].cmd = cmd => i \in UpTo(s, cmd, i)
  BY <1>1 DEF UpTo
<1> QED
  BY <1>3, <1>4, <1>5

(* Calls added after the others leave their places alone.                     *)
Extends(s, u) == \A i \in 1..Len(s) : i \in 1..Len(u) /\ u[i] = s[i]

(* Calls added behind leave the places alone.                               *)
LEMMA RankExtended ==
  ASSUME NEW s, NEW u, IsCalls(s), IsCalls(u), Extends(s, u), NEW cmd, NEW i \in 1..Len(s)
  PROVE  Rank(u, cmd, i) = Rank(s, cmd, i)
<1>1. Len(s) \in Nat /\ Len(u) \in Nat
  BY CallsShapes
<1>2. ASSUME NEW j \in 1..Len(u), j <= i PROVE j \in 1..Len(s)
  BY <1>1, <1>2
<1>3. UpTo(u, cmd, i) = UpTo(s, cmd, i)
  BY <1>2 DEF UpTo, Extends
<1> QED
  BY <1>3 DEF Rank

(* Two sets of numbers, one the other moved by d.                             *)
LEMMA Shifted ==
  ASSUME NEW S, NEW T, NEW d \in Int, IsFiniteSet(T),
         \A k \in T : k \in Int /\ k + d \in S, \A k \in S : k \in Int /\ k - d \in T
  PROVE  Cardinality(T) = Cardinality(S)
<1> DEFINE f == [k \in T |-> k + d]
<1>1. f \in [T -> S]
  OBVIOUS
<1>2. \A a, b \in T : f[a] = f[b] => a = b
  OBVIOUS
<1>3. \A y \in S : \E k \in T : f[k] = y
  <2> SUFFICES ASSUME NEW y \in S PROVE \E k \in T : f[k] = y
    OBVIOUS
  <2>1. y - d \in T /\ f[y - d] = y
    OBVIOUS
  <2> QED
    BY <2>1
<1> HIDE DEF f
<1>4. f \in Bijection(T, S)
  BY <1>1, <1>2, <1>3 DEF Bijection, Injection, IsInjective, Surjection
<1> QED
  BY <1>4, FS_Bijection DEF ExistsBijection

(* The first call's arrival moves the others up.                              *)
LEMMA RankTail ==
  ASSUME NEW s, IsCalls(s), s # <<>>, NEW cmd, NEW i \in 1..Len(Tail(s))
  PROVE  Rank(Tail(s), cmd, i) = Rank(s, cmd, i + 1) - (IF s[1].cmd = cmd THEN 1 ELSE 0)
<1> DEFINE t == Tail(s)
           S == UpTo(s, cmd, i + 1)
           T == UpTo(t, cmd, i)
<1>1. /\ IsCalls(t) /\ Len(t) = Len(s) - 1 /\ Len(s) \in Nat
      /\ \A k \in 1..Len(t) : k + 1 \in 1..Len(s) /\ t[k] = s[k + 1]
  BY CallsTail, CallsShapes
<1>2. i \in 1..Len(t) /\ i + 1 \in 1..Len(s) /\ 1 \in 1..Len(s) /\ 1 <= i + 1
  BY <1>1
<1> HIDE DEF t
<1>3. IsFiniteSet(S) /\ IsFiniteSet(T) /\ Cardinality(S) \in Nat
  BY <1>1, <1>2, RankCounts DEF Rank
<1>4. 1 \in S <=> s[1].cmd = cmd
  BY <1>2 DEF UpTo
<1>5. \A k \in T : k \in Int /\ k + 1 \in S /\ k + 1 # 1
  <2> SUFFICES ASSUME NEW k \in T PROVE k \in Int /\ k + 1 \in S /\ k + 1 # 1
    OBVIOUS
  <2>1. k \in 1..Len(t) /\ t[k].cmd = cmd /\ k <= i
    BY DEF UpTo
  <2>2. k + 1 \in 1..Len(s) /\ t[k] = s[k + 1] /\ k + 1 <= i + 1 /\ k + 1 # 1
    BY <1>1, <2>1
  <2> QED
    BY <2>1, <2>2 DEF UpTo
<1>6. \A k \in S : k \in Int /\ (k # 1 => k - 1 \in T /\ (k - 1) + 1 = k)
  <2> SUFFICES ASSUME NEW k \in S PROVE k \in Int /\ (k # 1 => k - 1 \in T /\ (k - 1) + 1 = k)
    OBVIOUS
  <2>1. k \in 1..Len(s) /\ s[k].cmd = cmd /\ k <= i + 1
    BY DEF UpTo
  <2>2. CASE k # 1
    <3>1. PICK m \in 1..Len(t) : m = k - 1 /\ m + 1 = k /\ m <= i
      BY <1>1, <1>2, <2>1, <2>2
    <3>2. t[m].cmd = cmd
      BY <1>1, <2>1, <3>1
    <3> QED
      BY <2>1, <3>1, <3>2 DEF UpTo
  <2> QED
    BY <2>1, <2>2
<1> HIDE DEF S, T
<1>7. Cardinality(T) = Cardinality(S \ {1})
  <2>1. PICK d \in Int : d = 1
    OBVIOUS
  <2> DEFINE R == S \ {1}
  <2>2. \A k \in R : k \in Int /\ k - d \in T
    BY <1>6, <2>1
  <2>3. \A k \in T : k \in Int /\ k + d \in R
    BY <1>5, <2>1
  <2> HIDE DEF R
  <2>4. Cardinality(T) = Cardinality(R)
    BY <1>3, <2>2, <2>3, Shifted
  <2> QED
    BY <2>4 DEF R
<1>8. Cardinality(S \ {1}) = (IF 1 \in S THEN Cardinality(S) - 1 ELSE Cardinality(S))
  BY <1>3, FS_RemoveElement
<1>9. Rank(Tail(s), cmd, i) = Cardinality(T) /\ Rank(s, cmd, i + 1) = Cardinality(S)
  BY DEF Rank, S, T, t
<1> QED
  BY <1>3, <1>4, <1>7, <1>8, <1>9

(* Of calls added after the others, n at most are of a kind: their places.     *)
LEMMA RankWithin ==
  ASSUME IsCalls(asked), NEW u, IsCalls(u), Extends(asked, u), NEW cmd,
         NEW n \in Nat, NEW P, IsFiniteSet(P), Cardinality(P) <= n,
         \A j \in 1..Len(u) : u[j].cmd = cmd => j \in 1..Len(asked) \/ j \in P,
         NEW i \in 1..Len(u)
  PROVE  Rank(u, cmd, i) <= Underway(cmd) + n /\ Underway(cmd) \in Nat
<1> DEFINE S == {j \in 1..Len(asked) : asked[j].cmd = cmd}
<1>1. Len(asked) \in Nat
  BY CallsShapes
<1>2. IsFiniteSet(S)
  <2>1. IsFiniteSet(1..Len(asked)) /\ S \subseteq 1..Len(asked)
    BY <1>1, FS_Interval
  <2> QED
    BY <2>1, FS_Subset
<1>3. UpTo(u, cmd, i) \subseteq S \cup P
  BY DEF UpTo, Extends
<1> HIDE DEF S
<1>4. /\ IsFiniteSet(S \cup P) /\ Cardinality(S) \in Nat /\ Cardinality(P) \in Nat
      /\ Cardinality(S \cup P) = Cardinality(S) + Cardinality(P) - Cardinality(S \cap P)
      /\ Cardinality(S \cap P) \in Nat
  <2>1. IsFiniteSet(S \cap P)
    BY <1>2, FS_Intersection
  <2> QED
    BY <1>2, <2>1, FS_Union, FS_CardinalityType
<1>5. Rank(u, cmd, i) <= Cardinality(S \cup P) /\ Rank(u, cmd, i) \in Nat
  BY <1>3, <1>4, FS_Subset, RankCounts DEF Rank
<1>6. Underway(cmd) = Cardinality(S)
  BY DEF Underway, S
<1> QED
  BY <1>4, <1>5, <1>6

(* A set of places has a last one.                                          *)
LEMMA Latest ==
  ASSUME NEW n \in Nat, NEW S \in SUBSET (1..n), S # {}
  PROVE  \E m \in S : \A k \in S : k <= m
<1> DEFINE T == {n - k : k \in S}
<1>1. T \in SUBSET Nat /\ T # {}
  <2>1. \A k \in S : n - k \in Nat
    OBVIOUS
  <2> QED
    BY <2>1
<1>2. PICK t \in T : \A k \in T : t <= k
  BY <1>1, Least
<1>3. PICK m \in S : t = n - m
  BY <1>2
<1>4. \A k \in S : n - m <= n - k
  BY <1>2, <1>3
<1> QED
  BY <1>4

(* A save keeps its place when the calls move up, or others are added.      *)
LEMMA RankMoved ==
  ASSUME IsCalls(asked), NEW d, Moved(d), NEW i \in SavesAt
  PROVE  Rank(asked', "save_config", i - d) = Rank(asked, "save_config", i)
<1> DEFINE S == UpTo(asked, "save_config", i)
           T == UpTo(asked', "save_config", i - d)
<1>1. d \in Int /\ IsCalls(asked') /\ i \in Int
  BY DEF Moved, SavesAt
<1>2. /\ \A k \in SavesAt' : k + d \in SavesAt
      /\ \A k \in SavesAt : k - d \in SavesAt'
      /\ SavesAt \subseteq Int /\ SavesAt' \subseteq Int
  BY MovedSaves
<1>3. S = {k \in SavesAt : k <= i} /\ T = {k \in SavesAt' : k <= i - d}
  BY DEF UpTo, SavesAt
<1> HIDE DEF S, T
<1>4. \A k \in T : k \in Int /\ k + d \in S
  BY <1>1, <1>2, <1>3
<1>5. \A k \in S : k \in Int /\ k - d \in T
  BY <1>1, <1>2, <1>3
<1>6. IsFiniteSet(T)
  <2>1. i - d \in 1..Len(asked')
    BY <1>2 DEF SavesAt
  <2> QED
    BY <1>1, <2>1, RankCounts DEF T
<1>7. Cardinality(T) = Cardinality(S)
  BY <1>1, <1>4, <1>5, <1>6, Shifted
<1> QED
  BY <1>7 DEF Rank, S, T

-----------------------------------------------------------------------------
(* The settings: their revisions only grow on the way from the window to the   *)
(* file.  Once a quit flushed them, the file has what it promised, or a save    *)
(* that the quit waits for does, or a save is held, failed, or may not be.      *)
RevsRise ==
  /\ settings.rev <= ops + 1 /\ file.rev <= ops + 1
  /\ ready = "no" => settings.rev = 0
  /\ \A i \in SavesAt :
       /\ asked[i].body.rev <= settings.rev
       /\ \A j \in SavesAt : j > i => asked[i].body.rev <= asked[j].body.rev
  /\ ready = "yes" =>
       /\ settings.rev > 0 => file.rev <= settings.rev
       /\ \A i \in SavesAt : file.rev <= asked[i].body.rev

WaitsShape == waits \subseteq [n : Int, again : BOOLEAN, quit : BOOLEAN]

Covers(i) == asked[i].body.rev >= promised.rev
CoverAwaited ==
  /\ quit = "flushing"
  /\ \E i \in SavesAt, w \in waits :
       Covers(i) /\ w.quit /\ Rank(asked, "save_config", i) <= w.n

SettingsKeep ==
  Quitting =>
    /\ promised.rev \in Int
    /\ ready = "no" => promised.rev = 0
    /\ ready = "yes" /\ promised.rev > 0 =>
         /\ promised.rev <= settings.rev
         /\ ~frozen => \A i \in SavesAt : (\A j \in SavesAt : j <= i) => Covers(i)
         /\ Faulted \/ refused \/ held \/ file.rev >= promised.rev \/ CoverAwaited

SettingsInv == RevsRise /\ WaitsShape /\ SettingsKeep

(* The revisions are numbers.                                              *)
LEMMA RevsCount ==
  ASSUME ConfigInv
  PROVE  /\ settings.rev \in Int /\ file.rev \in Int /\ ops \in Nat
         /\ \A i \in SavesAt : asked[i].body.rev \in Int
BY DEF ConfigInv, SettingsShape, CallsInOrder, Shape

(* Revisions still rise when the calls move up, or others are added.        *)
LEMMA RevsMoved ==
  ASSUME ConfigInv, RevsRise, NEW d, Moved(d), ops' >= ops, ops' \in Nat,
         UNCHANGED <<settings, ready, file>>
  PROVE  RevsRise'
<1>1. IsCalls(asked) /\ d \in 0..1
  BY DEF ConfigInv, CallsInOrder, Moved
<1>2. /\ \A i \in SavesAt' : i + d \in SavesAt /\ asked'[i] = asked[i + d]
      /\ SavesAt \subseteq Int /\ SavesAt' \subseteq Int
  BY <1>1, MovedSaves
<1>3. /\ settings'.rev <= ops' + 1 /\ file'.rev <= ops' + 1
      /\ ready' = "no" => settings'.rev = 0
      /\ ready' = "yes" /\ settings'.rev > 0 => file'.rev <= settings'.rev
  BY RevsCount DEF RevsRise
<1>4. ASSUME NEW i \in SavesAt'
      PROVE  /\ asked'[i].body.rev <= settings'.rev
             /\ ready' = "yes" => file'.rev <= asked'[i].body.rev
  BY <1>2 DEF RevsRise
<1>5. ASSUME NEW i \in SavesAt', NEW j \in SavesAt', j > i
      PROVE  asked'[i].body.rev <= asked'[j].body.rev
  <2>1. i + d \in SavesAt /\ j + d \in SavesAt /\ j + d > i + d
    BY <1>1, <1>2, <1>5
  <2>2. asked[i + d].body.rev <= asked[j + d].body.rev
    BY <2>1 DEF RevsRise
  <2> QED
    BY <1>2, <2>2
<1> QED
  BY <1>3, <1>4, <1>5 DEF RevsRise

(* The other stores' calls.                                                 *)
LEMMA SettingsMoved ==
  ASSUME ConfigInv, SettingsInv, Counted, NEW d, Moved(d),
         ops' \in Nat, ops' >= ops, faults' \in {faults, faults + 1},
         UNCHANGED <<settings, ready, file, refused, quit, promised>>,
         frozen => frozen', held => held', WaitsShape', \A w \in waits : w.n > 0 => w \in waits'
  PROVE  SettingsInv'
<1>1. IsCalls(asked) /\ d \in 0..1 /\ IsCalls(asked')
  BY DEF ConfigInv, CallsInOrder, Moved
<1>2. /\ \A i \in SavesAt' : i + d \in SavesAt /\ asked'[i] = asked[i + d]
      /\ \A i \in SavesAt : i - d \in SavesAt' /\ asked'[i - d] = asked[i]
      /\ SavesAt \subseteq Int /\ SavesAt' \subseteq Int
  BY <1>1, MovedSaves
<1>3. RevsRise'
  BY RevsMoved DEF SettingsInv
<1>4. SettingsKeep'
  <2> SUFFICES ASSUME Quitting PROVE SettingsKeep'
    BY DEF SettingsKeep, Quitting
  <2>1. SettingsKeep
    BY DEF SettingsInv
  <2> SUFFICES ASSUME ready = "yes", promised.rev > 0
               PROVE  /\ promised.rev <= settings.rev
                      /\ ~frozen' => \A i \in SavesAt' : (\A j \in SavesAt' : j <= i) => Covers(i)'
                      /\ Faulted' \/ refused \/ held' \/ file.rev >= promised.rev \/ CoverAwaited'
    BY <2>1 DEF SettingsKeep
  <2>2. promised.rev <= settings.rev
    BY <2>1 DEF SettingsKeep
  <2>3. ASSUME ~frozen', NEW i \in SavesAt', \A j \in SavesAt' : j <= i PROVE Covers(i)'
    <3>1. ASSUME NEW j \in SavesAt PROVE j <= i + d
      <4>1. j - d <= i
        BY <1>2, <2>3
      <4> QED
        BY <1>1, <1>2, <4>1
    <3>2. i + d \in SavesAt /\ asked'[i] = asked[i + d]
      BY <1>2
    <3>3. Covers(i + d)
      BY <2>1, <2>3, <3>1, <3>2 DEF SettingsKeep
    <3> QED
      BY <3>2, <3>3 DEF Covers
  <2>4. Faulted => Faulted'
    BY DEF Faulted, Counted
  <2>5. ASSUME CoverAwaited PROVE CoverAwaited'
    <3>1. PICK i \in SavesAt, w \in waits :
                 Covers(i) /\ w.quit /\ Rank(asked, "save_config", i) <= w.n
      BY <2>5 DEF CoverAwaited
    <3>2. Rank(asked, "save_config", i) \in Nat /\ Rank(asked, "save_config", i) > 0
      BY <1>1, RankCounts DEF SavesAt
    <3>3. w.n \in Int
      BY DEF SettingsInv, WaitsShape
    <3>4. w \in waits'
      BY <3>1, <3>2, <3>3
    <3>5. PICK k \in SavesAt' : k = i - d /\ asked'[k] = asked[i]
      BY <1>2
    <3>6. Rank(asked', "save_config", k) = Rank(asked, "save_config", i)
      BY <1>1, <3>5, RankMoved
    <3>7. asked'[k].body.rev >= promised'.rev
      BY <3>1, <3>5 DEF Covers
    <3>8. quit' = "flushing"
      BY <2>5 DEF CoverAwaited
    <3> QED
      BY <3>1, <3>4, <3>6, <3>7, <3>8 DEF CoverAwaited, Covers
  <2> QED
    BY <2>1, <2>2, <2>3, <2>4, <2>5 DEF SettingsKeep
<1> QED
  BY <1>3, <1>4 DEF SettingsInv

(* A save that is issued is the last one, and holds the settings.           *)
LEMMA IssuedLast ==
  ASSUME IsCalls(asked), Issued
  PROVE  \E n \in Nat :
           /\ n \in SavesAt' /\ asked'[n].body = settings
           /\ \A i \in SavesAt : i \in SavesAt' /\ i < n /\ asked'[i] = asked[i]
           /\ \A i \in SavesAt' : i <= n /\ (i = n \/ i \in SavesAt)
           /\ SavesAt \subseteq Int /\ SavesAt' \subseteq Int
           /\ Extends(asked, asked') /\ IsCalls(asked')
<1>1. PICK n \in Nat : n = Len(asked')
  BY CallsShapes DEF Issued
<1>2. /\ IsCalls(asked') /\ n > Len(asked) /\ Len(asked) \in Nat
      /\ asked'[n].cmd = "save_config" /\ asked'[n].body = settings
      /\ \A i \in 1..Len(asked) : asked'[i] = asked[i]
      /\ \A i \in 1..n : i \in 1..Len(asked) \/ i = n \/ asked'[i].cmd \notin ConfigCmds
  BY <1>1, CallsShapes DEF Issued, ConfigCall
<1>3. n \in 1..n /\ \A i \in 1..Len(asked) : i \in 1..n /\ i < n
  BY <1>2
<1>4. SavesAt' = {i \in 1..n : asked'[i].cmd = "save_config"}
  BY <1>1 DEF SavesAt
<1>5. \A i \in SavesAt : i \in SavesAt' /\ i < n /\ asked'[i] = asked[i]
  BY <1>2, <1>3, <1>4 DEF SavesAt
<1>6. \A i \in SavesAt' : i <= n /\ (i = n \/ i \in SavesAt)
  BY <1>2, <1>3, <1>4 DEF SavesAt, ConfigCmds
<1>7. Extends(asked, asked')
  BY <1>1, <1>2, <1>3 DEF Extends
<1>8. SavesAt \subseteq Int /\ SavesAt' \subseteq Int
  BY <1>4 DEF SavesAt
<1> QED
  BY <1>2, <1>3, <1>4, <1>5, <1>6, <1>7, <1>8

(* Revisions still rise with a save of the settings behind them.            *)
LEMMA RevsIssued ==
  ASSUME ConfigInv, RevsRise, Issued, ready # "no", settings.rev > 0, ops' \in Nat, ops' >= ops,
         UNCHANGED <<settings, ready, file>>
  PROVE  RevsRise'
<1>1. PICK n \in Nat :
           /\ n \in SavesAt' /\ asked'[n].body = settings
           /\ \A i \in SavesAt : i \in SavesAt' /\ i < n /\ asked'[i] = asked[i]
           /\ \A i \in SavesAt' : i <= n /\ (i = n \/ i \in SavesAt)
           /\ SavesAt \subseteq Int /\ SavesAt' \subseteq Int
  BY IssuedLast DEF ConfigInv, CallsInOrder
<1>2. /\ settings.rev \in Int /\ file.rev \in Int /\ ops \in Nat
      /\ \A i \in SavesAt : asked[i].body.rev \in Int
  BY RevsCount
<1>3. /\ settings'.rev <= ops' + 1 /\ file'.rev <= ops' + 1
      /\ ready' = "no" => settings'.rev = 0
      /\ ready' = "yes" /\ settings'.rev > 0 => file'.rev <= settings'.rev
  BY <1>2 DEF RevsRise
<1>4. ASSUME NEW i \in SavesAt'
      PROVE  /\ asked'[i].body.rev <= settings'.rev
             /\ ready' = "yes" => file'.rev <= asked'[i].body.rev
  BY <1>1, <1>2 DEF RevsRise
<1>5. ASSUME NEW i \in SavesAt', NEW j \in SavesAt', j > i
      PROVE  asked'[i].body.rev <= asked'[j].body.rev
  <2>1. i # n /\ i \in SavesAt
    BY <1>1, <1>5
  <2>2. CASE j = n
    BY <1>1, <1>2, <1>4, <2>2
  <2>3. CASE j # n
    BY <1>1, <1>5, <2>1, <2>3 DEF RevsRise
  <2> QED
    BY <2>2, <2>3
<1> QED
  BY <1>3, <1>4, <1>5 DEF RevsRise

(* A save is sent.                                                          *)
LEMMA SettingsIssued ==
  ASSUME ConfigInv, SettingsInv, Counted, Issued, ready # "no", settings.rev > 0,
         ops' \in Nat, ops' >= ops, faults' = faults,
         UNCHANGED <<settings, ready, file, refused, quit, promised>>,
         held => held', WaitsShape', \A w \in waits : w.n > 0 => w \in waits'
  PROVE  SettingsInv'
<1>1. IsCalls(asked)
  BY DEF ConfigInv, CallsInOrder
<1>2. PICK n \in Nat :
           /\ n \in SavesAt' /\ asked'[n].body = settings
           /\ \A i \in SavesAt : i \in SavesAt' /\ i < n /\ asked'[i] = asked[i]
           /\ \A i \in SavesAt' : i <= n /\ (i = n \/ i \in SavesAt)
           /\ SavesAt \subseteq Int /\ SavesAt' \subseteq Int
           /\ Extends(asked, asked') /\ IsCalls(asked')
  BY <1>1, IssuedLast
<1>3. /\ settings.rev \in Int /\ file.rev \in Int /\ ops \in Nat
      /\ \A i \in SavesAt : asked[i].body.rev \in Int
  BY RevsCount
<1>4. RevsRise'
  BY RevsIssued DEF SettingsInv
<1>5. SettingsKeep'
  <2> SUFFICES ASSUME Quitting PROVE SettingsKeep'
    BY DEF SettingsKeep, Quitting
  <2>1. SettingsKeep
    BY DEF SettingsInv
  <2> SUFFICES ASSUME ready = "yes", promised.rev > 0
               PROVE  /\ promised.rev <= settings.rev
                      /\ \A i \in SavesAt' : (\A j \in SavesAt' : j <= i) => Covers(i)'
                      /\ Faulted' \/ refused \/ held' \/ file.rev >= promised.rev \/ CoverAwaited'
    BY <2>1 DEF SettingsKeep
  <2>2. promised.rev <= settings.rev /\ promised.rev \in Int
    BY <2>1 DEF SettingsKeep
  <2>3. ASSUME NEW i \in SavesAt', \A j \in SavesAt' : j <= i PROVE Covers(i)'
    <3>1. i = n
      BY <1>2, <2>3
    <3> QED
      BY <1>2, <1>3, <2>2, <3>1 DEF Covers
  <2>4. Faulted => Faulted'
    BY DEF Faulted
  <2>5. ASSUME CoverAwaited PROVE CoverAwaited'
    <3>1. PICK i \in SavesAt, w \in waits :
                 Covers(i) /\ w.quit /\ Rank(asked, "save_config", i) <= w.n
      BY <2>5 DEF CoverAwaited
    <3>2. i \in 1..Len(asked) /\ asked[i].cmd = "save_config"
      BY DEF SavesAt
    <3>3. Rank(asked, "save_config", i) \in Nat /\ Rank(asked, "save_config", i) > 0
      BY <1>1, <3>2, RankCounts
    <3>4. w.n \in Int
      BY DEF SettingsInv, WaitsShape
    <3>5. w \in waits'
      BY <3>1, <3>3, <3>4
    <3>6. Rank(asked', "save_config", i) = Rank(asked, "save_config", i)
      BY <1>1, <1>2, <3>2, RankExtended
    <3>7. i \in SavesAt' /\ asked'[i].body.rev >= promised'.rev
      BY <1>2, <3>1 DEF Covers
    <3>8. quit' = "flushing"
      BY <2>5 DEF CoverAwaited
    <3> QED
      BY <3>1, <3>5, <3>6, <3>7, <3>8 DEF CoverAwaited, Covers
  <2> QED
    BY <2>1, <2>2, <2>3, <2>4, <2>5 DEF SettingsKeep
<1> QED
  BY <1>4, <1>5 DEF SettingsInv

(* An auto-save or a retry keeps what was promised of the settings.         *)
LEMMA SettingsSaved ==
  ASSUME ConfigInv, SettingsInv, Counted, NEW known, SaveNow(known), ready # "no",
         settings.rev > 0, ops' \in Nat, ops' >= ops, faults' = faults,
         Clashes(known) => Moved(0), ~Clashes(known) => Issued,
         UNCHANGED <<settings, ready, file, refused, quit, promised>>,
         WaitsShape', \A w \in waits : w.n > 0 => w \in waits'
  PROVE  SettingsInv'
<1>1. (held => held') /\ (frozen' = Clashes(known))
  BY DEF SaveNow
<1>2. CASE Clashes(known)
  BY <1>1, <1>2, SettingsMoved
<1>3. CASE ~Clashes(known)
  BY <1>1, <1>3, SettingsIssued
<1> QED
  BY <1>2, <1>3

(* A flush waits beside the others.                                         *)
LEMMA WaitsFlushed ==
  ASSUME IsCalls(asked), NEW known, NEW quits \in SUBSET BOOLEAN, NEW others,
         others \subseteq [n : Int, again : BOOLEAN, quit : BOOLEAN],
         FlushSave(others, quits, known)
  PROVE  WaitsShape' /\ others \subseteq waits'
<1>1. Len(FlushCalls(known)) \in {0, 1}
  <2>1. FlushCalls(known) \in {<<>>, <<ConfigCall>>}
    BY DEF FlushCalls, SaveCalls
  <2> QED
    BY <2>1, CallsOne, CallsNone
<1>2. Writing + Len(FlushCalls(known)) \in Int
  BY <1>1, WritingCount
<1>3. FlushWaits(quits, known) \subseteq [n : Int, again : BOOLEAN, quit : BOOLEAN]
  <2> DEFINE m == Writing + Len(FlushCalls(known))
             anew == ~MustSave /\ frozen
  <2>1. FlushWaits(quits, known) \subseteq {[n |-> m, again |-> anew, quit |-> q] : q \in quits}
    BY DEF FlushWaits
  <2>2. anew \in BOOLEAN
    OBVIOUS
  <2> HIDE DEF m, anew
  <2>3. m \in Int
    BY <1>2 DEF m
  <2> QED
    BY <2>1, <2>2, <2>3
<1> QED
  BY <1>3 DEF FlushSave, WaitsShape

(* What a flush of the settings does: a freeze, a save, or nothing.           *)
LEMMA FlushSends ==
  ASSUME ConfigInv, NEW known, NEW ws, NEW quits, FlushSave(ws, quits, known),
         NEW t, OtherCalls(t), asked' = asked \o t \o FlushCalls(known)
  PROVE  \/ MustSave /\ Clashes(known) /\ Moved(0) /\ frozen' /\ held'
         \/ /\ MustSave /\ ~Clashes(known) /\ Issued /\ settings.rev > 0
            /\ ~frozen' /\ (held => held') /\ FlushCalls(known) = <<ConfigCall>>
         \/ /\ ~MustSave /\ Moved(0) /\ FlushCalls(known) = <<>>
            /\ UNCHANGED <<timer, frozen, held, chordsDue>>
<1>1. IsCalls(asked)
  BY DEF ConfigInv, CallsInOrder
<1>2. CASE MustSave
  <2>1. SaveNow(known) /\ settings.rev > 0 /\ FlushCalls(known) = SaveCalls(known)
    BY <1>2 DEF FlushSave, ConfigInv, Booted, MustSave, FlushCalls
  <2>2. CASE Clashes(known)
    <3>1. asked' = asked \o t \o <<>>
      BY <2>1, <2>2 DEF SaveCalls
    <3>2. Moved(0)
      BY <1>1, <3>1, OtherCommands, MovedPast
    <3> QED
      BY <1>2, <2>1, <2>2, <3>2 DEF SaveNow
  <2>3. CASE ~Clashes(known)
    <3>1. FlushCalls(known) = <<ConfigCall>>
      BY <2>1, <2>3 DEF SaveCalls
    <3>2. Issued
      BY <1>1, <3>1, IssuedBy
    <3>3. ~frozen' /\ (held => held')
      BY <2>1, <2>3 DEF SaveNow
    <3> QED
      BY <1>2, <2>1, <2>3, <3>1, <3>2, <3>3
  <2> QED
    BY <2>2, <2>3
<1>3. CASE ~MustSave
  <2>1. /\ FlushCalls(known) = <<>> /\ asked' = asked \o t \o <<>>
        /\ UNCHANGED <<timer, frozen, held, chordsDue>>
    BY <1>3 DEF FlushSave, FlushCalls
  <2>2. Moved(0)
    BY <1>1, <2>1, OtherCommands, MovedPast
  <2> QED
    BY <1>3, <2>1, <2>2
<1> QED
  BY <1>2, <1>3

(* A flush that is no quit's keeps what was promised of the settings.       *)
LEMMA SettingsFlushed ==
  ASSUME ConfigInv, SettingsInv, Counted, NEW known, NEW ws, NEW quits \in SUBSET BOOLEAN,
         FlushSave(ws, quits, known), ws \subseteq waits, \A w \in waits : w.n > 0 => w \in ws,
         ready # "no", ops' \in Nat, ops' >= ops, faults' = faults,
         NEW t, OtherCalls(t), asked' = asked \o t \o FlushCalls(known),
         UNCHANGED <<settings, ready, file, refused, quit, promised>>
  PROVE  SettingsInv'
<1>1. IsCalls(asked)
  BY DEF ConfigInv, CallsInOrder
<1>2. WaitsShape' /\ \A w \in waits : w.n > 0 => w \in waits'
  <2>1. ws \subseteq [n : Int, again : BOOLEAN, quit : BOOLEAN]
    BY DEF SettingsInv, WaitsShape
  <2> QED
    BY <1>1, <2>1, WaitsFlushed
<1>3. CASE Moved(0) /\ (frozen => frozen') /\ (held => held')
  BY <1>2, <1>3, SettingsMoved
<1>4. CASE Issued /\ settings.rev > 0 /\ (held => held')
  BY <1>2, <1>4, SettingsIssued
<1>5. CASE Moved(0) /\ UNCHANGED <<timer, frozen, held, chordsDue>>
  BY <1>3, <1>5
<1> QED
  BY <1>3, <1>4, <1>5, FlushSends

(* A save is answered: the flushes that waited for it wait for one save less.  *)
LEMMA WaitsSettled ==
  ASSUME WaitsShape, waits' = Settles(waits)
  PROVE  /\ WaitsShape'
         /\ \A w \in waits : w.n > 1 => \E v \in waits' : v.n = w.n - 1 /\ v.quit = w.quit
<1>1. \A w \in waits : /\ [w EXCEPT !.n = @ - 1] \in [n : Int, again : BOOLEAN, quit : BOOLEAN]
                       /\ [w EXCEPT !.n = @ - 1].n = w.n - 1
                       /\ [w EXCEPT !.n = @ - 1].quit = w.quit /\ w.n \in Int
  BY DEF WaitsShape
<1>2. \A v \in waits' : \E w \in waits : v = [w EXCEPT !.n = @ - 1]
  BY DEF Settles
<1>3. ASSUME NEW w \in waits, w.n > 1 PROVE [w EXCEPT !.n = @ - 1] \in waits'
  <2>1. PICK v : v = [w EXCEPT !.n = @ - 1] /\ v.n = w.n - 1 /\ w.n \in Int
    BY <1>1
  <2>2. v.n > 0
    BY <1>3, <2>1
  <2> QED
    BY <2>1, <2>2 DEF Settles
<1> QED
  BY <1>1, <1>2, <1>3 DEF WaitsShape

(* So does the answer to a save, written or failed.                         *)
LEMMA SettingsAnswered ==
  ASSUME ConfigInv, SettingsInv, Counted, Arrives("save_config"), asked' = Tail(asked),
         ops' \in Nat, ops' >= ops, faults' \in {faults, faults + 1}, waits' = Settles(waits),
         UNCHANGED <<settings, ready, frozen, refused, quit, promised>>,
         \/ file' = asked[1].body /\ ~refused /\ held' = (held /\ ~Newest)
         \/ file' = file /\ (held => held') /\ (refused \/ faults' = faults + 1)
  PROVE  SettingsInv'
<1>1. /\ 1 \in SavesAt /\ ready # "no"
      /\ Writing = 1 => SavesAt = {1} /\ SavesAt' = {}
  BY SaveFirst
<1>2. IsCalls(asked) /\ asked # <<>>
  BY DEF ConfigInv, CallsInOrder, Arrives
<1>3. /\ IsCalls(asked') /\ SavesAt \subseteq Int /\ SavesAt' \subseteq Int
      /\ \A i \in SavesAt' : i + 1 \in SavesAt /\ i + 1 > 1 /\ asked'[i] = asked[i + 1]
      /\ \A i \in SavesAt : i # 1 => i > 1 /\ i - 1 \in SavesAt' /\ asked'[i - 1] = asked[i]
  BY <1>2, SavesTail
<1>4. /\ settings.rev \in Int /\ file.rev \in Int /\ ops \in Nat
      /\ \A i \in SavesAt : asked[i].body.rev \in Int
  BY RevsCount
<1>5. WaitsShape' /\ \A w \in waits : w.n > 1 => \E v \in waits' : v.n = w.n - 1 /\ v.quit = w.quit
  BY WaitsSettled DEF SettingsInv
<1>6. file' = asked[1].body \/ file' = file
  OBVIOUS
<1>7. RevsRise'
  <2>1. ASSUME NEW i \in SavesAt'
        PROVE  /\ asked'[i].body.rev <= settings'.rev
               /\ ready' = "yes" => file'.rev <= asked'[i].body.rev
    <3>1. PICK k \in SavesAt : k > 1 /\ asked'[i] = asked[k]
      BY <1>3
    <3>2. asked[1].body.rev <= asked[k].body.rev
      BY <1>1, <3>1 DEF SettingsInv, RevsRise
    <3> QED
      BY <1>6, <3>1, <3>2 DEF SettingsInv, RevsRise
  <2>2. ASSUME NEW i \in SavesAt', NEW j \in SavesAt', j > i
        PROVE  asked'[i].body.rev <= asked'[j].body.rev
    <3>1. i + 1 \in SavesAt /\ j + 1 \in SavesAt /\ j + 1 > i + 1
      BY <1>3, <2>2
    <3>2. asked[i + 1].body.rev <= asked[j + 1].body.rev
      BY <3>1 DEF SettingsInv, RevsRise
    <3> QED
      BY <1>3, <3>2
  <2>3. /\ settings'.rev <= ops' + 1 /\ file'.rev <= ops' + 1
        /\ ready' = "no" => settings'.rev = 0
        /\ ready' = "yes" /\ settings'.rev > 0 => file'.rev <= settings'.rev
    BY <1>1, <1>4, <1>6 DEF SettingsInv, RevsRise
  <2> QED
    BY <2>1, <2>2, <2>3 DEF RevsRise
<1>8. SettingsKeep'
  <2> SUFFICES ASSUME Quitting PROVE SettingsKeep'
    BY DEF SettingsKeep, Quitting
  <2>1. SettingsKeep
    BY DEF SettingsInv
  <2> SUFFICES ASSUME ready = "yes", promised.rev > 0
               PROVE  /\ promised.rev <= settings.rev
                      /\ ~frozen => \A i \in SavesAt' : (\A j \in SavesAt' : j <= i) => Covers(i)'
                      /\ Faulted' \/ refused \/ held' \/ file'.rev >= promised.rev \/ CoverAwaited'
    BY <2>1 DEF SettingsKeep
  <2>2. promised.rev <= settings.rev /\ promised.rev \in Int
    BY <2>1 DEF SettingsKeep
  <2>3. ASSUME ~frozen, NEW i \in SavesAt', \A j \in SavesAt' : j <= i PROVE Covers(i)'
    <3>1. ASSUME NEW j \in SavesAt PROVE j <= i + 1
      <4>1. CASE j = 1
        BY <1>3, <4>1
      <4>2. CASE j # 1
        <5>1. j - 1 <= i
          BY <1>3, <2>3, <4>2
        <5> QED
          BY <1>3, <5>1
      <4> QED
        BY <4>1, <4>2
    <3>2. i + 1 \in SavesAt /\ asked'[i] = asked[i + 1]
      BY <1>3
    <3>3. Covers(i + 1)
      BY <2>1, <2>3, <3>1, <3>2 DEF SettingsKeep
    <3> QED
      BY <3>2, <3>3 DEF Covers
  <2>4. CASE Faulted \/ faults' = faults + 1
    <3>1. Faulted'
      BY <2>4 DEF Faulted, Counted
    <3> QED
      BY <2>2, <2>3, <3>1
  <2>5. CASE refused
    BY <2>2, <2>3, <2>5
  <2>6. CASE file' = asked[1].body /\ held' = (held /\ ~Newest) /\ ~refused /\ ~Faulted
    <3>1. CASE held /\ ~Newest
      BY <2>2, <2>3, <2>6, <3>1
    <3>2. CASE Newest
      <4>1. ~frozen /\ \A j \in SavesAt : j <= 1
        BY <1>1, <3>2 DEF Newest
      <4>2. Covers(1)
        BY <1>1, <2>1, <4>1 DEF SettingsKeep
      <4> QED
        BY <2>2, <2>3, <2>6, <4>2 DEF Covers
    <3>3. CASE Covers(1)
      BY <2>2, <2>3, <2>6, <3>3 DEF Covers
    <3>4. CASE file.rev >= promised.rev
      <4>1. file.rev <= asked[1].body.rev
        BY <1>1 DEF SettingsInv, RevsRise
      <4>2. file'.rev >= promised.rev
        BY <1>1, <1>4, <2>2, <2>6, <3>4, <4>1
      <4> QED
        BY <2>2, <2>3, <4>2
    <3>5. CASE CoverAwaited /\ ~Covers(1)
      <4>1. PICK i \in SavesAt, w \in waits :
                   Covers(i) /\ w.quit /\ Rank(asked, "save_config", i) <= w.n
        BY <3>5 DEF CoverAwaited
      <4>2. i # 1
        BY <3>5, <4>1
      <4>3. PICK k \in SavesAt' : k = i - 1 /\ i = k + 1 /\ asked'[k] = asked[i]
        <5>1. i - 1 \in SavesAt' /\ asked'[i - 1] = asked[i] /\ i \in Int
          BY <1>3, <4>2
        <5>2. i = (i - 1) + 1
          BY <5>1
        <5> QED
          BY <5>1, <5>2
      <4>4. k \in 1..Len(Tail(asked)) /\ asked'[k].cmd = "save_config" /\ k \in 1..Len(asked')
        BY DEF SavesAt
      <4>5. asked[1].cmd = "save_config"
        BY <1>1 DEF SavesAt
      <4>6. Rank(asked', "save_config", k) = Rank(asked, "save_config", i) - 1
        BY <1>2, <4>3, <4>4, <4>5, RankTail
      <4>7. Rank(asked', "save_config", k) \in Nat /\ Rank(asked', "save_config", k) > 0
        BY <1>3, <4>4, RankCounts
      <4>8. Rank(asked, "save_config", i) \in Nat
        BY <1>2, RankCounts DEF SavesAt
      <4>9. w.n \in Int
        BY DEF SettingsInv, WaitsShape
      <4>10. PICK v \in waits' : v.n = w.n - 1 /\ v.quit = w.quit
        <5>1. w.n > 1
          BY <4>1, <4>6, <4>7, <4>8, <4>9
        <5> QED
          BY <1>5, <5>1
      <4>11. Rank(asked', "save_config", k) <= v.n
        BY <4>1, <4>6, <4>8, <4>9, <4>10
      <4>12. asked'[k].body.rev >= promised'.rev /\ quit' = "flushing"
        BY <3>5, <4>1, <4>3 DEF Covers, CoverAwaited
      <4>13. CoverAwaited'
        BY <4>1, <4>10, <4>11, <4>12 DEF CoverAwaited, Covers
      <4> QED
        BY <2>2, <2>3, <4>13
    <3> QED
      BY <2>1, <2>6, <3>1, <3>2, <3>3, <3>4, <3>5 DEF SettingsKeep
  <2> QED
    BY <2>4, <2>5, <2>6
<1> QED
  BY <1>5, <1>7, <1>8 DEF SettingsInv

(* An edit.                                                                 *)
LEMMA SettingsChanged ==
  ASSUME ConfigInv, SettingsInv, Counted, NEW s \in Shape, s.rev = Rev, Changes(s),
         faults' = faults, UNCHANGED <<quit, promised>>
  PROVE  SettingsInv'
<1>1. /\ ready # "no" /\ asked' = asked /\ settings' = s /\ ops' = ops + 1
      /\ UNCHANGED <<ready, held, frozen, waits, file, refused>>
  BY DEF Changes, Acts, fileVars
<1>2. SavesAt' = SavesAt
  BY <1>1 DEF SavesAt
<1>3. /\ settings.rev \in Int /\ file.rev \in Int /\ ops \in Nat
      /\ \A i \in SavesAt : asked[i].body.rev \in Int
  BY RevsCount
<1>4. settings'.rev = ops + 2 /\ settings'.rev > settings.rev
  BY <1>1, <1>3 DEF Rev, Edit, SettingsInv, RevsRise
<1>5. RevsRise'
  BY <1>1, <1>2, <1>3, <1>4 DEF SettingsInv, RevsRise
<1>6. CoverAwaited => CoverAwaited'
  BY <1>1, <1>2 DEF CoverAwaited, Covers
<1>7. SettingsKeep'
  BY <1>1, <1>2, <1>3, <1>4, <1>6 DEF SettingsInv, SettingsKeep, Quitting, Faulted, Covers
<1> QED
  BY <1>1, <1>5, <1>7 DEF SettingsInv, WaitsShape

(* The launch's load.                                                       *)
LEMMA SettingsLoads ==
  ASSUME ConfigInv, SettingsInv, Counted, LoadConfig, ops' = ops, UNCHANGED <<quit, promised>>
  PROVE  SettingsInv'
<1>1. Arrives("load_config") /\ asked' = Tail(asked) /\ UNCHANGED waits
  BY DEF LoadConfig
<1>2. ready = "no" /\ SavesAt' = {}
  BY <1>1, LoadAlone
<1>3. settings.rev \in Int /\ file.rev \in Int /\ ops \in Nat
  BY RevsCount
<1>4. RevsRise'
  <2>1. CASE ready' = "failed" /\ UNCHANGED <<settings, file>>
    BY <1>2, <1>3, <2>1 DEF SettingsInv, RevsRise
  <2>2. ASSUME NEW body, Loads(body), settings' = body, ready' = "yes" PROVE RevsRise'
    <3>1. /\ file' \in {file, NoFile} /\ NoFile.rev = -1
          /\ body.rev > 0 => body = file'
          /\ body.rev = 0 \/ body.rev > 0
      BY <2>2, Loaded DEF ConfigInv, NoFile, Settings
    <3>2. file'.rev <= ops + 1 /\ settings'.rev <= ops + 1
      BY <1>3, <2>2, <3>1 DEF SettingsInv, RevsRise
    <3>3. settings'.rev > 0 => file'.rev <= settings'.rev
      BY <1>3, <2>2, <3>1
    <3> QED
      BY <1>2, <2>2, <3>2, <3>3 DEF RevsRise
  <2> QED
    BY <2>1, <2>2 DEF LoadConfig
<1>5. SettingsKeep'
  <2>1. ready' # "no"
    BY DEF LoadConfig
  <2> QED
    BY <1>2, <2>1 DEF SettingsInv, SettingsKeep, Quitting
<1> QED
  BY <1>1, <1>4, <1>5 DEF SettingsInv, WaitsShape

(* A quit's flush of the settings.                                          *)
LEMMA SettingsPromised ==
  ASSUME ConfigInv, SettingsInv, FlushSave(waits, {TRUE}, permitted), ready # "no",
         NEW t, OtherCalls(t), asked' = asked \o t \o FlushCalls(permitted),
         UNCHANGED <<settings, ready, file, refused>>,
         quit' = "flushing", promised'.rev = settings.rev
  PROVE  SettingsKeep'
<1>1. IsCalls(asked) /\ Len(asked) \in Nat
  BY CallsShapes DEF ConfigInv, CallsInOrder
<1>2. /\ settings.rev \in Int /\ \A i \in SavesAt : asked[i].body.rev \in Int
  BY RevsCount
<1> SUFFICES ASSUME ready = "yes", settings.rev > 0
             PROVE  /\ ~frozen' => \A i \in SavesAt' : (\A j \in SavesAt' : j <= i) => Covers(i)'
                    /\ held' \/ file'.rev >= promised'.rev \/ CoverAwaited'
  BY <1>2 DEF SettingsKeep
<1>3. waits' = waits \cup FlushWaits({TRUE}, permitted)
  BY DEF FlushSave
<1>4. CASE frozen' /\ held'
  BY <1>4
<1>5. CASE MustSave /\ ~Clashes(permitted) /\ Issued /\ FlushCalls(permitted) = <<ConfigCall>>
  <2>1. PICK n \in Nat :
             /\ n \in SavesAt' /\ asked'[n].body = settings
             /\ \A i \in SavesAt' : i <= n /\ (i = n \/ i \in SavesAt)
             /\ SavesAt' \subseteq Int /\ Extends(asked, asked') /\ IsCalls(asked')
    BY <1>1, <1>5, IssuedLast
  <2>2. n \in 1..Len(asked')
    BY <2>1 DEF SavesAt
  <2>3. Rank(asked', "save_config", n) <= Underway("save_config") + 1
    <3>1. IsFiniteSet({n}) /\ Cardinality({n}) <= 1
      <4>1. IsFiniteSet({n}) /\ Cardinality({n}) = 1
        BY FS_Singleton
      <4> QED
        BY <4>1
    <3>2. \A j \in 1..Len(asked') : asked'[j].cmd = "save_config" =>
            j \in 1..Len(asked) \/ j \in {n}
      BY <2>1 DEF SavesAt
    <3>3. 1 \in Nat
      OBVIOUS
    <3> QED
      BY <1>1, <2>1, <2>2, <3>1, <3>2, <3>3, RankWithin
  <2>4. PICK w \in waits' : w.quit /\ w.n = Writing + 1
    <3>1. Len(FlushCalls(permitted)) = 1
      BY <1>5, CallsOne
    <3>2. Writing \in Nat /\ Writing + 1 # 0
      BY <1>1, WritingCount
    <3> DEFINE anew == ~MustSave /\ frozen
               w == [n |-> Writing + 1, again |-> anew, quit |-> TRUE]
    <3>3. w \in FlushWaits({TRUE}, permitted)
      BY <1>5, <3>1, <3>2 DEF FlushWaits
    <3>4. w.quit /\ w.n = Writing + 1
      OBVIOUS
    <3> QED
      BY <1>3, <3>3, <3>4
  <2>5. Rank(asked', "save_config", n) <= w.n
    BY <2>3, <2>4 DEF Writing
  <2>6. asked'[n].body.rev >= promised'.rev
    BY <1>2, <2>1
  <2>7. CoverAwaited'
    BY <2>1, <2>4, <2>5, <2>6 DEF CoverAwaited, Covers
  <2>8. ASSUME NEW i \in SavesAt', \A j \in SavesAt' : j <= i PROVE Covers(i)'
    <3>1. i = n
      BY <2>1, <2>8
    <3> QED
      BY <2>6, <3>1 DEF Covers
  <2> QED
    BY <2>7, <2>8
<1>6. CASE /\ ~MustSave /\ Moved(0) /\ FlushCalls(permitted) = <<>>
           /\ UNCHANGED <<timer, frozen, held, chordsDue>>
  <2>1. /\ \A i \in SavesAt' : i \in SavesAt /\ asked'[i] = asked[i]
        /\ \A i \in SavesAt : i \in SavesAt' /\ asked'[i] = asked[i]
        /\ SavesAt \subseteq Int
    <3>1. /\ \A i \in SavesAt' : i + 0 \in SavesAt /\ asked'[i] = asked[i + 0]
          /\ \A i \in SavesAt : i - 0 \in SavesAt' /\ asked'[i - 0] = asked[i]
          /\ SavesAt \subseteq Int /\ SavesAt' \subseteq Int
      BY <1>1, <1>6, MovedSaves
    <3>2. \A i \in Int : i + 0 = i /\ i - 0 = i
      OBVIOUS
    <3> QED
      BY <3>1, <3>2
  <2>2. CASE frozen
    BY <1>6, <2>2 DEF ConfigInv, Booted
  <2>3. CASE ~frozen
    <3>1. ~timer /\ (Writing # 0 \/ ~held)
      BY <1>6 DEF MustSave
    <3>2. \A i \in SavesAt : (\A j \in SavesAt : j <= i) => asked[i].body = settings
      BY <2>3, <3>1 DEF ConfigInv, Landing
    <3>3. ASSUME NEW i \in SavesAt', \A j \in SavesAt' : j <= i PROVE Covers(i)'
      <4>1. asked'[i].body = settings
        BY <2>1, <3>2, <3>3
      <4> QED
        BY <1>2, <4>1 DEF Covers
    <3>4. CASE SavesAt = {}
      <4>1. Writing = 0
        BY <1>1, <3>4, WritingCount
      <4>2. file = settings
        BY <3>1, <3>4, <4>1 DEF ConfigInv, Landing
      <4>3. file'.rev >= promised'.rev
        BY <1>2, <4>2
      <4> QED
        BY <3>3, <4>3
    <3>5. CASE SavesAt # {}
      <4>1. PICK m \in SavesAt : \A k \in SavesAt : k <= m
        <5>1. SavesAt \in SUBSET (1..Len(asked))
          BY DEF SavesAt
        <5> QED
          BY <1>1, <3>5, <5>1, Latest
      <4>2. asked[m].body = settings /\ m \in 1..Len(asked)
        BY <3>2, <4>1 DEF SavesAt
      <4>3. m \in SavesAt' /\ asked'[m].body.rev >= promised'.rev
        BY <1>2, <2>1, <4>2
      <4>4. Rank(asked', "save_config", m) = Rank(asked, "save_config", m)
        <5>1. Rank(asked', "save_config", m - 0) = Rank(asked, "save_config", m)
          BY <1>1, <1>6, RankMoved
        <5>2. m - 0 = m
          BY <2>1
        <5> QED
          BY <5>1, <5>2
      <4>5. Rank(asked, "save_config", m) <= Underway("save_config") + 0
        <5>1. IsFiniteSet({}) /\ Cardinality({}) <= 0 /\ Extends(asked, asked)
          BY FS_EmptySet DEF Extends
        <5>2. \A j \in 1..Len(asked) : asked[j].cmd = "save_config" =>
                j \in 1..Len(asked) \/ j \in {}
          OBVIOUS
        <5>3. 0 \in Nat
          OBVIOUS
        <5> QED
          BY <1>1, <4>2, <5>1, <5>2, <5>3, RankWithin
      <4>6. PICK w \in waits' : w.quit /\ w.n = Writing + 0
        <5>1. Len(FlushCalls(permitted)) = 0
          BY <1>6, CallsNone
        <5>2. Writing \in Nat /\ Writing + 0 # 0
          BY <1>1, <3>5, WritingCount
        <5> DEFINE anew == ~MustSave /\ frozen
                   w == [n |-> Writing + 0, again |-> anew, quit |-> TRUE]
        <5>3. FlushWaits({TRUE}, permitted) =
                {[n |-> Writing + Len(FlushCalls(permitted)), again |-> anew, quit |-> q] :
                   q \in {q \in {TRUE} : q \/ anew}}
          BY <1>6, <5>1, <5>2 DEF FlushWaits
        <5>4. w \in FlushWaits({TRUE}, permitted) /\ w.quit /\ w.n = Writing + 0
          BY <5>1, <5>3
        <5> QED
          BY <1>3, <5>4
      <4>7. Rank(asked', "save_config", m) <= w.n
        BY <4>4, <4>5, <4>6 DEF Writing
      <4>8. CoverAwaited'
        BY <4>3, <4>6, <4>7 DEF CoverAwaited, Covers
      <4> QED
        BY <3>3, <4>8
    <3> QED
      BY <3>4, <3>5
  <2> QED
    BY <2>2, <2>3
<1> QED
  BY <1>4, <1>5, <1>6, FlushSends

(* The settings are promised to a quit and flushed for it in one step.      *)
LEMMA SettingsQuits ==
  ASSUME ConfigInv, SettingsInv, BeforeQuit, ops' \in Nat
  PROVE  SettingsInv'
<1>1. /\ FlushAll(TRUE) /\ quit' = "flushing" /\ promised'.rev = settings.rev
      /\ UNCHANGED <<ops, settings, ready, file, refused>>
  BY DEF BeforeQuit, FlushAll, fileVars
<1>2. IsCalls(asked) /\ settings.rev \in Int /\ ops \in Nat
  BY RevsCount DEF ConfigInv, CallsInOrder
<1>3. OtherCalls(FlushHistoryCalls)
  <2>1. Listed(TypedParked) \subseteq Records
    BY DEF Listed
  <2> QED
    BY <2>1, SavesWritten DEF FlushHistoryCalls
<1>4. CASE ready = "no"
  <2>1. /\ asked' = asked \o FlushHistoryCalls \o <<>>
        /\ waits' = waits
    BY <1>1, <1>4 DEF FlushAll
  <2>2. Moved(0)
    BY <1>2, <1>3, <2>1, OtherCommands, MovedPast
  <2>3. RevsRise'
    BY <1>1, <1>2, <2>2, RevsMoved DEF SettingsInv
  <2>4. settings.rev = 0
    BY <1>4 DEF SettingsInv, RevsRise
  <2>5. SettingsKeep'
    BY <1>1, <1>4, <2>4 DEF SettingsKeep
  <2> QED
    BY <2>1, <2>3, <2>5 DEF SettingsInv, WaitsShape
<1>5. CASE ready # "no"
  <2>1. /\ FlushSave(waits, {TRUE}, permitted)
        /\ asked' = asked \o FlushHistoryCalls \o FlushCalls(permitted)
    BY <1>1, <1>5 DEF FlushAll
  <2>2. SettingsKeep'
    BY <1>1, <1>3, <1>5, <2>1, SettingsPromised
  <2>3. WaitsShape'
    BY <1>2, <2>1, WaitsFlushed DEF SettingsInv, WaitsShape
  <2>4. Moved(0) \/ (Issued /\ settings.rev > 0)
    BY <1>3, <2>1, FlushSends
  <2>5. RevsRise'
    BY <1>1, <1>2, <1>5, <2>4, RevsMoved, RevsIssued DEF SettingsInv
  <2> QED
    BY <2>2, <2>3, <2>5 DEF SettingsInv
<1> QED
  BY <1>4, <1>5

(* The auto-save, its retries, and a flush that is no quit's.                 *)
LEMMA SettingsSaves ==
  ASSUME ConfigInv, SettingsInv, Counted, ops' = ops, faults' = faults,
         UNCHANGED <<quit, promised>>, SaveTimer \/ RetryHeld \/ LearnPermitted \/ Reflush
  PROVE  SettingsInv'
<1>1. IsCalls(asked) /\ OtherCalls(<<>>) /\ ops' \in Nat /\ ops' >= ops
  BY OtherCommands DEF ConfigInv, CallsInOrder, SettingsShape
<1>2. CASE SaveTimer
  <2>1. /\ SaveNow(permitted) /\ timer /\ asked' = asked \o SaveCalls(permitted)
        /\ UNCHANGED <<settings, ready, waits, file, refused>>
    BY <1>2 DEF SaveTimer, fileVars
  <2>2. settings.rev > 0 /\ ready # "no"
    BY <2>1 DEF ConfigInv, Booted
  <2>3. asked' = asked \o <<>> \o SaveCalls(permitted)
    BY <1>1, <2>1, NoneFirst
  <2>4. Clashes(permitted) => Moved(0)
    BY <1>1, <2>3, MovedPast DEF SaveCalls
  <2>5. ~Clashes(permitted) => Issued
    BY <1>1, <2>3, IssuedBy DEF SaveCalls
  <2>6. WaitsShape' /\ waits' = waits
    BY <2>1 DEF SettingsInv, WaitsShape
  <2> QED
    BY <1>1, <2>1, <2>2, <2>4, <2>5, <2>6, SettingsSaved
<1>3. ASSUME NEW known, NEW ws, NEW quits \in SUBSET BOOLEAN, FlushSave(ws, quits, known),
             ws \subseteq waits, \A w \in waits : w.n > 0 => w \in ws, ready # "no",
             asked' = asked \o FlushCalls(known), UNCHANGED <<settings, ready, fileVars>>
      PROVE  SettingsInv'
  <2>1. asked' = asked \o <<>> \o FlushCalls(known)
    BY <1>1, <1>3, NoneFirst
  <2>2. UNCHANGED <<settings, ready, file, refused>>
    BY <1>3 DEF fileVars
  <2> QED
    BY <1>1, <1>3, <2>1, <2>2, SettingsFlushed
<1>4. CASE RetryHeld
  <2>1. ready # "no"
    BY <1>4 DEF RetryHeld, ConfigInv, Booted
  <2>2. /\ FlushSave(waits, {FALSE}, permitted) /\ asked' = asked \o FlushCalls(permitted)
        /\ UNCHANGED <<settings, ready, fileVars>>
    BY <1>4 DEF RetryHeld
  <2> QED
    BY <1>3, <2>1, <2>2
<1>5. CASE LearnPermitted
  <2>1. ready # "no" /\ UNCHANGED <<settings, ready, fileVars>>
    BY <1>5 DEF LearnPermitted
  <2>2. CASE held
    <3>1. FlushSave(waits, {FALSE}, TRUE) /\ asked' = asked \o FlushCalls(TRUE)
      BY <1>5, <2>2 DEF LearnPermitted
    <3> QED
      BY <1>3, <2>1, <3>1
  <2>3. CASE ~held
    <3>1. asked' = asked /\ UNCHANGED <<held, frozen, waits, file, refused>>
      BY <1>5, <2>3 DEF LearnPermitted, fileVars
    <3>2. Moved(0) /\ WaitsShape'
      BY <1>1, <3>1, MovedSame DEF SettingsInv, WaitsShape
    <3> QED
      BY <1>1, <2>1, <3>1, <3>2, SettingsMoved
  <2> QED
    BY <2>2, <2>3
<1>6. CASE Reflush
  <2> DEFINE due == {w \in waits : w.n = 0}
             ws == waits \ due
             quits == {w.quit : w \in due}
  <2>1. /\ FlushSave(ws, quits, permitted) /\ asked' = asked \o FlushCalls(permitted)
        /\ UNCHANGED <<settings, ready, fileVars>>
    BY <1>6 DEF Reflush
  <2>2. quits \in SUBSET BOOLEAN
    BY DEF SettingsInv, WaitsShape
  <2>3. ws \subseteq waits /\ \A w \in waits : w.n > 0 => w \in ws
    OBVIOUS
  <2> HIDE DEF due, ws, quits
  <2>4. CASE ready # "no"
    BY <1>3, <2>1, <2>2, <2>3, <2>4
  <2>5. CASE ready = "no"
    <3>1. ~timer /\ ~held
      BY <2>5 DEF ConfigInv, Booted
    <3>2. ~MustSave
      BY <3>1 DEF MustSave
    <3>3. asked' = asked \o <<>> /\ UNCHANGED <<held, frozen>>
      BY <2>1, <3>2 DEF FlushSave, FlushCalls
    <3>4. Moved(0)
      BY <1>1, <3>3, MovedOn
    <3>5. WaitsShape' /\ ws \subseteq waits'
      <4>1. ws \subseteq [n : Int, again : BOOLEAN, quit : BOOLEAN]
        BY <2>3 DEF SettingsInv, WaitsShape
      <4> QED
        BY <1>1, <2>1, <2>2, <4>1, WaitsFlushed
    <3>6. \A w \in waits : w.n > 0 => w \in waits'
      BY <2>3, <3>5
    <3>7. UNCHANGED <<settings, ready, file, refused>>
      BY <2>1 DEF fileVars
    <3> QED
      BY <1>1, <3>3, <3>4, <3>5, <3>6, <3>7, SettingsMoved
  <2> QED
    BY <2>4, <2>5
<1> QED
  BY <1>2, <1>4, <1>5, <1>6

(* Every step keeps what was promised of the settings.                      *)
LEMMA SettingsStep ==
  ASSUME ConfigInv, SettingsInv, Counted, [Next]_vars
  PROVE  SettingsInv'
<1>1. /\ IsCalls(asked) /\ ops \in Nat /\ ops' \in Nat /\ ops' >= ops
      /\ faults' \in {faults, faults + 1}

  BY OpsCounted, FaultsCounted, RevsCount DEF ConfigInv, CallsInOrder, SettingsShape, Counted
<1>2. ASSUME UNCHANGED <<settings, ready, file, refused, frozen, held, waits, quit, promised>>,
             Moved(0) \/ Moved(1)
      PROVE  SettingsInv'
  <2>1. WaitsShape'
    BY <1>2 DEF SettingsInv, WaitsShape
  <2> QED
    BY <1>1, <1>2, <2>1, SettingsMoved
<1>3. ASSUME UNCHANGED configVars, UNCHANGED <<quit, promised>>, Moved(0) \/ Moved(1)
      PROVE  SettingsInv'
  BY <1>2, <1>3 DEF configVars, storeVars, fileVars
<1>4. ASSUME UNCHANGED configVars, UNCHANGED <<quit, promised>>, asked' = asked
      PROVE  SettingsInv'
  BY <1>1, <1>3, <1>4, MovedSame
<1>5. CASE Break \/ TakeSweep \/ RunSweep
  <2>1. /\ asked' = asked /\ UNCHANGED <<settings, ready, file, refused, frozen, held, waits>>
        /\ UNCHANGED <<quit, promised>>
    BY <1>5 DEF Break, TakeSweep, RunSweep, callVars, storeVars, lifeVars
  <2> QED
    BY <1>1, <1>2, <2>1, MovedSame
<1>6. CASE Launch \/ Dies
  <2>1. /\ quit' = "no" /\ file'.rev <= ops' + 1 /\ SavesAt' = {}
        /\ settings'.rev = 0 /\ ready' = "no" /\ waits' \subseteq waits
    <3>1. CASE Launch
      <4>1. /\ life = "down" /\ UNCHANGED <<settings, ready, waits, quit, ops>>
        BY <3>1 DEF Launch, ConfigBoots, storeVars
      <4>2. file' \in {file, NoFile} /\ NoFile.rev = -1
        BY <3>1, Loaded DEF Launch, ConfigBoots, ConfigInv, NoFile, Settings
      <4>3. ready = "no" /\ settings.rev = 0 /\ quit = "no"
        BY <4>1 DEF ConfigInv, CallsInOrder, SettingsInv, RevsRise, Counted
      <4>4. file'.rev <= ops' + 1
        BY <1>1, <4>1, <4>2 DEF SettingsInv, RevsRise
      <4>5. ready' = "no" /\ ConfigInv'
        BY <1>1, <3>1, <4>1, <4>3, ConfigLaunched
      <4>6. SavesAt' = {}
        BY <4>5 DEF ConfigInv, CallsInOrder
      <4> QED
        BY <4>1, <4>3, <4>4, <4>6
    <3>2. CASE Dies
      <4>1. /\ settings' = Defaults /\ ready' = "no" /\ waits' = {} /\ quit' = "no"
            /\ file' = file /\ ops' = ops /\ asked' = <<>> /\ Defaults.rev = 0
        BY <3>2 DEF Dies, ConfigDies, Defaults, Settings
      <4>2. SavesAt' = {}
        BY <4>1, CallsNone DEF SavesAt
      <4> QED
        BY <4>1, <4>2 DEF SettingsInv, RevsRise
    <3> QED
      BY <1>6, <3>1, <3>2
  <2>2. settings'.rev <= ops' + 1
    <3>1. settings'.rev = 0 /\ ops' \in Nat
      BY <1>1, <2>1
    <3>2. PICK n \in Nat : n = ops'
      BY <3>1
    <3>3. 0 <= n + 1
      OBVIOUS
    <3>4. 0 <= ops' + 1
      BY <3>2, <3>3
    <3> QED
      BY <3>1, <3>4
  <2>3. RevsRise'
    BY <2>1, <2>2 DEF RevsRise
  <2>4. WaitsShape'
    BY <2>1 DEF SettingsInv, WaitsShape
  <2>5. SettingsKeep'
    BY <2>1 DEF SettingsKeep, Quitting
  <2> QED
    BY <2>3, <2>4, <2>5 DEF SettingsInv
<1>7. CASE Callbacks
  <2>1. UNCHANGED <<quit, promised>>
    BY <1>7 DEF Callbacks, OnConfig, OnHistory, lifeVars
  <2>2. CASE Reflush /\ OnConfig
    <3>1. ops' = ops /\ faults' = faults
      BY <2>2 DEF Reflush
    <3> QED
      BY <2>1, <2>2, <3>1, SettingsSaves
  <2>3. CASE (FlushSettles \/ Chained) /\ OnHistory
    BY <1>1, <1>3, <2>1, <2>3, HistoryMoves DEF OnHistory
  <2> QED
    BY <1>7, <2>2, <2>3 DEF Callbacks
<1>8. ASSUME EditPlain \/ EditKeep \/ \E clash \in {"none", "sides", "real"} : EditChords(clash),
             UNCHANGED <<quit, promised>>
      PROVE  SettingsInv'
  <2>1. Rev \in Int /\ settings \in Shape
    BY DEF ConfigInv, SettingsShape, Rev, Edit
  <2>2. ASSUME NEW s \in Shape, s.rev = Rev, Changes(s) PROVE SettingsInv'
    <3>1. faults' = faults
      BY <2>2 DEF Changes
    <3> QED
      BY <1>8, <2>2, <3>1, SettingsChanged
  <2>3. ASSUME NEW clash \in {"none", "sides", "real"}
        PROVE  /\ [settings EXCEPT !.rev = Rev, !.chords = Rev, !.clash = clash] \in Shape
               /\ [settings EXCEPT !.rev = Rev, !.chords = Rev, !.clash = clash].rev = Rev
    BY <2>1 DEF Shape
  <2>4. /\ [settings EXCEPT !.rev = Rev] \in Shape /\ [settings EXCEPT !.rev = Rev].rev = Rev
        /\ [settings EXCEPT !.rev = Rev, !.keep = ~@] \in Shape
        /\ [settings EXCEPT !.rev = Rev, !.keep = ~@].rev = Rev
    BY <2>1 DEF Shape
  <2> QED
    BY <1>8, <2>2, <2>3, <2>4 DEF EditPlain, EditKeep, EditChords
<1>9. CASE Task /\ ConfigTask /\ OnConfig
  <2>1. UNCHANGED <<quit, promised>>
    BY <1>9 DEF OnConfig, lifeVars
  <2>2. CASE LoadConfig
    <3>1. ops' = ops
      BY <2>2 DEF LoadConfig
    <3> QED
      BY <2>1, <2>2, <3>1, SettingsLoads
  <2>3. CASE EditPlain \/ \E clash \in {"none", "sides", "real"} : EditChords(clash)
    BY <1>8, <2>1, <2>3
  <2>4. CASE SaveTimer \/ RetryHeld \/ LearnPermitted
    <3>1. ops' = ops /\ faults' = faults
      BY <2>4 DEF SaveTimer, RetryHeld, LearnPermitted
    <3> QED
      BY <2>1, <2>4, <3>1, SettingsSaves
  <2>5. CASE SaveLands
    <3>1. Arrives("save_config") /\ asked' = Tail(asked)
      BY <2>5 DEF SaveLands
    <3>2. Head(asked) = asked[1]
      BY <3>1, SaveFirst
    <3>3. /\ file' = asked[1].body /\ ~refused /\ held' = (held /\ ~Newest)
          /\ waits' = Settles(waits) /\ UNCHANGED <<settings, ready, frozen, refused>>
      BY <2>5, <3>2 DEF SaveLands
    <3> QED
      BY <1>1, <2>1, <3>1, <3>3, SettingsAnswered
  <2>6. CASE SaveFails
    <3>1. Arrives("save_config") /\ asked' = Tail(asked)
      BY <2>6 DEF SaveFails
    <3>2. /\ file' = file /\ (held => held') /\ (refused \/ faults' = faults + 1)
          /\ waits' = Settles(waits) /\ UNCHANGED <<settings, ready, frozen, refused>>
      BY <2>6 DEF SaveFails, Fails, fileVars
    <3> QED
      BY <1>1, <2>1, <3>1, <3>2, SettingsAnswered
  <2>7. CASE Rebinds
    <3>1. asked' = asked /\ UNCHANGED <<settings, ready, file, refused, frozen, held, waits>>
      BY <2>7 DEF Rebinds, callVars, storeVars, fileVars
    <3> QED
      BY <1>1, <1>2, <2>1, <3>1, MovedSame
  <2> QED
    BY <1>9, <2>2, <2>3, <2>4, <2>5, <2>6, <2>7 DEF ConfigTask
<1>10. CASE (HistoryTask \/ RecordNew) /\ OnHistory
  BY <1>1, <1>3, <1>10, HistoryMoves DEF OnHistory, lifeVars
<1>11. CASE QueueTask /\ OnQueue
  <2>1. asked' = asked
    BY <1>11 DEF QueueTask, Enqueue, QueueTimer, WriteSettles, ReadLands, ReadFails, Post,
       PostSent, PostRetried, PostRefused, ApplyPost, callVars
  <2> QED
    BY <1>4, <1>11, <2>1 DEF OnQueue, lifeVars
<1>12. CASE KeepDictations
  BY <1>8, <1>12 DEF KeepDictations, lifeVars
<1>13. CASE RequestQuit
  <2>1. UNCHANGED configVars /\ asked' = asked /\ quit' = "asked" /\ ops' = ops
    BY <1>13 DEF RequestQuit, callVars
  <2>2. RevsRise' /\ WaitsShape'
    BY <1>1, <2>1, MovedSame, RevsMoved DEF configVars, storeVars, fileVars, SettingsInv, WaitsShape
  <2> QED
    BY <2>1, <2>2 DEF SettingsInv, SettingsKeep, Quitting
<1>14. CASE QuitReady
  <2>1. /\ UNCHANGED configVars /\ asked' = asked /\ UNCHANGED <<promised, faults, ops>>
        /\ quit = "flushing" /\ quit' = "ready" /\ ~ \E w \in waits : w.quit
    BY <1>14 DEF QuitReady, QuitWaits, callVars
  <2>2. RevsRise' /\ WaitsShape' /\ UNCHANGED <<settings, ready, file, refused, frozen, held>>
    BY <1>1, <2>1, MovedSame, RevsMoved DEF configVars, storeVars, fileVars, SettingsInv, WaitsShape
  <2>3. ~CoverAwaited
    BY <2>1 DEF CoverAwaited
  <2>4. SavesAt' = SavesAt
    BY <2>1 DEF SavesAt
  <2>5. SettingsKeep'
    BY <2>1, <2>2, <2>3, <2>4 DEF SettingsInv, SettingsKeep, Quitting, Faulted, Covers
  <2> QED
    BY <2>2, <2>5 DEF SettingsInv
<1>15. CASE BeforeQuit
  BY <1>1, <1>15, SettingsQuits
<1>16. CASE SessionEnding
  <2>1. /\ FlushAll(FALSE) /\ UNCHANGED <<quit, promised, settings, ready, file, refused, faults>>
    BY <1>16 DEF SessionEnding, FlushAll, fileVars
  <2>2. OtherCalls(FlushHistoryCalls)
    <3>1. Listed(TypedParked) \subseteq Records
      BY DEF Listed
    <3> QED
      BY <3>1, SavesWritten DEF FlushHistoryCalls
  <2>3. CASE ready = "no"
    <3>1. asked' = asked \o FlushHistoryCalls \o <<>> /\ UNCHANGED <<waits, frozen, held>>
      BY <2>1, <2>3 DEF FlushAll
    <3>2. Moved(0)
      BY <1>1, <2>2, <3>1, OtherCommands, MovedPast
    <3> QED
      BY <1>2, <2>1, <3>1, <3>2
  <2>4. CASE ready # "no"
    <3>1. /\ FlushSave(waits, {FALSE}, permitted)
          /\ asked' = asked \o FlushHistoryCalls \o FlushCalls(permitted)
      BY <2>1, <2>4 DEF FlushAll
    <3> QED
      BY <1>1, <2>1, <2>2, <2>4, <3>1, SettingsFlushed
  <2> QED
    BY <2>3, <2>4
<1>17. CASE UNCHANGED vars
  BY <1>4, <1>17 DEF vars, callVars, lifeVars
<1>18. RecordNew => OnHistory
  BY DEF RecordNew
<1> QED
  BY <1>5, <1>6, <1>7, <1>9, <1>10, <1>11, <1>12, <1>13, <1>14, <1>15, <1>16, <1>17, <1>18
  DEF Next, Crash, Exit

-----------------------------------------------------------------------------
(* Who waits for the records: each counts the saves before it went to wait.     *)
FlushesShape(ws) ==
  /\ IsCalls(ws)
  /\ \A i \in 1..Len(ws) : {"saves", "then"} \subseteq DOMAIN ws[i] /\ ws[i].saves \in Int

QuitCounts(ws, n) == \E k \in 1..Len(ws) : ws[k].then = "quit" /\ n <= ws[k].saves
FlushesHold == \A n \in Nat : n > 0 /\ QuitCounts(flushes, n) => QuitCounts(flushes', n)

(* One more that waits for the records.                                     *)
LEMMA FlushesAdded ==
  ASSUME NEW ws, FlushesShape(ws), NEW w, {"saves", "then"} \subseteq DOMAIN w, w.saves \in Int
  PROVE  /\ FlushesShape(Append(ws, w))
         /\ \A n : QuitCounts(ws, n) => QuitCounts(Append(ws, w), n)
         /\ w.then = "quit" => QuitCounts(Append(ws, w), w.saves)
<1> DEFINE one == <<w>>
           vs == ws \o one
<1>1. IsCalls(one) /\ Len(one) = 1 /\ one[1] = w
  BY CallsOne
<1>2. Append(ws, w) = vs
  <2>1. PICK X : ws \in Seq(X)
    BY DEF FlushesShape, IsCalls
  <2>2. ws \in Seq(X \cup {w}) /\ w \in X \cup {w}
    BY <2>1, SeqMonotonic
  <2> QED
    BY <2>2, AppendIsConcat
<1> HIDE DEF one
<1>3. IsCalls(ws) /\ IsCalls(one)
  BY <1>1 DEF FlushesShape
<1>4. /\ IsCalls(vs)
      /\ \A i \in 1..Len(ws) : i \in 1..Len(vs) /\ vs[i] = ws[i]
      /\ \A i \in 1..Len(one) : Len(ws) + i \in 1..Len(vs) /\ vs[Len(ws) + i] = one[i]
      /\ \A i \in 1..Len(vs) :
           \/ i \in 1..Len(ws) /\ vs[i] = ws[i]
           \/ i - Len(ws) \in 1..Len(one) /\ vs[i] = one[i - Len(ws)]
  BY <1>3, CallsConcat
<1> HIDE DEF vs
<1>5. ASSUME NEW i \in 1..Len(vs) PROVE vs[i] = w \/ \E k \in 1..Len(ws) : vs[i] = ws[k]
  BY <1>1, <1>4
<1>6. \E k \in 1..Len(vs) : vs[k] = w
  BY <1>1, <1>4
<1>7. FlushesShape(vs)
  BY <1>4, <1>5 DEF FlushesShape
<1>8. ASSUME NEW n, QuitCounts(ws, n) PROVE QuitCounts(vs, n)
  BY <1>4, <1>8 DEF QuitCounts
<1>9. ASSUME w.then = "quit" PROVE QuitCounts(vs, w.saves)
  <2>1. w.saves <= w.saves
    OBVIOUS
  <2> QED
    BY <1>6, <1>9, <2>1 DEF QuitCounts
<1> QED
  BY <1>2, <1>7, <1>8, <1>9

(* A save or a delete is answered: who waits is told.                       *)
LEMMA FlushesTold ==
  ASSUME NEW ws, FlushesShape(ws), NEW r
  PROVE  /\ FlushesShape(Settled(ws)) /\ FlushesShape(Deleted(ws, r))
         /\ \A n : QuitCounts(ws, n) => QuitCounts(Deleted(ws, r), n)
         /\ \A n \in Nat : n > 0 /\ QuitCounts(ws, n) => QuitCounts(Settled(ws), n - 1)
<1>1. Len(ws) \in Nat
  BY CallsShapes DEF FlushesShape
<1>2. ASSUME NEW vs, vs = [i \in 1..Len(ws) |-> vs[i]] PROVE IsCalls(vs) /\ Len(vs) = Len(ws)
  <2>1. vs \in Seq({vs[i] : i \in 1..Len(ws)}) /\ Len(vs) = Len(ws)
    BY <1>1, <1>2
  <2> QED
    BY <2>1 DEF IsCalls
<1>3. /\ IsCalls(Deleted(ws, r)) /\ Len(Deleted(ws, r)) = Len(ws)
      /\ \A i \in 1..Len(ws) : /\ {"saves", "then"} \subseteq DOMAIN Deleted(ws, r)[i]
                               /\ Deleted(ws, r)[i].saves = ws[i].saves
                               /\ Deleted(ws, r)[i].then = ws[i].then
  <2> DEFINE vs == Deleted(ws, r)
  <2>1. vs = [i \in 1..Len(ws) |-> vs[i]]
    BY DEF Deleted
  <2>2. ASSUME NEW i \in 1..Len(ws)
        PROVE  /\ {"saves", "then"} \subseteq DOMAIN vs[i] /\ vs[i].saves = ws[i].saves
               /\ vs[i].then = ws[i].then
    BY DEF Deleted, FlushesShape
  <2> HIDE DEF vs
  <2> QED
    BY <1>2, <2>1, <2>2 DEF vs
<1>4. /\ IsCalls(Settled(ws)) /\ Len(Settled(ws)) = Len(ws)
      /\ \A i \in 1..Len(ws) :
           /\ {"saves", "then"} \subseteq DOMAIN Settled(ws)[i]
           /\ Settled(ws)[i].saves = IF ws[i].saves = 0 THEN 0 ELSE ws[i].saves - 1
           /\ Settled(ws)[i].then = ws[i].then
  <2> DEFINE vs == Settled(ws)
  <2>1. vs = [i \in 1..Len(ws) |-> vs[i]]
    BY DEF Settled
  <2>2. ASSUME NEW i \in 1..Len(ws)
        PROVE  /\ {"saves", "then"} \subseteq DOMAIN vs[i] /\ vs[i].then = ws[i].then
               /\ vs[i].saves = IF ws[i].saves = 0 THEN 0 ELSE ws[i].saves - 1
    BY DEF Settled, FlushesShape
  <2> HIDE DEF vs
  <2> QED
    BY <1>2, <2>1, <2>2 DEF vs
<1>5. FlushesShape(Deleted(ws, r))
  BY <1>3 DEF FlushesShape
<1>6. FlushesShape(Settled(ws))
  BY <1>4 DEF FlushesShape
<1>7. ASSUME NEW n, QuitCounts(ws, n) PROVE QuitCounts(Deleted(ws, r), n)
  BY <1>3, <1>7 DEF QuitCounts
<1>8. ASSUME NEW n \in Nat, n > 0, QuitCounts(ws, n) PROVE QuitCounts(Settled(ws), n - 1)
  <2>1. PICK k \in 1..Len(ws) : ws[k].then = "quit" /\ n <= ws[k].saves
    BY <1>8 DEF QuitCounts
  <2>2. ws[k].saves \in Int
    BY DEF FlushesShape
  <2>3. n - 1 <= Settled(ws)[k].saves
    BY <1>4, <1>8, <2>1, <2>2
  <2> QED
    BY <1>4, <2>1, <2>3 DEF QuitCounts
<1> QED
  BY <1>5, <1>6, <1>7, <1>8

(* Those who are left when one went on.                                      *)
LEMMA OthersLeft ==
  ASSUME NEW ws, IsCalls(ws), NEW k \in 1..Len(ws)
  PROVE  /\ IsCalls(RemoveAt(ws, k))
         /\ \A i \in 1..Len(RemoveAt(ws, k)) : \E j \in 1..Len(ws) : RemoveAt(ws, k)[i] = ws[j]
         /\ \A j \in 1..Len(ws) : j # k =>
              \E i \in 1..Len(RemoveAt(ws, k)) : RemoveAt(ws, k)[i] = ws[j]
<1>1. PICK X : ws \in Seq(X)
  BY DEF IsCalls
<1>2. Len(ws) \in Nat /\ \A i \in 1..Len(ws) : ws[i] \in X
  BY <1>1, ElementOfSeq, LenProperties
<1> DEFINE s == SubSeq(ws, 1, k - 1)
           t == SubSeq(ws, k + 1, Len(ws))
           vs == s \o t
<1>3. /\ s \in Seq(X) /\ Len(s) = k - 1
      /\ \A i \in 1..Len(s) : s[i] = ws[i]
  <2>1. /\ s \in Seq(X) /\ Len(s) = IF 1 <= k - 1 THEN (k - 1) - 1 + 1 ELSE 0
        /\ \A i \in 1..((k - 1) - 1 + 1) : s[i] = ws[1 + i - 1]
    <3> DEFINE n == k - 1
    <3>1. 1 \in Int /\ n \in Int /\ \A i \in 1..n : ws[i] \in X
      BY <1>2
    <3> HIDE DEF n
    <3>2. /\ SubSeq(ws, 1, n) \in Seq(X) /\ Len(SubSeq(ws, 1, n)) = IF 1 <= n THEN n - 1 + 1 ELSE 0
          /\ \A i \in 1..(n - 1 + 1) : SubSeq(ws, 1, n)[i] = ws[1 + i - 1]
      BY <3>1, SubSeqProperties
    <3> QED
      BY <3>2 DEF n
  <2> HIDE DEF s
  <2> QED
    BY <2>1
<1>4. /\ t \in Seq(X) /\ Len(t) = Len(ws) - k
      /\ \A i \in 1..Len(t) : t[i] = ws[k + i]
  <2>1. /\ t \in Seq(X) /\ Len(t) = IF k + 1 <= Len(ws) THEN Len(ws) - (k + 1) + 1 ELSE 0
        /\ \A i \in 1..(Len(ws) - (k + 1) + 1) : t[i] = ws[(k + 1) + i - 1]
    <3> DEFINE m == k + 1
    <3>1. m \in Int /\ Len(ws) \in Int /\ \A i \in m..Len(ws) : ws[i] \in X
      BY <1>2
    <3> HIDE DEF m
    <3>2. /\ SubSeq(ws, m, Len(ws)) \in Seq(X)
          /\ Len(SubSeq(ws, m, Len(ws))) = IF m <= Len(ws) THEN Len(ws) - m + 1 ELSE 0
          /\ \A i \in 1..(Len(ws) - m + 1) : SubSeq(ws, m, Len(ws))[i] = ws[m + i - 1]
      BY <3>1, SubSeqProperties
    <3> QED
      BY <3>2 DEF m
  <2> HIDE DEF t
  <2>2. Len(t) = Len(ws) - k /\ Len(ws) - (k + 1) + 1 = Len(ws) - k
    BY <1>2, <2>1
  <2>3. \A i \in 1..Len(t) : (k + 1) + i - 1 = k + i
    BY <1>2, <2>2
  <2> QED
    BY <2>1, <2>2, <2>3
<1>5. RemoveAt(ws, k) = vs
  BY DEF RemoveAt
<1> HIDE DEF s, t
<1>6. IsCalls(s) /\ IsCalls(t)
  BY <1>3, <1>4 DEF IsCalls
<1>7. /\ IsCalls(vs)
      /\ \A i \in 1..Len(s) : i \in 1..Len(vs) /\ vs[i] = s[i]
      /\ \A i \in 1..Len(t) : Len(s) + i \in 1..Len(vs) /\ vs[Len(s) + i] = t[i]
      /\ \A i \in 1..Len(vs) :
           \/ i \in 1..Len(s) /\ vs[i] = s[i]
           \/ i - Len(s) \in 1..Len(t) /\ vs[i] = t[i - Len(s)]
  BY <1>6, CallsConcat
<1> HIDE DEF vs
<1>8. ASSUME NEW i \in 1..Len(vs) PROVE \E j \in 1..Len(ws) : vs[i] = ws[j]
  <2>1. CASE i \in 1..Len(s) /\ vs[i] = s[i]
    <3>1. i \in 1..Len(ws) /\ vs[i] = ws[i]
      BY <1>2, <1>3, <2>1
    <3> QED
      BY <3>1
  <2>2. CASE i - Len(s) \in 1..Len(t) /\ vs[i] = t[i - Len(s)]
    <3> DEFINE n == i - Len(s)
    <3>1. n \in 1..Len(t) /\ vs[i] = t[n] /\ k + n \in 1..Len(ws)
      BY <1>2, <1>4, <2>2
    <3> HIDE DEF n
    <3>2. vs[i] = ws[k + n]
      BY <1>4, <3>1
    <3> QED
      BY <3>1, <3>2
  <2> QED
    BY <1>7, <2>1, <2>2
<1>9. ASSUME NEW j \in 1..Len(ws), j # k PROVE \E i \in 1..Len(vs) : vs[i] = ws[j]
  <2>1. CASE j < k
    <3>1. j \in 1..Len(s)
      BY <1>3, <2>1
    <3> QED
      BY <1>3, <1>7, <3>1
  <2>2. CASE j > k
    <3> DEFINE n == j - k
    <3>1. n \in 1..Len(t) /\ k + n = j
      BY <1>2, <1>4, <2>2
    <3> HIDE DEF n
    <3>2. t[n] = ws[j]
      BY <1>4, <3>1
    <3> QED
      BY <1>7, <3>1, <3>2
  <2> QED
    BY <1>9, <2>1, <2>2
<1> QED
  BY <1>5, <1>7, <1>8, <1>9

(* Who waits for no save may go; the others stay.                           *)
LEMMA FlushesLeft ==
  ASSUME NEW ws, FlushesShape(ws), NEW k \in 1..Len(ws), ws[k].saves = 0
  PROVE  /\ FlushesShape(RemoveAt(ws, k))
         /\ \A n \in Nat : n > 0 /\ QuitCounts(ws, n) => QuitCounts(RemoveAt(ws, k), n)
<1> DEFINE vs == RemoveAt(ws, k)
<1>1. /\ IsCalls(vs)
      /\ \A i \in 1..Len(vs) : \E j \in 1..Len(ws) : vs[i] = ws[j]
      /\ \A j \in 1..Len(ws) : j # k => \E i \in 1..Len(vs) : vs[i] = ws[j]
  BY OthersLeft DEF FlushesShape
<1> HIDE DEF vs
<1>2. FlushesShape(vs)
  BY <1>1 DEF FlushesShape
<1>3. ASSUME NEW n \in Nat, n > 0, QuitCounts(ws, n) PROVE QuitCounts(vs, n)
  <2>1. PICK j \in 1..Len(ws) : ws[j].then = "quit" /\ n <= ws[j].saves
    BY <1>3 DEF QuitCounts
  <2>2. j # k
    BY <1>3, <2>1
  <2>3. PICK i \in 1..Len(vs) : vs[i] = ws[j]
    BY <1>1, <2>2
  <2>4. vs[i].then = "quit" /\ n <= vs[i].saves
    BY <2>1, <2>3
  <2> QED
    BY <2>4 DEF QuitCounts
<1> QED
  BY <1>2, <1>3 DEF vs

(* A quit that waits for a save waits for it until it lands or all dies.    *)
LEMMA FlushesStep ==
  ASSUME FlushesShape(flushes), IsCalls(asked), [Next]_vars
  PROVE  FlushesShape(flushes') /\ (FlushesHold \/ SaveRecord \/ Dies)
<1> DEFINE Fine == FlushesShape(flushes') /\ (FlushesHold \/ SaveRecord \/ Dies)
<1>1. ASSUME flushes' = flushes PROVE Fine
  BY <1>1 DEF FlushesHold
<1>2. RecordsUnderway \in Nat
  <2> DEFINE S == {i \in 1..Len(asked) : asked[i].cmd = "save_record"}
  <2>1. IsFiniteSet(1..Len(asked)) /\ S \subseteq 1..Len(asked)
    <3>1. Len(asked) \in Nat
      BY CallsShapes
    <3> QED
      BY <3>1, FS_Interval
  <2> HIDE DEF S
  <2>2. Cardinality(S) \in Nat
    BY <2>1, FS_Subset, FS_CardinalityType
  <2> QED
    BY <2>2 DEF RecordsUnderway, Underway, S
<1>3. ASSUME NEW calls, IsCalls(calls) PROVE RecordsUnderway + Len(calls) \in Int
  BY <1>2, <1>3, CallsShapes
<1>4. ASSUME NEW rs \in SUBSET Records, NEW copies
      PROVE  RecordsUnderway + Len(Saves(rs, copies)) \in Int
  BY <1>3, SavesCopy
<1>5. Listed(parked) \subseteq Records /\ Listed(TypedParked) \subseteq Records
  BY DEF Listed
<1>6. ASSUME NEW n, n \in Int, NEW dels, NEW then, NEW ws, FlushesShape(ws),
             \A m \in Nat : m > 0 /\ QuitCounts(flushes, m) => QuitCounts(ws, m),
             flushes' = Append(ws, [saves |-> n, dels |-> dels, then |-> then])
      PROVE  Fine
  <2> DEFINE w == [saves |-> n, dels |-> dels, then |-> then]
  <2>1. {"saves", "then"} \subseteq DOMAIN w /\ w.saves \in Int
    BY <1>6
  <2>2. flushes' = Append(ws, w)
    BY <1>6
  <2> HIDE DEF w
  <2> QED
    BY <1>6, <2>1, <2>2, FlushesAdded DEF FlushesHold
<1>7. CASE HearSweep(settings.keep)
  <2> DEFINE parks == IF Head(swept) /\ ~settings.keep THEN Dropped(Dictations) ELSE parked
             rs == IF wipedHeard \/ (Head(swept) /\ ~settings.keep)
                   THEN Listed(parks) \ Dictations ELSE Listed(parks)
             calls == Written(rs, parks)
  <2>1. flushes' = Append(flushes, Waiter(RecordsUnderway + Len(calls), "list"))
    BY <1>7 DEF HearSweep, Written
  <2>2. rs \in SUBSET Records
    BY DEF Listed
  <2> HIDE DEF rs, parks
  <2>3. IsCalls(calls)
    BY <2>2, WrittenCalls DEF OtherCalls
  <2> HIDE DEF calls
  <2> DEFINE n == RecordsUnderway + Len(calls)
  <2>4. n \in Int
    BY <1>3, <2>3
  <2>5. flushes' = Append(flushes, [saves |-> n, dels |-> Dying, then |-> "list"])
    BY <2>1 DEF Waiter
  <2> HIDE DEF n
  <2> QED
    BY <1>6, <2>4, <2>5
<1>8. CASE AskWipe
  <2> DEFINE n == RecordsUnderway + Len(Saves(Listed(parked), parked))
  <2>1. flushes' = Append(flushes, [saves |-> n, dels |-> Dying, then |-> "wipe"])
    BY <1>8 DEF AskWipe, Waiter
  <2>2. n \in Int
    BY <1>4, <1>5
  <2> HIDE DEF n
  <2> QED
    BY <1>6, <2>1, <2>2
<1>9. ASSUME NEW r \in Records, DeleteRuns(r) PROVE Fine
  <2> DEFINE n == RecordsUnderway + Len(Saves(Listed(parked), parked))
  <2>1. \/ flushes' = Deleted(flushes, r)
        \/ flushes' = Append(Deleted(flushes, r),
                             [saves |-> n, dels |-> Dying \ {r}, then |-> "list"])
    BY <1>9 DEF DeleteRuns
  <2>2. n \in Int
    BY <1>4, <1>5
  <2> HIDE DEF n
  <2>3. /\ FlushesShape(Deleted(flushes, r))
        /\ \A m : QuitCounts(flushes, m) => QuitCounts(Deleted(flushes, r), m)
    BY FlushesTold
  <2>4. CASE flushes' = Deleted(flushes, r)
    BY <2>3, <2>4 DEF FlushesHold
  <2> QED
    BY <1>6, <2>1, <2>2, <2>3, <2>4
<1>10. ASSUME NEW quits, FlushAll(quits) PROVE Fine
  <2> DEFINE n == RecordsUnderway + Len(FlushHistoryCalls)
  <2>1. \/ flushes' = flushes
        \/ flushes' = Append(flushes, [saves |-> n, dels |-> Dying, then |-> "quit"])
    BY <1>10 DEF FlushAll, FlushHistory, Waiter
  <2>2. n \in Int
    BY <1>4, <1>5 DEF FlushHistoryCalls
  <2> HIDE DEF n
  <2> QED
    BY <1>1, <1>6, <2>1, <2>2
<1>11. CASE FlushSettles
  <2> DEFINE i == CHOOSE i \in 1..Len(flushes) :
                    Due(flushes[i]) /\ \A j \in 1..(i - 1) : ~Due(flushes[j])
  <2>1. i \in 1..Len(flushes) /\ Due(flushes[i])
    <3>1. FlushDue /\ Waiters(flushes)
      BY <1>11 DEF FlushSettles, FlushesShape, Waiters
    <3> QED
      BY <3>1, OldestDue
  <2>2. flushes' = RemoveAt(flushes, i)
    BY <1>11 DEF FlushSettles
  <2> HIDE DEF i
  <2>3. flushes[i].saves = 0
    BY <2>1 DEF Due
  <2> QED
    BY <2>1, <2>2, <2>3, FlushesLeft DEF FlushesHold
<1>12. SaveRecord => Fine
  <2>1. SaveRecord => flushes' = Settled(flushes)
    BY DEF SaveRecord
  <2> QED
    BY <2>1, FlushesTold
<1>13. Dies => Fine
  <2>1. Dies => flushes' = <<>>
    BY DEF Dies, HistoryDies
  <2>2. IsCalls(<<>>) /\ Len(<<>>) = 0
    BY InNone, CallsNone
  <2>3. FlushesShape(<<>>)
    BY <2>2 DEF FlushesShape
  <2> QED
    BY <2>1, <2>3
<1>14. ASSUME OnConfig \/ OnQueue \/ Break \/ Launch \/ TakeSweep \/ RunSweep \/ RequestQuit
              \/ QuitReady \/ UNCHANGED vars
       PROVE  Fine
  <2>1. flushes' = flushes
    BY <1>14 DEF OnConfig, OnQueue, Break, Launch, TakeSweep, RunSweep, RequestQuit, QuitReady,
       vars, historyVars, historyWindow
  <2> QED
    BY <1>1, <2>1
<1>15. ASSUME KeepDictations \/ RecordNew \/ Chained PROVE Fine
  <2>1. flushes' = flushes
    BY <1>15 DEF KeepDictations, RecordNew, AddRecord, restHistory, Chained
  <2> QED
    BY <1>1, <2>1
<1>16. ASSUME HistoryTask PROVE Fine
  <2>1. ASSUME NEW r \in Records,
               \/ EditRecord(r) \/ TypeEdit(r) \/ TypingTimer(r) \/ CoalesceTimer(r)
               \/ DeleteRecord(r)
        PROVE  flushes' = flushes
    BY <2>1 DEF EditRecord, TypeEdit, TypingTimer, CoalesceTimer, DeleteRecord, restHistory
  <2>2. ASSUME OpenHistory \/ ListArrives \/ ListRuns \/ ListLands \/ DeleteArrives
        PROVE  flushes' = flushes
    BY <2>2 DEF OpenHistory, ListArrives, ListRuns, ListLands, DeleteArrives, restWindow,
       historyWindow
  <2>3. ASSUME WipeArrives \/ WipeRuns \/ WipeFails \/ WipeAnswered PROVE flushes' = flushes
    BY <2>3 DEF WipeArrives, WipeRuns, WipeFails, WipeAnswered, restWindow
  <2> QED
    BY <1>1, <1>7, <1>8, <1>9, <1>12, <1>16, <2>1, <2>2, <2>3 DEF HistoryTask
<1>17. Callbacks => Fine
  BY <1>11, <1>14, <1>15 DEF Callbacks
<1> HIDE DEF Fine
<1> QED
  BY <1>10, <1>13, <1>14, <1>15, <1>16, <1>17
  DEF Next, Crash, Exit, BeforeQuit, SessionEnding, Fine

-----------------------------------------------------------------------------
(* The records: once a quit flushed them, of each that it promised the mirror   *)
(* has no older copy, nor has a listing that read; and the disk has it, or lost  *)
(* the file, and every save to come has it; or the quit waits for one that has.  *)
Kept(r, copy) == copy = {} \/ promised.records[r] \subseteq copy
SaveKeeps(r, i) == promised.records[r] \subseteq asked[i].body
Landed(r) == Kept(r, disk[r]) /\ \A i \in SavesOf(r) : SaveKeeps(r, i)
CopyAwaited(r) ==
  /\ quit = "flushing"
  /\ \E i \in SavesOf(r) :
       SaveKeeps(r, i) /\ QuitCounts(flushes, Rank(asked, "save_record", i))
RecordSafe(r) ==
  /\ promised.records[r] # {} => r \in born
  /\ Kept(r, mirror[r])
  /\ listing = "read" => r \in DOMAIN touched \/ Kept(r, snap[r])
  /\ Landed(r) \/ CopyAwaited(r)
RecordsKeep == Quitting /\ ~Faulted => \A r \in Records : RecordSafe(r)

RecordsInv == FlushesShape(flushes) /\ RecordsKeep

(* A step that adds calls to the others.                                     *)
LEMMA RecordsAdd ==
  ASSUME IsCalls(asked), NEW t, IsCalls(t), asked' = asked \o t, WritesMirror(t),
         RecordsKeep, Counted, faults' \in {faults, faults + 1}, UNCHANGED <<quit, promised>>,
         FlushesHold, born \subseteq born',
         \A r \in Records : disk'[r] \in {{}, disk[r]},
         \A r \in Records : RecordSafe(r) => Kept(r, mirror'[r]),
         listing' = "read" => listing = "read" /\ snap' = snap /\ DOMAIN touched \subseteq DOMAIN touched'
  PROVE  RecordsKeep'
<1> SUFFICES ASSUME Quitting, ~Faulted', NEW r \in Records PROVE RecordSafe(r)'
  BY DEF RecordsKeep, Quitting
<1>1. ~Faulted
  BY DEF Faulted, Counted
<1>2. RecordSafe(r)
  BY <1>1 DEF RecordsKeep
<1>3. Kept(r, mirror[r])'
  BY <1>2 DEF Kept
<1>4. /\ \A i \in SavesOf(r) : i \in SavesOf(r)' /\ asked'[i] = asked[i]
      /\ \A i \in SavesOf(r)' :
           \/ i \in SavesOf(r) /\ asked'[i] = asked[i]
           \/ AddedBy(i, t)
  BY SavesMoved
<1>5. ASSUME NEW i \in SavesOf(r)', AddedBy(i, t) PROVE SaveKeeps(r, i)'
  <2>1. asked'[i].rec = r
    BY DEF SavesOf
  <2>2. asked'[i].body = mirror'[r] /\ mirror'[r] # {}
    BY <1>5, <2>1 DEF AddedBy, WritesMirror
  <2> QED
    BY <1>3, <2>2 DEF SaveKeeps, Kept
<1>6. CASE Landed(r)
  <2>1. Kept(r, disk[r])'
    BY <1>6 DEF Landed, Kept
  <2>2. ASSUME NEW i \in SavesOf(r)' PROVE SaveKeeps(r, i)'
    <3>1. CASE i \in SavesOf(r) /\ asked'[i] = asked[i]
      BY <1>6, <3>1 DEF Landed, SaveKeeps
    <3> QED
      BY <1>4, <1>5, <3>1
  <2>3. Landed(r)'
    BY <2>1, <2>2 DEF Landed
  <2> QED
    BY <1>2, <1>3, <2>3 DEF RecordSafe, Kept
<1>7. CASE CopyAwaited(r)
  <2>1. PICK i \in SavesOf(r) :
               SaveKeeps(r, i) /\ QuitCounts(flushes, Rank(asked, "save_record", i))
    BY <1>7 DEF CopyAwaited
  <2>2. i \in 1..Len(asked) /\ asked[i].cmd = "save_record"
    BY DEF SavesOf, CallsOf
  <2>3. Rank(asked, "save_record", i) \in Nat /\ Rank(asked, "save_record", i) > 0
    BY <2>2, RankCounts
  <2>4. Rank(asked', "save_record", i) = Rank(asked, "save_record", i)
    <3>1. IsCalls(asked') /\ Extends(asked, asked')
      BY CallsConcat DEF Extends
    <3> QED
      BY <2>2, <3>1, RankExtended
  <2>5. QuitCounts(flushes', Rank(asked', "save_record", i))
    BY <2>1, <2>3, <2>4 DEF FlushesHold
  <2>6. i \in SavesOf(r)' /\ SaveKeeps(r, i)'
    BY <1>4, <2>1 DEF SaveKeeps
  <2>7. CopyAwaited(r)'
    BY <1>7, <2>5, <2>6 DEF CopyAwaited
  <2> QED
    BY <1>2, <1>3, <2>7 DEF RecordSafe, Kept
<1> QED
  BY <1>2, <1>6, <1>7 DEF RecordSafe

(* Another call arrives.                                                    *)
LEMMA RecordsTook ==
  ASSUME IsCalls(asked), asked # <<>>, asked' = Tail(asked), Head(asked).cmd # "save_record",
         RecordsKeep, Counted, faults' \in {faults, faults + 1}, UNCHANGED <<quit, promised>>,
         FlushesHold, UNCHANGED <<born, disk, mirror, touched, snap>>,
         listing' = "read" => listing = "read"
  PROVE  RecordsKeep'
<1> SUFFICES ASSUME Quitting, ~Faulted', NEW r \in Records PROVE RecordSafe(r)'
  BY DEF RecordsKeep, Quitting
<1>1. ~Faulted
  BY DEF Faulted, Counted
<1>2. RecordSafe(r)
  BY <1>1 DEF RecordsKeep
<1>3. /\ \A i \in SavesOf(r)' : i \in Int /\ i + 1 \in SavesOf(r) /\ asked'[i] = asked[i + 1]
      /\ \A i \in SavesOf(r) : i - 1 \in SavesOf(r)' /\ asked'[i - 1] = asked[i]
  BY SavesShifted
<1>4. CASE Landed(r)
  <2>1. Landed(r)'
    BY <1>3, <1>4 DEF Landed, SaveKeeps, Kept
  <2> QED
    BY <1>2, <2>1 DEF RecordSafe, Kept
<1>5. CASE CopyAwaited(r)
  <2>1. PICK i \in SavesOf(r) :
               SaveKeeps(r, i) /\ QuitCounts(flushes, Rank(asked, "save_record", i))
    BY <1>5 DEF CopyAwaited
  <2>2. i \in 1..Len(asked) /\ asked[i].cmd = "save_record"
    BY DEF SavesOf, CallsOf
  <2>3. Rank(asked, "save_record", i) \in Nat /\ Rank(asked, "save_record", i) > 0
    BY <2>2, RankCounts
  <2>4. PICK k \in SavesOf(r)' : k = i - 1 /\ asked'[k] = asked[i] /\ k + 1 = i
    BY <1>3, <2>2
  <2>5. Rank(asked', "save_record", k) = Rank(asked, "save_record", i)
    <3>1. k \in 1..Len(Tail(asked)) /\ asked[1].cmd # "save_record"
      BY CallsShapes DEF SavesOf, CallsOf
    <3>2. Rank(Tail(asked), "save_record", k) =
            Rank(asked, "save_record", k + 1) - (IF asked[1].cmd = "save_record" THEN 1 ELSE 0)
      BY <3>1, RankTail
    <3> QED
      BY <2>3, <2>4, <3>1, <3>2
  <2>6. QuitCounts(flushes', Rank(asked', "save_record", k))
    BY <2>1, <2>3, <2>5 DEF FlushesHold
  <2>7. SaveKeeps(r, k)'
    BY <2>1, <2>4 DEF SaveKeeps
  <2>8. CopyAwaited(r)'
    BY <1>5, <2>6, <2>7 DEF CopyAwaited
  <2> QED
    BY <1>2, <2>8 DEF RecordSafe, Kept
<1> QED
  BY <1>2, <1>4, <1>5 DEF RecordSafe

(* A step that leaves the quit and who waits for the records alone.           *)
Steady ==
  /\ RecordsKeep /\ Counted /\ MirrorInv /\ DeletesInv /\ IsCalls(asked)
  /\ faults' \in {faults, faults + 1} /\ UNCHANGED <<quit, promised>> /\ FlushesHold

(* No listing is read that was not, nor forgets what was touched.              *)
Unread == listing' = "read" => listing = "read" /\ snap' = snap /\ DOMAIN touched \subseteq DOMAIN touched'

(* The mirror's copies grow, go, or are the first of a record.                 *)
LEMMA RecordsGrow ==
  ASSUME Steady, NEW t, IsCalls(t), asked' = asked \o t, WritesMirror(t), born \subseteq born',
         \A r \in Records : disk'[r] \in {{}, disk[r]}, Unread,
         \A r \in Records : \/ mirror'[r] = {} \/ mirror'[r] = mirror[r]
                            \/ mirror[r] \subseteq mirror'[r] /\ (mirror[r] # {} \/ r \notin born)
  PROVE  RecordsKeep'
<1>1. \A r \in Records : RecordSafe(r) => Kept(r, mirror'[r])
  BY DEF RecordSafe, Kept
<1> QED
  BY <1>1, RecordsAdd DEF Steady, Unread

(* The mirror is as it was, and what is written is what was parked.            *)
LEMMA RecordsFlushed ==
  ASSUME Steady, NEW t, IsCalls(t), asked' = asked \o t, Copying(t, Listed(parked), parked),
         \A r \in Records : disk'[r] \in {{}, disk[r]}, Unread, UNCHANGED <<mirror, born>>
  PROVE  RecordsKeep'
<1>1. \A r \in Listed(parked) : r \in Records /\ parked[r] = mirror[r] /\ parked[r] # {}
  BY DEF Steady, MirrorInv, Copies, Listed
<1>2. WritesMirror(t)
  BY <1>1 DEF WritesMirror, Copying
<1> QED
  BY <1>2, RecordsGrow

(* What is parked is written.                                               *)
LEMMA RecordsParked ==
  ASSUME Steady, asked' = asked \o Saves(Listed(parked), parked),
         \A r \in Records : disk'[r] \in {{}, disk[r]}, Unread, UNCHANGED <<mirror, born>>
  PROVE  RecordsKeep'
<1> DEFINE t == Saves(Listed(parked), parked)
<1>1. Listed(parked) \subseteq Records
  BY DEF Listed
<1>2. IsCalls(t) /\ Copying(t, Listed(parked), parked)
  BY <1>1, SavesCopy
<1>3. asked' = asked \o t
  OBVIOUS
<1> HIDE DEF t
<1> QED
  BY <1>2, <1>3, RecordsFlushed

(* It asks for nothing, or for something else than a save.                     *)
LEMMA RecordsBeside ==
  ASSUME Steady, NEW t, IsCalls(t), asked' = asked \o t, SavesIn(t) = {},
         \A r \in Records : disk'[r] \in {{}, disk[r]}, Unread, UNCHANGED <<mirror, born>>
  PROVE  RecordsKeep'
<1>1. Copying(t, Listed(parked), parked)
  BY NoneCopied
<1> QED
  BY <1>1, RecordsFlushed

(* Nothing is asked, and no copy changes.                                   *)
LEMMA RecordsSame ==
  ASSUME Steady, asked' = asked,
         \A r \in Records : disk'[r] \in {{}, disk[r]}, Unread, UNCHANGED <<mirror, born>>
  PROVE  RecordsKeep'
<1> DEFINE t == <<>>
<1>1. IsCalls(t) /\ SavesIn(t) = {}
  BY InNone
<1>2. asked' = asked \o t
  BY NoCalls DEF Steady
<1> HIDE DEF t
<1> QED
  BY <1>1, <1>2, RecordsBeside

(* A record in the mirror takes a newer copy.                               *)
LEMMA RecordsUpsert ==
  ASSUME Steady, NEW r \in Records, NEW copy, copy # {}, mirror[r] \subseteq copy,
         mirror[r] # {} \/ r \notin born, Upsert(r, copy), born \subseteq born',
         UNCHANGED <<snap, disk, listing, wipedHeard>>
  PROVE  RecordsKeep'
<1>1. /\ IsMap(mirror) /\ IsMap(parked) /\ IsCalls(asked)
      /\ (listing = "no" => DOMAIN touched = {})
  BY DEF Steady, DeletesInv, RecordsShape, OneListing
<1>2. mirror' = [mirror EXCEPT ![r] = copy] /\ touched' = Touch(r, copy)
  BY DEF Upsert
<1>3. mirror'[r] = copy /\ \A q \in Records : q # r => mirror'[q] = mirror[q]
  BY <1>1, <1>2 DEF IsMap
<1>4. DOMAIN touched \subseteq DOMAIN touched'
  BY <1>1, <1>2, TouchedOne
<1>5. PICK t : Upserts(t, r, copy)
  BY <1>1, UpsertCalls
<1>6. IsCalls(t) /\ asked' = asked \o t /\ WritesMirror(t)
  BY <1>5 DEF Upserts
<1>7. Unread /\ \A q \in Records : disk'[q] \in {{}, disk[q]}
  BY <1>4 DEF Unread
<1>8. ASSUME NEW q \in Records
      PROVE  \/ mirror'[q] = {} \/ mirror'[q] = mirror[q]
             \/ mirror[q] \subseteq mirror'[q] /\ (mirror[q] # {} \/ q \notin born)
  BY <1>3
<1> QED
  BY <1>6, <1>7, <1>8, RecordsGrow

(* A load of the history is asked for, after what is parked.                *)
LEMMA RecordsLoad ==
  ASSUME Steady, NEW force, NEW parks, NEW kept,
         \A r \in Records : parks[r] \in {{}, parked[r]}, LoadHistory(force, parks, kept),
         UNCHANGED <<mirror, snap, disk, born>>
  PROVE  RecordsKeep'
<1>1. \A r \in Records : disk'[r] \in {{}, disk[r]}
  OBVIOUS
<1>2. CASE parked' = parks /\ UNCHANGED <<asked, listing, touched>>
  BY <1>1, <1>2, RecordsSame DEF Unread
<1>3. CASE listing = "no" /\ ~(parked' = parks /\ UNCHANGED <<asked, listing, touched>>)
  <2>1. /\ asked' = asked \o Saves(Listed(parks), parks) \o <<ListCall>>
        /\ listing' = "asked"
    BY <1>3 DEF LoadHistory
  <2>2. PICK v : Begins(v, parks)
    BY <2>1, ListedCalls DEF Steady, MirrorInv
  <2>3. IsCalls(v) /\ asked' = asked \o v /\ WritesMirror(v)
    BY <2>2 DEF Begins
  <2> QED
    BY <1>1, <2>1, <2>3, RecordsGrow DEF Unread
<1>4. listing = "no" \/ (parked' = parks /\ UNCHANGED <<asked, listing, touched>>)
  BY DEF LoadHistory
<1> QED
  BY <1>2, <1>3, <1>4

(* A save is written: those behind it move up.                                *)
LEMMA RecordsWritten ==
  ASSUME RecordsInv, Counted, MirrorInv, DeletesInv, IsCalls(asked), SaveRecord,
         UNCHANGED <<quit, promised>>
  PROVE  RecordsKeep'
<1> DEFINE c == Head(asked)
<1>1. /\ asked # <<>> /\ c.cmd = "save_record" /\ asked' = Tail(asked)
      /\ flushes' = Settled(flushes)
      /\ UNCHANGED <<mirror, listing, snap, touched, born>>
      /\ \/ disk' = [disk EXCEPT ![c.rec] = c.body] /\ faults' = faults
         \/ faults' = faults + 1
  BY DEF SaveRecord, Arrives, Fails
<1> SUFFICES ASSUME Quitting, ~Faulted', NEW r \in Records PROVE RecordSafe(r)'
  BY DEF RecordsKeep, Quitting
<1>2. ~Faulted /\ disk' = [disk EXCEPT ![c.rec] = c.body]
  BY <1>1 DEF Faulted, Counted
<1>3. RecordSafe(r)
  BY <1>2 DEF RecordsInv, RecordsKeep
<1>4. IF IsSaveOf(r) THEN disk'[r] = c.body ELSE disk'[r] = disk[r]
  <2>1. IsMap(disk) /\ (IsSaveOf(r) <=> c.rec = r)
    BY <1>1 DEF DeletesInv, RecordsShape, IsSaveOf
  <2> HIDE DEF c
  <2> QED
    BY <1>2, <2>1 DEF IsMap
<1>5. /\ \A i \in SavesOf(r)' : i \in Int /\ i + 1 \in SavesOf(r) /\ asked'[i] = asked[i + 1]
      /\ \A i \in SavesOf(r) : \/ i = 1 /\ IsSaveOf(r)
                               \/ i - 1 \in SavesOf(r)' /\ asked'[i - 1] = asked[i]
      /\ IsSaveOf(r) => 1 \in SavesOf(r) /\ asked[1] = c /\ \A i \in SavesOf(r)' : i + 1 > 1
  BY <1>1, SavesShifted DEF IsSaveOf
<1>6. promised' = promised
  OBVIOUS
<1>7. CASE Landed(r)
  <2>1. \A i \in SavesOf(r)' : SaveKeeps(r, i)'
    BY <1>5, <1>6, <1>7 DEF Landed, SaveKeeps
  <2>2. Kept(r, disk[r])'
    BY <1>4, <1>5, <1>6, <1>7 DEF Landed, Kept, SaveKeeps
  <2> QED
    BY <1>1, <1>3, <2>1, <2>2 DEF RecordSafe, Landed, Kept
<1>8. CASE CopyAwaited(r)
  <2>1. PICK i \in SavesOf(r) :
               SaveKeeps(r, i) /\ QuitCounts(flushes, Rank(asked, "save_record", i))
    BY <1>8 DEF CopyAwaited
  <2>2. i \in 1..Len(asked) /\ asked[i].cmd = "save_record"
    BY DEF SavesOf, CallsOf
  <2>3. CASE i = 1 /\ IsSaveOf(r)
    <3>1. promised'.records[r] \subseteq disk'[r] /\ promised.records[r] \subseteq asked[1].body
      BY <1>4, <1>5, <1>6, <2>1, <2>3 DEF SaveKeeps
    <3>2. ASSUME NEW j \in SavesOf(r)' PROVE SaveKeeps(r, j)'
      <4>1. PICK k \in SavesOf(r) : k = j + 1 /\ k > 1 /\ asked'[j] = asked[k]
        BY <1>5, <2>3
      <4>2. asked[1].body \subseteq asked[k].body
        BY <1>5, <2>3, <4>1 DEF MirrorInv, Rising
      <4> QED
        BY <1>6, <3>1, <4>1, <4>2 DEF SaveKeeps
    <3>3. Landed(r)'
      BY <3>1, <3>2 DEF Landed, Kept
    <3> QED
      BY <1>1, <1>3, <3>3 DEF RecordSafe, Kept
  <2>4. CASE i - 1 \in SavesOf(r)' /\ asked'[i - 1] = asked[i]
    <3>1. PICK k \in SavesOf(r)' : k = i - 1 /\ asked'[k] = asked[i] /\ k + 1 = i
      BY <2>2, <2>4
    <3>2. PICK n \in Nat : n = Rank(asked, "save_record", i) /\ n > 0
      BY <2>2, RankCounts
    <3>3. Rank(asked', "save_record", k) = n - 1
      <4>1. k \in 1..Len(Tail(asked)) /\ asked[1].cmd = "save_record"
        BY <1>1, CallsShapes DEF SavesOf, CallsOf
      <4>2. Rank(Tail(asked), "save_record", k) =
              Rank(asked, "save_record", k + 1) - (IF asked[1].cmd = "save_record" THEN 1 ELSE 0)
        BY <1>1, <4>1, RankTail
      <4> QED
        BY <1>1, <3>1, <3>2, <4>1, <4>2
    <3>4. QuitCounts(flushes', Rank(asked', "save_record", k))
      <4>1. QuitCounts(flushes, n)
        BY <2>1, <3>2
      <4>2. QuitCounts(Settled(flushes), n - 1)
        BY <3>2, <4>1, FlushesTold DEF RecordsInv
      <4> QED
        BY <1>1, <3>3, <4>2
    <3>5. SaveKeeps(r, k)'
      BY <1>6, <2>1, <3>1 DEF SaveKeeps
    <3>6. CopyAwaited(r)'
      BY <1>8, <3>4, <3>5 DEF CopyAwaited
    <3> QED
      BY <1>1, <1>3, <3>6 DEF RecordSafe, Kept
  <2> QED
    BY <1>5, <2>3, <2>4
<1> QED
  BY <1>3, <1>7, <1>8 DEF RecordSafe

(* A listing reads the disk behind every save of what it will not replay.       *)
LEMMA RecordsRead ==
  ASSUME Steady, ListRuns
  PROVE  RecordsKeep'
<1>1. /\ listing = "running" /\ asked' = asked
      /\ UNCHANGED <<mirror, touched, born, disk, flushes>>
      /\ snap' = disk \/ listing' = "unread"
  BY DEF ListRuns, restWindow, historyDisk
<1> SUFFICES ASSUME Quitting, ~Faulted', NEW r \in Records PROVE RecordSafe(r)'
  BY DEF RecordsKeep, Quitting, Steady
<1>2. RecordSafe(r)
  BY DEF RecordsKeep, Steady, Faulted, Counted
<1>3. ASSUME r \notin DOMAIN touched PROVE Kept(r, disk[r])
  <2>1. SavesOf(r) = {}
    BY <1>1, <1>3 DEF Steady, MirrorInv, Replays, DeletesInv, OneListing
  <2> QED
    BY <1>2, <2>1 DEF RecordSafe, CopyAwaited, Landed
<1>4. listing' = "read" => r \in DOMAIN touched' \/ Kept(r, snap[r])'
  BY <1>1, <1>3 DEF Steady, Kept
<1>5. Landed(r)' <=> Landed(r)
  BY <1>1 DEF Steady, Landed, Kept, SaveKeeps, SavesOf, CallsOf
<1>6. CopyAwaited(r)' <=> CopyAwaited(r)
  BY <1>1 DEF Steady, CopyAwaited, SaveKeeps, SavesOf, CallsOf
<1>7. Kept(r, mirror[r])' /\ (promised'.records[r] # {} => r \in born')
  BY <1>1, <1>2 DEF Steady, RecordSafe, Kept
<1> QED
  BY <1>2, <1>4, <1>5, <1>6, <1>7 DEF RecordSafe

(* What it read, or replays, keeps what was promised.                         *)
LEMMA RecordsListed ==
  ASSUME Steady, ListLands
  PROVE  RecordsKeep'
<1>1. /\ asked' = asked /\ UNCHANGED <<born, disk>> /\ listing' = "no"
      /\ (listing = "read" /\ mirror' = Replayed) \/ mirror' = mirror
  BY DEF ListLands, callVars, historyDisk
<1>2. ASSUME NEW r \in Records, RecordSafe(r) PROVE Kept(r, mirror'[r])
  <2>1. CASE mirror' = mirror
    BY <1>2, <2>1 DEF RecordSafe
  <2>2. CASE listing = "read" /\ mirror' = Replayed
    <3>1. mirror'[r] = IF r \in DOMAIN touched THEN mirror[r] ELSE snap[r]
      BY <2>2 DEF Replayed, Steady, MirrorInv, Copies
    <3> QED
      BY <1>2, <2>2, <3>1 DEF RecordSafe
  <2> QED
    BY <1>1, <2>1, <2>2
<1> DEFINE t == <<>>
<1>3. IsCalls(t) /\ SavesIn(t) = {}
  BY InNone
<1>4. asked' = asked \o t
  BY <1>1, NoCalls DEF Steady
<1> HIDE DEF t
<1>5. WritesMirror(t)
  BY <1>3 DEF WritesMirror, SavesIn
<1>6. /\ born \subseteq born' /\ listing' # "read"
      /\ \A r \in Records : disk'[r] \in {{}, disk[r]}
  BY <1>1
<1> QED
  BY <1>2, <1>3, <1>4, <1>5, <1>6, RecordsAdd DEF Steady

(* The quit is ready once nothing is awaited.                                 *)
LEMMA RecordsReady ==
  ASSUME RecordsKeep, QuitReady
  PROVE  RecordsKeep'
<1>1. /\ quit = "flushing" /\ ~QuitWaits /\ quit' = "ready"
      /\ UNCHANGED <<promised, asked, faults, mirror, touched, snap, listing, born, disk>>
  BY DEF QuitReady, callVars, historyVars, historyWindow, historyDisk
<1> SUFFICES ASSUME ~Faulted', NEW r \in Records PROVE RecordSafe(r)'
  BY DEF RecordsKeep
<1>2. RecordSafe(r)
  BY <1>1 DEF RecordsKeep, Quitting, Faulted
<1>3. ~CopyAwaited(r)
  BY <1>1 DEF CopyAwaited, QuitCounts, QuitWaits
<1>4. Landed(r)' <=> Landed(r)
  BY <1>1 DEF Landed, Kept, SaveKeeps, SavesOf, CallsOf
<1> QED
  BY <1>1, <1>2, <1>3, <1>4 DEF RecordSafe, Kept

(* A flush counts the saves before it and its own.                             *)
LEMMA FlushCounts ==
  ASSUME IsCalls(asked), FlushesShape(flushes), FlushAll(TRUE)
  PROVE  /\ FlushesShape(flushes')
         /\ \A i \in 1..Len(asked') : QuitCounts(flushes', Rank(asked', "save_record", i))
<1> DEFINE t == FlushHistoryCalls
           u == IF ready = "no" THEN <<>> ELSE FlushCalls(permitted)
           n == RecordsUnderway + Len(t)
<1>1. asked' = (asked \o t) \o u
  BY DEF FlushAll
<1>2. IsCalls(t)
  <2>1. Listed(TypedParked) \subseteq Records
    BY DEF Listed
  <2> QED
    BY <2>1, SavesCopy DEF FlushHistoryCalls
<1>3. IsCalls(u) /\ \A k \in 1..Len(u) : u[k].cmd # "save_record"
  <2>1. IsCalls(u) /\ SavesIn(u) = {}
    BY ConfigCalls, InNone
  <2> HIDE DEF u
  <2> QED
    BY <2>1 DEF SavesIn
<1>4. flushes' = Append(flushes, [saves |-> n, dels |-> Dying, then |-> "quit"])
  BY DEF FlushAll, FlushHistory, Waiter
<1> HIDE DEF t, u
<1> DEFINE s == asked \o t
           a == Len(asked)
           m == Len(t)
           P == (a + 1)..(a + m)
<1>5. /\ IsCalls(s) /\ Len(s) = a + m
      /\ \A i \in 1..a : i \in 1..Len(s) /\ s[i] = asked[i]
  BY <1>2, CallsConcat
<1>6. asked' = s \o u
  BY <1>1
<1> HIDE DEF s
<1>7. /\ IsCalls(asked')
      /\ \A i \in 1..Len(s) : i \in 1..Len(asked') /\ asked'[i] = s[i]
      /\ \A i \in 1..Len(asked') :
           \/ i \in 1..Len(s)
           \/ i - Len(s) \in 1..Len(u) /\ asked'[i] = u[i - Len(s)]
  BY <1>3, <1>5, <1>6, CallsConcat
<1>8. a \in Nat /\ m \in Nat
  BY <1>2, CallsShapes
<1>9. IsFiniteSet(P) /\ Cardinality(P) <= m
  <2>1. PICK x \in Int, y \in Int : x = a + 1 /\ y = a + m
    BY <1>8
  <2>2. IsFiniteSet(x..y) /\ Cardinality(x..y) = IF x > y THEN 0 ELSE y - x + 1
    BY FS_Interval
  <2> QED
    BY <1>8, <2>1, <2>2
<1>10. Extends(asked, asked')
  BY <1>5, <1>7 DEF Extends
<1>11. ASSUME NEW j \in 1..Len(asked'), asked'[j].cmd = "save_record"
       PROVE  j \in 1..Len(asked) \/ j \in P
  <2>1. j \in 1..Len(s)
    BY <1>3, <1>7, <1>11
  <2> QED
    BY <1>5, <1>8, <2>1
<1> HIDE DEF P
<1>12. ASSUME NEW i \in 1..Len(asked')
       PROVE  /\ Rank(asked', "save_record", i) <= Underway("save_record") + m
              /\ Underway("save_record") \in Nat
  <2> DEFINE v == asked'
  <2>1. /\ IsCalls(v) /\ Extends(asked, v) /\ i \in 1..Len(v)
        /\ \A j \in 1..Len(v) : v[j].cmd = "save_record" => j \in 1..Len(asked) \/ j \in P
    BY <1>7, <1>10, <1>11
  <2> HIDE DEF v, m
  <2>2. Rank(v, "save_record", i) <= Underway("save_record") + m /\ Underway("save_record") \in Nat
    BY <1>8, <1>9, <2>1, RankWithin
  <2> QED
    BY <2>2 DEF v
<1>13. n \in Int
  <2>1. IsFiniteSet({i \in 1..Len(asked) : asked[i].cmd = "save_record"})
    <3>1. IsFiniteSet(1..Len(asked))
      BY <1>8, FS_Interval
    <3> QED
      BY <3>1, FS_Subset
  <2>2. Underway("save_record") \in Nat
    BY <2>1, FS_CardinalityType DEF Underway
  <2> QED
    BY <1>8, <2>2 DEF RecordsUnderway
<1> DEFINE w == [saves |-> n, dels |-> Dying, then |-> "quit"]
<1>14. {"saves", "then"} \subseteq DOMAIN w /\ w.saves = n /\ w.then = "quit"
  OBVIOUS
<1>15. flushes' = Append(flushes, w)
  BY <1>4
<1>16. \A i \in 1..Len(asked') : Rank(asked', "save_record", i) <= n
  BY <1>12 DEF RecordsUnderway
<1> HIDE DEF w, n
<1>17. FlushesShape(flushes') /\ QuitCounts(flushes', n)
  BY <1>13, <1>14, <1>15, FlushesAdded
<1>18. ASSUME NEW i \in 1..Len(asked') PROVE QuitCounts(flushes', Rank(asked', "save_record", i))
  <2>1. PICK k \in 1..Len(flushes') : flushes'[k].then = "quit" /\ n <= flushes'[k].saves
    BY <1>17 DEF QuitCounts
  <2>2. flushes'[k].saves \in Int
    BY <1>17 DEF FlushesShape
  <2>3. Rank(asked', "save_record", i) \in Nat
    BY <1>7, RankCounts
  <2>4. Rank(asked', "save_record", i) <= flushes'[k].saves
    BY <1>13, <1>16, <2>1, <2>2, <2>3
  <2> QED
    BY <2>1, <2>4 DEF QuitCounts
<1> QED
  BY <1>17, <1>18

(* The promise: each copy is on the disk, or its save is one the quit counts.    *)
LEMMA RecordsPromised ==
  ASSUME MirrorInv, DeletesInv, IsCalls(asked), FlushesShape(flushes), BeforeQuit
  PROVE  RecordsKeep'
<1>1. /\ FlushAll(TRUE) /\ quit' = "flushing"
      /\ promised'.records = [r \in Records |-> IF r \in lost \/ mirror[r] = {} THEN {}
                                               ELSE mirror[r] \cup typing[r]]
  BY DEF BeforeQuit
<1>2. /\ mirror' = TypedMirror
      /\ touched' = (IF listing = "no" THEN touched ELSE TouchAll(TypedMirror, Typed))
      /\ UNCHANGED <<snap, disk, listing, wipedHeard, lost, born>>
  BY <1>1 DEF FlushAll, FlushHistory, historyDisk
<1>3. PICK v : FlushesAll(v)
  BY <1>1, FlushAllCalls DEF MirrorInv
<1>4. /\ IsCalls(v) /\ asked' = asked \o v /\ WritesMirror(v)
      /\ Writable(Listed(TypedParked)) \subseteq SavesIn(v)
  BY <1>3 DEF FlushesAll
<1>5. \A i \in 1..Len(asked') : QuitCounts(flushes', Rank(asked', "save_record", i))
  BY <1>1, FlushCounts
<1> SUFFICES ASSUME NEW r \in Records PROVE RecordSafe(r)'
  BY DEF RecordsKeep
<1>6. /\ r \in Typed => /\ mirror'[r] = mirror[r] \cup typing[r] /\ mirror[r] # {}
                        /\ TypedParked[r] = mirror'[r] /\ r \in Files
      /\ r \notin Typed => mirror'[r] = mirror[r] /\ TypedParked[r] = parked[r]
  BY <1>2, TypedCopies DEF MirrorInv
<1> DEFINE P == promised'.records[r]
<1>7. P = {} \/ (P = mirror'[r] /\ r \notin lost /\ mirror[r] # {})
  <2>1. r \notin Typed => typing[r] = {} \/ mirror[r] = {}
    BY DEF Typed
  <2> QED
    BY <1>1, <1>6, <2>1
<1> HIDE DEF P
<1>8. P # {} => r \in born
  BY <1>7 DEF DeletesInv, BornFirst, Blank
<1>9. Kept(r, mirror[r])'
  BY <1>7 DEF Kept, P
<1>10. listing' = "read" => r \in DOMAIN touched' \/ Kept(r, snap[r])'
  <2>1. SUFFICES ASSUME listing = "read", r \notin DOMAIN touched', P # {} PROVE Kept(r, snap[r])'
    BY <1>2 DEF Kept, P
  <2>2. r \notin Typed /\ r \notin DOMAIN touched
    BY <1>2, <2>1 DEF TouchAll
  <2>3. snap[r] = {} \/ mirror[r] \subseteq snap[r]
    BY <1>7, <2>1, <2>2 DEF MirrorInv, ReadIsNew
  <2> QED
    BY <1>2, <1>6, <1>7, <2>2, <2>3 DEF Kept, P
<1>11. ASSUME NEW i \in SavesOf(r)', asked'[i].body = mirror'[r] PROVE CopyAwaited(r)'
  <2>1. i \in 1..Len(asked')
    BY DEF SavesOf, CallsOf
  <2>2. SaveKeeps(r, i)'
    BY <1>7, <1>11 DEF SaveKeeps, P
  <2>3. QuitCounts(flushes', Rank(asked', "save_record", i))
    BY <1>5, <2>1
  <2> QED
    BY <1>1, <2>2, <2>3 DEF CopyAwaited
<1>12. /\ \A i \in SavesOf(r) : i \in SavesOf(r)' /\ asked'[i] = asked[i]
       /\ \A i \in SavesOf(r)' :
            \/ i \in SavesOf(r) /\ asked'[i] = asked[i]
            \/ AddedBy(i, v)
       /\ r \in SavesIn(v) => \E i \in SavesOf(r)' : AddedBy(i, v)
  BY <1>4, SavesMoved
<1>13. ASSUME NEW i \in SavesOf(r)', AddedBy(i, v) PROVE asked'[i].body = mirror'[r]
  <2>1. asked'[i].rec = r
    BY DEF SavesOf
  <2> QED
    BY <1>4, <1>13, <2>1 DEF AddedBy, WritesMirror
<1>14. Landed(r)' \/ CopyAwaited(r)'
  <2>1. CASE P = {}
    BY <2>1 DEF Landed, Kept, SaveKeeps, P
  <2>2. CASE r \in SavesIn(v)
    BY <1>11, <1>12, <1>13, <2>2
  <2>3. CASE P # {} /\ r \notin SavesIn(v)
    <3>1. r \notin Typed
      <4>1. r \in Typed => TypedParked[r] # {} /\ r \notin Dictations
        BY <1>6, RecordsAssumption
      <4> QED
        BY <1>4, <2>3, <4>1 DEF Writable, Listed
    <3>2. ~Waits(r)
      BY <1>4, <1>6, <2>3, <3>1 DEF Waits, Writable, Listed
    <3>3. Sent(r)
      BY <1>7, <2>3, <3>2 DEF MirrorInv, OnItsWay
    <3>4. CASE \E i \in SavesOf(r) : asked[i].body = mirror[r]
      BY <1>6, <1>11, <1>12, <3>1, <3>4
    <3>5. CASE SavesOf(r) = {} /\ (mirror[r] \subseteq disk[r] \/ disk[r] = {})
      <4>1. \A i \in SavesOf(r)' : SaveKeeps(r, i)'
        BY <1>7, <1>12, <1>13, <3>5 DEF SaveKeeps, P
      <4>2. Kept(r, disk[r])'
        BY <1>2, <1>6, <1>7, <3>1, <3>5 DEF Kept, P
      <4> QED
        BY <4>1, <4>2 DEF Landed
    <3> QED
      BY <3>3, <3>4, <3>5 DEF Sent
  <2> QED
    BY <2>1, <2>2, <2>3
<1> QED
  BY <1>2, <1>8, <1>9, <1>10, <1>14 DEF RecordSafe, P

(* The user's edits and deletes, and the timers that write them.            *)
LEMMA RecordsWrites ==
  ASSUME Steady, NEW r \in Records,
         \/ EditRecord(r) \/ AddRecord(r) \/ TypeEdit(r) \/ TypingTimer(r) \/ CoalesceTimer(r)
         \/ DeleteRecord(r)
  PROVE  RecordsKeep'
<1>1. BornFirst /\ IsMap(mirror) /\ (listing = "no" => DOMAIN touched = {}) /\ IsCalls(asked)
  BY DEF Steady, DeletesInv, RecordsShape, OneListing
<1>2. ASSUME asked' = asked, UNCHANGED <<disk, mirror, touched, snap, listing, born>>
      PROVE  RecordsKeep'
  BY <1>2, RecordsSame DEF Unread
<1>3. CASE EditRecord(r)
  <2> DEFINE copy == mirror[r] \cup {Edit}
  <2>1. /\ mirror[r] # {} /\ Upsert(r, copy) /\ born' = born
        /\ UNCHANGED <<snap, disk, listing, wipedHeard>>
    BY <1>3 DEF EditRecord, restHistory, historyDisk
  <2>2. copy # {} /\ mirror[r] \subseteq copy
    OBVIOUS
  <2> HIDE DEF copy
  <2> QED
    BY <2>1, <2>2, RecordsUpsert
<1>4. CASE AddRecord(r)
  <2> DEFINE copy == {Edit}
  <2>1. /\ r \notin born /\ Upsert(r, copy) /\ born \subseteq born'
        /\ UNCHANGED <<snap, disk, listing, wipedHeard>>
    BY <1>4 DEF AddRecord, restHistory, historyDisk
  <2>2. mirror[r] = {} /\ copy # {}
    BY <1>1, <2>1 DEF BornFirst, Blank
  <2> HIDE DEF copy
  <2> QED
    BY <2>1, <2>2, RecordsUpsert
<1>5. CASE TypeEdit(r)
  <2>1. asked' = asked /\ UNCHANGED <<disk, mirror, touched, snap, listing, born>>
    BY <1>5 DEF TypeEdit, restHistory, historyDisk
  <2> QED
    BY <1>2, <2>1
<1>6. CASE TypingTimer(r)
  <2> DEFINE copy == mirror[r] \cup typing[r]
  <2>1. /\ typing[r] # {} /\ UNCHANGED <<snap, disk, listing, wipedHeard, born>>
        /\ \/ UNCHANGED <<asked, mirror, touched>>
           \/ mirror[r] # {} /\ Upsert(r, copy)
    BY <1>6 DEF TypingTimer, restHistory, historyDisk
  <2>2. copy # {} /\ mirror[r] \subseteq copy
    BY <2>1
  <2> HIDE DEF copy
  <2> QED
    BY <1>2, <2>1, <2>2, RecordsUpsert
<1>7. CASE CoalesceTimer(r)
  <2> DEFINE t == Saves({r}, parked)
  <2>1. /\ parked[r] # {} /\ asked' = asked \o t
        /\ UNCHANGED <<mirror, touched, snap, listing, disk, born>>
    BY <1>7 DEF CoalesceTimer, restHistory, historyDisk
  <2>2. IsCalls(t) /\ Copying(t, {r}, parked)
    BY SavesCopy
  <2> HIDE DEF t
  <2>3. Copying(t, Listed(parked), parked)
    BY <2>1, <2>2 DEF Copying, Listed
  <2>4. Unread /\ \A q \in Records : disk'[q] \in {{}, disk[q]}
    BY <2>1 DEF Unread
  <2> QED
    BY <2>1, <2>2, <2>3, <2>4, RecordsFlushed
<1>8. CASE DeleteRecord(r)
  <2> DEFINE c == DeleteCall(r)
             t == <<c>>
  <2>1. /\ mirror' = [mirror EXCEPT ![r] = {}] /\ touched' = Touch(r, {})
        /\ asked' = Append(asked, c) /\ UNCHANGED <<snap, listing, disk, born>>
    BY <1>8 DEF DeleteRecord, restHistory, historyDisk
  <2>2. c.cmd # "save_record"
    BY DEF DeleteCall
  <2> HIDE DEF c
  <2>3. asked' = asked \o t
    <3>1. PICK X : asked \in Seq(X)
      BY <1>1 DEF IsCalls
    <3>2. asked \in Seq(X \cup {c}) /\ c \in X \cup {c}
      BY <3>1, SeqMonotonic
    <3> QED
      BY <2>1, <3>2, AppendIsConcat
  <2>4. IsCalls(t) /\ SavesIn(t) = {}
    BY <2>2, InOne
  <2> HIDE DEF t
  <2>5. WritesMirror(t)
    BY <2>4 DEF WritesMirror, SavesIn
  <2>6. \A q \in Records : mirror'[q] = {} \/ mirror'[q] = mirror[q]
    BY <1>1, <2>1 DEF IsMap
  <2>7. DOMAIN touched \subseteq DOMAIN touched'
    BY <1>1, <2>1, TouchedOne
  <2>8. Unread /\ \A q \in Records : disk'[q] \in {{}, disk[q]}
    BY <2>1, <2>7 DEF Unread
  <2> QED
    BY <2>1, <2>3, <2>4, <2>5, <2>6, <2>8, RecordsGrow
<1> QED
  BY <1>3, <1>4, <1>5, <1>6, <1>7, <1>8

(* The listing, from the request to the mirror.                             *)
LEMMA RecordsLists ==
  ASSUME Steady, OpenHistory \/ Chained \/ ListArrives \/ ListRuns \/ ListLands
  PROVE  RecordsKeep'
<1>1. \A r \in Records : parked[r] \in {{}, parked[r]}
  OBVIOUS
<1>2. CASE OpenHistory
  <2>1. LoadHistory(FALSE, parked, stamped) /\ UNCHANGED <<mirror, snap, disk, born>>
    BY <1>2 DEF OpenHistory, historyDisk
  <2> QED
    BY <1>1, <2>1, RecordsLoad
<1>3. CASE Chained
  <2>1. /\ asked' = asked \o Saves(Listed(parked), parked) \o <<ListCall>>
        /\ listing' = "asked" /\ UNCHANGED <<mirror, snap, disk, born>>
    BY <1>3 DEF Chained, historyDisk
  <2>2. PICK v : Begins(v, parked)
    BY <1>1, <2>1, ListedCalls DEF Steady, MirrorInv
  <2>3. IsCalls(v) /\ asked' = asked \o v /\ WritesMirror(v)
    BY <2>2 DEF Begins
  <2>4. Unread /\ \A r \in Records : disk'[r] \in {{}, disk[r]}
    BY <2>1 DEF Unread
  <2> QED
    BY <2>1, <2>3, <2>4, RecordsGrow
<1>4. CASE ListArrives
  <2>1. /\ asked # <<>> /\ Head(asked).cmd = "list" /\ asked' = Tail(asked)
        /\ listing' = "running" /\ UNCHANGED <<born, disk, mirror, touched, snap>>
    BY <1>4 DEF ListArrives, Arrives, restWindow, historyDisk
  <2> QED
    BY <2>1, RecordsTook DEF Steady
<1> QED
  BY <1>2, <1>3, <1>4, RecordsRead, RecordsListed

(* A wipe and a sweep, from the request to the answer.                      *)
LEMMA RecordsWiped ==
  ASSUME Steady,
         AskWipe \/ WipeArrives \/ WipeRuns \/ WipeFails \/ WipeAnswered \/ RunSweep
  PROVE  RecordsKeep'
<1>1. CASE AskWipe
  <2>1. /\ asked' = asked \o Saves(Listed(parked), parked)
        /\ UNCHANGED <<mirror, touched, snap, listing, disk, born>>
    BY <1>1 DEF AskWipe, historyDisk
  <2> QED
    BY <2>1, RecordsParked DEF Unread
<1>2. CASE WipeArrives
  <2>1. /\ asked # <<>> /\ Head(asked).cmd = "wipe" /\ asked' = Tail(asked)
        /\ UNCHANGED <<born, disk, mirror, touched, snap, listing>>
    BY <1>2 DEF WipeArrives, Arrives, restWindow, historyDisk
  <2> QED
    BY <2>1, RecordsTook DEF Steady
<1>3. CASE WipeRuns
  <2>1. /\ asked' = asked /\ disk' = [r \in Records |-> IF r \in Dictations THEN {} ELSE disk[r]]
        /\ UNCHANGED <<mirror, snap, touched, listing, born>>
    BY <1>3 DEF WipeRuns, callVars, restWindow
  <2>2. \A r \in Records : disk'[r] \in {{}, disk[r]}
    BY <2>1
  <2> QED
    BY <2>1, <2>2, RecordsSame DEF Unread
<1>4. CASE WipeFails
  <2>1. asked' = asked /\ UNCHANGED <<disk, mirror, snap, touched, listing, born>>
    BY <1>4 DEF WipeFails, restWindow, historyDisk
  <2> QED
    BY <2>1, RecordsSame DEF Unread
<1>5. CASE WipeAnswered
  <2> DEFINE drop == IF wipe = "wiped" THEN preWipe ELSE {}
             parks == Dropped(drop)
  <2>1. LoadHistory(TRUE, parks, Unstamped(drop)) /\ UNCHANGED <<mirror, snap, disk, born>>
    BY <1>5 DEF WipeAnswered, historyDisk
  <2>2. \A r \in Records : parks[r] \in {{}, parked[r]}
    BY DEF Dropped
  <2> HIDE DEF parks, drop
  <2> QED
    BY <2>1, <2>2, RecordsLoad
<1>6. CASE RunSweep
  <2>1. PICK old \in SUBSET (Aged \cap Listed(disk)) :
          disk' = [r \in Records |->
                     IF r \in (IF ~sweeping.keep THEN Dictations \cap Listed(disk) ELSE {})
                              \cup (IF sweeping.brief THEN old ELSE {})
                     THEN {} ELSE disk[r]]
    BY <1>6 DEF RunSweep, Sweep
  <2>2. asked' = asked /\ UNCHANGED <<mirror, snap, touched, listing, born>>
    BY <1>6 DEF RunSweep, callVars, historyWindow
  <2>3. \A r \in Records : disk'[r] \in {{}, disk[r]}
    BY <2>1
  <2> QED
    BY <2>2, <2>3, RecordsSame DEF Unread
<1> QED
  BY <1>1, <1>2, <1>3, <1>4, <1>5, <1>6

(* A delete that runs takes the file, and so the promise, with it.          *)
LEMMA RecordsRuns ==
  ASSUME Steady, NEW r \in Records, DeleteRuns(r)
  PROVE  RecordsKeep'
<1>1. UNCHANGED <<mirror, touched, snap, listing, born>>
  BY DEF DeleteRuns
<1>2. \A q \in Records : disk'[q] \in {{}, disk[q]}
  <2>1. IsMap(disk) /\ (disk' = disk \/ disk' = [disk EXCEPT ![r] = {}])
    BY DEF DeleteRuns, Steady, DeletesInv, RecordsShape
  <2> QED
    BY <2>1 DEF IsMap
<1>3. asked' = asked \/ asked' = asked \o Saves(Listed(parked), parked)
  BY DEF DeleteRuns
<1> QED
  BY <1>1, <1>2, <1>3, RecordsSame, RecordsParked DEF Unread

(* A flush whose saves landed goes on.                                      *)
LEMMA RecordsSettled ==
  ASSUME Steady, FlushSettles
  PROVE  RecordsKeep'
<1>1. /\ UNCHANGED <<mirror, snap, disk, born>>
      /\ \A r \in Records : disk'[r] \in {{}, disk[r]} /\ parked[r] \in {{}, parked[r]}
  BY DEF FlushSettles, historyDisk
<1>2. CASE LoadHistory(TRUE, parked, stamped)
  BY <1>1, <1>2, RecordsLoad
<1>3. CASE asked' = Append(asked, WipeCall) /\ UNCHANGED <<listing, touched>>
  <2> DEFINE c == WipeCall
             t == <<c>>
  <2>1. c.cmd # "save_record"
    BY DEF WipeCall
  <2> HIDE DEF c
  <2>2. asked' = asked \o t
    <3>1. PICK X : asked \in Seq(X)
      BY DEF Steady, IsCalls
    <3>2. asked \in Seq(X \cup {c}) /\ c \in X \cup {c}
      BY <3>1, SeqMonotonic
    <3> QED
      BY <1>3, <3>2, AppendIsConcat DEF c
  <2>3. IsCalls(t) /\ SavesIn(t) = {}
    BY <2>1, InOne
  <2> HIDE DEF t
  <2>4. Unread
    BY <1>1, <1>3 DEF Unread
  <2> QED
    BY <1>1, <2>2, <2>3, <2>4, RecordsBeside
<1>4. CASE UNCHANGED <<asked, listing, touched>>
  BY <1>1, <1>4, RecordsSame DEF Unread
<1> QED
  BY <1>2, <1>3, <1>4 DEF FlushSettles

(* The other stores' steps leave the records alone.                         *)
LEMMA RecordsElsewhere ==
  ASSUME Steady, UNCHANGED historyVars,
         \/ asked' = asked
         \/ asked # <<>> /\ asked' = Tail(asked) /\ Head(asked).cmd \in ConfigCmds
         \/ \E known : asked' = asked \o FlushCalls(known) \/ asked' = asked \o SaveCalls(known)
  PROVE  RecordsKeep'
<1>1. /\ UNCHANGED <<mirror, snap, touched, disk, listing, born>> /\ Unread
      /\ \A r \in Records : disk'[r] \in {{}, disk[r]}
  BY DEF historyVars, historyWindow, historyDisk, Unread
<1>2. CASE asked' = asked
  BY <1>1, <1>2, RecordsSame
<1>3. CASE asked # <<>> /\ asked' = Tail(asked) /\ Head(asked).cmd \in ConfigCmds
  BY <1>1, <1>3, RecordsTook DEF Steady, ConfigCmds
<1>4. ASSUME NEW known, asked' = asked \o FlushCalls(known) \/ asked' = asked \o SaveCalls(known)
      PROVE  RecordsKeep'
  <2>1. PICK t : asked' = asked \o t /\ (t = FlushCalls(known) \/ t = SaveCalls(known))
    BY <1>4
  <2>2. IsCalls(t) /\ SavesIn(t) = {}
    BY <2>1, ConfigCalls
  <2> QED
    BY <1>1, <2>1, <2>2, RecordsBeside
<1> QED
  BY <1>2, <1>3, <1>4

(* A flush that is no quit's sends only what is newer.                      *)
LEMMA RecordsSent ==
  ASSUME Steady, NEW quits, FlushAll(quits)
  PROVE  RecordsKeep'
<1>1. /\ mirror' = TypedMirror
      /\ touched' = (IF listing = "no" THEN touched ELSE TouchAll(TypedMirror, Typed))
      /\ UNCHANGED <<snap, disk, listing, born>>
  BY DEF FlushAll, FlushHistory, historyDisk
<1>2. PICK v : FlushesAll(v)
  BY FlushAllCalls DEF Steady, MirrorInv
<1>3. IsCalls(v) /\ asked' = asked \o v /\ WritesMirror(v)
  BY <1>2 DEF FlushesAll
<1>4. ASSUME NEW r \in Records
      PROVE  mirror'[r] = mirror[r] \/ (mirror[r] # {} /\ mirror[r] \subseteq mirror'[r])
  BY <1>1, TypedCopies DEF Steady, MirrorInv
<1>5. DOMAIN touched \subseteq DOMAIN touched'
  BY <1>1 DEF TouchAll
<1>6. Unread /\ \A r \in Records : disk'[r] \in {{}, disk[r]}
  BY <1>1, <1>5 DEF Unread
<1> QED
  BY <1>1, <1>3, <1>4, <1>6, RecordsGrow

(* Every step that is none of the quit, a save or a crash.                  *)
LEMMA RecordsSteady ==
  ASSUME Steady, [Next]_vars, ~BeforeQuit, ~SaveRecord, ~Dies, ~QuitReady, ~RequestQuit
  PROVE  RecordsKeep'
<1>1. IsCalls(asked)
  BY DEF Steady
<1>2. ASSUME UNCHANGED historyVars, asked' = asked PROVE RecordsKeep'
  BY <1>2, RecordsElsewhere
<1>3. CASE Launch
  <2>1. ~Quitting'
    BY <1>3 DEF Launch, Steady, Counted, Quitting
  <2> QED
    BY <2>1 DEF RecordsKeep
<1>4. CASE Callbacks
  <2>1. CASE Reflush /\ OnConfig
    <3>1. UNCHANGED historyVars /\ asked' = asked \o FlushCalls(permitted)
      BY <2>1 DEF Reflush, OnConfig
    <3> QED
      BY <3>1, RecordsElsewhere
  <2> QED
    BY <1>4, <2>1, RecordsSettled, RecordsLists DEF Callbacks
<1>5. CASE Task /\ ConfigTask /\ OnConfig
  <2>1. UNCHANGED historyVars
    BY <1>5 DEF OnConfig
  <2>2. CASE LoadConfig \/ SaveLands \/ SaveFails
    <3>1. asked # <<>> /\ asked' = Tail(asked) /\ Head(asked).cmd \in ConfigCmds
      BY <2>2 DEF LoadConfig, SaveLands, SaveFails, Arrives, ConfigCmds
    <3> QED
      BY <2>1, <3>1, RecordsElsewhere
  <2>3. CASE EditPlain \/ (\E clash \in {"none", "sides", "real"} : EditChords(clash)) \/ Rebinds
    <3>1. asked' = asked
      BY <2>3 DEF EditPlain, EditChords, Changes, Rebinds, callVars
    <3> QED
      BY <1>2, <2>1, <3>1
  <2>4. CASE SaveTimer \/ RetryHeld \/ LearnPermitted
    <3>1. \/ asked' = asked
          \/ \E known : asked' = asked \o FlushCalls(known) \/ asked' = asked \o SaveCalls(known)
      BY <2>4 DEF SaveTimer, RetryHeld, LearnPermitted
    <3> QED
      BY <2>1, <3>1, RecordsElsewhere
  <2> QED
    BY <1>5, <2>2, <2>3, <2>4 DEF ConfigTask
<1>6. CASE Task /\ HistoryTask /\ OnHistory
  <2>1. ASSUME NEW r \in Records,
               \/ EditRecord(r) \/ TypeEdit(r) \/ TypingTimer(r) \/ CoalesceTimer(r)
               \/ DeleteRecord(r)
        PROVE  RecordsKeep'
    BY <2>1, RecordsWrites
  <2>2. CASE DeleteArrives
    <3>1. /\ asked # <<>> /\ Head(asked).cmd = "delete" /\ asked' = Tail(asked)
          /\ UNCHANGED <<born, disk, mirror, touched, snap, listing>>
      BY <2>2 DEF DeleteArrives, Arrives, historyWindow
    <3> QED
      BY <3>1, RecordsTook DEF Steady
  <2>3. CASE HearSweep(settings.keep)
    <3>1. /\ UNCHANGED <<mirror, snap, touched, disk, listing, born>> /\ Unread
          /\ \A r \in Records : disk'[r] \in {{}, disk[r]}
      BY <2>3 DEF HearSweep, Unread
    <3>2. PICK t : Flushes(t)
      BY <1>1, <2>3, HeardCalls
    <3> QED
      BY <3>1, <3>2, RecordsFlushed DEF Flushes
  <2> QED
    BY <1>6, <2>1, <2>2, <2>3, RecordsRuns, RecordsLists, RecordsWiped DEF HistoryTask
<1>7. CASE Task /\ QueueTask /\ OnQueue
  <2>1. UNCHANGED historyVars
    BY <1>7 DEF OnQueue
  <2>2. asked' = asked
    BY <1>7 DEF QueueTask, Enqueue, QueueTimer, WriteSettles, ReadLands, ReadFails, Post,
       PostSent, PostRetried, PostRefused, ApplyPost, callVars
  <2> QED
    BY <1>2, <2>1, <2>2
<1>8. CASE Task /\ KeepDictations
  <2>1. asked' = asked /\ UNCHANGED <<mirror, snap, touched, listing, disk, born>>
    BY <1>8 DEF KeepDictations, EditKeep, Changes, historyDisk
  <2> QED
    BY <2>1, RecordsSame DEF Unread
<1>9. CASE Task /\ RecordNew
  <2>1. PICK r \in Records : AddRecord(r)
    BY <1>9 DEF RecordNew
  <2> QED
    BY <2>1, RecordsWrites
<1>10. CASE Break \/ TakeSweep \/ UNCHANGED vars
  <2>1. UNCHANGED historyVars /\ asked' = asked
    BY <1>10 DEF Break, TakeSweep, callVars, vars
  <2> QED
    BY <1>2, <2>1
<1>11. CASE RunSweep
  BY <1>11, RecordsWiped
<1>12. CASE SessionEnding
  BY <1>12, RecordsSent DEF SessionEnding
<1> QED
  BY <1>3, <1>4, <1>5, <1>6, <1>7, <1>8, <1>9, <1>10, <1>11, <1>12 DEF Next, Crash, Exit

(* Every step keeps what was promised of the records.                       *)
LEMMA RecordsStep ==
  ASSUME RecordsInv, Counted, ConfigInv, DeletesInv, MirrorInv, [Next]_vars
  PROVE  RecordsInv'
<1>1. IsCalls(asked) /\ FlushesShape(flushes) /\ RecordsKeep
  BY DEF ConfigInv, CallsInOrder, RecordsInv
<1>2. FlushesShape(flushes') /\ (FlushesHold \/ SaveRecord \/ Dies)
  BY <1>1, FlushesStep
<1>3. faults' \in {faults, faults + 1}
  BY FaultsCounted DEF Counted
<1>4. Dies \/ RequestQuit => ~Quitting'
  BY DEF Dies, RequestQuit, Quitting
<1>5. RecordsKeep'
  <2>1. CASE BeforeQuit
    BY <1>1, <2>1, RecordsPromised
  <2>2. CASE Dies \/ RequestQuit
    BY <1>4, <2>2 DEF RecordsKeep
  <2>3. CASE QuitReady
    BY <1>1, <2>3, RecordsReady
  <2>4. CASE ~BeforeQuit /\ ~Dies /\ ~RequestQuit /\ ~QuitReady
    <3>1. UNCHANGED <<quit, promised>>
      BY <2>4, QuitMoves
    <3>2. CASE SaveRecord
      BY <1>1, <3>1, <3>2, RecordsWritten
    <3>3. CASE ~SaveRecord
      <4>1. Steady
        BY <1>1, <1>2, <1>3, <2>4, <3>1, <3>3 DEF Steady
      <4> QED
        BY <2>4, <3>3, <4>1, RecordsSteady
    <3> QED
      BY <3>2, <3>3
  <2> QED
    BY <2>1, <2>2, <2>3, <2>4
<1> QED
  BY <1>2, <1>5 DEF RecordsInv

-----------------------------------------------------------------------------
(* A quit loses nothing.                                                    *)

(* The settings that are loaded, and so those promised, count from 0.           *)
Loaded0 == settings.rev >= 0 /\ promised.rev >= 0

(* Every step keeps the revisions from 0 up.                                *)
LEMMA LoadedStep ==
  ASSUME ConfigInv, Loaded0, [Next]_vars
  PROVE  Loaded0'
<1>1. settings' = settings \/ settings'.rev >= 0
  <2> DEFINE Fine == settings' = settings \/ settings'.rev >= 0
  <2>1. CASE LoadConfig
    <3>1. file = NoFile \/ file.rev > 0
      BY DEF ConfigInv, KnownFile
    <3>2. bad => file # NoFile
      BY DEF ConfigInv, KnownFile
    <3>3. file.rev \in Int /\ Defaults.rev = 0
      BY RevsCount DEF Defaults, Settings
    <3>4. settings' = settings \/ settings' = Defaults \/ (settings' = file /\ file # NoFile)
      BY <2>1, <3>2 DEF LoadConfig, Loads
    <3> QED
      BY <3>1, <3>3, <3>4
  <2>2. ASSUME NEW s, Changes(s), s.rev = Rev PROVE settings'.rev >= 0
    <3>1. settings' = s
      BY <2>2 DEF Changes
    <3>2. PICK n \in Nat : n = ops
      BY RevsCount
    <3>3. settings'.rev = (n + 1) + 1
      BY <2>2, <3>1, <3>2 DEF Rev, Edit
    <3> QED
      BY <3>3
  <2>3. /\ EditPlain => \E s : Changes(s) /\ s.rev = Rev
        /\ EditKeep => \E s : Changes(s) /\ s.rev = Rev
        /\ \A clash : EditChords(clash) => \E s : Changes(s) /\ s.rev = Rev
    <3>1. settings \in Shape
      BY DEF ConfigInv, SettingsShape
    <3>2. ASSUME NEW n PROVE [settings EXCEPT !.rev = n].rev = n
      BY <3>1 DEF Shape
    <3>3. EditPlain => \E s : Changes(s) /\ s.rev = Rev
      BY <3>2 DEF EditPlain
    <3>4. EditKeep => \E s : Changes(s) /\ s.rev = Rev
      <4> DEFINE s == [settings EXCEPT !.rev = Rev, !.keep = ~@]
      <4>1. s.rev = Rev
        BY <3>1 DEF Shape
      <4>2. EditKeep => Changes(s)
        BY DEF EditKeep
      <4> HIDE DEF s
      <4> QED
        BY <4>1, <4>2
    <3>5. ASSUME NEW clash, EditChords(clash) PROVE \E s : Changes(s) /\ s.rev = Rev
      <4> DEFINE s == [settings EXCEPT !.rev = Rev, !.chords = Rev, !.clash = clash]
      <4>1. s.rev = Rev
        BY <3>1 DEF Shape
      <4>2. Changes(s)
        BY <3>5 DEF EditChords
      <4> HIDE DEF s
      <4> QED
        BY <4>1, <4>2
    <3> QED
      BY <3>3, <3>4, <3>5
  <2>4. Dies => settings'.rev >= 0
    <3>1. Dies => settings' = Defaults
      BY DEF Dies, ConfigDies
    <3>2. Defaults.rev = 0
      BY DEF Defaults, Settings
    <3> QED
      BY <3>1, <3>2
  <2>5. CASE ConfigTask
    BY <2>1, <2>2, <2>3, <2>5 DEF ConfigTask, SaveTimer, RetryHeld, LearnPermitted, SaveLands,
       SaveFails, Rebinds, fileVars, storeVars, SaveNow, FlushSave, callVars
  <2>6. CASE OnHistory \/ OnQueue \/ UNCHANGED vars
    BY <2>6 DEF OnHistory, OnQueue, vars, configVars, storeVars
  <2>7. CASE Break \/ Launch \/ TakeSweep \/ RunSweep \/ RequestQuit \/ QuitReady
    BY <2>7 DEF Break, Launch, ConfigBoots, TakeSweep, RunSweep, RequestQuit, QuitReady,
       configVars, storeVars
  <2>8. CASE BeforeQuit \/ SessionEnding
    BY <2>8 DEF BeforeQuit, SessionEnding, FlushAll
  <2>9. Reflush => settings' = settings
    BY DEF Reflush
  <2>10. RecordNew => OnHistory
    BY DEF RecordNew
  <2> HIDE DEF Fine
  <2> QED
    BY <2>2, <2>3, <2>4, <2>5, <2>6, <2>7, <2>8, <2>9, <2>10
    DEF Next, Crash, Exit, Callbacks, KeepDictations
<1>2. promised' = promised \/ promised'.rev = settings.rev \/ promised'.rev = 0
  <2>1. BeforeQuit => promised'.rev = settings.rev
    BY DEF BeforeQuit
  <2>2. Dies => promised'.rev = 0
    BY DEF Dies, NoPromise
  <2>3. RequestQuit \/ QuitReady => promised' = promised
    BY DEF RequestQuit, QuitReady
  <2> QED
    BY <2>1, <2>2, <2>3, QuitMoves
<1>3. 0 >= 0
  OBVIOUS
<1> QED
  BY <1>1, <1>2, <1>3 DEF Loaded0

QuitInv == Counted /\ QueueInv /\ SettingsInv /\ RecordsInv /\ Loaded0

(* A launch has promised nothing.                                           *)
LEMMA QuitStart == Init => QuitInv
<1> SUFFICES ASSUME Init PROVE QuitInv
  OBVIOUS
<1>1. /\ faults = 0 /\ life = "down" /\ quit = "no" /\ promised = NoPromise
      /\ settings = Defaults /\ ready = "no" /\ file = Mine /\ waits = {}
      /\ ops = 0 /\ qloaded = FALSE /\ qwait = 0 /\ flushes = <<>> /\ asked = <<>>
  BY DEF Init, ConfigInit, HistoryInit, QueueInit
<1>2. promised.faults = 0 /\ promised.rev = 0 /\ settings.rev = 0 /\ file.rev = 1
  BY <1>1 DEF NoPromise, Defaults, Mine, Settings
<1>3. ~Quitting
  BY <1>1 DEF Quitting
<1>4. Counted /\ QueueInv
  BY <1>1, <1>2, <1>3 DEF Counted, QueueInv, QueueSaved, QueueKeeps
<1>5. SettingsInv
  <2>1. SavesAt = {}
    BY <1>1, CallsNone DEF SavesAt
  <2> QED
    BY <1>1, <1>2, <1>3, <2>1 DEF SettingsInv, RevsRise, WaitsShape, SettingsKeep
<1>6. RecordsInv
  <2>1. FlushesShape(flushes)
    <3>1. IsCalls(<<>>) /\ Len(<<>>) = 0
      BY CallsNone
    <3> QED
      BY <1>1, <3>1 DEF FlushesShape
  <2> QED
    BY <1>3, <2>1 DEF RecordsInv, RecordsKeep
<1> QED
  BY <1>2, <1>4, <1>5, <1>6 DEF QuitInv, Loaded0

(* The three stores together.                                               *)
LEMMA QuitStep ==
  ASSUME QuitInv, BacklogInv, ConfigInv, DeletesInv, MirrorInv, [Next]_vars
  PROVE  QuitInv'
BY CountedStep, QueueStep, SettingsStep, RecordsStep, LoadedStep DEF QuitInv

(* What a quit promised is kept in every state.                             *)
LEMMA QuitAlways == Spec => []QuitInv
<1>1. QuitInv /\ BacklogInv /\ ConfigInv /\ DeletesInv /\ MirrorInv /\ [Next]_vars => QuitInv'
  BY QuitStep
<1>2. Spec => []BacklogInv
  <2>1. BacklogInv /\ [Next]_vars => BacklogInv'
    BY BacklogStep
  <2> QED
    BY BacklogInit, <2>1, PTL DEF Spec
<1> QED
  BY QuitStart, ConfigAlways, DeletesAlways, MirrorAlways, <1>1, <1>2, PTL DEF Spec

(* A quit that the window confirmed loses nothing it held when it was asked:    *)
(* each flush counts the saves before it and its own, and waits for them all;    *)
(* so the disk has what was promised, unless it lost the file, a save failed     *)
(* since, or one is held (quit.rs, App.tsx, store.tsx, transcriptHistory.ts,    *)
(* usageOutcome.ts).                                                         *)
THEOREM QuitKeepsItsPromise == Spec => QuitLosesNothing
<1>1. ASSUME QuitInv, ConfigInv,
             life = "up" /\ life' = "down" /\ quit = "ready" /\ faults = promised.faults
      PROVE  /\ \A r \in Records : RecordKept(r)
             /\ promised.rev = 0 \/ file.rev >= promised.rev \/ held \/ refused \/ ready # "yes"
             /\ promised.queue \subseteq qdisk \cup server \cup dropped \/ qfailed
  <2>1. Quitting /\ ~Faulted /\ quit # "flushing"
    BY <1>1 DEF Quitting, Faulted, QuitInv, Counted
  <2>2. ASSUME NEW r \in Records PROVE RecordKept(r)
    <3>1. RecordSafe(r) /\ ~CopyAwaited(r)
      BY <1>1, <2>1 DEF QuitInv, RecordsInv, RecordsKeep, CopyAwaited
    <3> QED
      BY <3>1 DEF RecordSafe, Landed, Kept, RecordKept
  <2>3. promised.rev = 0 \/ file.rev >= promised.rev \/ held \/ refused \/ ready # "yes"
    <3>1. ~CoverAwaited /\ promised.rev \in Int /\ promised.rev >= 0
      BY <1>1, <2>1 DEF CoverAwaited, QuitInv, SettingsInv, SettingsKeep, Loaded0
    <3>2. promised.rev = 0 \/ promised.rev > 0
      BY <3>1
    <3> QED
      BY <1>1, <2>1, <3>1, <3>2 DEF QuitInv, SettingsInv, SettingsKeep
  <2>4. promised.queue \subseteq qdisk \cup server \cup dropped \/ qfailed
    BY <1>1, <2>1 DEF QuitInv, QueueInv, QueueKeeps, HasQueue, Accounted
  <2> QED
    BY <2>2, <2>3, <2>4
<1>2. QuitInv /\ ConfigInv /\ [Next]_vars =>
        [life = "up" /\ life' = "down" /\ quit = "ready" /\ faults = promised.faults =>
           /\ \A r \in Records : RecordKept(r)
           /\ promised.rev = 0 \/ file.rev >= promised.rev \/ held \/ refused \/ ready # "yes"
           /\ promised.queue \subseteq qdisk \cup server \cup dropped \/ qfailed]_vars
  BY <1>1
<1> QED
  BY <1>2, QuitAlways, ConfigAlways, PTL DEF Spec, QuitLosesNothing
=============================================================================
