---------------------------- MODULE StreamProofs ----------------------------
(***************************************************************************)
(* Proofs about streaming dictation: the sessions, for every number of     *)
(* sessions; their WebSocket client, for every number of frames the server *)
(* sends; and the clips they save, for every number of utterances and      *)
(* every amount of audio.                                                  *)
(***************************************************************************)
EXTENDS StreamSession, StreamWs, ClipCutter, SequenceTheorems, FunctionTheorems,
        FiniteSetTheorems, TLAPS

(***************************************************************************)
(* The sessions.                                                           *)
(***************************************************************************)
-----------------------------------------------------------------------------
(* Types.                                                                   *)

(* The initial state is well typed.                                        *)
LEMMA TypeInit == Init => TypeOK
<1> SUFFICES ASSUME Init PROVE TypeOK
  OBVIOUS
<1> USE BoundsAssumption DEF Init
<1>1. LockType /\ FlagType /\ HistType
  <2>1. 0 \in 0..MaxEpoch /\ FALSE \in BOOLEAN
    OBVIOUS
  <2>2. QED
    BY <2>1 DEF LockType, FlagType, HistType
<1>2. SessionType /\ TaskType
  BY DEF SessionType, TaskType
<1>3. FileType
  BY DEF FileType
<1>4. QED
  BY <1>1, <1>2, <1>3 DEF TypeOK

(* The steps of start_stream, and the retire of an epoch.                  *)
LEMMA TypeStart ==
  ASSUME TypeOK, StartBegin \/ StartReturns \/ RetireEpoch
  PROVE  TypeOK'
<1> USE BoundsAssumption DEF TypeOK, flagVars, lockVars, sessionVars, fileVars,
        histVars
<1>1. CASE StartBegin
  BY <1>1 DEF StartBegin, LockType, FlagType, SessionType, TaskType, FileType,
              HistType
<1>2. ASSUME NEW s \in BOOLEAN, NEW u \in BOOLEAN, StartOpens(s, u)
      PROVE  TypeOK'
  <2>1. activeEpoch + 1 \in Epochs /\ activeEpoch + 1 \in 0..MaxEpoch
    BY <1>2 DEF StartOpens, LockType, Epochs
  <2>2. LockType'
    BY <1>2, <2>1 DEF StartOpens, LockType
  <2>3. SessionType'
    BY <1>2, <2>1 DEF StartOpens, SessionType
  <2>4. TaskType'
    BY <1>2, <2>1 DEF StartOpens, TaskType
  <2>5. QED
    BY <1>2, <2>2, <2>3, <2>4 DEF StartOpens, FlagType, FileType, HistType
<1>3. CASE StartFails
  BY <1>3 DEF StartFails, LockType, FlagType, SessionType, TaskType, FileType,
              HistType
<1>4. CASE RetireEpoch
  BY <1>4 DEF RetireEpoch, LockType, FlagType, SessionType, TaskType, FileType,
              HistType
<1>5. QED
  BY <1>1, <1>2, <1>3, <1>4 DEF StartReturns

(* The parts of stop_stream and cancel_stream under the lock.              *)
LEMMA TypeCommand ==
  ASSUME TypeOK, Stop \/ UserCancel \/ RecoveryCancel \/ ReleaseCancel
  PROVE  TypeOK'
<1> USE BoundsAssumption DEF TypeOK, LockType, FlagType, SessionType, TaskType,
        FileType, HistType, fileVars
<1>1. CASE Stop
  <2>1. /\ live' \in 0..MaxEpoch /\ detached' \in 0..MaxEpoch
        /\ newestTaken' \in 0..MaxEpoch
    BY <1>1 DEF Stop, Claim, Newest
  <2>2. SessionType'
    BY <1>1 DEF Stop
  <2>3. QED
    BY <1>1, <2>1, <2>2 DEF Stop
<1>2. ASSUME NEW user \in BOOLEAN, NEW discards \in BOOLEAN, Cancel(user, discards)
      PROVE  TypeOK'
  <2>1. {detached} \ {0} \subseteq Epochs
    BY DEF Epochs
  <2>2. FlagType'
    BY <1>2, <2>1 DEF Cancel, SettleOnCancel
  <2>3. kept' \subseteq Epochs /\ newestTaken' \in 0..MaxEpoch
    BY <1>2, <2>1 DEF Cancel, Newest
  <2>4. SessionType'
    BY <1>2 DEF Cancel
  <2>5. QED
    BY <1>2, <2>2, <2>3, <2>4 DEF Cancel
<1>3. QED
  BY <1>1, <1>2 DEF UserCancel, RecoveryCancel, ReleaseCancel

(* The steps of a session's threads, and of what they listen to.           *)
LEMMA TypeSession ==
  ASSUME TypeOK, NEW e \in Epochs, World(e) \/ SessionThread(e)
  PROVE  TypeOK'
<1> USE BoundsAssumption DEF TypeOK, LockType, FlagType, SessionType, TaskType,
        FileType, HistType, flagVars, lockVars, sessionVars, fileVars, histVars
<1>1. CASE CaptureAudio(e)
  BY <1>1 DEF CaptureAudio
<1>2. CASE CaptureLost(e) \/ CaptureStops(e)
  BY <1>2 DEF CaptureLost, CaptureStops, CaptureExits
<1>3. CASE CutsClip(e)
  BY <1>3 DEF CutsClip
<1>4. CASE Finish(e)
  BY <1>4 DEF Finish
<1>5. CASE Drop(e)
  BY <1>5 DEF Drop
<1>6. QED
  BY <1>1, <1>2, <1>3, <1>4, <1>5 DEF World, SessionThread

(* The steps of the WebSocket task and of the disk.                        *)
LEMMA TypeTask ==
  ASSUME TypeOK, NEW e \in Epochs, TaskStep(e) \/ TaskEnds(e) \/ Disk(e)
  PROVE  TypeOK'
<1> USE BoundsAssumption DEF TypeOK, LockType, FlagType, SessionType, TaskType,
        FileType, HistType, flagVars, lockVars, sessionVars, fileVars, histVars,
        TaskGoes
<1>1. CASE Connects(e)
  BY <1>1 DEF Connects
<1>2. CASE SetupFails(e)
  BY <1>2 DEF SetupFails, Settle
<1>3. CASE Drains(e)
  BY <1>3 DEF Drains
<1>4. CASE Saved(e)
  BY <1>4 DEF Saved
<1>5. CASE Closes(e)
  BY <1>5 DEF Closes
<1>6. ASSUME NEW nonEmpty \in BOOLEAN, Settles(e, nonEmpty)
      PROVE  TypeOK'
  BY <1>6 DEF Settles, Settle
<1>7. ASSUME NEW ok \in BOOLEAN, SaveJob(e, ok)
      PROVE  TypeOK'
  BY <1>7 DEF SaveJob
<1>8. CASE WritesClip(e)
  BY <1>8 DEF WritesClip
<1>9. QED
  BY <1>1, <1>2, <1>3, <1>4, <1>5, <1>6, <1>7, <1>8 DEF TaskStep, TaskEnds, Disk

(* Every step keeps the types.                                             *)
LEMMA TypeNext == TypeOK /\ [Next]_vars => TypeOK'
<1> SUFFICES ASSUME TypeOK, [Next]_vars PROVE TypeOK'
  OBVIOUS
<1>1. CASE UNCHANGED vars
  BY <1>1 DEF vars, TypeOK, LockType, FlagType, SessionType, TaskType, FileType,
     HistType, flagVars, lockVars, sessionVars, fileVars, histVars
<1>2. CASE Next
  BY <1>2, TypeStart, TypeCommand, TypeSession, TypeTask DEF Next, Commands
<1>3. QED
  BY <1>1, <1>2

(* The types, the clip writer's bound among them, hold for every number of *)
(* sessions, epochs and clips.                                             *)
THEOREM TypeCorrect == Spec => []TypeOK
BY TypeInit, TypeNext, PTL DEF Spec

-----------------------------------------------------------------------------
(* The inductive invariant.                                                 *)

(* The lock: one session is live, newer than any taken, and not while a     *)
(* start holds the lock.                                                    *)
LiveIsNewest ==
  /\ newestTaken <= activeEpoch
  /\ live # 0 => /\ ~starting /\ newestTaken < live
                 /\ phase[live] = "live"
  /\ \A e \in Epochs : phase[e] = "live" => e = live

(* Nothing is recorded of an epoch that no session has claimed.            *)
NothingBeforeStart ==
  \A e \in Epochs :
    /\ phase[e] # "none" => e <= activeEpoch
    /\ phase[e] = "none" <=> task[e] = "off"

(* A task past its decision has settled; an aborted one lost its session to *)
(* Drop, not to a stop.                                                     *)
TaskSettles ==
  \A e \in Epochs :
    /\ task[e] \in {"saving", "clipping", "closing", "done"} => e \in settled
    /\ task[e] = "aborted" => phase[e] = "gone"

Stopped == {e \in Epochs : phase[e] \in {"finishing", "finished"}}

(* The slot names the newest stopped session, still to decide, and neither *)
(* cancelled nor spared before.                                            *)
SlotIsOpen ==
  detached # 0 =>
    /\ detached = newestTaken /\ detached \in Stopped
    /\ detached \notin settled \cup discard \cup kept

(* A cancel spoke only to sessions that were stopped, and once to each.     *)
CancelledWereStopped ==
  /\ discard \cup kept \subseteq Stopped
  /\ discard \cap kept = {}

(* A recording is on its way to the disk only for a session that decided    *)
(* to save it, before any discard.                                          *)
JobsDecided == jobs \subseteq settled \ discard

IInv ==
  /\ TypeOK
  /\ LiveIsNewest
  /\ NothingBeforeStart
  /\ TaskSettles
  /\ SlotIsOpen
  /\ CancelledWereStopped
  /\ JobsDecided

(* Before the first session there is nothing to relate.                    *)
LEMMA IInit == Init => IInv
<1> SUFFICES ASSUME Init PROVE IInv
  OBVIOUS
<1>1. TypeOK
  BY TypeInit
<1>2. LiveIsNewest /\ NothingBeforeStart /\ TaskSettles
  BY DEF Init, LiveIsNewest, NothingBeforeStart, TaskSettles
<1>3. SlotIsOpen /\ CancelledWereStopped /\ JobsDecided
  BY DEF Init, SlotIsOpen, CancelledWereStopped, JobsDecided
<1>4. QED
  BY <1>1, <1>2, <1>3 DEF IInv

(* A start replaces the live session and claims an epoch no one had: the    *)
(* slot, the flags and the decisions of earlier sessions stay as they are.  *)
LEMMA StartKeeps ==
  ASSUME IInv, TypeOK', StartBegin \/ StartReturns \/ RetireEpoch
  PROVE  IInv'
<1> USE BoundsAssumption DEF TypeOK, LockType, FlagType, SessionType, TaskType,
        FileType, HistType, flagVars, lockVars, sessionVars, fileVars, histVars,
        LiveIsNewest, NothingBeforeStart, TaskSettles, Stopped, SlotIsOpen,
        CancelledWereStopped, JobsDecided
<1>1. CASE StartBegin
  <2>1. LiveIsNewest'
    BY <1>1 DEF StartBegin, IInv, Epochs
  <2>2. NothingBeforeStart' /\ TaskSettles'
    BY <1>1 DEF StartBegin, IInv, Epochs
  <2>3. SlotIsOpen'
    BY <1>1 DEF StartBegin, IInv, Epochs
  <2>4. CancelledWereStopped' /\ JobsDecided'
    <3>1. ASSUME NEW e \in Stopped PROVE e # live
      <4> HIDE DEF TypeOK, NothingBeforeStart, TaskSettles, SlotIsOpen, CancelledWereStopped,
            JobsDecided
      <4>1. e \in Epochs /\ e # 0 /\ phase[e] # "live"
        BY DEF Epochs
      <4>2. live # 0 => phase[live] = "live"
        BY DEF IInv
      <4>3. QED
        BY <4>1, <4>2
    <3>2. Stopped \subseteq Stopped'
      BY <1>1, <3>1 DEF StartBegin, IInv
    <3>3. QED
      BY <1>1, <3>2 DEF StartBegin, IInv
  <2>5. QED
    BY <2>1, <2>2, <2>3, <2>4 DEF IInv
<1>2. ASSUME NEW s \in BOOLEAN, NEW u \in BOOLEAN, StartOpens(s, u)
      PROVE  IInv'
  <2>1. /\ activeEpoch + 1 \in Epochs /\ phase[activeEpoch + 1] = "none"
        /\ activeEpoch + 1 # 0 /\ newestTaken < activeEpoch + 1
    BY <1>2 DEF StartOpens, IInv, Epochs
  <2>2. LiveIsNewest' /\ NothingBeforeStart' /\ TaskSettles'
    BY <1>2, <2>1 DEF StartOpens, StartUnlocked, IInv, Epochs
  <2>3. SlotIsOpen' /\ CancelledWereStopped' /\ JobsDecided'
    BY <1>2, <2>1 DEF StartOpens, IInv
  <2>4. QED
    BY <2>2, <2>3 DEF IInv
<1>3. CASE StartFails
  <2>1. LiveIsNewest'
    BY <1>3 DEF StartFails, IInv
  <2>2. NothingBeforeStart' /\ TaskSettles'
    <3> HIDE DEF LiveIsNewest, SlotIsOpen, CancelledWereStopped, JobsDecided, HistType, FileType
    <3>1. /\ activeEpoch <= activeEpoch' /\ activeEpoch' \in Nat
          /\ phase' = phase /\ task' = task /\ settled' = settled
      BY <1>3 DEF StartFails, IInv
    <3>2. NothingBeforeStart'
      <4>1. NothingBeforeStart /\ activeEpoch \in Nat /\ \A e \in Epochs : e \in Nat
        BY DEF IInv, Epochs
      <4> HIDE DEF TypeOK, TaskSettles
      <4>2. QED
        BY <3>1, <4>1
    <3>3. TaskSettles'
      <4>1. TaskSettles
        BY DEF IInv
      <4> HIDE DEF TypeOK, NothingBeforeStart
      <4>2. QED
        BY <3>1, <4>1
    <3>4. QED
      BY <3>2, <3>3
  <2>3. SlotIsOpen'
    BY <1>3 DEF StartFails, IInv
  <2>4. CancelledWereStopped' /\ JobsDecided'
    BY <1>3 DEF StartFails, IInv
  <2>5. QED
    BY <2>1, <2>2, <2>3, <2>4 DEF IInv
<1>4. CASE RetireEpoch
  <2>1. LiveIsNewest'
    BY <1>4 DEF RetireEpoch, IInv
  <2>2. NothingBeforeStart' /\ TaskSettles'
    <3> HIDE DEF LiveIsNewest, SlotIsOpen, CancelledWereStopped, JobsDecided, HistType, FileType
    <3>1. /\ activeEpoch <= activeEpoch' /\ activeEpoch' \in Nat
          /\ phase' = phase /\ task' = task /\ settled' = settled
      BY <1>4 DEF RetireEpoch, IInv
    <3>2. NothingBeforeStart'
      <4>1. NothingBeforeStart /\ activeEpoch \in Nat /\ \A e \in Epochs : e \in Nat
        BY DEF IInv, Epochs
      <4> HIDE DEF TypeOK, TaskSettles
      <4>2. QED
        BY <3>1, <4>1
    <3>3. TaskSettles'
      <4>1. TaskSettles
        BY DEF IInv
      <4> HIDE DEF TypeOK, NothingBeforeStart
      <4>2. QED
        BY <3>1, <4>1
    <3>4. QED
      BY <3>2, <3>3
  <2>3. SlotIsOpen'
    BY <1>4 DEF RetireEpoch, IInv
  <2>4. CancelledWereStopped' /\ JobsDecided'
    BY <1>4 DEF RetireEpoch, IInv
  <2>5. QED
    BY <2>1, <2>2, <2>3, <2>4 DEF IInv
<1>5. QED
  BY <1>1, <1>2, <1>3, <1>4 DEF StartReturns

(* A stop claims the slot only for a task that is still to decide, and a    *)
(* cancel empties it or marks what it names.                               *)
LEMMA CommandKeeps ==
  ASSUME IInv, TypeOK', Stop \/ UserCancel \/ RecoveryCancel \/ ReleaseCancel
  PROVE  IInv'
<1> USE BoundsAssumption DEF TypeOK, LockType, FlagType, SessionType, TaskType,
        FileType, HistType, fileVars, LiveIsNewest, NothingBeforeStart,
        TaskSettles, Stopped, SlotIsOpen, CancelledWereStopped, JobsDecided
<1>1. CASE Stop
  <2>1. live \in Epochs /\ newestTaken' = live /\ live <= activeEpoch
    BY <1>1 DEF Stop, Newest, IInv, Epochs
  <2>2. live \notin discard \cup kept
    BY <1>1, <2>1 DEF Stop, IInv
  <2>3. LiveIsNewest' /\ NothingBeforeStart' /\ TaskSettles'
    BY <1>1, <2>1 DEF Stop, IInv
  <2>4. SlotIsOpen'
    BY <1>1, <2>1, <2>2 DEF Stop, Claim, IInv
  <2>5. CancelledWereStopped' /\ JobsDecided'
    BY <1>1, <2>1 DEF Stop, IInv
  <2>6. QED
    BY <2>3, <2>4, <2>5 DEF IInv
<1>2. ASSUME NEW user \in BOOLEAN, NEW discards \in BOOLEAN, Cancel(user, discards),
             user \/ discards
      PROVE  IInv'
  <2>1. CASE live # 0
    <3>1. live \in Epochs /\ newestTaken' = live /\ live <= activeEpoch
      BY <1>2, <2>1 DEF Cancel, Newest, IInv, Epochs
    <3>2. live \notin discard \cup kept /\ detached' = 0 /\ discard' = discard
      BY <1>2, <2>1, <3>1 DEF Cancel, SettleOnCancel, IInv
    <3>3. LiveIsNewest' /\ NothingBeforeStart' /\ TaskSettles'
      BY <1>2, <2>1, <3>1 DEF Cancel, IInv
    <3>4. SlotIsOpen' /\ JobsDecided'
      BY <1>2, <3>2 DEF Cancel, IInv
    <3>5. CancelledWereStopped'
      BY <1>2, <2>1, <3>1, <3>2 DEF Cancel, Finishes, IInv
    <3>6. QED
      BY <3>3, <3>4, <3>5 DEF IInv
  <2>2. CASE live = 0
    <3>1. newestTaken' = newestTaken /\ phase' = phase
      BY <1>2, <2>2 DEF Cancel, Newest, IInv
    <3>2. LiveIsNewest' /\ NothingBeforeStart' /\ TaskSettles'
      <4>1. /\ activeEpoch' = activeEpoch + 1 /\ live' = live
            /\ UNCHANGED <<starting, task, settled>>
        BY <1>2, <2>2 DEF Cancel
      <4>2. LiveIsNewest'
        BY <2>2, <3>1, <4>1 DEF IInv
      <4>3. NothingBeforeStart' /\ TaskSettles'
        BY <3>1, <4>1 DEF IInv, Epochs
      <4>4. QED
        BY <4>2, <4>3
    <3>3. SlotIsOpen'
      BY <1>2, <2>2, <3>1 DEF Cancel, SettleOnCancel, IInv
    <3>4. CancelledWereStopped' /\ JobsDecided'
      BY <1>2, <2>2, <3>1 DEF Cancel, SettleOnCancel, IInv
    <3>5. QED
      BY <3>2, <3>3, <3>4 DEF IInv
  <2>3. QED
    BY <2>1, <2>2
<1>3. QED
  BY <1>1, <1>2 DEF UserCancel, RecoveryCancel, ReleaseCancel

(* The threads keep the invariant: Drop aborts only what no stop claimed.  *)
LEMMA SessionKeeps ==
  ASSUME IInv, TypeOK', NEW e \in Epochs, World(e) \/ SessionThread(e)
  PROVE  IInv'
<1> USE BoundsAssumption DEF TypeOK, LockType, FlagType, SessionType, TaskType,
        FileType, HistType, flagVars, lockVars, sessionVars, fileVars, histVars,
        LiveIsNewest, NothingBeforeStart, TaskSettles, Stopped, SlotIsOpen,
        CancelledWereStopped, JobsDecided
<1>1. CASE CaptureAudio(e)
  BY <1>1 DEF CaptureAudio, IInv
<1>2. CASE CaptureLost(e) \/ CaptureStops(e)
  BY <1>2 DEF CaptureLost, CaptureStops, CaptureExits, IInv
<1>3. CASE CutsClip(e)
  BY <1>3 DEF CutsClip, IInv
<1>4. CASE Finish(e)
  BY <1>4 DEF Finish, IInv
<1>5. CASE Drop(e)
  BY <1>5 DEF Drop, IInv
<1>6. QED
  BY <1>1, <1>2, <1>3, <1>4, <1>5 DEF World, SessionThread

(* The task settles as it decides, which also takes it out of the slot.    *)
LEMMA TaskKeeps ==
  ASSUME IInv, TypeOK', NEW e \in Epochs, TaskStep(e) \/ TaskEnds(e) \/ Disk(e)
  PROVE  IInv'
<1> USE BoundsAssumption DEF TypeOK, LockType, FlagType, SessionType, TaskType,
        FileType, HistType, flagVars, lockVars, sessionVars, fileVars, histVars,
        LiveIsNewest, NothingBeforeStart, TaskSettles, Stopped, SlotIsOpen,
        CancelledWereStopped, JobsDecided, TaskGoes
<1>1. CASE Connects(e)
  BY <1>1 DEF Connects, IInv
<1>2. CASE SetupFails(e)
  BY <1>2 DEF SetupFails, Settle, IInv
<1>3. CASE Drains(e)
  BY <1>3 DEF Drains, IInv
<1>4. CASE Saved(e)
  BY <1>4 DEF Saved, IInv
<1>5. CASE Closes(e)
  BY <1>5 DEF Closes, IInv
<1>6. ASSUME NEW nonEmpty \in BOOLEAN, Settles(e, nonEmpty)
      PROVE  IInv'
  BY <1>6 DEF Settles, Settle, IInv
<1>7. ASSUME NEW ok \in BOOLEAN, SaveJob(e, ok)
      PROVE  IInv'
  BY <1>7 DEF SaveJob, IInv
<1>8. CASE WritesClip(e)
  BY <1>8 DEF WritesClip, IInv
<1>9. QED
  BY <1>1, <1>2, <1>3, <1>4, <1>5, <1>6, <1>7, <1>8 DEF TaskStep, TaskEnds, Disk

(* Every step keeps the invariant.                                         *)
LEMMA IInvNext == IInv /\ [Next]_vars => IInv'
<1> SUFFICES ASSUME IInv, [Next]_vars PROVE IInv'
  OBVIOUS
<1>1. TypeOK'
  BY TypeNext DEF IInv
<1>2. CASE UNCHANGED vars
  BY <1>1, <1>2 DEF vars, IInv, LiveIsNewest, NothingBeforeStart, TaskSettles,
     Stopped, SlotIsOpen, CancelledWereStopped, JobsDecided, flagVars, lockVars,
     sessionVars, fileVars, histVars
<1>3. CASE Next
  BY <1>1, <1>3, StartKeeps, CommandKeeps, SessionKeeps, TaskKeeps DEF Next, Commands
<1>4. QED
  BY <1>2, <1>3

(* The invariant holds of every reachable state.                           *)
LEMMA Invariant == Spec => []IInv
BY IInit, IInvNext, PTL DEF Spec

-----------------------------------------------------------------------------
(* What the invariant gives.                                                *)

(* Cancelled recordings stay unsaved: a step after the discard adds no      *)
(* session file, since no job of that session is pending, and cuts no clip, *)
(* since the task reads the flag before it queues one.                      *)
THEOREM DiscardedStaysUnsaved == Spec => DiscardedSavesNoMore
<1>1. ASSUME IInv, [Next]_vars
      PROVE  [\A e \in discard : wav' \cap {e} = wav \cap {e} /\ cut'[e] = cut[e]]_vars
  <2>1. SUFFICES ASSUME Next, NEW e \in discard
                 PROVE  wav' \cap {e} = wav \cap {e} /\ cut'[e] = cut[e]
    BY <1>1
  <2>2. e \in Epochs /\ e \notin jobs
    BY <1>1 DEF IInv, TypeOK, FlagType, JobsDecided
  <2>3. CASE Commands \/ StartReturns
    BY <2>3 DEF Commands, StartReturns, StartBegin, Stop, UserCancel, RecoveryCancel,
       ReleaseCancel, Cancel, RetireEpoch, StartOpens, StartFails, fileVars
  <2>4. ASSUME NEW d \in Epochs, World(d) \/ SessionThread(d)
        PROVE  wav' \cap {e} = wav \cap {e} /\ cut'[e] = cut[e]
    <3>1. CASE CutsClip(d)
      BY <1>1, <2>2, <3>1 DEF CutsClip, IInv, TypeOK, FileType
    <3>2. CASE ~CutsClip(d)
      BY <2>4, <3>2 DEF World, SessionThread, CaptureAudio, CaptureLost, CaptureStops,
         CaptureExits, Finish, Drop, fileVars
    <3>3. QED
      BY <3>1, <3>2
  <2>5. ASSUME NEW d \in Epochs, TaskStep(d) \/ TaskEnds(d)
        PROVE  wav' \cap {e} = wav \cap {e} /\ cut'[e] = cut[e]
    BY <2>5 DEF TaskStep, TaskEnds, Connects, SetupFails, Drains, Saved, Closes,
       Settles, fileVars
  <2>6. ASSUME NEW d \in Epochs, Disk(d)
        PROVE  wav' \cap {e} = wav \cap {e} /\ cut'[e] = cut[e]
    BY <2>2, <2>6 DEF Disk, SaveJob, WritesClip
  <2>7. QED
    BY <2>1, <2>3, <2>4, <2>5, <2>6 DEF Next
<1>2. QED
  BY <1>1, Invariant, PTL DEF Spec, DiscardedSavesNoMore

(* A Cancel reaches the drain it reports: what it discards is the newest    *)
(* session the user stopped, with its decision still to come, and nothing a *)
(* recovery's cancel spared is discarded or aborted later.                  *)
THEOREM CancelReachesTheNewest == Spec => CancelIsHeeded
<1>1. ASSUME IInv, IInv', [Next]_vars
      PROVE  [/\ \A e \in discard' \ discard :
                   e = newestTaken /\ task[e] \in {"setup", "live", "draining"}
              /\ \A e \in kept' : e \notin discard' /\ task'[e] # "aborted"]_vars
  <2>1. SUFFICES ASSUME Next
                 PROVE  /\ \A e \in discard' \ discard :
                             e = newestTaken /\ task[e] \in {"setup", "live", "draining"}
                        /\ \A e \in kept' : e \notin discard' /\ task'[e] # "aborted"
    BY <1>1
  <2>2. ASSUME NEW e \in kept' PROVE e \notin discard' /\ task'[e] # "aborted"
    BY <1>1, <2>2 DEF IInv, TypeOK, HistType, CancelledWereStopped, Stopped, TaskSettles
  <2>3. ASSUME NEW e \in discard' \ discard
        PROVE  e = newestTaken /\ task[e] \in {"setup", "live", "draining"}
    <3>1. e = detached /\ detached # 0
      BY <2>1, <2>3 DEF Next, Commands, StartReturns, StartBegin, Stop, UserCancel,
         RecoveryCancel, ReleaseCancel, Cancel, SettleOnCancel, RetireEpoch,
         StartOpens, StartFails, World, SessionThread, TaskStep, TaskEnds, Disk,
         CaptureAudio, CaptureLost, CaptureStops, CaptureExits, CutsClip, Finish,
         Drop, Connects, SetupFails, Drains, Saved, Closes, Settles, Settle,
         WritesClip, SaveJob, TaskGoes, flagVars
    <3>2. e \in Epochs /\ e = newestTaken /\ e \notin settled
          /\ phase[e] \in {"finishing", "finished"}
      BY <1>1, <3>1 DEF IInv, SlotIsOpen, Stopped
    <3>3. task[e] \in {"setup", "live", "draining"}
      BY <1>1, <3>2 DEF IInv, TypeOK, TaskType, TaskSettles, NothingBeforeStart
    <3>4. QED
      BY <3>2, <3>3
  <2>4. QED
    BY <2>2, <2>3
<1>2. QED
  BY <1>1, Invariant, PTL DEF Spec, CancelIsHeeded

(***************************************************************************)
(* The client.                                                             *)
(***************************************************************************)
-----------------------------------------------------------------------------
(* Counting the finals of a sequence of messages.                           *)

FinalsAt(s) == {i \in DOMAIN s : IsFinal(s[i])}
One(m) == IF IsFinal(m) THEN 1 ELSE 0

LEMMA CountIsNat ==
  ASSUME NEW X, NEW s \in Seq(X)
  PROVE  IsFiniteSet(FinalsAt(s)) /\ FinalsIn(s) \in Nat
<1>1. DOMAIN s = 1..Len(s) /\ Len(s) \in Nat
  BY LenProperties
<1>2. IsFiniteSet(1..Len(s))
  BY <1>1, FS_Interval
<1>3. FinalsAt(s) \in SUBSET (1..Len(s)) /\ FinalsIn(s) = Cardinality(FinalsAt(s))
  BY <1>1 DEF FinalsAt, FinalsIn
<1> QED
  BY <1>2, <1>3, FS_Subset, FS_CardinalityType

LEMMA CountEmpty == FinalsIn(<<>>) = 0
<1>1. {i \in DOMAIN <<>> : IsFinal(<<>>[i])} = {}
  OBVIOUS
<1> QED
  BY <1>1, FS_EmptySet DEF FinalsIn

LEMMA CountAppend ==
  ASSUME NEW X, NEW s \in Seq(X), NEW m \in X
  PROVE  FinalsIn(Append(s, m)) = FinalsIn(s) + One(m)
<1> DEFINE t == Append(s, m)
           n == Len(s) + 1
<1>1. /\ DOMAIN s = 1..Len(s) /\ Len(s) \in Nat /\ DOMAIN t = 1..n /\ t[n] = m
      /\ \A i \in 1..Len(s) : t[i] = s[i]
  BY AppendProperties, LenProperties
<1>2. FinalsAt(t) = IF IsFinal(m) THEN FinalsAt(s) \cup {n} ELSE FinalsAt(s)
  <2>1. \A i : i \in 1..n <=> i \in 1..Len(s) \/ i = n
    BY <1>1
  <2> HIDE DEF t, n
  <2> QED
    BY <1>1, <2>1 DEF FinalsAt
<1>3. n \notin FinalsAt(s)
  BY <1>1 DEF FinalsAt
<1>4. IsFiniteSet(FinalsAt(s)) /\ FinalsIn(s) \in Nat
  BY CountIsNat
<1>5. FinalsIn(t) = Cardinality(FinalsAt(t)) /\ FinalsIn(s) = Cardinality(FinalsAt(s))
  BY DEF FinalsIn, FinalsAt
<1> HIDE DEF t, n
<1>6. CASE IsFinal(m)
  <2>1. Cardinality(FinalsAt(t)) = Cardinality(FinalsAt(s)) + 1
    BY <1>2, <1>3, <1>4, <1>6, FS_AddElement
  <2> QED
    BY <1>5, <1>6, <2>1 DEF One, t
<1>7. CASE ~IsFinal(m)
  BY <1>2, <1>4, <1>5, <1>7 DEF One, t
<1> QED
  BY <1>6, <1>7

LEMMA CountOne ==
  ASSUME NEW m
  PROVE  FinalsIn(<<m>>) = One(m)
<1>1. <<m>> = Append(<<>>, m) /\ <<>> \in Seq({m})
  OBVIOUS
<1>2. FinalsIn(Append(<<>>, m)) = FinalsIn(<<>>) + One(m)
  BY <1>1, CountAppend
<1> QED
  BY <1>1, <1>2, CountEmpty DEF One

LEMMA CountTail ==
  ASSUME NEW X, NEW s \in Seq(X), s # <<>>
  PROVE  /\ Head(s) \in X /\ Tail(s) \in Seq(X)
         /\ FinalsIn(s) = One(Head(s)) + FinalsIn(Tail(s))
<1> DEFINE t == Tail(s)
           up == [i \in FinalsAt(t) |-> i + 1]
           rest == FinalsAt(s) \ {1}
<1>1. /\ Head(s) \in X /\ t \in Seq(X) /\ Len(s) \in Nat \ {0} /\ Len(t) = Len(s) - 1
      /\ DOMAIN s = 1..Len(s) /\ DOMAIN t = 1..Len(t)
      /\ Head(s) = s[1] /\ \A i \in 1..Len(t) : t[i] = s[i + 1]
  BY HeadTailProperties, LenProperties, EmptySeq
<1> HIDE DEF t
<1>2. up \in Bijection(FinalsAt(t), rest)
  <2>1. \A i \in FinalsAt(t) : i \in Nat /\ i + 1 \in rest
    BY <1>1 DEF FinalsAt
  <2>2. up \in [FinalsAt(t) -> rest] /\ \A i \in FinalsAt(t) : up[i] = i + 1
    BY <2>1
  <2>3. \A i, j \in FinalsAt(t) : up[i] = up[j] => i = j
    BY <2>1, <2>2
  <2>4. \A j \in rest : \E i \in FinalsAt(t) : up[i] = j
    <3>1. SUFFICES ASSUME NEW j \in rest PROVE j - 1 \in FinalsAt(t) /\ (j - 1) + 1 = j
      BY <2>2
    <3>2. j \in 2..Len(s) /\ IsFinal(s[j])
      BY <1>1 DEF FinalsAt
    <3>3. j - 1 \in 1..Len(t) /\ (j - 1) + 1 = j
      BY <1>1, <3>2
    <3>4. t[j - 1] = s[j]
      BY <1>1, <3>3
    <3> QED
      BY <1>1, <3>2, <3>3, <3>4 DEF FinalsAt
  <2> HIDE DEF up, rest
  <2> QED
    BY <2>2, <2>3, <2>4, Fun_IsBij
<1>3. IsFiniteSet(FinalsAt(s)) /\ IsFiniteSet(FinalsAt(t))
      /\ FinalsIn(s) \in Nat /\ FinalsIn(t) \in Nat
  BY <1>1, CountIsNat
<1>4. FinalsIn(t) = Cardinality(FinalsAt(t)) /\ FinalsIn(s) = Cardinality(FinalsAt(s))
  BY DEF FinalsIn, FinalsAt
<1>5. Cardinality(rest) = Cardinality(FinalsAt(t))
  <2>1. ExistsBijection(FinalsAt(t), rest)
    BY <1>2 DEF ExistsBijection
  <2> HIDE DEF rest
  <2> QED
    BY <1>3, <2>1, FS_Bijection
<1>6. Cardinality(rest) = IF 1 \in FinalsAt(s) THEN Cardinality(FinalsAt(s)) - 1
                          ELSE Cardinality(FinalsAt(s))
  BY <1>3, FS_RemoveElement
<1>7. 1 \in FinalsAt(s) <=> IsFinal(Head(s))
  BY <1>1 DEF FinalsAt
<1> QED
  BY <1>1, <1>3, <1>4, <1>5, <1>6, <1>7 DEF One, t

LEMMA CountPrefix ==
  ASSUME NEW X, NEW s \in Seq(X), NEW n \in 0..Len(s)
  PROVE  SubSeq(s, 1, n) \in Seq(X) /\ FinalsIn(SubSeq(s, 1, n)) <= FinalsIn(s)
<1> DEFINE t == SubSeq(s, 1, n)
<1>1. /\ DOMAIN s = 1..Len(s) /\ Len(s) \in Nat
      /\ t \in Seq(X) /\ DOMAIN t = 1..n /\ \A i \in 1..n : t[i] = s[i]
  <2>1. Len(s) \in Nat /\ DOMAIN s = 1..Len(s) /\ \A i \in 1..Len(s) : s[i] \in X
    BY LenProperties, ElementOfSeq
  <2>2. 1 \in Int /\ n \in Int /\ \A i \in 1..n : s[i] \in X
    BY <2>1
  <2>3. /\ t \in Seq(X) /\ Len(t) = (IF 1 <= n THEN n - 1 + 1 ELSE 0)
        /\ \A i \in 1..(n - 1 + 1) : t[i] = s[1 + i - 1]
    BY <2>2, SubSeqProperties
  <2> HIDE DEF t
  <2>4. n \in Nat /\ Len(t) = n
    BY <2>1, <2>3
  <2>5. DOMAIN t = 1..n
    BY <2>3, <2>4, LenProperties
  <2>6. \A i \in 1..n : t[i] = s[i]
    BY <2>1, <2>3, <2>4
  <2> QED
    BY <2>1, <2>3, <2>5, <2>6
<1> HIDE DEF t
<1>2. FinalsAt(t) \in SUBSET FinalsAt(s)
  BY <1>1 DEF FinalsAt
<1>3. IsFiniteSet(FinalsAt(s))
  BY CountIsNat
<1> QED
  BY <1>1, <1>2, <1>3, FS_Subset DEF FinalsIn, FinalsAt, t

-----------------------------------------------------------------------------
(* What is queued of the reader's messages, and what is new in it.          *)

Said(q) == {q[i] : i \in DOMAIN q}
LastOnly(q, m) == \A i \in DOMAIN q : q[i] = m => i = Len(q)

LEMMA SaidAppend ==
  ASSUME NEW X, NEW q \in Seq(X), NEW m \in X
  PROVE  /\ Append(q, m) \in Seq(X)
         /\ Said(Append(q, m)) = Said(q) \cup {m}
         /\ \A x : x \notin Said(q) => LastOnly(Append(q, m), x)
<1> DEFINE t == Append(q, m)
           n == Len(q) + 1
<1>1. /\ DOMAIN q = 1..Len(q) /\ Len(q) \in Nat /\ DOMAIN t = 1..n /\ t[n] = m
      /\ t \in Seq(X) /\ Len(t) = n /\ \A i \in 1..Len(q) : t[i] = q[i]
  BY AppendProperties, LenProperties
<1>2. \A i : i \in 1..n <=> i \in 1..Len(q) \/ i = n
  BY <1>1
<1> HIDE DEF t, n
<1>3. Said(t) = Said(q) \cup {m}
  BY <1>1, <1>2 DEF Said
<1>4. \A x : x \notin Said(q) => LastOnly(t, x)
  BY <1>1, <1>2 DEF Said, LastOnly
<1> QED
  BY <1>1, <1>3, <1>4 DEF t

LEMMA SaidTail ==
  ASSUME NEW X, NEW q \in Seq(X), q # <<>>
  PROVE  /\ Tail(q) \in Seq(X) /\ Head(q) \in X
         /\ Said(q) = Said(Tail(q)) \cup {Head(q)}
         /\ \A x : LastOnly(q, x) => LastOnly(Tail(q), x)
         /\ \A x : LastOnly(q, x) /\ Head(q) = x => Tail(q) = <<>> /\ Said(q) = {x}
<1> DEFINE t == Tail(q)
<1>1. /\ Head(q) \in X /\ t \in Seq(X) /\ Len(q) \in Nat \ {0} /\ Len(t) = Len(q) - 1
      /\ DOMAIN q = 1..Len(q) /\ DOMAIN t = 1..Len(t)
      /\ Head(q) = q[1] /\ \A i \in 1..Len(t) : t[i] = q[i + 1]
  BY HeadTailProperties, LenProperties, EmptySeq
<1>2. t # <<>> => Len(t) \in Nat \ {0}
  BY <1>1, EmptySeq
<1> HIDE DEF t
<1>3. \A i : i \in 1..Len(q) <=> i = 1 \/ (i - 1 \in 1..Len(t) /\ i = (i - 1) + 1)
  BY <1>1
<1>4. \A i \in 1..Len(t) : i + 1 \in 1..Len(q)
  BY <1>1
<1>5. Said(q) = Said(t) \cup {Head(q)}
  <2>1. ASSUME NEW x \in Said(q) PROVE x \in Said(t) \cup {Head(q)}
    <3>1. PICK i \in 1..Len(q) : x = q[i]
      BY <1>1, <2>1 DEF Said
    <3>2. i = 1 \/ (i - 1 \in 1..Len(t) /\ x = t[i - 1])
      BY <1>1, <1>3, <3>1
    <3> QED
      BY <1>1, <3>1, <3>2 DEF Said
  <2>2. Said(t) \subseteq Said(q) /\ Head(q) \in Said(q)
    BY <1>1, <1>4 DEF Said
  <2> QED
    BY <2>1, <2>2
<1>6. ASSUME NEW x, LastOnly(q, x), NEW i \in DOMAIN t, t[i] = x PROVE i = Len(t)
  <2>1. i + 1 \in DOMAIN q /\ q[i + 1] = x
    BY <1>1, <1>4, <1>6
  <2>2. i + 1 = Len(q)
    BY <1>6, <2>1 DEF LastOnly
  <2> QED
    BY <1>1, <2>2
<1>7. ASSUME NEW x, LastOnly(q, x), Head(q) = x PROVE t = <<>> /\ Said(q) = {x}
  <2>1. Len(q) = 1
    BY <1>1, <1>7 DEF LastOnly
  <2>2. t = <<>>
    BY <1>1, <1>2, <2>1
  <2>3. Said(<<>>) = {}
    BY DEF Said
  <2> QED
    BY <1>5, <1>7, <2>2, <2>3
<1>8. \A x : LastOnly(q, x) => LastOnly(t, x)
  BY <1>6 DEF LastOnly
<1> QED
  BY <1>1, <1>5, <1>7, <1>8 DEF t

-----------------------------------------------------------------------------
(* The inductive invariant.                                                 *)

(* No final is counted twice.                                               *)
Counted ==
  /\ finals + FinalsIn(evt) + FinalsIn(wire) <= sent
  /\ pc = "connecting" => reader = "off" /\ owed = 0

(* The reader's last message is the last, and it ended with it.             *)
ClosedIsLast ==
  /\ LastOnly(evt, "closed")
  /\ reader # "ended" => "closed" \notin Said(evt)

(* Why a session may end: the window was told, or the server said so.       *)
Answered == Spoke \/ "last" \in events \/ closing # "no"
Words == {"last", "error", "restart", "refusal", "readError"}

(* Before its last message the reader gave a reason, unless the server did. *)
Heard ==
  /\ reader = "lastFinal" => "last" \in events \cup Said(evt)
  /\ errorSeen => "error" \in events \cup Said(evt)
  /\ "closed" \in Said(evt) => Answered \/ Said(evt) \cap Words # {}

(* No loop is left without an answer, and the finals queued then are        *)
(* forwarded before `closed`.                                               *)
Ended ==
  /\ sawError => Spoke
  /\ pc \in {"leftovers", "settling", "done"} => Answered
  /\ pc = "leftovers" => owed <= finals + FinalsIn(evt)
  /\ pc \in {"settling", "done"} => owed <= finals
  /\ Closed => pc = "done"

WsIInv == WsTypeOK /\ Counted /\ ClosedIsLast /\ Heard /\ Ended

LEMMA WsIInit == WsInit => WsIInv
<1> SUFFICES ASSUME WsInit PROVE WsIInv
  OBVIOUS
<1>1. Said(<<>>) = {} /\ LastOnly(<<>>, "closed")
  BY DEF Said, LastOnly
<1>2. WsTypeOK
  <2>1. <<>> \in Seq(FromReader) /\ <<>> \in Seq(Frames)
    OBVIOUS
  <2>2. sent \in 0..MaxFrames /\ finals \in 0..sent /\ owed \in 0..sent
    BY FramesAssumption DEF WsInit
  <2> QED
    BY <2>1, <2>2 DEF WsInit, WsTypeOK
<1>3. Counted
  BY CountEmpty DEF WsInit, Counted
<1>4. ClosedIsLast /\ Heard /\ Ended
  BY <1>1 DEF WsInit, ClosedIsLast, Heard, Ended, Closed
<1> QED
  BY <1>2, <1>3, <1>4 DEF WsIInv

-----------------------------------------------------------------------------
(* The server, the network and the reader.                                  *)

(* The session around the client touches none of this.                      *)
LEMMA OutsideKeeps ==
  ASSUME WsIInv, StopSent \/ CaptureEnds
  PROVE  WsIInv'
<1>1. /\ stop' \in BOOLEAN /\ pcmOpen' \in BOOLEAN
      /\ UNCHANGED <<taskVars, evt, readerVars, serverVars>>
  BY DEF StopSent, CaptureEnds, WsIInv, WsTypeOK
<1>2. WsTypeOK'
  BY <1>1 DEF WsIInv, WsTypeOK, taskVars, readerVars, serverVars
<1>3. (Counted /\ ClosedIsLast /\ Heard /\ Ended)'
  BY <1>1 DEF WsIInv, Counted, ClosedIsLast, Heard, Ended, Closed, Answered, Spoke,
     taskVars, readerVars, serverVars
<1> QED
  BY <1>2, <1>3 DEF WsIInv

LEMMA ServerKeeps ==
  ASSUME WsIInv, Server
  PROVE  WsIInv'
<1>1. /\ wire \in Seq(Frames) /\ evt \in Seq(FromReader)
      /\ sent \in Nat /\ finals \in Nat /\ owed \in Nat
      /\ FinalsIn(wire) \in Nat /\ FinalsIn(evt) \in Nat
  BY CountIsNat, FramesAssumption DEF WsIInv, WsTypeOK
<1>2. UNCHANGED <<stop, pcmOpen, taskVars, evt, readerVars, asked>>
  BY DEF Server, ServerSends, LinkFails
<1> DEFINE Grew == /\ wire' \in Seq(Frames) /\ link' \in {"up", "broken", "hung", "over"}
                   /\ sent' \in 0..MaxFrames /\ sent <= sent'
                   /\ FinalsIn(wire') - FinalsIn(wire) <= sent' - sent
<1>3. Grew
  <2>1. ASSUME NEW f \in Frames, ServerSends(f) PROVE Grew
    <3>1. wire' = Append(wire, f) /\ sent' = sent + 1 /\ sent < MaxFrames
          /\ link' \in {"up", "over"}
      BY <2>1 DEF ServerSends
    <3>2. FinalsIn(wire') = FinalsIn(wire) + One(f) /\ One(f) \in 0..1
      BY <1>1, <3>1, CountAppend DEF One
    <3> QED
      BY <1>1, <3>1, <3>2, FramesAssumption
  <2>2. ASSUME NEW how \in {"broken", "hung"}, LinkFails(how) PROVE Grew
    <3>1. /\ \E n \in 0..Len(wire) : wire' = SubSeq(wire, 1, n)
          /\ link' = how /\ sent' = sent
      BY <2>2 DEF LinkFails
    <3>2. wire' \in Seq(Frames) /\ FinalsIn(wire') <= FinalsIn(wire)
      BY <1>1, <3>1, CountPrefix
    <3>3. FinalsIn(wire') \in Nat
      BY <3>2, CountIsNat
    <3>4. sent \in 0..MaxFrames
      BY DEF WsIInv, WsTypeOK
    <3> QED
      BY <1>1, <3>1, <3>2, <3>3, <3>4
  <2> QED
    BY <2>1, <2>2 DEF Server
<1>4. FinalsIn(wire') \in Nat /\ sent' \in Nat
  BY <1>3, CountIsNat, FramesAssumption
<1>5. finals' \in 0..sent' /\ owed' \in 0..sent'
  BY <1>1, <1>2, <1>3, <1>4 DEF WsIInv, WsTypeOK, taskVars
<1>6. WsTypeOK'
  BY <1>2, <1>3, <1>5 DEF WsIInv, WsTypeOK, taskVars, readerVars
<1>7. Counted'
  <2>1. finals' = finals /\ evt' = evt /\ pc' = pc /\ reader' = reader /\ owed' = owed
    BY <1>2 DEF taskVars, readerVars
  <2>2. finals + FinalsIn(evt) + FinalsIn(wire) <= sent
    BY DEF WsIInv, Counted
  <2>3. FinalsIn(wire') - FinalsIn(wire) <= sent' - sent
    BY <1>3
  <2>4. finals + FinalsIn(evt) + FinalsIn(wire') <= sent'
    BY <1>1, <1>4, <2>2, <2>3
  <2> QED
    BY <2>1, <2>4 DEF WsIInv, Counted
<1>8. (ClosedIsLast /\ Heard /\ Ended)'
  BY <1>2 DEF WsIInv, ClosedIsLast, Heard, Ended, Closed, Answered, Spoke,
     taskVars, readerVars
<1> QED
  BY <1>6, <1>7, <1>8 DEF WsIInv

(* A frame moves from the wire to the queue.                                *)
LEMMA FrameKeeps ==
  ASSUME WsIInv, ReadsFrame
  PROVE  WsIInv'
<1> DEFINE f == Head(wire)
<1>1. /\ wire \in Seq(Frames) /\ evt \in Seq(FromReader) /\ wire # <<>>
      /\ f \in {"frame", "final", "last", "error"}
      /\ wire' = Tail(wire) /\ evt' = Append(evt, f)
      /\ errorSeen' = (errorSeen \/ f = "error")
      /\ reader \in {"reading", "lastFinal"} /\ closing' = closing
      /\ reader' = IF f = "last" THEN "lastFinal" ELSE reader
      /\ UNCHANGED <<stop, pcmOpen, taskVars, link, sent, asked>>
  BY DEF WsIInv, WsTypeOK, ReadsFrame, Reads
<1> HIDE DEF f
<1>2. f \in FromReader /\ f # "closed"
  BY <1>1 DEF FromReader
<1>3. /\ wire' \in Seq(Frames) /\ FinalsIn(wire) = One(f) + FinalsIn(wire')
      /\ FinalsIn(evt') = FinalsIn(evt) + One(f)
      /\ evt' \in Seq(FromReader) /\ Said(evt') = Said(evt) \cup {f}
  BY <1>1, <1>2, CountTail, CountAppend, SaidAppend DEF f
<1>4. /\ FinalsIn(wire) \in Nat /\ FinalsIn(wire') \in Nat /\ One(f) \in Nat
      /\ FinalsIn(evt) \in Nat /\ FinalsIn(evt') \in Nat
      /\ finals \in Nat /\ owed \in Nat /\ sent \in Nat
  <2>1. finals \in Nat /\ owed \in Nat /\ sent \in Nat
    BY FramesAssumption DEF WsIInv, WsTypeOK
  <2>2. One(f) \in Nat
    BY DEF One
  <2> QED
    BY <1>1, <1>3, <2>1, <2>2, CountIsNat
<1>5. "closed" \notin Said(evt) /\ "closed" \notin Said(evt') /\ LastOnly(evt', "closed")
  BY <1>1, <1>2, <1>3, SaidAppend DEF WsIInv, ClosedIsLast
<1>6. /\ pc' = pc /\ finals' = finals /\ sent' = sent /\ owed' = owed /\ events' = events
      /\ sawError' = sawError /\ pc # "connecting"
  BY <1>1 DEF taskVars, WsIInv, Counted
<1>7. WsTypeOK'
  BY <1>1, <1>3 DEF WsIInv, WsTypeOK, taskVars
<1>8. Counted'
  BY <1>3, <1>4, <1>6 DEF WsIInv, Counted
<1>9. ClosedIsLast'
  BY <1>5 DEF ClosedIsLast
<1>10. Heard'
  BY <1>1, <1>3, <1>5, <1>6 DEF WsIInv, Heard
<1>11. Ended'
  <2>1. Answered' = Answered /\ Spoke' = Spoke /\ Closed' = Closed
    BY <1>1, <1>6 DEF Answered, Spoke, Closed
  <2>2. pc = "leftovers" => owed <= finals + FinalsIn(evt')
    BY <1>3, <1>4 DEF WsIInv, Ended
  <2> QED
    BY <1>6, <2>1, <2>2 DEF WsIInv, Ended
<1> QED
  BY <1>7, <1>8, <1>9, <1>10, <1>11 DEF WsIInv

(* The reader's last messages: a reason, unless one was given, and `closed`. *)
Reasons == {<<>>} \cup {<<f>> : f \in {"restart", "refusal", "readError"}}

LEMMA LastMessages ==
  ASSUME NEW q \in Seq(FromReader), NEW ms \in Reasons
  PROVE  LET r == q \o Append(ms, "closed") IN
         /\ r \in Seq(FromReader) /\ FinalsIn(r) = FinalsIn(q)
         /\ Said(q) \subseteq Said(r)
         /\ ms # <<>> => Said(r) \cap Words # {}
         /\ "closed" \notin Said(q) => LastOnly(r, "closed")
<1> DEFINE r == q \o Append(ms, "closed")
<1>1. "closed" \in FromReader /\ \A f \in {"restart", "refusal", "readError"} : f \in FromReader
  BY DEF FromReader
<1>2. CASE ms = <<>>
  <2>1. r = Append(q, "closed")
    BY <1>1, <1>2, AppendIsConcat
  <2>2. One("closed") = 0
    BY DEF One, IsFinal
  <2>3. FinalsIn(q) \in Nat /\ FinalsIn(Append(q, "closed")) = FinalsIn(q) + 0
    BY <1>1, <2>2, CountAppend, CountIsNat
  <2> HIDE DEF r
  <2>4. FinalsIn(r) = FinalsIn(q)
    BY <2>1, <2>3
  <2>5. /\ r \in Seq(FromReader) /\ Said(r) = Said(q) \cup {"closed"}
        /\ "closed" \notin Said(q) => LastOnly(r, "closed")
    BY <1>1, <2>1, SaidAppend
  <2> QED
    BY <1>2, <2>4, <2>5 DEF r
<1>3. ASSUME NEW f \in {"restart", "refusal", "readError"}, ms = <<f>>
      PROVE  /\ r \in Seq(FromReader) /\ FinalsIn(r) = FinalsIn(q)
             /\ Said(q) \subseteq Said(r) /\ f \in Said(r)
             /\ "closed" \notin Said(q) => LastOnly(r, "closed")
  <2> DEFINE p == Append(q, f)
  <2>1. p \in Seq(FromReader) /\ Said(p) = Said(q) \cup {f}
    BY <1>1, SaidAppend
  <2>2. r = Append(p, "closed")
    <3>1. Append(ms, "closed") = <<f>> \o <<"closed">>
      BY <1>3
    <3>2. p = q \o <<f>> /\ Append(p, "closed") = p \o <<"closed">>
      BY <1>1, <2>1, AppendIsConcat
    <3>3. <<f>> \in Seq(FromReader) /\ <<"closed">> \in Seq(FromReader)
      BY <1>1
    <3>4. (q \o <<f>>) \o <<"closed">> = q \o (<<f>> \o <<"closed">>)
      BY <3>3, ConcatAssociative
    <3> QED
      BY <3>1, <3>2, <3>4
  <2>3. One("closed") = 0 /\ One(f) = 0
    BY DEF One, IsFinal
  <2>4. FinalsIn(q) \in Nat /\ FinalsIn(p) = FinalsIn(q) + One(f)
    BY <1>1, CountAppend, CountIsNat
  <2> HIDE DEF p, r
  <2>5. FinalsIn(r) = FinalsIn(p) + One("closed")
    BY <1>1, <2>1, <2>2, CountAppend
  <2>6. r \in Seq(FromReader) /\ Said(r) = Said(p) \cup {"closed"}
        /\ ("closed" \notin Said(p) => LastOnly(r, "closed"))
    BY <1>1, <2>1, <2>2, SaidAppend
  <2> QED
    BY <1>3, <2>1, <2>3, <2>4, <2>5, <2>6
<1>4. CASE \E f \in {"restart", "refusal", "readError"} : ms = <<f>>
  <2>1. PICK f \in {"restart", "refusal", "readError"} : ms = <<f>>
    BY <1>4
  <2>2. f \in Words
    BY DEF Words
  <2> HIDE DEF r
  <2> QED
    BY <1>3, <2>1, <2>2 DEF r
<1> QED
  BY <1>2, <1>4 DEF Reasons

LEMMA ReaderEndKeeps ==
  ASSUME WsIInv, NEW ms \in Reasons, ReaderEnds(ms), reader \in {"reading", "lastFinal"},
         wire' \in Seq(Frames), FinalsIn(wire') <= FinalsIn(wire),
         closing' \in {closing, "ordinary", "said"}, closing # "no" => closing' # "no",
         ms # <<>> \/ closing' # "no" \/ errorSeen \/ reader = "lastFinal",
         UNCHANGED <<stop, pcmOpen, taskVars, errorSeen, link, sent, asked>>
  PROVE  WsIInv'
<1>1. /\ evt \in Seq(FromReader) /\ wire \in Seq(Frames)
      /\ "closed" \notin Said(evt) /\ reader' = "ended"
      /\ evt' = evt \o Append(ms, "closed")
  BY DEF WsIInv, WsTypeOK, ClosedIsLast, ReaderEnds
<1>2. /\ evt' \in Seq(FromReader) /\ FinalsIn(evt') = FinalsIn(evt)
      /\ Said(evt) \subseteq Said(evt') /\ LastOnly(evt', "closed")
      /\ ms # <<>> => Said(evt') \cap Words # {}
  BY <1>1, LastMessages
<1>3. /\ pc' = pc /\ finals' = finals /\ sent' = sent /\ owed' = owed /\ events' = events
      /\ sawError' = sawError /\ errorSeen' = errorSeen /\ pc # "connecting"
  BY DEF taskVars, WsIInv, Counted
<1>4. WsTypeOK'
  BY <1>1, <1>2, <1>3 DEF WsIInv, WsTypeOK, taskVars
<1>5. Counted'
  <2>1. /\ FinalsIn(wire) \in Nat /\ FinalsIn(wire') \in Nat /\ FinalsIn(evt) \in Nat
        /\ finals \in Nat /\ sent \in Nat
    BY <1>1, CountIsNat, FramesAssumption DEF WsIInv, WsTypeOK
  <2>2. finals + FinalsIn(evt) + FinalsIn(wire') <= sent
    BY <2>1 DEF WsIInv, Counted
  <2> QED
    BY <1>2, <1>3, <2>2 DEF Counted
<1>6. ClosedIsLast'
  BY <1>1, <1>2 DEF ClosedIsLast
<1>7. Answered => Answered'
  BY <1>3 DEF Answered, Spoke
<1>8. Heard'
  <2>1. errorSeen' => "error" \in events' \cup Said(evt')
    BY <1>2, <1>3 DEF WsIInv, Heard
  <2>2. reader = "lastFinal" => "last" \in events' \cup Said(evt')
    BY <1>2, <1>3 DEF WsIInv, Heard
  <2>3. Answered' \/ Said(evt') \cap Words # {}
    BY <1>2, <1>3, <2>1, <2>2 DEF Answered, Spoke, Words
  <2> QED
    BY <1>1, <2>1, <2>3 DEF Heard
<1>9. Ended'
  <2>1. Spoke' = Spoke /\ Closed' = Closed
    BY <1>3 DEF Spoke, Closed
  <2> QED
    BY <1>2, <1>3, <1>7, <2>1 DEF WsIInv, Ended
<1> QED
  BY <1>4, <1>5, <1>6, <1>8, <1>9 DEF WsIInv

LEMMA ReaderKeeps ==
  ASSUME WsIInv, Reader
  PROVE  WsIInv'
<1>1. wire \in Seq(Frames) /\ closing \in {"no", "ordinary", "said"}
  BY DEF WsIInv, WsTypeOK
<1>2. ASSUME wire # <<>>
      PROVE  Tail(wire) \in Seq(Frames) /\ FinalsIn(Tail(wire)) <= FinalsIn(wire)
  <2>1. /\ Tail(wire) \in Seq(Frames)
        /\ FinalsIn(wire) = One(Head(wire)) + FinalsIn(Tail(wire))
    BY <1>1, <1>2, CountTail
  <2>2. FinalsIn(Tail(wire)) \in Nat /\ One(Head(wire)) \in Nat
    BY <2>1, CountIsNat DEF One
  <2> QED
    BY <2>1, <2>2
<1>3. FinalsIn(wire) <= FinalsIn(wire)
  BY <1>1, CountIsNat
<1>4. CASE ReadsFrame
  BY <1>4, FrameKeeps
<1>5. CASE ReadsClosing
  <2>1. <<>> \in Reasons
    BY DEF Reasons
  <2>2. /\ ReaderEnds(<<>>) /\ reader \in {"reading", "lastFinal"} /\ wire # <<>>
        /\ wire' = Tail(wire) /\ closing' = "said"
        /\ UNCHANGED <<stop, pcmOpen, taskVars, errorSeen, link, sent, asked>>
    BY <1>5 DEF ReadsClosing, Reads
  <2> QED
    BY <1>2, <2>1, <2>2, ReaderEndKeeps
<1>6. CASE ReadsClose
  <2> DEFINE f == Head(wire)
             ms == IF f = "ordinary" \/ errorSeen \/ reader = "lastFinal" THEN <<>> ELSE <<f>>
  <2>1. /\ ReaderEnds(ms) /\ reader \in {"reading", "lastFinal"} /\ wire # <<>>
        /\ wire' = Tail(wire) /\ f \in CloseFrames
        /\ closing' = IF f = "ordinary" THEN "ordinary" ELSE closing
        /\ UNCHANGED <<stop, pcmOpen, taskVars, errorSeen, link, sent, asked>>
    BY <1>6 DEF ReadsClose, Reads
  <2>2. ms \in Reasons
    BY <2>1 DEF Reasons, CloseFrames
  <2>3. ms # <<>> \/ closing' # "no" \/ errorSeen \/ reader = "lastFinal"
    BY <2>1
  <2>4. closing' \in {closing, "ordinary", "said"} /\ (closing # "no" => closing' # "no")
    BY <2>1
  <2> HIDE DEF ms, f
  <2> QED
    BY <1>2, <2>1, <2>2, <2>3, <2>4, ReaderEndKeeps
<1>7. CASE ReadError
  <2> DEFINE ms == IF reader = "lastFinal" THEN <<>> ELSE <<"readError">>
  <2>1. /\ ReaderEnds(ms) /\ reader \in {"reading", "lastFinal"}
        /\ UNCHANGED <<stop, pcmOpen, taskVars, errorSeen, closing, serverVars>>
    BY <1>7 DEF ReadError
  <2>2. ms \in Reasons /\ (ms # <<>> \/ reader = "lastFinal")
    BY DEF Reasons
  <2> HIDE DEF ms
  <2>3. UNCHANGED <<stop, pcmOpen, taskVars, errorSeen, link, sent, asked>>
        /\ wire' = wire /\ closing' = closing
    BY <2>1 DEF serverVars
  <2> QED
    BY <1>1, <1>3, <2>1, <2>2, <2>3, ReaderEndKeeps
<1>8. CASE GraceElapses
  <2>1. <<>> \in Reasons
    BY DEF Reasons
  <2>2. /\ ReaderEnds(<<>>) /\ reader = "lastFinal" /\ wire' = wire /\ closing' = closing
        /\ UNCHANGED <<stop, pcmOpen, taskVars, errorSeen, link, sent, asked>>
    BY <1>8 DEF GraceElapses, serverVars
  <2> QED
    BY <1>1, <1>3, <2>1, <2>2, ReaderEndKeeps
<1> QED
  BY <1>4, <1>5, <1>6, <1>7, <1>8 DEF Reader

-----------------------------------------------------------------------------
(* The main loop.                                                           *)

SpokenKinds == {"error", "closeError", "readError", "lost", "failed", "incomplete"}
Kinds == SpokenKinds \cup {"final", "last"}

(* What a queued message tells the window.                                  *)
LEMMA EventOfIs ==
  ASSUME NEW m \in FromReader
  PROVE  /\ EventOf(m) \subseteq Kinds
         /\ m \in {"last", "error"} => m \in EventOf(m)
         /\ SpeaksForLoss(m) => EventOf(m) \cap SpokenKinds # {}
BY DEF FromReader, EventOf, Kinds, SpokenKinds, SpeaksForLoss

(* Events only grow, and what was told stays told.                          *)
LEMMA EventsGrow ==
  ASSUME events \subseteq events', closing' = closing
  PROVE  /\ Spoke => Spoke' /\ Answered'
         /\ Answered => Answered'
BY DEF Spoke, Answered

(* A message taken from the queue is forwarded; at `closed` the loop ends.  *)
LEMMA ReceiveKeeps ==
  ASSUME WsIInv, pc \in {"live", "reading", "grace"}, evt # <<>>, evt' = Tail(evt),
         IF Head(evt) = "closed"
         THEN LoopEnds(Tail(evt)) /\ UNCHANGED <<events, finals>>
         ELSE Forwards(Head(evt)) /\ UNCHANGED <<pc, owed>>,
         sawError' \in BOOLEAN, sawError' => sawError \/ SpeaksForLoss(Head(evt)),
         draining' = draining, TaskUnchanged
  PROVE  WsIInv'
<1> DEFINE m == Head(evt)
<1>1. /\ evt \in Seq(FromReader) /\ wire \in Seq(Frames)
      /\ LastOnly(evt, "closed")
  BY DEF WsIInv, WsTypeOK, ClosedIsLast
<1>2. /\ evt' \in Seq(FromReader) /\ m \in FromReader
      /\ Said(evt) = Said(evt') \cup {m} /\ LastOnly(evt', "closed")
      /\ FinalsIn(evt) = One(m) + FinalsIn(evt')
      /\ m = "closed" => evt' = <<>> /\ Said(evt) = {"closed"}
  BY <1>1, SaidTail, CountTail
<1>3. /\ FinalsIn(evt) \in Nat /\ FinalsIn(evt') \in Nat /\ FinalsIn(wire) \in Nat
      /\ One(m) \in Nat
  BY <1>1, <1>2, CountIsNat DEF One
<1>4. finals \in Nat /\ owed \in Nat /\ sent \in Nat
  BY FramesAssumption DEF WsIInv, WsTypeOK
<1>5. finals + FinalsIn(evt) + FinalsIn(wire) <= sent /\ FinalsIn(evt) = One(m) + FinalsIn(evt')
  BY <1>2 DEF WsIInv, Counted
<1>6. /\ UNCHANGED <<stop, pcmOpen, reader, errorSeen, closing, link, wire, sent, asked>>
  BY DEF TaskUnchanged, readerVars, serverVars
<1>7. SpeaksForLoss("closed") = FALSE
  BY DEF SpeaksForLoss
<1> HIDE DEF m
<1>8. ClosedIsLast'
  BY <1>2, <1>6 DEF WsIInv, ClosedIsLast
<1>9. CASE m = "closed"
  <2>1. /\ pc' = "leftovers" /\ events' = events /\ finals' = finals
        /\ owed' = finals + FinalsIn(evt')
    BY <1>9 DEF m, LoopEnds
  <2>2. owed' \in Nat /\ owed' <= sent
    <3>1. owed' = finals + FinalsIn(evt')
      BY <2>1
    <3>2. finals + FinalsIn(evt') <= sent
      BY <1>3, <1>4, <1>5
    <3> QED
      BY <1>3, <1>4, <3>1, <3>2
  <2>3. Answered
    <3>1. Said(evt) \cap Words = {}
      BY <1>2, <1>9 DEF Words
    <3> QED
      BY <1>2, <1>9, <3>1 DEF WsIInv, Heard
  <2>4. WsTypeOK'
    BY <1>2, <1>4, <1>6, <2>1, <2>2 DEF WsIInv, WsTypeOK
  <2>5. Counted'
    <3>1. finals + FinalsIn(evt') + FinalsIn(wire) <= sent
      BY <1>3, <1>4, <1>5
    <3> QED
      BY <1>6, <2>1, <3>1 DEF Counted
  <2>6. Heard'
    <3>1. Said(evt') = {}
      BY <1>2, <1>9 DEF Said
    <3>2. reader' # "lastFinal"
      BY <1>2, <1>6, <1>9 DEF WsIInv, ClosedIsLast
    <3>3. errorSeen' => "error" \in events'
      BY <1>2, <1>6, <1>9, <2>1 DEF WsIInv, Heard
    <3> QED
      BY <3>1, <3>2, <3>3 DEF Heard
  <2>7. Ended'
    <3>1. Answered' = Answered /\ Spoke' = Spoke
      BY <1>6, <2>1 DEF Answered, Spoke
    <3>2. sawError' => Spoke
      BY <1>7, <1>9 DEF m, WsIInv, Ended
    <3>3. ~Closed'
      BY <2>1 DEF WsIInv, Ended, Closed
    <3>4. owed' <= finals' + FinalsIn(evt')
      BY <1>3, <1>4, <2>1
    <3> QED
      BY <2>1, <2>3, <3>1, <3>2, <3>3, <3>4 DEF Ended
  <2> QED
    BY <1>8, <2>4, <2>5, <2>6, <2>7 DEF WsIInv
<1>10. CASE m # "closed"
  <2>1. /\ pc' = pc /\ owed' = owed /\ events' = events \cup EventOf(m)
        /\ finals' = finals + FinalsIn(<<m>>)
    BY <1>10 DEF m, Forwards
  <2>2. finals' = finals + One(m)
    BY <2>1, CountOne
  <2>3. finals + One(m) + FinalsIn(evt') + FinalsIn(wire) <= sent
    BY <1>3, <1>4, <1>5
  <2>4. finals' \in 0..sent
    <3>1. /\ One(m) \in Nat /\ FinalsIn(evt') + FinalsIn(wire) \in Nat
          /\ finals \in Nat /\ sent \in Nat
      BY <1>3, <1>4
    <3>2. finals + One(m) <= sent /\ finals + One(m) \in Nat
      BY <1>3, <2>3, <3>1
    <3> QED
      BY <2>2, <3>1, <3>2
  <2>5. /\ EventOf(m) \subseteq Kinds
        /\ m \in {"last", "error"} => m \in events'
        /\ SpeaksForLoss(m) => events' \cap SpokenKinds # {}
    BY <1>2, <2>1, EventOfIs
  <2>6. /\ Spoke => Spoke' /\ Answered'
        /\ Answered => Answered'
    BY <1>6, <2>1, EventsGrow
  <2>7. SpeaksForLoss(m) => Spoke'
    BY <2>5 DEF Spoke, SpokenKinds
  <2>8. WsTypeOK'
    <3>1. events' \subseteq {"final", "last", "error", "closeError", "readError",
                             "lost", "failed", "incomplete", "closed"}
      BY <2>1, <2>5 DEF WsIInv, WsTypeOK, Kinds, SpokenKinds
    <3> QED
      BY <1>2, <1>6, <2>1, <2>4, <3>1 DEF WsIInv, WsTypeOK
  <2>9. Counted'
    <3>1. finals' + FinalsIn(evt') + FinalsIn(wire) <= sent
      BY <2>2, <2>3
    <3> QED
      BY <1>6, <2>1, <3>1 DEF Counted
  <2>10. Heard'
    <3>1. reader = "lastFinal" => "last" \in events' \cup Said(evt')
      BY <1>2, <2>1, <2>5 DEF WsIInv, Heard
    <3>2. errorSeen => "error" \in events' \cup Said(evt')
      BY <1>2, <2>1, <2>5 DEF WsIInv, Heard
    <3>3. m \in Words => Answered'
      BY <2>5, <2>7 DEF Words, SpeaksForLoss, Answered
    <3>4. "closed" \in Said(evt') => Answered' \/ Said(evt') \cap Words # {}
      BY <1>2, <2>6, <3>3 DEF WsIInv, Heard
    <3> QED
      BY <1>6, <3>1, <3>2, <3>4 DEF Heard
  <2>11. Ended'
    <3>1. sawError' => Spoke'
      BY <2>6, <2>7 DEF m, WsIInv, Ended
    <3>2. ~Closed'
      BY <2>1, <2>5 DEF WsIInv, Ended, Closed, Kinds, SpokenKinds
    <3> QED
      BY <2>1, <3>1, <3>2 DEF Ended
  <2> QED
    BY <1>8, <2>8, <2>9, <2>10, <2>11 DEF WsIInv
<1> QED
  BY <1>9, <1>10

(* Leaving the loops otherwise: something was said.                         *)
LEMMA LeavingKeeps ==
  ASSUME WsIInv, pc \in {"live", "reading", "grace"}, LoopEnds(evt), evt' = evt,
         events' = events \/ events' = events \cup {"lost"}
                          \/ events' = events \cup {"incomplete"},
         Spoke', UNCHANGED <<draining, sawError, finals>>, TaskUnchanged
  PROVE  WsIInv'
<1>1. UNCHANGED <<stop, pcmOpen, reader, errorSeen, closing, link, wire, sent, asked>>
  BY DEF TaskUnchanged, readerVars, serverVars
<1>2. pc' = "leftovers" /\ owed' = finals + FinalsIn(evt)
  BY DEF LoopEnds
<1>3. /\ FinalsIn(evt) \in Nat /\ FinalsIn(wire) \in Nat
      /\ finals \in Nat /\ sent \in Nat
  BY CountIsNat, FramesAssumption DEF WsIInv, WsTypeOK
<1>4. owed' \in 0..sent
  BY <1>2, <1>3 DEF WsIInv, Counted
<1>5. WsTypeOK'
  <2>1. events' \subseteq {"final", "last", "error", "closeError", "readError",
                           "lost", "failed", "incomplete", "closed"}
    BY DEF WsIInv, WsTypeOK
  <2>2. finals' \in 0..sent'
    BY <1>1 DEF WsIInv, WsTypeOK
  <2> QED
    BY <1>1, <1>2, <1>4, <2>1, <2>2 DEF WsIInv, WsTypeOK
<1>6. (Counted /\ ClosedIsLast)'
  BY <1>1, <1>2 DEF WsIInv, Counted, ClosedIsLast
<1>7. Answered'
  BY DEF Answered
<1>8. Heard'
  BY <1>1, <1>7 DEF WsIInv, Heard
<1>9. Ended'
  <2>1. ~Closed'
    BY DEF WsIInv, Ended, Closed
  <2>2. owed' <= finals' + FinalsIn(evt')
    BY <1>2, <1>3
  <2> QED
    BY <1>2, <1>7, <2>1, <2>2 DEF Ended
<1> QED
  BY <1>5, <1>6, <1>8, <1>9 DEF WsIInv

(* The steps that only move the loop, or open and close it.                 *)
LEMMA MovesKeep ==
  ASSUME WsIInv, \/ LiveStops \/ LiveWriteFails
               \/ \E inTime \in BOOLEAN : DrainWrites(inTime)
  PROVE  WsIInv'
<1> DEFINE Moved ==
         /\ pc \in {"live", "writing"} /\ pc' \in {"writing", "grace", "reading"}
         /\ draining' \in BOOLEAN /\ asked' \in BOOLEAN
         /\ UNCHANGED <<sawError, events, finals, owed, evt, readerVars, link, wire, sent>>
         /\ UNCHANGED <<stop, pcmOpen>>
<1>1. Moved
  <2>1. CASE LiveStops
    BY <2>1 DEF LiveStops, TaskUnchanged, serverVars, WsIInv, WsTypeOK
  <2>2. CASE LiveWriteFails
    BY <2>2 DEF LiveWriteFails, TaskUnchanged, serverVars, WsIInv, WsTypeOK
  <2>3. ASSUME NEW inTime \in BOOLEAN, DrainWrites(inTime) PROVE Moved
    BY <2>3 DEF DrainWrites, WsIInv, WsTypeOK
  <2> QED
    BY <2>1, <2>2, <2>3
<1>2. WsTypeOK'
  BY <1>1 DEF WsIInv, WsTypeOK, readerVars
<1>3. (Counted /\ ClosedIsLast /\ Heard)'
  BY <1>1 DEF WsIInv, Counted, ClosedIsLast, Heard, Answered, Spoke, readerVars
<1>4. Ended'
  BY <1>1 DEF WsIInv, Ended, Spoke, Closed
<1> QED
  BY <1>2, <1>3, <1>4 DEF WsIInv

LEMMA SetupKeeps ==
  ASSUME WsIInv, WsSetupFails \/ WsConnects
  PROVE  WsIInv'
<1>1. /\ pc = "connecting" /\ reader = "off" /\ owed = 0 /\ finals \in Nat
      /\ errorSeen \in BOOLEAN /\ stop \in BOOLEAN
      /\ UNCHANGED <<stop, pcmOpen, sawError, finals, owed, evt, errorSeen, closing,
                     link, wire, sent, asked>>
  BY FramesAssumption DEF WsIInv, WsTypeOK, Counted, WsSetupFails, WsConnects, TaskUnchanged,
     readerVars, serverVars
<1>2. "closed" \notin Said(evt)
  BY <1>1 DEF WsIInv, ClosedIsLast
<1>3. CASE WsSetupFails
  <2>1. /\ pc' = "done" /\ events' = events \cup {"failed", "closed"} /\ reader' = reader
        /\ draining' = draining
    BY <1>3 DEF WsSetupFails, TaskUnchanged, readerVars
  <2>2. WsTypeOK'
    BY <1>1, <2>1 DEF WsIInv, WsTypeOK
  <2>3. Spoke' /\ Answered'
    BY <2>1 DEF Spoke, Answered
  <2>4. (Counted /\ ClosedIsLast)'
    BY <1>1, <2>1 DEF WsIInv, Counted, ClosedIsLast
  <2>5. (Heard /\ Ended)'
    BY <1>1, <2>1, <2>3 DEF WsIInv, Heard, Ended
  <2> QED
    BY <2>2, <2>4, <2>5 DEF WsIInv
<1>4. CASE WsConnects
  <2>1. /\ pc' \in {"writing", "live"} /\ draining' = stop /\ reader' = "reading"
        /\ events' = events
    BY <1>4 DEF WsConnects
  <2>2. WsTypeOK'
    BY <1>1, <2>1 DEF WsIInv, WsTypeOK
  <2>3. (Counted /\ ClosedIsLast)'
    BY <1>1, <1>2, <2>1 DEF WsIInv, Counted, ClosedIsLast
  <2>4. (Heard /\ Ended)'
    BY <1>1, <1>2, <2>1 DEF WsIInv, Heard, Ended, Closed, Spoke
  <2> QED
    BY <2>2, <2>3, <2>4 DEF WsIInv
<1> QED
  BY <1>3, <1>4

(* What was queued when the loop ended, and since, is forwarded.            *)
LEMMA LeftoversKeep ==
  ASSUME WsIInv, Leftovers
  PROVE  WsIInv'
<1>1. /\ pc = "leftovers" /\ pc' = "settling" /\ evt' = <<>>
      /\ finals' = finals + FinalsIn(evt)
      /\ events' = events \cup UNION {EventOf(evt[i]) : i \in DOMAIN evt}
      /\ UNCHANGED <<draining, sawError, owed, stop, pcmOpen, reader, errorSeen, closing,
                     link, wire, sent, asked>>
  BY DEF Leftovers, TaskUnchanged, readerVars, serverVars
<1>2. /\ evt \in Seq(FromReader) /\ FinalsIn(evt) \in Nat /\ FinalsIn(wire) \in Nat
      /\ finals \in Nat /\ sent \in Nat /\ owed \in Nat
  BY CountIsNat, FramesAssumption DEF WsIInv, WsTypeOK
<1>3. \A i \in DOMAIN evt : evt[i] \in FromReader
  BY <1>2, ElementOfSeq
<1>4. /\ events' \subseteq events \cup Kinds
      /\ \A m \in Said(evt) : m \in {"last", "error"} => m \in events'
  <2>1. \A i \in DOMAIN evt : EventOf(evt[i]) \subseteq events'
    BY <1>1
  <2>2. \A i \in DOMAIN evt : EventOf(evt[i]) \subseteq Kinds
    BY <1>3, EventOfIs
  <2>3. \A m \in Said(evt) : m \in {"last", "error"} => m \in events'
    BY <1>3, <2>1, EventOfIs DEF Said
  <2> QED
    BY <1>1, <2>2, <2>3
<1>5. /\ Spoke => Spoke' /\ Answered'
      /\ Answered'
  BY <1>1, EventsGrow DEF WsIInv, Ended
<1>6. finals + FinalsIn(evt) + FinalsIn(wire) <= sent
  BY DEF WsIInv, Counted
<1>7. WsTypeOK'
  <2>1. finals' \in 0..sent
    BY <1>1, <1>2, <1>6
  <2>2. events' \subseteq {"final", "last", "error", "closeError", "readError",
                           "lost", "failed", "incomplete", "closed"}
    BY <1>4 DEF WsIInv, WsTypeOK, Kinds, SpokenKinds
  <2>3. evt' \in Seq(FromReader)
    BY <1>1
  <2>4. /\ pc' = "settling"
        /\ UNCHANGED <<draining, sawError, owed, stop, pcmOpen, reader, errorSeen, closing,
                       link, wire, sent, asked>>
    BY <1>1
  <2> QED
    BY <2>1, <2>2, <2>3, <2>4 DEF WsIInv, WsTypeOK
<1>8. Counted'
  <2>1. finals' + FinalsIn(evt') + FinalsIn(wire) <= sent
    BY <1>1, <1>2, <1>6, CountEmpty
  <2> QED
    BY <1>1, <2>1 DEF Counted
<1>9. Said(evt') = {} /\ LastOnly(evt', "closed")
  BY <1>1 DEF Said, LastOnly
<1>10. (ClosedIsLast /\ Heard)'
  BY <1>1, <1>4, <1>9 DEF WsIInv, ClosedIsLast, Heard
<1>11. Ended'
  <2>1. ~Closed'
    BY <1>1, <1>4 DEF WsIInv, Ended, Closed, Kinds, SpokenKinds
  <2>2. owed' <= finals'
    BY <1>1, <1>2 DEF WsIInv, Ended
  <2> QED
    BY <1>1, <1>5, <2>1, <2>2 DEF WsIInv, Ended
<1> QED
  BY <1>7, <1>8, <1>10, <1>11 DEF WsIInv

LEMMA EndsKeeps ==
  ASSUME WsIInv, Ends
  PROVE  WsIInv'
<1>1. /\ pc = "settling" /\ pc' = "done" /\ reader' = "ended"
      /\ events' = events \cup {"closed"}
      /\ UNCHANGED <<stop, pcmOpen, draining, sawError, finals, owed, evt, errorSeen,
                     closing, link, wire, sent, asked>>
  BY DEF Ends, serverVars
<1>2. /\ Spoke => Spoke' /\ Answered'
      /\ Answered'
  BY <1>1, EventsGrow DEF WsIInv, Ended
<1>3. WsTypeOK'
  BY <1>1 DEF WsIInv, WsTypeOK
<1>4. (Counted /\ ClosedIsLast)'
  BY <1>1 DEF WsIInv, Counted, ClosedIsLast
<1>5. (Heard /\ Ended)'
  BY <1>1, <1>2 DEF WsIInv, Heard, Ended
<1> QED
  BY <1>3, <1>4, <1>5 DEF WsIInv

LEMMA WsTaskKeeps ==
  ASSUME WsIInv, Task
  PROVE  WsIInv'
<1>1. sawError \in BOOLEAN /\ (sawError => Spoke)
  BY DEF WsIInv, WsTypeOK, Ended
<1>2. ASSUME LiveReceives \/ DrainReceives PROVE WsIInv'
  BY <1>1, <1>2, ReceiveKeeps DEF LiveReceives, DrainReceives
<1>3. ASSUME GraceReceives PROVE WsIInv'
  <2>1. sawError' = (sawError \/ SpeaksForLoss(Head(evt)))
    BY <1>3 DEF GraceReceives
  <2>2. sawError' \in BOOLEAN /\ (sawError' => sawError \/ SpeaksForLoss(Head(evt)))
    BY <1>1, <2>1 DEF SpeaksForLoss
  <2> QED
    BY <1>3, <2>2, ReceiveKeeps DEF GraceReceives
<1>4. ASSUME LiveWriteStalls PROVE WsIInv'
  <2>1. Spoke'
    BY <1>4 DEF LiveWriteStalls, Spoke
  <2> QED
    BY <1>4, <2>1, LeavingKeeps DEF LiveWriteStalls
<1>5. ASSUME DrainIdles PROVE WsIInv'
  <2>1. Spoke'
    BY <1>5 DEF DrainIdles, Spoke
  <2> QED
    BY <1>5, <2>1, LeavingKeeps DEF DrainIdles
<1>6. ASSUME GraceEnds PROVE WsIInv'
  <2>1. Spoke'
    BY <1>1, <1>6 DEF GraceEnds, Spoke
  <2>2. /\ pc = "grace" /\ LoopEnds(evt) /\ evt' = evt
        /\ UNCHANGED <<draining, sawError, finals>> /\ TaskUnchanged
    BY <1>6 DEF GraceEnds
  <2>3. events' = events \/ events' = events \cup {"lost"}
    BY <1>6 DEF GraceEnds
  <2> QED
    BY <2>1, <2>2, <2>3, LeavingKeeps
<1> QED
  BY <1>2, <1>3, <1>4, <1>5, <1>6, MovesKeep, SetupKeeps, LeftoversKeep, EndsKeeps DEF Task

LEMMA INext == WsIInv /\ [WsNext]_wsVars => WsIInv'
<1> SUFFICES ASSUME WsIInv, [WsNext]_wsVars PROVE WsIInv'
  OBVIOUS
<1>1. CASE UNCHANGED wsVars
  <2>1. WsTypeOK'
    BY <1>1 DEF wsVars, WsIInv, WsTypeOK, taskVars, readerVars, serverVars
  <2>2. (Counted /\ ClosedIsLast /\ Heard /\ Ended)'
    BY <1>1 DEF wsVars, WsIInv, Counted, ClosedIsLast, Heard, Ended, Closed, Answered, Spoke,
       taskVars, readerVars, serverVars
  <2> QED
    BY <2>1, <2>2 DEF WsIInv
<1>2. CASE WsNext
  BY <1>2, OutsideKeeps, ServerKeeps, ReaderKeeps, WsTaskKeeps DEF WsNext
<1> QED
  BY <1>1, <1>2

-----------------------------------------------------------------------------
(* The types; and no final is forwarded twice, nor more of them than sent.  *)
THEOREM WsTypeCorrect == WsSpec => []WsTypeOK
<1>1. WsIInv => WsTypeOK
  BY DEF WsIInv
<1> QED
  BY <1>1, WsIInit, INext, PTL DEF WsSpec

(* However the link, the server and the stop interleave, the finals the     *)
(* reader had queued are in the window before `closed`, and a session whose  *)
(* end the server did not announce has said why.                            *)
THEOREM LossIsSpoken == WsSpec => []NothingLostSilently
<1>1. WsIInv => NothingLostSilently
  <2> SUFFICES ASSUME WsIInv, Closed PROVE finals >= owed /\ Answered
    BY DEF NothingLostSilently, Answered
  <2>1. pc = "done"
    BY DEF WsIInv, Ended
  <2>2. owed <= finals /\ Answered
    BY <2>1 DEF WsIInv, Ended
  <2>3. finals \in Int /\ owed \in Int
    BY FramesAssumption DEF WsIInv, WsTypeOK
  <2> QED
    BY <2>2, <2>3
<1> QED
  BY <1>1, WsIInit, INext, PTL DEF WsSpec

(***************************************************************************)
(* The clips.                                                              *)
(***************************************************************************)
-----------------------------------------------------------------------------
(* The inductive invariant.                                                 *)

(* What was cut and what is buffered are the units captured, in order.      *)
Audio ==
  /\ taken = Len(gone) /\ Captured <= MaxAudio
  /\ \A i \in 1..Len(gone) : gone[i] = i
  /\ \A i \in 1..Len(saved) : saved[i] = taken + i

(* A mark is where its utterance's audio ends, and stays until it is        *)
(* resolved.                                                                *)
Marked ==
  /\ resolved <= decoded
  /\ \A m \in marks : m.n <= decoded /\ m.at = ends[m.n]
  /\ \A n \in (resolved + 1)..decoded : \E m \in marks : m.n = n
  /\ \A n \in 1..decoded : ends[n] \in 0..Captured

(* A clip ends with its utterance, on its way to the disk as on it.         *)
ClipsEnd ==
  /\ \A i \in 1..Len(queue) : queue[i].pcm # <<>> /\ queue[i].clip # 0 =>
       Last(queue[i].pcm) = ends[queue[i].clip]
  /\ \A n \in Utterances : wavs[n] # <<>> => Last(wavs[n]) = ends[n]

(* The clip each job finds awaiting its text, and the one awaiting it        *)
(* behind them all.                                                         *)
Clip(i) == IF i = 0 THEN pending ELSE queue[i].clip
Awaits == Clip(Len(queue))
WordsOf(n) == [i \in 1..spoken[n] |-> n]

(* Clips are of utterances resolved, and a job does something.              *)
Past ==
  /\ \A i \in 0..Len(queue) : Clip(i) <= resolved
  /\ \A i \in 1..Len(queue) : queue[i].has \/ queue[i].clip # 0
  /\ \A n \in Utterances : wavs[n] # <<>> => n <= resolved
  /\ latest <= resolved

(* Each job brings the text of the clip it finds; the last clip's text is   *)
(* what the document gained since.                                          *)
TextFollows ==
  /\ \A i \in 1..Len(queue) : Clip(i - 1) # 0 =>
       queue[i].has /\ queue[i].text = WordsOf(Clip(i - 1))
  /\ Awaits # 0 => pendingTxt # None /\ latest = Awaits /\ Text = WordsOf(Awaits)
  /\ ~open => NoText

(* Held words can still come only for a clip whose text is not queued.      *)
HeldIsOpen ==
  holds =>
    /\ latest # 0
    /\ \A i \in 1..Len(queue) : Clip(i - 1) # latest
    /\ wavs[latest] # <<>> => pending = latest

(* What is written and does not await its text has it.                      *)
Settled ==
  /\ pending # 0 => wavs[pending] # <<>>
  /\ \A n \in Utterances :
       n # pending => txts[n] = IF wavs[n] = <<>> THEN <<>> ELSE WordsOf(n)

CutIInv ==
  /\ CutType
  /\ Audio
  /\ Marked
  /\ ClipsEnd
  /\ Past
  /\ TextFollows
  /\ HeldIsOpen
  /\ Settled

-----------------------------------------------------------------------------
(* Sequences: what a cut leaves of one, and a suffix that grows.            *)

LEMMA Prefix ==
  ASSUME NEW X, NEW s \in Seq(X), NEW k \in 0..Len(s)
  PROVE  /\ SubSeq(s, 1, k) \in Seq(X) /\ Len(SubSeq(s, 1, k)) = k
         /\ \A i \in 1..k : SubSeq(s, 1, k)[i] = s[i]
<1>1. Len(s) \in Nat /\ \A i \in 1..Len(s) : s[i] \in X
  BY LenProperties, ElementOfSeq
<1>2. 1 \in Int /\ k \in Int /\ \A i \in 1..k : s[i] \in X
  BY <1>1
<1>3. /\ SubSeq(s, 1, k) \in Seq(X)
      /\ Len(SubSeq(s, 1, k)) = (IF 1 <= k THEN k - 1 + 1 ELSE 0)
      /\ \A i \in 1..(k - 1 + 1) : SubSeq(s, 1, k)[i] = s[1 + i - 1]
  BY <1>2, SubSeqProperties
<1> DEFINE t == SubSeq(s, 1, k)
<1>4. /\ t \in Seq(X) /\ Len(t) = (IF 1 <= k THEN k - 1 + 1 ELSE 0)
      /\ \A i \in 1..(k - 1 + 1) : t[i] = s[1 + i - 1]
  BY <1>3
<1> HIDE DEF t
<1>5. Len(t) = k /\ \A i \in 1..k : i \in 1..(k - 1 + 1) /\ 1 + i - 1 = i
  BY <1>1, <1>4
<1>6. \A i \in 1..k : t[i] = s[i]
  BY <1>4, <1>5
<1> QED
  BY <1>4, <1>5, <1>6 DEF t

LEMMA Suffix ==
  ASSUME NEW X, NEW s \in Seq(X), NEW k \in 0..Len(s)
  PROVE  /\ SubSeq(s, k + 1, Len(s)) \in Seq(X)
         /\ Len(SubSeq(s, k + 1, Len(s))) = Len(s) - k
         /\ \A i \in 1..(Len(s) - k) : SubSeq(s, k + 1, Len(s))[i] = s[k + i]
<1>1. Len(s) \in Nat /\ \A i \in 1..Len(s) : s[i] \in X
  BY LenProperties, ElementOfSeq
<1> DEFINE a == k + 1
           b == Len(s)
           t == SubSeq(s, a, b)
<1>2. a \in Int /\ b \in Int /\ \A i \in a..b : s[i] \in X
  BY <1>1
<1>3. /\ t \in Seq(X) /\ Len(t) = (IF a <= b THEN b - a + 1 ELSE 0)
      /\ \A i \in 1..(b - a + 1) : t[i] = s[a + i - 1]
  <2> HIDE DEF a, b
  <2> QED
    BY <1>2, SubSeqProperties
<1> HIDE DEF t
<1>4. Len(t) = Len(s) - k
  BY <1>1, <1>3
<1>5. \A i \in 1..(Len(s) - k) : i \in 1..(b - a + 1) /\ a + i - 1 = k + i
  BY <1>1
<1>6. \A i \in 1..(Len(s) - k) : t[i] = s[k + i]
  BY <1>3, <1>5
<1> QED
  BY <1>3, <1>4, <1>6 DEF t

LEMMA SuffixGrows ==
  ASSUME NEW X, NEW s \in Seq(X), NEW x \in X, NEW k \in 0..Len(s)
  PROVE  SubSeq(Append(s, x), k + 1, Len(Append(s, x)))
           = Append(SubSeq(s, k + 1, Len(s)), x)
<1> DEFINE r == Append(s, x)
           t == SubSeq(s, k + 1, Len(s))
           u == SubSeq(r, k + 1, Len(r))
           v == Append(t, x)
<1>1. /\ r \in Seq(X) /\ Len(r) = Len(s) + 1 /\ Len(s) \in Nat
      /\ r[Len(s) + 1] = x /\ \A i \in 1..Len(s) : r[i] = s[i]
  BY AppendProperties, LenProperties
<1>2. /\ t \in Seq(X) /\ Len(t) = Len(s) - k
      /\ \A i \in 1..(Len(s) - k) : t[i] = s[k + i]
  BY Suffix
<1> HIDE DEF t, r
<1>3. k \in 0..Len(r)
  BY <1>1
<1>4. /\ u \in Seq(X) /\ Len(u) = Len(r) - k
      /\ \A i \in 1..(Len(r) - k) : u[i] = r[k + i]
  BY <1>1, <1>3, Suffix
<1>5. /\ v \in Seq(X) /\ Len(v) = Len(t) + 1
      /\ v[Len(t) + 1] = x /\ \A i \in 1..Len(t) : v[i] = t[i]
  BY <1>2, AppendProperties
<1> HIDE DEF u, v
<1>6. Len(u) = Len(v)
  BY <1>1, <1>2, <1>4, <1>5
<1>7. ASSUME NEW i \in 1..Len(u) PROVE u[i] = v[i]
  <2>1. i \in 1..(Len(r) - k) /\ u[i] = r[k + i]
    BY <1>4
  <2>2. CASE i = Len(t) + 1
    <3>1. k + i = Len(s) + 1
      BY <1>1, <1>2, <2>2
    <3> QED
      BY <1>1, <1>5, <2>1, <2>2, <3>1
  <2>3. CASE i # Len(t) + 1
    <3>1. Len(u) = Len(t) + 1 /\ Len(t) \in Nat /\ Len(t) = Len(s) - k
      BY <1>2, <1>5, <1>6, LenProperties
    <3>2. i \in 1..Len(t)
      BY <2>3, <3>1
    <3>3. k + i \in 1..Len(s) /\ i \in 1..(Len(s) - k)
      BY <1>1, <3>1, <3>2
    <3> QED
      BY <1>1, <1>2, <1>5, <2>1, <3>2, <3>3
  <2> QED
    BY <2>2, <2>3
<1> QED
  BY <1>4, <1>5, <1>6, <1>7, SeqEqual DEF t, u, v, r

-----------------------------------------------------------------------------
(* Cutting.                                                                 *)

LEMMA CutIInit == CutInit => CutIInv
<1> SUFFICES ASSUME CutInit PROVE CutIInv
  OBVIOUS
<1>1. MaxAudio \in Nat /\ MaxUtter \in Nat
  BY CutterAssumption
<1>2. CutType
  <2>1. /\ <<>> \in Seq(Units) /\ <<>> \in Texts /\ <<>> \in Seq(Job)
        /\ 0 \in 0..MaxAudio /\ 0 \in 0..MaxUtter
    BY <1>1 DEF Texts
  <2> QED
    BY <2>1 DEF CutInit, CutType
<1>3. Len(<<>>) = 0 /\ Len(queue) = 0 /\ Len(saved) = 0 /\ Len(gone) = 0
  BY DEF CutInit
<1>4. Audio /\ Marked
  BY <1>1, <1>3 DEF CutInit, Audio, Marked, Captured
<1>5. ClipsEnd /\ Past
  BY <1>3 DEF CutInit, ClipsEnd, Past, Clip
<1>6. TextFollows /\ HeldIsOpen /\ Settled
  BY <1>3 DEF CutInit, TextFollows, HeldIsOpen, Settled, Clip, Awaits
<1> QED
  BY <1>2, <1>4, <1>5, <1>6 DEF CutIInv

(* The first k units leave the buffer, in order.                            *)
LEMMA CutKeeps ==
  ASSUME CutType, Audio, NEW k \in 0..Len(saved), TakesUnits(k)
  PROVE  /\ saved' \in Seq(Units) /\ gone' \in Seq(Units) /\ taken' \in 0..MaxAudio
         /\ Audio' /\ Captured' = Captured
<1> DEFINE p == SubSeq(saved, 1, k)
           r == SubSeq(saved, k + 1, Len(saved))
<1>1. /\ saved \in Seq(Units) /\ gone \in Seq(Units)
      /\ Len(saved) \in Nat /\ Len(gone) \in Nat /\ k \in Nat /\ MaxAudio \in Nat
  BY CutterAssumption, LenProperties DEF CutType
<1>2. (IF k > Len(saved) THEN Len(saved) ELSE k) = k
  BY <1>1
<1>3. saved' = r /\ taken' = taken + k /\ gone' = gone \o p
  BY <1>2 DEF TakesUnits
<1>4. p \in Seq(Units) /\ Len(p) = k /\ \A i \in 1..k : p[i] = saved[i]
  BY <1>1, Prefix
<1>5. /\ r \in Seq(Units) /\ Len(r) = Len(saved) - k
      /\ \A i \in 1..(Len(saved) - k) : r[i] = saved[k + i]
  BY <1>1, Suffix
<1> HIDE DEF p, r
<1>6. /\ gone' \in Seq(Units) /\ Len(gone') = Len(gone) + k
      /\ \A i \in 1..(Len(gone) + k) : gone'[i] = IF i <= Len(gone) THEN gone[i]
                                                 ELSE p[i - Len(gone)]
  <2>1. /\ gone \o p \in Seq(Units) /\ Len(gone \o p) = Len(gone) + Len(p)
        /\ \A i \in 1 .. Len(gone) + Len(p) :
             (gone \o p)[i] = IF i <= Len(gone) THEN gone[i] ELSE p[i - Len(gone)]
    BY <1>1, <1>4, ConcatProperties
  <2> QED
    BY <1>3, <1>4, <2>1
<1>7. /\ taken = Len(gone) /\ Len(gone) + Len(saved) <= MaxAudio
      /\ \A i \in 1..Len(gone) : gone[i] = i
      /\ \A i \in 1..Len(saved) : saved[i] = taken + i
  BY DEF Audio, Captured
<1>8. /\ taken' = Len(gone') /\ Len(gone') + Len(saved') = Len(gone) + Len(saved)
      /\ taken' \in 0..MaxAudio
  BY <1>1, <1>3, <1>5, <1>6, <1>7
<1>9. ASSUME NEW i \in 1..Len(gone') PROVE gone'[i] = i
  <2>1. CASE i <= Len(gone)
    BY <1>1, <1>6, <1>7, <2>1
  <2>2. CASE ~(i <= Len(gone))
    <3>1. i - Len(gone) \in 1..k /\ i - Len(gone) \in 1..Len(saved)
      BY <1>1, <1>6, <2>2
    <3>2. gone'[i] = saved[i - Len(gone)]
      BY <1>4, <1>6, <2>2, <3>1
    <3> DEFINE j == i - Len(gone)
    <3>3. j \in 1..Len(saved) /\ taken + j = i
      BY <1>1, <1>6, <1>7, <3>1
    <3> HIDE DEF j
    <3>4. saved[j] = taken + j
      BY <1>7, <3>3
    <3> QED
      BY <3>2, <3>3, <3>4 DEF j
  <2> QED
    BY <2>1, <2>2
<1>10. ASSUME NEW i \in 1..Len(saved') PROVE saved'[i] = taken' + i
  <2>1. i \in 1..(Len(saved) - k) /\ k + i \in 1..Len(saved)
    BY <1>1, <1>3, <1>5
  <2> DEFINE j == k + i
  <2>2. saved'[i] = saved[j]
    BY <1>3, <1>5, <2>1
  <2>3. j \in 1..Len(saved) /\ taken + j = taken' + i
    BY <1>1, <1>3, <1>7, <2>1
  <2> HIDE DEF j
  <2>4. saved[j] = taken + j
    BY <1>7, <2>3
  <2> QED
    BY <2>2, <2>3, <2>4
<1>11. Captured' = Captured /\ Captured' <= MaxAudio
  BY <1>7, <1>8 DEF Captured
<1>12. Audio'
  BY <1>8, <1>9, <1>10, <1>11 DEF Audio
<1> QED
  BY <1>3, <1>5, <1>6, <1>8, <1>11, <1>12

(* An utterance's share ends where its audio does.                          *)
LEMMA ShareEnds ==
  ASSUME CutType, Audio, Marked, NEW n \in Utterances, Resolves(n)
  PROVE  /\ Share(n) \in 0..Len(saved)
         /\ SubSeq(saved, 1, Share(n)) \in Seq(Units)
         /\ LET pcm == SubSeq(saved, 1, Share(n)) IN
              pcm # <<>> => Last(pcm) = ends'[n]
<1>1. /\ saved \in Seq(Units) /\ Len(saved) \in Nat /\ taken \in Nat
      /\ n \in Nat /\ n = resolved + 1 /\ decoded \in Nat
      /\ Captured = taken + Len(saved)
      /\ \A i \in 1..Len(saved) : saved[i] = taken + i
      /\ ends \in [Utterances -> {None} \cup 0..MaxAudio]
  BY CutterAssumption, LenProperties DEF CutType, Audio, Captured, Resolves, Utterances
<1>2. /\ Share(n) \in 0..Len(saved)
      /\ Share(n) # 0 => ends'[n] = taken + Share(n)
  <2>1. CASE decoded < n
    <3>1. \A m \in marks : m.n # n
      BY <1>1, <2>1 DEF Marked, CutType, Utterances
    <3>2. Share(n) = Len(saved)
      BY <3>1 DEF Share, MarkOf
    <3>3. ends'[n] = Captured
      BY <1>1, <2>1 DEF Resolves
    <3> QED
      BY <1>1, <3>2, <3>3
  <2>2. CASE ~(decoded < n)
    <3>1. \E m \in marks : m.n = n
      BY <1>1, <2>2 DEF Marked
    <3>2. (CHOOSE m \in marks : m.n = n) \in marks /\ (CHOOSE m \in marks : m.n = n).n = n
      BY <3>1
    <3>3. MarkOf(n) = ends[n]
      BY <3>1, <3>2 DEF MarkOf, Marked
    <3>4. ends[n] \in 0..Captured
      BY <1>1, <2>2 DEF Marked, Utterances
    <3>5. ends'[n] = ends[n]
      BY <2>2 DEF Resolves
    <3>6. MarkOf(n) \in Nat /\ MarkOf(n) # None /\ MarkOf(n) <= taken + Len(saved)
      BY <1>1, <3>3, <3>4 DEF None
    <3>7. Share(n) = IF MarkOf(n) > taken THEN MarkOf(n) - taken ELSE 0
      BY <3>6 DEF Share
    <3> HIDE DEF MarkOf, Share
    <3> QED
      BY <1>1, <3>3, <3>5, <3>6, <3>7
  <2> QED
    BY <2>1, <2>2
<1> DEFINE k == Share(n)
           pcm == SubSeq(saved, 1, k)
<1>3. k \in 0..Len(saved) /\ (k # 0 => ends'[n] = taken + k)
  BY <1>2
<1> HIDE DEF k
<1>4. /\ pcm \in Seq(Units) /\ Len(pcm) = k
      /\ \A i \in 1..k : pcm[i] = saved[i]
  BY <1>1, <1>3, Prefix
<1> HIDE DEF pcm
<1>5. ASSUME pcm # <<>> PROVE Last(pcm) = ends'[n]
  <2>1. k # 0 /\ k \in 1..k /\ k \in 1..Len(saved)
    BY <1>1, <1>3, <1>4, <1>5, EmptySeq
  <2>2. Last(pcm) = pcm[k]
    BY <1>4 DEF Last
  <2> QED
    BY <1>1, <1>3, <1>4, <2>1, <2>2
<1> QED
  BY <1>3, <1>4, <1>5 DEF k, pcm

(* What resolving an utterance leaves of the marks and of the ends of the   *)
(* others.                                                                  *)
LEMMA ResolveKeeps ==
  ASSUME CutType, Audio, Marked, NEW n \in Utterances, Resolves(n),
         marks' \in {marks, MarksAfter(n)}, Captured' = Captured
  PROVE  /\ resolved' \in 0..MaxUtter /\ decoded' \in 0..MaxUtter
         /\ ends' \in [Utterances -> {None} \cup 0..MaxAudio]
         /\ marks' \subseteq [n : Utterances, at : 0..MaxAudio]
         /\ Marked' /\ \A m \in Utterances : m <= resolved => ends'[m] = ends[m]
<1>1. /\ n \in Nat /\ n = resolved + 1 /\ resolved \in Nat /\ decoded \in Nat
      /\ n <= MaxUtter /\ MaxUtter \in Nat /\ MaxAudio \in Nat /\ decoded <= MaxUtter
      /\ Captured \in Nat /\ Captured <= MaxAudio
      /\ ends \in [Utterances -> {None} \cup 0..MaxAudio] /\ Utterances = 1..MaxUtter
  <2>1. Captured \in Nat
    BY LenProperties DEF CutType, Captured
  <2> QED
    BY <2>1, CutterAssumption DEF CutType, Audio, Resolves, Utterances
<1>2. /\ resolved' = n /\ resolved <= decoded
      /\ decoded' = (IF decoded < n THEN n ELSE decoded)
      /\ ends' = (IF decoded < n THEN [ends EXCEPT ![n] = Captured] ELSE ends)
  BY DEF Resolves, Marked
<1>3. resolved' \in 0..MaxUtter /\ decoded' \in 0..MaxUtter /\ resolved' <= decoded'
      /\ decoded <= decoded'
  BY <1>1, <1>2
<1>4. ends' \in [Utterances -> {None} \cup 0..MaxAudio]
  <2>1. Captured \in 0..MaxAudio
    BY <1>1
  <2> QED
    BY <1>1, <1>2, <2>1
<1>5. \A m \in Utterances : m # n \/ m <= decoded => ends'[m] = ends[m]
  BY <1>1, <1>2
<1>6. marks' \subseteq marks /\ \A x \in marks : x.n > n => x \in marks'
  BY DEF MarksAfter
<1>7. \A m \in 1..decoded' : ends'[m] \in 0..Captured'
  <2> SUFFICES ASSUME NEW m \in 1..decoded' PROVE ends'[m] \in 0..Captured
    OBVIOUS
  <2>1. CASE m \in 1..decoded
    BY <1>1, <1>5, <2>1 DEF Marked
  <2>2. CASE m \notin 1..decoded
    BY <1>1, <1>2, <2>2
  <2> QED
    BY <2>1, <2>2
<1>8. \A m \in (resolved' + 1)..decoded' : \E x \in marks' : x.n = m
  <2> SUFFICES ASSUME NEW m \in (resolved' + 1)..decoded' PROVE \E x \in marks' : x.n = m
    OBVIOUS
  <2>1. m \in (resolved + 1)..decoded /\ m > n
    BY <1>1, <1>2
  <2> QED
    BY <1>6, <2>1 DEF Marked
<1>9. \A x \in marks' : x.n <= decoded' /\ x.at = ends'[x.n]
  <2> SUFFICES ASSUME NEW x \in marks' PROVE x.n <= decoded' /\ x.at = ends'[x.n]
    OBVIOUS
  <2>1. x \in marks /\ x.n <= decoded /\ x.at = ends[x.n] /\ x.n \in Utterances
    BY <1>6 DEF Marked, CutType
  <2> QED
    BY <1>1, <1>3, <1>5, <2>1
<1>10. Marked'
  BY <1>3, <1>7, <1>8, <1>9 DEF Marked
<1>11. \A m \in Utterances : m <= resolved => ends'[m] = ends[m]
  BY <1>1, <1>5
<1> QED
  BY <1>3, <1>4, <1>6, <1>10, <1>11 DEF CutType

-----------------------------------------------------------------------------
(* The queue's jobs, and the clips they wait for.                           *)
LEMMA JobsOfQueue ==
  ASSUME CutType
  PROVE  /\ Len(queue) \in Nat
         /\ \A i \in 1..Len(queue) : queue[i] \in Job /\ queue[i].clip \in 0..MaxUtter
         /\ \A i \in 0..Len(queue) : Clip(i) \in 0..MaxUtter /\ Clip(i) \in Nat
<1>1. queue \in Seq(Job) /\ Len(queue) \in Nat /\ pending \in 0..MaxUtter /\ MaxUtter \in Nat
  BY CutterAssumption, LenProperties DEF CutType
<1>2. ASSUME NEW i \in 1..Len(queue) PROVE queue[i] \in Job /\ queue[i].clip \in 0..MaxUtter
  <2>1. queue[i] \in Job
    BY <1>1, ElementOfSeq
  <2> QED
    BY <2>1 DEF Job
<1>3. ASSUME NEW i \in 0..Len(queue) PROVE Clip(i) \in 0..MaxUtter /\ Clip(i) \in Nat
  <2>1. i = 0 \/ i \in 1..Len(queue)
    BY <1>1
  <2>2. Clip(i) \in 0..MaxUtter
    BY <1>1, <1>2, <2>1 DEF Clip
  <2> QED
    BY <1>1, <2>2
<1> QED
  BY <1>1, <1>2, <1>3

(* Queueing a job: it carries the text of the last clip, and its own.       *)
LEMMA Queueing ==
  ASSUME CutIInv, NEW n \in 0..MaxUtter, NEW pcm \in Seq(Units), Queues(~NoText, n, pcm),
         pending' = pending
  PROVE  /\ queue' \in Seq(Job) /\ Awaits' = n
         /\ \A i \in 0..Len(queue') : Clip(i)' = n \/ \E j \in 0..Len(queue) : Clip(i)' = Clip(j)
         /\ \A i \in 1..Len(queue') : /\ Clip(i - 1)' = Clip(i - 1) /\ i - 1 \in 0..Len(queue)
                                      /\ queue'[i].has \/ queue'[i].clip # 0
         /\ \A i \in 1..Len(queue') : Clip(i - 1)' # 0 =>
              queue'[i].has /\ queue'[i].text = WordsOf(Clip(i - 1)')
         /\ \A i \in 1..Len(queue') :
              \/ i \in 1..Len(queue) /\ queue'[i] = queue[i]
              \/ queue'[i].pcm = pcm /\ queue'[i].clip = n
<1> DEFINE job == [has |-> ~NoText, text |-> Text, clip |-> n, pcm |-> pcm]
<1>1. /\ queue \in Seq(Job) /\ Len(queue) \in Nat /\ MaxUtter \in Nat /\ n \in Nat
      /\ doc \in Texts /\ pendingTxt \in {None} \cup 0..Len(doc)
  BY CutterAssumption, LenProperties DEF CutIInv, CutType
<1>2. job \in Job
  <2>1. Text \in Texts
    <3>1. CASE NoText
      BY <3>1 DEF Text, NoText, Texts
    <3>2. CASE ~NoText
      BY <1>1, <3>2, Suffix DEF Text, NoText, Texts
    <3> QED
      BY <3>1, <3>2
  <2> QED
    BY <2>1 DEF Job, NoText
<1>3. /\ \A i \in 1..Len(queue) : queue[i].has \/ queue[i].clip # 0
      /\ \A i \in 1..Len(queue) : Clip(i - 1) # 0 =>
           queue[i].has /\ queue[i].text = WordsOf(Clip(i - 1))
      /\ Awaits # 0 => ~NoText /\ Text = WordsOf(Awaits)
  BY DEF CutIInv, Past, TextFollows, NoText
<1>4. CASE ~NoText = FALSE /\ n = 0
  <2>1. queue' = queue
    BY <1>4 DEF Queues
  <2>2. \A i : Clip(i)' = Clip(i)
    BY <2>1 DEF Clip
  <2>3. Awaits = 0
    BY <1>3, <1>4
  <2>4. Awaits' = Awaits
    BY <2>1 DEF Awaits, Clip
  <2>5. \A i \in 1..Len(queue) : i - 1 \in 0..Len(queue)
    BY <1>1
  <2> QED
    BY <1>1, <1>3, <1>4, <2>1, <2>2, <2>3, <2>4, <2>5
<1>5. CASE ~(~NoText = FALSE /\ n = 0)
  <2>1. queue' = Append(queue, job)
    BY <1>5 DEF Queues, NoText
  <2> HIDE DEF job
  <2>2. /\ queue' \in Seq(Job) /\ Len(queue') = Len(queue) + 1
        /\ queue'[Len(queue) + 1] = job
        /\ \A i \in 1..Len(queue) : queue'[i] = queue[i]
    BY <1>1, <1>2, <2>1, AppendProperties
  <2>3. /\ \A i \in 0..Len(queue) : Clip(i)' = Clip(i)
        /\ \A i : i = Len(queue) + 1 => Clip(i)' = n
        /\ Awaits' = n
    <3>1. \A i \in 0..Len(queue) : i = 0 \/ i \in 1..Len(queue)
      BY <1>1
    <3>2. job.clip = n /\ Len(queue) + 1 # 0
      BY <1>1 DEF job
    <3>3. \A i \in 0..Len(queue) : Clip(i)' = Clip(i)
      BY <2>2, <3>1 DEF Clip
    <3>4. \A i : i = Len(queue) + 1 => Clip(i)' = n
      BY <2>2, <3>2 DEF Clip
    <3>5. Awaits' = n
      BY <2>2, <3>2 DEF Clip, Awaits
    <3> QED
      BY <3>3, <3>4, <3>5
  <2>4. \A i : i \in 1..Len(queue') <=> i \in 1..Len(queue) \/ i = Len(queue) + 1
    BY <1>1, <2>2
  <2>5. \A i \in 0..Len(queue') : i \in 0..Len(queue) \/ i = Len(queue) + 1
    BY <1>1, <2>2
  <2>6. \A i \in 1..Len(queue') : i - 1 \in 0..Len(queue)
    BY <1>1, <2>2
  <2>7. job.has = (~NoText) /\ job.text = Text /\ job.clip = n /\ job.pcm = pcm
    BY DEF job
  <2>8. ASSUME NEW i \in 1..Len(queue')
        PROVE  /\ queue'[i].has \/ queue'[i].clip # 0
               /\ Clip(i - 1)' # 0 =>
                    queue'[i].has /\ queue'[i].text = WordsOf(Clip(i - 1)')
               /\ \/ i \in 1..Len(queue) /\ queue'[i] = queue[i]
                  \/ queue'[i].pcm = pcm /\ queue'[i].clip = n
    <3>1. Clip(i - 1)' = Clip(i - 1)
      BY <2>3, <2>6
    <3>2. CASE i \in 1..Len(queue)
      BY <1>3, <2>2, <3>1, <3>2
    <3>3. CASE i = Len(queue) + 1
      <4>1. queue'[i] = job
        BY <2>2, <3>3
      <4>2. Clip(i - 1) = Awaits
        <5>1. i - 1 = Len(queue)
          BY <1>1, <3>3
        <5> QED
          BY <5>1 DEF Awaits
      <4>3. queue'[i].has \/ queue'[i].clip # 0
        BY <1>5, <2>7, <4>1
      <4>4. Clip(i - 1)' # 0 => queue'[i].has /\ queue'[i].text = WordsOf(Clip(i - 1)')
        BY <1>3, <2>7, <3>1, <4>1, <4>2
      <4> QED
        BY <2>7, <4>1, <4>3, <4>4
    <3> QED
      BY <2>4, <3>2, <3>3
  <2>9. \A i \in 0..Len(queue') : Clip(i)' = n \/ \E j \in 0..Len(queue) : Clip(i)' = Clip(j)
    BY <2>3, <2>5
  <2>10. \A i \in 1..Len(queue') : Clip(i - 1)' = Clip(i - 1)
    BY <2>3, <2>6
  <2> QED
    BY <2>2, <2>3, <2>6, <2>8, <2>9, <2>10
<1> QED
  BY <1>4, <1>5

(* The text of a clip grows with the document.                              *)
LEMMA WordsGrow ==
  ASSUME CutType, NEW n \in Utterances, NEW k \in Nat
  PROVE  [i \in 1..(k + 1) |-> n] = Append([i \in 1..k |-> n], n)
<1> DEFINE s == [i \in 1..k |-> n]
           t == [i \in 1..(k + 1) |-> n]
<1>1. s \in Seq({n}) /\ t \in Seq({n}) /\ Len(s) = k /\ Len(t) = k + 1
  OBVIOUS
<1>2. /\ Append(s, n) \in Seq({n}) /\ Len(Append(s, n)) = k + 1
      /\ Append(s, n)[k + 1] = n /\ \A i \in 1..k : Append(s, n)[i] = s[i]
  BY <1>1, AppendProperties
<1>3. \A i \in 1..(k + 1) : t[i] = n /\ (i \in 1..k \/ i = k + 1)
  OBVIOUS
<1>4. \A i \in 1..k : s[i] = n
  OBVIOUS
<1> HIDE DEF s, t
<1>5. \A i \in 1..Len(t) : t[i] = Append(s, n)[i]
  BY <1>1, <1>2, <1>3, <1>4
<1> QED
  BY <1>1, <1>2, <1>5, SeqEqual DEF s, t

-----------------------------------------------------------------------------
(* The audio, the marks and the ends of utterances.                         *)

(* What resolves or decodes leaves what is queued and written alone.        *)
LEMMA TextUntouched ==
  ASSUME CutIInv, UNCHANGED <<queue, clipFiles, spoken, latest, holds, open, doc, pendingTxt>>,
         resolved' \in Nat, resolved <= resolved',
         \A m \in Utterances : m <= resolved => ends'[m] = ends[m]
  PROVE  (ClipsEnd /\ Past /\ TextFollows /\ HeldIsOpen /\ Settled)'
<1>1. /\ queue \in Seq(Job) /\ Len(queue) \in Nat /\ resolved \in Nat /\ MaxUtter \in Nat
      /\ latest \in Nat
      /\ \A i \in 1..Len(queue) : queue[i].clip \in 0..MaxUtter
      /\ \A i \in 0..Len(queue) : Clip(i) \in Nat
  <2>1. /\ queue \in Seq(Job) /\ Len(queue) \in Nat /\ resolved \in Nat /\ MaxUtter \in Nat
        /\ latest \in Nat /\ pending \in Nat
    BY CutterAssumption, LenProperties DEF CutIInv, CutType
  <2>2. CutType
    BY DEF CutIInv
  <2> QED
    BY <2>1, <2>2, JobsOfQueue
<1>2. /\ queue' = queue /\ pending' = pending /\ wavs' = wavs /\ txts' = txts /\ spoken' = spoken
      /\ latest' = latest /\ holds' = holds /\ open' = open /\ doc' = doc
      /\ pendingTxt' = pendingTxt
  BY DEF clipFiles
<1>3. \A i : Clip(i)' = Clip(i) /\ WordsOf(i)' = WordsOf(i)
  BY <1>2 DEF Clip, WordsOf
<1>4. Awaits' = Awaits
  BY <1>2 DEF Awaits, Clip
<1>5. Text' = Text /\ NoText' = NoText
  BY <1>2 DEF Text, NoText
<1>6. ClipsEnd'
  <2>1. ASSUME NEW i \in 1..Len(queue), queue[i].pcm # <<>>, queue[i].clip # 0
        PROVE  Last(queue[i].pcm) = ends'[queue[i].clip]
    <3>1. queue[i].clip <= resolved
      BY <1>1 DEF CutIInv, Past, Clip
    <3>2. queue[i].clip \in Utterances
      BY <1>1, <2>1 DEF Utterances
    <3> QED
      BY <2>1, <3>1, <3>2 DEF CutIInv, ClipsEnd
  <2>2. ASSUME NEW n \in Utterances, wavs[n] # <<>> PROVE Last(wavs[n]) = ends'[n]
    BY <2>2 DEF CutIInv, ClipsEnd, Past
  <2> QED
    BY <1>2, <2>1, <2>2 DEF ClipsEnd
<1>7. Past'
  <2>1. \A i \in 0..Len(queue) : Clip(i) <= resolved'
    BY <1>1 DEF CutIInv, Past
  <2>2. \A n \in Utterances : wavs[n] # <<>> => n <= resolved'
    BY <1>1 DEF CutIInv, Past, Utterances
  <2>3. latest <= resolved'
    BY <1>1 DEF CutIInv, Past
  <2> QED
    BY <1>2, <1>3, <2>1, <2>2, <2>3 DEF CutIInv, Past
<1>8. TextFollows'
  BY <1>2, <1>3, <1>4, <1>5 DEF CutIInv, TextFollows
<1>9. HeldIsOpen'
  BY <1>2, <1>3 DEF CutIInv, HeldIsOpen
<1>10. Settled'
  BY <1>2, <1>3 DEF CutIInv, Settled
<1> QED
  BY <1>6, <1>7, <1>8, <1>9, <1>10

LEMMA CapturesKeeps ==
  ASSUME CutIInv, Captures
  PROVE  CutIInv'
<1>1. /\ saved \in Seq(Units) /\ gone \in Seq(Units) /\ Len(saved) \in Nat /\ Len(gone) \in Nat
      /\ MaxAudio \in Nat /\ Captured = Len(gone) + Len(saved) /\ Captured < MaxAudio
      /\ saved' = Append(saved, Captured + 1) /\ resolved \in Nat
      /\ UNCHANGED <<taken, marks, pendingTxt, doc, queue, clipFiles, discarded, open,
                     utterVars, cutHist>>
  BY CutterAssumption, LenProperties DEF Captures, CutIInv, CutType, Captured
<1>2. Captured + 1 \in Units /\ Captured \in Nat
  BY <1>1 DEF Units
<1>3. /\ saved' \in Seq(Units) /\ Len(saved') = Len(saved) + 1
      /\ saved'[Len(saved) + 1] = Captured + 1
      /\ \A i \in 1..Len(saved) : saved'[i] = saved[i]
  BY <1>1, <1>2, AppendProperties
<1>4. Captured' = Captured + 1
  BY <1>1, <1>3 DEF Captured, cutHist
<1>5. CutType'
  BY <1>1, <1>3 DEF CutIInv, CutType, clipFiles, utterVars, cutHist
<1>6. Audio'
  <2>1. gone' = gone /\ taken' = taken /\ taken = Len(gone)
    BY <1>1 DEF cutHist, CutIInv, Audio
  <2>2. ASSUME NEW i \in 1..Len(saved') PROVE saved'[i] = taken + i
    <3>1. CASE i = Len(saved) + 1
      BY <1>1, <1>3, <2>1, <3>1
    <3>2. CASE i # Len(saved) + 1
      <4>1. i \in 1..Len(saved)
        BY <1>1, <1>3, <3>2
      <4> QED
        BY <1>3, <4>1 DEF CutIInv, Audio
    <3> QED
      BY <3>1, <3>2
  <2>3. Captured' <= MaxAudio
    BY <1>1, <1>2, <1>4
  <2> QED
    BY <2>1, <2>2, <2>3 DEF CutIInv, Audio
<1>7. Marked'
  <2>1. \A n \in 1..decoded : ends[n] \in 0..Captured'
    BY <1>2, <1>4 DEF CutIInv, Marked
  <2>2. marks' = marks /\ decoded' = decoded /\ resolved' = resolved /\ ends' = ends
    BY <1>1 DEF utterVars, cutHist
  <2> QED
    BY <2>1, <2>2 DEF CutIInv, Marked
<1>8. UNCHANGED <<queue, clipFiles, spoken, latest, holds, open, doc, pendingTxt, resolved, ends>>
  BY <1>1 DEF utterVars, cutHist
<1>9. resolved <= resolved' /\ resolved' \in Nat
  BY <1>1, <1>8
<1> QED
  BY <1>5, <1>6, <1>7, <1>8, <1>9, TextUntouched DEF CutIInv

LEMMA DecodingKeeps ==
  ASSUME CutIInv, Decoding
  PROVE  CutIInv'
<1> DEFINE n == decoded + 1
           here == [n |-> n, at |-> taken + Len(saved)]
<1>1. /\ decoded \in Nat /\ resolved \in Nat /\ MaxUtter \in Nat /\ MaxAudio \in Nat
      /\ n \in Utterances /\ resolved <= decoded /\ n <= MaxUtter
      /\ ends \in [Utterances -> {None} \cup 0..MaxAudio]
      /\ Captured \in 0..MaxAudio /\ taken + Len(saved) = Captured
  <2>1. Len(gone) \in Nat /\ Len(saved) \in Nat
    BY LenProperties DEF CutIInv, CutType
  <2> QED
    BY <2>1, CutterAssumption DEF Decoding, CutIInv, CutType, Marked, Audio, Captured, Utterances
<1>2. /\ decoded' = n /\ marks' = marks \cup {here}
      /\ ends' = [ends EXCEPT ![n] = Captured]
      /\ UNCHANGED <<saved, taken, pendingTxt, doc, queue, clipFiles, discarded, open,
                     resolved, holds, gone, spoken, latest>>
  BY DEF Decoding
<1>3. Captured' = Captured
  BY <1>2 DEF Captured
<1>4. ends'[n] = Captured /\ \A m \in Utterances : m # n => ends'[m] = ends[m]
  BY <1>1, <1>2
<1>5. here \in [n : Utterances, at : 0..MaxAudio] /\ here.n = n /\ here.at = Captured
  BY <1>1
<1>6. n = decoded + 1
  OBVIOUS
<1> HIDE DEF n, here
<1>7. CutType'
  <2>1. ends' \in [Utterances -> {None} \cup 0..MaxAudio] /\ decoded' \in 0..MaxUtter
    BY <1>1, <1>2, <1>6
  <2>2. marks' \subseteq [n : Utterances, at : 0..MaxAudio]
    BY <1>2, <1>5 DEF CutIInv, CutType
  <2> QED
    BY <1>2, <2>1, <2>2 DEF CutIInv, CutType, clipFiles
<1>8. Audio'
  BY <1>2, <1>3 DEF CutIInv, Audio
<1>9. Marked'
  <2>1. ASSUME NEW x \in marks' PROVE x.n <= decoded' /\ x.at = ends'[x.n]
    <3>1. CASE x \in marks
      <4>1. x.n \in Utterances /\ x.n \in Nat /\ x.n <= decoded /\ x.at = ends[x.n]
        BY <3>1 DEF CutIInv, CutType, Marked, Utterances
      <4> QED
        BY <1>1, <1>2, <1>4, <1>6, <4>1
    <3>2. CASE x = here
      BY <1>1, <1>2, <1>4, <1>5, <1>6, <3>2
    <3> QED
      BY <1>2, <3>1, <3>2
  <2>2. ASSUME NEW m \in (resolved + 1)..decoded' PROVE \E x \in marks' : x.n = m
    <3>1. CASE m = n
      BY <1>2, <1>5, <3>1
    <3>2. CASE m # n
      <4>1. m \in (resolved + 1)..decoded
        BY <1>1, <1>2, <1>6, <3>2
      <4> QED
        BY <1>2, <4>1 DEF CutIInv, Marked
    <3> QED
      BY <3>1, <3>2
  <2>3. ASSUME NEW m \in 1..decoded' PROVE ends'[m] \in 0..Captured
    <3>1. CASE m = n
      BY <1>1, <1>4, <3>1
    <3>2. CASE m # n
      <4>1. m \in 1..decoded /\ m \in Utterances
        BY <1>1, <1>2, <1>6, <3>2 DEF Utterances
      <4> QED
        BY <1>4, <3>2, <4>1 DEF CutIInv, Marked
    <3> QED
      BY <3>1, <3>2
  <2>4. resolved' = resolved /\ resolved <= decoded'
    BY <1>1, <1>2, <1>6
  <2> QED
    BY <1>3, <2>1, <2>2, <2>3, <2>4 DEF Marked
<1>10. \A m \in Utterances : m <= resolved => ends'[m] = ends[m]
  <2>1. \A m \in Utterances : m <= resolved => m # n
    BY <1>1, <1>6
  <2> QED
    BY <1>4, <2>1
<1>11. resolved <= resolved' /\ resolved' \in Nat
  BY <1>1, <1>2
<1>12. UNCHANGED <<queue, clipFiles, spoken, latest, holds, open, doc, pendingTxt>>
  BY <1>2
<1> QED
  BY <1>7, <1>8, <1>9, <1>10, <1>11, <1>12, TextUntouched DEF CutIInv

(* The audio of a step that resolves n: its share leaves the buffer, or the  *)
(* drain is discarded and nothing moves.                                    *)
LEMMA ResolvedAudio ==
  ASSUME CutIInv, NEW n \in Utterances, Resolves(n),
         IF discarded THEN UNCHANGED <<saved, taken, gone, marks>>
         ELSE TakesUnits(Share(n)) /\ marks' = MarksAfter(n)
  PROVE  /\ saved' \in Seq(Units) /\ gone' \in Seq(Units) /\ taken' \in 0..MaxAudio
         /\ resolved' \in 0..MaxUtter /\ decoded' \in 0..MaxUtter
         /\ ends' \in [Utterances -> {None} \cup 0..MaxAudio]
         /\ marks' \subseteq [n : Utterances, at : 0..MaxAudio]
         /\ Audio' /\ Marked'
         /\ \A m \in Utterances : m <= resolved => ends'[m] = ends[m]
<1>1. CutType /\ Audio /\ Marked
  BY DEF CutIInv
<1>2. /\ saved' \in Seq(Units) /\ gone' \in Seq(Units) /\ taken' \in 0..MaxAudio
      /\ Audio' /\ Captured' = Captured /\ marks' \in {marks, MarksAfter(n)}
  <2>1. CASE discarded
    <3>1. saved' = saved /\ taken' = taken /\ gone' = gone /\ marks' = marks
      BY <2>1
    <3>2. Captured' = Captured
      BY <3>1 DEF Captured
    <3> QED
      BY <1>1, <3>1, <3>2 DEF CutType, Audio
  <2>2. CASE ~discarded
    BY <1>1, <2>2, ShareEnds, CutKeeps
  <2> QED
    BY <2>1, <2>2
<1> QED
  BY <1>1, <1>2, ResolveKeeps

LEMMA DroppedKeeps ==
  ASSUME CutIInv, NEW n \in Utterances, Dropped(n)
  PROVE  CutIInv'
<1>1. /\ Resolves(n)
      /\ IF discarded THEN UNCHANGED <<saved, taken, gone, marks>>
         ELSE TakesUnits(Share(n)) /\ marks' = MarksAfter(n)
      /\ UNCHANGED <<pendingTxt, doc, queue, clipFiles, discarded, open, holds,
                     spoken, latest>>
  BY DEF Dropped
<1>2. /\ saved' \in Seq(Units) /\ gone' \in Seq(Units) /\ taken' \in 0..MaxAudio
      /\ resolved' \in 0..MaxUtter /\ decoded' \in 0..MaxUtter
      /\ ends' \in [Utterances -> {None} \cup 0..MaxAudio]
      /\ marks' \subseteq [n : Utterances, at : 0..MaxAudio]
      /\ Audio' /\ Marked'
      /\ \A m \in Utterances : m <= resolved => ends'[m] = ends[m]
  BY <1>1, ResolvedAudio
<1>3. resolved' \in Nat /\ resolved <= resolved' /\ open' = open
  BY <1>1, CutterAssumption DEF Resolves, CutIInv, CutType
<1>4. CutType'
  BY <1>1, <1>2 DEF CutIInv, CutType, clipFiles
<1>5. (ClipsEnd /\ Past /\ TextFollows /\ HeldIsOpen /\ Settled)'
  BY <1>1, <1>2, <1>3, TextUntouched
<1> QED
  BY <1>2, <1>4, <1>5 DEF CutIInv

LEMMA CancelsKeeps ==
  ASSUME CutIInv, Cancels
  PROVE  CutIInv'
<1>1. /\ discarded' = TRUE /\ resolved \in Nat
      /\ UNCHANGED <<cutterVars, doc, queue, clipFiles, open, utterVars, cutHist>>
  BY CutterAssumption DEF Cancels, CutIInv, CutType
<1>2. CutType'
  BY <1>1 DEF CutIInv, CutType, cutterVars, clipFiles, utterVars, cutHist
<1>3. Audio' /\ Marked'
  BY <1>1 DEF CutIInv, Audio, Marked, Captured, cutterVars, utterVars, cutHist
<1>4. UNCHANGED <<queue, clipFiles, spoken, latest, holds, open, doc, pendingTxt, resolved, ends>>
  BY <1>1 DEF cutterVars, utterVars, cutHist
<1>5. resolved <= resolved' /\ resolved' \in Nat
  BY <1>1, <1>4
<1> QED
  BY <1>2, <1>3, <1>4, <1>5, TextUntouched DEF CutIInv

-----------------------------------------------------------------------------
(* The text of the clips.                                                   *)

LEMMA FinalKeeps ==
  ASSUME CutIInv, NEW n \in Utterances, NEW held \in BOOLEAN, Final(n, held)
  PROVE  CutIInv'
<1> DEFINE c == IF discarded THEN 0 ELSE n
           pcm == IF discarded THEN <<>> ELSE SubSeq(saved, 1, Share(n))
<1>1. /\ Resolves(n)
      /\ (IF discarded THEN UNCHANGED <<saved, taken, gone, marks>>
          ELSE TakesUnits(Share(n)) /\ marks' = MarksAfter(n))
      /\ doc' = Append(doc, n) /\ spoken' = [spoken EXCEPT ![n] = 1]
      /\ latest' = n /\ holds' = held
      /\ pendingTxt' = (IF discarded THEN None ELSE Len(doc))
      /\ Queues(~NoText, c, pcm)
  BY DEF Final
<1>2. /\ pending' = pending /\ wavs' = wavs /\ txts' = txts
      /\ discarded' = discarded /\ open' = open /\ open
  BY DEF Final, Resolves, clipFiles
<1>3. CutType /\ Audio /\ Marked
  BY DEF CutIInv
<1>4. /\ n \in 1..MaxUtter /\ n \in Nat /\ n # 0 /\ resolved \in Nat /\ resolved' = n
      /\ n = resolved + 1 /\ MaxUtter \in Nat /\ doc \in Texts /\ Len(doc) \in Nat
      /\ spoken \in [Utterances -> Nat]
  <2>1. doc \in Texts /\ spoken \in [Utterances -> Nat] /\ Len(doc) \in Nat
    BY <1>3, LenProperties DEF CutType, Texts
  <2>2. resolved \in Nat /\ MaxUtter \in Nat
    BY <1>3, CutterAssumption DEF CutType
  <2>3. n \in 1..MaxUtter /\ resolved' = n /\ n = resolved + 1
    BY <1>1 DEF Resolves, Utterances
  <2> QED
    BY <2>1, <2>2, <2>3
<1>5. /\ saved' \in Seq(Units) /\ gone' \in Seq(Units) /\ taken' \in 0..MaxAudio
      /\ resolved' \in 0..MaxUtter /\ decoded' \in 0..MaxUtter
      /\ ends' \in [Utterances -> {None} \cup 0..MaxAudio]
      /\ marks' \subseteq [n : Utterances, at : 0..MaxAudio]
      /\ Audio' /\ Marked'
      /\ \A m \in Utterances : m <= resolved => ends'[m] = ends[m]
  BY <1>1, ResolvedAudio
<1>6. /\ c \in 0..MaxUtter /\ pcm \in Seq(Units) /\ c \in {0, n}
      /\ c # 0 /\ pcm # <<>> => Last(pcm) = ends'[c]
  <2>1. CASE discarded
    <3>1. c = 0 /\ pcm = <<>>
      BY <2>1
    <3> QED
      BY <1>4, <3>1
  <2>2. CASE ~discarded
    <3>1. c = n /\ pcm = SubSeq(saved, 1, Share(n))
      BY <2>2
    <3>2. /\ SubSeq(saved, 1, Share(n)) \in Seq(Units)
          /\ SubSeq(saved, 1, Share(n)) # <<>> => Last(SubSeq(saved, 1, Share(n))) = ends'[n]
      BY <1>1, <1>3, ShareEnds
    <3> HIDE DEF c, pcm
    <3> QED
      BY <1>4, <3>1, <3>2
  <2> QED
    BY <2>1, <2>2
<1>7. c # 0 => c = n /\ pendingTxt' = Len(doc)
  BY <1>1
<1> HIDE DEF c, pcm
<1>8. /\ queue' \in Seq(Job) /\ Awaits' = c
      /\ \A i \in 0..Len(queue') : Clip(i)' = c \/ \E j \in 0..Len(queue) : Clip(i)' = Clip(j)
      /\ \A i \in 1..Len(queue') : /\ Clip(i - 1)' = Clip(i - 1) /\ i - 1 \in 0..Len(queue)
                                   /\ queue'[i].has \/ queue'[i].clip # 0
      /\ \A i \in 1..Len(queue') : Clip(i - 1)' # 0 =>
           queue'[i].has /\ queue'[i].text = WordsOf(Clip(i - 1)')
      /\ \A i \in 1..Len(queue') :
           \/ i \in 1..Len(queue) /\ queue'[i] = queue[i]
           \/ queue'[i].pcm = pcm /\ queue'[i].clip = c
  BY <1>1, <1>2, <1>6, Queueing
<1>9. /\ doc' \in Texts /\ Len(doc') = Len(doc) + 1
      /\ spoken' \in [Utterances -> Nat] /\ spoken'[n] = 1
      /\ \A m \in Utterances : m # n => spoken'[m] = spoken[m]
  BY <1>1, <1>4, AppendProperties DEF Texts
<1>10. CutType'
  <2>1. pendingTxt' \in {None} \cup 0..Len(doc')
    BY <1>1, <1>4, <1>9
  <2>2. latest' \in 0..MaxUtter /\ holds' \in BOOLEAN
    BY <1>1, <1>4
  <2> QED
    BY <1>2, <1>3, <1>5, <1>8, <1>9, <2>1, <2>2 DEF CutType
<1>11. /\ \A i \in 0..Len(queue) : Clip(i) \in Nat /\ Clip(i) <= resolved /\ Clip(i) # n
       /\ \A i \in 1..Len(queue) : queue[i].clip <= resolved /\ queue[i].clip \in 0..MaxUtter
  <2>1. \A i \in 0..Len(queue) : Clip(i) \in Nat /\ Clip(i) <= resolved
    BY <1>3, JobsOfQueue DEF CutIInv, Past
  <2>2. ASSUME NEW i \in 1..Len(queue)
        PROVE  queue[i].clip <= resolved /\ queue[i].clip \in 0..MaxUtter
    <3>1. Len(queue) \in Nat /\ queue[i].clip \in 0..MaxUtter
      BY <1>3, JobsOfQueue
    <3>2. i \in 0..Len(queue) /\ i # 0
      BY <3>1
    <3>3. Clip(i) = queue[i].clip
      BY <3>2 DEF Clip
    <3> QED
      BY <2>1, <3>1, <3>2, <3>3
  <2> QED
    BY <1>4, <2>1, <2>2
<1>12. \A m \in Utterances : m # n => WordsOf(m)' = WordsOf(m)
  BY <1>9 DEF WordsOf
<1>13. ClipsEnd'
  <2>1. ASSUME NEW i \in 1..Len(queue'), queue'[i].pcm # <<>>, queue'[i].clip # 0
        PROVE  Last(queue'[i].pcm) = ends'[queue'[i].clip]
    <3>1. CASE i \in 1..Len(queue) /\ queue'[i] = queue[i]
      <4>1. queue[i].clip \in Utterances /\ queue[i].clip <= resolved
        BY <1>4, <1>11, <2>1, <3>1 DEF Utterances
      <4> QED
        BY <1>5, <2>1, <3>1, <4>1 DEF CutIInv, ClipsEnd
    <3>2. CASE queue'[i].pcm = pcm /\ queue'[i].clip = c
      BY <1>6, <2>1, <3>2
    <3> QED
      BY <1>8, <3>1, <3>2
  <2>2. ASSUME NEW m \in Utterances, wavs[m] # <<>> PROVE Last(wavs[m]) = ends'[m]
    BY <1>5, <2>2 DEF CutIInv, ClipsEnd, Past
  <2> QED
    BY <1>2, <2>1, <2>2 DEF ClipsEnd
<1>14. Past'
  <2>1. ASSUME NEW i \in 0..Len(queue') PROVE Clip(i)' <= n
    <3>1. CASE Clip(i)' = c
      BY <1>4, <1>6, <3>1
    <3>2. CASE \E j \in 0..Len(queue) : Clip(i)' = Clip(j)
      BY <1>4, <1>11, <3>2
    <3> QED
      BY <1>8, <3>1, <3>2
  <2>2. \A m \in Utterances : wavs[m] # <<>> => m <= n
    BY <1>4 DEF CutIInv, Past, Utterances
  <2> QED
    BY <1>1, <1>2, <1>4, <1>8, <2>1, <2>2 DEF Past
<1>15. TextFollows'
  <2>1. ASSUME NEW i \in 1..Len(queue'), Clip(i - 1)' # 0
        PROVE  queue'[i].has /\ queue'[i].text = WordsOf(Clip(i - 1))'
    <3>1. Clip(i - 1)' \in Utterances /\ Clip(i - 1)' # n
      <4>1. i - 1 \in 0..Len(queue) /\ Clip(i - 1)' = Clip(i - 1)
        BY <1>8
      <4>2. Clip(i - 1) \in 0..MaxUtter /\ Clip(i - 1) # n
        BY <1>3, <1>11, <4>1, JobsOfQueue
      <4> QED
        BY <1>4, <2>1, <4>1, <4>2 DEF Utterances
    <3>2. WordsOf(Clip(i - 1))' = WordsOf(Clip(i - 1)')
      BY <1>12, <3>1
    <3> QED
      BY <1>8, <2>1, <3>2
  <2>2. ASSUME Awaits' # 0
        PROVE  pendingTxt' # None /\ latest' = Awaits' /\ Text' = WordsOf(Awaits)'
    <3>1. Awaits' = n /\ pendingTxt' = Len(doc) /\ pendingTxt' # None
      BY <1>4, <1>7, <1>8, <2>2 DEF None
    <3>2. Text' = SubSeq(doc', Len(doc) + 1, Len(doc'))
      BY <3>1 DEF Text
    <3>3. SubSeq(doc', Len(doc) + 1, Len(doc')) = Append(SubSeq(doc, Len(doc) + 1, Len(doc)), n)
      <4>1. Len(doc) \in 0..Len(doc)
        BY <1>4
      <4> QED
        BY <1>1, <1>4, <4>1, SuffixGrows DEF Texts
    <3>4. SubSeq(doc, Len(doc) + 1, Len(doc)) = <<>>
      <4> DEFINE t == SubSeq(doc, Len(doc) + 1, Len(doc))
      <4>1. Len(doc) \in 0..Len(doc) /\ Len(doc) - Len(doc) = 0
        BY <1>4
      <4>2. t \in Seq(Utterances) /\ Len(t) = Len(doc) - Len(doc)
        BY <1>4, <4>1, Suffix DEF Texts
      <4> HIDE DEF t
      <4>3. t = <<>>
        BY <4>1, <4>2, EmptySeq
      <4> QED
        BY <4>3 DEF t
    <3>5. WordsOf(n)' = Append(<<>>, n)
      <4>1. WordsOf(n)' = [i \in 1..1 |-> n]
        BY <1>9 DEF WordsOf
      <4> DEFINE e == [i \in 1..0 |-> n]
      <4>2. [i \in 1..(0 + 1) |-> n] = Append(e, n)
        BY <1>3, WordsGrow
      <4>3. e \in Seq({n}) /\ Len(e) = 0
        OBVIOUS
      <4>4. 0 + 1 = 1
        OBVIOUS
      <4> HIDE DEF e
      <4>5. e = <<>>
        BY <4>3, EmptySeq
      <4> QED
        BY <4>1, <4>2, <4>4, <4>5
    <3>6. WordsOf(Awaits)' = WordsOf(n)'
      BY <3>1 DEF WordsOf
    <3> QED
      BY <1>1, <3>1, <3>2, <3>3, <3>4, <3>5, <3>6
  <2> QED
    BY <1>2, <2>1, <2>2 DEF TextFollows
<1>16. HeldIsOpen'
  <2>1. \A i \in 1..Len(queue') : Clip(i - 1)' # n
    BY <1>8, <1>11
  <2>2. wavs[n] = <<>>
    BY <1>4 DEF CutIInv, Past
  <2> QED
    BY <1>1, <1>2, <1>4, <2>1, <2>2 DEF HeldIsOpen
<1>17. Settled'
  <2>1. \A m \in Utterances : wavs[m] # <<>> => m # n
    BY <1>4 DEF CutIInv, Past
  <2>2. \A m \in Utterances : m # pending =>
          txts[m] = (IF wavs[m] = <<>> THEN <<>> ELSE WordsOf(m)')
    BY <1>12, <2>1 DEF CutIInv, Settled
  <2> QED
    BY <1>2, <2>2 DEF CutIInv, Settled
<1> QED
  BY <1>5, <1>10, <1>13, <1>14, <1>15, <1>16, <1>17 DEF CutIInv

LEMMA ReleasesKeeps ==
  ASSUME CutIInv, Releases
  PROVE  CutIInv'
<1>1. /\ open /\ holds /\ holds' = FALSE
      /\ doc' = Append(doc, latest) /\ spoken' = [spoken EXCEPT ![latest] = @ + 1]
      /\ saved' = saved /\ taken' = taken /\ marks' = marks /\ pendingTxt' = pendingTxt
      /\ queue' = queue /\ pending' = pending /\ wavs' = wavs /\ txts' = txts
      /\ discarded' = discarded /\ open' = open /\ decoded' = decoded /\ resolved' = resolved
      /\ gone' = gone /\ ends' = ends /\ latest' = latest
  BY DEF Releases, cutterVars, clipFiles
<1>2. CutType /\ TextFollows /\ HeldIsOpen /\ Settled
  BY DEF CutIInv
<1>3. /\ latest \in Utterances /\ doc \in Seq(Utterances) /\ Len(doc) \in Nat
      /\ spoken \in [Utterances -> Nat] /\ spoken[latest] \in Nat
      /\ pendingTxt \in {None} \cup 0..Len(doc)
  <2>1. latest # 0 /\ latest \in 0..MaxUtter /\ MaxUtter \in Nat
    BY <1>1, <1>2, CutterAssumption DEF CutType, HeldIsOpen
  <2>2. latest \in Utterances
    BY <2>1 DEF Utterances
  <2> QED
    BY <1>2, <2>2, LenProperties DEF CutType, Texts
<1>4. /\ doc' \in Seq(Utterances) /\ Len(doc') = Len(doc) + 1
      /\ spoken' \in [Utterances -> Nat] /\ spoken'[latest] = spoken[latest] + 1
      /\ \A m \in Utterances : m # latest => spoken'[m] = spoken[m]
  BY <1>1, <1>3, AppendProperties
<1>5. CutType'
  <2>1. pendingTxt' \in {None} \cup 0..Len(doc')
    BY <1>1, <1>3, <1>4
  <2> QED
    BY <1>1, <1>2, <1>4, <2>1 DEF CutType, Texts
<1>6. Audio' /\ Marked'
  BY <1>1 DEF CutIInv, Audio, Marked, Captured
<1>7. \A i : Clip(i)' = Clip(i)
  BY <1>1 DEF Clip
<1>8. ClipsEnd' /\ Past'
  BY <1>1, <1>7 DEF CutIInv, ClipsEnd, Past
<1>9. \A m \in Utterances : m # latest => WordsOf(m)' = WordsOf(m)
  BY <1>4 DEF WordsOf
<1>10. TextFollows'
  <2>1. ASSUME NEW i \in 1..Len(queue), Clip(i - 1) # 0
        PROVE  queue[i].has /\ queue[i].text = WordsOf(Clip(i - 1))'
    <3>1. Clip(i - 1) \in Utterances /\ Clip(i - 1) # latest
      <4>1. i - 1 \in 0..Len(queue) /\ MaxUtter \in Nat
        BY <1>2, JobsOfQueue, CutterAssumption
      <4>2. Clip(i - 1) \in 0..MaxUtter /\ Clip(i - 1) # latest
        BY <1>1, <1>2, <4>1, JobsOfQueue DEF HeldIsOpen
      <4> QED
        BY <2>1, <4>1, <4>2 DEF Utterances
    <3>2. WordsOf(Clip(i - 1))' = WordsOf(Clip(i - 1))
      BY <1>7, <1>9, <3>1
    <3> QED
      BY <1>2, <2>1, <3>2 DEF TextFollows
  <2>2. Awaits' = Awaits
    BY <1>1, <1>7 DEF Awaits
  <2>3. ASSUME Awaits # 0
        PROVE  pendingTxt # None /\ latest = Awaits /\ Text' = WordsOf(latest)'
    <3>1. pendingTxt # None /\ latest = Awaits /\ Text = WordsOf(latest)
      BY <1>2, <2>3 DEF TextFollows
    <3>2. Text' = SubSeq(doc', pendingTxt + 1, Len(doc'))
      BY <1>1, <3>1 DEF Text
    <3>3. Text = SubSeq(doc, pendingTxt + 1, Len(doc)) /\ pendingTxt \in 0..Len(doc)
      BY <1>3, <3>1 DEF Text
    <3>4. Text' = Append(Text, latest)
      BY <1>1, <1>3, <3>2, <3>3, SuffixGrows
    <3>5. WordsOf(latest)' = Append(WordsOf(latest), latest)
      <4>1. [i \in 1..(spoken[latest] + 1) |-> latest]
              = Append([i \in 1..spoken[latest] |-> latest], latest)
        BY <1>2, <1>3, WordsGrow
      <4> QED
        BY <1>1, <1>4, <4>1 DEF WordsOf
    <3> QED
      BY <3>1, <3>4, <3>5
  <2>4. Awaits # 0 => WordsOf(latest)' = WordsOf(Awaits)'
    BY <1>1, <2>2, <2>3 DEF WordsOf
  <2>5. Awaits' # 0 => pendingTxt' # None /\ latest' = Awaits' /\ Text' = WordsOf(Awaits)'
    BY <1>1, <2>2, <2>3, <2>4
  <2>6. \A i \in 1..Len(queue') : Clip(i - 1)' # 0 =>
          queue'[i].has /\ queue'[i].text = WordsOf(Clip(i - 1))'
    BY <1>1, <1>7, <2>1
  <2>7. open' /\ (~open => NoText)'
    BY <1>1
  <2> QED
    BY <2>5, <2>6, <2>7 DEF TextFollows
<1>11. HeldIsOpen'
  BY <1>1 DEF HeldIsOpen
<1>12. Settled'
  <2>1. ASSUME NEW m \in Utterances, m # pending
        PROVE  txts[m] = (IF wavs[m] = <<>> THEN <<>> ELSE WordsOf(m)')
    <3>1. CASE m = latest
      BY <1>1, <1>2, <2>1, <3>1 DEF HeldIsOpen, Settled
    <3>2. CASE m # latest
      BY <1>2, <1>9, <2>1, <3>2 DEF Settled
    <3> QED
      BY <3>1, <3>2
  <2> QED
    BY <1>1, <1>2, <2>1 DEF Settled
<1> QED
  BY <1>5, <1>6, <1>8, <1>10, <1>11, <1>12 DEF CutIInv

(* What ends the last clip's text, with nothing held back: a hard break or   *)
(* the end of the drain.                                                    *)
LEMMA EndsText ==
  ASSUME CutIInv, ~holds, Queues(~NoText, 0, <<>>), pendingTxt' = None,
         doc' \in Texts, open' \in BOOLEAN,
         UNCHANGED <<saved, taken, marks, clipFiles, discarded, utterVars, cutHist>>
  PROVE  CutIInv'
<1>1. CutType /\ Audio /\ Marked /\ ClipsEnd /\ Past /\ Settled
  BY DEF CutIInv
<1>2. /\ saved' = saved /\ taken' = taken /\ marks' = marks /\ pending' = pending
      /\ wavs' = wavs /\ txts' = txts /\ discarded' = discarded /\ decoded' = decoded
      /\ resolved' = resolved /\ holds' = holds /\ gone' = gone /\ ends' = ends
      /\ spoken' = spoken /\ latest' = latest
  BY DEF clipFiles, utterVars, cutHist
<1>3. /\ 0 \in 0..MaxUtter /\ <<>> \in Seq(Units) /\ resolved \in Nat
      /\ MaxUtter \in Nat
  BY <1>1, CutterAssumption DEF CutType
<1>4. /\ queue' \in Seq(Job) /\ Awaits' = 0
      /\ \A i \in 0..Len(queue') : Clip(i)' = 0 \/ \E j \in 0..Len(queue) : Clip(i)' = Clip(j)
      /\ \A i \in 1..Len(queue') : /\ Clip(i - 1)' = Clip(i - 1) /\ i - 1 \in 0..Len(queue)
                                   /\ queue'[i].has \/ queue'[i].clip # 0
      /\ \A i \in 1..Len(queue') : Clip(i - 1)' # 0 =>
           queue'[i].has /\ queue'[i].text = WordsOf(Clip(i - 1)')
      /\ \A i \in 1..Len(queue') :
           \/ i \in 1..Len(queue) /\ queue'[i] = queue[i]
           \/ queue'[i].pcm = <<>> /\ queue'[i].clip = 0
  BY <1>2, <1>3, Queueing
<1>5. CutType'
  <2>1. pendingTxt' \in {None} \cup 0..Len(doc')
    OBVIOUS
  <2> QED
    BY <1>1, <1>2, <1>4, <2>1 DEF CutType
<1>6. Audio' /\ Marked'
  BY <1>1, <1>2 DEF Audio, Marked, Captured
<1>7. ClipsEnd'
  BY <1>1, <1>2, <1>4 DEF ClipsEnd
<1>8. Past'
  <2>1. \A i \in 0..Len(queue') : Clip(i)' <= resolved
    BY <1>1, <1>3, <1>4 DEF Past
  <2> QED
    BY <1>1, <1>2, <1>4, <2>1 DEF Past
<1>9. \A m : WordsOf(m)' = WordsOf(m)
  BY <1>2 DEF WordsOf
<1>10. TextFollows'
  <2>1. \A i \in 1..Len(queue') : Clip(i - 1)' # 0 =>
          queue'[i].has /\ queue'[i].text = WordsOf(Clip(i - 1))'
    BY <1>4, <1>9
  <2>2. NoText'
    BY DEF NoText
  <2> QED
    BY <1>4, <2>1, <2>2 DEF TextFollows
<1>11. HeldIsOpen'
  BY <1>2 DEF HeldIsOpen
<1>12. Settled'
  BY <1>1, <1>2, <1>9 DEF Settled
<1> QED
  BY <1>5, <1>6, <1>7, <1>8, <1>10, <1>11, <1>12 DEF CutIInv

LEMMA BoundaryKeeps ==
  ASSUME CutIInv, Boundary
  PROVE  CutIInv'
<1>1. <<>> \in Texts /\ open' = open /\ open \in BOOLEAN
  BY DEF Texts, Boundary, CutIInv, CutType
<1> QED
  BY <1>1, EndsText DEF Boundary

LEMMA FlushesKeeps ==
  ASSUME CutIInv, Flushes
  PROVE  CutIInv'
<1>1. doc' = doc /\ doc \in Texts /\ open' \in BOOLEAN
  BY DEF Flushes, CutIInv, CutType
<1> QED
  BY <1>1, EndsText DEF Flushes

(* The writer takes a job: the files, and the clip that now awaits its text. *)
LEMMA WritesKeeps ==
  ASSUME CutIInv, NEW ok \in BOOLEAN, Writes(ok)
  PROVE  CutIInv'
<1> DEFINE io == Head(queue)
           wrote == ok /\ io.clip # 0 /\ io.pcm # <<>>
<1>1. /\ queue # <<>> /\ queue' = Tail(queue)
      /\ txts' = (IF io.has /\ pending # 0 THEN [txts EXCEPT ![pending] = io.text] ELSE txts)
      /\ wavs' = (IF wrote THEN [wavs EXCEPT ![io.clip] = io.pcm] ELSE wavs)
      /\ pending' = (IF io.clip # 0 THEN (IF wrote THEN io.clip ELSE 0)
                     ELSE IF io.has THEN 0 ELSE pending)
  BY DEF Writes
<1>2. /\ saved' = saved /\ taken' = taken /\ marks' = marks /\ pendingTxt' = pendingTxt
      /\ doc' = doc /\ discarded' = discarded /\ open' = open /\ decoded' = decoded
      /\ resolved' = resolved /\ holds' = holds /\ gone' = gone /\ ends' = ends
      /\ spoken' = spoken /\ latest' = latest
  BY DEF Writes, cutterVars, utterVars, cutHist
<1>3. CutType /\ Audio /\ Marked /\ ClipsEnd /\ Past /\ TextFollows /\ HeldIsOpen /\ Settled
  BY DEF CutIInv
<1>4. /\ queue' \in Seq(Job) /\ Len(queue) \in Nat /\ 1 \in 1..Len(queue)
      /\ Len(queue') = Len(queue) - 1 /\ io = queue[1]
      /\ \A i \in 1..Len(queue') : queue'[i] = queue[i + 1]
  <2>1. queue \in Seq(Job) /\ queue # <<>>
    BY <1>1, <1>3 DEF CutType
  <2>2. Len(queue) \in Nat /\ Len(queue) # 0
    BY <2>1, LenProperties, EmptySeq
  <2>3. /\ Tail(queue) \in Seq(Job) /\ Len(Tail(queue)) = Len(queue) - 1
        /\ \A i \in 1 .. Len(Tail(queue)) : Tail(queue)[i] = queue[i + 1]
    BY <2>1, HeadTailProperties
  <2>4. Head(queue) = queue[1]
    BY <2>1
  <2> QED
    BY <1>1, <2>2, <2>3, <2>4
<1>5. /\ io \in Job /\ io.clip \in 0..MaxUtter /\ io.has \in BOOLEAN /\ io.text \in Texts
      /\ io.pcm \in Seq(Units) /\ pending \in 0..MaxUtter /\ MaxUtter \in Nat
      /\ io.has \/ io.clip # 0
      /\ Clip(1) = io.clip /\ Clip(0) = pending
  <2>1. io \in Job
    BY <1>3, <1>4, JobsOfQueue
  <2>2. Clip(1) = io.clip /\ Clip(0) = pending
    BY <1>4 DEF Clip
  <2>3. io.has \/ io.clip # 0
    BY <1>3, <1>4 DEF Past
  <2> HIDE DEF io
  <2> QED
    BY <1>3, <2>1, <2>2, <2>3, CutterAssumption DEF Job, CutType
<1>6. pending # 0 => io.has /\ io.text = WordsOf(pending)
  <2>1. 1 - 1 = 0
    OBVIOUS
  <2>2. Clip(1 - 1) # 0 => queue[1].has /\ queue[1].text = WordsOf(Clip(1 - 1))
    BY <1>3, <1>4 DEF TextFollows
  <2> QED
    BY <1>4, <1>5, <2>1, <2>2
<1> HIDE DEF io
<1>7. /\ wrote => io.clip # 0 /\ io.pcm # <<>> /\ pending' = io.clip
      /\ ~wrote => pending' = 0
  BY <1>1, <1>5
<1>8. /\ wrote => wavs' = [wavs EXCEPT ![io.clip] = io.pcm] /\ io.clip \in Utterances
      /\ ~wrote => wavs' = wavs
  BY <1>1, <1>5 DEF Utterances
<1> HIDE DEF wrote
<1>9. pending' \in {Clip(1), 0} /\ pending' \in 0..MaxUtter
  BY <1>5, <1>7
<1>10. /\ wavs' \in [Utterances -> Seq(Units)]
       /\ \A m \in Utterances : \/ wrote /\ m = io.clip /\ wavs'[m] = io.pcm
                                \/ (~wrote \/ m # io.clip) /\ wavs'[m] = wavs[m]
  <2>1. wavs \in [Utterances -> Seq(Units)]
    BY <1>3 DEF CutType
  <2>2. CASE wrote
    BY <1>5, <1>8, <2>1, <2>2
  <2>3. CASE ~wrote
    BY <1>8, <2>1, <2>3
  <2> QED
    BY <2>2, <2>3
<1>11. /\ txts' \in [Utterances -> Texts]
       /\ \A m \in Utterances : txts'[m] = IF m = pending THEN WordsOf(pending) ELSE txts[m]
  <2>1. txts \in [Utterances -> Texts]
    BY <1>3 DEF CutType
  <2>2. CASE pending # 0
    <3>1. pending \in Utterances
      BY <1>5, <2>2 DEF Utterances
    <3> QED
      BY <1>1, <1>5, <1>6, <2>1, <2>2, <3>1
  <2>3. CASE pending = 0
    <3>1. \A m \in Utterances : m # pending
      BY <1>5, <2>3 DEF Utterances
    <3> QED
      BY <1>1, <2>1, <2>3, <3>1
  <2> QED
    BY <2>2, <2>3
<1>12. CutType'
  BY <1>2, <1>3, <1>4, <1>9, <1>10, <1>11 DEF CutType
<1>13. Audio' /\ Marked'
  BY <1>2, <1>3 DEF Audio, Marked, Captured
<1>14. ASSUME NEW i \in 0..Len(queue')
       PROVE  /\ i + 1 \in 1..Len(queue) /\ Clip(i)' \in {Clip(i + 1), 0}
              /\ i # 0 => Clip(i)' = Clip(i + 1)
  <2>1. i + 1 \in 1..Len(queue) /\ i + 1 # 0
    BY <1>4
  <2>2. CASE i = 0
    <3>1. i + 1 = 1 /\ Clip(i)' = pending'
      BY <2>2 DEF Clip
    <3> QED
      BY <1>9, <2>1, <2>2, <3>1
  <2>3. CASE i # 0
    <3>1. i \in 1..Len(queue')
      BY <1>4, <2>3
    <3>2. Clip(i)' = queue'[i].clip
      BY <2>3 DEF Clip
    <3>3. Clip(i + 1) = queue[i + 1].clip
      BY <2>1 DEF Clip
    <3> QED
      BY <1>4, <2>1, <3>1, <3>2, <3>3
  <2> QED
    BY <2>2, <2>3
<1>15. ClipsEnd'
  <2>1. ASSUME NEW i \in 1..Len(queue'), queue'[i].pcm # <<>>, queue'[i].clip # 0
        PROVE  Last(queue'[i].pcm) = ends[queue'[i].clip]
    <3> DEFINE j == i + 1
    <3>1. j \in 1..Len(queue) /\ queue'[i] = queue[j]
      BY <1>4
    <3> HIDE DEF j
    <3> QED
      BY <1>3, <2>1, <3>1 DEF ClipsEnd
  <2>2. ASSUME NEW m \in Utterances, wavs'[m] # <<>> PROVE Last(wavs'[m]) = ends[m]
    <3>1. CASE wrote /\ m = io.clip /\ wavs'[m] = io.pcm
      <4>1. io = queue[1] /\ io.clip # 0 /\ io.pcm # <<>>
        BY <1>4, <1>7, <3>1
      <4> QED
        BY <1>3, <1>4, <3>1, <4>1 DEF ClipsEnd
    <3>2. CASE wavs'[m] = wavs[m]
      BY <1>3, <2>2, <3>2 DEF ClipsEnd
    <3> QED
      BY <1>10, <3>1, <3>2
  <2> QED
    BY <1>2, <2>1, <2>2 DEF ClipsEnd
<1>16. Past'
  <2>1. ASSUME NEW i \in 0..Len(queue') PROVE Clip(i)' <= resolved
    <3> DEFINE j == i + 1
    <3>1. j \in 0..Len(queue) /\ Clip(i)' \in {Clip(j), 0}
      BY <1>4, <1>14
    <3> HIDE DEF j
    <3> QED
      BY <1>3, <3>1 DEF Past, CutType
  <2>2. ASSUME NEW i \in 1..Len(queue') PROVE queue'[i].has \/ queue'[i].clip # 0
    <3> DEFINE j == i + 1
    <3>1. j \in 1..Len(queue) /\ queue'[i] = queue[j]
      BY <1>4
    <3> HIDE DEF j
    <3> QED
      BY <1>3, <3>1 DEF Past
  <2>3. ASSUME NEW m \in Utterances, wavs'[m] # <<>> PROVE m <= resolved
    <3>1. CASE m = io.clip
      <4>1. 1 \in 0..Len(queue)
        BY <1>4
      <4> QED
        BY <1>3, <1>5, <3>1, <4>1 DEF Past
    <3>2. CASE wavs'[m] = wavs[m]
      BY <1>3, <2>3, <3>2 DEF Past
    <3> QED
      BY <1>10, <3>1, <3>2
  <2> QED
    BY <1>2, <1>3, <2>1, <2>2, <2>3 DEF Past
<1>17. \A m : WordsOf(m)' = WordsOf(m)
  BY <1>2 DEF WordsOf
<1>18. TextFollows'
  <2>1. ASSUME NEW i \in 1..Len(queue'), Clip(i - 1)' # 0
        PROVE  queue'[i].has /\ queue'[i].text = WordsOf(Clip(i - 1))'
    <3> DEFINE j == i + 1
               h == i - 1
    <3>1. h \in 0..Len(queue') /\ h + 1 = i /\ i \in 1..Len(queue) /\ i = j - 1
      BY <1>4
    <3>2. j \in 1..Len(queue) /\ queue'[i] = queue[j]
      BY <1>4
    <3>3. Clip(h)' = Clip(i)
      <4>1. Clip(h)' \in {Clip(h + 1), 0}
        BY <1>14, <3>1
      <4> QED
        BY <2>1, <3>1, <4>1
    <3>4. Clip(j - 1) # 0 => queue[j].has /\ queue[j].text = WordsOf(Clip(j - 1))
      <4> HIDE DEF j
      <4> QED
        BY <1>3, <3>2 DEF TextFollows
    <3>5. queue'[i].has /\ queue'[i].text = WordsOf(Clip(i))
      BY <2>1, <3>1, <3>2, <3>3, <3>4
    <3> QED
      BY <1>17, <3>3, <3>5
  <2>2. ASSUME Awaits' # 0 PROVE Awaits' = Awaits
    <3> DEFINE k == Len(queue')
    <3>1. Awaits' = Clip(Len(queue))'
      BY DEF Awaits
    <3>2. k \in 0..Len(queue') /\ k + 1 = Len(queue)
      BY <1>4
    <3>3. Clip(Len(queue))' = IF k = 0 THEN pending' ELSE queue'[k].clip
      BY DEF Clip
    <3>4. CASE k = 0
      <4>1. Len(queue) = 1
        BY <3>2, <3>4
      <4>2. Awaits = Clip(1)
        BY <4>1 DEF Awaits
      <4> QED
        BY <1>9, <2>2, <3>1, <3>3, <3>4, <4>2
    <3>5. CASE k # 0
      <4>1. k \in 1..Len(queue') /\ queue'[k] = queue[k + 1] /\ k + 1 = Len(queue)
        BY <1>4, <3>5
      <4>2. Awaits = queue[Len(queue)].clip
        BY <1>4 DEF Awaits, Clip
      <4> QED
        BY <3>1, <3>3, <3>5, <4>1, <4>2
    <3> QED
      BY <3>4, <3>5
  <2>3. Text' = Text /\ NoText' = NoText
    BY <1>2 DEF Text, NoText
  <2>4. WordsOf(Awaits)' = WordsOf(Awaits')
    BY <1>17
  <2> QED
    BY <1>2, <1>3, <2>1, <2>2, <2>3, <2>4 DEF TextFollows
<1>19. HeldIsOpen'
  <2> SUFFICES ASSUME holds
      PROVE  /\ latest # 0
             /\ \A i \in 1..Len(queue') : Clip(i - 1)' # latest
             /\ wavs'[latest] # <<>> => pending' = latest
    BY <1>2 DEF HeldIsOpen
  <2>1. /\ latest # 0 /\ latest \in Utterances
        /\ \A i \in 1..Len(queue) : Clip(i - 1) # latest
        /\ wavs[latest] # <<>> => pending = latest
    BY <1>3, CutterAssumption DEF HeldIsOpen, CutType, Utterances
  <2>2. ASSUME NEW i \in 1..Len(queue') PROVE Clip(i - 1)' # latest
    <3> DEFINE j == i + 1
               h == i - 1
    <3>1. h \in 0..Len(queue') /\ h + 1 = i /\ j \in 1..Len(queue) /\ j - 1 = i
      BY <1>4
    <3>2. Clip(h)' \in {Clip(h + 1), 0}
      BY <1>14, <3>1
    <3>3. Clip(j - 1) # latest
      <4> HIDE DEF j
      <4> QED
        BY <2>1, <3>1
    <3> QED
      BY <2>1, <3>1, <3>2, <3>3
  <2>3. pending # latest
    <3>1. 1 - 1 = 0 /\ Clip(1 - 1) # latest
      BY <1>4, <2>1
    <3> QED
      BY <1>5, <3>1
  <2>4. wavs'[latest] # <<>> => pending' = latest
    BY <1>7, <1>10, <2>1, <2>3
  <2> QED
    BY <2>1, <2>2, <2>4
<1>20. Settled'
  <2>1. ASSUME pending' # 0 PROVE wavs'[pending'] # <<>>
    <3>1. wrote /\ pending' = io.clip /\ io.pcm # <<>> /\ io.clip \in Utterances
      BY <1>7, <1>8, <2>1
    <3> QED
      BY <1>10, <3>1
  <2>2. ASSUME NEW m \in Utterances, m # pending'
        PROVE  txts'[m] = (IF wavs'[m] = <<>> THEN <<>> ELSE WordsOf(m))
    <3>1. wavs'[m] = wavs[m]
      BY <1>7, <1>10, <2>2
    <3>2. CASE m = pending
      <4>1. wavs[m] # <<>>
        BY <1>3, <3>2 DEF Settled, Utterances
      <4> QED
        BY <1>11, <3>1, <3>2, <4>1
    <3>3. CASE m # pending
      BY <1>3, <1>11, <3>1, <3>3 DEF Settled
    <3> QED
      BY <3>2, <3>3
  <2> QED
    BY <1>17, <2>1, <2>2 DEF Settled
<1> QED
  BY <1>12, <1>13, <1>15, <1>16, <1>18, <1>19, <1>20 DEF CutIInv

LEMMA CutINext == CutIInv /\ [CutNext]_cutVars => CutIInv'
<1> SUFFICES ASSUME CutIInv, [CutNext]_cutVars PROVE CutIInv'
  OBVIOUS
<1>1. CASE Captures
  BY <1>1, CapturesKeeps
<1>2. CASE Decoding
  BY <1>2, DecodingKeeps
<1>3. ASSUME NEW n \in Utterances, Dropped(n) \/ \E held \in BOOLEAN : Final(n, held)
      PROVE  CutIInv'
  BY <1>3, DroppedKeeps, FinalKeeps
<1>4. CASE Releases
  BY <1>4, ReleasesKeeps
<1>5. CASE Boundary
  BY <1>5, BoundaryKeeps
<1>6. CASE Cancels
  BY <1>6, CancelsKeeps
<1>7. CASE Flushes
  BY <1>7, FlushesKeeps
<1>8. ASSUME NEW ok \in BOOLEAN, Writes(ok) PROVE CutIInv'
  BY <1>8, WritesKeeps
<1>9. CASE UNCHANGED cutVars
  <2>1. /\ UNCHANGED <<saved, taken, marks, gone, discarded, decoded, ends, resolved>>
        /\ UNCHANGED <<queue, clipFiles, spoken, latest, holds, open, doc, pendingTxt>>
    BY <1>9 DEF cutVars, cutterVars, clipFiles, utterVars, cutHist
  <2>2. CutType' /\ Audio' /\ Marked'
    BY <2>1 DEF CutIInv, CutType, Audio, Marked, Captured, clipFiles
  <2>3. resolved' \in Nat /\ resolved <= resolved'
    BY <2>1, CutterAssumption DEF CutIInv, CutType
  <2> QED
    BY <2>1, <2>2, <2>3, TextUntouched DEF CutIInv
<1> QED
  BY <1>1, <1>2, <1>3, <1>4, <1>5, <1>6, <1>7, <1>8, <1>9 DEF CutNext

LEMMA CutInductive == CutSpec => []CutIInv
  BY CutIInit, CutINext, PTL DEF CutSpec

-----------------------------------------------------------------------------
(* Every variable of the cutter, the writer and the server keeps its type.   *)
THEOREM CutTypeCorrect == CutSpec => []CutType
<1>1. CutIInv => CutType
  BY DEF CutIInv
<1> QED
  BY <1>1, CutInductive, PTL

(* Whatever the order of marks, finals, drops and a Cancel, what was cut and *)
(* what is still buffered are the audio captured, each unit once and in      *)
(* order (split_at_cut, take_mark).                                         *)
THEOREM NoAudioLost == CutSpec => []AudioConserved
<1>1. CutIInv => AudioConserved
  <2> SUFFICES ASSUME CutIInv PROVE AudioConserved
    OBVIOUS
  <2> DEFINE all == gone \o saved
             heard == [i \in 1..Captured |-> i]
  <2>1. /\ gone \in Seq(Units) /\ saved \in Seq(Units) /\ taken = Len(gone)
        /\ Len(gone) \in Nat /\ Len(saved) \in Nat /\ Captured = Len(gone) + Len(saved)
        /\ \A i \in 1..Len(gone) : gone[i] = i
        /\ \A i \in 1..Len(saved) : saved[i] = taken + i
        /\ Captured <= MaxAudio /\ MaxAudio \in Nat
    BY CutterAssumption, LenProperties DEF CutIInv, CutType, Audio, Captured
  <2>2. /\ all \in Seq(Units) /\ Len(all) = Captured
        /\ \A i \in 1..Captured :
             all[i] = IF i <= Len(gone) THEN gone[i] ELSE saved[i - Len(gone)]
    BY <2>1, ConcatProperties
  <2>3. /\ heard \in Seq(Units) /\ Len(heard) = Captured
        /\ \A i \in 1..Captured : heard[i] = i
    <3>1. Captured \in Nat /\ \A i \in 1..Captured : i \in Units
      BY <2>1 DEF Units
    <3> HIDE DEF Captured
    <3> QED
      BY <3>1
  <2> HIDE DEF all, heard
  <2>4. ASSUME NEW i \in 1..Captured PROVE all[i] = i
    <3>1. CASE i <= Len(gone)
      BY <2>1, <2>2, <3>1
    <3>2. CASE ~(i <= Len(gone))
      <4> DEFINE j == i - Len(gone)
      <4>1. j \in 1..Len(saved) /\ taken + j = i /\ all[i] = saved[j]
        BY <2>1, <2>2, <3>2
      <4> HIDE DEF j
      <4> QED
        BY <2>1, <4>1
    <3> QED
      BY <3>1, <3>2
  <2>5. all = heard
    BY <2>2, <2>3, <2>4, SeqEqual
  <2> QED
    BY <2>1, <2>5 DEF AudioConserved, all, heard
<1> QED
  BY <1>1, CutInductive, PTL

(* Each clip ends where its utterance's audio does, and once the session is  *)
(* over the text beside it is exactly what was said in it, whatever .wav     *)
(* failed, was empty or was dropped (ClipWriter::write, take_txt).           *)
THEOREM ClipsAreUtterances == CutSpec => []ClipIsItsUtterance
<1>1. CutIInv => ClipIsItsUtterance
  <2> SUFFICES ASSUME CutIInv, NEW n \in Utterances
      PROVE  /\ wavs[n] # <<>> => Last(wavs[n]) = ends[n]
             /\ ~open /\ queue = <<>> =>
                  txts[n] = IF wavs[n] = <<>> THEN <<>> ELSE [i \in 1..spoken[n] |-> n]
    BY DEF ClipIsItsUtterance
  <2>1. wavs[n] # <<>> => Last(wavs[n]) = ends[n]
    BY DEF CutIInv, ClipsEnd
  <2>2. ASSUME ~open, queue = <<>>
        PROVE  txts[n] = IF wavs[n] = <<>> THEN <<>> ELSE [i \in 1..spoken[n] |-> n]
    <3>1. Len(queue) = 0
      BY <2>2
    <3>2. Awaits = pending /\ Awaits = 0
      BY <2>2, <3>1 DEF CutIInv, TextFollows, NoText, Awaits, Clip
    <3>3. n # pending
      BY <3>2 DEF Utterances
    <3> QED
      BY <3>3 DEF CutIInv, Settled, WordsOf
  <2> QED
    BY <2>1, <2>2
<1> QED
  BY <1>1, CutInductive, PTL
=============================================================================
