--------------------------- MODULE StreamSession ---------------------------
(***************************************************************************)
(* Streaming dictation sessions (src-tauri/src/session.rs, first half, and *)
(* start_stream, stop_stream, cancel_stream).  Stopping a session detaches *)
(* its WebSocket task, which drains in the background and only then decides *)
(* whether to write the recording.  The slot `detached` names the drain a   *)
(* Cancel may still discard; claims, cancels and the drain's own decision    *)
(* meet on its mutex.  What the task says to the server is in StreamWs; here *)
(* it is its await points, where an abort can end it.                       *)
(***************************************************************************)
EXTENDS Integers, FiniteSets

CONSTANTS
  MaxEpoch,     \* bound on ACTIVE_EPOCH
  MaxSessions,  \* bound on the sessions ever started
  MaxClips      \* bound on the utterance clips of one session

ASSUME BoundsAssumption ==
  MaxEpoch \in Nat /\ MaxSessions \in Nat /\ MaxClips \in Nat

Epochs == 1..MaxEpoch

VARIABLES
  activeEpoch,  \* ACTIVE_EPOCH
  starting,     \* start_stream holds the StreamState lock
  live,         \* StreamState: the live session's epoch, 0 = None
  detached,     \* DETACHED_STREAM: the epoch whose flag it holds, 0 = None
  phase,        \* per session: who holds the StreamSession value
  capture,      \* per session: its capture thread
  keeps,        \* sessions with a save dir
  clipped,      \* of these, the ones saving a clip per utterance
  audio,        \* sessions whose saved copy may hold audio
  task,         \* per session: its WebSocket task, at an await point
  discard,      \* DetachedStream::discard
  settled,      \* DetachedStream::settled
  jobs,         \* recordings handed to the blocking pool, not yet written
  wav,          \* session recordings on disk
  cut, written, \* per session: clips queued to its ClipWriter, clips on disk
  closed        \* sessions whose `closed` reached the window

(* History: sessions a recovery cancel spared; newest one ever taken.      *)
VARIABLES kept, newestTaken

lockVars    == <<starting, live>>
flagVars    == <<detached, discard, settled>>
sessionVars == <<phase, capture, keeps, clipped, audio>>
fileVars    == <<jobs, wav, cut, written>>
histVars    == <<kept, newestTaken>>
vars == <<activeEpoch, lockVars, flagVars, sessionVars, task, fileVars,
          closed, histVars>>

LockType ==
  /\ activeEpoch \in 0..MaxEpoch
  /\ starting \in BOOLEAN
  /\ live \in 0..MaxEpoch
FlagType ==
  /\ detached \in 0..MaxEpoch
  /\ discard \subseteq Epochs
  /\ settled \subseteq Epochs
SessionType ==
  /\ phase \in [Epochs -> {"none", "live", "finishing", "dropping", "replaced",
                           "finished", "gone"}]
  /\ capture \in [Epochs -> {"off", "running", "exited"}]
  /\ keeps \subseteq Epochs /\ clipped \subseteq keeps /\ audio \subseteq Epochs
TaskType ==
  task \in [Epochs -> {"off", "setup", "live", "draining", "saving",
                        "clipping", "closing", "done", "aborted"}]
FileType ==
  /\ jobs \subseteq Epochs /\ wav \subseteq Epochs
  /\ cut \in [Epochs -> 0..MaxClips]
  /\ written \in [Epochs -> 0..MaxClips]
  /\ \A e \in Epochs : written[e] <= cut[e]
HistType ==
  /\ closed \subseteq Epochs /\ kept \subseteq Epochs
  /\ newestTaken \in 0..MaxEpoch

(* Types; a clip writer never runs ahead of what was queued to it.         *)
TypeOK == LockType /\ FlagType /\ SessionType /\ TaskType /\ FileType /\ HistType

Init ==
  /\ activeEpoch = 0 /\ starting = FALSE /\ live = 0 /\ detached = 0
  /\ phase = [e \in Epochs |-> "none"]
  /\ capture = [e \in Epochs |-> "off"]
  /\ task = [e \in Epochs |-> "off"]
  /\ keeps = {} /\ clipped = {} /\ audio = {} /\ discard = {} /\ settled = {}
  /\ jobs = {} /\ wav = {}
  /\ cut = [e \in Epochs |-> 0] /\ written = [e \in Epochs |-> 0]
  /\ closed = {} /\ kept = {} /\ newestTaken = 0

-----------------------------------------------------------------------------
(* start_stream holds the lock while it drops the session it replaces.     *)

Started == {e \in Epochs : phase[e] # "none"}

StartBegin ==
  /\ ~starting
  /\ Cardinality(Started) < MaxSessions /\ activeEpoch < MaxEpoch  \* bounds
  /\ starting' = TRUE
  /\ live' = 0
  /\ phase' = [e \in Epochs |-> IF e = live THEN "replaced" ELSE phase[e]]
  /\ UNCHANGED <<activeEpoch, flagVars, capture, keeps, clipped, audio, task,
                 fileVars, closed, histVars>>

StartUnlocked == starting /\ \A e \in Epochs : phase[e] # "replaced"

StartOpens(saves, perUtterance) ==
  LET e == activeEpoch + 1 IN
  /\ StartUnlocked /\ activeEpoch < MaxEpoch
  /\ activeEpoch' = e
  /\ starting' = FALSE
  /\ live' = e
  /\ phase' = [phase EXCEPT ![e] = "live"]
  /\ capture' = [capture EXCEPT ![e] = "running"]
  /\ keeps' = IF saves THEN keeps \cup {e} ELSE keeps
  /\ clipped' = IF saves /\ perUtterance THEN clipped \cup {e} ELSE clipped
  /\ task' = [task EXCEPT ![e] = "setup"]
  /\ UNCHANGED <<flagVars, audio, fileVars, closed, histVars>>

(* open_input fails before the epoch is claimed, or spawn_capture after it. *)
StartFails ==
  /\ StartUnlocked
  /\ starting' = FALSE
  /\ activeEpoch' \in {activeEpoch, activeEpoch + 1} \cap 0..MaxEpoch
  /\ UNCHANGED <<live, flagVars, sessionVars, task, fileVars, closed, histVars>>

-----------------------------------------------------------------------------
(* stop_stream and cancel_stream, the part under the StreamState lock.     *)

Newest(e) == IF e > newestTaken THEN e ELSE newestTaken

(* Mutant: a claim does not look at `settled`.                             *)
ClaimUnchecked(e) == e

(* claim_detached_stream: a settled claim empties the slot.                *)
Claim(e) == IF e \in settled THEN 0 ELSE e

Stop ==
  /\ ~starting /\ live # 0
  /\ live' = 0
  /\ detached' = Claim(live)
  /\ phase' = [phase EXCEPT ![live] = "finishing"]
  /\ newestTaken' = Newest(live)
  /\ UNCHANGED <<activeEpoch, starting, discard, settled, capture, keeps,
                 clipped, audio, task, fileVars, closed, kept>>

(* settle_detached_on_cancel.                                              *)
SettleOnCancel(user, discards) ==
  IF live # 0 \/ (user /\ ~discards) THEN detached' = 0 /\ UNCHANGED discard
  ELSE IF user THEN detached' = 0 /\ discard' = discard \cup ({detached} \ {0})
  ELSE UNCHANGED <<detached, discard>>

(* A recovery cancel finishes a live session that keeps its recording.     *)
Finishes(e, user, discards) == user /\ ~discards /\ e \in keeps

Cancel(user, discards) ==
  /\ ~starting /\ activeEpoch < MaxEpoch  \* bound
  /\ SettleOnCancel(user, discards)
  /\ activeEpoch' = activeEpoch + 1
  /\ live' = 0
  /\ phase' = IF live = 0 THEN phase
              ELSE [phase EXCEPT ![live] = IF Finishes(live, user, discards)
                                           THEN "finishing" ELSE "dropping"]
  /\ newestTaken' = Newest(live)
  /\ kept' = IF discards THEN kept
             ELSE IF live # 0 THEN kept \cup ({live} \cap keeps)
             ELSE kept \cup ({detached} \ {0})
  /\ UNCHANGED <<starting, settled, capture, keeps, clipped, audio, task,
                 fileVars, closed>>

UserCancel     == Cancel(TRUE, TRUE)
RecoveryCancel == Cancel(TRUE, FALSE)

(* The closed handler releases the parked session it saw `closed` of.      *)
ReleaseCancel ==
  /\ \E e \in closed : live \in {0, e}
  /\ Cancel(FALSE, TRUE)

(* A batch session claims an epoch, or a cancel_record retires one.        *)
RetireEpoch ==
  /\ activeEpoch < MaxEpoch  \* bound
  /\ activeEpoch' = activeEpoch + 1
  /\ UNCHANGED <<lockVars, flagVars, sessionVars, task, fileVars, closed, histVars>>

-----------------------------------------------------------------------------
(* finish() and Drop, outside the lock: both stop the capture, signal the   *)
(* task, and join the capture thread.  Drop then aborts the task.           *)

(* Mutant: replacing a session does not stop its capture.                  *)
StoppingUnlessReplaced(e) == phase[e] \in {"finishing", "dropping"}

Stopping(e) == phase[e] \in {"finishing", "dropping", "replaced"}

WsStop(e) == Stopping(e) \/ phase[e] = "finished"

Finish(e) ==
  /\ phase[e] = "finishing" /\ capture[e] = "exited"
  /\ phase' = [phase EXCEPT ![e] = "finished"]
  /\ UNCHANGED <<activeEpoch, lockVars, flagVars, capture, keeps, clipped, audio,
                 task, fileVars, closed, histVars>>

(* An abort ends the task at an await point: past its last one it goes on. *)
Drop(e) ==
  /\ phase[e] \in {"dropping", "replaced"} /\ capture[e] = "exited"
  /\ phase' = [phase EXCEPT ![e] = "gone"]
  /\ task' = [task EXCEPT ![e] = IF @ \in {"closing", "done"} THEN @ ELSE "aborted"]
  /\ UNCHANGED <<activeEpoch, lockVars, flagVars, capture, keeps, clipped, audio,
                 fileVars, closed, histVars>>

CaptureAudio(e) ==
  /\ capture[e] = "running" /\ e \notin audio
  /\ audio' = audio \cup {e}
  /\ UNCHANGED <<activeEpoch, lockVars, flagVars, phase, capture, keeps, clipped,
                 task, fileVars, closed, histVars>>

CaptureExits(e) ==
  /\ capture[e] = "running"
  /\ capture' = [capture EXCEPT ![e] = "exited"]
  /\ UNCHANGED <<activeEpoch, lockVars, flagVars, phase, keeps, clipped, audio,
                 task, fileVars, closed, histVars>>

(* run_capture returns once `stop` is set ...                              *)
CaptureStops(e) == Stopping(e) /\ CaptureExits(e)

(* ... which a terminal device error does too, or it could not open.       *)
CaptureLost(e) == ~Stopping(e) /\ CaptureExits(e)

-----------------------------------------------------------------------------
(* The WebSocket task.                                                      *)

(* settle_detached_stream.                                                 *)
Settle(e) ==
  /\ settled' = settled \cup {e}
  /\ detached' = IF detached = e THEN 0 ELSE detached
  /\ UNCHANGED discard

TaskGoes(e, next) ==
  /\ task' = [task EXCEPT ![e] = next]
  /\ UNCHANGED <<activeEpoch, lockVars, sessionVars, histVars>>

Connects(e) ==
  /\ task[e] = "setup"
  /\ TaskGoes(e, "live")
  /\ UNCHANGED <<flagVars, fileVars, closed>>

(* fail!: retire the slot, report, close.                                  *)
SetupFails(e) ==
  /\ task[e] = "setup"
  /\ Settle(e)
  /\ TaskGoes(e, "closing")
  /\ UNCHANGED <<fileVars, closed>>

(* A stop, or the PCM channel closed by the capture thread's end.          *)
Drains(e) ==
  /\ task[e] = "live" /\ (WsStop(e) \/ capture[e] = "exited")
  /\ TaskGoes(e, "draining")
  /\ UNCHANGED <<flagVars, fileVars, closed>>

(* A `final` of an utterance: forward_saved queues its clip unless a Cancel *)
(* discarded the drain.                                                     *)
CutsClip(e) ==
  /\ task[e] \in {"live", "draining"} /\ e \in clipped \cap audio
  /\ e \notin discard
  /\ cut[e] < MaxClips  \* bound
  /\ cut' = [cut EXCEPT ![e] = @ + 1]
  /\ UNCHANGED <<activeEpoch, lockVars, flagVars, sessionVars, task, jobs, wav,
                 written, closed, histVars>>

(* Mutant: the recording is written whatever a Cancel said.                *)
SettlesUnread(e, nonEmpty) ==
  /\ task[e] \in {"live", "draining"}
  /\ Settle(e)
  /\ LET saves == cut[e] = 0 /\ e \in keeps \cap audio /\ nonEmpty IN
     /\ TaskGoes(e, IF cut[e] > 0 THEN "clipping" ELSE IF saves THEN "saving"
                    ELSE "closing")
     /\ jobs' = IF saves THEN jobs \cup {e} ELSE jobs
  /\ UNCHANGED <<wav, cut, written, closed>>

(* Mutant: the flag is read, the slot is not retired.                      *)
SettlesKeepsSlot(e, nonEmpty) ==
  /\ task[e] \in {"live", "draining"}
  /\ UNCHANGED <<settled, detached, discard>>
  /\ LET saves == cut[e] = 0 /\ e \in (keeps \cap audio) \ discard /\ nonEmpty IN
     /\ TaskGoes(e, IF cut[e] > 0 THEN "clipping" ELSE IF saves THEN "saving"
                    ELSE "closing")
     /\ jobs' = IF saves THEN jobs \cup {e} ELSE jobs
  /\ UNCHANGED <<wav, cut, written, closed>>

(* The end of the live loop (the socket died) or of the drain, and the      *)
(* task's one decision: clips were cut, or the session's copy, unless a     *)
(* Cancel discarded it or the speech gate left nothing, goes to a blocking  *)
(* job.                                                                     *)
Settles(e, nonEmpty) ==
  /\ task[e] \in {"live", "draining"}
  /\ Settle(e)
  /\ LET saves == cut[e] = 0 /\ e \in (keeps \cap audio) \ discard /\ nonEmpty IN
     /\ TaskGoes(e, IF cut[e] > 0 THEN "clipping" ELSE IF saves THEN "saving"
                    ELSE "closing")
     /\ jobs' = IF saves THEN jobs \cup {e} ELSE jobs
  /\ UNCHANGED <<wav, cut, written, closed>>

(* The job outlives an aborted task; a write can fail.                     *)
SaveJob(e, ok) ==
  /\ e \in jobs
  /\ jobs' = jobs \ {e}
  /\ wav' = IF ok THEN wav \cup {e} ELSE wav
  /\ UNCHANGED <<activeEpoch, lockVars, flagVars, sessionVars, task, cut, written,
                 closed, histVars>>

(* The clip writer, a thread of its own, also outlives the task.           *)
WritesClip(e) ==
  /\ written[e] < cut[e]
  /\ written' = [written EXCEPT ![e] = @ + 1]
  /\ UNCHANGED <<activeEpoch, lockVars, flagVars, sessionVars, task, jobs, wav,
                 cut, closed, histVars>>

Saved(e) ==
  /\ \/ task[e] = "saving" /\ e \notin jobs
     \/ task[e] = "clipping" /\ written[e] = cut[e]
  /\ TaskGoes(e, "closing")
  /\ UNCHANGED <<flagVars, fileVars, closed>>

(* emit_if_active(.., "closed"): the task's last event.                    *)
Closes(e) ==
  /\ task[e] = "closing"
  /\ TaskGoes(e, "done")
  /\ closed' = IF activeEpoch = e THEN closed \cup {e} ELSE closed
  /\ UNCHANGED <<flagVars, fileVars>>

-----------------------------------------------------------------------------
Commands ==
  \/ StartBegin
  \/ Stop
  \/ UserCancel
  \/ RecoveryCancel
  \/ ReleaseCancel
  \/ RetireEpoch

StartReturns == StartFails \/ \E s, u \in BOOLEAN : StartOpens(s, u)

World(e) ==
  \/ CaptureAudio(e)
  \/ CaptureLost(e)
  \/ CutsClip(e)

SessionThread(e) ==
  \/ CaptureStops(e)
  \/ Finish(e)
  \/ Drop(e)

TaskStep(e) ==
  \/ Connects(e)
  \/ SetupFails(e)
  \/ Drains(e)
  \/ Saved(e)
  \/ Closes(e)

TaskEnds(e) == \E nonEmpty \in BOOLEAN : Settles(e, nonEmpty)

Disk(e) == WritesClip(e) \/ \E ok \in BOOLEAN : SaveJob(e, ok)

Next ==
  \/ Commands
  \/ StartReturns
  \/ \E e \in Epochs : \/ World(e)
                       \/ SessionThread(e)
                       \/ TaskStep(e)
                       \/ TaskEnds(e)
                       \/ Disk(e)

Spec == Init /\ [][Next]_vars

(* Threads are scheduled, disk jobs end, and the task's connect, writes and *)
(* drain reads have deadlines; a live loop may run for as long as nobody     *)
(* stops it.                                                                *)
Fairness ==
  /\ WF_vars(StartReturns)
  /\ \A e \in Epochs :
       /\ WF_vars(SessionThread(e))
       /\ WF_vars(TaskStep(e))
       /\ WF_vars(TaskEnds(e) /\ task[e] = "draining")
       /\ WF_vars(Disk(e))

FairSpec == Spec /\ Fairness

-----------------------------------------------------------------------------
(* Once a Cancel has discarded a drain, it saves no session recording and    *)
(* cuts no further clip: the flag is read under the lock that set it.        *)
DiscardedSavesNoMore ==
  [][\A e \in discard : wav' \cap {e} = wav \cap {e} /\ cut'[e] = cut[e]]_vars

(* A Cancel that reports a discard reaches a drain still to decide: the slot *)
(* never names one that has settled or was aborted, even when stop claims    *)
(* it after its task already failed; and it is the newest session the user   *)
(* stopped, never an older drain whose text is still to come, nor one a      *)
(* recovery's cancel spared, whose task is never aborted either.            *)
CancelIsHeeded ==
  [][/\ \A e \in discard' \ discard :
          e = newestTaken /\ task[e] \in {"setup", "live", "draining"}
     /\ \A e \in kept' : e \notin discard' /\ task'[e] # "aborted"]_vars

(* start_stream always gives the lock back: the join it does under it only  *)
(* waits for a capture thread that was told to stop.                        *)
StartReturnsTheLock == starting ~> ~starting

(* "Set by a user's Cancel after stop: the drain writes no recording from    *)
(* then on" (DetachedStream::discard, session.rs): neither the session's    *)
(* file nor a clip.                                                         *)
DiscardedWritesNothing ==
  [][\A e \in discard : wav' \cap {e} = wav \cap {e} /\ written'[e] = written[e]]_vars
=============================================================================
