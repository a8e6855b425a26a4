--------------------------- MODULE RecordSession ---------------------------
(***************************************************************************)
(* Batch dictation: one microphone clip, recorded into a buffer and POSTed *)
(* when the user stops (src-tauri/src/session.rs, the second half, and its *)
(* commands in src-tauri/src/commands/session.rs).                         *)
(*                                                                         *)
(* Four kinds of thread meet here.  The commands start_record, stop_record *)
(* and cancel_record run on a blocking pool: each does a first part under  *)
(* the RecordState lock and the rest (joining the capture thread) outside  *)
(* it, so their second parts overlap.  Every session has a capture thread, *)
(* which may lose its device and then salvages the clip on its own, and a  *)
(* transcription task that outlives the session.  They share the active    *)
(* epoch, the slot naming the batch a Cancel may still reach, and the      *)
(* short list of cancelled epochs.                                         *)
(*                                                                         *)
(* A session is named by the epoch it claimed.                             *)
(***************************************************************************)
EXTENDS Integers, Sequences, FiniteSets, SequencesExt

CONSTANTS
  MaxEpoch,     \* bound on ACTIVE_EPOCH
  MaxSessions,  \* bound on the number of sessions ever started
  CancelCap     \* CANCELLED_BATCHES_CAP

ASSUME BoundsAssumption == MaxEpoch \in Nat /\ MaxSessions \in Nat
ASSUME CapAssumption == CancelCap \in Nat \ {0}

Epochs == 1..MaxEpoch

VARIABLES
  activeEpoch,  \* ACTIVE_EPOCH: only its session's events reach the window
  starting,     \* start_record holds the RecordState lock
  slot,         \* RecordState: the live session's epoch, 0 = None
  detached,     \* DETACHED_BATCH_EPOCH, 0 = none
  cancelled,    \* CANCELLED_BATCHES, oldest first
  phase,        \* per session: who holds the RecordSession value
  capture,      \* per session: its capture thread
  lost,         \* sessions whose device was lost (device_lost)
  keeps,        \* sessions started with a save dir ("Keep recordings")
  buffered,     \* sessions whose buffer holds audio
  task,         \* per session: its transcribe_recording task
  clip,         \* sessions whose task was handed a non-empty clip
  wav, txt,     \* recordings and sidecars on disk
  closing,      \* sessions whose `closed` is still to be emitted
  armed,        \* of those, the ones that passed emit_if_active's epoch check
  seen          \* sessions whose `closed` the window received

(* History: what the properties compare the state with.                    *)
VARIABLES
  spawns,       \* per session: transcriptions spawned
  marked,       \* sessions a cancel ever recorded as cancelled
  disowned,     \* those it recorded before their task's last look at the list
  kept,         \* sessions a recovery cancel spared
  newestTaken,  \* newest session a stop or a cancel took out of the slot
  late          \* salvages that filled a slot emptied by a newer session's cancel

sharedVars == <<activeEpoch, starting, slot, detached, cancelled>>
threadVars == <<phase, capture, lost, keeps, buffered>>
taskVars   == <<task, clip, wav, txt>>
eventVars  == <<closing, armed, seen>>
histVars   == <<spawns, marked, disowned, kept, newestTaken, late>>
recordVars == <<sharedVars, threadVars, taskVars, eventVars, histVars>>

Phases == {"none", "live", "joining", "discarding", "dropping", "replaced",
           "finished", "gone"}

SharedType ==
  /\ activeEpoch \in 0..MaxEpoch
  /\ starting \in BOOLEAN
  /\ slot \in 0..MaxEpoch
  /\ detached \in 0..MaxEpoch
  /\ cancelled \in Seq(Epochs) /\ Len(cancelled) <= CancelCap

ThreadType ==
  /\ phase \in [Epochs -> Phases]
  /\ capture \in [Epochs -> {"off", "running", "failing", "salvaging", "exited"}]
  /\ lost \subseteq Epochs /\ keeps \subseteq Epochs /\ buffered \subseteq Epochs

TaskType ==
  /\ task \in [Epochs -> {"none", "spawned", "saving", "saved", "posting",
                           "labelling", "emitting"}]
  /\ clip \subseteq Epochs /\ wav \subseteq Epochs /\ txt \subseteq Epochs

EventType ==
  closing \subseteq Epochs /\ armed \subseteq Epochs /\ seen \subseteq Epochs

HistType ==
  /\ spawns \in [Epochs -> Nat]
  /\ marked \subseteq Epochs /\ disowned \subseteq Epochs
  /\ kept \subseteq Epochs /\ late \subseteq Epochs
  /\ newestTaken \in 0..MaxEpoch

(* The shared slots hold epochs that were claimed or 0, and the cancelled    *)
(* list, never 0, stays within its cap.                                     *)
RecordTypeOK == SharedType /\ ThreadType /\ TaskType /\ EventType /\ HistType

RecordInit ==
  /\ activeEpoch = 0 /\ starting = FALSE /\ slot = 0 /\ detached = 0
  /\ cancelled = <<>>
  /\ phase = [e \in Epochs |-> "none"]
  /\ capture = [e \in Epochs |-> "off"]
  /\ task = [e \in Epochs |-> "none"]
  /\ lost = {} /\ keeps = {} /\ buffered = {}
  /\ clip = {} /\ wav = {} /\ txt = {}
  /\ closing = {} /\ armed = {} /\ seen = {}
  /\ spawns = [e \in Epochs |-> 0]
  /\ marked = {} /\ disowned = {} /\ kept = {} /\ late = {}
  /\ newestTaken = 0

-----------------------------------------------------------------------------
(* The cancelled list and the detached slot.                                *)

IsCancelled(e) == e \in Range(cancelled)

(* mark_batch_cancelled: epoch 0 is never recorded, an epoch already there *)
(* keeps its place, and the oldest falls out beyond the cap.               *)
Remember(q, e) ==
  IF e = 0 \/ e \in Range(q) THEN q
  ELSE IF Len(q) >= CancelCap THEN Tail(Append(q, e)) ELSE Append(q, e)

(* publish_salvaged_batch: fetch_max.                                       *)
Publish(old, e) == IF old > e THEN old ELSE e

(* The task's last look at the list is behind it.                          *)
Decided(e) == task[e] = "emitting"
Done(e) == Decided(e) /\ e \notin closing

(* mark_batch_cancelled(e), and what the history notes of it.              *)
Mark(e) ==
  /\ cancelled' = Remember(cancelled, e)
  /\ marked' = marked \cup ({e} \ {0})
  /\ disowned' = disowned \cup {d \in {e} \ {0} : ~Decided(d)}

MarkNothing == UNCHANGED <<cancelled, marked, disowned>>

-----------------------------------------------------------------------------
(* start_record: the whole command holds the RecordState lock, across the  *)
(* join of the session it replaces.                                        *)

Started == {e \in Epochs : phase[e] # "none"}

StartBegin ==
  /\ ~starting
  /\ Cardinality(Started) < MaxSessions /\ activeEpoch < MaxEpoch  \* bounds
  /\ starting' = TRUE
  /\ slot' = 0
  /\ phase' = [e \in Epochs |-> IF e = slot THEN "replaced" ELSE phase[e]]
  /\ UNCHANGED <<activeEpoch, detached, cancelled, capture, lost, keeps,
                 buffered, taskVars, eventVars, histVars>>

StartUnlocked == starting /\ \A e \in Epochs : phase[e] # "replaced"

StartOpens(save) ==
  LET e == activeEpoch + 1 IN
  /\ StartUnlocked /\ activeEpoch < MaxEpoch
  /\ activeEpoch' = e
  /\ starting' = FALSE
  /\ slot' = e
  /\ phase' = [phase EXCEPT ![e] = "live"]
  /\ capture' = [capture EXCEPT ![e] = "running"]
  /\ keeps' = IF save THEN keeps \cup {e} ELSE keeps
  /\ UNCHANGED <<detached, cancelled, lost, buffered, taskVars,
                 eventVars, histVars>>

(* open_input fails before the epoch is claimed, or the thread cannot be   *)
(* spawned after it.                                                       *)
StartFails ==
  /\ StartUnlocked
  /\ starting' = FALSE
  /\ activeEpoch' \in {activeEpoch, activeEpoch + 1} \cap 0..MaxEpoch
  /\ UNCHANGED <<slot, detached, cancelled, threadVars, taskVars, eventVars,
                 histVars>>

-----------------------------------------------------------------------------
(* stop_record and cancel_record, the part under the lock.                 *)

Newest(e) == IF e > newestTaken THEN e ELSE newestTaken

Stop ==
  /\ ~starting /\ slot # 0
  /\ slot' = 0
  /\ detached' = slot
  /\ phase' = [phase EXCEPT ![slot] = "joining"]
  /\ newestTaken' = Newest(slot)
  /\ UNCHANGED <<activeEpoch, starting, cancelled, capture, lost, keeps, buffered,
                 taskVars, eventVars, spawns, marked, disowned,
                 kept, late>>

(* Mutant: a recovery cancel with no live session does not empty the slot. *)
SettleForgetsOnlyOnTake(user, discard) ==
  IF slot # 0 THEN detached' = 0 /\ MarkNothing
  ELSE detached' = detached /\ IF user /\ discard THEN Mark(detached) ELSE MarkNothing

(* settle_detached_batch_on_cancel.                                        *)
Settle(user, discard) ==
  IF slot # 0 \/ ~discard THEN detached' = 0 /\ MarkNothing
  ELSE detached' = detached /\ IF user THEN Mark(detached) ELSE MarkNothing

(* Which branch of cancel_record a live session takes.                     *)
Finishes(e, user, discard) == ~discard /\ user /\ e \in keeps

Cancel(user, discard) ==
  /\ ~starting /\ activeEpoch < MaxEpoch  \* bound
  /\ Settle(user, discard)
  /\ activeEpoch' = activeEpoch + 1
  /\ slot' = 0
  /\ phase' = IF slot = 0 THEN phase
              ELSE [phase EXCEPT ![slot] = IF Finishes(slot, user, discard)
                                           THEN "joining" ELSE "discarding"]
  /\ newestTaken' = Newest(slot)
  /\ kept' = IF discard THEN kept
             ELSE IF slot # 0 THEN kept \cup {e \in {slot} : Finishes(e, user, discard)}
             ELSE kept \cup {e \in {detached} \ ({0} \cup disowned) :
                                phase[e] # "discarding"}
  /\ UNCHANGED <<starting, capture, lost, keeps, buffered, taskVars,
                 eventVars, spawns, late>>

UserCancel     == Cancel(TRUE, TRUE)
RecoveryCancel == Cancel(TRUE, FALSE)

(* The closed handler's release.  The window sends it for the session whose *)
(* `closed` it has just seen, before a newer session is in the slot.       *)
ReleaseCancel ==
  /\ \E e \in seen : slot \in {0, e}
  /\ Cancel(FALSE, TRUE)

(* retire_session_epoch, and a streaming session claiming or retiring one. *)
RetireEpoch ==
  /\ activeEpoch < MaxEpoch  \* bound
  /\ activeEpoch' = activeEpoch + 1
  /\ UNCHANGED <<starting, slot, detached, cancelled, threadVars, taskVars,
                 eventVars, histVars>>

-----------------------------------------------------------------------------
(* The rest of stop_record and cancel_record, outside the lock: discard(),  *)
(* finish() and Drop, which both wait for the capture thread.              *)

Stopping(e) == e \in lost \/ phase[e] \in {"joining", "dropping", "replaced"}

(* `discard` is set for as long as the capture thread can read it.         *)
DiscardFlag(e) == phase[e] = "dropping"

(* RecordSession::discard, up to Drop's join.                              *)
Discard(e) ==
  /\ phase[e] = "discarding"
  /\ phase' = [phase EXCEPT ![e] = "dropping"]
  /\ Mark(e)
  /\ UNCHANGED <<activeEpoch, starting, slot, detached, capture, lost, keeps,
                 buffered, taskVars, eventVars, spawns, kept,
                 newestTaken, late>>

(* tauri::async_runtime::spawn(transcribe_recording(.., take(buffer))).     *)
Spawn(e) ==
  /\ task' = [task EXCEPT ![e] = "spawned"]
  /\ spawns' = [spawns EXCEPT ![e] = @ + 1]
  /\ clip' = clip \cup (buffered \cap {e})
  /\ buffered' = buffered \ {e}

SpawnNothing == UNCHANGED <<task, spawns, clip, buffered>>

(* Mutant: finish() transcribes although the salvage took the clip.        *)
FinishIgnoresLoss(e) ==
  /\ phase[e] = "joining" /\ capture[e] = "exited"
  /\ phase' = [phase EXCEPT ![e] = "finished"]
  /\ Spawn(e)
  /\ lost' = lost \ {e}
  /\ UNCHANGED <<sharedVars, capture, keeps, wav, txt,
                 eventVars, marked, disowned, kept, newestTaken, late>>

(* Mutant: finish() publishes the epoch again, after its join.             *)
FinishRepublishes(e) ==
  /\ phase[e] = "joining" /\ capture[e] = "exited"
  /\ phase' = [phase EXCEPT ![e] = "finished"]
  /\ IF e \in lost THEN SpawnNothing ELSE Spawn(e)
  /\ lost' = lost \ {e}
  /\ detached' = e
  /\ UNCHANGED <<activeEpoch, starting, slot, cancelled, capture,
                 keeps, wav, txt, eventVars, marked,
                 disowned, kept, newestTaken, late>>

(* RecordSession::finish after its join.                                   *)
Finish(e) ==
  /\ phase[e] = "joining" /\ capture[e] = "exited"
  /\ phase' = [phase EXCEPT ![e] = "finished"]
  /\ IF e \in lost THEN SpawnNothing ELSE Spawn(e)
  /\ lost' = lost \ {e}
  /\ UNCHANGED <<sharedVars, capture, keeps, wav, txt,
                 eventVars, marked, disowned, kept, newestTaken, late>>

(* Drop after its join.                                                    *)
Drop(e) ==
  /\ phase[e] \in {"dropping", "replaced"} /\ capture[e] = "exited"
  /\ phase' = [phase EXCEPT ![e] = "gone"]
  /\ buffered' = buffered \ {e}
  /\ lost' = lost \ {e}
  /\ UNCHANGED <<sharedVars, capture, keeps, taskVars, eventVars,
                 histVars>>

-----------------------------------------------------------------------------
(* The capture thread.                                                      *)

CaptureAudio(e) ==
  /\ capture[e] = "running" /\ ~Stopping(e)
  /\ buffered' = buffered \cup {e}
  /\ UNCHANGED <<sharedVars, phase, capture, lost, keeps, taskVars,
                 eventVars, histVars>>

(* The stream's error callback: a terminal loss sets device_lost and stop. *)
DeviceLost(e) ==
  /\ capture[e] = "running"
  /\ lost' = lost \cup {e}
  /\ UNCHANGED <<sharedVars, phase, capture, keeps, buffered, taskVars,
                 eventVars, histVars>>

(* run_record_capture returns Err: the stream could not be built or played. *)
CaptureFails(e) ==
  /\ capture[e] = "running" /\ e \notin buffered
  /\ capture' = [capture EXCEPT ![e] = "failing"]
  /\ closing' = closing \cup {e}
  /\ UNCHANGED <<sharedVars, phase, lost, keeps, buffered, taskVars,
                 armed, seen, histVars>>

CaptureFailed(e) ==
  /\ capture[e] = "failing" /\ e \notin closing
  /\ capture' = [capture EXCEPT ![e] = "exited"]
  /\ UNCHANGED <<sharedVars, phase, lost, keeps, buffered, taskVars,
                 eventVars, histVars>>

(* It returns Ok once `stop` is set; the match reads device_lost, discard.  *)
CaptureEnds(e) ==
  /\ capture[e] = "running" /\ Stopping(e)
  /\ capture' = [capture EXCEPT ![e] =
                   IF e \in lost /\ ~DiscardFlag(e) THEN "salvaging" ELSE "exited"]
  /\ UNCHANGED <<sharedVars, phase, lost, keeps, buffered, taskVars,
                 eventVars, histVars>>

(* The salvage arm: no lock is held, so a stop, a cancel or the next start  *)
(* may have come first.                                                    *)
Salvage(e) ==
  /\ capture[e] = "salvaging"
  /\ capture' = [capture EXCEPT ![e] = "exited"]
  /\ detached' = Publish(detached, e)
  /\ Spawn(e)
  /\ late' = IF newestTaken > e /\ detached < e THEN late \cup {e} ELSE late
  /\ kept' = kept \ {e}
  /\ UNCHANGED <<activeEpoch, starting, slot, cancelled, phase, lost, keeps,
                 wav, txt, eventVars, marked, disowned,
                 newestTaken>>

-----------------------------------------------------------------------------
(* transcribe_recording.  Each step ends where the code awaits; what it     *)
(* reads of the cancelled list it reads at its start.                      *)

(* The task moves to `next`, with or without a `closed` to emit.  The       *)
(* recording, final and error events change nothing here and are left out. *)
TaskGoes(e, next, closes) ==
  /\ task' = [task EXCEPT ![e] = next]
  /\ closing' = closing \cup {d \in {e} : closes}
  /\ UNCHANGED <<sharedVars, threadVars, armed, seen, histVars>>

TaskBegins(e) ==
  /\ task[e] = "spawned"
  /\ TaskGoes(e, IF IsCancelled(e) THEN "emitting"
                 ELSE IF e \in keeps THEN "saving" ELSE "saved", FALSE)
  /\ UNCHANGED <<clip, wav, txt>>

(* save_recording on the blocking pool; a clip can trim to nothing, and a   *)
(* write can fail.                                                         *)
Saves(e, ok) ==
  /\ task[e] = "saving"
  /\ TaskGoes(e, "saved", FALSE)
  /\ wav' = IF ok /\ e \in clip THEN wav \cup {e} ELSE wav
  /\ UNCHANGED <<clip, txt>>

SavePanics(e) ==
  /\ task[e] = "saving"
  /\ TaskGoes(e, "emitting", TRUE)
  /\ clip' = clip \ {e}
  /\ UNCHANGED <<wav, txt>>

(* Mutant: no look at the list between the save and the upload.            *)
UploadsUnchecked(e) ==
  /\ task[e] = "saved"
  /\ clip' = clip \ {e}
  /\ UNCHANGED txt
  /\ IF e \notin clip
     THEN TaskGoes(e, "emitting", TRUE) /\ UNCHANGED wav
     ELSE TaskGoes(e, "posting", FALSE) /\ UNCHANGED wav

Uploads(e) ==
  /\ task[e] = "saved"
  /\ clip' = clip \ {e}
  /\ UNCHANGED txt
  /\ IF e \notin clip
     THEN TaskGoes(e, "emitting", TRUE) /\ UNCHANGED wav
     ELSE IF IsCancelled(e)
     THEN TaskGoes(e, "emitting", FALSE) /\ wav' = wav \ {e}
     ELSE TaskGoes(e, "posting", FALSE) /\ UNCHANGED wav

(* Mutant: a failed transcription is reported but never closed.            *)
AnswerNeverCloses(e, ok) ==
  /\ task[e] = "posting"
  /\ UNCHANGED <<clip, txt>>
  /\ IF IsCancelled(e)
     THEN TaskGoes(e, "emitting", FALSE) /\ wav' = wav \ {e}
     ELSE /\ UNCHANGED wav
          /\ IF ~ok THEN TaskGoes(e, "emitting", FALSE)
             ELSE IF e \in wav THEN TaskGoes(e, "labelling", FALSE)
             ELSE TaskGoes(e, "emitting", TRUE)

(* The server's answer, an error or the POST's timeout.                    *)
Answers(e, ok) ==
  /\ task[e] = "posting"
  /\ UNCHANGED <<clip, txt>>
  /\ IF IsCancelled(e)
     THEN TaskGoes(e, "emitting", FALSE) /\ wav' = wav \ {e}
     ELSE /\ UNCHANGED wav
          /\ IF ok /\ e \in wav THEN TaskGoes(e, "labelling", FALSE)
             ELSE TaskGoes(e, "emitting", TRUE)

(* save_transcript_sidecar on the blocking pool, then the last look.       *)
Labels(e, wrote) ==
  /\ task[e] = "labelling"
  /\ UNCHANGED clip
  /\ IF IsCancelled(e)
     THEN TaskGoes(e, "emitting", FALSE) /\ wav' = wav \ {e} /\ UNCHANGED txt
     ELSE /\ TaskGoes(e, "emitting", TRUE)
          /\ txt' = (IF wrote THEN txt \cup {e} ELSE txt)
          /\ UNCHANGED wav

-----------------------------------------------------------------------------
(* emit_if_active loads the epoch, then emits: two steps.                  *)

Arms(e) ==
  /\ e \in closing \ armed
  /\ IF activeEpoch = e THEN armed' = armed \cup {e} /\ UNCHANGED closing
     ELSE closing' = closing \ {e} /\ UNCHANGED armed
  /\ UNCHANGED <<sharedVars, threadVars, taskVars, seen, histVars>>

Delivers(e) ==
  /\ e \in armed
  /\ armed' = armed \ {e} /\ closing' = closing \ {e} /\ seen' = seen \cup {e}
  /\ UNCHANGED <<sharedVars, threadVars, taskVars, histVars>>

-----------------------------------------------------------------------------
Commands ==
  \/ StartBegin
  \/ Stop
  \/ UserCancel
  \/ RecoveryCancel
  \/ ReleaseCancel
  \/ RetireEpoch

(* What the world does to a session: audio, a fault.                       *)
World(e) ==
  \/ CaptureAudio(e)
  \/ DeviceLost(e)
  \/ CaptureFails(e)

(* The program's own steps in session e's threads.                         *)
Threads(e) ==
  \/ Discard(e)
  \/ Finish(e)
  \/ Drop(e)
  \/ CaptureFailed(e)
  \/ CaptureEnds(e)
  \/ Salvage(e)
  \/ TaskBegins(e)
  \/ \E ok \in BOOLEAN : Saves(e, ok)
  \/ SavePanics(e)
  \/ Uploads(e)
  \/ \E ok \in BOOLEAN : Answers(e, ok)
  \/ \E wrote \in BOOLEAN : Labels(e, wrote)
  \/ Arms(e)
  \/ Delivers(e)

StartReturns == StartFails \/ \E save \in BOOLEAN : StartOpens(save)

RecordNext ==
  \/ Commands
  \/ StartReturns
  \/ \E e \in Epochs : World(e) \/ Threads(e)

RecordSpec == RecordInit /\ [][RecordNext]_recordVars

-----------------------------------------------------------------------------
(* No clip is transcribed twice, and a stop leaves no captured audio behind *)
(* untranscribed: finish() and the device-loss salvage both take the buffer *)
(* and both spawn, and only device_lost, read after the join, keeps the    *)
(* second one from sending an empty clip whose `closed` comes first.        *)
TranscribedExactlyOnce ==
  \A e \in Epochs : /\ spawns[e] <= 1
                    /\ phase[e] = "finished" => e \notin buffered

(* A session a cancel disowned before its task's last look at the list      *)
(* leaves neither .wav nor .txt once the task is done, whichever of the     *)
(* four checks the mark reached it at, unless the list overflowed.          *)
DisownedLeavesNothing ==
  Cardinality(marked) <= CancelCap =>
    \A e \in disowned : Done(e) => e \notin wav \cup txt

(* "A POST not yet sent is skipped": no clip is uploaded after its session  *)
(* was disowned.                                                            *)
DisownedNeverUploaded ==
  [][Cardinality(marked) <= CancelCap =>
       \A e \in disowned : task'[e] = "posting" => task[e] = "posting"]_recordVars

(* A Cancel that finds no live session disowns the newest session taken out *)
(* of the slot or none: never an earlier one whose result the user still    *)
(* waits for.  The exception is a salvage that ran late into an emptied    *)
(* slot.  (claim_detached under the lock, fetch_max in the salvage, nothing *)
(* republished by finish.)                                                  *)
CancelNeverReachesBack ==
  [][\A e \in disowned' \ disowned :
        phase[e] = "discarding" \/ e >= newestTaken \/ e \in late]_recordVars

(* A recovery cancel's keep is final: what it spared no later cancel        *)
(* disowns.                                                                 *)
KeptNeverDisowned == kept \cap disowned = {}

(* The slot never moves back to an older session: stop claims it under the  *)
(* lock, a salvage raises it, and every other writer empties it.           *)
SlotNeverMovesBack == [][detached' >= detached \/ detached' = 0]_recordVars

(* The last word of a session is `closed`: once its capture thread and its   *)
(* task are done and nothing is left to emit, the window has seen `closed`,  *)
(* or another session, or a cancel, has taken the window from it.  Five paths *)
(* end a session (a stop, a lost device, a stream that cannot be built, a    *)
(* failed save, a failed upload); none strands the chip on "transcribing".   *)
Silent(e) ==
  /\ capture[e] = "exited" /\ phase[e] \in {"live", "finished"}
  /\ task[e] \in {"none", "emitting"} /\ e \notin closing

ClosedWhenSilent ==
  \A e \in Epochs : Silent(e) => e \in seen \/ activeEpoch # e

-----------------------------------------------------------------------------
(* What the threads promise together.  The task's steps between its looks   *)
(* at the list are one clip's progress; a session that ends without a task  *)
(* gave its clip up.                                                        *)
Fate(e) ==
  CASE task[e] = "emitting" -> "over"
    [] task[e] \in {"posting", "labelling"} -> "sent"
    [] task[e] \in {"spawned", "saving", "saved"} -> "taken"
    [] task[e] = "none" /\ phase[e] \in {"finished", "gone"} -> "over"
    [] task[e] = "none" /\ phase[e] = "none" -> "none"
    [] OTHER -> "recording"

Promise == INSTANCE BatchClip WITH
  Clips <- Epochs,
  Memory <- CancelCap,
  fate <- [e \in Epochs |-> Fate(e)],
  withdrawn <- Range(cancelled),
  files <- wav \cup txt

(* Every interleaving of the commands, the capture threads and the tasks is *)
(* one of BatchClip's: a clip is taken once, is not sent while its session  *)
(* is on the cancelled list, and leaves a file only if it is not on it when *)
(* the task decides.                                                        *)
KeepsThePromise == Promise!Spec

=============================================================================
