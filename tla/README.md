# Faster Whisper Frontend in TLA+

Faster Whisper Frontend is a desktop dictation and transcription client: a
Tauri 2 application whose Rust core (`src-tauri/src`) owns the microphone, the
sockets, the keyboard and the files, and whose TypeScript window (`src/lib`)
owns the user's session, the settings and everything that talks to the server
over HTTP. A hotkey starts a dictation, the clip or the audio stream goes to a
speech server, and the text that comes back is typed into whatever window has
the focus.

This directory holds TLA+ models of the parts where several threads, tasks,
callbacks or processes meet, the TLC configurations that check them, and proofs
that TLAPS checks. Paths below are relative to the repository's root; a
definition and the lines it stands for are paired in `PROJECT.json`, under
`map`.

- [1. Inventory](#1-inventory)
- [2. Modules](#2-modules-and-the-code-they-model)
- [3. Runs](#3-the-runs-what-each-checks-and-shows)
- [4. Where code and comment disagree](#4-where-code-and-comment-disagree)
- [5. Proofs](#5-proofs)
- [6. Limits](#6-what-is-only-model-checked-and-what-is-not-modelled)
- [7. Plan](#7-plan)

Checking: `tlc -config RecordSession.cfg RecordSession.tla` (one such command per
run of section 3), and `tlapm` on the modules whose names end in `Proofs`.

## 1. Inventory

### How the parts interact

```
 keyboard --evdev--> HotkeyListener --chord engine--> triggers ("hold", "stop", ...)
                          |   held-key map, latch            |
                          |                                  v
                          |                        DictationController (window, one thread)
                          |                  start_/stop_/cancel_ commands |   ^ stream:// events
                          v                                  v             |
                  injection gate                 RecordSession / StreamSession (Rust)
                          ^                          |            |      |
                          |                      MuteWorker   capture   WebSocket task (StreamWs)
                    TextInjection <-- phrases                  thread      |
                          |                                    ClipCutter -+-> recordings on disk
                          v
                 keys, clipboard          TranscribeJobs: files --> jobs on the server, ledger on disk
                                          SettingsSync:   settings <--> the user's document
                                          AppLife:        settings, History, outcome queue
                                                          <--> their files, launch to quit
```

The window sends commands to Rust (asynchronous calls that may return out of
order); Rust answers with events tagged by nothing but the fact that they were
emitted, filtered by one global, the *active epoch*. Everything detached from a
session (a drain, a transcription, a clip writer, a mute guard) outlives it and
meets its successors through globals. That is where this program is hard.

### Components

| Part | State it keeps | Operations | Hard behaviour | What makes it correct |
|---|---|---|---|---|
| Batch session (`session.rs`, `commands/session.rs`) | the `RecordState` slot, `ACTIVE_EPOCH`, `DETACHED_BATCH_EPOCH`, `CANCELLED_BATCHES`, a buffer, a capture thread and a task per session | `start_record`, `stop_record`, `cancel_record` (user, recovery, release), `retire_detached_epoch`, device loss, salvage, transcription | command halves that run outside the lock; a salvage against a stop; a Cancel against a running transcription | each clip transcribed once; Cancel reaches the session on screen and leaves nothing of it; every session ends in `closed` |
| Streaming session (same files) | the `StreamState` slot, `DETACHED_STREAM` with `discard` and `settled`, the task, blocking jobs | `start_stream`, `stop_stream`, `cancel_stream`, drain, save | an abort does not reach a blocking job or another thread; start joins the session it replaces with the lock held | as above, and no start waits for ever |
| WebSocket client (`transport/stream.rs`) | the main loop, the reader task, their channel | connect, writer loop, drain, grace, leftovers, teardown | halves die in either order; half-open links; a stop at any await | nothing received is dropped, each loss is reported, `closed` comes last and always |
| Clip cutter (`ClipCutter`, `ClipWriter`) | a buffer shared with the capture thread, decode marks, a writer thread | mark, cut, drop, label, final save | marks that are late, early or missing; a text held back until the next event | audio is neither lost nor written twice; each file holds its own words |
| Mute worker (`SystemMuteGuard`) | one owner, the outputs it muted | Mute, Unmute, Flush; three exit passes | an Unmute that arrives after the next Mute; bounded waits at exit | the newest session stays muted, everyone else is restored |
| Dictation controller (`streaming.ts`, `dictation.ts`, `App.tsx`) | the session object, the queued press, watchdog and timers | start, stop, cancel, reclassify, event listeners, resume | continuations of awaits that resume in another session | no microphone open behind an idle chip, no chip that listens to nothing or processes for ever |
| Chord engine (`chord_engine.rs`) | fired and held chords | register, step | nested and overlapping chords pressed and released in any order | one press fires one thing; a stop matches every start |
| Linux listener (`evdev.rs`, `held_keys.rs`, `debounce.rs`) | a reader per generation, held holds, the held-key map, the loss latch | start, stop, restart, suspend, unplug, commit | aborted readers run on beside their successors | every started hold has somebody who owes its stop; the gate neither wedges nor goes blind |
| Windows hook (`hotkeys/windows.rs`) | as above | as above | as above | not modelled; shares the chord engine |
| Text injection (`inject/`, `commands/inject.rs`, `streaming.ts`) | the clipboard, a one-entry restore slot, three flags, a snapshot, an injection epoch and its marker | insert (type, paste, copy), cancel, abort, restore, teardown, recovery copy | one insert in flight, reached by stops from outside its chain while restores sleep beside it | the user's clipboard comes back, a dead session's text survives, no restore lands on a text just promised |
| Settings synchronisation (`lib/sync/`) | the base (document, version, stamp, server), the engine's lock and epoch, two pending prompts, categories to reconcile | pull, push, merge, review, resolve, switch of server or category | superseded operations that answer late; edits during every await; a document deleted and re-created | no edit is overwritten unseen, here or on the server; guarded settings wait for consent; nothing is stranded |
| Transcription jobs (`lib/transcribeRun.ts`, `jobsLedger.ts`, `jobsReconcile.ts`, `transport/jobs.rs`) | run slots, a durable ledger | start, retry, cancel, delete, watch, reconcile at launch | a crash at any wait; lost contact with a job that goes on; two watchers for one row | no run is forgotten or lands twice, none the user gave up comes back, the rail always has an owner |
| Configuration (`config/mod.rs`, `lib/persistence.ts`, `commands/config.rs`) | the store, a debounce, a hold, `config.json`, its backups, two session flags, a queued sweep | load, reset, edit, save, freeze, retry, re-register | saves that settle after a later freeze; a reset at one launch, saved over at another | the file follows the window, the hotkeys the file; a reset loses no settings and deletes no History |
| Transcript store and History (`store/transcripts.rs`, `transcriptHistory.ts`, `Settings.tsx`) | the mirror, parked and typed copies, a listing underway, the record files | record, edit, delete, list, sweep, wipe | a listing beside writes it may not see; writes that outlive their record | the mirror never goes back, and ends as the disk is; what was deleted stays deleted |
| Usage outcomes (`usageOutcome.ts`, `store/usage_queue.rs`, `transport/usage.rs`) | a queue and its file | append, save, post, retry, drop | a whole-file save before the read; a post that got there unanswered | an outcome leaves the file only when the server has it or refused it |
| Quit handshake (`quit.rs`, `App.tsx`) | who asked, who answered | quit, flush, confirm, time out, session end | flushes that only begin what must be awaited | a confirmed quit loses nothing that was there when it was asked |
| Identifier migration (`migrate_identifier.rs`) | two data directories | move, resume | a crash at any step | planned |
| Preloading (`lib/preload.ts`) | leases | hold, renew | late renewals | planned |
| Audio devices and codecs, focus tracking, discovery, auxiliary windows, text algorithms, user interface, logging | - | - | external I/O, rendering or string layout | not modelled, see section 6 |

Everything here that is hard to test is listed, at its line, under `hazards` in
`PROJECT.json`, with the properties that would catch it.

## 2. Modules and the code they model

Each module opens with a comment that says what is a variable, what is a
bound and what is history. Actions carry the names of the functions they stand
for where there is one; a handler with an `await`, a lock released half-way or a
thread join is split there and nowhere else.

### RecordSession, BatchClip (and TranscriptionProofs)

Models `src-tauri/src/session.rs` from the batch half on and the record commands
of `src-tauri/src/commands/session.rs`. A session is its epoch.

| TLA+ | code |
|---|---|
| `StartBegin`, `StartOpens`, `StartFails` | `start_record`: claim of the epoch under the lock and the drop of what the slot held; `RecordSession::start` returning. `starting` is the lock being held across it |
| `Stop`, `Finish` | `stop_record`: take the session and claim the detached slot under the lock; join and spawn the transcription outside it (`finish`) |
| `UserCancel`, `RecoveryCancel`, `ReleaseCancel`, `Discard`, `Drop` | `cancel_record` with its flags and the two ways it lets a session go |
| `RetireEpoch` | `retire_epoch` and `retire_detached_epoch` |
| `CaptureAudio`, `DeviceLost`, `CaptureFails`, `CaptureEnds`, `Salvage` | the capture thread and `salvage` |
| `TaskBegins` .. `Labels` | `transcribe_recording`, cut at its four looks at the cancelled list |
| `Arms`, `Delivers` | `emit_if_active`: the load of the epoch, then the emit |

Of the events only `closed` is kept: `closing` holds the sessions that still owe
it, `seen` those whose `closed` reached the window. Left out: the level meter and
`announce_mic`, the recording-length cap, the "overrides ignored" notice, the
texts and errors that precede `closed`. Removing a file always succeeds. A release command
comes only from a window that still shows the session (the environment's
assumption in `ReleaseCancel`).

`BatchClip` is the abstract specification: what the feature promises about one
clip, with no threads, locks or lists. A clip is recorded, taken once, kept on
disk before it is sent, sent once and not while withdrawn, and what it leaves is
decided in one step by whether it is withdrawn at that step; a memory of
withdrawals forgets one only when full. `RecordSession` implements it under
the mapping stated at its end (`Promise`): `fate` is read off `task` and
`phase` (`Fate`), `withdrawn` is the range of the cancelled list, `files` is
`wav \cup txt`. Commands and captures map to `Record`, `GiveUp`, `Take`,
`Withdraw` or a stutter, each look of the task to one of `Keep`, `Send`,
`Conclude` or a stutter. `KeepsThePromise` is that refinement: checked by `record`
and proved (section 5).

### StreamSession (and StreamProofs)

The streaming twin: `start_stream`, `stop_stream`, `cancel_stream`, `finish`,
`Drop`, `DETACHED_STREAM`. Its WebSocket task is the sequence of its await
points, because those are where an abort can end it; the save runs as a blocking
job that an abort does not reach (`jobs`), and clips are written by a thread of
their own. Only `closed` is kept of the events, and an emit is one step: the
two-step gate is `RecordSession`'s subject.

### StreamWs (and StreamProofs)

`transport/stream.rs::run`: connecting with its deadline and its race against
the stop, the writer loop with keep-alive, the reader task and its channel,
drain, the grace after a failed write, the leftovers, the teardown. `link` is the
network as the kernel knows it: `up`, `broken` (operations fail), `hung`
(nothing fails, nothing arrives), `over` (closed by the server). Audio is not
carried; frames are their kinds.

### ClipCutter (and StreamProofs)

`ClipCutter` and `ClipWriter` of `transport/stream.rs`. Audio is a sequence of
numbered units, a word is the ordinal of the utterance it was spoken in, so
"this file holds its own audio and its own words" can be said. The server
resolves utterances in order (`utterVars`, external).

### MuteWorker (and DictationProofs)

`SystemMuteGuard`, the worker thread and `cleanup_for_exit`. `Outputs` stands for
the sink inputs the worker mutes or for the default sink. The shell-outs
succeed.

### DictationController (and MCDictation, DictationProofs)

The window's controller. It is one thread of turns, so a handler is an operator
from controller state to controller state, and an action is one turn: a trigger
arriving, an event arriving, a continuation of an `await`, a timer. Commands on
their way to Rust are `ts.ipc`; Rust is reduced to the slot, the active epoch and
what each session will still emit. No start waits for a command sent before it: a
start's prologue awaits the event listeners and the focused app, and `cancel_*`,
`retire_session_epoch` and a `stop_*` whose session was torn down take the slot's lock
when they are scheduled, in any order, before or after the next start's. The same holds of
events and of a stop's rejection. How many of them may outlast one prologue is bounded for
TLC (`late` of a budget, `Outstanding`), and by nothing in the proofs, which hold for every
bound. Two orders are taken from the code: the held-check of a queued press is a
synchronous command (`commands/shortcuts.rs:68`), answered on the main thread before the
focused app is asked for, so it has answered when a prologue ends (`ts.check = "off"`); and a
session with something dictated outlasts the answer to its own start (`EventArrives`).

Two histories. `crossed` names a session that something late of an earlier one reached: a
command that ended or silenced it (`Overtakes`), an event or a rejection that changed it
(`Crosses`). `doomed` names the starts a resume met over an error that still lingered,
which it could not mark (section 4); `Unmarked` is such a start, and what became of it.

### ChordEngine, ChordFamily (and HotkeyProofs)

`ChordEngine` is `chord_engine.rs` as operators: `Conflicts`, `Registered`, and
`Step`, one key transition through the hold, hands-free and quick-add arms.
`ChordFamily` puts a keyboard in front and the window's `dictate` behind. The engine's
loops, over the configured chords, over the registered ones and over the triggers of one
event, are recursive functions of the place in the list.

### HotkeyListener, MCHotkeyListener (and HotkeyProofs)

`ChordEngine` extended with the Linux backend: readers of several generations,
their commits cut at the atomic steps that other threads can see between
(register the hold, emit, count keys, settle), the teardown under `APPLY_LOCK`,
`ACTIVE_HOLDS`, `HeldKeys` with its own generation, the trigger modifiers, the
loss latch, and the injection gate. Debounce deadlines become "the oldest parked
release may be due". An aborted reader's synchronous code is taken to finish
before a key moves again; only the blocking device scan of a manufactured stop
may outlast it (`MayMove`). `MCHotkeyListener` holds the chord lists.

### SettingsSync (and MCSettingsSync, SettingsSyncProofs)

`src/lib/sync/sync.ts`, one device of several. The server stores one document per
user and accepts a write by compare-and-swap on its version number; everything
else happens on the device. A category's content is the number of the edit that
made it, and `over` remembers what each edit was made, or chosen, on top of:
with it "nothing is lost" can be said without fixing who must win.

| TLA+ | code |
|---|---|
| `Take`, `Bound`, `Binds` | the lock and `ensureStateFor`, cut at its keyring wait |
| `PullReaches`, `Pulls`, `PullsNothing`, `NothingNew`, `Reconcile` | `pullCore` past its answer, `reconcileRemote` |
| `Composes`, `PutReaches`, `PushDone`, `PushRefused` | `pushNow`: compose and hash check, the PUT, its two answers |
| `Applies`, `Applied`, `Stale`, `Lands` | `applyBlob`, cut at its keyring wait, and `adoptBase` or the push's retry behind it |
| `HoldsBack`, `Raises`, `RaiseConflict` | `applyAndRaiseReview`, `raiseReview`, `raiseConflict` |
| `Approve`, `ApproveDecides`, `Resolve`, `ResolveDecides`, `Reject`, `Later` | the four answers to the two prompts |
| `Superseded`, `Restarts`, `BindsLate`, `wire` | `supersede`: a new epoch, and what the old one has under way |
| `Edit` .. `DictationEnds` | the store's subscriber |
| `PeerEdits`, `PeerSeeds`, `PeerDeletes` | other devices, which write the server in one step |

The epoch is not a number: a superseded operation vanishes at once, and the two
things it may still do, a PUT already sent and the unchecked half of
`ensureStateFor`, are kept in `wire` and `late`. Only the number of the
document's life stands for the write's time stamp: within one life the version
tells writes apart. `Guarded` stands for every setting `securityChanges` stops
for. A compose that is interrupted by an edit is made again in the code, three times at
most (`composeLive`); it is one step here, so the stale blob it returns after three edits
within one compose is left out: two edits are all the run has, and the proofs do not cover
it. The server answers a pull in a step of its own (`PullReaches`), which the device may act
on at any later time. `misjudged` is history: from when on a document was judged by a base
of another one (section 3). Other devices
write the server that is in use: what they write to another is first seen after
the switch, and may as well be written then.

### TranscribeJobs (and TranscriptionProofs)

Runs the server works on, and the app's memory of them: `transcribeRun.ts`,
`jobsLedger.ts`, `jobsReconcile.ts`. A job stands for its run, and the server's
side is what it answers: running, done, failed, unknown or nothing, at any time.

| TLA+ | code |
|---|---|
| `Writes`, `SaveLands`, `LoadLands`, `LoadFails` | the ledger in memory, `write`, `storeTurn`'s one call at a time, `initLedger` |
| `StartRun`, `RetryFile`, `PumpGoesOn`, `PumpPosts`, `PumpSettles`, `PumpLosesContact`, `PumpUnwinds` | the pump: row written before the request, the request's three ends, and the epoch that tells it of a cancel |
| `CancelRun`, `OpenRecord`, `CloseRecord`, `DeleteRecord`, `StopOrphans` | what the user does, and `stopOrphan` behind it |
| `Tick`, `StatusSays`, `ResultSays`, `Lands`, `WatchStops`, `ListingSays` | `watchJob`, cut at its awaits |
| `PassFrom` .. `PassEnds`, `TimerFires` | `reconcileJobs` and its retries, with the backends as they were when the pass collected |
| `Keeps`, `Relaunch` | History's mirror and its parked save; a crash keeps the ledger's file and either version of a record, which may be an older one than the mirror's. `taken` is history: the record a crash took while its row was forgotten already |

### TextInjection (and TextInjectionProofs)

One phrase into the focused window, and the clipboard afterwards:
`inject_text` and `inject::paste` with everything that writes the clipboard
beside them. The insert in flight is cut wherever another thread can see
between (`pc`); the window's chain (`FrontEnd`) gives it one job at a time, a
cancel or an error reaches it through the epoch. A text is the user's n-th copy
or the n-th insert's phrase, so "whose text is on the clipboard" can be said.

| TLA+ | code |
|---|---|
| `StartInsert`, `BeginInjection`, `CallInsert`, `LiveAnswered`, `StopAnswered`, `InsertFailed`, `RescueAnswered` | the insert chain of `streaming.ts`, for live and stop timing |
| `Closed`, `CancelLive`, `StreamError`, `QuietRestore`, `EndInjection`, `DiscardSnapshot` | the ends of a session and the restores they owe |
| `CancelInjection`, `AbortBump`, `AbortMark` | the epoch's bump and the marker, two stores for an error abort |
| `EnterInsert` .. `FinishInsert` | `inject_text`: gates, clipboard-only write, typing, the portal and the X11 paste, `settle_outcome` |
| `Scheduled`, `Taken`, `Merged`, `ClaimRestore`, `ServeRestore` | `RestoreSlot` and its sleeping thread |

A later session's first text is taken to come after the earlier one's teardown
and the 400 ms of its restores; `cancelLive` gives the new session a chain of
its own, so the code leaves that to time. A second error abort of one session
(an error event and a rejected stop) moves the epoch past its marker and is left
out. The held-chord gate is `HotkeyListener`'s. Windows keeps the clipboard on a
thread of its own and is not modelled.

### AppLife (ConfigStore, HistoryStore, OutcomeQueue over WindowCalls; MCAppLife, AppLifeProofs, QuitProofs)

What the main window keeps and how it gets to the disk. Three components share
one window thread, one queue of calls to Rust (`asked`) and one life of the
process; `AppLife` composes them by conjunction, one component's step leaving the
others unchanged, and adds what concerns all three: launch, crash, quit, the
retention worker that a config save feeds and History suffers.

| TLA+ | code |
|---|---|
| `WindowCalls` | Tauri: synchronous commands run in the order issued, asynchronous ones arrive in that order and run later. It also holds the bounds |
| `ConfigBoots`, `LoadConfig`, `Loads` | `setup` and `initConfig`: `load_outcome` read twice, with its reset, its two kinds of backup and the failure of both |
| `Changes`, `SaveTimer`, `SaveNow`, `Clashes` | the store's subscriber, the debounce, `saveNow` with its conflict freeze |
| `FlushSave`, `Reflush`, `LearnPermitted`, `RetryHeld` | `flushPendingSave` and its callers |
| `SaveLands`, `SaveFails`, `Newest`, `Rebinds` | `save_config`, its two answers and the re-registration behind them, which may fail or find `config.json` unreadable and is not repeated; a capture underway puts it off to the capture's end |
| `Upsert`, `CoalesceTimer`, `TypeEdit`, `TypingTimer` | `upsertRecord`'s leading write and two-second window, the 800 ms edit debounce in front of it |
| `LoadHistory`, `Chained`, `ListArrives`, `ListRuns`, `ListLands` | `loadHistory`, cut where the command arrives, reads and answers |
| `DeleteRecord`, `DeleteArrives`, `DeleteRuns` | `deleteRecord` and its failure |
| `Sweep`, `HearSweep`, `AskWipe` .. `WipeAnswered` | the retention sweep and the event it sends; "Delete all dictations" |
| `Enqueue`, `StartSave`, `ReadLands`, `WriteSettles`, `Post`, `PostSent`, `PostRetried`, `PostRefused` | `usageOutcome.ts` |
| `RequestQuit`, `BeforeQuit`, `QuitReady`, `Exit`, `SessionEnding` | `quit.rs` and the window's three ways into `flushPendingWrites` |

A record is the set of edits made to it, settings are a number, the chords, their
clash and the two values a sweep reads, an outcome is a number. Callbacks of
settled promises run before the window's next task (`Callback`). Timers may fire
at any time, so debounce lengths do not matter; nor does the quit's 1.5 s
(`Exit`). A write to a file replaces it whole. One data folder and one window;
of the store actions only "Delete all dictations"; no repointed ids, recordings or
media; an outcome's age, backoff and the cap on the queue are left out (any part
of it may be due).

## 3. The runs: what each checks and shows

`CHECK_DEADLOCK FALSE` is set where the application may simply be idle, or a
bound is used up, which is every run.
Every bound is a CONSTANT named in the guard it cuts (comment `bound`).

| Run | Module | Bounds | Distinct states |
|---|---|---|---|
| `record` | RecordSession | 4 epochs, 2 sessions, list of 1 | 1.4 M |
| `streams` | MCStreams | a session: 3 epochs, 2 sessions, 1 clip each; the socket: 3 server frames; the cutter: 3 units of audio, 3 utterances | 860 k |
| `devices` | MCDevices | the listener: 3 keys, 3 presses, 2 generations, 1 loss; the engine: 3 keys, lists of up to 3 chords (837 lists); the mute worker: 3 guards over 2 slots, 3 exit passes | 900 k |
| `dictation` | MCDictation | 2 sessions, 2 triggers in flight; 3 gestures over a stream, 2 with one late arrival, 3 over a batch with one | 1.4 M |
| `sync` | MCSettingsSync | 2 servers, 2 categories, 11 budgets of up to 2 edits and 3 excursions | 1.4 M |
| `jobs` | TranscribeJobs | 1 file, 2 runs, 2 launches, 1 failed store call, a ledger of 2, 1 retry | 3.9 M |
| `injection` | TextInjection | 2 sessions, 2 inserts, 1 copy of the user's, 1 fault | 4.5 M |
| `applife` | MCAppLife | 3 records, 7 budgets of up to 3 user operations, 3 launches, 1 fault | 800 k |

Four more runs are expected to find a violation: each states what a comment of the source
says, and the code does otherwise (section 4).

| Run | Configuration | Property | Shortest behaviour |
|---|---|---|---|
| `late_cancel` | MCDictationRetire | `RetireSparesSuccessors` | 8 states |
| `sync_late_bind` | MCSyncSwitch | `NoBaseOfAnotherServer` | 12 states, three switches, no edit |
| `jobs_crash` | TranscribeJobsCrash | `EveryIngestKept` | 12 states, one crash |
| `abort_gap` | TextInjectionAbort | `ErrorKeepsTheText` | 8 states, one insert |

`MCStreams` and `MCDevices` hold three components each, which share no variable: what
the three do together is what each does alone, interleaved. In such a run one component,
chosen at the start (`part`), moves, and the two others rest in an initial state; the
properties are those of each alone, and so are the bounds. The composed
specification's fairness is the conjunction of theirs.

**record.** `TranscribedExactlyOnce`: a stop's `finish` and a device loss's salvage
both take the buffer and both spawn; one clip, one task, no audio left behind.
`KeepsThePromise`: the refinement of `BatchClip`; a disowned clip is never sent,
every look of the task decides alone, and a Cancel that lands before the last of
them leaves no `.wav` and no `.txt` (also stated, and proved, as
`DisownedLeavesNothing`).
`CancelNeverReachesBack`: it disowns the newest batch or none.
`KeptNeverDisowned`: what a recovery released, no later Cancel takes.
`ClosedWhenSilent`: a session whose threads are done has said `closed` or lost the
window. Two sessions are enough for every hand-over of slot and list; the other
two epochs are for two cancels, or a retire, between them; with a list of one
the second cancel evicts the first.

**streams, the session.** `DiscardedSavesNoMore`: after a Cancel no session recording is begun;
`CancelIsHeeded`: a flag that is set is on the newest stopped drain, which a
recovery has not kept, and that drain will still look at it;
`StartReturnsTheLock`: a start, which joins its predecessor's capture thread with
the lock held, returns. Fairness: session threads and the disk are scheduled, a
task takes its steps, a drain ends (it has deadlines, see `ws`). A live loop need
not end: a user may dictate for ever.

**streams, the socket.** `NothingLostSilently`: every final the reader queued is forwarded, and if
the session ended by a loss the window was told before `closed`.
`SessionCloses`: after a stop, or once the link is dead, `closed` comes. Fairness: the two tasks are polled (`WF(Reader)`, `WF(Task)`; deadlines are
task steps). The server and the network get none. Three frames are what the
longest hazard needs: a final, an error behind it, a close behind that.

**streams, the clips.** `AudioConserved`: what was cut and what is buffered is what was
captured, in order. `ClipIsItsUtterance`: a clip ends where its utterance's audio
does, its sidecar holds its utterance's words. Three utterances are needed
for a dropped one between two kept ones.

**dictation.** `ChipMatchesTheMic`: with nothing on its way an idle or errored chip means
that Rust holds no session, and the session the window records is the one Rust holds,
running, and may still say its close; `ReleasedChordStops`: a hold whose chord is up has a
stop under way, except one a resume met over an error (`Unmarked`, section 4);
`FinalizeEnds`: transcribing, translating and injecting end. The first and the last are not
claimed of a session that something late of an earlier one reached (`crossed`): there the code
breaks both (section 4, `late_cancel`). They are claimed of every other session, also when commands,
events and rejections of an earlier one are still on their way while it starts, records and
ends; that they do not reach it is the code's doing (`hits`, the epochs, the session
numbers), not the model's.
Fairness: every await answers, events, commands and triggers in flight arrive,
drains end, timers fire. Nothing makes the user press or release, and a live
session need not end. Three gestures are a press, its release and one more (a
fast re-press, the superset, the Home button or a resume), over two sessions; over a stream,
which has more ways to go on, two of them beside a late arrival (a start and its cancel,
the other start being a queued press or a restart).

**devices, the chords.** All 837 registrable lists over three keys against every order of presses
and releases: `HoldMeansHeld` (an active hold is held, or suppressed by design),
`OneChordWins` (one push-to-talk at a time, one start per press),
`UpgradeOutlivesTheKeys`. Three keys give
every relation of two chords (equal, nested, overlapping, apart) and a third
beside them.

**devices, the listener.** `HoldEnds`: once the keys are let go the session ends, whoever owes
the hold its stop: a reader that lives, a teardown or a stop on its way; `GateNeverWedges`: no retired reader leaves a key counted down for
good; `ChordTextDiverted`: text is not typed into the modifiers of the chord that
started the session. Fairness: readers and the teardown run, keys are eventually
released. Two generations are one restart, with the old reader at any point.

**devices, the mute worker.** `MuteFollowsTheSessions`: idle, what the user had muted is muted, and the
newest session stays covered; and a flushed exit restores. Three guards: an old
one still dropping, a live one, and one in the other slot.

**sync.** `EditsSurviveLivePrompts`: whatever replaces a setting in the store was
made on top of it or picked over it by the user; `PushesBuildOnTheServer`: so is
whatever replaces a category on the server; `ConsentFirst`: the guarded category
changes by the user's hand or to a value the user approved; `EventuallyAgrees`:
device and server agree again and again, or a prompt waits. `MaxEdits` counts the
edits of the user and of the other devices: two are a conflict, an edit during an
await of a merge, or a merge behind a refused push. A budget counts excursions,
each of which brings its way back for free: a switch of server, a category or
sync itself off (and on), a dictation (and its end), a forced sync, a lost
answer, a deletion (and the re-seed). The budgets are two edits around one excursion of each kind
or around two deletions, one edit around three switches, and one around a lost answer and a
deletion, at every await.

What the four properties leave out is one thing, `misjudged`: a document was compared with, merged
over or swapped in over a base of another document. It happens in two ways. The base is of
another server, its name and number written over by the unchecked half of a superseded
`ensureStateFor` (`sync.ts:2791`); `sync_late_bind` shows that the code lets it, and section 4 what
comes of it. Or the document was deleted and seeded again up to the base's number, or past it: the server
compares numbers alone (`Renumbered`), and the engine takes a document with a higher number
for a later one (`serverRecreated` compares stamps only where the number did not rise). From then on
nothing is claimed but `ConsentFirst`, which needs no exception; before, the three others hold at every
step, whatever is late. An edit made while the user's own answer to a
conflict is being composed, of a category that answer gives away, is the one exception of
`EditsSurviveLivePrompts` besides (`EditedInTheAnswer`): the answer stands.

Fairness: keyring waits end and sent requests are answered; a
dictation ends; the window is focused again and again, at least five seconds
apart (`FocusPull`), and a push timer that finds the lock taken re-arms every
three, so it fires in the end (strong fairness of `PushFires`). Without a focus
nothing polls the server, so the claim is about a device that is used. Nothing
is assumed of prompts: a user may leave them or close them for ever, which is why
agreement is claimed to recur and a prompt counts as an answer.

**jobs.** `NoRunForgotten`: once a run's row reached the disk it is in the ledger or
in History through crashes, failed saves, late reads and evictions, until the
user gives it up or it is dropped for its age or the cap. One crash is excepted by name (`Taken`): the one
that comes when the row is forgotten, also on disk, and the record is only in the mirror; `jobs_crash`
shows it (section 4). `DismissedNeverLands`: a run the user retried, cancelled or
deleted never lands again, wherever its watcher or the pass was waiting.
`WorkIsOwned`: an earlier launch's row is watched, in the pass, or has a pass
coming while retries last, nobody polls what the pass works on, and the rail is
taken exactly while a pump or a reattached run owns it.
Two runs of one file are the smallest rerun; a ledger of two rows holds both, and
its limit in bytes (`Fits`) may make the second evict the first all the same;
two launches put a crash at every point of the first.

**injection.** `ClipboardComesBack`: once nothing is in flight the clipboard holds a
copy of the user's or a text the code means to leave. `RestoreSparesPromises`: a
restore never lands on a text the user was told to paste.
`AbortedTextSurvives`: the phrase a dead session was inserting has been pressed or
is on the clipboard when the insert answers, unless it answers between the abort's bump of
the epoch and its marker (`TakenForACancel`; `abort_gap` and section 4): what it asked before the marker was stored
makes no difference, only its last step's answer counts. `ChordPastesThePhrase`: nothing but
the user's own copy comes between write and chord. Two inserts are the least in
which one's restore meets the other's paste, two sessions the least in which
one's flags meet the other's snapshot, and each path has one fault to meet. What
the properties except is named in them: `raced` (a restore that had left the slot
when the write came), `skipped` (our own window had the focus), `faulted` (the
clipboard refused), `blind` (a read failed, or the user copied during an insert or
while an earlier paste was owed its restore). A promise is withdrawn where the code
itself takes the text back: a separator's failed write gives the snapshot back
(section 4).

**applife.** `SettlesOnDisk`: once no save is underway or held, `config.json` is what
the window shows and the hotkeys are those of `config.json`, whatever order of
edits, freezes, failures and flushes came before; the hotkeys are left out while the last
re-registration is one that failed or could not read the file (`missed`): it is logged
and not repeated. `ResetIsHarmless`: `config.json`
is only replaced when its contents are in a backup or in the window, and the
factory's retention window deletes nothing before the user's next save, at the launch
that reset or a later one. `MirrorNeverReverts`: History's mirror never shows an
older copy of a record (the next patch would save it), unless that copy's save
failed; `HistorySettles`: once quiet, the mirror is the disk; `DeletedStaysDeleted`:
no parked write, typed edit, listing or sweep re-creates a deleted record's
file, unless a later listing overtook its delete (section 4). `BacklogSurvives`: an outcome leaves the file only when the server has it or
refused it. `QuitLosesNothing`: what the three stores held when a quit was asked is
on the disk when a confirmed one exits, if nothing failed meanwhile. A budget is
spent on one store, or on the two that meet, so that TLC can go deep in each:
two settings edits with a fault, one with three launches (the reset, the unsaved
launch, the save); three operations on records (an edit, a second parked one, a
delete or a wipe) or two with a fault; an outcome with a crash and a failed read;
a settings edit beside a record, for the sweep. The records are a file
transcription, an aged dictation and one yet to come. Launches, crashes and quits
are free within `launches`.

Every module states its `TypeOK` or describes its variables; no run checks one,
and `TypeCorrect` (section 5) is the theorem for `RecordSession` (`RecordTypeCorrect`),
`StreamSession`, `StreamWs` (`WsTypeCorrect`), `ChordFamily` (`FamilyTypeCorrect`),
`ClipCutter` (`CutTypeCorrect`), `MuteWorker` (`MuteTypeCorrect`), `DictationController`,
`SettingsSync` (its `SyncType`), `TranscribeJobs` and `TextInjection`.

## 4. Where code and comment disagree

Four disagreements cost the user something and have a run that finds them:

- `late_cancel`, `RetireSparesSuccessors` (`session.rs:43`, the epoch is retired "before any
  successor claims one"). The window does not await its `cancel_*` (`streaming.ts:4286`)
  and Rust runs them in `spawn_blocking` (`commands/session.rs:8`), so nothing orders them before
  the next start's command. In TLC's trace a start fails in its prologue, another is underway
  when the machine resumes, and the cancel that this sends takes the slot's lock after
  that start: it tears down a session the chip will show as listening. Two uses of the Home
  button with a cancel between them do the same. Where the late cancel only retires the epoch of a batch session
  that the user then stops, the stop finds nothing, no `closed` comes, and batch has no
  watchdog (`streaming.ts:1926`): the chip transcribes until the user cancels. TLC shows
  this too, in 14 states: `FinalizeEnds` without its last disjunct (`crossed`) is violated by
  a start, a resume that cancels it, a start and its automatic stop. `ChipMatchesTheMic`
  has the same exception, a session that something late of an earlier one reached.
- `sync_late_bind`, `NoBaseOfAnotherServer` (`sync.ts:2780`, "the old server's
  version must not become a CAS base against the new one (nor its snapshot a merge
  base)"). With a switch of server within one keyring wait, the rest of the first
  `ensureStateFor` checks no epoch and names its server in the state after the second call
  found it already named (`BindsLate` after `Take`), so that server A's document is filed as
  B's base. The next sync with A resets it. A further switch, to B, before that does not: B's document
  is then merged over A's, and what another device wrote there is merged away or swapped out.
- `jobs_crash`, `EveryIngestKept` (`jobsReconcile.ts:18`, a row is forgotten "only after the
  record was written"). The record is in the mirror then, and its save may still be parked
  (`Keeps`). A crash once the file without the row is written and before the
  save is loses both. `NoRunForgotten` excepts what such a crash takes, by name (`Taken`).
- `abort_gap`, `ErrorKeepsTheText` (`inject/mod.rs:71`, an error's abort leaves the text on the
  clipboard). The abort bumps the epoch and then stores its marker (`AbortBump`, `AbortMark`),
  and `cancel_wants_recovery` reads both: an insert that answers in between takes the error for a
  cancel and drops its text. `AbortedTextSurvives` excepts that answer (`TakenForACancel`).

The others were found while modelling and have no run: the effect is confined, the timing is
extreme, or no text of the repository promises otherwise. Those that are stated in a module can
be checked by naming the property in a configuration:

- `ResumeEndsTheStart` (stated in `DictationController`; `App.tsx:348`, "mark it to
  tear down on go-live"): a resume over a lingering error runs `cancelLive`, which
  does not mark the start in its prologue; the session comes up on the dead
  microphone. TLC refutes it with the bounds of `dictation`. The same `cancelLive`
  wipes an upgrade or restart that start had queued (`pendingReclassify`,
  `restartOwed`, `streaming.ts:4210`), so a push-to-talk session comes up
  with its chord up and handled: `ReleasedChordStops` exempts it.
- A press queued while the last session is still inserting could start a push-to-talk
  session nobody stops, if its chord were completed meanwhile and the answer to that last
  session's start came after the session's own end: `dictate`'s release voids a queued
  press only where nothing is starting (`dictation.ts:94`), and `startLive`'s
  `finally` drops the upgrade without it (`streaming.ts:3601`). It takes an invoke's answer slower
  than the dictation of a phrase and its insertion, which `EventArrives` leaves out (section 2).
- `FreshEdgeHidesNoHeldChord` (stated in `HotkeyListener`; `held_keys.rs:77`, "cannot
  produce a false negative"): the edge of another chord clears the one latch; the
  first session's text goes into a modifier still held. TLC refutes it with the
  chords `Pair`.
- `FatalOwesNoRestore` (stated in `TextInjection`; `streaming.ts:3417`, "clipDirty is
  false on a failed paste"): it is true while an earlier phrase's restore is
  still owed, and if the recovery copy is then refused by our own window the
  teardown drops the snapshot with the user's clipboard in it. TLC refutes it
  with one session, two inserts and one fault.
- `SeparatorRestoreIsHarmless` (stated in `TextInjection`; `streaming.ts:2905`,
  "Restoring it is harmless if the write never happened"): a separator whose write
  fails restores the session's snapshot over whatever is there, which may be
  a phrase an earlier insert of the session put on the clipboard and told the user
  to paste. TLC refutes it with one session, four inserts and one fault.
- `DirtyHoldsTheTranscript` (stated in `TextInjection`; `streaming.ts:2466`, "the
  clipboard holds that transcript"): a phrase takes no snapshot while an earlier one
  is owed its restore, so what the user copies in between is neither
  saved nor given back. TLC refutes it with three inserts and one copy.
- The insert that finds our own window focused at its last look answers "not
  landed" without a recovery copy even when a dead session's abort stopped it
  (`inject/text.rs:291`): that text is lost. `AbortedTextSurvives` exempts it
  (`skipped`).
- `LAST_PASTE_REMOTE` outlives the paste it speaks of: a clipboard-only write that
  replaces the remote paste's text and is then cancelled stays on the clipboard,
  and the snapshot is dropped (`LeftToRemote`).
- A file run again while the ledger is still unread stops only the runs the window
  can see; an earlier launch's job lands its record beside the new one
  (`OrphansOf`; `jobsReconcile.ts:298` speaks of both).
- `DiscardedWritesNothing` (stated in `StreamSession`; `session.rs:158`, "the drain
  writes no recording from then on"): a clip already queued to the writer thread
  is still written.
- `LateEventNeverBleeds` (stated in `DictationController`; `session.rs:466`): the
  epoch that silences a drain is retired by a command; if that command outlasts
  the next start's prologue, the old drain's end or error is taken for the new session's. TLC refutes
  it with the bounds of `dictation`.
- A document deleted and seeded again past the base's number cannot be told from a
  later version of the old one (`serverRecreated`): what the new one lacks is then
  merged away. One deletion does it, and so does, alone, a PUT whose answer was lost and a deletion.
  Seeded again up to the base's very number it is overwritten by the next push (`Renumbered`); a
  pull in between would notice by the time stamp. From either on, `misjudged`
  says so and only `ConsentFirst` is claimed.
- An edit made while a conflict's answer is being composed is overwritten where the
  other side was picked. `EditsSurviveLivePrompts` excepts it (`EditedInTheAnswer`); an edit of any
  other category in that time survives.
- `emit_if_active` loads the epoch and then emits (`Arms`, `Delivers`): one event of
  a session retired in between still reaches the window.
- A Cancel that arrives after the task's last look leaves that session's `.wav` and
  `.txt`. `DisownedLeavesNothing` speaks of cancels before it.
- A rejected `stop_*` that answers after another session began is treated as that
  session's (`StaleRejectIsIgnored`, stated in `DictationController`; TLC refutes it with
  the bounds of `dictation`).
- The stop manufactured for an unplugged keyboard may be late enough to end a
  session that was started and upgraded on the next listener (`Manufacture`).
- A kept prompt can outlive its document (`sync.ts:3953`, "a kept prompt is never
  dropped ... and approving it would re-land the deleted doc's change"). A conflict
  waits at version 2; another device deletes the document; the user edits a
  setting, and the push, at base 0, creates version 1. `dropSupersededPending(1)`
  keeps the conflict, whose version is above 1, and `resolveLocked` does not find
  it moot: resolving it reverts the edit. A pull before the answer would have
  caught it (`serverRecreated`). To the model it is an answer judged by another document's
  base (`Foreign`), which `misjudged` records.
- An outcome queued while the launch's read of the file is underway is not waited
  for by a quit (`Persist`; `promised` counts the queue only once it is loaded). A
  failed save of a record or of the queue is not tried again by a quit; one of
  the settings is.
- A delete that has not run when a listing begins may be listed again
  (`ghosts`), and an edit of the ghost re-creates its file. `transcriptHistory.ts:414`
  knows that nothing orders the two calls, and forbids the replay, not the
  snapshot.
- An edit of a dictation during or after a wipe of the dictations is dropped or
  refused while the mirror shows it (`lost`); an earlier save of it that arrives
  behind the wipe re-creates the file with the older copy.
- The hotkeys are registered again behind a save whose chords changed, and only there. If that
  fails (`persistence.ts:296` logs it) or cannot read `config.json` (`commands/shortcuts.rs:102`), the
  old chords stay until the next such save or launch (`Rebinds`, `missed`).
- In a session whose reset could not back the file up (`refused`) no settings are
  saved, each with its banner, and a quit loses them.
- A `load_config` that fails as a call leaves the boot state in the window, warns,
  and arms the auto-save: the first edit replaces a sound `config.json` by
  the defaults. `ResetIsHarmless` exempts it (`ready = "failed"`).

## 5. Proofs

Each theorem holds for every value of the constants that meets the assumption its
component's module names: bounds are naturals; `RecordSession`'s list has a
positive cap; `TranscribeJobs` has finitely many files and a ledger of at least one
row. Every part of an inductive invariant was an invariant of a TLC
run, on the bounds of section 3, before it was proved. Each part then has a lemma per
kind of step, over frame lemmas that say what a step cannot touch; an action
property follows from the invariant and one step.

| Module | Theorem | States |
|---|---|---|
| `TranscriptionProofs` | `RecordTypeCorrect` | `RecordSpec => []RecordTypeOK` |
| | `OneTranscription` | `RecordSpec => []TranscribedExactlyOnce` |
| | `NothingLeft` | `RecordSpec => []DisownedLeavesNothing` |
| | `KeepIsFinal` | `RecordSpec => []KeptNeverDisowned` |
| | `LastWordIsClosed` | `RecordSpec => []ClosedWhenSilent` |
| | `NoReachBack` | `RecordSpec => CancelNeverReachesBack` |
| | `NoLateUpload` | `RecordSpec => DisownedNeverUploaded` |
| | `SlotForward` | `RecordSpec => SlotNeverMovesBack` |
| | `PromiseKept` | `RecordSpec => KeepsThePromise` |
| | `TypeCorrect` | `Spec => []TypeOK` |
| | `NeverForgotten` | `Spec => []NoRunForgotten` |
| | `AlwaysOwned` | `Spec => []WorkIsOwned` |
| | `GivenUpStaysGivenUp` | `Spec => DismissedNeverLands` |
| `StreamProofs` | `TypeCorrect` | `Spec => []TypeOK` |
| | `CancelReachesTheNewest` | `Spec => []CancelIsHeeded` |
| | `DiscardedStaysUnsaved` | `Spec => DiscardedSavesNoMore` |
| | `WsTypeCorrect` | `WsSpec => []WsTypeOK` |
| | `LossIsSpoken` | `WsSpec => []NothingLostSilently` |
| | `CutTypeCorrect` | `CutSpec => []CutType` |
| | `NoAudioLost` | `CutSpec => []AudioConserved` |
| | `ClipsAreUtterances` | `CutSpec => []ClipIsItsUtterance` |
| `DictationProofs` | `TypeCorrect` | `Spec => []TypeOK` |
| | `ReleasedChord` | `Spec => []ReleasedChordStops` |
| | `ChipIsTrue` | `Spec => []ChipMatchesTheMic` |
| | `MuteTypeCorrect` | `MuteSpec => []MuteType` |
| | `MuteFollows` | `MuteSpec => []MuteFollowsTheSessions` |
| `HotkeyProofs` | `FamilyInvariant` | `FamilySpec => []FamilyIInv` |
| | `FamilyTypeCorrect` | `FamilySpec => []FamilyTypeOK` |
| | `NobodyTalksUnheld` | `FamilySpec => []HoldMeansHeld` |
| | `TheOneChordWins` | `FamilySpec => []OneChordWins` |
| | `TheUpgradeStays` | `FamilySpec => UpgradeOutlivesTheKeys` |
| | `GateUnwedged` | `Spec => []GateNeverWedges` |
| | `CutLooseTextDiverted` | `Spec => []ChordTextDiverted` |
| `SettingsSyncProofs` | `TypeCorrect` | `Spec => []SyncType` |
| | `Consenting` | `Spec => ConsentFirst` |
| `TextInjectionProofs` | `TypeCorrect` | `Spec => []TypeOK` |
| | `ClipboardIsGivenBack` | `Spec => []ClipboardComesBack` |
| | `RestoresSpareWhatWasPromised` | `Spec => RestoreSparesPromises` |
| | `TheChordPastesThePhrase` | `Spec => ChordPastesThePhrase` |
| | `AbortedTextIsKept` | `Spec => AbortedTextSurvives` |
| `AppLifeProofs` | `BacklogKept` | `Spec => BacklogSurvives` |
| | `SettingsSettle` | `Spec => []SettlesOnDisk` |
| | `ResetLosesNothing` | `Spec => ResetIsHarmless` |
| | `DeletedForGood` | `Spec => []DeletedStaysDeleted` |
| | `MirrorForward` | `Spec => MirrorNeverReverts` |
| | `HistoryTold` | `Spec => []HistorySettles` |
| `QuitProofs` | `QuitKeepsItsPromise` | `Spec => QuitLosesNothing` |

### Batch dictation

None of `RecordSession`'s invariants is inductive alone. The inductive invariant is

    RecordIInv == RecordTypeOK /\ Claims /\ Buffers /\ Spawners /\ ListInv /\ Files
            /\ DisownedInv /\ KeptInv /\ SlotInv

- `Claims`: sessions are numbered by claims; the slot, if full, holds the newest.
- `Buffers`, `Spawners`: who may still take a session's buffer. `finish` reads
  `device_lost` only after the join, so at most one of stop and salvage spawns:
  a spawned task means an exited capture thread, and either a finished stop or a
  lost device.
- `ListInv`: while no more than `CancelCap` sessions were ever marked, the list is
  exactly the marked ones. This is where the cap enters, and why two theorems
  carry it as a premise: the list evicts its oldest entry.
- `Files`, `DisownedInv`: where a recording can be at each point of a task, and that
  a task that took its last look at a disowned session left neither file.
- `KeptInv`, `SlotInv`: nothing points any more at what a recovery kept; the slot
  names the newest session taken, or a late salvage.

`LastWordIsClosed` needs `ClosingInv` besides. A session ends by a stop, a salvage, a
failed capture or start, or a cancel; the first three send `closed`, through the
task or themselves, and the last does not. Why none is left out: a session whose
thread is done and that nobody else is to close (`Waiting`) has its `closed`
seen or owed, unless it is no longer the active one; and every cancel moves the
active epoch past what it gives up, so a task that finds itself cancelled owes
the window nothing.

`PromiseKept` is the refinement: `RecordInit` maps to
`BatchClip`'s, and a step under `RecordIInv` to a step of it or a stutter. It needs one
invariant more, `Distinct`: no epoch is on the cancelled list twice, so the
length of the list is the cardinality of its range (`ListIsMemory`), and what
`Remember` evicts is one withdrawal, gone for good (`FullListForgets`). The cap
needs no premise here: `BatchClip` forgets as the list does. `FateMoves` and
`FateKept` reduce a step to what it does to one session; `CommandsKeep`,
`ThreadsKeep` and `TasksKeep` then take the three kinds of step in turn.

### Streaming dictation

    IInv == TypeOK /\ LiveIsNewest /\ NothingBeforeStart /\ TaskSettles
            /\ SlotIsOpen /\ CancelledWereStopped /\ JobsDecided

The argument is about who can still be named by `DETACHED_STREAM`. `SlotIsOpen`: the
slot names the newest session taken, which was stopped, has not settled and was
neither discarded nor kept before. So a cancel that reads the slot reaches a drain
that will still look at the flag, and never the one a recovery spared.
`LiveIsNewest` carries this over a stop (the taken session is newer than any in
the slot) and over the lock a start holds. `JobsDecided`: a blocking save
belongs to a session that settled with no discard, and a discard never reaches a
settled one; hence `DiscardedSavesNoMore`, in spite of jobs that an abort does
not reach.

### The WebSocket client

    IInv == TypeOK /\ Counted /\ ClosedIsLast /\ Heard /\ Ended

`Counted` bounds the finals by the frames: those on the wire, in the channel and
forwarded are different frames the server sent; hence no final is forwarded twice.
`ClosedIsLast`: the reader's last message is behind all its others.
`Heard` is the reader's half of the promise: before that message it gave a reason
(the closing final, an error, a refusal, a restart), which is in the channel or in
the window, unless the server announced the end. `Ended` is the main loop's: when it
leaves its last phase an answer was given, and the finals that were owed are
forwarded or in the channel it is about to empty. The lemmas of the first section count
finals in a sequence that grows at one end and is consumed at the other.

### The clips

    CutIInv == CutType /\ Audio /\ Marked /\ ClipsEnd /\ Past /\ TextFollows
               /\ HeldIsOpen /\ Settled

`Audio` and `Marked` are about the buffer: unit `i` of it is unit `taken + i` of the
capture, and a mark still kept is where its utterance's audio ends. So the share
that leaves (`ShareEnds`) ends there too, with a mark or without, and
`ClipsEnd` follows it through the queue to the file. `TextFollows` is about the
lag of the text: a job brings the text of the clip it finds awaiting (`Clip(i - 1)`),
and the document's tail is the text of the last clip. Words held back by the
server are what endangers it: `HeldIsOpen` says that no text of the clip they
belong to is queued yet. `Settled` is then what a reader of the folder sees.

### System mute

    IInv == TypeOK /\ OneOwner /\ QueueInv /\ ModeIsTheRest /\ Covered
            /\ ExitOrder /\ LastFlush

`QueueInv` speaks of the order in the channel, by `Followed(q, x, y)` (each x in q
has a y behind it): a `Mute` whose guard is gone is followed by its `Unmute`;
every `Mute` is followed by the newest guard's, so the worker ends up owned by
the newest; the worker's owner is open or its `Unmute` is queued. An empty channel
and no open guard thus leave no owner, and `ModeIsTheRest` (what the worker muted
is exactly what the user had not) gives the restored outputs. `OneOwner` is what
orders the sends: a guard is in one start, one session or one drop at a time.
`LastFlush` adds the exit: the third pass takes both slots before it flushes, so
its flush is behind every `Mute`. `SendProperties` and `ReceiveProperties` are
the lemmas on sequences.

### The dictation controller

Two inductive invariants, of which the second rests on the first:

    CoreInv == TypeInv /\ Good(ts) /\ StartsEnd /\ KeysFor(ts) /\ OwedFor(ts, replies)
    MicInv  == Ages /\ (Crossed \/ (StartFor /\ SlotFor /\ RecordFor))

(the parts of `MicInv` over the controller, its start, the replies and the events).

- `Good` is what every turn keeps of the controller alone: `Chip` (it records exactly while it
  says "listening", or translates a phrase that interrupted that) and `Presses` (a press is queued
  only behind a session that ends, and asked about only after one ended).
- `KeysFor` ties it to the keys. A push-to-talk session nothing asked to end (`HoldOpen`), a
  queued press, and one asked about each have the chord down or its end among the triggers on
  their way (`Cover`); `StartsEnd` says the same of a press not yet heard of, by the order of
  the triggers. With the chord up and no trigger left no such session is there: `ReleasedChord`.
- `OwedFor`: a start torn down during its invoke waits for one reply, which comes once.
- `Ages`: whatever is on its way, in the slot or active names the newest session or an older
  one. So a start's number is new to all of it, however late it is.
- `StartFor`: while the start command waits for the keyring, nothing on its way is of its session:
  no command, rejection or event, and neither the slot nor the active epoch. What is on its way
  is older, and if it reaches the session, `crossed` has it from then on. Nothing is assumed of how
  much of it there is.
- `SlotFor`: what Rust holds after a start has taken effect is the newest session, which the window
  records, or has a command on its way that takes it.
- `RecordFor`: a session the window records has no command or rejection against it, and
  is the one in the slot, running or with its `closed` on its way.

A handler is an operator, so its lemma is about any controller, not about a step: `...Works(s, t)`
says that the turn from s to t keeps `Good`, only adds commands (`Sends`), sends one where it stops
recording or stops being heard (`Delivers`), and sends none during the invoke (`Calm`); `Softer` and
`Quenched`, that it begins nothing no key is behind. Handlers that call each
other compose by `WorksFrom`. `TurnCore` and `TurnMic` then carry the invariants over any such
turn, so that an action only has to name its handler; the steps of Rust and of the keys have
lemmas of their own. No theorem has a premise on what is late: a session is either reached by
something of an earlier one (`Crossed`), and then `ChipIsTrue` claims nothing of it, or the invariant
holds of it for all that is still on its way. TLC checked `CoreInv` and `MicInv`
before the proof with the bounds of `dictation`, and again with four gestures and three sessions.

### The chord engine

    FamilyIInv == FamilyShape /\ Remembered /\ FiredOnce /\ Follows(dictation, engine.started)

The theorems hold for every finite set of keys and lists of chords of any length, and so have
to reason about the engine's loops. The library's induction theorems cannot be instantiated,
so `UpTheList` states induction over a list for a set of places and `Recursion` gives a
recursive function its equation; each loop is then shown once to be what it seems.

- `OneWinner`: of two chords that complete in one event and are not blocked each would be a
  strict subset of the other, so at most one wins.
- `RegisteredIsCompatible`: no two chords of a list that registered conflict. So a hold never
  completes around another one that is held (`Remembered` needs this).
- `SweepOfAPress` and `SweepOfARelease` give one event in closed form. A press lets the one winner
  start, toggle, upgrade or open, or nothing; a release stops the one active hold if its chord
  is no longer complete, and re-arms what was let go.
- `Remembered`: what is active is complete, and of it at most one is a hold, the one whose
  start is remembered. A second could only start while the first is complete, which
  is then its peer and blocks it, or nested in it, which does not register.
- `Follows`: the session is a hold's only if that hold is the one remembered, so its release
  ends it; an upgraded session has no hold left that could (`TheSessionFollows`).

### The hotkey listener

`GateUnwedged` rests on

    GateInv == AllTrack /\ ApplyType /\ OneWriter /\ Counted

- `AllTrack` is one reader against the keyboard. A key that is not down is let go by what
  the reader still has before it (`LetsGo`): the last word on it is an up in the queue, or the
  up just taken out, or a deferred release, or an up being committed, or the reader does not hold
  it. It is stated of a reader that still listens; one whose stream ends will go through
  `PostLoop`. One lemma for each thing a reader does (`TracksWoken`, `TracksDebounced`,
  `TracksDrained`, `TracksCommitted`) and one for the kernel's delivery.
- `OneWriter`, `Counted` are the readers against the mirror: of the readers that still run
  only the one `EvdevState` owns has a writer that is not retired, and each key counted is held by
  it. Both lapse from a restart's `Retire`, which drops a parked reader with its keys, until its
  `Clear`; that every kind of apply clears is what they rest on (`AppliesClear`).

So when nothing runs and nothing is queued, each key counted is held by a parked reader, and
whatever that one holds is down. `CutLooseTextDiverted` needs one fact more, `LatchStands`: while a session
that was cut loose waits under a modifier not let go, and no chord fired since, the latch is
armed. What the chord engine fires stays open in both proofs: they hold whatever it fires.
`TypeOK`, which types the session by the chord that fired, is not proved.

### Settings synchronisation

    IInv == SyncType /\ Shape(op) /\ Consented(op, store)

`ConsentFirst` is about one step and fails, if at all, because of an earlier one: what
an apply writes was judged before its keyring wait, against settings that may
have changed since, under an operation that may have been superseded. `Consented`
carries the judgement across that wait: as long as `moved` is not set, what waits
leaves the guarded category as it is now, or is the very document of the review in
hand, and then the operation is an approval. `Judged` is where it comes from: the merge is composed
from the live settings, so `Risky` compares with what the apply would replace. Everything that
writes in one go (`Landing`, `HoldingBack`) is a case of the same lemma. `Shape` says
which kinds of operation reach which stage, so that an edit can always mark the one that waits
(`Touching`). The theorem is for every number of edits, gestures, servers and
categories, late bindings and late PUTs included.

`EditsSurviveLivePrompts` and `PushesBuildOnTheServer` are model-checked on the budgets of the
run and not proved: they need an invariant on what every copy of a document (base,
prompts, PUTs and answers on their way) was made on top of, for each way the base can be taken, as long as
`misjudged` is not set.

### Transcription jobs

    IInv == TypeOK /\ OnlyKnownRuns /\ PumpIsNewest /\ IoShape /\ Unread
            /\ PassShape /\ RailOwner /\ DismissedInv /\ RowsOwned
            /\ PromiseInv /\ PersistInv

- `PromiseInv` is the heart of `NoRunForgotten`: a promised run that was not dismissed, and whose
  record no crash took (`Taken`), has its record, or
  its row in the file, in memory (once read) and in every save on its way, so that
  whichever of them fails or lands last, the row stays. `PersistInv` is the same for
  the run whose row the pump is waiting for: a save without the row has one with
  it behind.
- `RowsOwned`, `PassShape`, `Unread`: an earlier launch's row has a watcher, is in the
  pass, or the pass is to run again (`load`, `collect`, `rerun`, a retry, its timer)
  until the retries are spent; before the ledger is read no such row is in memory.
- `RailOwner`: the rail is taken exactly while a pump or the one reattached run has
  it. `PumpIsNewest`: the pump's run is the newest id, and nobody watches it.
- `DismissedInv`: what was given up has no watcher but one that is settling, and
  the pass does not take it up: it was stopped, or its row is gone from wherever
  the pass will look.

An id is spent on each request, so the type of `next` needs `Room`: there is an id
for every queued file. `Least` and `MinIsMember` supply what `CHOOSE`-based minima
need, by well-foundedness of the naturals.

### Text injection

    IInv == TypeOK /\ StopInv /\ JobInv /\ SessInv /\ FlagInv /\ SlotInv /\ ClipInv
            /\ CoverInv /\ SettleInv /\ PromiseInv /\ SpareInv

- `SettleInv` follows the user's copy. If the clipboard is not `Fine` (a copy of the
  user's, or a text meant to stay), the copy waits in the restore slot or with its timer
  (`Returning`), is with the insert in flight (`JobOwes`), or is in the session's
  snapshot and somebody will give it back (`SessOwes`). When nothing is in flight none
  of the last three is left, which is `ClipboardComesBack`.
- `CoverInv` is where a paste may owe nothing: what it found, with no snapshot and no
  prior read to give back, was meant to stay, or the session is `blind`.
- `SpareInv` is the other half: while the clipboard holds a promised text, no slot, timer,
  insert or snapshot will restore over it. It rests on `FlagInv` (`delivered` and
  `recovery` say what the clipboard holds) and on `PromiseInv` (a phrase is promised by its
  own insert and no earlier).
- `SlotInv`: one restore is owed by one of the slot, the insert and the session, never two;
  `ClipInv`: what is on the clipboard is our last write or a copy the user made since.
- `StopInv` orders the epochs: an insert of a live session carries the current one, a dead
  session's is behind the stop, and the recovery marker never runs ahead.

Each action has one lemma (`...Keeps`), which first states what it does to each field and
then takes the parts of the invariant in turn. `AbortedTextIsKept` needs only the types
and that the marker never runs ahead of the epoch: an insert stopped by an error answers before the
marker, which is the exception, or finds the marker at its epoch (`MarkedIsAborted`),
and each way it can answer then is looked at by itself (`TextSurvives`). Looking for the
invariant is what found the first two disagreements of section 4 after `FatalOwesNoRestore`:
`SpareInv` fails at the separator's restore, `SettleInv` at the copy under an owed restore.

### The window's stores

`BacklogKept` rests on `BacklogInv`: the queue's file, the saves on their way in
their order, and the queue in memory form a chain in which each holds what those
before it hold, except what the server has or refused (`Growing`), and before the
file was read there is no save. So a save that lands, whichever before it failed,
replaces the file by one that holds it. `StartSaveKept`, `WriteKept`, `ReadKept`
and `PostKept` are the steps that touch the chain; every step of the other stores
leaves it alone, and an exit or crash cuts it back to the file.

`SettingsSettle` and `ResetLosesNothing` rest on

    ConfigInv == SettingsShape /\ CallsInOrder /\ Booted /\ KnownFile /\ Landing /\ Bindings

- `CallsInOrder`: the launch's load is the first of the calls on their way, and
  until it is answered no save is; a save is one of settings that were edited.
- `Landing`: without a timer or a freeze the last save underway has the settings; with
  none underway and none held, the file has. A save that fails as the newest
  sets `held`, one that a newer follows does not, which is why the property
  needs the count and the order of the saves, not only that there are any.
- `Bindings` says the same of the chords: if no save that asks to re-register follows
  a save, that save has the settings' chords; and what is registered is the file's
  or someone (`rebind`, a save underway, the intent handed back to `chordsDue`) is
  still to register it, or the last re-registration `missed`. It claims nothing in a session that reset the file.
- `KnownFile` is the reset: the file in place is in a backup, known to this window, or
  its saves are refused; neither the file nor a queued sweep has the factory's
  settings.

The other stores only add or take calls: `Moved` says so, and `ConfigMoved` carries
the invariant over it. Saves are found by their place (`SavesAt`); `WritingCount`
ties the code's counter to it.

`DeletedForGood` rests on `ConfigInv` (a launch finds no call underway) and on

    DeletesInv == RecordsShape /\ OneListing /\ BornFirst /\ Doomed /\ Buried /\ Behind

- `Doomed`: of a record that is gone, which is one buried or with a delete on its way that
  the last listing could not miss (`Gone`), the window has nothing: no copy, no parked write, and
  nothing to replay; and a listing underway will replay the delete, unless
  it began after the delete ran.
- `Buried` adds the disk, the snapshot and the saves on their way, once the delete
  ran. That no save is on its way then is `Behind`: a delete is issued behind every
  save of its record, and saves are synchronous, so it arrives last; only a ghost,
  which a listing may have brought back, can be saved behind its delete (`Late`).
- `BornFirst`: of an id never used there is nothing anywhere; so a new record is none
  of the gone. `OneListing`: one listing at a time, so one replay.

Most steps are `Quiet`: they take nothing to a record that is gone or unborn.
`DeletesQuiet` says once that such a step keeps the invariant, whatever calls it
adds of the living or takes; a write, a flush, a sweep or a step of another store then
only has to be shown quiet. The steps of a listing, a delete and a life are not, and
have their own lemmas.

`MirrorForward` adds, beside `DeletesInv`,

    MirrorInv == Copies /\ Rising /\ Replays /\ OnItsWay /\ ReadIsNew

- `Copies`: what is parked, and what a listing will replay, is the mirror's own copy.
- `Rising`: of the saves of one record on their way each holds what the one before it
  holds, and the mirror them all. A save that lands is thus never newer
  than one behind it.
- `OnItsWay`: unless its save failed, the mirror's copy of a record is the one some save
  on its way writes, or parked, or on the disk (or the file was since removed).
- `Replays`: while a listing is underway, of a record it will not replay nothing is
  parked and every save was issued before the listing. Calls arrive in order, so when it reads
  there is none left: by `OnItsWay` what it reads is no older than the mirror
  (`ReadIsNew`), and taking it over is no step back.

A step that adds calls is shown once, in `MirrorCalls`: its saves must carry the mirror's
new copies (`WritesMirror`), and each record's copy grow, go or be the first of its id
(`Grows`), and be written, parked or as it was (`Carried`). `MirrorAdd`, `MirrorFlushed` and `MirrorSame`
are its three uses, `MirrorTaken` is the arrival of a call.

`HistoryTold` is the other direction: not that the mirror is new enough, but that it and the
disk end up equal. It rests on the two above and on

    HistoryInv == Waiting /\ (ListDue \/ Shows) /\ Seeded /\ Edits /\ Forbidden

- `ListDue`: a forced listing is still to come: a sweep's event is not heard, one is chained
  onto the listing underway, a wipe is underway, or a flush waits to list. Only where none is
  need `Shows` hold, so each step that takes a file away outside the window's knowledge (a sweep,
  a wipe, a delete that fails) has to leave one due, and it stays due until it begins.
- `Shows`: a record that History shows, or that the listing underway will replay (`Shown`), is
  parked, on its way, about to be deleted, or on the disk exactly as shown (`Lands`); and what
  a listing read and will not replay is still what the disk has (`ReadTrue`).
- `Seeded`: before the first full listing the window has only what was made since it opened, and
  a listing that begins then is seeded with all of that.
- `Forbidden`: after a wipe was heard, the copy of a dictation still parked is marked lost, and no save
  on its way writes that copy, so none that lands takes the mark off again. It needs `Edits`: a new
  copy has an edit that no save on its way has.

A listing that begins is the one step that makes `Shows` from nothing (`HistoryListed`); `HistoryAdd` is
the step that adds calls, `HistoryTaken` the arrival of one. The oldest flush whose wait is
over exists by the well-foundedness of the naturals (`Least`).

### A quit

`QuitKeepsItsPromise` composes the three stores. None of their invariants says enough: a
quit is confirmed when the flushes it started have settled, so the proof must know that
each of them waits for the right saves. `QuitProofs` adds

    QuitInv == Counted /\ QueueInv /\ SettingsInv /\ RecordsInv /\ Loaded0

- `QueueInv`: without a save timer the last save underway holds the queue, or the file does
  (`QueueSaved`). What a quit promised is in the file, or in one of the first `qwait`
  saves, the ones the quit waits for, or in every save behind one that failed (`QueueKeeps`).
- `SettingsInv`: revisions only rise along file, saves underway, window (`RevsRise`), so what covers
  the promise is not taken back by a later save. The file covers it, or a save that a waiting
  flush of the quit counts does (`CoverAwaited`), or a save failed, is held or refused.
- `RecordsInv`: for each record promised, neither the window's copy nor a listing that will
  replace it is older, and the disk has it with every save to come, or one of the saves counted
  by the quit's entry in `flushes` has (`CopyAwaited`). It takes `MirrorInv` and `DeletesInv` as
  given: a listing that was read is not older than what it forgets.
- `Counted`: a fault after the promise voids it; nothing is claimed then.

What makes them inductive is the place of a call among those of its kind (`Rank`): a flush
stores a number, and each arrival of a save takes one off that number and off the place of every
save behind it (`RankTail`), while calls added later change no place (`RankExtended`). A flush's
number is at least the place of each save before it and of its own (`RankWithin`,
`FlushCounts`), so when it reaches 0 all of them landed. `RecordsPromised` and
`SettingsPromised` are the steps that make the promise.

## 6. What is only model-checked, and what is not modelled

Proved are all safety properties of `RecordSession`, `StreamSession`, `StreamWs`,
`ClipCutter`, `MuteWorker`, `DictationController`, `ChordFamily`, `HotkeyListener`, `TranscribeJobs`,
`TextInjection` and `AppLife` that a run checks, and `SettingsSync`'s `ConsentFirst`; its
`EditsSurviveLivePrompts` and `PushesBuildOnTheServer` are model-checked on the bounds of section 3. Liveness under
fairness (`StartReturnsTheLock`, `SessionCloses`, `FinalizeEnds`, `HoldEnds`,
`EventuallyAgrees`) stays with TLC: it needs `ENABLED`, which the prover does not handle.

Not modelled, and why: device and codec code, focus queries, window placement and
HTTP plumbing are calls into external systems with little protocol of their own;
subtitle and transcript layout is about text, which the models abstract; views
and logging keep no protocol state. The Windows hook repeats the Linux
listener's hazards behind an API that cannot be scanned; the part it shares, the
chord engine, is modelled. The parts of section 1 marked so are planned.

Abstractions that a reader should know of when using a result: the shell-outs
that mute, and the removal of files, succeed; a speech server resolves utterances
in order; there is one keyboard; live text, the target picker and the overlay are
not part of `DictationController`, and per-phrase insertion is `TextInjection`'s;
`SettingsSync` starts on a device that never synced and is not restarted, its
keyring answers, and it leaves out the held config save, edits of the server's
address, the per-setting gates inside a category, the app-rules sub-merge and
the device's own "Delete server copy";
a latch's time to live does not expire. `AppLife` relies on the calls of a window
reaching Rust in the order they were made; what is asynchronous there runs at any
time after. It has no liveness claim: whether a timer fires is the window's, and
the properties speak of what holds once nothing is underway.

## 7. Plan

Order: the most important behaviour first. Done are the dictation path from the
key to the typed text and the file, the settings' synchronisation, the
transcription jobs, and the window's stores from launch to quit (sections 2 to 5).
Next:

1. **SettingsSync, extended** (`lib/sync/sync.ts`): a restart from the persisted
   state (`initSync`, whose launch work runs under the lock), `resetSyncState`, the
   degraded keyring, and the per-setting gates; the file import and export
   beside it. A second instance as the other device, so that both ends of the
   protocol are the code.
2. **Identifier migration** and **preload leases**: a crash protocol and a timeout
   protocol, one module each; the other store actions and the recordings of
   `HistoryStore`.
3. **Proofs**: the other two safety properties of `SettingsSync`, from an
   invariant on where each copy of a document comes from.
4. **Refinement** beyond batch dictation: `BatchClip` with a remembered discard in
   place of the list, implemented by `StreamSession`.
