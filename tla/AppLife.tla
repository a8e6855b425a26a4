------------------------------ MODULE AppLife ------------------------------
(***************************************************************************)
(* The main window's three stores over one life of the application and the   *)
(* next: settings, History and the outcome queue share the calls to Rust, a  *)
(* launch reads all three, a quit waits for all three (quit.rs, App.tsx), a   *)
(* crash waits for none, and the retention sweep that a config save queues    *)
(* deletes the records that History shows.                                   *)
(***************************************************************************)
EXTENDS ConfigStore, HistoryStore, OutcomeQueue

VARIABLES
  life,      \* "down" or "up"
  quit,      \* "no", "asked", "flushing" or "ready": the quit handshake
  promised   \* history: what the stores held when a quit flushed them

lifeVars == <<life, quit, promised>>
vars == <<callVars, configVars, historyVars, queueVars, lifeVars>>

NoPromise == [rev |-> 0, records |-> Nothing, queue |-> {}, faults |-> 0]

TypeOK ==
  /\ ConfigTypeOK /\ HistoryTypeOK /\ QueueTypeOK
  /\ ops \in 0..MaxOps /\ use \in Budgets /\ left \in [DOMAIN use -> Nat]
  /\ faults \in 0..use.faults
  /\ life \in {"down", "up"} /\ quit \in {"no", "asked", "flushing", "ready"}
  /\ promised \in [rev : 0..(MaxOps + 1), records : Contents, queue : SUBSET Outcomes,
                  faults : Nat]

Init ==
  /\ asked = <<>> /\ ops = 0 /\ use \in Budgets /\ left = use /\ faults = 0
  /\ ConfigInit /\ HistoryInit /\ QueueInit
  /\ life = "down" /\ quit = "no" /\ promised = NoPromise

-----------------------------------------------------------------------------
(* config.json becomes unreadable, or a hand edit breaks it, while the        *)
(* application is down.                                                     *)
Break ==
  /\ life = "down" /\ ~bad /\ file # NoFile /\ Uses("config") /\ Fails
  /\ bad' = TRUE
  /\ UNCHANGED <<asked, ops, use, left, storeVars, file, backups, recovered, refused,
                 sweep, sweeping, bindVars, kin, historyVars, queueVars, lifeVars>>

(* setup, and the main window's boot.                                        *)
Launch ==
  /\ life = "down" /\ Spends("launches")
  /\ life' = "up"
  /\ ConfigBoots /\ QueueBoots /\ UNCHANGED historyVars
  /\ asked' = <<[cmd |-> "load_config"]>>
  /\ UNCHANGED <<ops, use, faults, quit, promised>>

Dies ==
  /\ life' = "down" /\ quit' = "no" /\ promised' = NoPromise
  /\ ConfigDies /\ HistoryDies /\ QueueDies
  /\ asked' = <<>>
  /\ UNCHANGED <<ops, use, left, faults>>

Crash == life = "up" /\ Dies

-----------------------------------------------------------------------------
(* The window is one thread: a promise's callback runs before its next task.  *)
Callback == ConfigDue \/ FlushDue \/ ChainDue
Task == life = "up" /\ ~Callback

OnConfig == UNCHANGED <<historyVars, queueVars, lifeVars>>
OnHistory == UNCHANGED <<configVars, queueVars, lifeVars>>
OnQueue == UNCHANGED <<configVars, historyVars, lifeVars>>

Callbacks ==
  /\ life = "up"
  /\ \/ Reflush /\ OnConfig
     \/ (FlushSettles \/ Chained) /\ OnHistory

ConfigTask ==
  \/ LoadConfig \/ EditPlain \/ SaveTimer \/ RetryHeld
  \/ Uses("config") /\ LearnPermitted
  \/ \E clash \in {"none", "sides", "real"} : EditChords(clash)
  \/ SaveLands \/ SaveFails \/ Rebinds

HistoryTask ==
  \/ \E r \in Records :
       \/ EditRecord(r) \/ TypeEdit(r) \/ TypingTimer(r) \/ CoalesceTimer(r)
       \/ DeleteRecord(r) \/ DeleteRuns(r)
  \/ Uses("history") /\ OpenHistory
  \/ ListArrives \/ ListRuns \/ ListLands
  \/ SaveRecord \/ DeleteArrives
  \/ AskWipe \/ WipeArrives \/ WipeRuns \/ WipeFails \/ WipeAnswered
  \/ HearSweep(settings.keep)

QueueTask ==
  \/ Enqueue \/ QueueTimer \/ WriteSettles
  \/ Uses("queue") /\ (ReadLands \/ ReadFails)
  \/ ready = "yes" /\ Post
  \/ PostSent \/ PostRetried \/ PostRefused

(* "Save dictations to History": back on, it also ends what a sweep's wipe     *)
(* forbids.                                                                 *)
KeepDictations ==
  /\ EditKeep
  /\ wipedHeard' = (wipedHeard /\ settings.keep)
  /\ UNCHANGED <<mirror, parked, stamped, typing, loaded, sessionOnly, listing, snap,
                 touched, again, flushes, wipe, preWipe, historyDisk, lost, buried,
                 born, ghosts, queueVars, lifeVars>>

(* recordRun, and recordDictation if the switch is on (historyMeta).          *)
RecordNew ==
  /\ \E r \in Records : (r \in Files \/ (settings.keep /\ ready # "no")) /\ AddRecord(r)
  /\ OnHistory

-----------------------------------------------------------------------------
(* The retention worker (drain_newest).                                      *)
TakeSweep ==
  /\ life = "up" /\ sweep # NoFile /\ sweeping = NoFile
  /\ Uses("config") \/ Uses("history")
  /\ sweeping' = sweep /\ sweep' = NoFile
  /\ UNCHANGED <<callVars, storeVars, file, bad, backups, recovered, refused, bindVars,
                 kin, historyVars, queueVars, lifeVars>>

RunSweep ==
  /\ life = "up" /\ sweeping # NoFile
  /\ Sweep(~sweeping.keep, sweeping.brief)
  /\ sweeping' = NoFile
  /\ UNCHANGED <<callVars, storeVars, file, bad, backups, recovered, refused, sweep,
                 bindVars, kin, historyWindow, pool, lost, buried, born, ghosts,
                 queueVars, lifeVars>>

-----------------------------------------------------------------------------
(* The quit handshake.                                                      *)

(* flushPendingWrites.                                                      *)
FlushAll(quits) ==
  /\ FlushHistory(quits)
  /\ IF ready = "no" THEN UNCHANGED <<waits, timer, frozen, held, chordsDue>>
     ELSE FlushSave(waits, {quits}, permitted)
  /\ FlushQueue(quits)
  /\ asked' = asked \o FlushHistoryCalls
                    \o (IF ready = "no" THEN <<>> ELSE FlushCalls(permitted))
  /\ UNCHANGED <<ops, use, left, faults, settings, ready, permitted, fileVars, bindVars,
                 kin, loaded, sessionOnly, listing, snap, again, wipedHeard, wipe,
                 preWipe, historyDisk, lost, buried, born, ghosts, queue, qloaded,
                 qdisk, post, server, dropped, qfailed, life>>

(* request_quit.                                                            *)
RequestQuit ==
  /\ life = "up" /\ quit = "no"
  /\ quit' = "asked"
  /\ UNCHANGED <<callVars, configVars, historyVars, queueVars, life, promised>>

(* app://before-quit.                                                       *)
BeforeQuit ==
  /\ Task /\ quit = "asked"
  /\ FlushAll(TRUE)
  /\ quit' = "flushing"
  /\ promised' = [rev |-> settings.rev,
                   records |-> [r \in Records |->
                                  IF r \in lost \/ mirror[r] = {} THEN {}
                                  ELSE mirror[r] \cup typing[r]],
                   queue |-> IF qloaded THEN queue ELSE {},
                   faults |-> faults]

QuitWaits ==
  \/ \E w \in waits : w.quit
  \/ \E i \in 1..Len(flushes) : flushes[i].then = "quit"
  \/ qwait > 0

(* quit_ready, once every flush settled.                                     *)
QuitReady ==
  /\ Task /\ quit = "flushing" /\ ~QuitWaits
  /\ quit' = "ready"
  /\ UNCHANGED <<callVars, configVars, historyVars, queueVars, life, promised>>

(* exit_now, once the window confirmed or 1.5 s passed.                       *)
Exit == life = "up" /\ quit # "no" /\ Dies

(* WM_QUERYENDSESSION, and a reload of the window that is cut short.          *)
SessionEnding ==
  /\ Task
  /\ FlushAll(FALSE)
  /\ UNCHANGED <<quit, promised>>

Next ==
  \/ Break \/ Launch \/ Crash \/ Exit
  \/ Callbacks
  \/ Task /\ ConfigTask /\ OnConfig
  \/ Task /\ HistoryTask /\ OnHistory
  \/ Task /\ QueueTask /\ OnQueue
  \/ Task /\ KeepDictations
  \/ Task /\ RecordNew
  \/ TakeSweep \/ RunSweep
  \/ RequestQuit \/ BeforeQuit \/ QuitReady \/ SessionEnding

Spec == Init /\ [][Next]_vars

-----------------------------------------------------------------------------
(* Properties.                                                              *)

(* Once nothing is underway and no save is held, config.json is what the      *)
(* window shows and the hotkeys are those of config.json: no order of edits,   *)
(* freezes, failed saves and flushes loses an edit or its re-registration.  A  *)
(* re-registration that failed or could not read config.json is not tried      *)
(* again: the hotkeys are left out until the next one that works (missed).    *)
ConfigQuiet ==
  life = "up" /\ ready = "yes" /\ ~timer /\ ~held /\ Writing = 0 /\ waits = {}
SettlesOnDisk ==
  ConfigQuiet =>
    /\ settings.rev > 0 => file = settings
    /\ ~rebind /\ ~missed /\ ~recovered /\ file # NoFile => live = file.chords

(* A reset of the settings costs nothing: config.json is only replaced when   *)
(* what it held is in a backup, or is what this window loaded or saved (unless *)
(* its load failed, of which it warned); and the factory's short retention     *)
(* window deletes nothing until the reset settings were saved over, at the     *)
(* launch that reset as at a later one.                                      *)
ResetIsHarmless ==
  [][/\ file' # file =>
          file = NoFile \/ file \in backups' \/ file \in kin \/ ready = "failed"
     /\ sweeping = Defaults /\ sweeping' # sweeping => disk' = disk]_vars

(* The mirror never goes back to an older copy of a record, which a later      *)
(* patch would then save over the newer one; unless its save had failed.      *)
MirrorNeverReverts ==
  [][life' = "up" =>
       \A r \in Records : mirror'[r] = {} \/ mirror[r] \subseteq mirror'[r] \/ r \in lost]_vars

(* Once nothing is underway, History shows what is on the disk: no order of   *)
(* writes, listings, sweeps and deletes leaves them apart.  One order does, and *)
(* is left out: a delete that had not run when the last listing began.        *)
HistoryQuiet ==
  /\ life = "up" /\ loaded = "yes" /\ asked = <<>> /\ pool = {} /\ swept = <<>>
  /\ parked = Nothing /\ typing = Nothing /\ flushes = <<>> /\ listing = "no" /\ again = 0
  /\ wipe = "no" /\ sweeping = NoFile
HistorySettles == HistoryQuiet => \A r \in Records \ (lost \cup ghosts) : mirror[r] = disk[r]

(* A record the user deleted stays deleted once its delete ran: no parked     *)
(* write, typed edit, listing or sweep brings its file back.  Left out (of      *)
(* buried) is a delete that a later listing overtook, begun before the delete  *)
(* ran: it may put the record back in the mirror, where a patch saves it anew.  *)
DeletedStaysDeleted == \A r \in buried : disk[r] = {}

(* An outcome leaves the file only when the server has it or refused it: no    *)
(* read, save, crash or relaunch loses the backlog.                          *)
BacklogSurvives == [][qdisk \ qdisk' \subseteq server' \cup dropped']_vars

(* A quit the window confirmed loses nothing it held when it was asked: each   *)
(* record, the settings and the queue are on the disk, or were removed since,  *)
(* or their save failed or is frozen.                                        *)
RecordKept(r) ==
  \/ promised.records[r] \subseteq disk[r] \/ disk[r] = {}
  \/ r \in lost
QuitLosesNothing ==
  [][life = "up" /\ life' = "down" /\ quit = "ready" /\ faults = promised.faults =>
       /\ \A r \in Records : RecordKept(r)
       /\ promised.rev = 0 \/ file.rev >= promised.rev \/ held \/ refused \/ ready # "yes"
       /\ promised.queue \subseteq qdisk \cup server \cup dropped \/ qfailed]_vars
=============================================================================
