---------------------------- MODULE ConfigStore ----------------------------
(***************************************************************************)
(* The settings: the window's store and its debounced auto-save             *)
(* (src/lib/persistence.ts), and config.json behind load_config and         *)
(* save_config (src-tauri/src/commands/config.rs, config/mod.rs).           *)
(*                                                                          *)
(* Settings are a number, the chords bound, whether those clash, and the     *)
(* two things a retention sweep reads: is dictation history kept, and is     *)
(* the window the factory's short one.                                      *)
(***************************************************************************)
EXTENDS WindowCalls

VARIABLES
  settings,   \* the store
  ready,      \* "no" until the launch load answered, then "yes" or "failed"
  timer,      \* the 400 ms auto-save timer runs
  chordsDue,  \* pendingBindingChange
  held,       \* saveHeld: what the sync push gate reads
  frozen,     \* the newest save attempt was a conflict freeze
  permitted,  \* evdevPermitted is known to be true
  waits       \* flushes that wait for saves underway

VARIABLES
  file,       \* what config.json holds, NoFile if there is none
  bad,        \* it cannot be read or parsed
  backups,    \* what the .bak files hold
  recovered,  \* RECOVERED_THIS_SESSION
  refused,    \* BACKUP_FAILED
  sweep,      \* SWEEP_NEXT: the config of the queued retention sweep, or NoFile
  sweeping,   \* that of the sweep its worker runs, or NoFile
  live,       \* the chords the hotkey backend has registered
  rebind      \* a reregister_shortcuts_unless_capturing is underway

(* History.                                                                 *)
VARIABLES
  kin,        \* contents the window loaded or saved this session
  missed      \* the last re-registration failed, or could not read config.json

storeVars == <<settings, ready, timer, chordsDue, held, frozen, permitted, waits>>
fileVars  == <<file, bad, backups, recovered, refused, sweep, sweeping>>
bindVars  == <<live, rebind, missed>>
configVars == <<storeVars, fileVars, bindVars, kin>>

Settings(rev, chords, clash, keep, brief) ==
  [rev |-> rev, chords |-> chords, clash |-> clash, keep |-> keep, brief |-> brief]

NoFile   == Settings(-1, 0, "none", TRUE, FALSE)
Defaults == Settings(0, 0, "none", TRUE, TRUE)   \* also what the store boots with
Mine     == Settings(1, 1, "none", TRUE, FALSE)  \* the user's, at the start

AllSettings ==
  [rev : -1..(MaxOps + 1), chords : 0..(MaxOps + 1), clash : {"none", "sides", "real"},
   keep : BOOLEAN, brief : BOOLEAN]

ConfigTypeOK ==
  /\ settings \in AllSettings /\ file \in AllSettings
  /\ sweep \in AllSettings /\ sweeping \in AllSettings
  /\ ready \in {"no", "yes", "failed"} /\ timer \in BOOLEAN /\ chordsDue \in BOOLEAN
  /\ held \in BOOLEAN /\ frozen \in BOOLEAN /\ permitted \in BOOLEAN
  /\ waits \subseteq [n : Nat, again : BOOLEAN, quit : BOOLEAN]
  /\ bad \in BOOLEAN /\ backups \subseteq AllSettings /\ recovered \in BOOLEAN
  /\ refused \in BOOLEAN /\ live \in 0..(MaxOps + 1) /\ rebind \in BOOLEAN
  /\ missed \in BOOLEAN
  /\ kin \subseteq AllSettings

ConfigInit ==
  /\ settings = Defaults /\ ready = "no" /\ timer = FALSE /\ chordsDue = FALSE
  /\ held = FALSE /\ frozen = FALSE /\ permitted = FALSE /\ waits = {}
  /\ file = Mine /\ bad = FALSE /\ backups = {} /\ recovered = FALSE /\ refused = FALSE
  /\ sweep = NoFile /\ sweeping = NoFile /\ live = 0 /\ rebind = FALSE
  /\ kin = {} /\ missed = FALSE

-----------------------------------------------------------------------------
(* The launch: config.json is read by Rust's setup and again for the window. *)

(* retention_held                                                           *)
HeldThisSession == recovered  \* mutant: a reset of an earlier launch is forgotten
RetentionHeld == recovered \/ (file = NoFile /\ backups # {})

(* load_outcome and backup_unreadable: a file that cannot be used is moved   *)
(* or copied to .bak, or no save is allowed this session.                   *)
Loads(body) ==
  \/ /\ ~bad
     /\ body = IF file = NoFile THEN Defaults ELSE file
     /\ UNCHANGED <<file, bad, backups, recovered, refused>>
  \/ /\ bad /\ body = file /\ bad' = FALSE  \* the lock on it lifted
     /\ UNCHANGED <<file, backups, recovered, refused>>
  \/ /\ bad /\ body = Defaults
     /\ recovered' = TRUE
     /\ \/ /\ file' = NoFile /\ bad' = FALSE /\ backups' = backups \cup {file}
           /\ UNCHANGED refused
        \/ /\ backups' = backups \cup {file}
           /\ UNCHANGED <<file, bad, refused>>
        \/ /\ refused' = TRUE
           /\ UNCHANGED <<file, bad, backups>>

(* The setup's load, its sweep and its first apply_bindings.                 *)
ConfigBoots ==
  /\ \E body \in {Defaults, file} :
       /\ Loads(body)
       /\ sweep' = IF RetentionHeld' THEN NoFile ELSE body
  /\ live' = IF bad' \/ file' = NoFile THEN 0 ELSE file'.chords
  /\ UNCHANGED <<storeVars, rebind, missed, sweeping, kin>>

(* The process ends: the next one's store boots empty.                        *)
ConfigDies ==
  /\ settings' = Defaults /\ ready' = "no"
  /\ timer' = FALSE /\ chordsDue' = FALSE /\ held' = FALSE /\ frozen' = FALSE
  /\ permitted' = FALSE /\ waits' = {}
  /\ recovered' = FALSE /\ refused' = FALSE /\ sweep' = NoFile /\ sweeping' = NoFile
  /\ live' = 0 /\ rebind' = FALSE /\ missed' = FALSE /\ kin' = {}
  /\ UNCHANGED <<file, bad, backups>>

(* initConfig after its await: hydrate, or keep the boot state and warn.     *)
LoadConfig ==
  /\ Arrives("load_config")
  /\ asked' = Tail(asked)
  /\ \/ /\ \E body \in {Defaults, file} :
              Loads(body) /\ settings' = body /\ kin' = {body}
        /\ ready' = "yes"
        /\ UNCHANGED faults
     \/ /\ Fails /\ ready' = "failed"
        /\ UNCHANGED <<settings, file, bad, backups, recovered, refused, kin>>
  /\ UNCHANGED <<ops, use, left, timer, chordsDue, held, frozen, permitted, waits,
                 sweep, sweeping, bindVars>>

-----------------------------------------------------------------------------
(* The auto-save.                                                           *)

(* conflicts(), with the sides of a modifier collapsed until evdev is known  *)
(* to be permitted.                                                         *)
Clashes(known) ==
  settings.clash = "real" \/ (settings.clash = "sides" /\ ~known)

ConfigCall == [cmd |-> "save_config", body |-> settings, chords |-> chordsDue]

(* saveNow, apart from its call: a freeze holds the save and keeps the       *)
(* intent to re-register.                                                   *)
SaveCalls(known) == IF Clashes(known) THEN <<>> ELSE <<ConfigCall>>
SaveNow(known) ==
  /\ timer' = FALSE
  /\ frozen' = Clashes(known)
  /\ held' = (held \/ Clashes(known))
  /\ chordsDue' = (chordsDue /\ Clashes(known))

(* A change the auto-save hears.                                            *)
Changes(s) ==
  /\ ready # "no" /\ Acts("config")
  /\ settings' = s
  /\ timer' = TRUE
  /\ chordsDue' = (chordsDue \/ s.chords # settings.chords)
  /\ UNCHANGED <<asked, faults, ready, held, frozen, permitted, waits, fileVars,
                 bindVars, kin>>

Rev == Edit + 1
EditPlain == Changes([settings EXCEPT !.rev = Rev])
EditKeep  == Changes([settings EXCEPT !.rev = Rev, !.keep = ~@])
EditChords(clash) ==
  Changes([settings EXCEPT !.rev = Rev, !.chords = Rev, !.clash = clash])

SaveTimer ==
  /\ timer
  /\ SaveNow(permitted)
  /\ asked' = asked \o SaveCalls(permitted)
  /\ UNCHANGED <<ops, use, left, faults, settings, ready, permitted, waits, fileVars,
                 bindVars, kin>>

Writing == Underway("save_config")

(* flushPendingSave: the timer at once, else the save underway, else the      *)
(* held one.  What is underway may be older than a freeze: then flush again  *)
(* once it settled.                                                         *)
MustSave == timer \/ (Writing = 0 /\ held)
FlushCalls(known) == IF MustSave THEN SaveCalls(known) ELSE <<>>
FlushWaits(quits, known) ==
  LET n == Writing + Len(FlushCalls(known))
      again == ~MustSave /\ frozen
  IN  IF n = 0 \/ (MustSave /\ Clashes(known)) THEN {}
      ELSE {[n |-> n, again |-> again, quit |-> q] : q \in {q \in quits : q \/ again}}

FlushSave(others, quits, known) ==
  /\ waits' = others \cup FlushWaits(quits, known)
  /\ IF MustSave THEN SaveNow(known) ELSE UNCHANGED <<timer, frozen, held, chordsDue>>

(* The `.then(flushConfigSave)` of a settled save: a microtask.               *)
ConfigDue == \E w \in waits : w.n = 0
Reflush ==
  LET due == {w \in waits : w.n = 0} IN
  /\ due # {}
  /\ FlushSave(waits \ due, {w.quit : w \in due}, permitted)
  /\ asked' = asked \o FlushCalls(permitted)
  /\ UNCHANGED <<ops, use, left, faults, settings, ready, permitted, fileVars, bindVars,
                 kin>>

(* evdevStatus answers: a save held under the old decision is flushed.        *)
LearnPermitted ==
  /\ ready # "no" /\ ~permitted
  /\ permitted' = TRUE
  /\ IF held
     THEN /\ FlushSave(waits, {FALSE}, TRUE)
          /\ asked' = asked \o FlushCalls(TRUE)
     ELSE UNCHANGED <<asked, timer, chordsDue, held, frozen, waits>>
  /\ UNCHANGED <<ops, use, left, faults, settings, ready, fileVars, bindVars, kin>>

(* retryHeldConfigSave: the sync engine's manual push.                        *)
RetryHeld ==
  /\ held
  /\ FlushSave(waits, {FALSE}, permitted)
  /\ asked' = asked \o FlushCalls(permitted)
  /\ UNCHANGED <<ops, use, left, faults, settings, ready, permitted, fileVars, bindVars,
                 kin>>

-----------------------------------------------------------------------------
(* save_config, and the answer the window hears.                            *)

(* The newest attempt decides the hold: saves answer in turn, so it is the   *)
(* last write underway with no freeze after it.                             *)
LastToAnswer == Writing = 1  \* mutant: a freeze since does not count
Newest == ~frozen /\ Writing = 1

Settles(ws) ==
  LET next == {[w EXCEPT !.n = @ - 1] : w \in ws}
  IN  {w \in next : w.n > 0 \/ w.again}

SaveLands ==
  LET c == Head(asked) IN
  /\ Arrives("save_config") /\ ~refused
  /\ asked' = Tail(asked)
  /\ file' = c.body /\ bad' = FALSE
  /\ sweep' = IF RetentionHeld THEN sweep ELSE c.body
  /\ kin' = kin \cup {c.body}
  /\ held' = (held /\ ~Newest)
  /\ rebind' = (rebind \/ c.chords \/ (Newest /\ chordsDue))
  /\ waits' = Settles(waits)
  /\ UNCHANGED <<ops, use, left, faults, settings, ready, timer, chordsDue, frozen,
                 permitted, backups, recovered, refused, sweeping, live, missed>>

(* The failed save hands back its intent to re-register.                      *)
SaveFails ==
  LET c == Head(asked) IN
  /\ Arrives("save_config")
  /\ asked' = Tail(asked)
  /\ IF refused THEN UNCHANGED faults ELSE Fails
  /\ held' = (held \/ Newest)
  /\ chordsDue' = (chordsDue \/ c.chords)
  /\ waits' = Settles(waits)
  /\ UNCHANGED <<ops, use, left, settings, ready, timer, frozen, permitted, fileVars,
                 bindVars, kin>>

(* reregister_shortcuts_unless_capturing: re-read config.json and apply.  A    *)
(* command that fails is only logged (persistence.ts:296), and a file that      *)
(* cannot be read leaves the chords of the last one that could               *)
(* (bindings_config); neither is tried again.  A capture underway puts it off  *)
(* to the capture's end, whose own re-registration is then this one.         *)
Rebinds ==
  /\ rebind
  /\ rebind' = FALSE
  /\ \/ ~bad /\ live' = file.chords /\ missed' = FALSE
     \/ live' = live /\ missed' = TRUE
  /\ UNCHANGED <<callVars, storeVars, fileVars, kin>>
=============================================================================
