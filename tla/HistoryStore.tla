---------------------------- MODULE HistoryStore ----------------------------
(***************************************************************************)
(* History: the window's mirror of the records, its debounced and coalesced  *)
(* writes (src/lib/transcript/transcriptHistory.ts, transcribeRun.ts), the   *)
(* record files (src-tauri/src/store/transcripts.rs) and "Delete all          *)
(* dictations" (src/screens/Settings.tsx).                                  *)
(*                                                                          *)
(* What a record holds is the set of edits made to it, 0 for what it held at *)
(* first and {} when there is no such record, so that a write of an old copy *)
(* shows as a missing edit.                                                 *)
(***************************************************************************)
EXTENDS WindowCalls

CONSTANTS
  Files,       \* ids of file transcriptions
  Dictations,  \* ids of dictations
  OldRecords,  \* the records there are at the start
  Aged         \* those of them the factory's retention window removes

ASSUME RecordsAssumption ==
  /\ IsFiniteSet(Files \cup Dictations) /\ Files \cap Dictations = {}
  /\ OldRecords \subseteq Files \cup Dictations /\ Aged \subseteq OldRecords

Records == Files \cup Dictations

(* The window.                                                              *)
VARIABLES
  mirror,       \* useTranscriptHistory's records
  parked,       \* pendingWrite: copies whose write is coalesced
  stamped,      \* records with a lastWriteAt
  typing,       \* overlay edits in their 800 ms debounce
  loaded,       \* "no", "yes" or "failed": the last listing
  sessionOnly,  \* mirrorSessionOnly
  listing,      \* "no", "asked", "running", "read" or "unread"
  snap,         \* what the listing read
  touched,      \* touchedSinceListing: copies replayed over it, {} for a delete
  again,        \* forced listings chained onto the one underway
  wipedHeard,   \* dictationsWiped
  flushes,      \* flushRecordWrites calls that wait, oldest first
  wipe,         \* "no", "flushing", "asked", "running", "wiped" or "failed"
  preWipe       \* the dictations listed when the wipe began

(* Rust, and history.                                                       *)
VARIABLES
  disk,    \* the record files
  pool,    \* deletes that arrived
  swept,   \* transcripts://swept events, oldest first: were dictations wiped?
  lost,    \* records whose newest copy no save wrote: it failed, or a wipe forbade it
  buried,  \* records the user deleted, whose delete ran before any later listing began
  born,    \* ids in use
  ghosts   \* records whose delete had not run when the last listing began

historyWindow == <<mirror, parked, stamped, typing, loaded, sessionOnly, listing, snap,
                   touched, again, wipedHeard, flushes, wipe, preWipe>>
historyDisk == <<disk, pool, swept>>
historyVars == <<historyWindow, historyDisk, lost, buried, born, ghosts>>

Contents == [Records -> SUBSET (0..MaxOps)]
Nothing == [r \in Records |-> {}]
Listed(records) == {r \in Records : records[r] # {}}

HistoryTypeOK ==
  /\ mirror \in Contents /\ parked \in Contents /\ disk \in Contents /\ snap \in Contents
  /\ typing \in Contents /\ stamped \subseteq Records
  /\ loaded \in {"no", "yes", "failed"} /\ sessionOnly \in BOOLEAN
  /\ listing \in {"no", "asked", "running", "read", "unread"} /\ again \in Nat
  /\ DOMAIN touched \subseteq Records /\ wipedHeard \in BOOLEAN
  /\ flushes \in Seq([saves : Nat, dels : SUBSET Records, then : {"list", "wipe", "quit"}])
  /\ wipe \in {"no", "flushing", "asked", "running", "wiped", "failed"}
  /\ preWipe \subseteq Dictations
  /\ pool \subseteq Records /\ swept \in Seq(BOOLEAN)
  /\ lost \subseteq Records /\ buried \subseteq Records /\ born \subseteq Records
  /\ ghosts \subseteq Records

HistoryInit ==
  /\ mirror = Nothing /\ parked = Nothing /\ stamped = {} /\ typing = Nothing
  /\ loaded = "no" /\ sessionOnly = TRUE /\ listing = "no" /\ snap = Nothing
  /\ touched = <<>> /\ again = 0 /\ wipedHeard = FALSE /\ flushes = <<>>
  /\ wipe = "no" /\ preWipe = {}
  /\ disk = [r \in Records |-> IF r \in OldRecords THEN {0} ELSE {}]
  /\ pool = {} /\ swept = <<>> /\ lost = {} /\ buried = {} /\ born = OldRecords
  /\ ghosts = {}

(* The process ends: the next one's window boots empty.                      *)
HistoryDies ==
  /\ mirror' = Nothing /\ parked' = Nothing /\ stamped' = {} /\ typing' = Nothing
  /\ loaded' = "no" /\ sessionOnly' = TRUE /\ listing' = "no" /\ snap' = Nothing
  /\ touched' = <<>> /\ again' = 0 /\ wipedHeard' = FALSE /\ flushes' = <<>>
  /\ wipe' = "no" /\ preWipe' = {}
  /\ pool' = {} /\ swept' = <<>> /\ lost' = {} /\ ghosts' = {}
  /\ UNCHANGED <<disk, buried, born>>

-----------------------------------------------------------------------------
(* Writes.                                                                  *)

RecordCall(r, body) == [cmd |-> "save_record", rec |-> r, body |-> body]
ListCall   == [cmd |-> "list"]
WipeCall   == [cmd |-> "wipe"]
DeleteCall(r) == [cmd |-> "delete", rec |-> r]

(* writeNow: a dictation is not written once a sweep wiped them.              *)
Writable(rs) == IF wipedHeard THEN rs \ Dictations ELSE rs
Saves(rs, copies) ==
  LET order == SetToSeq(Writable(rs))
  IN  [i \in 1..Len(order) |-> RecordCall(order[i], copies[order[i]])]

(* Saves and deletes not yet settled: inFlight.                             *)
RecordsUnderway == Underway("save_record")
Dying ==
  pool \cup {asked[i].rec : i \in {j \in 1..Len(asked) : asked[j].cmd = "delete"}}

Waiter(saves, then) == [saves |-> saves, dels |-> Dying, then |-> then]

(* dropPendingWrites(only).                                                 *)
Undropped(rs) == parked  \* mutant: what is parked is still written
Dropped(rs) == [r \in Records |-> IF r \in rs THEN {} ELSE parked[r]]
Unstamped(rs) == stamped \ {r \in rs : parked[r] # {}}

(* upsertRecord: the mirror at once, the disk at once or, within two seconds *)
(* of the record's last write, later.                                       *)
Untouched(r, copy) == touched  \* mutant: a listing forgets what changed meanwhile
TouchAll(copies, rs) ==
  [r \in rs \cup DOMAIN touched |-> IF r \in rs THEN copies[r] ELSE touched[r]]
Touch(r, copy) ==
  IF listing = "no" THEN touched ELSE TouchAll([q \in {r} |-> copy], {r})
Upsert(r, copy) ==
  /\ mirror' = [mirror EXCEPT ![r] = copy]
  /\ touched' = Touch(r, copy)
  /\ lost' = lost \cup ({r} \ Writable({r}))
  /\ \/ /\ r \in stamped  \* within the window, or its timer runs
        /\ parked' = [parked EXCEPT ![r] = copy]
        /\ UNCHANGED <<asked, stamped>>
     \/ /\ parked[r] = {}
        /\ asked' = asked \o Saves({r}, mirror')
        /\ stamped' = stamped \cup Writable({r})
        /\ UNCHANGED parked

restHistory == <<loaded, sessionOnly, listing, snap, again, wipedHeard, flushes, wipe,
                 preWipe, historyDisk, buried, ghosts>>

(* patchRecord: the latest copy, or nothing when the record is gone.          *)
EditRecord(r) ==
  /\ mirror[r] # {} /\ Acts("history")
  /\ Upsert(r, mirror[r] \cup {Edit})
  /\ UNCHANGED <<faults, typing, restHistory, born>>

(* recordDictation, recordRun: a new record.                                *)
AddRecord(r) ==
  /\ r \notin born /\ Acts("history")
  /\ born' = born \cup {r}
  /\ Upsert(r, {Edit})
  /\ UNCHANGED <<faults, typing, restHistory>>

(* schedulePersistEdits, and persistEditsNow on the latest copy.              *)
TypeEdit(r) ==
  /\ r \in Files /\ mirror[r] # {} /\ Acts("history")
  /\ typing' = [typing EXCEPT ![r] = @ \cup {Edit}]
  /\ UNCHANGED <<asked, faults, mirror, parked, stamped, touched, restHistory, born, lost>>

TypingTimer(r) ==
  /\ typing[r] # {}
  /\ typing' = [typing EXCEPT ![r] = {}]
  /\ IF mirror[r] = {} THEN UNCHANGED <<asked, mirror, parked, stamped, touched, lost>>
     ELSE Upsert(r, mirror[r] \cup typing[r])
  /\ UNCHANGED <<ops, use, left, faults, restHistory, born>>

CoalesceTimer(r) ==
  /\ parked[r] # {}
  /\ parked' = [parked EXCEPT ![r] = {}]
  /\ asked' = asked \o Saves({r}, parked)
  /\ stamped' = stamped \cup Writable({r})
  /\ UNCHANGED <<ops, use, left, faults, mirror, typing, touched, restHistory, born, lost>>

(* deleteRecord, with the workbench's registries (forgetRecord).              *)
DeleteRecord(r) ==
  /\ mirror[r] # {} /\ Acts("history")
  /\ listing # "no" \/ loaded # "no"  \* the History screen is open
  /\ mirror' = [mirror EXCEPT ![r] = {}]
  /\ parked' = Dropped({r}) /\ stamped' = stamped \ {r}
  /\ typing' = [typing EXCEPT ![r] = {}]
  /\ touched' = Touch(r, {})
  /\ asked' = Append(asked, DeleteCall(r))
  /\ UNCHANGED <<faults, restHistory, born, lost>>

(* The history part of a quit's flush: flushPersistEdits, then              *)
(* flushRecordWrites; its calls, and who waits for them.                     *)
NothingTyped == {}  \* mutant: a debounced edit is not flushed
Typed == {r \in Records : typing[r] # {} /\ mirror[r] # {}}
TypedMirror ==
  [r \in Records |-> IF r \in Typed THEN mirror[r] \cup typing[r] ELSE mirror[r]]
TypedParked == [r \in Records |-> IF r \in Typed THEN TypedMirror[r] ELSE parked[r]]
FlushHistoryCalls == Saves(Listed(TypedParked), TypedParked)
FlushHistory(quits) ==
  /\ typing' = Nothing
  /\ mirror' = TypedMirror
  /\ touched' = IF listing = "no" THEN touched ELSE TouchAll(TypedMirror, Typed)
  /\ parked' = Nothing
  /\ stamped' = stamped \cup Writable(Listed(TypedParked))
  /\ LET saves == RecordsUnderway + Len(FlushHistoryCalls)
     IN  flushes' = IF quits THEN Append(flushes, Waiter(saves, "quit")) ELSE flushes

-----------------------------------------------------------------------------
(* Listings.                                                                *)

(* loadHistory, over what is left parked after the caller's drop.             *)
LoadHistory(force, parks, kept) ==
  /\ sessionOnly' = (sessionOnly /\ ~force)
  /\ IF listing # "no" \/ (~force /\ loaded = "yes")
     THEN /\ again' = again + (IF force THEN 1 ELSE 0)
          /\ parked' = parks /\ stamped' = kept
          /\ UNCHANGED <<asked, listing, touched, ghosts>>
     ELSE LET flushed == Listed(parks)
              seed == IF sessionOnly' THEN Listed(mirror) ELSE {}
          IN  /\ asked' = asked \o Saves(flushed, parks) \o <<ListCall>>
              /\ parked' = Nothing /\ stamped' = kept \cup Writable(flushed)
              /\ listing' = "asked" /\ ghosts' = Dying
              /\ touched' = [r \in flushed \cup seed |->
                               IF mirror[r] # {} THEN mirror[r] ELSE parks[r]]
              /\ UNCHANGED again

(* A screen mounts.                                                         *)
OpenHistory ==
  /\ loaded # "yes" /\ listing = "no"
  /\ LoadHistory(FALSE, parked, stamped)
  /\ UNCHANGED <<ops, use, left, faults, mirror, typing, loaded, snap, wipedHeard,
                 flushes, wipe, preWipe, historyDisk, lost, buried, born>>

(* A forced listing that was chained onto the one that just landed.           *)
ChainDue == again > 0 /\ listing = "no"
Chained ==
  /\ ChainDue
  /\ again' = again - 1
  /\ LET flushed == Listed(parked)
     IN  /\ asked' = asked \o Saves(flushed, parked) \o <<ListCall>>
         /\ parked' = Nothing /\ stamped' = stamped \cup Writable(flushed)
         /\ touched' = [r \in flushed |-> IF mirror[r] # {} THEN mirror[r] ELSE parked[r]]
         /\ ghosts' = Dying
  /\ listing' = "asked" /\ sessionOnly' = FALSE
  /\ UNCHANGED <<ops, use, left, faults, mirror, typing, loaded, snap, wipedHeard,
                 flushes, wipe, preWipe, historyDisk, lost, buried, born>>

restWindow == <<mirror, parked, stamped, typing, loaded, sessionOnly, touched, again,
                wipedHeard, flushes, preWipe>>

ListArrives ==
  /\ Arrives("list")
  /\ asked' = Tail(asked) /\ listing' = "running"
  /\ UNCHANGED <<ops, use, left, faults, restWindow, snap, wipe, historyDisk, lost,
                 buried, born, ghosts>>

(* list_transcript_records.                                                 *)
ListRuns ==
  /\ listing = "running"
  /\ \/ snap' = disk /\ listing' = "read" /\ UNCHANGED faults
     \/ Fails /\ listing' = "unread" /\ UNCHANGED snap
  /\ UNCHANGED <<asked, ops, use, left, restWindow, wipe, historyDisk, lost, buried,
                 born, ghosts>>

(* Its answer: the copies touched meanwhile are newer than the snapshot.      *)
SnapshotOnly == snap  \* mutant: no replay
Replayed == [r \in Records |-> IF r \in DOMAIN touched THEN touched[r] ELSE snap[r]]
ListLands ==
  /\ listing \in {"read", "unread"}
  /\ listing' = "no" /\ touched' = <<>> /\ snap' = Nothing
  /\ IF listing = "read"
     THEN mirror' = Replayed /\ loaded' = "yes" /\ sessionOnly' = FALSE
     ELSE loaded' = "failed" /\ UNCHANGED <<mirror, sessionOnly>>
  /\ UNCHANGED <<callVars, parked, stamped, typing, again, wipedHeard, flushes, wipe,
                 preWipe, historyDisk, lost, buried, born, ghosts>>

-----------------------------------------------------------------------------
(* save_transcript_record, delete_transcript_record, and their answers.      *)

Settled(ws) == [i \in 1..Len(ws) |-> [ws[i] EXCEPT !.saves = IF @ = 0 THEN 0 ELSE @ - 1]]
Deleted(ws, r) == [i \in 1..Len(ws) |-> [ws[i] EXCEPT !.dels = @ \ {r}]]

SaveRecord ==
  LET c == Head(asked) IN
  /\ Arrives("save_record")
  /\ asked' = Tail(asked)
  /\ \/ /\ disk' = [disk EXCEPT ![c.rec] = c.body]
        /\ lost' = lost \ {r \in {c.rec} : c.body = mirror[r]}
        /\ UNCHANGED faults
     \/ Fails /\ lost' = lost \cup {c.rec} /\ UNCHANGED disk
  /\ flushes' = Settled(flushes)
  /\ UNCHANGED <<ops, use, left, mirror, parked, stamped, typing, loaded, sessionOnly,
                 listing, snap, touched, again, wipedHeard, wipe, preWipe, pool, swept,
                 buried, born, ghosts>>

DeleteArrives ==
  /\ Arrives("delete")
  /\ asked' = Tail(asked) /\ pool' = pool \cup {Head(asked).rec}
  /\ UNCHANGED <<ops, use, left, faults, historyWindow, disk, swept, lost, buried, born,
                 ghosts>>

(* A failed delete keeps the record: list again, once what is underway landed. *)
DeleteRuns(r) ==
  /\ r \in pool
  /\ pool' = pool \ {r}
  /\ \/ /\ disk' = [disk EXCEPT ![r] = {}] /\ buried' = buried \cup ({r} \ ghosts)
        /\ flushes' = Deleted(flushes, r)
        /\ UNCHANGED <<asked, faults, parked, stamped>>
     \/ /\ Fails
        /\ asked' = asked \o Saves(Listed(parked), parked)
        /\ parked' = Nothing /\ stamped' = stamped \cup Writable(Listed(parked))
        /\ flushes' = Append(Deleted(flushes, r),
                             [saves |-> RecordsUnderway + Len(Saves(Listed(parked), parked)),
                              dels |-> Dying \ {r}, then |-> "list"])
        /\ UNCHANGED <<disk, buried>>
  /\ UNCHANGED <<ops, use, left, mirror, typing, loaded, sessionOnly, listing, snap,
                 touched, again, wipedHeard, wipe, preWipe, swept, lost, born, ghosts>>

(* What waited for a flush goes on: a microtask.                             *)
Due(w) == w.saves = 0 /\ w.dels = {}
FlushDue == \E i \in 1..Len(flushes) : Due(flushes[i])
FlushSettles ==
  LET i == CHOOSE i \in 1..Len(flushes) :
             Due(flushes[i]) /\ \A j \in 1..(i - 1) : ~Due(flushes[j])
  IN
  /\ FlushDue
  /\ flushes' = RemoveAt(flushes, i)
  /\ \/ /\ flushes[i].then = "list"
        /\ LoadHistory(TRUE, parked, stamped)
        /\ UNCHANGED wipe
     \/ /\ flushes[i].then = "wipe"
        /\ asked' = Append(asked, WipeCall) /\ wipe' = "asked"
        /\ UNCHANGED <<parked, stamped, sessionOnly, again, listing, touched, ghosts>>
     \/ /\ flushes[i].then = "quit"
        /\ UNCHANGED <<asked, wipe, parked, stamped, sessionOnly, again, listing, touched,
                       ghosts>>
  /\ UNCHANGED <<ops, use, left, faults, mirror, typing, loaded, snap, wipedHeard, preWipe,
                 historyDisk, lost, buried, born>>

-----------------------------------------------------------------------------
(* Sweeps and wipes.                                                        *)

(* apply_transcripts_retention: an unlink may fail (a Windows lock).          *)
Sweep(wipes, prunes) ==
  \E old \in SUBSET (Aged \cap Listed(disk)) :
    LET gone == (IF wipes THEN Dictations \cap Listed(disk) ELSE {})
                \cup (IF prunes THEN old ELSE {})
    IN  /\ prunes \/ old = {}
        /\ disk' = [r \in Records |-> IF r \in gone THEN {} ELSE disk[r]]
        /\ swept' = IF gone = {} THEN swept ELSE Append(swept, wipes)

(* listenRetentionSweeps.                                                   *)
HearSweep(keep) ==
  LET drops == Head(swept) /\ ~keep
      parks == IF drops THEN Dropped(Dictations) ELSE parked
      heard == wipedHeard \/ drops
      rs == IF heard THEN Listed(parks) \ Dictations ELSE Listed(parks)
      order == SetToSeq(rs)
      calls == [i \in 1..Len(order) |-> RecordCall(order[i], parks[order[i]])]
  IN
  /\ swept # <<>> /\ swept' = Tail(swept)
  /\ wipedHeard' = heard
  /\ lost' = lost \cup (IF drops THEN {r \in Dictations : parked[r] # {}} ELSE {})
  /\ asked' = asked \o calls
  /\ parked' = Nothing
  /\ stamped' = (IF drops THEN Unstamped(Dictations) ELSE stamped) \cup rs
  /\ flushes' = Append(flushes, Waiter(RecordsUnderway + Len(calls), "list"))
  /\ UNCHANGED <<ops, use, left, faults, mirror, typing, loaded, sessionOnly, listing,
                 snap, touched, again, wipe, preWipe, disk, pool, buried, born, ghosts>>

(* "Delete all dictations": what is parked lands first, as the wipe may fail.  *)
AskWipe ==
  LET calls == Saves(Listed(parked), parked) IN
  /\ wipe = "no" /\ Acts("history")
  /\ wipe' = "flushing" /\ preWipe' = Listed(mirror) \cap Dictations
  /\ asked' = asked \o calls
  /\ parked' = Nothing /\ stamped' = stamped \cup Writable(Listed(parked))
  /\ flushes' = Append(flushes, Waiter(RecordsUnderway + Len(calls), "wipe"))
  /\ UNCHANGED <<faults, mirror, typing, loaded, sessionOnly, listing, snap, touched, again,
                 wipedHeard, historyDisk, lost, buried, born, ghosts>>

WipeArrives ==
  /\ Arrives("wipe")
  /\ asked' = Tail(asked) /\ wipe' = "running"
  /\ UNCHANGED <<ops, use, left, faults, restWindow, listing, snap, historyDisk, lost,
                 buried, born, ghosts>>

(* delete_all_dictations and its answer: what was parked during a wipe that   *)
(* worked, of a record there was before it, is dropped.                      *)
WipeRuns ==
  /\ wipe = "running"
  /\ disk' = [r \in Records |-> IF r \in Dictations THEN {} ELSE disk[r]]
  /\ wipe' = "wiped"
  /\ UNCHANGED <<callVars, restWindow, listing, snap, pool, swept, lost, buried, born,
                 ghosts>>
WipeFails ==
  /\ wipe = "running" /\ Fails
  /\ wipe' = "failed"
  /\ UNCHANGED <<asked, ops, use, left, restWindow, listing, snap, historyDisk, lost,
                 buried, born, ghosts>>

WipeAnswered ==
  LET drop == IF wipe = "wiped" THEN preWipe ELSE {} IN
  /\ wipe \in {"wiped", "failed"}
  /\ wipe' = "no" /\ preWipe' = {}
  /\ LoadHistory(TRUE, Dropped(drop), Unstamped(drop))
  /\ lost' = lost \cup {r \in drop : parked[r] # {}}
  /\ UNCHANGED <<ops, use, left, faults, mirror, typing, loaded, snap, wipedHeard, flushes,
                 historyDisk, buried, born>>
=============================================================================
