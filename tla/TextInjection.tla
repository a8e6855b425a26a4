---------------------------- MODULE TextInjection ----------------------------
(***************************************************************************)
(* Putting a phrase into the focused window, and the user's clipboard back *)
(* afterwards.  One clipboard is written by the insert in flight           *)
(* (src-tauri/src/inject/text.rs, inject/mod.rs), by the restores that     *)
(* wait out 400 ms on threads of their own, by the recovery copies of a    *)
(* session that died, and by the user.  What keeps them apart is a         *)
(* one-entry restore slot, three flags, the session's snapshot and an      *)
(* injection epoch, whose bump says "stop" and whose marker says whether   *)
(* the stop was an error (keep the text) or a cancel (drop it).            *)
(*                                                                         *)
(* The front end (src/lib/dictation/streaming.ts) runs its inserts one at  *)
(* a time on a chain; a cancel and an error reach the insert in flight     *)
(* from outside that chain.  A text is <<"user", n>>, the user's n-th      *)
(* copy, or <<"phrase", n>>, what the n-th insert was given.  Both Linux   *)
(* paths are modelled: the portal paste of inject_text (wayland) and       *)
(* inject::paste.                                                          *)
(***************************************************************************)
EXTENDS Naturals, FiniteSets

CONSTANTS
    MaxSessions,    \* bound: dictation sessions
    MaxJobs,        \* bound: inserts, all sessions together
    MaxCopies,      \* bound: copies the user makes
    MaxFaults       \* bound: clipboard reads, writes and chords that fail

ASSUME BoundsAssumption ==
    {MaxSessions, MaxJobs, MaxCopies, MaxFaults} \subseteq Nat

VARIABLES
    wayland,        \* is_wayland(): which paste inject_text takes
    board,          \* the clipboard, LAST_INJECTED and the restore slot
    flags,          \* RECOVERY_ON_CLIPBOARD, DELIVERED_ON_CLIPBOARD, LAST_PASTE_REMOTE
    snapshot,       \* ClipboardSnapshot: what begin_injection read
    stop,           \* INJECT_EPOCH, RECOVER_AT_EPOCH, and the bumps on their way
    sess,           \* the front end's session: insertCfg, beganInjection, clipDirty
    tail,           \* the teardown chained behind the insert in flight
    pc, job,        \* where the insert in flight is, and its locals
    used,           \* the bounds used up
    seen            \* what the properties remember

vars == <<wayland, board, flags, snapshot, stop, sess, tail, pc, job, used, seen>>

Nothing == <<"none", 0>>
Phrase(n) == <<"phrase", n>>
UserCopies == {<<"user", n>> : n \in 0 .. MaxCopies}
Texts == UserCopies \cup {Phrase(n) : n \in 0 .. MaxJobs}
Methods == {"paste", "direct", "clipboard"}

NoJob == [text |-> Phrase(0), method |-> "direct", withhold |-> FALSE, restore |-> FALSE,
          rescue |-> FALSE, failed |-> "none", divert |-> FALSE, remote |-> FALSE, epoch |-> 0,
          took |-> Nothing, prev |-> Nothing, sink |-> "yes", out |-> "none",
          skipped |-> FALSE, faulted |-> FALSE, overtaken |-> FALSE, pressed |-> FALSE]

NoSession == [kind |-> "none", live |-> FALSE, began |-> FALSE, dirty |-> FALSE,
              diverted |-> FALSE, typed |-> FALSE, blind |-> FALSE, ended |-> "none"]

Init ==
    /\ wayland \in BOOLEAN
    /\ board = [clip |-> <<"user", 0>>, last |-> Nothing, pending |-> Nothing, claimed |-> {}]
    /\ flags = [recovery |-> FALSE, delivered |-> FALSE, remote |-> FALSE]
    /\ snapshot = Nothing
    /\ stop = [epoch |-> 0, recoverAt |-> 0, abortAt |-> 0,
               cancelOwed |-> FALSE, abortOwed |-> FALSE]
    /\ sess = NoSession
    /\ tail = "none"
    /\ pc = "idle" /\ job = NoJob
    /\ used = [sessions |-> 0, jobs |-> 0, copies |-> 0, faults |-> 0]
    /\ seen = [kept |-> {}, promised |-> {}, raced |-> FALSE]

-----------------------------------------------------------------------------
(* The clipboard and the restore slot.  A superseded timer finds another     *)
(* generation and does nothing, so only the pending entry's timer is kept.   *)

\* The bug: the insert reads the waiting restore without stopping its timer.
LeftWaiting(b) == b

\* RestoreSlot::cancel, as take_pending_restore calls it.
Taken(b) == [b EXCEPT !.pending = Nothing]

\* restore_clipboard_later: schedule, superseding what was pending.
Scheduled(b, text) == IF text = Nothing THEN b ELSE [b EXCEPT !.pending = text]

\* persist_transcript: noted as ours, then served.
Written(b, text) == [b EXCEPT !.clip = text, !.last = text]

\* The bug: a clipboard-only write leaves the restore waiting.
WrittenUnderTheTimer(b, text) == Written(b, text)

\* set_clipboard_persistent: the restore still waiting is dropped.
Persisted(b, text) == Written(Taken(b), text)

IsOwnInjected(b) == b.clip = b.last

\* What a read of the prior clipboard is worth: nothing when it is our own text.
WorthRestoring(b) == IF IsOwnInjected(b) THEN Nothing ELSE b.clip

\* merge_pending_restore, for a paste that `eligible` lets restore.
Merged(previous, pending, eligible) ==
    IF eligible /\ previous = Nothing THEN pending ELSE previous

Fault == used.faults < MaxFaults
Spent == [used EXCEPT !.faults = @ + 1]

-----------------------------------------------------------------------------
(* What the insert in flight asks about its epoch.                           *)

Cancelled == stop.epoch # job.epoch
WantsRecovery == stop.recoverAt = job.epoch + 1
ErrorAborted == Cancelled /\ WantsRecovery

\* The bug: every stop discards, the error abort's too.
EveryStopDiscards == Cancelled

CancelDiscards == Cancelled /\ (~WantsRecovery \/ job.withhold)

UserCancelled == Cancelled /\ ~WantsRecovery

\* The bug: a divert is noted as delivered whoever stopped the insert.
DeliveredAnyway == TRUE

\* note_delivered_unless_user_cancelled
Delivered == ~UserCancelled

\* The texts the code may leave on the clipboard, and those it must not restore over.
Keep(texts) == [seen EXCEPT !.kept = @ \cup texts]
Promise(texts) == [seen EXCEPT !.kept = @ \cup texts, !.promised = @ \cup texts]

\* A write made while a restore has left the slot and is not served yet.
Racing(s) == [s EXCEPT !.raced = @ \/ board.claimed # {}]

Goto(label, j) == pc' = label /\ job' = j
Answer(out, j) ==
    Goto("return", [NoJob EXCEPT !.text = j.text, !.method = j.method, !.out = out,
                                 !.withhold = j.withhold, !.restore = j.restore,
                                 !.rescue = j.rescue, !.failed = j.failed,
                                 !.skipped = j.skipped, !.faulted = j.faulted,
                                 !.pressed = j.pressed])

\* What is left of a session its chain has given up.
Ended(how) == [NoSession EXCEPT !.kind = sess.kind, !.blind = sess.blind, !.ended = how]

-----------------------------------------------------------------------------
(* The front end's chain: sessions, inserts and what follows their answers.  *)

Drained == pc = "idle" /\ tail = "none"

\* A later session puts out its first text after the earlier one's teardown, stop
\* commands and 400 ms restores are through.
StartSession(kind) ==
    /\ Drained /\ ~sess.live
    /\ ~stop.cancelOwed /\ ~stop.abortOwed /\ stop.abortAt = 0
    /\ board.pending = Nothing /\ board.claimed = {}
    /\ used.sessions < MaxSessions
    /\ sess' = [NoSession EXCEPT !.kind = kind, !.live = TRUE]
    /\ used' = [used EXCEPT !.sessions = @ + 1]
    /\ UNCHANGED <<wayland, board, flags, snapshot, stop, tail, pc, job, seen>>

\* A queued insert reaches the head of the chain: a live phrase, the separator of a hard
\* break (withheld), or the whole transcript of a stop-timing session.  `restore` is the
\* target's rule.
StartInsert(method, withhold, restore) ==
    /\ Drained /\ sess.live
    /\ used.jobs < MaxJobs
    /\ withhold => sess.kind = "live" /\ method = "paste" /\ sess.typed /\ ~sess.diverted
    /\ used' = [used EXCEPT !.jobs = @ + 1]
    /\ Goto(IF sess.kind = "live" /\ method = "paste" /\ restore /\ ~sess.dirty
              THEN "begin" ELSE "call",
            [NoJob EXCEPT !.text = Phrase(used.jobs + 1), !.method = method,
                          !.withhold = withhold, !.restore = restore])
    /\ seen' = [seen EXCEPT !.kept = @ \cap {board.clip}, !.promised = @ \cap {board.clip}]
    /\ UNCHANGED <<wayland, board, flags, snapshot, stop, sess, tail>>

\* begin_injection: a read that finds nothing new from the user keeps the snapshot.
BeginInjection ==
    /\ pc = "begin"
    /\ \/ /\ snapshot' = IF IsOwnInjected(board) THEN snapshot ELSE board.clip
          /\ sess' = [sess EXCEPT !.began = @ \/ sess.live]
          /\ used' = used
       \/ /\ Fault
          /\ snapshot' = snapshot
          /\ sess' = [sess EXCEPT !.began = @ \/ sess.live, !.blind = TRUE]
          /\ used' = Spent
    /\ Goto("call", job)
    /\ UNCHANGED <<wayland, board, flags, stop, tail, seen>>

\* The task's last look at its session before it calls inject_text.
CallInsert ==
    /\ pc = "call"
    /\ IF sess.live THEN Goto("enter", job) ELSE Goto("idle", NoJob)
    /\ UNCHANGED <<wayland, board, flags, snapshot, stop, sess, tail, used, seen>>

\* A skipped restore: the target of the last paste decides, also when a later write has
\* replaced what that paste wrote.
LeftToRemote == IF flags.remote THEN Keep({board.clip}) ELSE seen

\* bumpPhraseEnd's link: the pause gives the user's clipboard back once.
SnapshotRestored ==
    IF snapshot # Nothing /\ ~flags.remote /\ ~flags.recovery
      THEN Scheduled(board, snapshot) ELSE board

QuietRestore ==
    /\ Drained /\ sess.live /\ sess.dirty /\ sess.began
    /\ board' = SnapshotRestored
    /\ sess' = [sess EXCEPT !.dirty = FALSE]
    /\ seen' = LeftToRemote
    /\ UNCHANGED <<wayland, flags, snapshot, stop, tail, pc, job, used>>

\* The answer of a discarded session's insert is dropped.
AnswerDropped ==
    /\ pc = "return" /\ ~sess.live
    /\ Goto("idle", NoJob)
    /\ UNCHANGED <<wayland, board, flags, snapshot, stop, sess, tail, used, seen>>

\* A failed separator: the snapshot goes back, over a text delivered before it too (see
\* SeparatorRestoreIsHarmless); nothing is recovered.
SeparatorFailed ==
    /\ pc = "return" /\ sess.live /\ job.out = "err" /\ job.withhold
    /\ board' = IF job.restore /\ sess.began THEN SnapshotRestored ELSE board
    /\ seen' = IF board' = board THEN LeftToRemote
               ELSE [seen EXCEPT !.promised = @ \ {board.clip}]
    /\ Goto("idle", NoJob)
    /\ UNCHANGED <<wayland, flags, snapshot, stop, sess, tail, used>>

\* A failed insert is copied for the user to paste, through inject_text's clipboard arm.
InsertFailed ==
    /\ pc = "return" /\ sess.live /\ job.out = "err" /\ ~job.withhold /\ ~job.rescue
    /\ Goto("enter", [NoJob EXCEPT !.text = job.text, !.method = "clipboard",
                                   !.rescue = TRUE, !.failed = job.method])
    /\ UNCHANGED <<wayland, board, flags, snapshot, stop, sess, tail, used, seen>>

\* ... after which the session ends: teardownAfterFatalInject for a live one, which drops
\* the snapshot, an earlier phrase's restore with it (see FatalOwesNoRestore).
RescueAnswered ==
    /\ pc = "return" /\ sess.live /\ job.rescue
    /\ sess' = Ended("fatal")
    /\ IF sess.kind = "live"
         THEN tail' = "discard" /\ stop' = [stop EXCEPT !.abortOwed = TRUE]
         ELSE UNCHANGED <<tail, stop>>
    /\ seen' = IF sess.dirty THEN Keep({board.clip}) ELSE seen
    /\ Goto("idle", NoJob)
    /\ UNCHANGED <<wayland, board, flags, snapshot, used>>

\* The answer of a live session's insert: who owns the clipboard, who owes a restore.
LiveAnswered ==
    /\ pc = "return" /\ sess.live /\ sess.kind = "live"
    /\ job.out # "err" /\ ~job.rescue
    /\ LET landed == job.out # "notLanded"
           onClipboard == job.out = "diverted" \/ (job.method = "clipboard" /\ landed)
           givesBack == job.withhold /\ landed /\ job.restore /\ sess.began
       IN /\ board' = IF givesBack THEN SnapshotRestored ELSE board
          /\ seen' = IF givesBack THEN LeftToRemote ELSE seen
          /\ sess' =
               IF job.withhold THEN [sess EXCEPT !.dirty = @ /\ ~givesBack]
               ELSE IF onClipboard THEN [sess EXCEPT !.dirty = FALSE, !.diverted = TRUE]
               ELSE IF ~landed THEN sess
               ELSE [sess EXCEPT !.dirty = IF job.method = "paste" THEN job.restore ELSE @,
                                 !.diverted = FALSE, !.typed = TRUE]
    /\ Goto("idle", NoJob)
    /\ UNCHANGED <<wayland, flags, snapshot, stop, tail, used>>

\* The answer of a stop-timing session's one insert; a skipped one is copied by
\* recover_to_clipboard, which asks neither the epoch nor the focus.
StopAnswered ==
    /\ pc = "return" /\ sess.live /\ sess.kind = "stop"
    /\ job.out # "err" /\ ~job.rescue
    /\ \/ /\ job.out # "notLanded" \/ Fault
          /\ used' = IF job.out = "notLanded" THEN Spent ELSE used
          /\ UNCHANGED <<board, seen>>
       \/ /\ job.out = "notLanded"
          /\ board' = Persisted(board, job.text)
          /\ seen' = Racing(Promise({job.text}))
          /\ used' = used
    /\ sess' = NoSession
    /\ Goto("idle", NoJob)
    /\ UNCHANGED <<wayland, flags, snapshot, stop, tail>>

\* `closed`: the drained chain restores, or drops the snapshot, or had taken none.
Closed ==
    /\ Drained /\ sess.live
    /\ sess' = NoSession
    /\ tail' = IF ~sess.began THEN "none" ELSE IF sess.dirty THEN "end" ELSE "discard"
    /\ UNCHANGED <<wayland, board, flags, snapshot, stop, pc, job, used, seen>>

\* cancelLive: the insert is stopped from outside the chain, the restore chained on it.
CancelLive ==
    /\ sess.live \/ (sess.ended = "error" /\ pc # "idle")
    /\ sess' = Ended("cancelled")
    /\ tail' = "end"
    /\ stop' = [stop EXCEPT !.cancelOwed = TRUE]
    /\ UNCHANGED <<wayland, board, flags, snapshot, pc, job, used, seen>>

\* stream://error or a rejected stop.  A stop-timing session has inserted nothing yet: its
\* text is copied at once.
StreamError ==
    /\ sess.live
    /\ sess' = Ended("error")
    /\ tail' = "end"
    /\ stop' = [stop EXCEPT !.abortOwed = TRUE]
    /\ IF sess.kind = "live" THEN UNCHANGED <<board, seen, used>>
       ELSE /\ Drained /\ used.jobs < MaxJobs
            /\ board' = Persisted(board, Phrase(used.jobs + 1))
            /\ seen' = Racing(Promise({Phrase(used.jobs + 1)}))
            /\ used' = [used EXCEPT !.jobs = @ + 1]
    /\ UNCHANGED <<wayland, flags, snapshot, pc, job>>

\* end_injection: the flags are consumed whatever the snapshot holds.
EndInjection ==
    /\ pc = "idle" /\ tail = "end"
    /\ board' = IF snapshot # Nothing /\ ~flags.remote /\ ~flags.recovery /\ ~flags.delivered
                  THEN Scheduled(board, snapshot) ELSE board
    /\ flags' = [recovery |-> FALSE, delivered |-> FALSE, remote |-> FALSE]
    /\ snapshot' = Nothing
    /\ tail' = "none"
    /\ seen' = LeftToRemote
    /\ sess' = NoSession
    /\ UNCHANGED <<wayland, stop, pc, job, used>>

\* discard_injection_snapshot
DiscardSnapshot ==
    /\ pc = "idle" /\ tail = "discard"
    /\ flags' = [recovery |-> FALSE, delivered |-> FALSE, remote |-> FALSE]
    /\ snapshot' = Nothing
    /\ tail' = "none"
    /\ sess' = NoSession
    /\ UNCHANGED <<wayland, board, stop, pc, job, used, seen>>

-----------------------------------------------------------------------------
(* From outside the chain: the stops, the restore timers, the user.          *)

\* cancel_injection, as cancel_stream and cancel_record call it.
CancelInjection ==
    /\ stop.cancelOwed
    /\ stop' = [stop EXCEPT !.epoch = @ + 1, !.cancelOwed = FALSE]
    /\ UNCHANGED <<wayland, board, flags, snapshot, sess, tail, pc, job, used, seen>>

\* abort_injection_for_error: the bump ...
AbortBump ==
    /\ stop.abortOwed
    /\ stop' = [stop EXCEPT !.epoch = @ + 1, !.abortOwed = FALSE, !.abortAt = stop.epoch + 1]
    /\ UNCHANGED <<wayland, board, flags, snapshot, sess, tail, pc, job, used, seen>>

\* ... and then the marker that says it was an error.
AbortMark ==
    /\ stop.abortAt # 0
    /\ stop' = [stop EXCEPT !.recoverAt = stop.abortAt, !.abortAt = 0]
    /\ UNCHANGED <<wayland, board, flags, snapshot, sess, tail, pc, job, used, seen>>

\* The restore's timer fires: it takes the entry (take_if_current) ...
ClaimRestore ==
    /\ board.pending # Nothing
    /\ board' = [board EXCEPT !.pending = Nothing, !.claimed = @ \cup {board.pending}]
    /\ UNCHANGED <<wayland, flags, snapshot, stop, sess, tail, pc, job, used, seen>>

\* ... and then serves it.
ServeRestore ==
    /\ \E text \in board.claimed :
          board' = [board EXCEPT !.clip = text, !.claimed = @ \ {text}]
    /\ UNCHANGED <<wayland, flags, snapshot, stop, sess, tail, pc, job, used, seen>>

\* A copy made between an insert's read of the clipboard and its write is one it never saw;
\* so is one made while an earlier paste is still owed its restore, when no insert reads.
UserCopy ==
    /\ used.copies < MaxCopies
    /\ sess' = [sess EXCEPT !.blind = @ \/ pc # "idle" \/ sess.dirty]
    /\ job' = [job EXCEPT !.overtaken = @ \/ pc \in {"settle", "probe", "chord"}]
    /\ used' = [used EXCEPT !.copies = @ + 1]
    /\ board' = [board EXCEPT !.clip = <<"user", used.copies + 1>>]
    /\ UNCHANGED <<wayland, flags, snapshot, stop, tail, pc, seen>>

-----------------------------------------------------------------------------
(* inject_text.  `own` is what the own-window probe answers.                 *)

\* The entry: the epoch is captured, and our own window skips every method.
EnterInsert(own) ==
    /\ pc = "enter"
    /\ LET j == [job EXCEPT !.epoch = stop.epoch]
       IN IF own THEN Answer("notLanded", [j EXCEPT !.skipped = TRUE])
          ELSE Goto(IF job.method = "clipboard" THEN "clipGate" ELSE "sink", j)
    /\ UNCHANGED <<wayland, board, flags, snapshot, stop, sess, tail, used, seen>>

\* After the wait for the held modifiers: the focus again, a divert to the clipboard (chord
\* still down, focus moved), and whether the target is a remote desktop.
ReachSink(own, divert, remote) ==
    /\ pc = "sink"
    /\ IF own THEN Answer("notLanded", [job EXCEPT !.skipped = TRUE])
       ELSE IF divert THEN Goto("clipGate", [job EXCEPT !.divert = TRUE])
       ELSE IF job.method = "direct" THEN Goto("type", job)
       ELSE Goto("take", [job EXCEPT !.remote = remote])
    /\ UNCHANGED <<wayland, board, flags, snapshot, stop, sess, tail, used, seen>>

\* The clipboard-only arm and the divert: a discarding cancel stops it, a withheld insert
\* writes nothing.
ClipboardGate ==
    /\ pc = "clipGate"
    /\ IF CancelDiscards THEN Answer("landed", job)
       ELSE IF job.withhold THEN Answer("notLanded", job)
       ELSE Goto("clipWrite", job)
    /\ UNCHANGED <<wayland, board, flags, snapshot, stop, sess, tail, used, seen>>

ClipboardWrite ==
    /\ pc = "clipWrite"
    /\ \/ /\ board' = Persisted(board, job.text)
          /\ seen' = Racing(IF snapshot = Nothing THEN Keep({job.text}) ELSE seen)
          /\ Goto("clipNote", job)
          /\ used' = used
       \/ /\ Fault
          /\ Answer("notLanded", [job EXCEPT !.faulted = TRUE])
          /\ used' = Spent
          /\ UNCHANGED <<board, seen>>
    /\ UNCHANGED <<wayland, flags, snapshot, stop, sess, tail>>

ClipboardNote ==
    /\ pc = "clipNote"
    /\ flags' = [flags EXCEPT !.delivered = Delivered, !.recovery = @ \/ ErrorAborted]
    /\ seen' = IF UserCancelled THEN seen ELSE Promise({job.text})
    /\ Answer(IF job.divert THEN "diverted" ELSE "landed", job)
    /\ UNCHANGED <<wayland, board, snapshot, stop, sess, tail, used>>

\* Direct typing: the keys went out, or a stop, our own window or an error kept them back.
TypeText(own) ==
    /\ pc = "type"
    /\ \/ /\ Goto("finish",
                  IF Cancelled THEN [job EXCEPT !.sink = "yes"]
                  ELSE IF own THEN [job EXCEPT !.sink = "nothing"]
                  ELSE [job EXCEPT !.sink = "yes", !.pressed = TRUE])
          /\ used' = used
       \/ /\ Fault
          /\ Goto("finish", [job EXCEPT !.sink = "err"])
          /\ used' = Spent
    /\ UNCHANGED <<wayland, board, flags, snapshot, stop, sess, tail, seen>>

\* A paste first takes the restore still waiting, then reads what it will replace.
TakePending ==
    /\ pc = "take"
    /\ board' = Taken(board)
    /\ LET reads == sess.kind = "stop" /\ job.restore /\ ~job.remote
           took == [job EXCEPT !.took = board.pending]
       IN \/ /\ Goto("gate", IF reads THEN [took EXCEPT !.prev = WorthRestoring(board)]
                             ELSE took)
             /\ UNCHANGED <<used, sess>>
          \/ /\ reads /\ Fault
             /\ Goto("gate", took)
             /\ sess' = [sess EXCEPT !.blind = TRUE]
             /\ used' = Spent
    /\ UNCHANGED <<wayland, flags, snapshot, stop, tail, seen>>

Requeued == Scheduled(board, job.took)

\* inject::paste before its write: every cancel and our own window write nothing.
X11Gate(own) ==
    /\ pc = "gate" /\ ~wayland
    /\ IF Cancelled \/ own
         THEN /\ board' = Requeued
              /\ Goto("finish", [job EXCEPT !.sink = IF Cancelled THEN "yes" ELSE "nothing"])
         ELSE board' = board /\ Goto("write", job)
    /\ UNCHANGED <<wayland, flags, snapshot, stop, sess, tail, used, seen>>

\* inject_text's clipboard_write_gate: an error abort is let through to its recovery, and
\* our own window then gets the text on the clipboard instead of the paste.
WaylandGate(own) ==
    /\ pc = "gate" /\ wayland
    /\ IF CancelDiscards
         THEN /\ board' = Requeued /\ Answer("landed", job)
              /\ UNCHANGED <<flags, seen, used>>
       ELSE IF own /\ ErrorAborted /\ ~job.withhold
         THEN \/ /\ board' = Persisted(board, job.text)
                 /\ flags' = [flags EXCEPT !.recovery = TRUE, !.delivered = TRUE]
                 /\ seen' = Racing(Promise({job.text}))
                 /\ Answer("diverted", job)
                 /\ used' = used
              \/ /\ Fault
                 /\ Answer("notLanded", [job EXCEPT !.faulted = TRUE])
                 /\ used' = Spent
                 /\ UNCHANGED <<board, flags, seen>>
       ELSE IF own
         THEN /\ board' = Requeued /\ Answer("notLanded", job)
              /\ UNCHANGED <<flags, seen, used>>
         ELSE /\ Goto("write", job)
              /\ UNCHANGED <<board, flags, seen, used>>
    /\ UNCHANGED <<wayland, snapshot, stop, sess, tail>>

\* What a paste may leave behind: a remote target's text, a target that restores nothing,
\* a prior clipboard it could not read or that was already left to us.
LeavesText ==
    \/ job.remote \/ ~job.restore
    \/ sess.blind /\ snapshot = Nothing /\ Merged(job.prev, job.took, TRUE) = Nothing
    \/ board.clip \in seen.kept

PasteWrite ==
    /\ pc = "write"
    /\ \/ /\ board' = Written(board, job.text)
          /\ flags' = [flags EXCEPT !.remote = job.remote, !.delivered = FALSE]
          /\ seen' = Racing(IF job.remote THEN Promise({job.text})
                            ELSE IF LeavesText THEN Keep({job.text}) ELSE seen)
          /\ Goto("settle", [job EXCEPT !.prev = Merged(job.prev, job.took, ~job.remote),
                                        !.took = Nothing])
          /\ used' = used
       \/ /\ Fault
          /\ board' = Requeued
          /\ IF wayland THEN Answer("err", [job EXCEPT !.faulted = TRUE])
             ELSE Goto("finish", [job EXCEPT !.sink = "err", !.faulted = TRUE])
          /\ flags' = IF ~wayland /\ job.remote
                        THEN [flags EXCEPT !.remote = TRUE, !.delivered = FALSE] ELSE flags
          /\ used' = Spent
          /\ seen' = seen
    /\ UNCHANGED <<wayland, snapshot, stop, sess, tail>>

\* A stop found with the text written and no chord pressed: a discarded text gives the
\* clipboard back, an error's stays for the recovery.
StoppedAfterWrite ==
    /\ board' = IF ~wayland /\ CancelDiscards THEN Scheduled(board, job.prev) ELSE board
    /\ Goto(IF wayland THEN "after" ELSE "finish", [job EXCEPT !.sink = "yes"])
    /\ UNCHANGED <<wayland, flags, snapshot, stop, sess, tail, used, seen>>

Settle ==
    /\ pc = "settle"
    /\ IF Cancelled THEN StoppedAfterWrite
       ELSE /\ Goto("probe", job)
            /\ UNCHANGED <<wayland, board, flags, snapshot, stop, sess, tail, used, seen>>

\* The chord's own-window probe; inject::paste reads the cancel again behind it.
ProbeChord(own) ==
    /\ pc = "probe"
    /\ IF ~wayland /\ Cancelled THEN StoppedAfterWrite
       ELSE /\ board' = IF own /\ ~wayland /\ job.withhold
                          THEN Scheduled(board, job.prev) ELSE board
            /\ IF ~own THEN Goto("chord", job)
               ELSE IF wayland THEN Goto("after", [job EXCEPT !.sink = "nothing"])
               ELSE Goto("finish", [job EXCEPT !.sink =
                                      IF job.withhold THEN "yes" ELSE "onClipboard"])
            /\ seen' = IF own /\ ~job.withhold /\ snapshot = Nothing
                         THEN Keep({job.text}) ELSE seen
            /\ UNCHANGED <<wayland, flags, snapshot, stop, sess, tail, used>>

\* The paste chord; the portal job asks the epoch and the focus once more before it.
PressChord(own) ==
    /\ pc = "chord"
    /\ IF wayland /\ (Cancelled \/ own)
         THEN /\ Goto("after", [job EXCEPT !.sink = IF Cancelled THEN "yes" ELSE "nothing"])
              /\ UNCHANGED <<board, used, seen>>
         ELSE \/ /\ Goto(IF wayland THEN "after" ELSE "finish",
                         [job EXCEPT !.sink = "yes", !.pressed = TRUE])
                 /\ board' = IF wayland THEN board ELSE Scheduled(board, job.prev)
                 /\ UNCHANGED <<used, seen>>
              \/ /\ Fault
                 /\ Goto(IF wayland THEN "after" ELSE "finish", [job EXCEPT !.sink = "err"])
                 /\ board' = IF ~wayland /\ job.withhold
                               THEN Scheduled(board, job.prev) ELSE board
                 /\ seen' = Keep({job.text})
                 /\ used' = Spent
    /\ UNCHANGED <<wayland, flags, snapshot, stop, sess, tail>>

\* The portal paste's end: a divert in front of the chord, else the restore.
AfterPortal ==
    /\ pc = "after"
    /\ IF job.sink = "nothing" /\ ~Cancelled
         THEN IF job.withhold
                THEN /\ board' = Scheduled(board, job.prev)
                     /\ Answer("landed", job)
                     /\ UNCHANGED <<flags, seen>>
                ELSE /\ flags' = [flags EXCEPT !.delivered = TRUE]
                     /\ seen' = Promise({job.text})
                     /\ Answer("diverted", job)
                     /\ board' = board
         ELSE /\ board' = IF job.withhold \/ (job.sink # "err" /\ ~ErrorAborted)
                            THEN Scheduled(board, job.prev) ELSE board
              /\ Goto("finish", job)
              /\ UNCHANGED <<flags, seen>>
    /\ UNCHANGED <<wayland, snapshot, stop, sess, tail, used>>

\* settle_outcome: the answer, and the flag every diverted answer arms.
Settled(sink, recovered) ==
    CASE sink = "yes" -> "landed"
      [] sink = "nothing" -> IF recovered THEN "diverted" ELSE "notLanded"
      [] sink = "onClipboard" -> "diverted"
      [] sink = "err" -> "err"

FinishInsert ==
    /\ pc = "finish"
    /\ \E recovered \in BOOLEAN :
          LET wanted == ErrorAborted /\ ~job.withhold
              out == Settled(job.sink, recovered)
              told == out = "diverted" /\ ~UserCancelled
          IN /\ recovered => wanted
             /\ wanted /\ ~recovered => Fault
             /\ board' = IF recovered THEN Persisted(board, job.text) ELSE board
             /\ flags' = [flags EXCEPT !.recovery = @ \/ recovered,
                                       !.delivered = IF out = "diverted" THEN Delivered ELSE @]
             /\ seen' = IF recovered THEN Racing(Promise({job.text}))
                        ELSE IF told THEN Promise({job.text}) ELSE seen
             /\ used' = IF wanted /\ ~recovered THEN Spent ELSE used
             /\ Answer(out, [job EXCEPT !.faulted = @ \/ (wanted /\ ~recovered)])
    /\ UNCHANGED <<wayland, snapshot, stop, sess, tail>>

InjectText ==
    \/ \E own \in BOOLEAN :
          \/ EnterInsert(own) \/ TypeText(own) \/ X11Gate(own) \/ WaylandGate(own)
          \/ ProbeChord(own) \/ PressChord(own)
          \/ \E divert, remote \in BOOLEAN : ReachSink(own, divert, remote)
    \/ ClipboardGate \/ ClipboardWrite \/ ClipboardNote
    \/ TakePending \/ PasteWrite \/ Settle \/ AfterPortal \/ FinishInsert

FrontEnd ==
    \/ \E kind \in {"live", "stop"} : StartSession(kind)
    \/ \E method \in Methods, withhold, restore \in BOOLEAN :
          StartInsert(method, withhold, restore)
    \/ BeginInjection \/ CallInsert \/ QuietRestore
    \/ AnswerDropped \/ SeparatorFailed \/ InsertFailed \/ RescueAnswered
    \/ LiveAnswered \/ StopAnswered
    \/ Closed \/ CancelLive \/ StreamError \/ EndInjection \/ DiscardSnapshot

Outside ==
    \/ CancelInjection \/ AbortBump \/ AbortMark
    \/ ClaimRestore \/ ServeRestore \/ UserCopy

Next == InjectText \/ FrontEnd \/ Outside

Spec == Init /\ [][Next]_vars

-----------------------------------------------------------------------------
(* Properties.                                                               *)

Quiet ==
    /\ Drained /\ ~sess.live
    /\ ~stop.cancelOwed /\ ~stop.abortOwed /\ stop.abortAt = 0
    /\ board.pending = Nothing /\ board.claimed = {}

\* Once nothing is in flight, the clipboard holds a copy of the user's, or a text the code
\* means to leave there: one delivered, recovered or left by a paste it owes no restore for.
\* A discarded phrase and a landed one are gone, whoever stopped what and when.
ClipboardComesBack ==
    Quiet /\ ~seen.raced => board.clip \in UserCopies \cup seen.kept

\* A restore that is served never lands on a text the user was told to paste, or on one a
\* remote desktop may still fetch.
RestoreSparesPromises ==
    [][board'.claimed \subseteq board.claimed /\ board'.claimed # board.claimed
         => board.clip \notin seen.promised \/ seen.raced]_vars

\* The bump that stopped the insert was an error's, whether its marker is stored or not ...
ErrorStopped == Cancelled /\ job.epoch + 1 \in {stop.recoverAt, stop.abortAt}

\* ... and not: until it is, every question about the stop is answered as for a cancel.
TakenForACancel == stop.abortAt = job.epoch + 1

AnswersWithItsText ==
    job'.pressed \/ job.text \in seen'.promised

\* What the code itself means to lose, or cannot keep: a withheld separator, an insert our own
\* window skipped, a clipboard that refuses.
NothingToKeep == job'.withhold \/ job'.skipped \/ job'.faulted

\* The text of an insert stopped by a dead session has been pressed or put on the clipboard
\* by the time the insert answers, unless there is NothingToKeep, and with one exception that
\* the code does not mean: abort_injection_for_error bumps the epoch and stores its marker in
\* two steps (inject/mod.rs:73-74), and an insert that answers between them takes the error for
\* a cancel and drops its text (see ErrorKeepsTheText).  An insert that meets the bump before
\* the marker and answers after it is not excepted.
AbortedTextSurvives ==
    [][pc # "return" /\ pc' = "return" /\ ErrorStopped /\ ~TakenForACancel
         => NothingToKeep \/ AnswersWithItsText]_vars

\* The doc of abort_injection_for_error, "the text still being typed is left on the clipboard
\* so it is recoverable", of every error and every insert it stops.
ErrorKeepsTheText ==
    [][pc # "return" /\ pc' = "return" /\ ErrorStopped
         => NothingToKeep \/ AnswersWithItsText]_vars

\* The chord pastes the phrase: between the write and the chord nothing but a copy of the
\* user's own replaces it.
ChordPastesThePhrase ==
    [][pc = "chord" /\ job'.pressed
         => board.clip = job.text \/ job.overtaken \/ seen.raced]_vars

\* The comment above teardownAfterFatalInject: clipDirty is false on a failed paste, so the
\* snapshot it drops unrestored is owed to nobody.
FatalOwesNoRestore ==
    [][sess'.ended = "fatal" /\ sess.live /\ job.failed = "paste" => ~sess.dirty]_vars

\* The comment in sendSepText's catch, "restoring it is harmless if the write never
\* happened": the snapshot given back replaces no text the user was told to paste.
SeparatorRestoreIsHarmless ==
    [][SeparatorFailed /\ board' # board => board.clip \notin seen.promised]_vars

\* The comment where the phrase task skips its snapshot, "the clipboard holds that
\* transcript": while a paste is owed its restore the user has copied nothing since.
DirtyHoldsTheTranscript ==
    [][sess.dirty /\ pc = "idle" /\ pc' = "call" => IsOwnInjected(board)]_vars
=============================================================================
