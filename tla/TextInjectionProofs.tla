------------------------- MODULE TextInjectionProofs -------------------------
(***************************************************************************)
(* Proofs about the clipboard, for every number of sessions, inserts, user *)
(* copies and faults.  The invariant follows the user's copy: while it is  *)
(* not on the clipboard, a waiting restore, the insert in flight or the    *)
(* session's snapshot holds it and owes it (SettleInv), and none of them   *)
(* does so over a text the user was told to paste (SpareInv).              *)
(***************************************************************************)
EXTENDS TextInjection, TLAPS

-----------------------------------------------------------------------------
(* Types.                                                                   *)

Phrases == {Phrase(n) : n \in 0 .. MaxJobs}
Restorable == UserCopies \cup {Nothing}

Pcs == {"idle", "begin", "call", "enter", "sink", "type", "take", "gate", "write",
        "settle", "probe", "chord", "after", "finish", "return",
        "clipGate", "clipWrite", "clipNote"}

Boards == [clip : UserCopies \cup Phrases, last : Phrases \cup {Nothing},
           pending : Restorable, claimed : SUBSET UserCopies]

Flags == [recovery : BOOLEAN, delivered : BOOLEAN, remote : BOOLEAN]

Stops == [epoch : Nat, recoverAt : Nat, abortAt : Nat, cancelOwed : BOOLEAN, abortOwed : BOOLEAN]

Sessions == [kind : {"none", "live", "stop"}, live : BOOLEAN, began : BOOLEAN,
             dirty : BOOLEAN, diverted : BOOLEAN, typed : BOOLEAN, blind : BOOLEAN,
             ended : {"none", "fatal", "cancelled", "error"}]

Jobs == [text : Phrases, method : Methods, withhold : BOOLEAN, restore : BOOLEAN,
         rescue : BOOLEAN, failed : Methods \cup {"none"}, divert : BOOLEAN,
         remote : BOOLEAN, epoch : Nat, took : Restorable, prev : Restorable,
         sink : {"yes", "nothing", "onClipboard", "err"},
         out : {"none", "landed", "notLanded", "diverted", "err"},
         skipped : BOOLEAN, faulted : BOOLEAN, overtaken : BOOLEAN, pressed : BOOLEAN]

Counts == [sessions : Nat, jobs : 0 .. MaxJobs, copies : 0 .. MaxCopies, faults : Nat]

Seens == [kept : SUBSET Texts, promised : SUBSET Phrases, raced : BOOLEAN]

\* The three kinds of text are told apart; the proofs know of them nothing else.
Kinds ==
    /\ Nothing \notin Phrases /\ UserCopies \cap (Phrases \cup {Nothing}) = {}
    /\ Phrase(0) \in Phrases /\ Texts = UserCopies \cup Phrases

TypeOK ==
    /\ wayland \in BOOLEAN
    /\ board \in Boards
    /\ flags \in Flags
    /\ snapshot \in Restorable
    /\ stop \in Stops
    /\ sess \in Sessions
    /\ tail \in {"none", "end", "discard"}
    /\ pc \in Pcs /\ job \in Jobs
    /\ used \in Counts
    /\ seen \in Seens

-----------------------------------------------------------------------------
(* Where an insert is.                                                      *)

\* It has its epoch.
Inside == pc \notin {"idle", "begin", "call", "enter", "return"}

\* It has read what it will replace, and written nothing.
Reading == pc \in {"gate", "write"}

\* It has written its text and owes what it does next.
Wrote == pc \in {"settle", "probe", "chord", "after"}

\* A live session's paste has been written.
Landed == job.method = "paste"
          /\ \/ Wrote
             \/ pc = "finish" /\ job.sink = "yes"
             \/ pc = "return" /\ job.out = "landed"

\* The answer that leaves the clipboard to the text.
LeavesItThere ==
    /\ pc = "return"
    /\ job.out = "diverted" \/ (job.method = "clipboard" /\ job.out = "landed")

\* What is on the clipboard may stay there.
Fine == board.clip \in UserCopies \cup seen.kept

\* A restore waits, or has left the slot and is not served yet.
Returning == board.pending # Nothing \/ board.claimed # {}

-----------------------------------------------------------------------------
(* The stops.                                                               *)

\* A live session's insert is stopped by nobody, and a stop-timing session's by no error.
StopInv ==
    /\ stop.recoverAt <= stop.epoch /\ stop.abortAt <= stop.epoch
    /\ sess.live => ~stop.cancelOwed /\ ~stop.abortOwed /\ stop.abortAt = 0
    /\ Inside => job.epoch <= stop.epoch
    /\ Inside /\ sess.live => job.epoch = stop.epoch
    /\ sess.live => tail = "none"
    /\ pc # "idle" /\ ~sess.live => tail = "end"
    /\ sess.live \/ pc # "idle" => sess.kind # "none"
    /\ sess.kind = "stop" /\ pc # "idle" => ~stop.abortOwed /\ stop.abortAt = 0
    /\ sess.kind = "stop" /\ Inside => stop.recoverAt <= job.epoch

\* The insert's own shape.
JobInv ==
    /\ pc = "begin" => sess.kind = "live" /\ job.method = "paste" /\ job.restore
    /\ pc # "idle" /\ job.withhold => sess.kind = "live" /\ job.method = "paste"
    /\ pc # "idle" /\ job.rescue => job.method = "clipboard"
    /\ pc \in {"take", "gate", "write"} \/ Wrote => job.method = "paste"
    /\ pc = "finish" => job.method # "clipboard"
    /\ pc = "sink" => job.method # "clipboard"
    /\ pc = "type" => job.method = "direct"
    /\ pc \in {"clipGate", "clipWrite", "clipNote"} => job.method = "clipboard" \/ job.divert
    /\ pc \in {"clipWrite", "clipNote"} => ~job.withhold
    /\ pc = "finish" /\ job.sink = "onClipboard" => job.method = "paste" /\ ~job.withhold
    /\ pc = "return" => job.out # "none" /\ (job.withhold => job.out # "diverted")
    /\ pc = "after" => wayland
    /\ pc = "after" => job.sink # "onClipboard"
    /\ ~(Reading \/ Wrote) => pc = "finish" \/ (job.took = Nothing /\ job.prev = Nothing)
    /\ job.remote /\ (Reading \/ Wrote) => job.prev = Nothing

\* The snapshot and the restore owed belong to a live session, or to its teardown.
SessInv ==
    /\ sess.dirty => sess.live /\ sess.began /\ sess.kind = "live"
    /\ sess.live /\ ~sess.began => snapshot = Nothing
    /\ sess.kind = "stop" => snapshot = Nothing
    /\ tail = "none" /\ ~sess.live => snapshot = Nothing
    /\ sess.live /\ sess.kind = "live" /\ pc \notin {"idle", "begin"}
         /\ job.method = "paste" /\ job.restore => sess.began

\* The flags tell what is on the clipboard.
FlagInv ==
    /\ flags.recovery => ~sess.live /\ tail = "end" /\ pc \in {"return", "idle"} /\ Fine
    /\ flags.delivered /\ pc # "clipNote" => Fine

\* Whose restore waits.
SlotInv ==
    /\ sess.kind = "live" /\ snapshot = Nothing =>
         ~Returning /\ (Reading \/ Wrote => job.prev = Nothing)
    /\ Reading /\ snapshot = Nothing => job.took = Nothing
    /\ sess.kind = "stop" /\ (pc = "idle" => sess.live)
         /\ (pc = "finish" => job.sink = "err") /\ (pc = "return" => job.out = "err")
         => ~Returning
    /\ Reading \/ Wrote \/ pc = "clipNote" \/ (pc = "finish" /\ job.sink = "onClipboard")
         => board.pending = Nothing
    /\ Wrote \/ pc = "clipNote" \/ (pc = "finish" /\ job.sink = "onClipboard")
         => board.claimed = {} \/ seen.raced

\* Who wrote the clipboard last.
ClipInv ==
    /\ board.clip \in UserCopies \/ board.clip = board.last
    /\ Wrote \/ pc = "clipNote" \/ (pc = "finish" /\ job.sink = "onClipboard")
         \/ (sess.live /\ Landed)
         => board.clip \in UserCopies \cup {job.text}
    /\ pc \in {"settle", "probe", "chord"}
         => board.clip = job.text \/ job.overtaken \/ seen.raced

\* What a paste that owes no restore found.
CoverInv ==
    /\ sess.kind = "live" /\ snapshot = Nothing /\ ~sess.blind
         /\ (sess.dirty \/ (pc \notin {"idle", "begin"} /\ job.method = "paste" /\ job.restore))
         => board.clip \in seen.kept \/ seen.raced
    /\ sess.kind = "stop" /\ Reading /\ job.restore /\ ~job.remote /\ ~sess.blind
         /\ job.prev = Nothing
         => board.clip \in seen.kept \/ seen.raced

\* The user's copy is with the insert in flight ...
JobOwes ==
    \/ Reading /\ job.took # Nothing
    \/ sess.kind = "stop" /\ Wrote /\ job.prev # Nothing
    \/ /\ sess.kind = "live" /\ snapshot # Nothing
       /\ pc = "clipNote" \/ (job.restore /\ (Landed \/ (pc = "finish" /\ job.sink = "onClipboard")))

\* ... or with the session, which gives it back at a pause or in its teardown.
SessOwes == snapshot # Nothing /\ (tail = "end" \/ sess.dirty)

\* The user's copy is on the clipboard, waits to return, or is owed.
SettleInv ==
    /\ seen.raced \/ Fine \/ Returning \/ JobOwes \/ SessOwes
    /\ sess.live /\ LeavesItThere => Fine
    /\ sess.live /\ Landed /\ ~job.restore => Fine
    /\ sess.live /\ pc = "finish" /\ job.sink = "onClipboard" /\ ~job.restore => Fine
    /\ pc = "after" /\ job.sink = "err" => Fine

\* A phrase is promised by its own insert.
PromiseInv ==
    /\ seen.promised \subseteq {Phrase(n) : n \in 1 .. used.jobs}
    /\ pc \in {"begin", "call", "enter", "sink", "type", "take", "gate", "write",
               "clipGate", "clipWrite"} /\ ~job.rescue => job.text \notin seen.promised
    /\ pc # "idle" /\ job.text \in seen.promised
         => flags.remote \/ (pc = "return" /\ (sess.live => LeavesItThere))
    /\ pc # "idle" => job.text \in {Phrase(n) : n \in 1 .. used.jobs}

\* Nothing restores over a text that was promised.
SpareInv ==
    board.clip \in seen.promised /\ ~seen.raced =>
      /\ ~Returning
      /\ Reading => job.took = Nothing
      /\ Wrote => job.prev = Nothing
      /\ \/ snapshot = Nothing \/ flags.remote
         \/ pc # "clipNote" /\ (flags.delivered \/ flags.recovery)
      /\ sess.dirty /\ ~LeavesItThere => snapshot = Nothing \/ flags.remote

IInv == TypeOK /\ StopInv /\ JobInv /\ SessInv /\ FlagInv /\ SlotInv /\ ClipInv /\ CoverInv
        /\ SettleInv /\ PromiseInv /\ SpareInv

-----------------------------------------------------------------------------
(* Type correctness.                                                         *)

\* Phrases, user copies and Nothing are distinct.
LEMMA TextsApart == Kinds
<1>1. MaxJobs \in Nat
  BY BoundsAssumption
<1>2. Phrase(0) \in Phrases
  BY <1>1 DEF Phrases
<1>3. \A c \in UserCopies : c[1] = "user"
  BY DEF UserCopies
<1>4. \A p \in Phrases : p[1] = "phrase"
  BY DEF Phrases, Phrase
<1>5. Nothing[1] = "none"
  BY DEF Nothing
<1>6. Texts = UserCopies \cup Phrases
  BY DEF Texts, Phrases
<1> QED
  BY <1>2, <1>3, <1>4, <1>5, <1>6 DEF Kinds

LEMMA NoJobType ==
    ASSUME Kinds
    PROVE  NoJob \in Jobs
  BY DEF NoJob, Jobs, Kinds, Restorable, Methods

LEMMA AnswerType ==
    ASSUME Kinds, NEW j \in Jobs,
           NEW out \in {"none", "landed", "notLanded", "diverted", "err"}, Answer(out, j)
    PROVE  job' \in Jobs /\ pc' = "return"
  BY NoJobType DEF Answer, Goto, Jobs

LEMMA SeenOperators ==
    ASSUME TypeOK, Kinds, NEW texts \in SUBSET Texts, NEW s \in Seens
    PROVE  /\ Keep(texts) \in Seens /\ (texts \subseteq Phrases => Promise(texts) \in Seens)
           /\ Racing(s) \in Seens /\ LeftToRemote \in Seens
           /\ Keep(texts).kept = seen.kept \cup texts /\ Keep(texts).promised = seen.promised
           /\ Keep(texts).raced = seen.raced /\ Promise(texts).raced = seen.raced
           /\ Promise(texts).kept = seen.kept \cup texts
           /\ Promise(texts).promised = seen.promised \cup texts
           /\ Racing(s).kept = s.kept /\ Racing(s).promised = s.promised
           /\ Racing(s).raced = (s.raced \/ board.claimed # {})
           /\ LeftToRemote.promised = seen.promised /\ LeftToRemote.raced = seen.raced
           /\ LeftToRemote.kept = IF flags.remote THEN seen.kept \cup {board.clip} ELSE seen.kept
<1>1. board.clip \in Texts
  BY DEF TypeOK, Boards, Kinds
<1> QED
  BY <1>1 DEF TypeOK, Seens, Keep, Promise, Racing, LeftToRemote

LEMMA SpentType ==
    ASSUME TypeOK
    PROVE  Spent \in Counts /\ Spent.jobs = used.jobs
  BY DEF TypeOK, Counts, Spent

LEMMA SessionEdits ==
    ASSUME TypeOK
    PROVE  /\ \A how \in {"none", "fatal", "cancelled", "error"} :
                /\ Ended(how) \in Sessions /\ Ended(how).kind = sess.kind
                /\ ~Ended(how).live /\ ~Ended(how).dirty /\ ~Ended(how).began
                /\ Ended(how).blind = sess.blind
           /\ NoSession \in Sessions /\ NoSession.kind = "none" /\ ~NoSession.live
           /\ ~NoSession.dirty /\ ~NoSession.began
  BY DEF TypeOK, Sessions, Ended, NoSession

LEMMA PromiseRaced ==
    ASSUME TypeOK, Kinds, NEW text \in Phrases
    PROVE  /\ Racing(Promise({text})) \in Seens
           /\ Racing(Promise({text})).raced = (seen.raced \/ board.claimed # {})
           /\ Racing(Promise({text})).kept = seen.kept \cup {text}
           /\ Racing(Promise({text})).promised = seen.promised \cup {text}
<1>1. {text} \in SUBSET Texts /\ {text} \subseteq Phrases /\ seen \in Seens
  BY DEF Kinds, TypeOK
<1>2. Promise({text}) \in Seens
  BY <1>1, SeenOperators
<1> QED
  BY <1>1, <1>2, SeenOperators

LEMMA PersistedGives ==
    ASSUME TypeOK, NEW text \in Phrases
    PROVE  /\ Persisted(board, text) \in Boards /\ Persisted(board, text).clip = text
           /\ Persisted(board, text).last = text /\ Persisted(board, text).pending = Nothing
           /\ Persisted(board, text).claimed = board.claimed
  BY DEF TypeOK, Boards, Restorable, Persisted, Written, Taken

LEMMA ScheduledGives ==
    ASSUME TypeOK, NEW owed \in Restorable
    PROVE  /\ Scheduled(board, owed) \in Boards /\ Scheduled(board, owed).clip = board.clip
           /\ Scheduled(board, owed).last = board.last
           /\ Scheduled(board, owed).claimed = board.claimed
           /\ Scheduled(board, owed).pending = IF owed = Nothing THEN board.pending ELSE owed
  BY DEF TypeOK, Boards, Scheduled

LEMMA SnapshotRestoredGives ==
    ASSUME TypeOK
    PROVE  /\ SnapshotRestored \in Boards
           /\ SnapshotRestored.clip = board.clip /\ SnapshotRestored.last = board.last
           /\ SnapshotRestored.claimed = board.claimed
           /\ snapshot # Nothing /\ ~flags.remote /\ ~flags.recovery
                => SnapshotRestored.pending = snapshot
           /\ ~(snapshot # Nothing /\ ~flags.remote /\ ~flags.recovery)
                => SnapshotRestored = board
  BY ScheduledGives DEF TypeOK, SnapshotRestored

\* What a step of the insert leaves of its own shape.
SameInsert ==
    /\ job'.text = job.text /\ job'.method = job.method /\ job'.withhold = job.withhold
    /\ job'.restore = job.restore /\ job'.rescue = job.rescue

-----------------------------------------------------------------------------
(* The front end's steps.                                                    *)

LEMMA StartSessionKeeps ==
    ASSUME IInv, Kinds, NEW kind \in {"live", "stop"}, StartSession(kind)
    PROVE  IInv'
<1> USE DEF IInv
<1>1. /\ pc = "idle" /\ tail = "none" /\ ~sess.live
      /\ ~stop.cancelOwed /\ ~stop.abortOwed /\ stop.abortAt = 0
      /\ board.pending = Nothing /\ board.claimed = {}
      /\ UNCHANGED <<wayland, board, flags, snapshot, stop, tail, pc, job, seen>>
  BY DEF StartSession, Drained
<1>2. /\ sess' \in Sessions /\ sess'.live /\ ~sess'.began /\ ~sess'.dirty /\ sess'.kind = kind
      /\ used' \in Counts /\ used'.jobs = used.jobs
  <2>1. sess' \in Sessions /\ sess'.live /\ ~sess'.began /\ ~sess'.dirty /\ sess'.kind = kind
    BY DEF StartSession, NoSession, Sessions
  <2>2. used' \in Counts /\ used'.jobs = used.jobs
    BY DEF StartSession, TypeOK, Counts
  <2> QED
    BY <2>1, <2>2
<1>3. snapshot = Nothing /\ ~sess.dirty /\ ~flags.recovery
  BY <1>1 DEF SessInv, FlagInv
<1>t. TypeOK'
  BY <1>1, <1>2, <1>3 DEF TypeOK
<1>a. StopInv'
  BY <1>1, <1>2, <1>3 DEF StopInv, Inside
<1>b. JobInv'
  BY <1>1, <1>2, <1>3 DEF JobInv, Reading, Wrote
<1>c. SessInv'
  BY <1>1, <1>2, <1>3 DEF SessInv
<1>d. FlagInv'
  BY <1>1, <1>2, <1>3 DEF FlagInv, Fine
<1>e. SlotInv'
  BY <1>1, <1>2, <1>3 DEF SlotInv, Reading, Wrote, Returning
<1>f. ClipInv'
  BY <1>1, <1>2, <1>3 DEF ClipInv, Wrote, Landed
<1>g. CoverInv'
  BY <1>1, <1>2, <1>3 DEF CoverInv, Reading
<1>h. SettleInv'
  BY <1>1, <1>2, <1>3
   DEF SettleInv, Fine, Returning, JobOwes, SessOwes, Landed, LeavesItThere, Reading, Wrote
<1>i. PromiseInv'
  BY <1>1, <1>2, <1>3 DEF PromiseInv, LeavesItThere
<1>j. SpareInv'
  BY <1>1, <1>2, <1>3 DEF SpareInv, Returning, Reading, Wrote, LeavesItThere
<1> QED
  BY <1>t, <1>a, <1>b, <1>c, <1>d, <1>e, <1>f, <1>g, <1>h, <1>i, <1>j DEF IInv

LEMMA StartInsertKeeps ==
    ASSUME IInv, Kinds, NEW method \in Methods, NEW withhold \in BOOLEAN, NEW restore \in BOOLEAN,
           StartInsert(method, withhold, restore)
    PROVE  IInv'
<1> USE DEF IInv
<1>1. /\ pc = "idle" /\ tail = "none" /\ sess.live /\ used.jobs < MaxJobs
      /\ withhold => sess.kind = "live" /\ method = "paste"
      /\ UNCHANGED <<wayland, board, flags, snapshot, stop, sess, tail>>
  BY DEF StartInsert, Drained
<1>2. /\ used' \in Counts /\ used'.jobs = used.jobs + 1
      /\ used.jobs \in Nat /\ used.jobs + 1 \in 0 .. MaxJobs
  BY <1>1, BoundsAssumption DEF StartInsert, TypeOK, Counts
<1>3. /\ job' \in Jobs /\ job'.text = Phrase(used.jobs + 1) /\ job'.method = method
      /\ job'.withhold = withhold /\ job'.restore = restore /\ ~job'.rescue /\ ~job'.remote
      /\ job'.took = Nothing /\ job'.prev = Nothing
  <2>1. Phrase(used.jobs + 1) \in Phrases
    BY <1>2 DEF Phrases
  <2>2. NoJob \in Jobs /\ ~NoJob.rescue /\ ~NoJob.remote
        /\ NoJob.took = Nothing /\ NoJob.prev = Nothing
    BY NoJobType DEF NoJob
  <2>3. job' = [NoJob EXCEPT !.text = Phrase(used.jobs + 1), !.method = method,
                             !.withhold = withhold, !.restore = restore]
    BY DEF StartInsert, Goto
  <2> QED
    BY <2>1, <2>2, <2>3 DEF Jobs
<1>4. /\ pc' \in {"begin", "call"}
      /\ pc' = "begin" <=> sess.kind = "live" /\ method = "paste" /\ restore /\ ~sess.dirty
  BY DEF StartInsert, Goto
<1>5. /\ seen' \in Seens /\ seen'.raced = seen.raced
      /\ seen'.kept = seen.kept \cap {board.clip}
      /\ seen'.promised = seen.promised \cap {board.clip}
  BY DEF StartInsert, TypeOK, Seens
<1>6. job'.text \notin seen.promised
  <2>1. \A m, n : Phrase(m) = Phrase(n) => m = n
    BY DEF Phrase
  <2> QED
    BY <1>2, <1>3, <2>1 DEF PromiseInv
<1>7. /\ job'.text \in {Phrase(n) : n \in 1 .. used'.jobs}
      /\ {Phrase(n) : n \in 1 .. used.jobs} \subseteq {Phrase(n) : n \in 1 .. used'.jobs}
  BY <1>2, <1>3
<1>t. TypeOK'
  BY <1>1, <1>2, <1>3, <1>4, <1>5 DEF TypeOK, Pcs
<1>a. StopInv'
  BY <1>1, <1>2, <1>3, <1>4, <1>5 DEF StopInv, Inside
<1>b. JobInv'
  BY <1>1, <1>2, <1>3, <1>4, <1>5 DEF JobInv, Reading, Wrote
<1>c. SessInv'
  BY <1>1, <1>2, <1>3, <1>4, <1>5 DEF SessInv, Methods
<1>d. FlagInv'
  BY <1>1, <1>2, <1>3, <1>4, <1>5 DEF FlagInv, Fine
<1>e. SlotInv'
  BY <1>1, <1>2, <1>3, <1>4, <1>5 DEF SlotInv, Reading, Wrote, Returning
<1>f. ClipInv'
  BY <1>1, <1>2, <1>3, <1>4, <1>5 DEF ClipInv, Wrote, Landed
<1>g. CoverInv'
  BY <1>1, <1>2, <1>3, <1>4, <1>5, <1>4 DEF CoverInv, Reading, Methods
<1>h. SettleInv'
  BY <1>1, <1>2, <1>3, <1>4, <1>5
   DEF SettleInv, Fine, Returning, JobOwes, SessOwes, Landed, LeavesItThere, Reading, Wrote
<1>i. PromiseInv'
  BY <1>1, <1>2, <1>3, <1>4, <1>5, <1>6, <1>7 DEF PromiseInv, LeavesItThere
<1>j. SpareInv'
  BY <1>1, <1>2, <1>3, <1>4, <1>5 DEF SpareInv, Returning, Reading, Wrote, LeavesItThere
<1> QED
  BY <1>t, <1>a, <1>b, <1>c, <1>d, <1>e, <1>f, <1>g, <1>h, <1>i, <1>j DEF IInv

LEMMA BeginInjectionKeeps ==
    ASSUME IInv, Kinds, BeginInjection
    PROVE  IInv'
<1> USE DEF IInv
<1>1. /\ pc = "begin" /\ pc' = "call" /\ job' = job
      /\ UNCHANGED <<wayland, board, flags, stop, tail, seen>>
  BY DEF BeginInjection, Goto
<1>2. /\ sess' \in Sessions /\ sess'.live = sess.live /\ sess'.kind = sess.kind
      /\ sess'.dirty = sess.dirty /\ sess'.began = (sess.began \/ sess.live)
      /\ sess'.blind = sess.blind \/ (sess'.blind /\ snapshot' = snapshot)
      /\ sess.blind => sess'.blind
  BY DEF BeginInjection, TypeOK, Sessions
<1>3. used' \in Counts /\ used'.jobs = used.jobs
  BY SpentType DEF BeginInjection, TypeOK
<1>4. \/ snapshot' = snapshot /\ (board.clip = board.last \/ sess'.blind)
      \/ snapshot' = board.clip /\ board.clip # board.last
  <2>1. CASE used' = Spent /\ snapshot' = snapshot /\ sess' = [sess EXCEPT !.began = @ \/ sess.live, !.blind = TRUE]
    BY <2>1 DEF TypeOK, Sessions
  <2> QED
    BY <2>1 DEF BeginInjection, IsOwnInjected
<1>5. snapshot' = snapshot \/ (snapshot' = board.clip /\ board.clip \in UserCopies)
  BY <1>4 DEF ClipInv
<1>6. /\ board.clip = board.last => board.clip \notin UserCopies
      /\ seen.promised \subseteq Phrases
  BY DEF TypeOK, Boards, Kinds, Seens
<1>7. sess.kind = "live" /\ job.method = "paste" /\ job.restore
  BY <1>1 DEF JobInv
<1>t. TypeOK'
  BY <1>1, <1>2, <1>3, <1>5, <1>6, <1>7 DEF TypeOK, Pcs, Restorable
<1>a. StopInv'
  BY <1>1, <1>2, <1>3, <1>5, <1>6, <1>7 DEF StopInv, Inside
<1>b. JobInv'
  BY <1>1, <1>2, <1>3, <1>5, <1>6, <1>7 DEF JobInv, Reading, Wrote
<1>c. SessInv'
  BY <1>1, <1>2, <1>3, <1>5, <1>6, <1>7 DEF SessInv, StopInv
<1>d. FlagInv'
  BY <1>1, <1>2, <1>3, <1>5, <1>6, <1>7 DEF FlagInv, Fine
<1>e. SlotInv'
  BY <1>1, <1>2, <1>3, <1>5, <1>6, <1>7 DEF SlotInv, Reading, Wrote, Returning, Kinds
<1>f. ClipInv'
  BY <1>1, <1>2, <1>3, <1>5, <1>6, <1>7 DEF ClipInv, Wrote, Landed
<1>g. CoverInv'
  BY <1>1, <1>2, <1>3, <1>5, <1>6, <1>7, <1>4
   DEF CoverInv, Reading, SettleInv, Fine, SlotInv, Returning, JobOwes, SessOwes, Landed, Wrote,
       Kinds
<1>h. SettleInv'
  BY <1>1, <1>2, <1>3, <1>5, <1>6, <1>7
   DEF SettleInv, Fine, Returning, JobOwes, SessOwes, Landed, LeavesItThere, Reading, Wrote,
       Kinds
<1>i. PromiseInv'
  BY <1>1, <1>2, <1>3, <1>5, <1>6, <1>7 DEF PromiseInv, LeavesItThere
<1>j. SpareInv'
  BY <1>1, <1>2, <1>3, <1>5, <1>6, <1>7
   DEF SpareInv, Returning, Reading, Wrote, LeavesItThere, Kinds
<1> QED
  BY <1>t, <1>a, <1>b, <1>c, <1>d, <1>e, <1>f, <1>g, <1>h, <1>i, <1>j DEF IInv

LEMMA CallInsertKeeps ==
    ASSUME IInv, Kinds, CallInsert
    PROVE  IInv'
<1> USE DEF IInv
<1>1. /\ pc = "call"
      /\ UNCHANGED <<wayland, board, flags, snapshot, stop, sess, tail, used, seen>>
      /\ \/ sess.live /\ pc' = "enter" /\ job' = job
         \/ ~sess.live /\ pc' = "idle" /\ job' = NoJob
  BY DEF CallInsert, Goto
<1>2. NoJob \in Jobs /\ NoJob.took = Nothing /\ NoJob.prev = Nothing
  BY NoJobType DEF NoJob
<1>3. ~sess.live => tail = "end"
  BY <1>1 DEF StopInv
<1>t. TypeOK'
  BY <1>1, <1>2, <1>3 DEF TypeOK, Pcs
<1>a. StopInv'
  BY <1>1, <1>2, <1>3 DEF StopInv, Inside
<1>b. JobInv'
  BY <1>1, <1>2, <1>3 DEF JobInv, Reading, Wrote
<1>c. SessInv'
  BY <1>1, <1>2, <1>3 DEF SessInv
<1>d. FlagInv'
  BY <1>1, <1>2, <1>3 DEF FlagInv, Fine
<1>e. SlotInv'
  BY <1>1, <1>2, <1>3 DEF SlotInv, Reading, Wrote, Returning
<1>f. ClipInv'
  BY <1>1, <1>2, <1>3 DEF ClipInv, Wrote, Landed
<1>g. CoverInv'
  BY <1>1, <1>2, <1>3 DEF CoverInv, Reading
<1>h. SettleInv'
  BY <1>1, <1>2, <1>3
   DEF SettleInv, Fine, Returning, JobOwes, SessOwes, Landed, LeavesItThere, Reading, Wrote
<1>i. PromiseInv'
  BY <1>1, <1>2, <1>3 DEF PromiseInv, LeavesItThere
<1>j. SpareInv'
  BY <1>1, <1>2, <1>3 DEF SpareInv, Returning, Reading, Wrote, LeavesItThere
<1> QED
  BY <1>t, <1>a, <1>b, <1>c, <1>d, <1>e, <1>f, <1>g, <1>h, <1>i, <1>j DEF IInv

LEMMA QuietRestoreKeeps ==
    ASSUME IInv, Kinds, QuietRestore
    PROVE  IInv'
<1> USE DEF IInv
<1>1. /\ pc = "idle" /\ tail = "none" /\ sess.live /\ sess.dirty /\ sess.began
      /\ board' = SnapshotRestored /\ seen' = LeftToRemote
      /\ UNCHANGED <<wayland, flags, snapshot, stop, tail, pc, job, used>>
  BY DEF QuietRestore, Drained
<1>2. /\ sess' \in Sessions /\ sess'.live /\ sess'.began /\ ~sess'.dirty
      /\ sess'.kind = sess.kind /\ sess'.blind = sess.blind
  BY <1>1 DEF QuietRestore, TypeOK, Sessions
<1>3. /\ board' \in Boards
      /\ board'.clip = board.clip /\ board'.last = board.last /\ board'.claimed = board.claimed
      /\ board'.pending = IF snapshot # Nothing /\ ~flags.remote THEN snapshot ELSE board.pending
  BY <1>1, SnapshotRestoredGives DEF FlagInv
<1>4. /\ seen' \in Seens /\ seen'.promised = seen.promised /\ seen'.raced = seen.raced
      /\ seen'.kept = IF flags.remote THEN seen.kept \cup {board.clip} ELSE seen.kept
  <2>1. {} \in SUBSET Texts /\ seen \in Seens
    BY DEF TypeOK
  <2> QED
    BY <1>1, <2>1, SeenOperators
<1>5. sess.kind = "live"
  BY <1>1 DEF SessInv
<1>t. TypeOK'
  BY <1>1, <1>2, <1>3, <1>4, <1>5 DEF TypeOK
<1>a. StopInv'
  BY <1>1, <1>2, <1>3, <1>4, <1>5 DEF StopInv, Inside
<1>b. JobInv'
  BY <1>1, <1>2, <1>3, <1>4, <1>5 DEF JobInv, Reading, Wrote
<1>c. SessInv'
  BY <1>1, <1>2, <1>3, <1>4, <1>5 DEF SessInv
<1>d. FlagInv'
  BY <1>1, <1>2, <1>3, <1>4, <1>5 DEF FlagInv, Fine
<1>e. SlotInv'
  BY <1>1, <1>2, <1>3, <1>4, <1>5 DEF SlotInv, Reading, Wrote, Returning
<1>f. ClipInv'
  BY <1>1, <1>2, <1>3, <1>4, <1>5 DEF ClipInv, Wrote, Landed
<1>g. CoverInv'
  BY <1>1, <1>2, <1>3, <1>4, <1>5 DEF CoverInv, Reading
<1>h. SettleInv'
  BY <1>1, <1>2, <1>3, <1>4, <1>5
   DEF SettleInv, Fine, Returning, JobOwes, SessOwes, Landed, LeavesItThere, Reading, Wrote
<1>i. PromiseInv'
  BY <1>1, <1>2, <1>3, <1>4, <1>5 DEF PromiseInv, LeavesItThere
<1>j. SpareInv'
  BY <1>1, <1>2, <1>3, <1>4, <1>5 DEF SpareInv, Returning, Reading, Wrote, LeavesItThere
<1> QED
  BY <1>t, <1>a, <1>b, <1>c, <1>d, <1>e, <1>f, <1>g, <1>h, <1>i, <1>j DEF IInv

LEMMA AnswerDroppedKeeps ==
    ASSUME IInv, Kinds, AnswerDropped
    PROVE  IInv'
<1> USE DEF IInv
<1>1. /\ pc = "return" /\ ~sess.live /\ pc' = "idle" /\ job' = NoJob
      /\ UNCHANGED <<wayland, board, flags, snapshot, stop, sess, tail, used, seen>>
  BY DEF AnswerDropped, Goto
<1>2. NoJob \in Jobs /\ NoJob.took = Nothing /\ NoJob.prev = Nothing
  BY NoJobType DEF NoJob
<1>3. tail = "end"
  BY <1>1 DEF StopInv
<1>t. TypeOK'
  BY <1>1, <1>2, <1>3 DEF TypeOK, Pcs
<1>a. StopInv'
  BY <1>1, <1>2, <1>3 DEF StopInv, Inside
<1>b. JobInv'
  BY <1>1, <1>2, <1>3 DEF JobInv, Reading, Wrote
<1>c. SessInv'
  BY <1>1, <1>2, <1>3 DEF SessInv
<1>d. FlagInv'
  BY <1>1, <1>2, <1>3 DEF FlagInv, Fine
<1>e. SlotInv'
  BY <1>1, <1>2, <1>3 DEF SlotInv, Reading, Wrote, Returning
<1>f. ClipInv'
  BY <1>1, <1>2, <1>3 DEF ClipInv, Wrote, Landed
<1>g. CoverInv'
  BY <1>1, <1>2, <1>3 DEF CoverInv, Reading
<1>h. SettleInv'
  BY <1>1, <1>2, <1>3
   DEF SettleInv, Fine, Returning, JobOwes, SessOwes, Landed, LeavesItThere, Reading, Wrote
<1>i. PromiseInv'
  BY <1>1, <1>2, <1>3 DEF PromiseInv, LeavesItThere
<1>j. SpareInv'
  BY <1>1, <1>2, <1>3 DEF SpareInv, Returning, Reading, Wrote, LeavesItThere, SessInv
<1> QED
  BY <1>t, <1>a, <1>b, <1>c, <1>d, <1>e, <1>f, <1>g, <1>h, <1>i, <1>j DEF IInv

LEMMA SeparatorFailedKeeps ==
    ASSUME IInv, Kinds, SeparatorFailed
    PROVE  IInv'
<1> USE DEF IInv
<1>1. /\ pc = "return" /\ sess.live /\ job.out = "err" /\ job.withhold
      /\ pc' = "idle" /\ job' = NoJob
      /\ UNCHANGED <<wayland, flags, snapshot, stop, sess, tail, used>>
  BY DEF SeparatorFailed, Goto
<1>2. NoJob \in Jobs /\ NoJob.took = Nothing /\ NoJob.prev = Nothing
  BY NoJobType DEF NoJob
<1>3. sess.kind = "live" /\ job.method = "paste" /\ ~flags.recovery
  BY <1>1 DEF JobInv, FlagInv
<1>4. /\ board' \in Boards
      /\ board'.clip = board.clip /\ board'.last = board.last /\ board'.claimed = board.claimed
      /\ \/ board' = board
         \/ /\ board' # board /\ board'.pending = snapshot
            /\ snapshot # Nothing /\ ~flags.remote
  BY <1>3, SnapshotRestoredGives DEF SeparatorFailed, TypeOK
<1>5. /\ seen' \in Seens /\ seen'.raced = seen.raced /\ seen.kept \subseteq seen'.kept
      /\ seen'.promised \subseteq seen.promised
      /\ board' # board => board.clip \notin seen'.promised
  <2>1. {} \in SUBSET Texts /\ seen \in Seens
    BY DEF TypeOK
  <2>2. CASE board' = board
    <3>1. seen' = LeftToRemote
      BY <2>2 DEF SeparatorFailed
    <3> QED
      BY <2>1, <2>2, <3>1, SeenOperators
  <2>3. CASE board' # board
    <3>1. seen' = [seen EXCEPT !.promised = @ \ {board.clip}]
      BY <2>3 DEF SeparatorFailed
    <3> QED
      BY <2>1, <3>1 DEF Seens
  <2> QED
    BY <2>2, <2>3
<1>t. TypeOK'
  BY <1>1, <1>2, <1>3, <1>4, <1>5 DEF TypeOK, Pcs
<1>a. StopInv'
  BY <1>1, <1>2, <1>3, <1>4, <1>5 DEF StopInv, Inside
<1>b. JobInv'
  BY <1>1, <1>2, <1>3, <1>4, <1>5 DEF JobInv, Reading, Wrote
<1>c. SessInv'
  BY <1>1, <1>2, <1>3, <1>4, <1>5 DEF SessInv
<1>d. FlagInv'
  BY <1>1, <1>2, <1>3, <1>4, <1>5 DEF FlagInv, Fine
<1>e. SlotInv'
  BY <1>1, <1>2, <1>3, <1>4, <1>5 DEF SlotInv, Reading, Wrote, Returning
<1>f. ClipInv'
  BY <1>1, <1>2, <1>3, <1>4, <1>5 DEF ClipInv, Wrote, Landed
<1>g. CoverInv'
  BY <1>1, <1>2, <1>3, <1>4, <1>5 DEF CoverInv, Reading
<1>h. SettleInv'
  BY <1>1, <1>2, <1>3, <1>4, <1>5
   DEF SettleInv, Fine, Returning, JobOwes, SessOwes, Landed, LeavesItThere, Reading, Wrote
<1>i. PromiseInv'
  BY <1>1, <1>2, <1>3, <1>4, <1>5 DEF PromiseInv, LeavesItThere
<1>j. SpareInv'
  BY <1>1, <1>2, <1>3, <1>4, <1>5 DEF SpareInv, Returning, Reading, Wrote, LeavesItThere
<1> QED
  BY <1>t, <1>a, <1>b, <1>c, <1>d, <1>e, <1>f, <1>g, <1>h, <1>i, <1>j DEF IInv

LEMMA InsertFailedKeeps ==
    ASSUME IInv, Kinds, InsertFailed
    PROVE  IInv'
<1> USE DEF IInv
<1>1. /\ pc = "return" /\ sess.live /\ job.out = "err" /\ ~job.withhold /\ ~job.rescue
      /\ pc' = "enter"
      /\ UNCHANGED <<wayland, board, flags, snapshot, stop, sess, tail, used, seen>>
  BY DEF InsertFailed, Goto
<1>2. /\ job' \in Jobs /\ job'.text = job.text /\ job'.method = "clipboard"
      /\ ~job'.withhold /\ ~job'.restore /\ job'.rescue /\ ~job'.remote
      /\ job'.took = Nothing /\ job'.prev = Nothing
  <2>1. /\ NoJob \in Jobs /\ ~NoJob.withhold /\ ~NoJob.restore /\ ~NoJob.remote
        /\ NoJob.took = Nothing /\ NoJob.prev = Nothing
    BY NoJobType DEF NoJob
  <2>2. job.text \in Phrases /\ job.method \in Methods /\ "clipboard" \in Methods
    BY DEF TypeOK, Jobs, Methods
  <2>3. job' = [NoJob EXCEPT !.text = job.text, !.method = "clipboard", !.rescue = TRUE,
                             !.failed = job.method]
    BY DEF InsertFailed, Goto
  <2> QED
    BY <2>1, <2>2, <2>3 DEF Jobs
<1>t. TypeOK'
  BY <1>1, <1>2 DEF TypeOK, Pcs
<1>a. StopInv'
  BY <1>1, <1>2 DEF StopInv, Inside
<1>b. JobInv'
  BY <1>1, <1>2 DEF JobInv, Reading, Wrote
<1>c. SessInv'
  BY <1>1, <1>2 DEF SessInv
<1>d. FlagInv'
  BY <1>1, <1>2 DEF FlagInv, Fine
<1>e. SlotInv'
  BY <1>1, <1>2 DEF SlotInv, Reading, Wrote, Returning
<1>f. ClipInv'
  BY <1>1, <1>2 DEF ClipInv, Wrote, Landed
<1>g. CoverInv'
  BY <1>1, <1>2 DEF CoverInv, Reading
<1>h. SettleInv'
  BY <1>1, <1>2
   DEF SettleInv, Fine, Returning, JobOwes, SessOwes, Landed, LeavesItThere, Reading, Wrote
<1>i. PromiseInv'
  BY <1>1, <1>2 DEF PromiseInv, LeavesItThere
<1>j. SpareInv'
  BY <1>1, <1>2 DEF SpareInv, Returning, Reading, Wrote, LeavesItThere
<1> QED
  BY <1>t, <1>a, <1>b, <1>c, <1>d, <1>e, <1>f, <1>g, <1>h, <1>i, <1>j DEF IInv

LEMMA RescueAnsweredKeeps ==
    ASSUME IInv, Kinds, RescueAnswered
    PROVE  IInv'
<1> USE DEF IInv
<1>1. /\ pc = "return" /\ sess.live /\ job.rescue /\ pc' = "idle" /\ job' = NoJob
      /\ sess' = Ended("fatal")
      /\ UNCHANGED <<wayland, board, flags, snapshot, used>>
  BY DEF RescueAnswered, Goto
<1>2. NoJob \in Jobs /\ NoJob.took = Nothing /\ NoJob.prev = Nothing
  BY NoJobType DEF NoJob
<1>3. /\ sess' \in Sessions /\ sess'.kind = sess.kind /\ ~sess'.live /\ ~sess'.dirty
      /\ ~sess'.began /\ sess'.blind = sess.blind
  BY <1>1, SessionEdits
<1>4. /\ stop' \in Stops /\ stop'.epoch = stop.epoch /\ stop'.recoverAt = stop.recoverAt
      /\ stop'.abortAt = stop.abortAt
      /\ tail' = IF sess.kind = "live" THEN "discard" ELSE tail
  BY DEF RescueAnswered, TypeOK, Stops
<1>5. /\ seen' \in Seens /\ seen'.promised = seen.promised /\ seen'.raced = seen.raced
      /\ seen'.kept = IF sess.dirty THEN seen.kept \cup {board.clip} ELSE seen.kept
  <2>1. {board.clip} \in SUBSET Texts /\ seen \in Seens
    BY DEF TypeOK, Boards, Kinds
  <2> QED
    BY <2>1, SeenOperators DEF RescueAnswered
<1>6. /\ job.method = "clipboard" /\ tail = "none"
      /\ sess.kind \in {"live", "stop"}
  BY <1>1 DEF JobInv, StopInv, TypeOK, Sessions
<1>t. TypeOK'
  BY <1>1, <1>2, <1>3, <1>4, <1>5, <1>6 DEF TypeOK, Pcs
<1>a. StopInv'
  BY <1>1, <1>2, <1>3, <1>4, <1>5, <1>6 DEF StopInv, Inside
<1>b. JobInv'
  BY <1>1, <1>2, <1>3, <1>4, <1>5, <1>6 DEF JobInv, Reading, Wrote
<1>c. SessInv'
  BY <1>1, <1>2, <1>3, <1>4, <1>5, <1>6 DEF SessInv
<1>d. FlagInv'
  BY <1>1, <1>2, <1>3, <1>4, <1>5, <1>6 DEF FlagInv, Fine
<1>e. SlotInv'
  BY <1>1, <1>2, <1>3, <1>4, <1>5, <1>6 DEF SlotInv, Reading, Wrote, Returning
<1>f. ClipInv'
  BY <1>1, <1>2, <1>3, <1>4, <1>5, <1>6 DEF ClipInv, Wrote, Landed
<1>g. CoverInv'
  BY <1>1, <1>2, <1>3, <1>4, <1>5, <1>6 DEF CoverInv, Reading
<1>h. SettleInv'
  BY <1>1, <1>2, <1>3, <1>4, <1>5, <1>6
   DEF SettleInv, Fine, Returning, JobOwes, SessOwes, Landed, LeavesItThere, Reading, Wrote
<1>i. PromiseInv'
  BY <1>1, <1>2, <1>3, <1>4, <1>5, <1>6 DEF PromiseInv, LeavesItThere
<1>j. SpareInv'
  BY <1>1, <1>2, <1>3, <1>4, <1>5, <1>6 DEF SpareInv, Returning, Reading, Wrote, LeavesItThere
<1> QED
  BY <1>t, <1>a, <1>b, <1>c, <1>d, <1>e, <1>f, <1>g, <1>h, <1>i, <1>j DEF IInv

LEMMA LiveAnsweredKeeps ==
    ASSUME IInv, Kinds, LiveAnswered
    PROVE  IInv'
<1> DEFINE landed == job.out # "notLanded"
           onClipboard == job.out = "diverted" \/ (job.method = "clipboard" /\ landed)
           givesBack == job.withhold /\ landed /\ job.restore /\ sess.began
<1> USE DEF IInv
<1>1. /\ pc = "return" /\ sess.live /\ sess.kind = "live" /\ job.out # "err" /\ ~job.rescue
      /\ pc' = "idle" /\ job' = NoJob
      /\ UNCHANGED <<wayland, flags, snapshot, stop, tail, used>>
  BY DEF LiveAnswered, Goto
<1>2. NoJob \in Jobs /\ NoJob.took = Nothing /\ NoJob.prev = Nothing
  BY NoJobType DEF NoJob
<1>3. /\ ~flags.recovery /\ job.out \in {"landed", "notLanded", "diverted"}
      /\ job.withhold => job.out # "diverted" /\ job.method = "paste"
      /\ job.method \in Methods /\ seen.promised \subseteq Phrases
  BY <1>1 DEF JobInv, FlagInv, TypeOK, Jobs, Seens
<1>4. /\ sess' \in Sessions /\ sess'.kind = sess.kind /\ sess'.live /\ sess'.began = sess.began
      /\ sess'.blind = sess.blind
      /\ sess'.dirty = IF job.withhold THEN sess.dirty /\ ~givesBack
                       ELSE IF onClipboard THEN FALSE
                       ELSE IF ~landed THEN sess.dirty
                       ELSE IF job.method = "paste" THEN job.restore ELSE sess.dirty
  <2>1. sess \in Sessions /\ job.restore \in BOOLEAN
    BY DEF TypeOK, Jobs
  <2>2. sess' =
           IF job.withhold THEN [sess EXCEPT !.dirty = @ /\ ~givesBack]
           ELSE IF onClipboard THEN [sess EXCEPT !.dirty = FALSE, !.diverted = TRUE]
           ELSE IF ~landed THEN sess
           ELSE [sess EXCEPT !.dirty = IF job.method = "paste" THEN job.restore ELSE @,
                             !.diverted = FALSE, !.typed = TRUE]
    BY DEF LiveAnswered
  <2> HIDE DEF landed, onClipboard, givesBack
  <2> QED
    BY <1>1, <2>1, <2>2 DEF Sessions
<1>5. /\ board' \in Boards
      /\ board'.clip = board.clip /\ board'.last = board.last /\ board'.claimed = board.claimed
      /\ board'.pending = IF givesBack /\ snapshot # Nothing /\ ~flags.remote
                            THEN snapshot ELSE board.pending
  BY <1>3, SnapshotRestoredGives DEF LiveAnswered, TypeOK
<1>6. /\ seen' \in Seens /\ seen'.raced = seen.raced /\ seen'.promised = seen.promised
      /\ seen'.kept = IF givesBack /\ flags.remote THEN seen.kept \cup {board.clip} ELSE seen.kept
  <2>1. {} \in SUBSET Texts /\ seen \in Seens
    BY DEF TypeOK
  <2>2. seen' = IF givesBack THEN LeftToRemote ELSE seen
    BY DEF LiveAnswered
  <2> QED
    BY <2>1, <2>2, SeenOperators
<1>7. job.method = "paste" /\ job.restore => sess.began
  BY <1>1 DEF SessInv
<1>8. job.method = "paste" /\ job.out = "landed" =>
         /\ board.clip \in UserCopies \cup {job.text}
         /\ ~job.restore => Fine
         /\ job.text \in seen.promised => flags.remote
  BY <1>1 DEF ClipInv, SettleInv, Landed, PromiseInv, LeavesItThere
<1>9. /\ job.method = "paste" /\ job.out = "landed" /\ board.clip \in seen.promised
           => flags.remote
      /\ job.out = "diverted" \/ (job.method = "clipboard" /\ landed) => Fine
  BY <1>1, <1>3, <1>8 DEF Kinds, SettleInv, LeavesItThere
<1>t. TypeOK'
  BY <1>1, <1>2, <1>3, <1>4, <1>5, <1>6, <1>7 DEF TypeOK, Pcs
<1>a. StopInv'
  BY <1>1, <1>2, <1>3, <1>4, <1>5, <1>6, <1>7 DEF StopInv, Inside
<1>b. JobInv'
  BY <1>1, <1>2, <1>3, <1>4, <1>5, <1>6, <1>7 DEF JobInv, Reading, Wrote
<1>c. SessInv'
  BY <1>1, <1>2, <1>3, <1>4, <1>5, <1>6, <1>7 DEF SessInv
<1>d. FlagInv'
  BY <1>1, <1>2, <1>3, <1>4, <1>5, <1>6, <1>7 DEF FlagInv, Fine
<1>e. SlotInv'
  BY <1>1, <1>2, <1>3, <1>4, <1>5, <1>6, <1>7 DEF SlotInv, Reading, Wrote, Returning
<1>f. ClipInv'
  BY <1>1, <1>2, <1>3, <1>4, <1>5, <1>6, <1>7 DEF ClipInv, Wrote, Landed
<1>g. CoverInv'
  BY <1>1, <1>2, <1>3, <1>4, <1>5, <1>6, <1>7 DEF CoverInv, Reading
<1>h. SettleInv'
  BY <1>1, <1>2, <1>3, <1>4, <1>5, <1>6, <1>7, <1>8, <1>9
   DEF SettleInv, Fine, Returning, JobOwes, SessOwes, Landed, LeavesItThere, Reading, Wrote,
       Methods
<1>i. PromiseInv'
  BY <1>1, <1>2, <1>3, <1>4, <1>5, <1>6, <1>7 DEF PromiseInv, LeavesItThere
<1>j. SpareInv'
  BY <1>1, <1>2, <1>3, <1>4, <1>5, <1>6, <1>7, <1>9
   DEF SpareInv, Returning, Reading, Wrote, LeavesItThere, Methods
<1> QED
  BY <1>t, <1>a, <1>b, <1>c, <1>d, <1>e, <1>f, <1>g, <1>h, <1>i, <1>j DEF IInv

LEMMA StopAnsweredKeeps ==
    ASSUME IInv, Kinds, StopAnswered
    PROVE  IInv'
<1> USE DEF IInv
<1>1. /\ pc = "return" /\ sess.live /\ sess.kind = "stop" /\ tail = "none"
      /\ pc' = "idle" /\ job' = NoJob /\ sess' = NoSession
      /\ UNCHANGED <<wayland, flags, snapshot, stop, tail>>
  BY DEF StopAnswered, Goto, StopInv
<1>2. NoJob \in Jobs /\ NoJob.took = Nothing /\ NoJob.prev = Nothing
  BY NoJobType DEF NoJob
<1>3. sess' \in Sessions /\ sess'.kind = "none" /\ ~sess'.live /\ ~sess'.dirty /\ ~sess'.began
  BY <1>1, SessionEdits
<1>4. /\ snapshot = Nothing /\ ~flags.recovery /\ ~sess.dirty
      /\ job.text \in {Phrase(n) : n \in 1 .. used.jobs}
  BY <1>1 DEF SessInv, FlagInv, PromiseInv
<1>5. used' \in Counts /\ used'.jobs = used.jobs
  BY SpentType DEF StopAnswered, TypeOK
<1>6. CASE UNCHANGED <<board, seen>>
  <2>t. TypeOK'
    BY <1>1, <1>2, <1>3, <1>4, <1>5, <1>6 DEF TypeOK, Pcs
  <2>a. StopInv'
    BY <1>1, <1>2, <1>3, <1>4, <1>5, <1>6 DEF StopInv, Inside
  <2>b. JobInv'
    BY <1>1, <1>2, <1>3, <1>4, <1>5, <1>6 DEF JobInv, Reading, Wrote
  <2>c. SessInv'
    BY <1>1, <1>2, <1>3, <1>4, <1>5, <1>6 DEF SessInv
  <2>d. FlagInv'
    BY <1>1, <1>2, <1>3, <1>4, <1>5, <1>6 DEF FlagInv, Fine
  <2>e. SlotInv'
    BY <1>1, <1>2, <1>3, <1>4, <1>5, <1>6 DEF SlotInv, Reading, Wrote, Returning
  <2>f. ClipInv'
    BY <1>1, <1>2, <1>3, <1>4, <1>5, <1>6 DEF ClipInv, Wrote, Landed
  <2>g. CoverInv'
    BY <1>1, <1>2, <1>3, <1>4, <1>5, <1>6 DEF CoverInv, Reading
  <2>h. SettleInv'
    BY <1>1, <1>2, <1>3, <1>4, <1>5, <1>6
     DEF SettleInv, Fine, Returning, JobOwes, SessOwes, Landed, LeavesItThere, Reading, Wrote
  <2>i. PromiseInv'
    BY <1>1, <1>2, <1>3, <1>4, <1>5, <1>6 DEF PromiseInv, LeavesItThere
  <2>j. SpareInv'
    BY <1>1, <1>2, <1>3, <1>4, <1>5, <1>6 DEF SpareInv, Returning, Reading, Wrote, LeavesItThere
  <2> QED
    BY <2>t, <2>a, <2>b, <2>c, <2>d, <2>e, <2>f, <2>g, <2>h, <2>i, <2>j DEF IInv
<1>7. CASE board' = Persisted(board, job.text) /\ seen' = Racing(Promise({job.text}))
  <2>1. job.text \in Phrases
    BY DEF TypeOK, Jobs
  <2>2. /\ board' \in Boards /\ board'.clip = job.text /\ board'.last = job.text
        /\ board'.pending = Nothing /\ board'.claimed = board.claimed
    BY <1>7, <2>1, PersistedGives
  <2>3. /\ seen' \in Seens /\ seen'.raced = (seen.raced \/ board.claimed # {})
        /\ seen'.kept = seen.kept \cup {job.text}
        /\ seen'.promised = seen.promised \cup {job.text}
    BY <1>7, <2>1, PromiseRaced
  <2>t. TypeOK'
    BY <1>1, <1>2, <1>3, <1>4, <1>5, <2>2, <2>3 DEF TypeOK, Pcs
  <2>a. StopInv'
    BY <1>1, <1>2, <1>3, <1>4, <1>5, <2>2, <2>3 DEF StopInv, Inside
  <2>b. JobInv'
    BY <1>1, <1>2, <1>3, <1>4, <1>5, <2>2, <2>3 DEF JobInv, Reading, Wrote
  <2>c. SessInv'
    BY <1>1, <1>2, <1>3, <1>4, <1>5, <2>2, <2>3 DEF SessInv
  <2>d. FlagInv'
    BY <1>1, <1>2, <1>3, <1>4, <1>5, <2>2, <2>3 DEF FlagInv, Fine
  <2>e. SlotInv'
    BY <1>1, <1>2, <1>3, <1>4, <1>5, <2>2, <2>3 DEF SlotInv, Reading, Wrote, Returning
  <2>f. ClipInv'
    BY <1>1, <1>2, <1>3, <1>4, <1>5, <2>2, <2>3 DEF ClipInv, Wrote, Landed
  <2>g. CoverInv'
    BY <1>1, <1>2, <1>3, <1>4, <1>5, <2>2, <2>3 DEF CoverInv, Reading
  <2>h. SettleInv'
    BY <1>1, <1>2, <1>3, <1>4, <1>5, <2>2, <2>3
     DEF SettleInv, Fine, Returning, JobOwes, SessOwes, Landed, LeavesItThere, Reading, Wrote
  <2>i. PromiseInv'
    BY <1>1, <1>2, <1>3, <1>4, <1>5, <2>2, <2>3 DEF PromiseInv, LeavesItThere
  <2>j. SpareInv'
    BY <1>1, <1>2, <1>3, <1>4, <1>5, <2>2, <2>3
     DEF SpareInv, Returning, Reading, Wrote, LeavesItThere
  <2> QED
    BY <2>t, <2>a, <2>b, <2>c, <2>d, <2>e, <2>f, <2>g, <2>h, <2>i, <2>j DEF IInv
<1> QED
  BY <1>6, <1>7 DEF StopAnswered

LEMMA ClosedKeeps ==
    ASSUME IInv, Kinds, Closed
    PROVE  IInv'
<1> USE DEF IInv
<1>1. /\ pc = "idle" /\ tail = "none" /\ sess.live /\ sess' = NoSession
      /\ tail' = IF ~sess.began THEN "none" ELSE IF sess.dirty THEN "end" ELSE "discard"
      /\ UNCHANGED <<wayland, board, flags, snapshot, stop, pc, job, used, seen>>
  BY DEF Closed, Drained
<1>2. sess' \in Sessions /\ sess'.kind = "none" /\ ~sess'.live /\ ~sess'.dirty /\ ~sess'.began
  BY <1>1, SessionEdits
<1>3. ~flags.recovery /\ (sess.dirty => sess.began)
  BY <1>1 DEF FlagInv, SessInv
<1>t. TypeOK'
  BY <1>1, <1>2, <1>3 DEF TypeOK
<1>a. StopInv'
  BY <1>1, <1>2, <1>3 DEF StopInv, Inside
<1>b. JobInv'
  BY <1>1, <1>2, <1>3 DEF JobInv, Reading, Wrote
<1>c. SessInv'
  BY <1>1, <1>2, <1>3 DEF SessInv
<1>d. FlagInv'
  BY <1>1, <1>2, <1>3 DEF FlagInv, Fine
<1>e. SlotInv'
  BY <1>1, <1>2, <1>3 DEF SlotInv, Reading, Wrote, Returning
<1>f. ClipInv'
  BY <1>1, <1>2, <1>3 DEF ClipInv, Wrote, Landed
<1>g. CoverInv'
  BY <1>1, <1>2, <1>3 DEF CoverInv, Reading
<1>h. SettleInv'
  BY <1>1, <1>2, <1>3
   DEF SettleInv, Fine, Returning, JobOwes, SessOwes, Landed, LeavesItThere, Reading, Wrote
<1>i. PromiseInv'
  BY <1>1, <1>2, <1>3 DEF PromiseInv, LeavesItThere
<1>j. SpareInv'
  BY <1>1, <1>2, <1>3 DEF SpareInv, Returning, Reading, Wrote, LeavesItThere
<1> QED
  BY <1>t, <1>a, <1>b, <1>c, <1>d, <1>e, <1>f, <1>g, <1>h, <1>i, <1>j DEF IInv

LEMMA CancelLiveKeeps ==
    ASSUME IInv, Kinds, CancelLive
    PROVE  IInv'
<1> USE DEF IInv
<1>1. /\ sess' = Ended("cancelled") /\ tail' = "end"
      /\ UNCHANGED <<wayland, board, flags, snapshot, pc, job, used, seen>>
      /\ sess.live \/ pc # "idle"
  BY DEF CancelLive
<1>2. /\ sess' \in Sessions /\ sess'.kind = sess.kind /\ ~sess'.live /\ ~sess'.dirty
      /\ ~sess'.began /\ sess'.blind = sess.blind
  BY <1>1, SessionEdits
<1>3. /\ stop' \in Stops /\ stop'.epoch = stop.epoch /\ stop'.recoverAt = stop.recoverAt
      /\ stop'.abortAt = stop.abortAt /\ stop'.abortOwed = stop.abortOwed
  BY DEF CancelLive, TypeOK, Stops
<1>t. TypeOK'
  BY <1>1, <1>2, <1>3 DEF TypeOK
<1>a. StopInv'
  BY <1>1, <1>2, <1>3 DEF StopInv, Inside
<1>b. JobInv'
  BY <1>1, <1>2, <1>3 DEF JobInv, Reading, Wrote
<1>c. SessInv'
  BY <1>1, <1>2, <1>3 DEF SessInv
<1>d. FlagInv'
  BY <1>1, <1>2, <1>3 DEF FlagInv, Fine
<1>e. SlotInv'
  BY <1>1, <1>2, <1>3 DEF SlotInv, Reading, Wrote, Returning
<1>f. ClipInv'
  BY <1>1, <1>2, <1>3 DEF ClipInv, Wrote, Landed
<1>g. CoverInv'
  BY <1>1, <1>2, <1>3 DEF CoverInv, Reading
<1>h. SettleInv'
  BY <1>1, <1>2, <1>3
   DEF SettleInv, Fine, Returning, JobOwes, SessOwes, Landed, LeavesItThere, Reading, Wrote
<1>i. PromiseInv'
  BY <1>1, <1>2, <1>3 DEF PromiseInv, LeavesItThere
<1>j. SpareInv'
  BY <1>1, <1>2, <1>3 DEF SpareInv, Returning, Reading, Wrote, LeavesItThere
<1> QED
  BY <1>t, <1>a, <1>b, <1>c, <1>d, <1>e, <1>f, <1>g, <1>h, <1>i, <1>j DEF IInv

LEMMA StreamErrorKeeps ==
    ASSUME IInv, Kinds, StreamError
    PROVE  IInv'
<1> USE DEF IInv
<1>1. /\ sess.live /\ sess' = Ended("error") /\ tail' = "end"
      /\ UNCHANGED <<wayland, flags, snapshot, pc, job>>
  BY DEF StreamError
<1>2. /\ sess' \in Sessions /\ sess'.kind = sess.kind /\ ~sess'.live /\ ~sess'.dirty
      /\ ~sess'.began /\ sess'.blind = sess.blind
  BY <1>1, SessionEdits
<1>3. /\ stop' \in Stops /\ stop'.epoch = stop.epoch /\ stop'.recoverAt = stop.recoverAt
      /\ stop'.abortAt = stop.abortAt
  BY DEF StreamError, TypeOK, Stops
<1>4. ~flags.recovery /\ sess.kind \in {"live", "stop"}
  BY <1>1 DEF FlagInv, StopInv, TypeOK, Sessions
<1>5. CASE sess.kind = "live"
  <2>1. UNCHANGED <<board, seen, used>>
    BY <1>5 DEF StreamError
  <2>t. TypeOK'
    BY <1>1, <1>2, <1>3, <1>4, <1>5, <2>1 DEF TypeOK
  <2>a. StopInv'
    BY <1>1, <1>2, <1>3, <1>4, <1>5, <2>1 DEF StopInv, Inside
  <2>b. JobInv'
    BY <1>1, <1>2, <1>3, <1>4, <1>5, <2>1 DEF JobInv, Reading, Wrote
  <2>c. SessInv'
    BY <1>1, <1>2, <1>3, <1>4, <1>5, <2>1 DEF SessInv
  <2>d. FlagInv'
    BY <1>1, <1>2, <1>3, <1>4, <1>5, <2>1 DEF FlagInv, Fine
  <2>e. SlotInv'
    BY <1>1, <1>2, <1>3, <1>4, <1>5, <2>1 DEF SlotInv, Reading, Wrote, Returning
  <2>f. ClipInv'
    BY <1>1, <1>2, <1>3, <1>4, <1>5, <2>1 DEF ClipInv, Wrote, Landed
  <2>g. CoverInv'
    BY <1>1, <1>2, <1>3, <1>4, <1>5, <2>1 DEF CoverInv, Reading
  <2>h. SettleInv'
    BY <1>1, <1>2, <1>3, <1>4, <1>5, <2>1
     DEF SettleInv, Fine, Returning, JobOwes, SessOwes, Landed, LeavesItThere, Reading, Wrote
  <2>i. PromiseInv'
    BY <1>1, <1>2, <1>3, <1>4, <1>5, <2>1 DEF PromiseInv, LeavesItThere
  <2>j. SpareInv'
    BY <1>1, <1>2, <1>3, <1>4, <1>5, <2>1 DEF SpareInv, Returning, Reading, Wrote, LeavesItThere
  <2> QED
    BY <2>t, <2>a, <2>b, <2>c, <2>d, <2>e, <2>f, <2>g, <2>h, <2>i, <2>j DEF IInv
<1>6. CASE sess.kind = "stop"
  <2>1. /\ pc = "idle" /\ used.jobs < MaxJobs
        /\ board' = Persisted(board, Phrase(used.jobs + 1))
        /\ seen' = Racing(Promise({Phrase(used.jobs + 1)}))
        /\ used' = [used EXCEPT !.jobs = @ + 1]
    BY <1>6 DEF StreamError, Drained
  <2>2. /\ used' \in Counts /\ used'.jobs = used.jobs + 1
        /\ used.jobs \in Nat /\ used.jobs + 1 \in 0 .. MaxJobs
    BY <2>1, BoundsAssumption DEF TypeOK, Counts
  <2> DEFINE text == Phrase(used.jobs + 1)
  <2>3. /\ text \in Phrases /\ text \in {Phrase(n) : n \in 1 .. used'.jobs}
        /\ {Phrase(n) : n \in 1 .. used.jobs} \subseteq {Phrase(n) : n \in 1 .. used'.jobs}
    BY <2>2 DEF Phrases
  <2> HIDE DEF text
  <2>4. /\ board' \in Boards /\ board'.clip = text /\ board'.last = text
        /\ board'.pending = Nothing /\ board'.claimed = board.claimed
    BY <2>1, <2>3, PersistedGives DEF text
  <2>5. /\ seen' \in Seens /\ seen'.raced = (seen.raced \/ board.claimed # {})
        /\ seen'.kept = seen.kept \cup {text}
        /\ seen'.promised = seen.promised \cup {text}
    BY <2>1, <2>3, PromiseRaced DEF text
  <2>6. snapshot = Nothing
    BY <1>6 DEF SessInv
  <2>t. TypeOK'
    BY <1>1, <1>2, <1>3, <1>4, <1>6, <2>1, <2>2, <2>3, <2>4, <2>5, <2>6 DEF TypeOK
  <2>a. StopInv'
    BY <1>1, <1>2, <1>3, <1>4, <1>6, <2>1, <2>2, <2>3, <2>4, <2>5, <2>6 DEF StopInv, Inside
  <2>b. JobInv'
    BY <1>1, <1>2, <1>3, <1>4, <1>6, <2>1, <2>2, <2>3, <2>4, <2>5, <2>6
     DEF JobInv, Reading, Wrote
  <2>c. SessInv'
    BY <1>1, <1>2, <1>3, <1>4, <1>6, <2>1, <2>2, <2>3, <2>4, <2>5, <2>6 DEF SessInv
  <2>d. FlagInv'
    BY <1>1, <1>2, <1>3, <1>4, <1>6, <2>1, <2>2, <2>3, <2>4, <2>5, <2>6 DEF FlagInv, Fine
  <2>e. SlotInv'
    BY <1>1, <1>2, <1>3, <1>4, <1>6, <2>1, <2>2, <2>3, <2>4, <2>5, <2>6
     DEF SlotInv, Reading, Wrote, Returning
  <2>f. ClipInv'
    BY <1>1, <1>2, <1>3, <1>4, <1>6, <2>1, <2>2, <2>3, <2>4, <2>5, <2>6
     DEF ClipInv, Wrote, Landed
  <2>g. CoverInv'
    BY <1>1, <1>2, <1>3, <1>4, <1>6, <2>1, <2>2, <2>3, <2>4, <2>5, <2>6 DEF CoverInv, Reading
  <2>h. SettleInv'
    BY <1>1, <1>2, <1>3, <1>4, <1>6, <2>1, <2>2, <2>3, <2>4, <2>5, <2>6
     DEF SettleInv, Fine, Returning, JobOwes, SessOwes, Landed, LeavesItThere, Reading, Wrote
  <2>i. PromiseInv'
    BY <1>1, <1>2, <1>3, <1>4, <1>6, <2>1, <2>2, <2>3, <2>4, <2>5, <2>6
     DEF PromiseInv, LeavesItThere
  <2>j. SpareInv'
    BY <1>1, <1>2, <1>3, <1>4, <1>6, <2>1, <2>2, <2>3, <2>4, <2>5, <2>6
     DEF SpareInv, Returning, Reading, Wrote, LeavesItThere
  <2> QED
    BY <2>t, <2>a, <2>b, <2>c, <2>d, <2>e, <2>f, <2>g, <2>h, <2>i, <2>j DEF IInv
<1> QED
  BY <1>4, <1>5, <1>6

LEMMA TeardownKeeps ==
    ASSUME IInv, Kinds, EndInjection \/ DiscardSnapshot
    PROVE  IInv'
<1> USE DEF IInv
<1>1. /\ pc = "idle" /\ tail # "none" /\ ~sess.live
      /\ snapshot' = Nothing /\ tail' = "none" /\ sess' = NoSession
      /\ UNCHANGED <<wayland, stop, pc, job, used>>
  BY DEF EndInjection, DiscardSnapshot, StopInv
<1>2. sess' \in Sessions /\ sess'.kind = "none" /\ ~sess'.live /\ ~sess'.dirty /\ ~sess'.began
  BY <1>1, SessionEdits
<1>3. flags' \in Flags /\ ~flags'.recovery /\ ~flags'.delivered /\ ~flags'.remote
  <2>1. flags' = [recovery |-> FALSE, delivered |-> FALSE, remote |-> FALSE]
    BY DEF EndInjection, DiscardSnapshot
  <2> QED
    BY <2>1 DEF Flags
<1>4. /\ board' \in Boards
      /\ board'.clip = board.clip /\ board'.last = board.last /\ board'.claimed = board.claimed
      /\ board'.pending = IF /\ tail = "end" /\ snapshot # Nothing /\ ~flags.remote
                            /\ ~flags.recovery /\ ~flags.delivered
                            THEN snapshot ELSE board.pending
  <2>1. board \in Boards /\ snapshot \in Restorable /\ board.clip \in UserCopies \cup Phrases
    BY DEF TypeOK, Boards
  <2>2. CASE EndInjection
    BY <2>1, <2>2, ScheduledGives DEF EndInjection
  <2>3. CASE DiscardSnapshot
    BY <2>1, <2>3 DEF DiscardSnapshot
  <2> QED
    BY <2>2, <2>3
<1>5. /\ seen' \in Seens /\ seen'.promised = seen.promised /\ seen'.raced = seen.raced
      /\ seen'.kept = IF tail = "end" /\ flags.remote
                        THEN seen.kept \cup {board.clip} ELSE seen.kept
  <2>1. {} \in SUBSET Texts /\ seen \in Seens
    BY DEF TypeOK
  <2>2. CASE EndInjection
    BY <2>1, <2>2, SeenOperators DEF EndInjection
  <2>3. CASE DiscardSnapshot
    BY <2>1, <2>3 DEF DiscardSnapshot
  <2> QED
    BY <2>2, <2>3
<1>6. ~sess.dirty /\ tail \in {"end", "discard"} /\ (flags.recovery \/ flags.delivered => Fine)
  BY <1>1 DEF SessInv, FlagInv, TypeOK
<1>t. TypeOK'
  BY <1>1, <1>2, <1>3, <1>4, <1>5, <1>6 DEF TypeOK, Restorable
<1>a. StopInv'
  BY <1>1, <1>2, <1>3, <1>4, <1>5, <1>6 DEF StopInv, Inside
<1>b. JobInv'
  BY <1>1, <1>2, <1>3, <1>4, <1>5, <1>6 DEF JobInv, Reading, Wrote
<1>c. SessInv'
  BY <1>1, <1>2, <1>3, <1>4, <1>5, <1>6 DEF SessInv
<1>d. FlagInv'
  BY <1>1, <1>2, <1>3, <1>4, <1>5, <1>6 DEF FlagInv, Fine
<1>e. SlotInv'
  BY <1>1, <1>2, <1>3, <1>4, <1>5, <1>6 DEF SlotInv, Reading, Wrote, Returning
<1>f. ClipInv'
  BY <1>1, <1>2, <1>3, <1>4, <1>5, <1>6 DEF ClipInv, Wrote, Landed
<1>g. CoverInv'
  BY <1>1, <1>2, <1>3, <1>4, <1>5, <1>6 DEF CoverInv, Reading
<1>h. SettleInv'
  BY <1>1, <1>2, <1>3, <1>4, <1>5, <1>6
   DEF SettleInv, Fine, Returning, JobOwes, SessOwes, Landed, LeavesItThere, Reading, Wrote
<1>i. PromiseInv'
  BY <1>1, <1>2, <1>3, <1>4, <1>5, <1>6 DEF PromiseInv, LeavesItThere
<1>j. SpareInv'
  BY <1>1, <1>2, <1>3, <1>4, <1>5, <1>6 DEF SpareInv, Returning, Reading, Wrote, LeavesItThere
<1> QED
  BY <1>t, <1>a, <1>b, <1>c, <1>d, <1>e, <1>f, <1>g, <1>h, <1>i, <1>j DEF IInv

-----------------------------------------------------------------------------
(* From outside the chain.                                                   *)

LEMMA StopsKeep ==
    ASSUME IInv, Kinds, CancelInjection \/ AbortBump \/ AbortMark
    PROVE  IInv'
<1> USE DEF IInv
<1>1. UNCHANGED <<wayland, board, flags, snapshot, sess, tail, pc, job, used, seen>>
  BY DEF CancelInjection, AbortBump, AbortMark
<1>2. /\ stop.epoch \in Nat /\ stop.recoverAt \in Nat /\ stop.abortAt \in Nat
      /\ stop.recoverAt <= stop.epoch /\ stop.abortAt <= stop.epoch
  BY DEF TypeOK, Stops, StopInv
<1>3. /\ ~sess.live
      /\ stop' \in Stops /\ (stop'.epoch = stop.epoch + 1 \/ stop'.epoch = stop.epoch)
      /\ stop'.recoverAt <= stop'.epoch /\ stop'.abortAt <= stop'.epoch
      /\ stop'.recoverAt = stop.recoverAt \/ stop.abortAt # 0
      /\ stop'.abortAt = stop.abortAt \/ stop.abortOwed \/ stop'.abortAt = 0
      /\ stop'.abortOwed => stop.abortOwed
  <2>0. stop \in Stops /\ stop.epoch + 1 \in Nat
    BY <1>2 DEF TypeOK
  <2>1. CASE CancelInjection
    <3>1. stop.cancelOwed /\ stop' = [stop EXCEPT !.epoch = stop.epoch + 1, !.cancelOwed = FALSE]
      BY <2>1 DEF CancelInjection
    <3>2. /\ stop' \in Stops /\ stop'.epoch = stop.epoch + 1
          /\ stop'.recoverAt = stop.recoverAt /\ stop'.abortAt = stop.abortAt
          /\ stop'.abortOwed = stop.abortOwed
      BY <2>0, <3>1 DEF Stops
    <3>3. ~sess.live
      BY <3>1 DEF StopInv
    <3> QED
      BY <1>2, <3>2, <3>3
  <2>2. CASE AbortBump
    <3>1. /\ stop.abortOwed
          /\ stop' = [stop EXCEPT !.epoch = stop.epoch + 1, !.abortOwed = FALSE,
                                  !.abortAt = stop.epoch + 1]
      BY <2>2 DEF AbortBump
    <3>2. /\ stop' \in Stops /\ stop'.epoch = stop.epoch + 1
          /\ stop'.recoverAt = stop.recoverAt /\ stop'.abortAt = stop.epoch + 1
          /\ ~stop'.abortOwed
      BY <2>0, <3>1 DEF Stops
    <3>3. ~sess.live
      BY <3>1 DEF StopInv
    <3> QED
      BY <1>2, <3>1, <3>2, <3>3
  <2>3. CASE AbortMark
    <3>1. stop.abortAt # 0 /\ stop' = [stop EXCEPT !.recoverAt = stop.abortAt, !.abortAt = 0]
      BY <2>3 DEF AbortMark
    <3>2. /\ stop' \in Stops /\ stop'.epoch = stop.epoch
          /\ stop'.recoverAt = stop.abortAt /\ stop'.abortAt = 0
          /\ stop'.abortOwed = stop.abortOwed
      BY <1>2, <2>0, <3>1 DEF Stops
    <3>3. ~sess.live
      BY <3>1 DEF StopInv
    <3> QED
      BY <1>2, <3>1, <3>2, <3>3
  <2> QED
    BY <2>1, <2>2, <2>3
<1>5. job.epoch \in Nat
  BY DEF TypeOK, Jobs
<1>t. TypeOK'
  BY <1>1, <1>2, <1>3 DEF TypeOK
<1>a. StopInv'
  BY <1>1, <1>2, <1>3, <1>5 DEF StopInv, Inside
<1>b. JobInv'
  BY <1>1, <1>2, <1>3 DEF JobInv, Reading, Wrote
<1>c. SessInv'
  BY <1>1, <1>2, <1>3 DEF SessInv
<1>d. FlagInv'
  BY <1>1, <1>2, <1>3 DEF FlagInv, Fine
<1>e. SlotInv'
  BY <1>1, <1>2, <1>3 DEF SlotInv, Reading, Wrote, Returning
<1>f. ClipInv'
  BY <1>1, <1>2, <1>3 DEF ClipInv, Wrote, Landed
<1>g. CoverInv'
  BY <1>1, <1>2, <1>3 DEF CoverInv, Reading
<1>h. SettleInv'
  BY <1>1, <1>2, <1>3
   DEF SettleInv, Fine, Returning, JobOwes, SessOwes, Landed, LeavesItThere, Reading, Wrote
<1>i. PromiseInv'
  BY <1>1, <1>2, <1>3 DEF PromiseInv, LeavesItThere
<1>j. SpareInv'
  BY <1>1, <1>2, <1>3 DEF SpareInv, Returning, Reading, Wrote, LeavesItThere
<1> QED
  BY <1>t, <1>a, <1>b, <1>c, <1>d, <1>e, <1>f, <1>g, <1>h, <1>i, <1>j DEF IInv

LEMMA ClaimRestoreKeeps ==
    ASSUME IInv, Kinds, ClaimRestore
    PROVE  IInv'
<1> USE DEF IInv
<1>1. /\ board.pending # Nothing
      /\ UNCHANGED <<wayland, flags, snapshot, stop, sess, tail, pc, job, used, seen>>
  BY DEF ClaimRestore
<1>2. /\ board' \in Boards /\ board'.clip = board.clip /\ board'.last = board.last
      /\ board'.pending = Nothing /\ board'.claimed = board.claimed \cup {board.pending}
  BY <1>1 DEF ClaimRestore, TypeOK, Boards, Restorable
<1>t. TypeOK'
  BY <1>1, <1>2 DEF TypeOK
<1>a. StopInv'
  BY <1>1, <1>2 DEF StopInv, Inside
<1>b. JobInv'
  BY <1>1, <1>2 DEF JobInv, Reading, Wrote
<1>c. SessInv'
  BY <1>1, <1>2 DEF SessInv
<1>d. FlagInv'
  BY <1>1, <1>2 DEF FlagInv, Fine
<1>e. SlotInv'
  BY <1>1, <1>2 DEF SlotInv, Reading, Wrote, Returning
<1>f. ClipInv'
  BY <1>1, <1>2 DEF ClipInv, Wrote, Landed
<1>g. CoverInv'
  BY <1>1, <1>2 DEF CoverInv, Reading
<1>h. SettleInv'
  BY <1>1, <1>2
   DEF SettleInv, Fine, Returning, JobOwes, SessOwes, Landed, LeavesItThere, Reading, Wrote
<1>i. PromiseInv'
  BY <1>1, <1>2 DEF PromiseInv, LeavesItThere
<1>j. SpareInv'
  BY <1>1, <1>2 DEF SpareInv, Returning, Reading, Wrote, LeavesItThere
<1> QED
  BY <1>t, <1>a, <1>b, <1>c, <1>d, <1>e, <1>f, <1>g, <1>h, <1>i, <1>j DEF IInv

LEMMA ServeRestoreKeeps ==
    ASSUME IInv, Kinds, ServeRestore
    PROVE  IInv'
<1> USE DEF IInv
<1>1. UNCHANGED <<wayland, flags, snapshot, stop, sess, tail, pc, job, used, seen>>
  BY DEF ServeRestore
<1>2. PICK text \in board.claimed :
        board' = [board EXCEPT !.clip = text, !.claimed = @ \ {text}]
  BY DEF ServeRestore
<1>3. /\ board' \in Boards /\ board'.clip = text /\ board'.last = board.last
      /\ board'.pending = board.pending /\ board'.claimed = board.claimed \ {text}
      /\ text \in UserCopies /\ board.claimed # {}
      /\ seen.promised \subseteq Phrases
  BY <1>2 DEF TypeOK, Boards, Seens
<1>4. text \notin seen.promised
  BY <1>3 DEF Kinds
<1>t. TypeOK'
  BY <1>1, <1>3, <1>4 DEF TypeOK
<1>a. StopInv'
  BY <1>1, <1>3, <1>4 DEF StopInv, Inside
<1>b. JobInv'
  BY <1>1, <1>3, <1>4 DEF JobInv, Reading, Wrote
<1>c. SessInv'
  BY <1>1, <1>3, <1>4 DEF SessInv
<1>d. FlagInv'
  BY <1>1, <1>3, <1>4 DEF FlagInv, Fine
<1>e. SlotInv'
  BY <1>1, <1>3, <1>4 DEF SlotInv, Reading, Wrote, Returning
<1>f. ClipInv'
  BY <1>1, <1>3, <1>4 DEF ClipInv, Wrote, Landed, SlotInv
<1>g. CoverInv'
  BY <1>1, <1>3, <1>4 DEF CoverInv, Reading, SlotInv, Returning
<1>h. SettleInv'
  BY <1>1, <1>3, <1>4
   DEF SettleInv, Fine, Returning, JobOwes, SessOwes, Landed, LeavesItThere, Reading, Wrote
<1>i. PromiseInv'
  BY <1>1, <1>3, <1>4 DEF PromiseInv, LeavesItThere
<1>j. SpareInv'
  BY <1>1, <1>3, <1>4 DEF SpareInv, Returning, Reading, Wrote, LeavesItThere
<1> QED
  BY <1>t, <1>a, <1>b, <1>c, <1>d, <1>e, <1>f, <1>g, <1>h, <1>i, <1>j DEF IInv

LEMMA UserCopyKeeps ==
    ASSUME IInv, Kinds, UserCopy
    PROVE  IInv'
<1> USE DEF IInv
<1>1. UNCHANGED <<wayland, flags, snapshot, stop, tail, pc, seen>>
  BY DEF UserCopy
<1>2. /\ sess' \in Sessions /\ sess'.live = sess.live /\ sess'.kind = sess.kind
      /\ sess'.dirty = sess.dirty /\ sess'.began = sess.began
      /\ sess'.blind = (sess.blind \/ pc # "idle" \/ sess.dirty)
  BY DEF UserCopy, TypeOK, Sessions
<1>3. /\ job' \in Jobs /\ SameInsert
      /\ job'.epoch = job.epoch /\ job'.divert = job.divert
      /\ job'.remote = job.remote /\ job'.sink = job.sink
      /\ job'.out = job.out /\ job'.took = job.took /\ job'.prev = job.prev
      /\ job'.overtaken = (job.overtaken \/ pc \in {"settle", "probe", "chord"})
  BY DEF UserCopy, TypeOK, Jobs, SameInsert
<1>4. /\ used' \in Counts /\ used'.jobs = used.jobs
      /\ <<"user", used.copies + 1>> \in UserCopies
  BY BoundsAssumption DEF UserCopy, TypeOK, Counts, UserCopies
<1>5. /\ board' \in Boards /\ board'.clip \in UserCopies /\ board'.last = board.last
      /\ board'.pending = board.pending /\ board'.claimed = board.claimed
      /\ seen.promised \subseteq Phrases
  BY <1>4 DEF UserCopy, TypeOK, Boards, Seens
<1>6. board'.clip \notin seen.promised
  BY <1>5 DEF Kinds
<1>t. TypeOK'
  BY <1>1, <1>2, <1>3, <1>4, <1>5, <1>6 DEF TypeOK
<1>a. StopInv'
  BY <1>1, <1>2, <1>3, <1>4, <1>5, <1>6 DEF StopInv, Inside, SameInsert
<1>b. JobInv'
  BY <1>1, <1>2, <1>3, <1>4, <1>5, <1>6 DEF JobInv, Reading, Wrote, SameInsert
<1>c. SessInv'
  BY <1>1, <1>2, <1>3, <1>4, <1>5, <1>6 DEF SessInv, SameInsert
<1>d. FlagInv'
  BY <1>1, <1>2, <1>3, <1>4, <1>5, <1>6 DEF FlagInv, Fine
<1>e. SlotInv'
  BY <1>1, <1>2, <1>3, <1>4, <1>5, <1>6 DEF SlotInv, Reading, Wrote, Returning, SameInsert
<1>f. ClipInv'
  BY <1>1, <1>2, <1>3, <1>4, <1>5, <1>6 DEF ClipInv, Wrote, Landed, SameInsert
<1>g. CoverInv'
  BY <1>1, <1>2, <1>3, <1>4, <1>5, <1>6 DEF CoverInv, Reading, SameInsert
<1>h. SettleInv'
  BY <1>1, <1>2, <1>3, <1>4, <1>5, <1>6
   DEF SettleInv, Fine, Returning, JobOwes, SessOwes, Landed, LeavesItThere, Reading, Wrote,
       SameInsert
<1>i. PromiseInv'
  BY <1>1, <1>2, <1>3, <1>4, <1>5, <1>6 DEF PromiseInv, LeavesItThere, SameInsert
<1>j. SpareInv'
  BY <1>1, <1>2, <1>3, <1>4, <1>5, <1>6
   DEF SpareInv, Returning, Reading, Wrote, LeavesItThere, SameInsert
<1> QED
  BY <1>t, <1>a, <1>b, <1>c, <1>d, <1>e, <1>f, <1>g, <1>h, <1>i, <1>j DEF IInv

-----------------------------------------------------------------------------
(* The insert's steps.                                                       *)

LEMMA AnswerGives ==
    ASSUME Kinds, NEW j \in Jobs,
           NEW out \in {"none", "landed", "notLanded", "diverted", "err"}, Answer(out, j),
           j.text = job.text, j.method = job.method, j.withhold = job.withhold,
           j.restore = job.restore, j.rescue = job.rescue
    PROVE  /\ SameInsert /\ pc' = "return" /\ job' \in Jobs /\ job'.out = out /\ ~job'.remote
           /\ job'.took = Nothing /\ job'.prev = Nothing
<1>1. job' \in Jobs /\ pc' = "return"
  BY AnswerType
<1> QED
  BY <1>1 DEF Answer, Goto, NoJob, SameInsert

LEMMA JobTyped ==
    ASSUME TypeOK
    PROVE  job \in Jobs
  BY DEF TypeOK

LEMMA SinkSet ==
    ASSUME TypeOK, NEW sink \in {"yes", "nothing", "onClipboard", "err"},
           job' = [job EXCEPT !.sink = sink] \/ job' = [job EXCEPT !.sink = sink, !.pressed = TRUE]
    PROVE  /\ job' \in Jobs /\ SameInsert /\ job'.sink = sink
           /\ job'.took = job.took /\ job'.prev = job.prev /\ job'.epoch = job.epoch
           /\ job'.remote = job.remote /\ job'.divert = job.divert
           /\ job'.overtaken = job.overtaken
<1>1. CASE job' = [job EXCEPT !.sink = sink]
  BY <1>1, JobTyped DEF Jobs, SameInsert
<1>2. CASE job' = [job EXCEPT !.sink = sink, !.pressed = TRUE]
  BY <1>2, JobTyped DEF Jobs, SameInsert
<1> QED
  BY <1>1, <1>2

\* A live session's insert is not stopped, and a stop-timing session's never by an error.
LEMMA LiveUnstopped ==
    ASSUME TypeOK, StopInv, Inside
    PROVE  /\ Cancelled => ~sess.live /\ tail = "end"
           /\ ErrorAborted => sess.kind = "live"
<1>1. /\ stop.epoch \in Nat /\ stop.recoverAt \in Nat /\ job.epoch \in Nat
      /\ sess.kind \in {"none", "live", "stop"}
  BY DEF TypeOK, Stops, Jobs, Sessions
<1>2. pc # "idle"
  BY DEF Inside
<1>3. Cancelled => ~sess.live /\ tail = "end"
  BY <1>2 DEF StopInv, Cancelled
<1>4. ErrorAborted => sess.kind # "stop"
  BY <1>1 DEF StopInv, ErrorAborted, WantsRecovery
<1>5. sess.kind # "none"
  BY <1>2 DEF StopInv
<1> QED
  BY <1>1, <1>3, <1>4, <1>5 DEF ErrorAborted

LEMMA EnterInsertKeeps ==
    ASSUME IInv, Kinds, NEW own \in BOOLEAN, EnterInsert(own)
    PROVE  IInv'
<1> USE DEF IInv
<1>1. /\ pc = "enter"
      /\ UNCHANGED <<wayland, board, flags, snapshot, stop, sess, tail, used, seen>>
  BY DEF EnterInsert
<1>2. /\ stop.recoverAt <= stop.epoch /\ job.took = Nothing /\ job.prev = Nothing
      /\ job.method \in Methods /\ stop.epoch \in Nat
  BY <1>1 DEF StopInv, JobInv, Reading, Wrote, TypeOK, Jobs, Stops
<1>3. /\ job' \in Jobs /\ SameInsert /\ job'.took = Nothing /\ job'.prev = Nothing
      /\ \/ pc' = "return" /\ job'.out = "notLanded"
         \/ pc' = "clipGate" /\ job'.epoch = stop.epoch /\ job.method = "clipboard"
         \/ pc' = "sink" /\ job'.epoch = stop.epoch /\ job.method # "clipboard"
  <2> DEFINE j == [job EXCEPT !.epoch = stop.epoch]
  <2>1. /\ j \in Jobs /\ j.text = job.text /\ j.method = job.method /\ j.withhold = job.withhold
        /\ j.restore = job.restore /\ j.rescue = job.rescue /\ j.epoch = stop.epoch
        /\ j.took = job.took /\ j.prev = job.prev
    BY DEF TypeOK, Jobs, Stops
  <2>2. CASE own
    <3>1. Answer("notLanded", [j EXCEPT !.skipped = TRUE])
      BY <2>2 DEF EnterInsert
    <3> DEFINE k == [j EXCEPT !.skipped = TRUE]
    <3>2. /\ k \in Jobs /\ k.text = job.text /\ k.method = job.method
          /\ k.withhold = job.withhold /\ k.restore = job.restore /\ k.rescue = job.rescue
      BY <2>1 DEF Jobs
    <3> HIDE DEF k
    <3> QED
      BY <3>1, <3>2, AnswerGives DEF k
  <2>3. CASE ~own
    <3>1. job' = j /\ pc' = IF job.method = "clipboard" THEN "clipGate" ELSE "sink"
      BY <2>3 DEF EnterInsert, Goto
    <3> QED
      BY <1>2, <2>1, <3>1 DEF SameInsert
  <2> QED
    BY <2>2, <2>3
<1>t. TypeOK'
  BY <1>1, <1>2, <1>3 DEF TypeOK, Pcs
<1>a. StopInv'
  BY <1>1, <1>2, <1>3 DEF StopInv, SameInsert, Inside
<1>b. JobInv'
  BY <1>1, <1>2, <1>3 DEF JobInv, SameInsert, Reading, Wrote
<1>c. SessInv'
  BY <1>1, <1>2, <1>3 DEF SessInv, SameInsert
<1>d. FlagInv'
  BY <1>1, <1>2, <1>3 DEF FlagInv, Fine
<1>e. SlotInv'
  BY <1>1, <1>2, <1>3 DEF SlotInv, SameInsert, Reading, Wrote, Returning
<1>f. ClipInv'
  BY <1>1, <1>2, <1>3 DEF ClipInv, SameInsert, Wrote, Landed
<1>g. CoverInv'
  BY <1>1, <1>2, <1>3 DEF CoverInv, SameInsert, Reading
<1>h. SettleInv'
  BY <1>1, <1>2, <1>3
   DEF SettleInv, SameInsert, Fine, Returning, JobOwes, SessOwes, Landed, LeavesItThere,
       Reading, Wrote
<1>i. PromiseInv'
  BY <1>1, <1>2, <1>3 DEF PromiseInv, SameInsert, LeavesItThere
<1>j. SpareInv'
  BY <1>1, <1>2, <1>3 DEF SpareInv, SameInsert, Returning, Reading, Wrote, LeavesItThere
<1> QED
  BY <1>t, <1>a, <1>b, <1>c, <1>d, <1>e, <1>f, <1>g, <1>h, <1>i, <1>j DEF IInv

LEMMA ReachSinkKeeps ==
    ASSUME IInv, Kinds, NEW own \in BOOLEAN, NEW divert \in BOOLEAN, NEW remote \in BOOLEAN,
           ReachSink(own, divert, remote)
    PROVE  IInv'
<1> USE DEF IInv
<1>1. /\ pc = "sink"
      /\ UNCHANGED <<wayland, board, flags, snapshot, stop, sess, tail, used, seen>>
  BY DEF ReachSink
<1>2. job.method \in {"paste", "direct"} /\ job.took = Nothing /\ job.prev = Nothing
  BY <1>1 DEF JobInv, Reading, Wrote, TypeOK, Jobs, Methods
<1>3. /\ job' \in Jobs /\ SameInsert /\ job'.took = Nothing /\ job'.prev = Nothing
      /\ \/ pc' = "return" /\ job'.out = "notLanded"
         \/ pc' = "clipGate" /\ job'.epoch = job.epoch /\ job'.divert
         \/ pc' = "type" /\ job'.epoch = job.epoch /\ job.method = "direct"
         \/ pc' = "take" /\ job'.epoch = job.epoch /\ job.method = "paste"
  <2>1. CASE own
    <3> DEFINE k == [job EXCEPT !.skipped = TRUE]
    <3>1. Answer("notLanded", k)
      BY <2>1 DEF ReachSink
    <3>2. /\ k \in Jobs /\ k.text = job.text /\ k.method = job.method
          /\ k.withhold = job.withhold /\ k.restore = job.restore /\ k.rescue = job.rescue
      BY DEF TypeOK, Jobs
    <3> HIDE DEF k
    <3> QED
      BY <3>1, <3>2, AnswerGives
  <2>2. CASE ~own
    <3>1. \/ pc' = "clipGate" /\ job' = [job EXCEPT !.divert = TRUE]
          \/ pc' = "type" /\ job' = job /\ job.method = "direct"
          \/ pc' = "take" /\ job' = [job EXCEPT !.remote = remote] /\ job.method = "paste"
      BY <1>2, <2>2 DEF ReachSink, Goto
    <3>2. job \in Jobs
      BY DEF TypeOK
    <3> QED
      BY <1>2, <3>1, <3>2 DEF Jobs, SameInsert
  <2> QED
    BY <2>1, <2>2
<1>t. TypeOK'
  BY <1>1, <1>2, <1>3 DEF TypeOK, Pcs
<1>a. StopInv'
  BY <1>1, <1>2, <1>3 DEF StopInv, SameInsert, Inside
<1>b. JobInv'
  BY <1>1, <1>2, <1>3 DEF JobInv, SameInsert, Reading, Wrote
<1>c. SessInv'
  BY <1>1, <1>2, <1>3 DEF SessInv, SameInsert
<1>d. FlagInv'
  BY <1>1, <1>2, <1>3 DEF FlagInv, Fine
<1>e. SlotInv'
  BY <1>1, <1>2, <1>3 DEF SlotInv, SameInsert, Reading, Wrote, Returning
<1>f. ClipInv'
  BY <1>1, <1>2, <1>3 DEF ClipInv, SameInsert, Wrote, Landed
<1>g. CoverInv'
  BY <1>1, <1>2, <1>3 DEF CoverInv, SameInsert, Reading
<1>h. SettleInv'
  BY <1>1, <1>2, <1>3
   DEF SettleInv, SameInsert, Fine, Returning, JobOwes, SessOwes, Landed, LeavesItThere,
       Reading, Wrote
<1>i. PromiseInv'
  BY <1>1, <1>2, <1>3 DEF PromiseInv, SameInsert, LeavesItThere
<1>j. SpareInv'
  BY <1>1, <1>2, <1>3 DEF SpareInv, SameInsert, Returning, Reading, Wrote, LeavesItThere
<1> QED
  BY <1>t, <1>a, <1>b, <1>c, <1>d, <1>e, <1>f, <1>g, <1>h, <1>i, <1>j DEF IInv

LEMMA ClipboardGateKeeps ==
    ASSUME IInv, Kinds, ClipboardGate
    PROVE  IInv'
<1> USE DEF IInv
<1>1. /\ pc = "clipGate"
      /\ UNCHANGED <<wayland, board, flags, snapshot, stop, sess, tail, used, seen>>
  BY DEF ClipboardGate
<1>2. job.took = Nothing /\ job.prev = Nothing
  BY <1>1 DEF JobInv, Reading, Wrote
<1>3. Cancelled => ~sess.live /\ tail = "end"
  BY <1>1, LiveUnstopped DEF Inside
<1>4. /\ job' \in Jobs /\ SameInsert /\ job'.took = Nothing /\ job'.prev = Nothing
      /\ \/ pc' = "return" /\ job'.out = "landed" /\ Cancelled
         \/ pc' = "return" /\ job'.out = "notLanded"
         \/ pc' = "clipWrite" /\ job'.epoch = job.epoch /\ job'.divert = job.divert /\ ~job.withhold
  <2>1. CASE CancelDiscards
    BY <2>1, AnswerGives, JobTyped DEF ClipboardGate, CancelDiscards
  <2>2. CASE ~CancelDiscards /\ job.withhold
    BY <2>2, AnswerGives, JobTyped DEF ClipboardGate
  <2>3. CASE ~CancelDiscards /\ ~job.withhold
    BY <1>2, <2>3, JobTyped DEF ClipboardGate, Goto, SameInsert
  <2> QED
    BY <2>1, <2>2, <2>3
<1>t. TypeOK'
  BY <1>1, <1>2, <1>3, <1>4 DEF TypeOK, Pcs
<1>a. StopInv'
  BY <1>1, <1>2, <1>3, <1>4 DEF StopInv, SameInsert, Inside
<1>b. JobInv'
  BY <1>1, <1>2, <1>3, <1>4 DEF JobInv, SameInsert, Reading, Wrote
<1>c. SessInv'
  BY <1>1, <1>2, <1>3, <1>4 DEF SessInv, SameInsert
<1>d. FlagInv'
  BY <1>1, <1>2, <1>3, <1>4 DEF FlagInv, Fine
<1>e. SlotInv'
  BY <1>1, <1>2, <1>3, <1>4 DEF SlotInv, SameInsert, Reading, Wrote, Returning
<1>f. ClipInv'
  BY <1>1, <1>2, <1>3, <1>4 DEF ClipInv, SameInsert, Wrote, Landed
<1>g. CoverInv'
  BY <1>1, <1>2, <1>3, <1>4 DEF CoverInv, SameInsert, Reading
<1>h. SettleInv'
  BY <1>1, <1>2, <1>3, <1>4
   DEF SettleInv, SameInsert, Fine, Returning, JobOwes, SessOwes, Landed, LeavesItThere,
       Reading, Wrote
<1>i. PromiseInv'
  BY <1>1, <1>2, <1>3, <1>4 DEF PromiseInv, SameInsert, LeavesItThere
<1>j. SpareInv'
  BY <1>1, <1>2, <1>3, <1>4 DEF SpareInv, SameInsert, Returning, Reading, Wrote, LeavesItThere
<1> QED
  BY <1>t, <1>a, <1>b, <1>c, <1>d, <1>e, <1>f, <1>g, <1>h, <1>i, <1>j DEF IInv

LEMMA ClipboardWriteKeeps ==
    ASSUME IInv, Kinds, ClipboardWrite
    PROVE  IInv'
<1> USE DEF IInv
<1>1. pc = "clipWrite" /\ UNCHANGED <<wayland, flags, snapshot, stop, sess, tail>>
  BY DEF ClipboardWrite
<1>2. /\ job.took = Nothing /\ job.prev = Nothing /\ ~job.withhold
      /\ job.text \in Phrases /\ ~flags.recovery
      /\ sess.kind \in {"live", "stop"} /\ (sess.kind = "stop" => snapshot = Nothing)
      /\ job.text \in seen.promised => flags.remote
      /\ board.claimed # {} => snapshot # Nothing
  BY <1>1 DEF JobInv, Reading, Wrote, FlagInv, TypeOK, Jobs, StopInv, Sessions, SessInv,
              PromiseInv, SlotInv, Returning
<1>3. CASE /\ board' = Persisted(board, job.text)
           /\ seen' = Racing(IF snapshot = Nothing THEN Keep({job.text}) ELSE seen)
           /\ pc' = "clipNote" /\ job' = job /\ used' = used
  <2>1. /\ board' \in Boards /\ board'.clip = job.text /\ board'.last = job.text
        /\ board'.pending = Nothing /\ board'.claimed = board.claimed
    BY <1>2, <1>3, PersistedGives
  <2>2. /\ seen' \in Seens /\ seen'.raced = (seen.raced \/ board.claimed # {})
        /\ seen'.promised = seen.promised
        /\ seen'.kept = IF snapshot = Nothing THEN seen.kept \cup {job.text} ELSE seen.kept
    <3>1. {job.text} \in SUBSET Texts /\ seen \in Seens
      BY <1>2 DEF Kinds, TypeOK
    <3>2. Keep({job.text}) \in Seens
      BY <3>1, SeenOperators
    <3> QED
      BY <1>3, <3>1, <3>2, SeenOperators
  <2>3. SameInsert
    BY <1>3 DEF SameInsert
  <2>t. TypeOK'
    BY <1>1, <1>2, <1>3, <2>1, <2>2, <2>3 DEF TypeOK, Pcs
  <2>a. StopInv'
    BY <1>1, <1>2, <1>3, <2>1, <2>2, <2>3 DEF StopInv, SameInsert, Inside
  <2>b. JobInv'
    BY <1>1, <1>2, <1>3, <2>1, <2>2, <2>3 DEF JobInv, SameInsert, Reading, Wrote
  <2>c. SessInv'
    BY <1>1, <1>2, <1>3, <2>1, <2>2, <2>3 DEF SessInv, SameInsert
  <2>d. FlagInv'
    BY <1>1, <1>2, <1>3, <2>1, <2>2, <2>3 DEF FlagInv, Fine
  <2>e. SlotInv'
    BY <1>1, <1>2, <1>3, <2>1, <2>2, <2>3 DEF SlotInv, SameInsert, Reading, Wrote, Returning
  <2>f. ClipInv'
    BY <1>1, <1>2, <1>3, <2>1, <2>2, <2>3 DEF ClipInv, SameInsert, Wrote, Landed
  <2>g. CoverInv'
    BY <1>1, <1>2, <1>3, <2>1, <2>2, <2>3 DEF CoverInv, SameInsert, Reading
  <2>h. SettleInv'
    BY <1>1, <1>2, <1>3, <2>1, <2>2, <2>3
     DEF SettleInv, SameInsert, Fine, Returning, JobOwes, SessOwes, Landed, LeavesItThere,
         Reading, Wrote
  <2>i. PromiseInv'
    BY <1>1, <1>2, <1>3, <2>1, <2>2, <2>3 DEF PromiseInv, SameInsert, LeavesItThere
  <2>j. SpareInv'
    BY <1>1, <1>2, <1>3, <2>1, <2>2, <2>3
     DEF SpareInv, SameInsert, Returning, Reading, Wrote, LeavesItThere
  <2> QED
    BY <2>t, <2>a, <2>b, <2>c, <2>d, <2>e, <2>f, <2>g, <2>h, <2>i, <2>j DEF IInv
<1>4. CASE /\ Answer("notLanded", [job EXCEPT !.faulted = TRUE])
           /\ used' = Spent /\ UNCHANGED <<board, seen>>
  <2>1. used' \in Counts /\ used'.jobs = used.jobs
    BY <1>4, SpentType
  <2> DEFINE k == [job EXCEPT !.faulted = TRUE]
  <2>2. /\ k \in Jobs /\ k.text = job.text /\ k.method = job.method
        /\ k.withhold = job.withhold /\ k.restore = job.restore /\ k.rescue = job.rescue
    BY DEF TypeOK, Jobs
  <2> HIDE DEF k
  <2>3. /\ SameInsert /\ pc' = "return" /\ job' \in Jobs /\ job'.out = "notLanded"
        /\ job'.took = Nothing /\ job'.prev = Nothing
    BY <1>4, <2>2, AnswerGives DEF k
  <2>t. TypeOK'
    BY <1>1, <1>2, <1>4, <2>1, <2>3 DEF TypeOK, Pcs
  <2>a. StopInv'
    BY <1>1, <1>2, <1>4, <2>1, <2>3 DEF StopInv, SameInsert, Inside
  <2>b. JobInv'
    BY <1>1, <1>2, <1>4, <2>1, <2>3 DEF JobInv, SameInsert, Reading, Wrote
  <2>c. SessInv'
    BY <1>1, <1>2, <1>4, <2>1, <2>3 DEF SessInv, SameInsert
  <2>d. FlagInv'
    BY <1>1, <1>2, <1>4, <2>1, <2>3 DEF FlagInv, Fine
  <2>e. SlotInv'
    BY <1>1, <1>2, <1>4, <2>1, <2>3 DEF SlotInv, SameInsert, Reading, Wrote, Returning
  <2>f. ClipInv'
    BY <1>1, <1>2, <1>4, <2>1, <2>3 DEF ClipInv, SameInsert, Wrote, Landed
  <2>g. CoverInv'
    BY <1>1, <1>2, <1>4, <2>1, <2>3 DEF CoverInv, SameInsert, Reading
  <2>h. SettleInv'
    BY <1>1, <1>2, <1>4, <2>1, <2>3
     DEF SettleInv, SameInsert, Fine, Returning, JobOwes, SessOwes, Landed, LeavesItThere,
         Reading, Wrote
  <2>i. PromiseInv'
    BY <1>1, <1>2, <1>4, <2>1, <2>3 DEF PromiseInv, SameInsert, LeavesItThere
  <2>j. SpareInv'
    BY <1>1, <1>2, <1>4, <2>1, <2>3
     DEF SpareInv, SameInsert, Returning, Reading, Wrote, LeavesItThere
  <2> QED
    BY <2>t, <2>a, <2>b, <2>c, <2>d, <2>e, <2>f, <2>g, <2>h, <2>i, <2>j DEF IInv
<1> QED
  BY <1>3, <1>4 DEF ClipboardWrite, Goto

LEMMA ClipboardNoteKeeps ==
    ASSUME IInv, Kinds, ClipboardNote
    PROVE  IInv'
<1> USE DEF IInv
<1>1. pc = "clipNote" /\ UNCHANGED <<wayland, board, snapshot, stop, sess, tail, used>>
  BY DEF ClipboardNote
<1>2. /\ job.took = Nothing /\ job.prev = Nothing /\ ~job.withhold
      /\ job.method = "clipboard" \/ job.divert
      /\ job.text \in Phrases /\ job.text \in {Phrase(n) : n \in 1 .. used.jobs}
      /\ sess.kind \in {"live", "stop"} /\ ~flags.recovery /\ seen.promised \subseteq Phrases
      /\ ~sess.live => ~sess.dirty
  BY <1>1 DEF JobInv, Reading, Wrote, FlagInv, TypeOK, Jobs, StopInv, Sessions, PromiseInv,
              Seens, SessInv
<1>3. /\ ErrorAborted => ~sess.live /\ tail = "end" /\ sess.kind = "live" /\ ~UserCancelled
      /\ UserCancelled => ~sess.live /\ tail = "end"
  BY <1>1, LiveUnstopped DEF Inside, ErrorAborted, UserCancelled
<1>4. /\ flags' \in Flags /\ flags'.remote = flags.remote /\ flags'.delivered = ~UserCancelled
      /\ flags'.recovery = ErrorAborted
  <2>1. flags' = [flags EXCEPT !.delivered = Delivered, !.recovery = @ \/ ErrorAborted]
    BY DEF ClipboardNote
  <2>2. flags \in Flags /\ Delivered \in BOOLEAN /\ ErrorAborted \in BOOLEAN
    BY DEF TypeOK, Delivered, UserCancelled, Cancelled, ErrorAborted
  <2> QED
    BY <1>2, <2>1, <2>2 DEF Flags, Delivered
<1>5. /\ seen' \in Seens /\ seen'.raced = seen.raced
      /\ seen'.kept = IF UserCancelled THEN seen.kept ELSE seen.kept \cup {job.text}
      /\ seen'.promised = IF UserCancelled THEN seen.promised ELSE seen.promised \cup {job.text}
  <2>1. {job.text} \in SUBSET Texts /\ {job.text} \subseteq Phrases /\ seen \in Seens
    BY <1>2 DEF Kinds, TypeOK
  <2> QED
    BY <2>1, SeenOperators DEF ClipboardNote
<1>6. /\ SameInsert /\ pc' = "return" /\ job' \in Jobs
      /\ job'.out = IF job.divert THEN "diverted" ELSE "landed"
      /\ job'.took = Nothing /\ job'.prev = Nothing
  BY AnswerGives, JobTyped DEF ClipboardNote
<1>t. TypeOK'
  BY <1>1, <1>2, <1>3, <1>4, <1>5, <1>6 DEF TypeOK, Pcs
<1>a. StopInv'
  BY <1>1, <1>2, <1>3, <1>4, <1>5, <1>6 DEF StopInv, SameInsert, Inside
<1>b. JobInv'
  BY <1>1, <1>2, <1>3, <1>4, <1>5, <1>6 DEF JobInv, SameInsert, Reading, Wrote
<1>c. SessInv'
  BY <1>1, <1>2, <1>3, <1>4, <1>5, <1>6 DEF SessInv, SameInsert
<1>d. FlagInv'
  BY <1>1, <1>2, <1>3, <1>4, <1>5, <1>6 DEF FlagInv, Fine, ClipInv
<1>e. SlotInv'
  BY <1>1, <1>2, <1>3, <1>4, <1>5, <1>6 DEF SlotInv, SameInsert, Reading, Wrote, Returning
<1>f. ClipInv'
  BY <1>1, <1>2, <1>3, <1>4, <1>5, <1>6 DEF ClipInv, SameInsert, Wrote, Landed
<1>g. CoverInv'
  BY <1>1, <1>2, <1>3, <1>4, <1>5, <1>6 DEF CoverInv, SameInsert, Reading
<1>h. SettleInv'
  BY <1>1, <1>2, <1>3, <1>4, <1>5, <1>6
   DEF SettleInv, SameInsert, Fine, Returning, JobOwes, SessOwes, Landed, LeavesItThere,
       Reading, Wrote, ClipInv
<1>i. PromiseInv'
  BY <1>1, <1>2, <1>3, <1>4, <1>5, <1>6 DEF PromiseInv, SameInsert, LeavesItThere
<1>j. SpareInv'
  BY <1>1, <1>2, <1>3, <1>4, <1>5, <1>6
   DEF SpareInv, SameInsert, Returning, Reading, Wrote, LeavesItThere, ClipInv, SlotInv, Kinds
<1> QED
  BY <1>t, <1>a, <1>b, <1>c, <1>d, <1>e, <1>f, <1>g, <1>h, <1>i, <1>j DEF IInv

LEMMA TypeTextKeeps ==
    ASSUME IInv, Kinds, NEW own \in BOOLEAN, TypeText(own)
    PROVE  IInv'
<1> USE DEF IInv
<1>1. pc = "type" /\ UNCHANGED <<wayland, board, flags, snapshot, stop, sess, tail, seen>>
  BY DEF TypeText
<1>2. job.took = Nothing /\ job.prev = Nothing /\ job.method = "direct"
  BY <1>1 DEF JobInv, Reading, Wrote
<1>3. used' \in Counts /\ used'.jobs = used.jobs
  BY SpentType DEF TypeText, TypeOK
<1>4. /\ pc' = "finish" /\ job' \in Jobs /\ SameInsert
      /\ job'.took = Nothing /\ job'.prev = Nothing
      /\ job'.epoch = job.epoch /\ job'.sink # "onClipboard"
  <2>1. \/ job' = [job EXCEPT !.sink = "yes"]
        \/ job' = [job EXCEPT !.sink = "nothing"]
        \/ job' = [job EXCEPT !.sink = "yes", !.pressed = TRUE]
        \/ job' = [job EXCEPT !.sink = "err"]
    BY DEF TypeText, Goto
  <2>2. pc' = "finish"
    BY DEF TypeText, Goto
  <2> QED
    BY <1>2, <2>1, <2>2, SinkSet
<1>t. TypeOK'
  BY <1>1, <1>2, <1>3, <1>4 DEF TypeOK, Pcs
<1>a. StopInv'
  BY <1>1, <1>2, <1>3, <1>4 DEF StopInv, SameInsert, Inside
<1>b. JobInv'
  BY <1>1, <1>2, <1>3, <1>4 DEF JobInv, SameInsert, Reading, Wrote
<1>c. SessInv'
  BY <1>1, <1>2, <1>3, <1>4 DEF SessInv, SameInsert
<1>d. FlagInv'
  BY <1>1, <1>2, <1>3, <1>4 DEF FlagInv, Fine
<1>e. SlotInv'
  BY <1>1, <1>2, <1>3, <1>4 DEF SlotInv, SameInsert, Reading, Wrote, Returning
<1>f. ClipInv'
  BY <1>1, <1>2, <1>3, <1>4 DEF ClipInv, SameInsert, Wrote, Landed
<1>g. CoverInv'
  BY <1>1, <1>2, <1>3, <1>4 DEF CoverInv, SameInsert, Reading
<1>h. SettleInv'
  BY <1>1, <1>2, <1>3, <1>4
   DEF SettleInv, SameInsert, Fine, Returning, JobOwes, SessOwes, Landed, LeavesItThere,
       Reading, Wrote
<1>i. PromiseInv'
  BY <1>1, <1>2, <1>3, <1>4 DEF PromiseInv, SameInsert, LeavesItThere
<1>j. SpareInv'
  BY <1>1, <1>2, <1>3, <1>4 DEF SpareInv, SameInsert, Returning, Reading, Wrote, LeavesItThere
<1> QED
  BY <1>t, <1>a, <1>b, <1>c, <1>d, <1>e, <1>f, <1>g, <1>h, <1>i, <1>j DEF IInv

LEMMA TakePendingKeeps ==
    ASSUME IInv, Kinds, TakePending
    PROVE  IInv'
<1> USE DEF IInv
<1> DEFINE reads == sess.kind = "stop" /\ job.restore /\ ~job.remote
<1>1. /\ pc = "take" /\ pc' = "gate" /\ board' = Taken(board)
      /\ UNCHANGED <<wayland, flags, snapshot, stop, tail, seen>>
  BY DEF TakePending, Goto
<1>2. /\ job.prev = Nothing /\ job.method = "paste" /\ Nothing \in Restorable
      /\ sess.kind \in {"live", "stop"} /\ (sess.kind = "stop" => snapshot = Nothing /\ ~Returning)
  BY <1>1 DEF JobInv, Reading, Wrote, StopInv, TypeOK, Sessions, SessInv, SlotInv, Restorable
<1>3. /\ board' \in Boards /\ board'.clip = board.clip /\ board'.last = board.last
      /\ board'.claimed = board.claimed /\ board'.pending = Nothing
  BY <1>1, <1>2 DEF TypeOK, Boards, Taken
<1>4. /\ sess' \in Sessions /\ sess'.live = sess.live /\ sess'.kind = sess.kind
      /\ sess'.dirty = sess.dirty /\ sess'.began = sess.began /\ (sess.blind => sess'.blind)
      /\ used' \in Counts /\ used'.jobs = used.jobs
  <2>1. \/ sess' = sess /\ used' = used
        \/ sess' = [sess EXCEPT !.blind = TRUE] /\ used' = Spent
    BY DEF TakePending, Goto
  <2>2. sess \in Sessions /\ used \in Counts
    BY DEF TypeOK
  <2> QED
    BY <2>1, <2>2, SpentType DEF Sessions
<1>5. WorthRestoring(board) = IF board.clip = board.last THEN Nothing ELSE board.clip
  BY DEF WorthRestoring, IsOwnInjected
<1>6. \E prev \in Restorable :
        /\ job' = [[job EXCEPT !.took = board.pending] EXCEPT !.prev = prev]
        /\ prev = Nothing \/ (reads /\ prev = board.clip)
        /\ prev = Nothing => ~reads \/ sess'.blind \/ board.clip = board.last \/ board.clip = Nothing
  <2> DEFINE took == [job EXCEPT !.took = board.pending]
  <2>1. took = [took EXCEPT !.prev = Nothing]
    BY <1>2 DEF TypeOK, Jobs
  <2>2. CASE reads /\ job' = [took EXCEPT !.prev = WorthRestoring(board)]
    BY <1>2, <1>5, <2>2 DEF ClipInv, Restorable
  <2>3. CASE ~reads /\ job' = took
    <3> QED
      BY <1>2, <2>1, <2>3
  <2>4. CASE reads /\ job' = took /\ sess' = [sess EXCEPT !.blind = TRUE]
    <3>1. sess'.blind
      BY <2>4 DEF TypeOK, Sessions
    <3> QED
      BY <1>2, <2>1, <2>4, <3>1
  <2> QED
    BY <2>2, <2>3, <2>4 DEF TakePending, Goto
<1>7. /\ job' \in Jobs /\ SameInsert /\ job'.epoch = job.epoch /\ job'.remote = job.remote
      /\ job'.took = board.pending
      /\ job'.prev = Nothing \/ (reads /\ job'.prev = board.clip)
      /\ job'.prev = Nothing => ~reads \/ sess'.blind \/ board.clip = board.last \/ board.clip = Nothing
  <2>1. PICK prev \in Restorable :
          /\ job' = [[job EXCEPT !.took = board.pending] EXCEPT !.prev = prev]
          /\ prev = Nothing \/ (reads /\ prev = board.clip)
          /\ prev = Nothing => ~reads \/ sess'.blind \/ board.clip = board.last \/ board.clip = Nothing
    BY <1>6
  <2>2. job \in Jobs /\ board.pending \in Restorable
    BY DEF TypeOK, Boards
  <2>3. job'.prev = prev /\ job' \in Jobs /\ SameInsert
        /\ job'.epoch = job.epoch /\ job'.remote = job.remote /\ job'.took = board.pending
    BY <2>1, <2>2 DEF Jobs, SameInsert
  <2> QED
    BY <2>1, <2>3
<1>8. board.clip = board.last \/ board.clip = Nothing => board.clip \notin UserCopies
  BY DEF TypeOK, Boards, Kinds
<1> HIDE DEF reads
<1>t. TypeOK'
  BY <1>1, <1>2, <1>3, <1>4, <1>7 DEF TypeOK, Pcs
<1>a. StopInv'
  BY <1>1, <1>2, <1>3, <1>4, <1>7 DEF StopInv, SameInsert, Inside
<1>b. JobInv'
  BY <1>1, <1>2, <1>3, <1>4, <1>7 DEF JobInv, SameInsert, Reading, Wrote, reads
<1>c. SessInv'
  BY <1>1, <1>2, <1>3, <1>4, <1>7 DEF SessInv, SameInsert
<1>d. FlagInv'
  BY <1>1, <1>2, <1>3, <1>4, <1>7 DEF FlagInv, Fine
<1>e. SlotInv'
  BY <1>1, <1>2, <1>3, <1>4, <1>7 DEF SlotInv, SameInsert, Reading, Wrote, Returning, reads
<1>f. ClipInv'
  BY <1>1, <1>2, <1>3, <1>4, <1>7 DEF ClipInv, SameInsert, Wrote, Landed
<1>g. CoverInv'
  BY <1>1, <1>2, <1>3, <1>4, <1>7, <1>8
   DEF CoverInv, SameInsert, Reading, SettleInv, Fine, JobOwes, SessOwes, Returning, Landed,
       Wrote, reads
<1>h. SettleInv'
  BY <1>1, <1>2, <1>3, <1>4, <1>7
   DEF SettleInv, SameInsert, Fine, Returning, JobOwes, SessOwes, Landed, LeavesItThere,
       Reading, Wrote
<1>i. PromiseInv'
  BY <1>1, <1>2, <1>3, <1>4, <1>7 DEF PromiseInv, SameInsert, LeavesItThere
<1>j. SpareInv'
  BY <1>1, <1>2, <1>3, <1>4, <1>7
   DEF SpareInv, SameInsert, Returning, Reading, Wrote, LeavesItThere
<1> QED
  BY <1>t, <1>a, <1>b, <1>c, <1>d, <1>e, <1>f, <1>g, <1>h, <1>i, <1>j DEF IInv

LEMMA X11GateKeeps ==
    ASSUME IInv, Kinds, NEW own \in BOOLEAN, X11Gate(own)
    PROVE  IInv'
<1> USE DEF IInv
<1>1. /\ pc = "gate" /\ ~wayland
      /\ UNCHANGED <<wayland, flags, snapshot, stop, sess, tail, used, seen>>
  BY DEF X11Gate
<1>2. /\ job.method = "paste" /\ job.took \in Restorable
      /\ sess.kind \in {"live", "stop"} /\ (sess.kind = "stop" => snapshot = Nothing)
  BY <1>1 DEF JobInv, TypeOK, Jobs, StopInv, Sessions, SessInv
<1>3. Cancelled => ~sess.live /\ tail = "end"
  BY <1>1, LiveUnstopped DEF Inside
<1>4. CASE Cancelled \/ own
  <2>1. /\ board' \in Boards /\ board'.clip = board.clip /\ board'.last = board.last
        /\ board'.claimed = board.claimed
        /\ board'.pending = IF job.took = Nothing THEN board.pending ELSE job.took
    BY <1>2, <1>4, ScheduledGives DEF X11Gate, Requeued
  <2>2. /\ job' \in Jobs /\ SameInsert /\ pc' = "finish"
        /\ job'.sink = IF Cancelled THEN "yes" ELSE "nothing"
        /\ job'.took = job.took /\ job'.prev = job.prev /\ job'.epoch = job.epoch
        /\ job'.remote = job.remote
    BY <1>4, SinkSet DEF X11Gate, Goto
  <2>t. TypeOK'
    BY <1>1, <1>2, <1>3, <2>1, <2>2 DEF TypeOK, Pcs
  <2>a. StopInv'
    BY <1>1, <1>2, <1>3, <2>1, <2>2 DEF StopInv, SameInsert, Inside
  <2>b. JobInv'
    BY <1>1, <1>2, <1>3, <2>1, <2>2 DEF JobInv, SameInsert, Reading, Wrote
  <2>c. SessInv'
    BY <1>1, <1>2, <1>3, <2>1, <2>2 DEF SessInv, SameInsert
  <2>d. FlagInv'
    BY <1>1, <1>2, <1>3, <2>1, <2>2 DEF FlagInv, Fine
  <2>e. SlotInv'
    BY <1>1, <1>2, <1>3, <2>1, <2>2 DEF SlotInv, SameInsert, Reading, Wrote, Returning
  <2>f. ClipInv'
    BY <1>1, <1>2, <1>3, <2>1, <2>2 DEF ClipInv, SameInsert, Wrote, Landed
  <2>g. CoverInv'
    BY <1>1, <1>2, <1>3, <2>1, <2>2 DEF CoverInv, SameInsert, Reading
  <2>h. SettleInv'
    BY <1>1, <1>2, <1>3, <2>1, <2>2
     DEF SettleInv, SameInsert, Fine, Returning, JobOwes, SessOwes, Landed, LeavesItThere,
         Reading, Wrote
  <2>i. PromiseInv'
    BY <1>1, <1>2, <1>3, <2>1, <2>2 DEF PromiseInv, SameInsert, LeavesItThere
  <2>j. SpareInv'
    BY <1>1, <1>2, <1>3, <2>1, <2>2
     DEF SpareInv, SameInsert, Returning, Reading, Wrote, LeavesItThere
  <2> QED
    BY <2>t, <2>a, <2>b, <2>c, <2>d, <2>e, <2>f, <2>g, <2>h, <2>i, <2>j DEF IInv
<1>5. CASE ~(Cancelled \/ own)
  <2>1. board' = board /\ pc' = "write" /\ job' = job
    BY <1>5 DEF X11Gate, Goto
  <2>2. /\ job' \in Jobs /\ SameInsert /\ job'.took = job.took /\ job'.prev = job.prev
        /\ job'.epoch = job.epoch /\ job'.remote = job.remote
    BY <2>1, JobTyped DEF SameInsert
  <2>t. TypeOK'
    BY <1>1, <1>2, <1>3, <2>1, <2>2 DEF TypeOK, Pcs
  <2>a. StopInv'
    BY <1>1, <1>2, <1>3, <2>1, <2>2 DEF StopInv, SameInsert, Inside
  <2>b. JobInv'
    BY <1>1, <1>2, <1>3, <2>1, <2>2 DEF JobInv, SameInsert, Reading, Wrote
  <2>c. SessInv'
    BY <1>1, <1>2, <1>3, <2>1, <2>2 DEF SessInv, SameInsert
  <2>d. FlagInv'
    BY <1>1, <1>2, <1>3, <2>1, <2>2 DEF FlagInv, Fine
  <2>e. SlotInv'
    BY <1>1, <1>2, <1>3, <2>1, <2>2 DEF SlotInv, SameInsert, Reading, Wrote, Returning
  <2>f. ClipInv'
    BY <1>1, <1>2, <1>3, <2>1, <2>2 DEF ClipInv, SameInsert, Wrote, Landed
  <2>g. CoverInv'
    BY <1>1, <1>2, <1>3, <2>1, <2>2 DEF CoverInv, SameInsert, Reading
  <2>h. SettleInv'
    BY <1>1, <1>2, <1>3, <2>1, <2>2
     DEF SettleInv, SameInsert, Fine, Returning, JobOwes, SessOwes, Landed, LeavesItThere,
         Reading, Wrote
  <2>i. PromiseInv'
    BY <1>1, <1>2, <1>3, <2>1, <2>2 DEF PromiseInv, SameInsert, LeavesItThere
  <2>j. SpareInv'
    BY <1>1, <1>2, <1>3, <2>1, <2>2
     DEF SpareInv, SameInsert, Returning, Reading, Wrote, LeavesItThere
  <2> QED
    BY <2>t, <2>a, <2>b, <2>c, <2>d, <2>e, <2>f, <2>g, <2>h, <2>i, <2>j DEF IInv
<1> QED
  BY <1>4, <1>5

LEMMA WaylandGateKeeps ==
    ASSUME IInv, Kinds, NEW own \in BOOLEAN, WaylandGate(own)
    PROVE  IInv'
<1> USE DEF IInv
<1>1. pc = "gate" /\ UNCHANGED <<wayland, snapshot, stop, sess, tail>>
  BY DEF WaylandGate
<1>2. /\ job.method = "paste" /\ job.took \in Restorable /\ job.text \in Phrases
      /\ sess.kind \in {"live", "stop"} /\ (sess.kind = "stop" => snapshot = Nothing)
      /\ job.text \in {Phrase(n) : n \in 1 .. used.jobs} /\ ~flags.recovery
      /\ seen.promised \subseteq Phrases
      /\ ~sess.live => ~sess.dirty
  BY <1>1 DEF JobInv, TypeOK, Jobs, StopInv, Sessions, SessInv, PromiseInv, FlagInv, Seens
<1>3. /\ Cancelled => ~sess.live /\ tail = "end"
      /\ ErrorAborted => ~sess.live /\ tail = "end" /\ sess.kind = "live"
  BY <1>1, LiveUnstopped DEF Inside, ErrorAborted
<1>4. CASE /\ board' = Requeued
           /\ \/ Answer("landed", job) /\ CancelDiscards
              \/ Answer("notLanded", job)
           /\ UNCHANGED <<flags, seen, used>>
  <2>1. /\ board' \in Boards /\ board'.clip = board.clip /\ board'.last = board.last
        /\ board'.claimed = board.claimed
        /\ board'.pending = IF job.took = Nothing THEN board.pending ELSE job.took
    BY <1>2, <1>4, ScheduledGives DEF Requeued
  <2>2. /\ job' \in Jobs /\ SameInsert /\ pc' = "return"
        /\ job'.took = Nothing /\ job'.prev = Nothing
        /\ \/ job'.out = "landed" /\ Cancelled
           \/ job'.out = "notLanded"
    BY <1>4, AnswerGives, JobTyped DEF CancelDiscards
  <2>t. TypeOK'
    BY <1>1, <1>2, <1>3, <1>4, <2>1, <2>2 DEF TypeOK, Pcs
  <2>a. StopInv'
    BY <1>1, <1>2, <1>3, <1>4, <2>1, <2>2 DEF StopInv, SameInsert, Inside
  <2>b. JobInv'
    BY <1>1, <1>2, <1>3, <1>4, <2>1, <2>2 DEF JobInv, SameInsert, Reading, Wrote
  <2>c. SessInv'
    BY <1>1, <1>2, <1>3, <1>4, <2>1, <2>2 DEF SessInv, SameInsert
  <2>d. FlagInv'
    BY <1>1, <1>2, <1>3, <1>4, <2>1, <2>2 DEF FlagInv, Fine
  <2>e. SlotInv'
    BY <1>1, <1>2, <1>3, <1>4, <2>1, <2>2 DEF SlotInv, SameInsert, Reading, Wrote, Returning
  <2>f. ClipInv'
    BY <1>1, <1>2, <1>3, <1>4, <2>1, <2>2 DEF ClipInv, SameInsert, Wrote, Landed
  <2>g. CoverInv'
    BY <1>1, <1>2, <1>3, <1>4, <2>1, <2>2 DEF CoverInv, SameInsert, Reading
  <2>h. SettleInv'
    BY <1>1, <1>2, <1>3, <1>4, <2>1, <2>2
     DEF SettleInv, SameInsert, Fine, Returning, JobOwes, SessOwes, Landed, LeavesItThere,
         Reading, Wrote
  <2>i. PromiseInv'
    BY <1>1, <1>2, <1>3, <1>4, <2>1, <2>2 DEF PromiseInv, SameInsert, LeavesItThere
  <2>j. SpareInv'
    BY <1>1, <1>2, <1>3, <1>4, <2>1, <2>2
     DEF SpareInv, SameInsert, Returning, Reading, Wrote, LeavesItThere
  <2> QED
    BY <2>t, <2>a, <2>b, <2>c, <2>d, <2>e, <2>f, <2>g, <2>h, <2>i, <2>j DEF IInv
<1>5. CASE /\ ErrorAborted /\ board' = Persisted(board, job.text) /\ ~job.withhold
           /\ flags' = [flags EXCEPT !.recovery = TRUE, !.delivered = TRUE]
           /\ seen' = Racing(Promise({job.text}))
           /\ Answer("diverted", job) /\ used' = used
  <2>1. /\ board' \in Boards /\ board'.clip = job.text /\ board'.last = job.text
        /\ board'.claimed = board.claimed /\ board'.pending = Nothing
    BY <1>2, <1>5, PersistedGives
  <2>2. /\ job' \in Jobs /\ SameInsert /\ pc' = "return" /\ job'.out = "diverted"
        /\ job'.took = Nothing /\ job'.prev = Nothing
    BY <1>5, AnswerGives, JobTyped
  <2>3. /\ seen' \in Seens /\ seen'.raced = (seen.raced \/ board.claimed # {})
        /\ seen'.kept = seen.kept \cup {job.text}
        /\ seen'.promised = seen.promised \cup {job.text}
    BY <1>2, <1>5, PromiseRaced
  <2>4. flags' \in Flags /\ flags'.recovery /\ flags'.delivered /\ flags'.remote = flags.remote
    BY <1>5 DEF TypeOK, Flags
  <2>5. used' = used
    BY <1>5
  <2>t. TypeOK'
    BY <1>1, <1>2, <1>3, <2>1, <2>2, <2>3, <2>4, <2>5 DEF TypeOK, Pcs
  <2>a. StopInv'
    BY <1>1, <1>2, <1>3, <2>1, <2>2, <2>3, <2>4, <2>5 DEF StopInv, SameInsert, Inside
  <2>b. JobInv'
    BY <1>1, <1>2, <1>3, <2>1, <2>2, <2>3, <2>4, <2>5, <1>5
     DEF JobInv, SameInsert, Reading, Wrote
  <2>c. SessInv'
    BY <1>1, <1>2, <1>3, <2>1, <2>2, <2>3, <2>4, <2>5 DEF SessInv, SameInsert
  <2>d. FlagInv'
    BY <1>1, <1>2, <1>3, <2>1, <2>2, <2>3, <2>4, <2>5, <1>5 DEF FlagInv, Fine
  <2>e. SlotInv'
    BY <1>1, <1>2, <1>3, <2>1, <2>2, <2>3, <2>4, <2>5
     DEF SlotInv, SameInsert, Reading, Wrote, Returning
  <2>f. ClipInv'
    BY <1>1, <1>2, <1>3, <2>1, <2>2, <2>3, <2>4, <2>5 DEF ClipInv, SameInsert, Wrote, Landed
  <2>g. CoverInv'
    BY <1>1, <1>2, <1>3, <2>1, <2>2, <2>3, <2>4, <2>5 DEF CoverInv, SameInsert, Reading
  <2>h. SettleInv'
    BY <1>1, <1>2, <1>3, <2>1, <2>2, <2>3, <2>4, <2>5
     DEF SettleInv, SameInsert, Fine, Returning, JobOwes, SessOwes, Landed, LeavesItThere,
         Reading, Wrote
  <2>i. PromiseInv'
    BY <1>1, <1>2, <1>3, <2>1, <2>2, <2>3, <2>4, <2>5 DEF PromiseInv, SameInsert, LeavesItThere
  <2>j. SpareInv'
    BY <1>1, <1>2, <1>3, <2>1, <2>2, <2>3, <2>4, <2>5
     DEF SpareInv, SameInsert, Returning, Reading, Wrote, LeavesItThere
  <2> QED
    BY <2>t, <2>a, <2>b, <2>c, <2>d, <2>e, <2>f, <2>g, <2>h, <2>i, <2>j DEF IInv
<1>6. CASE /\ ErrorAborted /\ Answer("notLanded", [job EXCEPT !.faulted = TRUE])
           /\ used' = Spent /\ UNCHANGED <<board, flags, seen>>
  <2>1. used' \in Counts /\ used'.jobs = used.jobs
    BY <1>6, SpentType
  <2> DEFINE k == [job EXCEPT !.faulted = TRUE]
  <2>2. /\ k \in Jobs /\ k.text = job.text /\ k.method = job.method
        /\ k.withhold = job.withhold /\ k.restore = job.restore /\ k.rescue = job.rescue
    BY JobTyped DEF Jobs
  <2> HIDE DEF k
  <2>3. /\ SameInsert /\ pc' = "return" /\ job' \in Jobs /\ job'.out = "notLanded"
        /\ job'.took = Nothing /\ job'.prev = Nothing
    BY <1>6, <2>2, AnswerGives DEF k
  <2>t. TypeOK'
    BY <1>1, <1>2, <1>3, <1>6, <2>1, <2>3 DEF TypeOK, Pcs
  <2>a. StopInv'
    BY <1>1, <1>2, <1>3, <1>6, <2>1, <2>3 DEF StopInv, SameInsert, Inside
  <2>b. JobInv'
    BY <1>1, <1>2, <1>3, <1>6, <2>1, <2>3 DEF JobInv, SameInsert, Reading, Wrote
  <2>c. SessInv'
    BY <1>1, <1>2, <1>3, <1>6, <2>1, <2>3 DEF SessInv, SameInsert
  <2>d. FlagInv'
    BY <1>1, <1>2, <1>3, <1>6, <2>1, <2>3 DEF FlagInv, Fine
  <2>e. SlotInv'
    BY <1>1, <1>2, <1>3, <1>6, <2>1, <2>3 DEF SlotInv, SameInsert, Reading, Wrote, Returning
  <2>f. ClipInv'
    BY <1>1, <1>2, <1>3, <1>6, <2>1, <2>3 DEF ClipInv, SameInsert, Wrote, Landed
  <2>g. CoverInv'
    BY <1>1, <1>2, <1>3, <1>6, <2>1, <2>3 DEF CoverInv, SameInsert, Reading
  <2>h. SettleInv'
    BY <1>1, <1>2, <1>3, <1>6, <2>1, <2>3
     DEF SettleInv, SameInsert, Fine, Returning, JobOwes, SessOwes, Landed, LeavesItThere,
         Reading, Wrote, SlotInv
  <2>i. PromiseInv'
    BY <1>1, <1>2, <1>3, <1>6, <2>1, <2>3 DEF PromiseInv, SameInsert, LeavesItThere
  <2>j. SpareInv'
    BY <1>1, <1>2, <1>3, <1>6, <2>1, <2>3
     DEF SpareInv, SameInsert, Returning, Reading, Wrote, LeavesItThere
  <2> QED
    BY <2>t, <2>a, <2>b, <2>c, <2>d, <2>e, <2>f, <2>g, <2>h, <2>i, <2>j DEF IInv
<1>7. CASE pc' = "write" /\ job' = job /\ UNCHANGED <<board, flags, seen, used>>
  <2>1. /\ job' \in Jobs /\ SameInsert /\ job'.took = job.took /\ job'.prev = job.prev
        /\ job'.epoch = job.epoch /\ job'.remote = job.remote
    BY <1>7, JobTyped DEF SameInsert
  <2>t. TypeOK'
    BY <1>1, <1>2, <1>3, <1>7, <2>1 DEF TypeOK, Pcs
  <2>a. StopInv'
    BY <1>1, <1>2, <1>3, <1>7, <2>1 DEF StopInv, SameInsert, Inside
  <2>b. JobInv'
    BY <1>1, <1>2, <1>3, <1>7, <2>1 DEF JobInv, SameInsert, Reading, Wrote
  <2>c. SessInv'
    BY <1>1, <1>2, <1>3, <1>7, <2>1 DEF SessInv, SameInsert
  <2>d. FlagInv'
    BY <1>1, <1>2, <1>3, <1>7, <2>1 DEF FlagInv, Fine
  <2>e. SlotInv'
    BY <1>1, <1>2, <1>3, <1>7, <2>1 DEF SlotInv, SameInsert, Reading, Wrote, Returning
  <2>f. ClipInv'
    BY <1>1, <1>2, <1>3, <1>7, <2>1 DEF ClipInv, SameInsert, Wrote, Landed
  <2>g. CoverInv'
    BY <1>1, <1>2, <1>3, <1>7, <2>1 DEF CoverInv, SameInsert, Reading
  <2>h. SettleInv'
    BY <1>1, <1>2, <1>3, <1>7, <2>1
     DEF SettleInv, SameInsert, Fine, Returning, JobOwes, SessOwes, Landed, LeavesItThere,
         Reading, Wrote
  <2>i. PromiseInv'
    BY <1>1, <1>2, <1>3, <1>7, <2>1 DEF PromiseInv, SameInsert, LeavesItThere
  <2>j. SpareInv'
    BY <1>1, <1>2, <1>3, <1>7, <2>1
     DEF SpareInv, SameInsert, Returning, Reading, Wrote, LeavesItThere
  <2> QED
    BY <2>t, <2>a, <2>b, <2>c, <2>d, <2>e, <2>f, <2>g, <2>h, <2>i, <2>j DEF IInv
<1> QED
  BY <1>4, <1>5, <1>6, <1>7 DEF WaylandGate, Goto

LEMMA PasteWriteKeeps ==
    ASSUME IInv, Kinds, PasteWrite
    PROVE  IInv'
<1> USE DEF IInv
<1>1. pc = "write" /\ UNCHANGED <<wayland, snapshot, stop, sess, tail>>
  BY DEF PasteWrite
<1>2. /\ job.method = "paste" /\ job.took \in Restorable /\ job.prev \in Restorable
      /\ job.text \in Phrases /\ Nothing \in Restorable
      /\ sess.kind \in {"live", "stop"} /\ (sess.kind = "stop" => snapshot = Nothing)
      /\ job.text \in {Phrase(n) : n \in 1 .. used.jobs} /\ ~flags.recovery
      /\ job.text \notin seen.promised /\ seen.promised \subseteq Phrases
      /\ board.pending = Nothing /\ (snapshot = Nothing => job.took = Nothing)
      /\ job.remote => job.prev = Nothing
  BY <1>1 DEF JobInv, TypeOK, Jobs, StopInv, Sessions, SessInv, PromiseInv, FlagInv, Seens,
              SlotInv, Reading, Restorable
<1>3. CASE /\ board' = Written(board, job.text)
           /\ flags' = [flags EXCEPT !.remote = job.remote, !.delivered = FALSE]
           /\ seen' = Racing(IF job.remote THEN Promise({job.text})
                             ELSE IF LeavesText THEN Keep({job.text}) ELSE seen)
           /\ pc' = "settle"
           /\ job' = [job EXCEPT !.prev = Merged(job.prev, job.took, ~job.remote), !.took = Nothing]
           /\ used' = used
  <2>1. /\ board' \in Boards /\ board'.clip = job.text /\ board'.last = job.text
        /\ board'.claimed = board.claimed /\ board'.pending = Nothing
    BY <1>2, <1>3 DEF TypeOK, Boards, Written
  <2>2. /\ flags' \in Flags /\ flags'.recovery = flags.recovery /\ ~flags'.delivered
        /\ flags'.remote = job.remote
    BY <1>3 DEF TypeOK, Flags, Jobs
  <2>3. /\ seen' \in Seens /\ seen'.raced = (seen.raced \/ board.claimed # {})
        /\ seen'.kept = IF job.remote \/ LeavesText THEN seen.kept \cup {job.text} ELSE seen.kept
        /\ seen'.promised = IF job.remote THEN seen.promised \cup {job.text} ELSE seen.promised
    <3>1. {job.text} \in SUBSET Texts /\ {job.text} \subseteq Phrases /\ seen \in Seens
      BY <1>2 DEF Kinds, TypeOK
    <3>2. Promise({job.text}) \in Seens /\ Keep({job.text}) \in Seens
      BY <3>1, SeenOperators
    <3> DEFINE s == IF job.remote THEN Promise({job.text})
                    ELSE IF LeavesText THEN Keep({job.text}) ELSE seen
    <3>3. /\ s \in Seens /\ s.raced = seen.raced
          /\ s.kept = IF job.remote \/ LeavesText THEN seen.kept \cup {job.text} ELSE seen.kept
          /\ s.promised = IF job.remote THEN seen.promised \cup {job.text} ELSE seen.promised
      BY <3>1, <3>2, SeenOperators
    <3>4. seen' = Racing(s)
      BY <1>3
    <3> HIDE DEF s
    <3> QED
      BY <3>1, <3>3, <3>4, SeenOperators
  <2>4. /\ job' \in Jobs /\ SameInsert /\ job'.epoch = job.epoch /\ job'.remote = job.remote
        /\ job'.took = Nothing
        /\ job'.prev = IF ~job.remote /\ job.prev = Nothing THEN job.took ELSE job.prev
    BY <1>2, <1>3 DEF TypeOK, Jobs, SameInsert, Merged
  <2>5. /\ LeavesText <=> \/ job.remote \/ ~job.restore
                          \/ sess.blind /\ snapshot = Nothing /\ job.prev = Nothing /\ job.took = Nothing
                          \/ board.clip \in seen.kept
    BY <1>2 DEF LeavesText, Merged
  <2>6. pc' = "settle"
    BY <1>3
  <2>7. ASSUME job.remote \/ LeavesText PROVE SettleInv'
    <3>1. Fine'
      BY <2>1, <2>3, <2>7 DEF Fine
    <3> QED
      BY <3>1, <2>6 DEF SettleInv, LeavesItThere, Landed
  <2>8. ASSUME ~job.remote, ~LeavesText PROVE SettleInv'
    <3>1. seen.raced \/ snapshot # Nothing \/ (sess.kind = "stop" /\ job'.prev # Nothing)
      BY <1>1, <1>2, <2>4, <2>5, <2>8 DEF CoverInv, SlotInv, Reading
    <3> QED
      BY <1>1, <1>2, <2>3, <2>4, <2>5, <2>6, <2>8, <3>1
         DEF SettleInv, JobOwes, LeavesItThere, Landed, Wrote, SameInsert
  <2>t. TypeOK'
    BY <1>1, <1>2, <1>3, <2>1, <2>2, <2>3, <2>4, <2>5 DEF TypeOK, Pcs
  <2>a. StopInv'
    BY <1>1, <1>2, <1>3, <2>1, <2>2, <2>3, <2>4, <2>5 DEF StopInv, SameInsert, Inside
  <2>b. JobInv'
    BY <1>1, <1>2, <1>3, <2>1, <2>2, <2>3, <2>4, <2>5 DEF JobInv, SameInsert, Reading, Wrote
  <2>c. SessInv'
    BY <1>1, <1>2, <1>3, <2>1, <2>2, <2>3, <2>4, <2>5 DEF SessInv, SameInsert
  <2>d. FlagInv'
    BY <1>1, <1>2, <1>3, <2>1, <2>2, <2>3, <2>4, <2>5 DEF FlagInv, Fine
  <2>e. SlotInv'
    BY <1>1, <1>2, <1>3, <2>1, <2>2, <2>3, <2>4, <2>5
     DEF SlotInv, SameInsert, Reading, Wrote, Returning
  <2>f. ClipInv'
    BY <1>1, <1>2, <1>3, <2>1, <2>2, <2>3, <2>4, <2>5 DEF ClipInv, SameInsert, Wrote, Landed
  <2>g. CoverInv'
    BY <1>1, <1>2, <1>3, <2>1, <2>2, <2>3, <2>4, <2>5 DEF CoverInv, SameInsert, Reading
  <2>h. SettleInv'
    BY <2>7, <2>8
  <2>i. PromiseInv'
    BY <1>1, <1>2, <1>3, <2>1, <2>2, <2>3, <2>4, <2>5 DEF PromiseInv, SameInsert, LeavesItThere
  <2>j. SpareInv'
    BY <1>1, <1>2, <1>3, <2>1, <2>2, <2>3, <2>4, <2>5
     DEF SpareInv, SameInsert, Returning, Reading, Wrote, LeavesItThere
  <2> QED
    BY <2>t, <2>a, <2>b, <2>c, <2>d, <2>e, <2>f, <2>g, <2>h, <2>i, <2>j DEF IInv
<1>4. CASE /\ board' = Requeued /\ used' = Spent /\ seen' = seen
           /\ IF wayland THEN Answer("err", [job EXCEPT !.faulted = TRUE])
              ELSE Goto("finish", [job EXCEPT !.sink = "err", !.faulted = TRUE])
           /\ flags' = IF ~wayland /\ job.remote
                         THEN [flags EXCEPT !.remote = TRUE, !.delivered = FALSE] ELSE flags
  <2>1. /\ board' \in Boards /\ board'.clip = board.clip /\ board'.last = board.last
        /\ board'.claimed = board.claimed
        /\ board'.pending = IF job.took = Nothing THEN board.pending ELSE job.took
    BY <1>2, <1>4, ScheduledGives DEF Requeued
  <2>2. used' \in Counts /\ used'.jobs = used.jobs
    BY <1>4, SpentType
  <2>3. /\ flags' \in Flags /\ flags'.recovery = flags.recovery
        /\ flags'.remote \/ (~flags.remote /\ flags'.delivered = flags.delivered)
        /\ flags.remote => flags'.remote
        /\ flags'.delivered => flags.delivered
    BY <1>4 DEF TypeOK, Flags
  <2>4. /\ job' \in Jobs /\ SameInsert
        /\ \/ pc' = "return" /\ job'.out = "err" /\ job'.took = Nothing /\ job'.prev = Nothing
           \/ /\ pc' = "finish" /\ job'.sink = "err" /\ job'.epoch = job.epoch
              /\ job'.took = job.took /\ job'.prev = job.prev
    <3>1. CASE wayland
      <4> DEFINE k == [job EXCEPT !.faulted = TRUE]
      <4>1. /\ k \in Jobs /\ k.text = job.text /\ k.method = job.method
            /\ k.withhold = job.withhold /\ k.restore = job.restore /\ k.rescue = job.rescue
        BY DEF TypeOK, Jobs
      <4> HIDE DEF k
      <4> QED
        BY <1>4, <3>1, <4>1, AnswerGives DEF k
    <3>2. CASE ~wayland
      BY <1>4, <3>2 DEF Goto, TypeOK, Jobs, SameInsert
    <3> QED
      BY <3>1, <3>2
  <2>t. TypeOK'
    BY <1>1, <1>2, <2>1, <2>2, <2>3, <2>4, <1>4 DEF TypeOK, Pcs
  <2>a. StopInv'
    BY <1>1, <1>2, <2>1, <2>2, <2>3, <2>4 DEF StopInv, SameInsert, Inside
  <2>b. JobInv'
    BY <1>1, <1>2, <2>1, <2>2, <2>3, <2>4 DEF JobInv, SameInsert, Reading, Wrote
  <2>c. SessInv'
    BY <1>1, <1>2, <2>1, <2>2, <2>3, <2>4 DEF SessInv, SameInsert
  <2>d. FlagInv'
    BY <1>1, <1>2, <2>1, <2>2, <2>3, <2>4, <1>4 DEF FlagInv, Fine
  <2>e. SlotInv'
    BY <1>1, <1>2, <2>1, <2>2, <2>3, <2>4 DEF SlotInv, SameInsert, Reading, Wrote, Returning
  <2>f. ClipInv'
    BY <1>1, <1>2, <2>1, <2>2, <2>3, <2>4, <1>4 DEF ClipInv, SameInsert, Wrote, Landed
  <2>g. CoverInv'
    BY <1>1, <1>2, <2>1, <2>2, <2>3, <2>4, <1>4 DEF CoverInv, SameInsert, Reading
  <2>h. SettleInv'
    BY <1>1, <1>2, <2>1, <2>2, <2>3, <2>4, <1>4
     DEF SettleInv, SameInsert, Fine, Returning, JobOwes, SessOwes, Landed, LeavesItThere,
         Reading, Wrote
  <2>i. PromiseInv'
    BY <1>1, <1>2, <2>1, <2>2, <2>3, <2>4, <1>4 DEF PromiseInv, SameInsert, LeavesItThere
  <2>j. SpareInv'
    BY <1>1, <1>2, <2>1, <2>2, <2>3, <2>4, <1>4
     DEF SpareInv, SameInsert, Returning, Reading, Wrote, LeavesItThere
  <2> QED
    BY <2>t, <2>a, <2>b, <2>c, <2>d, <2>e, <2>f, <2>g, <2>h, <2>i, <2>j DEF IInv
<1> QED
  BY <1>3, <1>4 DEF PasteWrite, Goto

\* A stop found with the text written: Settle, and ProbeChord off the portal path.
LEMMA StoppedAfterWriteKeeps ==
    ASSUME IInv, Kinds, Cancelled, StoppedAfterWrite, pc = "settle" \/ (pc = "probe" /\ ~wayland)
    PROVE  IInv'
<1> USE DEF IInv
<1>1. UNCHANGED <<wayland, flags, snapshot, stop, sess, tail, used, seen>>
  BY DEF StoppedAfterWrite
<1>2. /\ job.method = "paste" /\ job.prev \in Restorable
      /\ sess.kind \in {"live", "stop"} /\ (sess.kind = "stop" => snapshot = Nothing)
      /\ ~sess.live /\ tail = "end"
  BY LiveUnstopped DEF Inside, Wrote, JobInv, TypeOK, Jobs, StopInv, Sessions, SessInv
<1>3. sess.kind = "stop" => CancelDiscards
  BY LiveUnstopped DEF CancelDiscards, ErrorAborted, Inside
<1>4. /\ board' \in Boards /\ board'.clip = board.clip /\ board'.last = board.last
      /\ board'.claimed = board.claimed
      /\ board'.pending = IF ~wayland /\ CancelDiscards /\ job.prev # Nothing
                            THEN job.prev ELSE board.pending
  BY <1>2, ScheduledGives DEF StoppedAfterWrite, TypeOK
<1>5. /\ job' \in Jobs /\ SameInsert /\ job'.sink = "yes"
      /\ job'.took = job.took /\ job'.prev = job.prev /\ job'.epoch = job.epoch
      /\ job'.remote = job.remote /\ pc' = IF wayland THEN "after" ELSE "finish"
  BY SinkSet DEF StoppedAfterWrite, Goto
<1>t. TypeOK'
  BY <1>1, <1>2, <1>3, <1>4, <1>5 DEF TypeOK, Pcs
<1>a. StopInv'
  BY <1>1, <1>2, <1>3, <1>4, <1>5 DEF StopInv, SameInsert, Inside
<1>b. JobInv'
  BY <1>1, <1>2, <1>3, <1>4, <1>5 DEF JobInv, SameInsert, Reading, Wrote
<1>c. SessInv'
  BY <1>1, <1>2, <1>3, <1>4, <1>5 DEF SessInv, SameInsert
<1>d. FlagInv'
  BY <1>1, <1>2, <1>3, <1>4, <1>5 DEF FlagInv, Fine
<1>e. SlotInv'
  BY <1>1, <1>2, <1>3, <1>4, <1>5 DEF SlotInv, SameInsert, Reading, Wrote, Returning
<1>f. ClipInv'
  BY <1>1, <1>2, <1>3, <1>4, <1>5 DEF ClipInv, SameInsert, Wrote, Landed
<1>g. CoverInv'
  BY <1>1, <1>2, <1>3, <1>4, <1>5 DEF CoverInv, SameInsert, Reading
<1>h. SettleInv'
  BY <1>1, <1>2, <1>3, <1>4, <1>5
   DEF SettleInv, SameInsert, Fine, Returning, JobOwes, SessOwes, Landed, LeavesItThere,
       Reading, Wrote
<1>i. PromiseInv'
  BY <1>1, <1>2, <1>3, <1>4, <1>5 DEF PromiseInv, SameInsert, LeavesItThere
<1>j. SpareInv'
  BY <1>1, <1>2, <1>3, <1>4, <1>5
   DEF SpareInv, SameInsert, Returning, Reading, Wrote, LeavesItThere
<1> QED
  BY <1>t, <1>a, <1>b, <1>c, <1>d, <1>e, <1>f, <1>g, <1>h, <1>i, <1>j DEF IInv

LEMMA SettleKeeps ==
    ASSUME IInv, Kinds, Settle
    PROVE  IInv'
<1> USE DEF IInv
<1>1. CASE Cancelled
  BY <1>1, StoppedAfterWriteKeeps DEF Settle
<1>2. CASE ~Cancelled
  <2>1. /\ pc = "settle" /\ pc' = "probe" /\ job' = job
        /\ UNCHANGED <<wayland, board, flags, snapshot, stop, sess, tail, used, seen>>
    BY <1>2 DEF Settle, Goto
  <2>2. /\ job' \in Jobs /\ SameInsert /\ job'.took = job.took /\ job'.prev = job.prev
        /\ job'.epoch = job.epoch /\ job'.remote = job.remote
        /\ job'.overtaken = job.overtaken
    BY <2>1, JobTyped DEF SameInsert
  <2>t. TypeOK'
    BY <2>1, <2>2 DEF TypeOK, Pcs
  <2>a. StopInv'
    BY <2>1, <2>2 DEF StopInv, SameInsert, Inside
  <2>b. JobInv'
    BY <2>1, <2>2 DEF JobInv, SameInsert, Reading, Wrote
  <2>c. SessInv'
    BY <2>1, <2>2 DEF SessInv, SameInsert
  <2>d. FlagInv'
    BY <2>1, <2>2 DEF FlagInv, Fine
  <2>e. SlotInv'
    BY <2>1, <2>2 DEF SlotInv, SameInsert, Reading, Wrote, Returning
  <2>f. ClipInv'
    BY <2>1, <2>2 DEF ClipInv, SameInsert, Wrote, Landed
  <2>g. CoverInv'
    BY <2>1, <2>2 DEF CoverInv, SameInsert, Reading
  <2>h. SettleInv'
    BY <2>1, <2>2
     DEF SettleInv, SameInsert, Fine, Returning, JobOwes, SessOwes, Landed, LeavesItThere,
         Reading, Wrote
  <2>i. PromiseInv'
    BY <2>1, <2>2 DEF PromiseInv, SameInsert, LeavesItThere
  <2>j. SpareInv'
    BY <2>1, <2>2 DEF SpareInv, SameInsert, Returning, Reading, Wrote, LeavesItThere
  <2> QED
    BY <2>t, <2>a, <2>b, <2>c, <2>d, <2>e, <2>f, <2>g, <2>h, <2>i, <2>j DEF IInv
<1> QED
  BY <1>1, <1>2

LEMMA ProbeChordKeeps ==
    ASSUME IInv, Kinds, NEW own \in BOOLEAN, ProbeChord(own)
    PROVE  IInv'
<1> USE DEF IInv
<1>1. CASE ~wayland /\ Cancelled
  BY <1>1, StoppedAfterWriteKeeps DEF ProbeChord
<1>2. CASE ~(~wayland /\ Cancelled)
  <2>1. pc = "probe" /\ UNCHANGED <<wayland, flags, snapshot, stop, sess, tail, used>>
    BY <1>2 DEF ProbeChord
  <2>2. /\ job.method = "paste" /\ job.prev \in Restorable /\ job.text \in Phrases
        /\ sess.kind \in {"live", "stop"} /\ (sess.kind = "stop" => snapshot = Nothing)
        /\ job.withhold => sess.kind = "live"
    BY <2>1 DEF Wrote, JobInv, TypeOK, Jobs, StopInv, Sessions, SessInv
  <2>3. /\ board' \in Boards /\ board'.clip = board.clip /\ board'.last = board.last
        /\ board'.claimed = board.claimed
        /\ board'.pending = IF own /\ ~wayland /\ job.withhold /\ job.prev # Nothing
                              THEN job.prev ELSE board.pending
    BY <1>2, <2>2, ScheduledGives DEF ProbeChord, TypeOK
  <2>4. /\ seen' \in Seens /\ seen'.raced = seen.raced /\ seen'.promised = seen.promised
        /\ seen'.kept = IF own /\ ~job.withhold /\ snapshot = Nothing
                          THEN seen.kept \cup {job.text} ELSE seen.kept
    <3>1. {job.text} \in SUBSET Texts /\ seen \in Seens
      BY <2>2 DEF Kinds, TypeOK
    <3> QED
      BY <1>2, <3>1, SeenOperators DEF ProbeChord
  <2>5. /\ job' \in Jobs /\ SameInsert
        /\ job'.took = job.took /\ job'.prev = job.prev /\ job'.epoch = job.epoch
        /\ job'.remote = job.remote /\ job'.overtaken = job.overtaken
        /\ pc' = IF ~own THEN "chord" ELSE IF wayland THEN "after" ELSE "finish"
        /\ own => job'.sink = IF wayland THEN "nothing"
                              ELSE IF job.withhold THEN "yes" ELSE "onClipboard"
    <3>1. CASE ~own
      BY <1>2, <3>1, JobTyped DEF ProbeChord, Goto, SameInsert
    <3>2. CASE own
      BY <1>2, <3>2, SinkSet DEF ProbeChord, Goto
    <3> QED
      BY <3>1, <3>2
  <2>t. TypeOK'
    BY <2>1, <2>2, <2>3, <2>4, <2>5 DEF TypeOK, Pcs
  <2>a. StopInv'
    BY <2>1, <2>2, <2>3, <2>4, <2>5 DEF StopInv, SameInsert, Inside
  <2>b. JobInv'
    BY <2>1, <2>2, <2>3, <2>4, <2>5 DEF JobInv, SameInsert, Reading, Wrote
  <2>c. SessInv'
    BY <2>1, <2>2, <2>3, <2>4, <2>5 DEF SessInv, SameInsert
  <2>d. FlagInv'
    BY <2>1, <2>2, <2>3, <2>4, <2>5 DEF FlagInv, Fine
  <2>e. SlotInv'
    BY <2>1, <2>2, <2>3, <2>4, <2>5 DEF SlotInv, SameInsert, Reading, Wrote, Returning
  <2>f. ClipInv'
    BY <2>1, <2>2, <2>3, <2>4, <2>5 DEF ClipInv, SameInsert, Wrote, Landed
  <2>g. CoverInv'
    BY <2>1, <2>2, <2>3, <2>4, <2>5 DEF CoverInv, SameInsert, Reading
  <2>h. SettleInv'
    BY <2>1, <2>2, <2>3, <2>4, <2>5
     DEF SettleInv, SameInsert, Fine, Returning, JobOwes, SessOwes, Landed, LeavesItThere,
         Reading, Wrote, ClipInv
  <2>i. PromiseInv'
    BY <2>1, <2>2, <2>3, <2>4, <2>5 DEF PromiseInv, SameInsert, LeavesItThere
  <2>j. SpareInv'
    BY <2>1, <2>2, <2>3, <2>4, <2>5
     DEF SpareInv, SameInsert, Returning, Reading, Wrote, LeavesItThere
  <2> QED
    BY <2>t, <2>a, <2>b, <2>c, <2>d, <2>e, <2>f, <2>g, <2>h, <2>i, <2>j DEF IInv
<1> QED
  BY <1>1, <1>2

LEMMA PressChordKeeps ==
    ASSUME IInv, Kinds, NEW own \in BOOLEAN, PressChord(own)
    PROVE  IInv'
<1> USE DEF IInv
<1>1. pc = "chord" /\ UNCHANGED <<wayland, flags, snapshot, stop, sess, tail>>
  BY DEF PressChord
<1>2. /\ job.method = "paste" /\ job.prev \in Restorable /\ job.text \in Phrases
      /\ sess.kind \in {"live", "stop"} /\ (sess.kind = "stop" => snapshot = Nothing)
      /\ job.withhold => sess.kind = "live"
  BY <1>1 DEF Wrote, JobInv, TypeOK, Jobs, StopInv, Sessions, SessInv
<1>3. Cancelled => ~sess.live /\ tail = "end"
  BY <1>1, LiveUnstopped DEF Inside
<1>4. PICK sink \in {"yes", "nothing", "err"} :
        /\ \/ job' = [job EXCEPT !.sink = sink]
           \/ job' = [job EXCEPT !.sink = sink, !.pressed = TRUE]
        /\ pc' = IF wayland THEN "after" ELSE "finish"
        /\ sink = "nothing" => wayland
        /\ board' = IF ~wayland /\ (sink = "yes" \/ job.withhold)
                      THEN Scheduled(board, job.prev) ELSE board
        /\ seen' = IF sink = "err" THEN Keep({job.text}) ELSE seen
        /\ used' = IF sink = "err" THEN Spent ELSE used
  BY DEF PressChord, Goto
<1>5. /\ job' \in Jobs /\ SameInsert /\ job'.sink = sink
      /\ job'.took = job.took /\ job'.prev = job.prev /\ job'.epoch = job.epoch
      /\ job'.remote = job.remote
  BY <1>4, SinkSet
<1>6. /\ board' \in Boards /\ board'.clip = board.clip /\ board'.last = board.last
      /\ board'.claimed = board.claimed
      /\ board'.pending = IF ~wayland /\ (sink = "yes" \/ job.withhold) /\ job.prev # Nothing
                            THEN job.prev ELSE board.pending
  BY <1>2, <1>4, ScheduledGives DEF TypeOK
<1>7. /\ seen' \in Seens /\ seen'.raced = seen.raced /\ seen'.promised = seen.promised
      /\ seen'.kept = IF sink = "err" THEN seen.kept \cup {job.text} ELSE seen.kept
  <2>1. {job.text} \in SUBSET Texts /\ seen \in Seens
    BY <1>2 DEF Kinds, TypeOK
  <2> QED
    BY <1>4, <2>1, SeenOperators
<1>8. used' \in Counts /\ used'.jobs = used.jobs
  BY <1>4, SpentType DEF TypeOK
<1>9. pc' = (IF wayland THEN "after" ELSE "finish") /\ (sink = "nothing" => wayland)
  BY <1>4
<1>t. TypeOK'
  BY <1>1, <1>2, <1>5, <1>6, <1>7, <1>8, <1>9 DEF TypeOK, Pcs
<1>a. StopInv'
  BY <1>1, <1>2, <1>5, <1>6, <1>7, <1>8, <1>9 DEF StopInv, SameInsert, Inside
<1>b. JobInv'
  BY <1>1, <1>2, <1>5, <1>6, <1>7, <1>8, <1>9 DEF JobInv, SameInsert, Reading, Wrote
<1>c. SessInv'
  BY <1>1, <1>2, <1>5, <1>6, <1>7, <1>8, <1>9 DEF SessInv, SameInsert
<1>d. FlagInv'
  BY <1>1, <1>2, <1>5, <1>6, <1>7, <1>8, <1>9 DEF FlagInv, Fine
<1>e. SlotInv'
  BY <1>1, <1>2, <1>5, <1>6, <1>7, <1>8, <1>9 DEF SlotInv, SameInsert, Reading, Wrote, Returning
<1>f. ClipInv'
  BY <1>1, <1>2, <1>5, <1>6, <1>7, <1>8, <1>9 DEF ClipInv, SameInsert, Wrote, Landed
<1>g. CoverInv'
  BY <1>1, <1>2, <1>5, <1>6, <1>7, <1>8, <1>9 DEF CoverInv, SameInsert, Reading
<1>h. SettleInv'
  BY <1>1, <1>2, <1>5, <1>6, <1>7, <1>8, <1>9, <1>3
   DEF SettleInv, SameInsert, Fine, Returning, JobOwes, SessOwes, Landed, LeavesItThere,
       Reading, Wrote, ClipInv
<1>i. PromiseInv'
  BY <1>1, <1>2, <1>5, <1>6, <1>7, <1>8, <1>9 DEF PromiseInv, SameInsert, LeavesItThere
<1>j. SpareInv'
  BY <1>1, <1>2, <1>5, <1>6, <1>7, <1>8, <1>9
   DEF SpareInv, SameInsert, Returning, Reading, Wrote, LeavesItThere
<1> QED
  BY <1>t, <1>a, <1>b, <1>c, <1>d, <1>e, <1>f, <1>g, <1>h, <1>i, <1>j DEF IInv

LEMMA AfterPortalKeeps ==
    ASSUME IInv, Kinds, AfterPortal
    PROVE  IInv'
<1> USE DEF IInv
<1>1. pc = "after" /\ UNCHANGED <<wayland, snapshot, stop, sess, tail, used>>
  BY DEF AfterPortal
<1>2. /\ job.method = "paste" /\ job.prev \in Restorable /\ job.text \in Phrases
      /\ sess.kind \in {"live", "stop"} /\ (sess.kind = "stop" => snapshot = Nothing)
      /\ job.withhold => sess.kind = "live"
      /\ job.sink \in {"yes", "nothing", "err"}
      /\ job.text \in {Phrase(n) : n \in 1 .. used.jobs} /\ ~flags.recovery
      /\ seen.promised \subseteq Phrases
  BY <1>1 DEF Wrote, JobInv, TypeOK, Jobs, StopInv, Sessions, SessInv, PromiseInv, FlagInv, Seens
<1>3. /\ Cancelled => ~sess.live /\ tail = "end"
      /\ sess.kind = "stop" => ~ErrorAborted
      /\ ErrorAborted => Cancelled
  BY <1>1, LiveUnstopped DEF Inside, ErrorAborted
<1>4. CASE job.sink = "nothing" /\ ~Cancelled /\ job.withhold
  <2>1. UNCHANGED <<flags, seen>>
    BY <1>4 DEF AfterPortal
  <2>2. /\ board' \in Boards /\ board'.clip = board.clip /\ board'.last = board.last
        /\ board'.claimed = board.claimed
        /\ board'.pending = IF job.prev # Nothing THEN job.prev ELSE board.pending
    BY <1>2, <1>4, ScheduledGives DEF AfterPortal
  <2>3. /\ job' \in Jobs /\ SameInsert /\ pc' = "return" /\ job'.out = "landed"
        /\ job'.took = Nothing /\ job'.prev = Nothing
    BY <1>4, AnswerGives, JobTyped DEF AfterPortal
  <2>t. TypeOK'
    BY <1>1, <1>2, <1>4, <2>1, <2>2, <2>3 DEF TypeOK, Pcs
  <2>a. StopInv'
    BY <1>1, <1>2, <1>4, <2>1, <2>2, <2>3 DEF StopInv, SameInsert, Inside
  <2>b. JobInv'
    BY <1>1, <1>2, <1>4, <2>1, <2>2, <2>3 DEF JobInv, SameInsert, Reading, Wrote
  <2>c. SessInv'
    BY <1>1, <1>2, <1>4, <2>1, <2>2, <2>3 DEF SessInv, SameInsert
  <2>d. FlagInv'
    BY <1>1, <1>2, <1>4, <2>1, <2>2, <2>3 DEF FlagInv, Fine
  <2>e. SlotInv'
    BY <1>1, <1>2, <1>4, <2>1, <2>2, <2>3 DEF SlotInv, SameInsert, Reading, Wrote, Returning
  <2>f. ClipInv'
    BY <1>1, <1>2, <1>4, <2>1, <2>2, <2>3 DEF ClipInv, SameInsert, Wrote, Landed
  <2>g. CoverInv'
    BY <1>1, <1>2, <1>4, <2>1, <2>2, <2>3 DEF CoverInv, SameInsert, Reading
  <2>h. SettleInv'
    BY <1>1, <1>2, <1>4, <2>1, <2>2, <2>3
     DEF SettleInv, SameInsert, Fine, Returning, JobOwes, SessOwes, Landed, LeavesItThere,
         Reading, Wrote
  <2>i. PromiseInv'
    BY <1>1, <1>2, <1>4, <2>1, <2>2, <2>3 DEF PromiseInv, SameInsert, LeavesItThere
  <2>j. SpareInv'
    BY <1>1, <1>2, <1>4, <2>1, <2>2, <2>3
     DEF SpareInv, SameInsert, Returning, Reading, Wrote, LeavesItThere
  <2> QED
    BY <2>t, <2>a, <2>b, <2>c, <2>d, <2>e, <2>f, <2>g, <2>h, <2>i, <2>j DEF IInv
<1>5. CASE job.sink = "nothing" /\ ~Cancelled /\ ~job.withhold
  <2>1. /\ flags' \in Flags /\ flags'.delivered /\ flags'.recovery = flags.recovery
        /\ flags'.remote = flags.remote /\ board' = board
    BY <1>5 DEF AfterPortal, TypeOK, Flags
  <2>2. /\ seen' \in Seens /\ seen'.raced = seen.raced
        /\ seen'.kept = seen.kept \cup {job.text}
        /\ seen'.promised = seen.promised \cup {job.text}
    <3>1. {job.text} \in SUBSET Texts /\ {job.text} \subseteq Phrases /\ seen \in Seens
      BY <1>2 DEF Kinds, TypeOK
    <3> QED
      BY <1>5, <3>1, SeenOperators DEF AfterPortal
  <2>3. /\ job' \in Jobs /\ SameInsert /\ pc' = "return" /\ job'.out = "diverted"
        /\ job'.took = Nothing /\ job'.prev = Nothing
    BY <1>5, AnswerGives, JobTyped DEF AfterPortal
  <2>t. TypeOK'
    BY <1>1, <1>2, <1>5, <2>1, <2>2, <2>3 DEF TypeOK, Pcs
  <2>a. StopInv'
    BY <1>1, <1>2, <1>5, <2>1, <2>2, <2>3 DEF StopInv, SameInsert, Inside
  <2>b. JobInv'
    BY <1>1, <1>2, <1>5, <2>1, <2>2, <2>3 DEF JobInv, SameInsert, Reading, Wrote
  <2>c. SessInv'
    BY <1>1, <1>2, <1>5, <2>1, <2>2, <2>3 DEF SessInv, SameInsert
  <2>d. FlagInv'
    BY <1>1, <1>2, <1>5, <2>1, <2>2, <2>3 DEF FlagInv, Fine, ClipInv, Wrote
  <2>e. SlotInv'
    BY <1>1, <1>2, <1>5, <2>1, <2>2, <2>3 DEF SlotInv, SameInsert, Reading, Wrote, Returning
  <2>f. ClipInv'
    BY <1>1, <1>2, <1>5, <2>1, <2>2, <2>3 DEF ClipInv, SameInsert, Wrote, Landed
  <2>g. CoverInv'
    BY <1>1, <1>2, <1>5, <2>1, <2>2, <2>3 DEF CoverInv, SameInsert, Reading
  <2>h. SettleInv'
    BY <1>1, <1>2, <1>5, <2>1, <2>2, <2>3
     DEF SettleInv, SameInsert, Fine, Returning, JobOwes, SessOwes, Landed, LeavesItThere,
         Reading, Wrote, ClipInv
  <2>i. PromiseInv'
    BY <1>1, <1>2, <1>5, <2>1, <2>2, <2>3 DEF PromiseInv, SameInsert, LeavesItThere
  <2>j. SpareInv'
    BY <1>1, <1>2, <1>5, <2>1, <2>2, <2>3
     DEF SpareInv, SameInsert, Returning, Reading, Wrote, LeavesItThere, ClipInv, SlotInv, Kinds
  <2> QED
    BY <2>t, <2>a, <2>b, <2>c, <2>d, <2>e, <2>f, <2>g, <2>h, <2>i, <2>j DEF IInv
<1>6. CASE ~(job.sink = "nothing" /\ ~Cancelled)
  <2>1. UNCHANGED <<flags, seen>> /\ pc' = "finish" /\ job' = job
    BY <1>6 DEF AfterPortal, Goto
  <2>2. /\ board' \in Boards /\ board'.clip = board.clip /\ board'.last = board.last
        /\ board'.claimed = board.claimed
        /\ board'.pending = IF (job.withhold \/ (job.sink # "err" /\ ~ErrorAborted)) /\ job.prev # Nothing
                              THEN job.prev ELSE board.pending
    BY <1>2, <1>6, ScheduledGives DEF AfterPortal, TypeOK
  <2>3. /\ job' \in Jobs /\ SameInsert /\ job'.sink = job.sink
        /\ job'.took = job.took /\ job'.prev = job.prev /\ job'.epoch = job.epoch
        /\ job'.remote = job.remote
    BY <2>1, JobTyped DEF SameInsert
  <2>t. TypeOK'
    BY <1>1, <1>2, <1>3, <1>6, <2>1, <2>2, <2>3 DEF TypeOK, Pcs
  <2>a. StopInv'
    BY <1>1, <1>2, <1>3, <1>6, <2>1, <2>2, <2>3 DEF StopInv, SameInsert, Inside
  <2>b. JobInv'
    BY <1>1, <1>2, <1>3, <1>6, <2>1, <2>2, <2>3 DEF JobInv, SameInsert, Reading, Wrote
  <2>c. SessInv'
    BY <1>1, <1>2, <1>3, <1>6, <2>1, <2>2, <2>3 DEF SessInv, SameInsert
  <2>d. FlagInv'
    BY <1>1, <1>2, <1>3, <1>6, <2>1, <2>2, <2>3 DEF FlagInv, Fine
  <2>e. SlotInv'
    BY <1>1, <1>2, <1>3, <1>6, <2>1, <2>2, <2>3
     DEF SlotInv, SameInsert, Reading, Wrote, Returning
  <2>f. ClipInv'
    BY <1>1, <1>2, <1>3, <1>6, <2>1, <2>2, <2>3 DEF ClipInv, SameInsert, Wrote, Landed
  <2>g. CoverInv'
    BY <1>1, <1>2, <1>3, <1>6, <2>1, <2>2, <2>3 DEF CoverInv, SameInsert, Reading
  <2>h. SettleInv'
    BY <1>1, <1>2, <1>3, <1>6, <2>1, <2>2, <2>3
     DEF SettleInv, SameInsert, Fine, Returning, JobOwes, SessOwes, Landed, LeavesItThere,
         Reading, Wrote
  <2>i. PromiseInv'
    BY <1>1, <1>2, <1>3, <1>6, <2>1, <2>2, <2>3 DEF PromiseInv, SameInsert, LeavesItThere
  <2>j. SpareInv'
    BY <1>1, <1>2, <1>3, <1>6, <2>1, <2>2, <2>3
     DEF SpareInv, SameInsert, Returning, Reading, Wrote, LeavesItThere
  <2> QED
    BY <2>t, <2>a, <2>b, <2>c, <2>d, <2>e, <2>f, <2>g, <2>h, <2>i, <2>j DEF IInv
<1> QED
  BY <1>4, <1>5, <1>6

LEMMA FinishInsertKeeps ==
    ASSUME IInv, Kinds, FinishInsert
    PROVE  IInv'
<1> USE DEF IInv
<1>1. pc = "finish" /\ UNCHANGED <<wayland, snapshot, stop, sess, tail>>
  BY DEF FinishInsert
<1>2. /\ job.sink \in {"yes", "nothing", "onClipboard", "err"} /\ job.text \in Phrases
      /\ job.method \in {"paste", "direct"} /\ (job.sink = "onClipboard" => ~job.withhold)
      /\ sess.kind \in {"live", "stop"} /\ ~flags.recovery /\ seen.promised \subseteq Phrases
      /\ job.text \in {Phrase(n) : n \in 1 .. used.jobs}
      /\ ~sess.live => ~sess.dirty
  BY <1>1 DEF TypeOK, Jobs, Methods, JobInv, StopInv, Sessions, FlagInv, Seens, PromiseInv, SessInv
<1>3. PICK recovered \in BOOLEAN :
        LET wanted == ErrorAborted /\ ~job.withhold
            out == Settled(job.sink, recovered)
            told == out = "diverted" /\ ~UserCancelled
        IN /\ recovered => wanted
           /\ board' = IF recovered THEN Persisted(board, job.text) ELSE board
           /\ flags' = [flags EXCEPT !.recovery = @ \/ recovered,
                                     !.delivered = IF out = "diverted" THEN Delivered ELSE @]
           /\ seen' = IF recovered THEN Racing(Promise({job.text}))
                      ELSE IF told THEN Promise({job.text}) ELSE seen
           /\ used' = IF wanted /\ ~recovered THEN Spent ELSE used
           /\ Answer(out, [job EXCEPT !.faulted = @ \/ (wanted /\ ~recovered)])
  BY DEF FinishInsert
<1> DEFINE out == Settled(job.sink, recovered)
           told == recovered \/ (out = "diverted" /\ ~UserCancelled)
<1>4. /\ recovered => ErrorAborted /\ ~job.withhold
      /\ ErrorAborted => ~sess.live /\ tail = "end" /\ sess.kind = "live" /\ ~UserCancelled
      /\ UserCancelled => ~sess.live /\ tail = "end"
  BY <1>1, <1>3, LiveUnstopped DEF Inside, ErrorAborted, UserCancelled
<1>5. /\ out = IF job.sink = "yes" THEN "landed" ELSE IF job.sink = "onClipboard" THEN "diverted"
               ELSE IF job.sink = "err" THEN "err" ELSE IF recovered THEN "diverted" ELSE "notLanded"
      /\ out \in {"landed", "notLanded", "diverted", "err"}
  BY <1>2 DEF Settled
<1>6. /\ job' \in Jobs /\ SameInsert /\ pc' = "return" /\ job'.out = out
      /\ job'.took = Nothing /\ job'.prev = Nothing
  <2> DEFINE j == [job EXCEPT !.faulted = @ \/ (ErrorAborted /\ ~job.withhold /\ ~recovered)]
  <2>1. /\ j \in Jobs /\ j.text = job.text /\ j.method = job.method
        /\ j.withhold = job.withhold /\ j.restore = job.restore /\ j.rescue = job.rescue
    BY JobTyped DEF Jobs
  <2>2. Answer(out, j)
    BY <1>3
  <2> HIDE DEF j, out
  <2> QED
    BY <1>5, <2>1, <2>2, AnswerGives
<1>7. /\ board' \in Boards /\ board'.claimed = board.claimed
      /\ recovered => board'.clip = job.text /\ board'.last = job.text /\ board'.pending = Nothing
      /\ ~recovered => board' = board
  BY <1>2, <1>3, PersistedGives DEF TypeOK
<1>8. /\ flags' \in Flags /\ flags'.recovery = recovered /\ flags'.remote = flags.remote
      /\ flags'.delivered = IF out = "diverted" THEN ~UserCancelled ELSE flags.delivered
  <2>1. flags' = [flags EXCEPT !.recovery = @ \/ recovered,
                               !.delivered = IF out = "diverted" THEN Delivered ELSE @]
    BY <1>3
  <2>2. flags \in Flags /\ Delivered \in BOOLEAN /\ Delivered = ~UserCancelled
    BY DEF TypeOK, Delivered, UserCancelled, Cancelled
  <2> HIDE DEF out
  <2> QED
    BY <1>2, <2>1, <2>2 DEF Flags
<1>9. /\ seen' \in Seens
      /\ seen'.raced <=> (seen.raced \/ (recovered /\ board.claimed # {}))
      /\ seen'.kept = IF told THEN seen.kept \cup {job.text} ELSE seen.kept
      /\ seen'.promised = IF told THEN seen.promised \cup {job.text} ELSE seen.promised
  <2>1. {job.text} \in SUBSET Texts /\ {job.text} \subseteq Phrases /\ seen \in Seens
    BY <1>2 DEF Kinds, TypeOK
  <2>2. seen' = IF recovered THEN Racing(Promise({job.text}))
                ELSE IF told THEN Promise({job.text}) ELSE seen
    BY <1>3
  <2>3. CASE recovered
    BY <1>2, <2>1, <2>2, <2>3, PromiseRaced
  <2>4. CASE ~recovered /\ told
    <3>1. seen' = Promise({job.text})
      BY <2>2, <2>4
    <3> HIDE DEF told
    <3> QED
      BY <2>1, <2>4, <3>1, SeenOperators
  <2>5. CASE ~told
    BY <2>1, <2>2, <2>5
  <2> QED
    BY <2>3, <2>4, <2>5
<1>10. used' \in Counts /\ used'.jobs = used.jobs
  BY <1>3, SpentType DEF TypeOK
<1> HIDE DEF out
<1>t. TypeOK'
  BY <1>1, <1>2, <1>4, <1>5, <1>6, <1>7, <1>8, <1>9, <1>10 DEF TypeOK, Pcs
<1>a. StopInv'
  BY <1>1, <1>2, <1>4, <1>5, <1>6, <1>7, <1>8, <1>9 DEF StopInv, SameInsert, Inside
<1>b. JobInv'
  BY <1>1, <1>2, <1>4, <1>5, <1>6, <1>7, <1>8, <1>9 DEF JobInv, SameInsert, Reading, Wrote
<1>c. SessInv'
  BY <1>1, <1>2, <1>4, <1>5, <1>6, <1>7, <1>8, <1>9 DEF SessInv, SameInsert
<1>d. FlagInv'
  BY <1>1, <1>2, <1>4, <1>5, <1>6, <1>7, <1>8, <1>9 DEF FlagInv, Fine, ClipInv
<1>e. SlotInv'
  BY <1>1, <1>2, <1>4, <1>5, <1>6, <1>7, <1>8, <1>9
   DEF SlotInv, SameInsert, Reading, Wrote, Returning
<1>f. ClipInv'
  BY <1>1, <1>2, <1>4, <1>5, <1>6, <1>7, <1>8, <1>9 DEF ClipInv, SameInsert, Wrote, Landed
<1>g. CoverInv'
  BY <1>1, <1>2, <1>4, <1>5, <1>6, <1>7, <1>8, <1>9 DEF CoverInv, SameInsert, Reading
<1>h. SettleInv'
  BY <1>1, <1>2, <1>4, <1>5, <1>6, <1>7, <1>8, <1>9
   DEF SettleInv, SameInsert, Fine, Returning, JobOwes, SessOwes, Landed, LeavesItThere,
       Reading, Wrote, ClipInv
<1>i. PromiseInv'
  BY <1>1, <1>2, <1>4, <1>5, <1>6, <1>7, <1>8, <1>9, <1>10
   DEF PromiseInv, SameInsert, LeavesItThere
<1>j. SpareInv'
  <2>1. CASE told
    <3>1. board'.clip \in UserCopies \cup {job.text}
      BY <1>1, <1>4, <1>5, <1>7, <2>1 DEF ClipInv
    <3>2. board'.pending = Nothing /\ (board'.claimed = {} \/ seen'.raced)
      BY <1>1, <1>4, <1>5, <1>7, <1>9, <2>1 DEF SlotInv
    <3> QED
      BY <1>1, <1>2, <1>4, <1>5, <1>6, <1>8, <2>1, <3>2
         DEF SpareInv, Returning, Reading, Wrote, LeavesItThere, SameInsert
  <2>2. CASE ~told
    <3>1. board' = board /\ seen'.promised = seen.promised /\ (seen'.raced <=> seen.raced)
      BY <1>4, <1>5, <1>7, <1>9, <2>2
    <3>2. board.clip \in seen.promised /\ job.sink = "onClipboard" => flags.remote
      BY <1>1, <1>2 DEF ClipInv, PromiseInv, Kinds
    <3> QED
      BY <1>1, <1>2, <1>4, <1>5, <1>6, <1>8, <2>2, <3>1, <3>2
         DEF SpareInv, Returning, Reading, Wrote, LeavesItThere, SameInsert
  <2> QED
    BY <2>1, <2>2
<1> QED
  BY <1>t, <1>a, <1>b, <1>c, <1>d, <1>e, <1>f, <1>g, <1>h, <1>i, <1>j DEF IInv

-----------------------------------------------------------------------------
(* The theorems.                                                             *)

LEMMA InitHolds == Init => IInv
<1> SUFFICES ASSUME Init PROVE IInv
  OBVIOUS
<1>1. Kinds
  BY TextsApart
<1>2. /\ pc = "idle" /\ tail = "none" /\ snapshot = Nothing /\ sess = NoSession /\ job = NoJob
      /\ wayland \in BOOLEAN
  BY DEF Init
<1>3. /\ board \in Boards /\ board.clip \in UserCopies /\ board.last = Nothing
      /\ board.pending = Nothing /\ board.claimed = {}
  <2>1. <<"user", 0>> \in UserCopies
    BY BoundsAssumption DEF UserCopies
  <2> QED
    BY <2>1 DEF Init, Boards, Restorable
<1>4. flags \in Flags /\ ~flags.recovery /\ ~flags.delivered /\ ~flags.remote
  BY DEF Init, Flags
<1>5. /\ stop \in Stops /\ stop.epoch = 0 /\ stop.recoverAt = 0 /\ stop.abortAt = 0
      /\ ~stop.cancelOwed /\ ~stop.abortOwed
  BY DEF Init, Stops
<1>6. /\ sess \in Sessions /\ ~sess.live /\ ~sess.dirty /\ ~sess.began /\ sess.kind = "none"
  BY <1>2 DEF NoSession, Sessions
<1>7. job \in Jobs /\ job.took = Nothing /\ job.prev = Nothing
  BY <1>1, <1>2, NoJobType DEF NoJob
<1>8. used \in Counts
  BY BoundsAssumption DEF Init, Counts
<1>9. seen \in Seens /\ seen.kept = {} /\ seen.promised = {} /\ seen.raced = FALSE
  BY DEF Init, Seens
<1>10. TypeOK
  BY <1>2, <1>3, <1>4, <1>5, <1>6, <1>7, <1>8, <1>9 DEF TypeOK, Pcs, Restorable
<1>11. StopInv /\ JobInv /\ SessInv /\ FlagInv
  BY <1>2, <1>4, <1>5, <1>6, <1>7 DEF StopInv, JobInv, SessInv, FlagInv, Inside, Reading, Wrote
<1>12. SlotInv /\ ClipInv /\ CoverInv
  BY <1>2, <1>3, <1>6 DEF SlotInv, ClipInv, CoverInv, Reading, Wrote, Returning, Landed
<1>13. SettleInv /\ PromiseInv /\ SpareInv
  BY <1>2, <1>3, <1>6, <1>9
     DEF SettleInv, Fine, Landed, LeavesItThere, PromiseInv, SpareInv, Wrote
<1> QED
  BY <1>10, <1>11, <1>12, <1>13 DEF IInv

LEMMA NextKeeps == IInv /\ [Next]_vars => IInv'
<1> SUFFICES ASSUME IInv, [Next]_vars PROVE IInv'
  OBVIOUS
<1>0. Kinds
  BY TextsApart
<1>1. CASE InjectText
  BY <1>0, <1>1, EnterInsertKeeps, TypeTextKeeps, X11GateKeeps, WaylandGateKeeps, ProbeChordKeeps,
     PressChordKeeps, ReachSinkKeeps, ClipboardGateKeeps, ClipboardWriteKeeps, ClipboardNoteKeeps,
     TakePendingKeeps, PasteWriteKeeps, SettleKeeps, AfterPortalKeeps, FinishInsertKeeps
     DEF InjectText
<1>2. CASE FrontEnd
  BY <1>0, <1>2, StartSessionKeeps, StartInsertKeeps, BeginInjectionKeeps, CallInsertKeeps,
     QuietRestoreKeeps, AnswerDroppedKeeps, SeparatorFailedKeeps, InsertFailedKeeps,
     RescueAnsweredKeeps, LiveAnsweredKeeps, StopAnsweredKeeps, ClosedKeeps, CancelLiveKeeps,
     StreamErrorKeeps, TeardownKeeps
     DEF FrontEnd
<1>3. CASE Outside
  BY <1>0, <1>3, StopsKeep, ClaimRestoreKeeps, ServeRestoreKeeps, UserCopyKeeps DEF Outside
<1>4. CASE UNCHANGED vars
  BY <1>4 DEF vars, IInv, TypeOK, StopInv, JobInv, SessInv, FlagInv, SlotInv, ClipInv, CoverInv,
              SettleInv, PromiseInv, SpareInv, Inside, Reading, Wrote, Landed, LeavesItThere,
              Fine, Returning, JobOwes, SessOwes
<1> QED
  BY <1>1, <1>2, <1>3, <1>4 DEF Next

\* The inductive invariant holds of every reachable state.
THEOREM InvariantHolds == Spec => []IInv
  BY InitHolds, NextKeeps, PTL DEF Spec

\* Every variable keeps its type, whatever the number of sessions, inserts, copies and faults.
THEOREM TypeCorrect == Spec => []TypeOK
<1>1. IInv => TypeOK
  BY DEF IInv
<1> QED
  BY <1>1, InvariantHolds, PTL

\* Once nothing is in flight the clipboard holds a copy of the user's or a text the code means
\* to leave: while an insert, a waiting restore or a teardown is under way, one of them still
\* owes the user's copy (SettleInv).
THEOREM ClipboardIsGivenBack == Spec => []ClipboardComesBack
<1>1. IInv => ClipboardComesBack
  <2> SUFFICES ASSUME IInv, Quiet, ~seen.raced
               PROVE  board.clip \in UserCopies \cup seen.kept
    BY DEF ClipboardComesBack
  <2>1. ~Returning /\ pc = "idle" /\ tail = "none" /\ ~sess.live
    BY DEF Quiet, Drained, Returning
  <2>2. ~JobOwes /\ ~SessOwes
    BY <2>1 DEF IInv, SessInv, JobOwes, SessOwes, Reading, Wrote, Landed
  <2> QED
    BY <2>1, <2>2 DEF IInv, SettleInv, Fine
<1> QED
  BY <1>1, InvariantHolds, PTL

\* A restore served by its timer never lands on a text the user was told to paste, or on one a
\* remote desktop may still fetch: such a text leaves no restore waiting (SpareInv).
THEOREM RestoresSpareWhatWasPromised == Spec => RestoreSparesPromises
<1>1. IInv /\ [Next]_vars
        => [board'.claimed \subseteq board.claimed /\ board'.claimed # board.claimed
              => board.clip \notin seen.promised \/ seen.raced]_vars
  BY DEF IInv, SpareInv, Returning
<1> QED
  BY <1>1, InvariantHolds, PTL DEF Spec, RestoreSparesPromises

\* The chord pastes the phrase: nothing but a copy of the user's own comes between the write
\* and the chord (ClipInv), the restore an earlier paste left waiting included.
THEOREM TheChordPastesThePhrase == Spec => ChordPastesThePhrase
<1>1. IInv /\ [Next]_vars
        => [pc = "chord" /\ job'.pressed => board.clip = job.text \/ job.overtaken \/ seen.raced]_vars
  BY DEF IInv, ClipInv
<1> QED
  BY <1>1, InvariantHolds, PTL DEF Spec, ChordPastesThePhrase

\* What an insert that an error stopped owes its text when it answers.
TextSurvives ==
    pc # "return" /\ pc' = "return" /\ ErrorAborted
        /\ ~(job'.withhold \/ job'.skipped \/ job'.faulted)
      => job'.pressed \/ job.text \in seen'.promised

\* A stop of an error's whose marker is stored is one the insert knows for an error's.
LEMMA MarkedIsAborted ==
    ErrorStopped /\ ~TakenForACancel => ErrorAborted
  BY DEF ErrorStopped, TakenForACancel, ErrorAborted, WantsRecovery

LEMMA AnswersSurvive ==
    ASSUME TypeOK, Kinds, InjectText
    PROVE  TextSurvives
<1>1. /\ job.text \in Phrases /\ {job.text} \subseteq Texts /\ {job.text} \in SUBSET Phrases
      /\ seen \in Seens /\ job \in Jobs
  BY DEF TypeOK, Jobs, Kinds
<1>2. ErrorAborted => ~UserCancelled /\ Cancelled /\ (CancelDiscards => job.withhold)
  BY DEF ErrorAborted, UserCancelled, CancelDiscards
<1>3. \A out, j : Answer(out, j) => /\ pc' = "return" /\ job'.withhold = j.withhold
                                    /\ job'.skipped = j.skipped /\ job'.faulted = j.faulted
  BY DEF Answer, Goto, NoJob
<1>4. /\ job.text \in Promise({job.text}).promised
      /\ job.text \in Racing(Promise({job.text})).promised
  BY <1>1, SeenOperators, PromiseRaced
<1>5. ASSUME NEW own \in BOOLEAN, EnterInsert(own)
      PROVE  TextSurvives
  <2> DEFINE j == [[job EXCEPT !.epoch = stop.epoch] EXCEPT !.skipped = TRUE]
  <2>1. j.skipped
    BY <1>1 DEF Jobs
  <2>2. Answer("notLanded", j) \/ pc' # "return"
    BY <1>5 DEF EnterInsert, Goto
  <2> HIDE DEF j
  <2> QED
    BY <1>3, <2>1, <2>2 DEF TextSurvives
<1>6. ASSUME NEW own \in BOOLEAN, NEW divert \in BOOLEAN, NEW remote \in BOOLEAN,
             ReachSink(own, divert, remote)
      PROVE  TextSurvives
  BY <1>1, <1>3, <1>6 DEF ReachSink, Goto, Jobs, TextSurvives
<1>7. CASE ClipboardGate
  BY <1>2, <1>3, <1>7 DEF ClipboardGate, Goto, TextSurvives
<1>8. CASE ClipboardWrite
  BY <1>1, <1>3, <1>8 DEF ClipboardWrite, Goto, Jobs, TextSurvives
<1>9. CASE ClipboardNote
  BY <1>2, <1>4, <1>9 DEF ClipboardNote, TextSurvives
<1>10. ASSUME NEW own \in BOOLEAN, WaylandGate(own)
       PROVE  TextSurvives
  BY <1>1, <1>2, <1>3, <1>4, <1>10 DEF WaylandGate, Goto, Jobs, TextSurvives
<1>11. CASE PasteWrite
  BY <1>1, <1>3, <1>11 DEF PasteWrite, Goto, Jobs, TextSurvives
<1>12. CASE AfterPortal
  BY <1>2, <1>12 DEF AfterPortal, Goto, TextSurvives
<1>13. CASE FinishInsert
  <2>1. PICK recovered \in BOOLEAN :
          /\ recovered => seen' = Racing(Promise({job.text}))
          /\ Answer(Settled(job.sink, recovered),
                    [job EXCEPT !.faulted = @ \/ (ErrorAborted /\ ~job.withhold /\ ~recovered)])
    BY <1>13 DEF FinishInsert
  <2> DEFINE j == [job EXCEPT !.faulted = @ \/ (ErrorAborted /\ ~job.withhold /\ ~recovered)]
  <2>2. j.withhold = job.withhold /\ (ErrorAborted /\ ~job.withhold /\ ~recovered => j.faulted)
    BY <1>1 DEF Jobs
  <2>3. Answer(Settled(job.sink, recovered), j)
    BY <2>1
  <2> HIDE DEF j
  <2> QED
    BY <1>3, <1>4, <2>1, <2>2, <2>3 DEF TextSurvives
<1>14. ASSUME NEW own \in BOOLEAN,
              TypeText(own) \/ X11Gate(own) \/ ProbeChord(own) \/ PressChord(own)
       PROVE  TextSurvives
  BY <1>14 DEF TypeText, X11Gate, ProbeChord, PressChord, StoppedAfterWrite, Goto, TextSurvives
<1>15. CASE TakePending \/ Settle
  BY <1>15 DEF TakePending, Settle, StoppedAfterWrite, Goto, TextSurvives
<1> QED
  BY <1>5, <1>6, <1>7, <1>8, <1>9, <1>10, <1>11, <1>12, <1>13, <1>14, <1>15 DEF InjectText

\* The phrase an error stopped has been pressed or is on the clipboard, as a text the user was
\* told of, when its insert answers: our own window, a clipboard that refuses and a withheld
\* separator are excepted, and an insert that answers between the abort's bump and its marker,
\* which takes the error for a cancel.  Everything the insert asked before the marker was
\* stored is covered: only its last step's answer counts.
THEOREM AbortedTextIsKept == Spec => AbortedTextSurvives
<1>1. ASSUME TypeOK, [Next]_vars
      PROVE  [TextSurvives]_vars
  <2>1. Kinds
    BY TextsApart
  <2>2. CASE InjectText
    BY <1>1, <2>1, <2>2, AnswersSurvive
  <2>3. CASE FrontEnd
    <3>1. pc' # "return" \/ pc' = pc
      BY <2>3 DEF FrontEnd, StartSession, StartInsert, BeginInjection, CallInsert, QuietRestore,
         AnswerDropped, SeparatorFailed, InsertFailed, RescueAnswered, LiveAnswered, StopAnswered,
         Closed, CancelLive, StreamError, EndInjection, DiscardSnapshot, Goto
    <3> QED
      BY <3>1 DEF TextSurvives
  <2>4. CASE Outside
    BY <2>4 DEF Outside, CancelInjection, AbortBump, AbortMark, ClaimRestore, ServeRestore,
       UserCopy, TextSurvives
  <2> QED
    BY <1>1, <2>2, <2>3, <2>4 DEF Next
<1>2. [TextSurvives]_vars
        => [pc # "return" /\ pc' = "return" /\ ErrorStopped /\ ~TakenForACancel
              => NothingToKeep \/ AnswersWithItsText]_vars
  BY MarkedIsAborted DEF TextSurvives, NothingToKeep, AnswersWithItsText
<1> QED
  BY <1>1, <1>2, TypeCorrect, PTL DEF Spec, AbortedTextSurvives
=============================================================================
