---------------------------- MODULE SettingsSync ----------------------------
(***************************************************************************)
(* One device's settings synchronisation (src/lib/sync/sync.ts).  The server *)
(* holds one whole document per user, written by compare-and-swap on its     *)
(* version number; devices merge on their side, against the last document    *)
(* they agreed on (the base).  The engine is one operation at a time under a  *)
(* lock, each a chain of awaits; a supersede drops the operation at its next  *)
(* check and frees the lock at once, so a request already sent and a write    *)
(* without a check still happen.  Other devices write the server directly.    *)
(* A category's content is the number of the edit that made it.               *)
(***************************************************************************)
EXTENDS Integers, Sequences, FiniteSets, SequencesExt

CONSTANTS
  Servers,    \* the sync servers the user may pick
  Cats,       \* the setting categories
  Guarded,    \* the one whose changes need the user's consent (backends)
  MaxEdits,   \* bound on the edits, the user's and the other devices'
  Budgets     \* bounds on them, and on the gestures, failures and deletions

Kinds == {"edit", "switch", "category", "toggle", "dictation", "sync", "loss", "delete"}

ASSUME SyncAssumption ==
  /\ IsFiniteSet(Cats) /\ Guarded \in Cats /\ Servers # {}
  /\ MaxEdits \in Nat /\ Budgets \subseteq [Kinds -> Nat]

VARIABLES
  store,     \* the settings, per category
  on,        \* the categories this device syncs
  enabled,   \* settings.sync.enabled
  target,    \* settings.sync.backendId
  busy,      \* a dictation runs
  st,        \* SyncState: the base and the server it belongs to
  fresh,     \* freshCats
  op,        \* the operation that holds the lock (inFlight)
  timer,     \* a push is scheduled
  parked,    \* pullParked: "no", "parked", or "due" once the dictation ended
  conflict,  \* pendingConflict
  review,    \* pendingReview
  late,      \* superseded ensureStateFor calls, their write still to come
  wire,      \* PUTs of superseded pushes, still to reach the server
  server,    \* per server: the stored document; ver 0 = nothing stored
  edits, budget   \* what is left of the bounds

(* History: what each edit was made, or chosen, on top of; whether a document  *)
(* was judged by a base taken from another one (Foreign, Renumbered).  The     *)
(* base's own origin, st.from, is history too: the engine never looks at it.  *)
VARIABLES over, misjudged

prefVars   == <<on, enabled, target, busy>>
promptVars == <<conflict, review>>
engineVars == <<op, timer, parked>>
worldVars  == <<late, wire, server>>
bounds     == <<edits, budget>>
histVars   == <<over, misjudged>>
vars == <<store, prefVars, st, fresh, engineVars, promptVars, worldVars, bounds,
          histVars>>

Absent == 0 - 1
NoDoc  == [c \in Cats |-> Absent]
None   == "none"

Blank      == [server |-> None, ver |-> 0, stamp |-> 0, doc |-> NoDoc,
               from |-> <<None, 0>>]
NoConflict == [ver |-> 0, stamp |-> 0, doc |-> NoDoc, cats |-> {}]
NoReview   == [ver |-> 0, stamp |-> 0, doc |-> NoDoc, blob |-> NoDoc, cats |-> {},
               applied |-> {}, sig |-> NoDoc]
Nothing    == [ver |-> 0, stamp |-> 0, doc |-> NoDoc]

NoPut == [server |-> None, base |-> 0, known |-> 0, blob |-> NoDoc]

Idle == [kind |-> None, stage |-> None, manual |-> FALSE, remote |-> Nothing,
         blob |-> NoDoc, cats |-> {}, put |-> NoPut, tries |-> 0, moved |-> FALSE,
         sig |-> NoDoc, picks |-> {}, review |-> NoReview, conflict |-> NoConflict]

Held == [c \in Cats |-> 0]

Init ==
  /\ store = Held /\ on = Cats /\ enabled = TRUE /\ busy = FALSE
  /\ target = (CHOOSE s \in Servers : TRUE)  \* the servers start alike
  /\ st = Blank /\ fresh = {} /\ op = Idle /\ timer = FALSE /\ parked = "no"
  /\ conflict = NoConflict /\ review = NoReview /\ late = <<>> /\ wire = {}
  /\ server = [s \in Servers |-> [ver |-> 0, stamp |-> 0, doc |-> Held]]
  /\ edits = 0 /\ budget \in Budgets
  /\ over = [v \in 0..MaxEdits |-> {}] /\ misjudged = FALSE

-----------------------------------------------------------------------------
(* Compose and merge.                                                       *)

Free   == op.kind = None
Turn(kind) == budget[kind] > 0 /\ budget' = [budget EXCEPT ![kind] = @ - 1]  \* bound
Prompt == conflict # NoConflict \/ review # NoReview

(* composeLive: the synced categories as they are; the rest passes through.  It  *)
(* composes again while the settings move under it, three times at most: what    *)
(* it returns are the live settings unless three edits fall into one compose,     *)
(* which MaxEdits = 2 excludes and the proofs leave out.                        *)
Compose(cats, pass) == [c \in Cats |-> IF c \in cats THEN store[c] ELSE pass[c]]

(* passThroughFor                                                           *)
PassThrough(remote) ==
  IF st.doc = NoDoc THEN remote
  ELSE [c \in Cats |-> IF c \in fresh THEN remote[c] ELSE st.doc[c]]

(* A mutant: a re-enabled category is merged against the old base.            *)
MergeBaseOfAll == st.doc

(* mergeBase: a re-enabled category is met as if for the first time.         *)
MergeBase == [c \in Cats |-> IF c \in fresh THEN Absent ELSE st.doc[c]]

(* mergeBlobs: what both sides changed, and differently; else who changed it. *)
Conflicts(local, remote) ==
  {c \in Cats : /\ local[c] # MergeBase[c] /\ remote[c] # MergeBase[c]
                /\ local[c] # remote[c]}

Merged(local, remote) ==
  [c \in Cats |-> IF local[c] # MergeBase[c] THEN local[c] ELSE remote[c]]

(* A mutant: only an untouched guarded category is judged.                   *)
RiskyIfUntouched(blob, local, cats) ==
  Guarded \in cats /\ local[Guarded] = st.doc[Guarded]
  /\ blob[Guarded] \notin {local[Guarded], Absent}

(* gatedSecurityCheck: the apply would change the guarded category.          *)
Risky(blob, local, cats) ==
  Guarded \in cats /\ blob[Guarded] \notin {local[Guarded], Absent}

(* serverRecreated: the stored document is not a later one than what the base *)
(* and the prompts are built on.                                             *)
Recreated(remote) ==
  \E k \in {<<st.ver, st.stamp>>, <<review.ver, review.stamp>>,
            <<conflict.ver, conflict.stamp>>} :
    \/ k[1] > remote.ver
    \/ k[1] > 0 /\ k[1] = remote.ver /\ k[2] # remote.stamp

-----------------------------------------------------------------------------
(* The lock, and what frees it.                                             *)

Pull(manual) == [Idle EXCEPT !.kind = "pull", !.manual = manual]
Push(manual) == [Idle EXCEPT !.kind = "push", !.manual = manual]

(* What the server stores, as it answers a request at some later time.       *)
Stored(s) == IF server[s].ver = 0 THEN Nothing ELSE server[s]

SendTo(o, blob, ver, stamp) ==
  [o EXCEPT !.stage = "put", !.remote = Nothing,
            !.put = [server |-> target, base |-> ver, known |-> stamp, blob |-> blob]]

(* A push's compose, against the hash of the base.                          *)
Composed(o) ==
  LET blob == Compose(on, st.doc) IN
  IF ~o.manual /\ blob = st.doc /\ st.ver > 0 THEN Idle ELSE SendTo(o, blob, st.ver, st.stamp)

(* The bookkeeping is this server's: the pull asks it, the push composes.     *)
Bound(o) ==
  IF o.kind = "pull" THEN [o EXCEPT !.stage = "asked"] ELSE Composed(o)

(* An operation starts, up to ensureStateFor's synchronous reset.            *)
Take(o, s) ==
  IF st.server = s THEN op' = Bound(o) /\ UNCHANGED st
  ELSE op' = [o EXCEPT !.stage = "bind"] /\ st' = Blank

(* A mutant: an operation schedules no push when it ends.                    *)
EndsQuietly(send) == op' = Idle /\ UNCHANGED timer

(* The operation ends; `send` schedules a push.                             *)
Ends(send) == op' = Idle /\ timer' = (timer \/ send)

DropPrompts == review' = NoReview /\ conflict' = NoConflict
Unpark == parked' = IF parked = "parked" THEN "no" ELSE parked

(* supersede: what the dropped operation has set in motion stays in motion.  *)
Superseded ==
  /\ DropPrompts /\ parked' = "no" /\ timer' = FALSE
  /\ late' = IF op.stage = "bind" THEN Append(late, target) ELSE late
  /\ wire' = IF op.stage = "put" THEN wire \cup {op.put} ELSE wire

(* The rest of ensureStateFor: its write checks no epoch, and keeps the       *)
(* snapshot of whatever state it finds.                                     *)
BindTo(s) == st' = [st EXCEPT !.server = s, !.ver = 0, !.stamp = 0]

Binds ==
  /\ op.stage = "bind" /\ late = <<>>   \* the keyring takes its calls in turn
  /\ BindTo(target)
  /\ op' = IF op.kind = "pull" THEN Bound(op) ELSE [op EXCEPT !.stage = "bound"]
  /\ UNCHANGED <<store, prefVars, fresh, timer, parked, promptVars, worldVars,
                 bounds, histVars>>

BindsLate ==
  /\ late # <<>> /\ BindTo(Head(late)) /\ late' = Tail(late)
  /\ UNCHANGED <<store, prefVars, fresh, engineVars, promptVars, wire, server,
                 bounds, histVars>>

(* forgetDeadDocument                                                       *)
Forget ==
  /\ st' = [Blank EXCEPT !.server = st.server] /\ fresh' = {}
  /\ DropPrompts /\ Unpark

-----------------------------------------------------------------------------
(* applyBlob, and where it leads.                                           *)

Hydrated(blob, cats) ==
  [c \in Cats |-> IF c \in cats /\ blob[c] # Absent THEN blob[c] ELSE store[c]]

(* adoptBase, of what the server holds and never of the merge; then          *)
(* dropSupersededPending.                                                   *)
Adopted(rem) == [st EXCEPT !.ver = rem.ver, !.stamp = rem.stamp, !.doc = rem.doc,
                           !.from = <<target, rem.stamp>>]

Settles(rem) ==
  /\ fresh' = {}
  /\ review' = IF review.ver <= rem.ver THEN NoReview ELSE review
  /\ conflict' = IF conflict.ver <= rem.ver THEN NoConflict ELSE conflict

Adopt(rem) == st' = Adopted(rem) /\ Settles(rem)

(* A push begun at once, whose ensureStateFor may find another server's state. *)
PushesOn(rem) ==
  /\ op' = [Push(TRUE) EXCEPT !.stage = IF st.server = target THEN "bound" ELSE "bind"]
  /\ st' = IF st.server = target THEN Adopted(rem) ELSE Blank
  /\ UNCHANGED timer

(* The apply landed: a push retries on the new base, the others adopt it.    *)
Lands(o, blob, rem) ==
  /\ store' = Hydrated(blob, o.cats)
  /\ UNCHANGED parked
  /\ IF o.kind = "push"
     THEN /\ UNCHANGED <<st, fresh, promptVars>>
          /\ IF o.tries < 2
             THEN op' = SendTo([o EXCEPT !.tries = @ + 1], blob, rem.ver, rem.stamp)
                  /\ UNCHANGED timer
             ELSE Ends(FALSE)
     ELSE /\ Settles(rem)
          /\ IF o.kind = "resolve" /\ blob # rem.doc THEN PushesOn(rem)
             ELSE st' = Adopted(rem) /\ Ends(o.kind # "pull" \/ blob # rem.doc)

(* Refused while dictating; else at once, unless it waits for the keyring,   *)
(* its prompt closed meanwhile.                                             *)
Applies(o, blob, rem) ==
  CASE busy ->
         /\ parked' = "parked" /\ Ends(FALSE)
         /\ UNCHANGED <<store, st, fresh, promptVars>>
    [] ~busy /\ Guarded \in o.cats /\ blob[Guarded] # Absent ->
         /\ op' = [o EXCEPT !.stage = "apply", !.blob = blob, !.remote = rem, !.moved = FALSE]
         /\ review' = IF o.kind = "approve" THEN NoReview ELSE review
         /\ conflict' = IF o.kind = "resolve" THEN NoConflict ELSE conflict
         /\ UNCHANGED <<store, st, fresh, timer, parked>>
    [] OTHER -> Lands(o, blob, rem)

(* A mutant: the store is not looked at again after the keyring wait.         *)
StaleWhileBusy == busy

(* After the wait: dropped if the settings moved under it, its prompt put     *)
(* back; the edit's own push, or the parked pull, offers it again.           *)
Stale == busy \/ op.moved

Applied ==
  /\ op.stage = "apply"
  /\ IF Stale
     THEN /\ parked' = IF busy THEN "parked" ELSE parked
          /\ review' = IF op.kind = "approve" THEN op.review ELSE review
          /\ conflict' = IF op.kind = "resolve" THEN op.conflict ELSE conflict
          /\ Ends(~busy /\ op.kind \in {"pull", "push"})
          /\ UNCHANGED <<store, st, fresh>>
     ELSE Lands(op, op.blob, op.remote)
  /\ UNCHANGED <<prefVars, worldVars, bounds, histVars>>

-----------------------------------------------------------------------------
(* The two prompts.                                                         *)

(* raiseConflict                                                            *)
RaiseConflict(rem, cats) ==
  /\ conflict' = [ver |-> rem.ver, stamp |-> rem.stamp, doc |-> rem.doc, cats |-> cats]
  /\ review' = IF op.kind = "approve" \/ review.ver < rem.ver THEN NoReview ELSE review
  /\ Ends(FALSE)
  /\ UNCHANGED <<store, st, fresh, parked>>

(* applyAndRaiseReview: everything but the guarded category lands first.      *)
HoldsBack(o, blob, rem) ==
  LET rest == o.cats \ {Guarded}
      now  == IF busy THEN store ELSE Hydrated(blob, rest) IN
  /\ store' = now
  /\ parked' = IF busy THEN "parked" ELSE parked
  /\ op' = [o EXCEPT !.stage = "raise",
              !.review = [ver |-> rem.ver, stamp |-> rem.stamp, doc |-> rem.doc,
                          blob |-> blob, cats |-> o.cats, sig |-> now,
                          applied |-> IF busy THEN {} ELSE rest]]
  /\ conflict' = IF o.kind = "resolve" THEN NoConflict ELSE conflict
  /\ UNCHANGED <<st, fresh, timer, review>>

(* raiseReview: an apply refused this time leaves the earlier one standing.  *)
Raises ==
  LET r == op.review
      again == r.applied = {} /\ review.ver = r.ver IN
  /\ op.stage = "raise"
  /\ review' = [r EXCEPT !.applied = IF again THEN review.applied ELSE @]
  /\ conflict' = IF conflict.ver < r.ver THEN NoConflict ELSE conflict
  /\ Ends(FALSE)
  /\ UNCHANGED <<store, prefVars, st, fresh, parked, worldVars, bounds, histVars>>

(* The base is of another document than this one: of another server, its      *)
(* number written over by a late ensureStateFor, or of one deleted since and   *)
(* seeded again past the base's number.                                     *)
Foreign(rem) == st.doc # NoDoc /\ st.from # <<target, rem.stamp>>

Judges(rem) == misjudged' = (misjudged \/ Foreign(rem)) /\ UNCHANGED over

(* reconcileRemote, and its twin behind a refused push.                     *)
Reconcile(rem) ==
  LET local == Compose(on, PassThrough(rem.doc))
      blob  == Merged(local, rem.doc)
      o     == [op EXCEPT !.cats = on] IN
  CASE Conflicts(local, rem.doc) # {} -> RaiseConflict(rem, Conflicts(local, rem.doc))
    [] Conflicts(local, rem.doc) = {} /\ Risky(blob, local, on) -> HoldsBack(o, blob, rem)
    [] OTHER -> Applies(o, blob, rem)

-----------------------------------------------------------------------------
(* pullCore and pushNow.                                                    *)

(* The request reaches the server, which answers with what it stores then.   *)
PullReaches ==
  /\ op.stage = "asked"
  /\ op' = [op EXCEPT !.stage = "answered", !.remote = Stored(target)]
  /\ UNCHANGED <<store, prefVars, st, fresh, timer, parked, promptVars, worldVars,
                 bounds, histVars>>

(* The answer to the pull is lost.                                          *)
PullFails ==
  /\ op.stage \in {"asked", "answered"} /\ Turn("loss") /\ Ends(FALSE)
  /\ UNCHANGED <<store, prefVars, st, fresh, parked, promptVars, worldVars, edits,
                 histVars>>

(* An empty server is seeded by a push.                                     *)
PullsNothing ==
  /\ st.ver > 0 \/ st.doc # NoDoc => Forget
  /\ ~(st.ver > 0 \/ st.doc # NoDoc) => DropPrompts /\ Unpark /\ fresh' = {} /\ UNCHANGED st
  /\ Ends(TRUE) /\ UNCHANGED store

NothingNew(rem) ==
  ~op.manual /\ rem.ver = st.ver /\ (fresh = {} \/ st.doc = NoDoc \/ Prompt)

Pulls ==
  /\ op.stage = "answered"
  /\ LET rem == op.remote IN
     CASE rem.ver = 0 -> PullsNothing /\ UNCHANGED histVars
       [] rem.ver > 0 /\ Recreated(rem) -> Forget /\ UNCHANGED <<store, op, timer, histVars>>
       [] rem.ver > 0 /\ ~Recreated(rem) /\ NothingNew(rem) ->
            Ends(TRUE) /\ Judges(rem) /\ UNCHANGED <<store, st, fresh, parked, promptVars>>
       [] OTHER -> Reconcile(rem) /\ Judges(rem)
  /\ UNCHANGED <<prefVars, worldVars, bounds>>

Composes ==
  /\ op.stage = "bound" /\ op' = Composed(op)
  /\ UNCHANGED <<store, prefVars, st, fresh, timer, parked, promptVars, worldVars, bounds,
                 histVars>>

(* The server's compare-and-swap, which knows the number alone.             *)
Swaps(put) == server[put.server].ver = put.base

(* A document deleted and seeded again up to the very number of a push's base: *)
(* the server compares numbers alone.                                       *)
Renumbered(put) == put.base > 0 /\ put.known # server[put.server].stamp

Store(put) ==
  server' = [server EXCEPT ![put.server] =
              [ver |-> @.ver + 1, stamp |-> @.stamp, doc |-> put.blob]]

PutReaches ==
  /\ op.stage = "put"
  /\ IF Swaps(op.put)
     THEN /\ Store(op.put) /\ misjudged' = (misjudged \/ Renumbered(op.put))
          /\ op' = [op EXCEPT !.stage = "ok", !.remote = server'[target]]
     ELSE /\ op' = [op EXCEPT !.stage = "refused", !.remote = Stored(target)]
          /\ UNCHANGED <<server, misjudged>>
  /\ UNCHANGED <<store, prefVars, st, fresh, timer, parked, promptVars, late, wire,
                 bounds, over>>

(* No answer: the request may still be on its way.                          *)
PutFails ==
  /\ op.stage = "put" /\ Turn("loss") /\ Ends(FALSE) /\ wire' = wire \cup {op.put}
  /\ UNCHANGED <<store, prefVars, st, fresh, parked, promptVars, late, server,
                 edits, histVars>>

PutReachesLate(put, lost) ==
  /\ put \in wire /\ wire' = wire \ {put}
  /\ IF Swaps(put) /\ ~lost
     THEN Store(put) /\ misjudged' = (misjudged \/ Renumbered(put))
     ELSE UNCHANGED <<server, misjudged>>
  /\ UNCHANGED <<store, prefVars, st, fresh, engineVars, promptVars, late, bounds,
                 over>>

PushDone ==
  /\ op.stage = "ok" /\ Adopt(op.remote) /\ Ends(FALSE)
  /\ UNCHANGED <<store, prefVars, parked, worldVars, bounds, histVars>>

(* The 409: always merged from the live settings, never from what was sent. *)
PushRefused ==
  /\ op.stage = "refused"
  /\ LET rem == op.remote IN
     CASE rem.ver = 0 -> Forget /\ Ends(TRUE) /\ UNCHANGED <<store, histVars>>
       [] rem.ver > 0 /\ Recreated(rem) -> Forget /\ UNCHANGED <<store, op, timer, histVars>>
       [] OTHER -> Reconcile(rem) /\ Judges(rem)
  /\ UNCHANGED <<prefVars, worldVars, bounds>>

-----------------------------------------------------------------------------
(* What starts an operation.                                                *)

FocusPull ==
  /\ Free /\ enabled /\ Take(Pull(FALSE), target)
  /\ UNCHANGED <<store, prefVars, fresh, timer, parked, promptVars, worldVars, bounds,
                 histVars>>

(* rePullAfterSession                                                       *)
RePull ==
  /\ parked = "due" /\ Free /\ enabled /\ Take(Pull(TRUE), target) /\ parked' = "no"
  /\ UNCHANGED <<store, prefVars, fresh, timer, promptVars, worldVars, bounds, histVars>>

(* The gate of pushNow: a re-enabled category meets the server first.        *)
Gated == fresh # {} /\ st.doc # NoDoc

StartsPush(manual) ==
  CASE ~Gated -> Take(Push(manual), target)
    [] Gated /\ ~Prompt -> Take(Pull(TRUE), target)
    [] OTHER -> UNCHANGED <<op, st>>

(* Under another's lock the timer only re-arms.                             *)
PushFires ==
  /\ timer /\ Free /\ enabled /\ timer' = FALSE /\ StartsPush(FALSE)
  /\ UNCHANGED <<store, prefVars, fresh, parked, promptVars, worldVars, bounds, histVars>>

ManualSync ==
  /\ Turn("sync") /\ Free /\ enabled
  /\ Take(Pull(TRUE), target) \/ StartsPush(TRUE)
  /\ UNCHANGED <<store, prefVars, fresh, timer, parked, promptVars, worldVars, edits, histVars>>

-----------------------------------------------------------------------------
(* The settings, as the user changes them (the store's subscriber).          *)

Touched == op' = [op EXCEPT !.moved = ~Free]

Edit(c) ==
  /\ edits < MaxEdits /\ edits' = edits + 1 /\ Turn("edit")
  /\ store' = [store EXCEPT ![c] = edits + 1]
  /\ over' = [over EXCEPT ![edits + 1] = over[store[c]] \cup {store[c]}]
  /\ Touched /\ timer' = (timer \/ enabled)
  /\ UNCHANGED <<prefVars, st, fresh, parked, promptVars, worldVars,
                 misjudged>>

(* A forced pull in a new epoch.                                            *)
Restarts(s) == Superseded /\ Take(Pull(TRUE), s)

TurnOn(c) ==
  /\ c \notin on /\ on' = on \cup {c} /\ fresh' = fresh \cup {c}
  /\ IF enabled THEN Restarts(target)
     ELSE UNCHANGED <<st, engineVars, promptVars, late, wire>>
  /\ UNCHANGED <<store, enabled, target, busy, server, bounds, histVars>>

(* A conflict over a category not reconciled yet is asked again without it.  *)
TurnOff(c) ==
  /\ Turn("category") /\ c \in on /\ on # {c} /\ on' = on \ {c} /\ fresh' = fresh \ {c}
  /\ IF enabled /\ c \in fresh \cap conflict.cats THEN Restarts(target)
     ELSE /\ Touched /\ timer' = (timer \/ enabled)
          /\ UNCHANGED <<st, parked, promptVars, late, wire>>
  /\ UNCHANGED <<store, enabled, target, busy, server, edits, histVars>>

SwitchServer(s) ==
  /\ Turn("switch") /\ s # target /\ target' = s
  /\ IF enabled THEN Restarts(s) /\ fresh' = {}
     ELSE UNCHANGED <<st, fresh, engineVars, promptVars, late, wire>>
  /\ UNCHANGED <<store, on, enabled, busy, server, edits, histVars>>

Disable ==
  /\ Turn("toggle") /\ enabled /\ enabled' = FALSE
  /\ Superseded /\ op' = Idle
  /\ UNCHANGED <<store, on, target, busy, st, fresh, server, edits, histVars>>

Enable ==
  /\ ~enabled /\ enabled' = TRUE /\ Restarts(target)
  /\ UNCHANGED <<store, on, target, busy, fresh, server, bounds, histVars>>

DictationStarts ==
  /\ Turn("dictation") /\ ~busy /\ busy' = TRUE
  /\ UNCHANGED <<store, on, enabled, target, st, fresh, engineVars, promptVars,
                 worldVars, edits, histVars>>

DictationEnds ==
  /\ busy /\ busy' = FALSE
  /\ parked' = IF parked = "parked" THEN "due" ELSE parked
  /\ UNCHANGED <<store, on, enabled, target, st, fresh, op, timer, promptVars,
                 worldVars, bounds, histVars>>

-----------------------------------------------------------------------------
(* The user answers a prompt.                                               *)

(* What the user picks stands over what it replaces, as an edit would.       *)
Chosen(pairs) ==
  over' = [v \in DOMAIN over |->
             over[v] \cup UNION {over[p[2]] \cup {p[2]} : p \in
                                   {q \in pairs : /\ q[1] = v /\ q[2] # v
                                                  /\ q[2] # Absent}}]

(* A base at the prompt's version was adopted while it waited.               *)
Moot(prompt) == st.ver > prompt.ver \/ (st.ver = prompt.ver /\ fresh = {})

Approve ==
  /\ Free /\ ~busy /\ review # NoReview
  /\ IF Moot(review) THEN review' = NoReview /\ Ends(TRUE) /\ UNCHANGED histVars
     ELSE /\ Chosen({<<review.blob[Guarded], review.sig[Guarded]>>}) /\ UNCHANGED misjudged
          /\ op' = [Idle EXCEPT !.kind = "approve", !.stage = "sign", !.sig = store,
                                !.cats = review.cats \cap on, !.review = review]
          /\ UNCHANGED <<review, timer>>
  /\ UNCHANGED <<store, prefVars, st, fresh, parked, conflict, worldVars, bounds>>

(* What was edited since the raise and had not landed then; what was not.     *)
Edited(r) == {c \in Cats : op.moved \/ op.sig[c] # r.sig[c]}

(* approveLocked, past the keyring waits: merged again from the live settings. *)
ApproveDecides ==
  LET r     == op.review
      local == Compose(op.cats, PassThrough(r.doc))
      both  == Conflicts(local, r.doc)
      blob  == [c \in Cats |-> IF c \in both \ Edited(r) THEN r.blob[c]
                                ELSE Merged(local, r.doc)[c]] IN
  /\ op.stage = "sign"
  /\ CASE review = NoReview \/ busy ->
            Ends(TRUE) /\ UNCHANGED <<store, st, fresh, parked, promptVars, histVars>>
       [] ~(review = NoReview \/ busy) /\ (both \cap Edited(r)) \ r.applied # {} ->
            RaiseConflict(r, both) /\ Judges(r)
       [] OTHER ->
            /\ Judges(r)
            /\ IF Risky(blob, local, op.cats) /\ blob[Guarded] # r.blob[Guarded]
               THEN /\ review' = [r EXCEPT !.blob = blob, !.sig = op.sig]
                    /\ conflict' = IF conflict.ver < r.ver THEN NoConflict ELSE conflict
                    /\ Ends(FALSE)
                    /\ UNCHANGED <<store, st, fresh, parked>>
               ELSE Applies(op, blob, [ver |-> r.ver, stamp |-> r.stamp, doc |-> r.doc])
  /\ UNCHANGED <<prefVars, worldVars, bounds>>

Reject ==
  /\ review # NoReview /\ review' = NoReview /\ Unpark
  /\ UNCHANGED <<store, prefVars, st, fresh, op, timer, conflict, worldVars, bounds,
                 histVars>>

(* resolveSyncConflicts: the categories where the other side is picked.      *)
Resolve(picks) ==
  /\ Free /\ ~busy /\ conflict # NoConflict /\ picks \subseteq conflict.cats
  /\ IF Moot(conflict) THEN conflict' = NoConflict /\ Ends(TRUE)
     ELSE /\ op' = [Idle EXCEPT !.kind = "resolve", !.stage = "compose", !.cats = on,
                                !.sig = store,
                                !.picks = picks, !.conflict = conflict]
          /\ UNCHANGED <<conflict, timer>>
  /\ UNCHANGED <<store, prefVars, st, fresh, parked, review, worldVars, bounds,
                 histVars>>

ResolveDecides ==
  LET c     == op.conflict
      local == Compose(op.cats, PassThrough(c.doc))
      rem   == [ver |-> c.ver, stamp |-> c.stamp, doc |-> c.doc]
      final == [k \in Cats |-> IF k \in op.picks THEN c.doc[k]
                                ELSE IF k \in c.cats THEN local[k]
                                ELSE Merged(local, c.doc)[k]] IN
  /\ op.stage = "compose"
  /\ CASE conflict # c \/ busy ->
            /\ Ends(TRUE)
            /\ UNCHANGED <<store, st, fresh, parked, promptVars, histVars>>
       [] ~(conflict # c \/ busy) /\ ~(Conflicts(local, c.doc) \subseteq c.cats) ->
            RaiseConflict(rem, Conflicts(local, c.doc)) /\ Judges(c)
       [] OTHER ->
            /\ Chosen({IF k \in op.picks THEN <<c.doc[k], op.sig[k]>>
                                          ELSE <<local[k], c.doc[k]>> : k \in c.cats})
            /\ misjudged' = (misjudged \/ Foreign(c))
            /\ IF Risky(final, local, op.cats) THEN HoldsBack(op, final, rem)
               ELSE Applies(op, final, rem)
  /\ UNCHANGED <<prefVars, worldVars, bounds>>

(* dismissSyncConflict                                                      *)
Later ==
  /\ conflict # NoConflict /\ conflict' = NoConflict /\ Unpark
  /\ UNCHANGED <<store, prefVars, st, fresh, op, timer, review, worldVars, bounds,
                 histVars>>

-----------------------------------------------------------------------------
(* The other devices edit the document, delete it and seed it again; only on   *)
(* the server in use, as what they do to another is seen after the switch.    *)

PeerWrites(s, doc) ==
  /\ server' = [server EXCEPT ![s] = [ver |-> @.ver + 1, stamp |-> @.stamp, doc |-> doc]]

PeerEdits(s, c) ==
  /\ server[s].ver > 0 /\ edits < MaxEdits /\ edits' = edits + 1 /\ Turn("edit")
  /\ PeerWrites(s, [server[s].doc EXCEPT ![c] = edits + 1])
  /\ over' = [over EXCEPT ![edits + 1] =
                IF server[s].doc[c] = Absent THEN {}
                ELSE over[server[s].doc[c]] \cup {server[s].doc[c]}]
  /\ UNCHANGED <<store, prefVars, st, fresh, engineVars, promptVars, late, wire,
                 misjudged>>

PeerSeeds(s) ==
  /\ server[s].ver = 0
  /\ PeerWrites(s, [c \in Cats |-> IF server[s].doc[c] = Absent THEN 0
                                    ELSE server[s].doc[c]])
  /\ UNCHANGED <<store, prefVars, st, fresh, engineVars, promptVars, late, wire,
                 bounds, histVars>>

PeerDeletes(s) ==
  /\ server[s].ver > 0 /\ Turn("delete")
  /\ server' = [server EXCEPT ![s].ver = 0, ![s].stamp = @ + 1]
  /\ UNCHANGED <<store, prefVars, st, fresh, engineVars, promptVars, late, wire,
                 edits, histVars>>

-----------------------------------------------------------------------------
Engine ==
  \/ Binds \/ BindsLate \/ PullReaches \/ Pulls \/ Composes \/ PutReaches \/ PushDone
  \/ PushRefused \/ Applied \/ Raises \/ ApproveDecides \/ ResolveDecides \/ RePull
  \/ FocusPull \/ PushFires

World ==
  \/ PullFails \/ PutFails
  \/ \E put \in wire, lost \in BOOLEAN : PutReachesLate(put, lost)
  \/ PeerSeeds(target) \/ PeerDeletes(target) \/ \E c \in Cats : PeerEdits(target, c)

User ==
  \/ \E c \in Cats : Edit(c) \/ TurnOn(c) \/ TurnOff(c)
  \/ \E s \in Servers : SwitchServer(s)
  \/ Disable \/ Enable \/ ManualSync \/ DictationStarts \/ DictationEnds
  \/ Approve \/ Reject \/ Later \/ \E picks \in SUBSET Cats : Resolve(picks)

Next == Engine \/ World \/ User

Spec == Init /\ [][Next]_vars

(* Fairness: awaited answers and keyring waits end, a dictation ends, and the  *)
(* window is focused again and again, at least five seconds apart, so that a   *)
(* timer that re-arms every three seconds finds the lock free again and again. *)
(* Nothing is assumed of the other devices or of the user's other gestures.    *)
FairSpec ==
  /\ Spec
  /\ WF_vars(Binds) /\ WF_vars(BindsLate) /\ WF_vars(PullReaches) /\ WF_vars(Composes)
  /\ WF_vars(Pulls) /\ WF_vars(PutReaches) /\ WF_vars(PushDone) /\ WF_vars(PushRefused)
  /\ WF_vars(Applied) /\ WF_vars(Raises) /\ WF_vars(ApproveDecides)
  /\ WF_vars(ResolveDecides) /\ WF_vars(DictationEnds)
  /\ WF_vars(FocusPull) /\ SF_vars(PushFires)

(* A category the user gave to the other side, and changed again while the    *)
(* answer was still composing: the answer stands.                            *)
EditedInTheAnswer(c) ==
  op.kind = "resolve" /\ c \in op.picks /\ op.sig[c] # store[c]

(* No edit of the user's is lost: what replaces a setting was made on top of   *)
(* it, here or on another device, or was picked over it by the user.  Two      *)
(* cases are left out.  A document was judged by a base of another one        *)
(* (misjudged): the engine took a document seeded again past its base's number *)
(* for a later one, or a late ensureStateFor wrote over the base's server and  *)
(* number, or the server swapped a push in over a renumbered document; nothing *)
(* is claimed from then on.  And an edit made inside the user's own answer to   *)
(* a conflict, of a category the answer gives away.                          *)
EditsSurviveLivePrompts ==
  [][~misjudged' => \A c \in Cats :
       store'[c] # store[c] /\ ~EditedInTheAnswer(c) => store[c] \in over'[store'[c]]]_vars

(* No device's change is overwritten unseen: a push changes a category the     *)
(* server holds only to a value made, or picked, on top of it, as long as no   *)
(* document was judged by a base of another one (misjudged, as above).        *)
PushesBuildOnTheServer ==
  [][\A s \in Servers, c \in Cats :
       LET was == server[s].doc[c]  now == server'[s].doc[c] IN
       server[s].ver > 0 /\ was # Absent /\ now # was /\ ~misjudged'
         => now # Absent /\ was \in over'[now]]_vars

(* What the code says of a switch of servers (sync.ts:2780-2782), and what the *)
(* unguarded second half of a superseded ensureStateFor breaks: a snapshot is  *)
(* no merge base for a document of another server.                          *)
NoBaseOfAnotherServer ==
  op.stage \in {"answered", "refused"} /\ st.server = target /\ st.doc # NoDoc
    => st.from[1] = target

(* The guarded settings change by the user's own edit, or to the very value    *)
(* of a review the user approved: never by a merge, a conflict pick or a push  *)
(* that was refused.                                                        *)
ConsentFirst ==
  [][store'[Guarded] # store[Guarded] =>
       \/ edits' = edits + 1
       \/ op.kind = "approve" /\ op.review.blob[Guarded] = store'[Guarded]]_vars

(* No difference is stranded: with sync on, this device and the server agree   *)
(* on every synced category, or a prompt asks the user, again and again; as     *)
(* long as no document was judged by a base of another one (misjudged, as       *)
(* above: a base bound to the wrong server at the number of that server's       *)
(* document has nothing new to pull and nothing to push, for good).            *)
EventuallyAgrees ==
  []<>(\/ ~enabled \/ Prompt \/ misjudged
       \/ \A c \in on : store[c] = server[target].doc[c])
=============================================================================
