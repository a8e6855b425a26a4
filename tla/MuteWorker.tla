----------------------------- MODULE MuteWorker -----------------------------
(***************************************************************************)
(* Muting the other applications while the user dictates (session.rs,      *)
(* SystemMuteGuard and its worker).  A session's guard sends Mute when the  *)
(* session starts and Unmute when it is dropped, which a stop or a cancel   *)
(* does outside the state lock after joining the capture thread, so the     *)
(* Unmute may reach the worker after the next session's Mute.  On exit,     *)
(* cleanup_for_exit drops the sessions and waits for the worker, up to      *)
(* three times.                                                             *)
(***************************************************************************)
EXTENDS Integers, Sequences, SequencesExt

CONSTANTS
  Stream,     \* the two states a session can live in: StreamState,
  Record,     \* ... RecordState
  Outputs,    \* what can be muted: other streams' ids, or the default sink
  MaxGuards   \* bound on MUTE_SEQ

ASSUME GuardsAssumption == MaxGuards \in Nat

Passes == 3  \* quit handler, ExitRequested, Exit
Guards == 1..MaxGuards
Kinds  == {Stream, Record}

VARIABLES
  seq,       \* MUTE_SEQ
  locked,    \* kinds whose state a start holds locked
  making,    \* per kind: the guard that start has created, 0 = none yet
  live,      \* per kind: the guard of the session in the state, 0 = None
  dropping,  \* guards of sessions taken out, Unmute still to be sent
  queue,     \* the worker's channel
  owner,     \* MuteSlot.owner
  mode,      \* MuteSlot.mode: the outputs the worker muted
  muted,     \* outputs that are muted
  exit,      \* cleanup_for_exit: 0 = not called, else the pass it is in
  step,      \* ... and how far that pass is
  dropped,   \* ... it took a session out
  wedged     \* EXIT_FLUSH_WEDGED

(* History: what the user had muted; the last pass was acknowledged.       *)
VARIABLES base, flushed

sessionVars == <<seq, locked, making, live, dropping>>
workerVars  == <<owner, mode, muted>>
exitVars    == <<exit, step, dropped, wedged, flushed>>
muteVars == <<sessionVars, queue, workerVars, exitVars, base>>

Mute(g)   == [op |-> "mute", id |-> g]
Unmute(g) == [op |-> "unmute", id |-> g]
Flush(p)  == [op |-> "flush", id |-> p]

Command == {Mute(g) : g \in Guards} \cup {Unmute(g) : g \in Guards}
           \cup {Flush(p) : p \in 1..Passes}

MuteType ==
  /\ seq \in 0..MaxGuards
  /\ locked \subseteq Kinds
  /\ making \in [Kinds -> 0..MaxGuards]
  /\ live \in [Kinds -> 0..MaxGuards]
  /\ dropping \subseteq Guards
  /\ queue \in Seq(Command)
  /\ owner \in 0..MaxGuards /\ (owner = 0 => mode = {})
  /\ mode \subseteq muted /\ muted \subseteq Outputs
  /\ exit \in 0..Passes /\ step \in {"takes", "drops", "flushes", "waits", "dead"}
  /\ dropped \in BOOLEAN /\ wedged \in BOOLEAN /\ flushed \in BOOLEAN
  /\ base \subseteq Outputs

MuteInit ==
  /\ seq = 0 /\ locked = {} /\ dropping = {} /\ queue = <<>>
  /\ making = [k \in Kinds |-> 0] /\ live = [k \in Kinds |-> 0]
  /\ owner = 0 /\ mode = {}
  /\ muted \in SUBSET Outputs /\ base = muted
  /\ exit = 0 /\ step = "takes" /\ dropped = FALSE /\ wedged = FALSE
  /\ flushed = FALSE

Dead == step = "dead"

-----------------------------------------------------------------------------
(* Sessions.  A start holds its state's lock throughout; the session it     *)
(* replaces is dropped first.                                               *)

StartBegin(k) ==
  /\ ~Dead /\ k \notin locked /\ seq < MaxGuards  \* bound
  /\ exit < Passes  \* no start gets in after the last cleanup
  /\ locked' = locked \cup {k}
  /\ live' = [live EXCEPT ![k] = 0]
  /\ queue' = IF live[k] = 0 THEN queue ELSE Append(queue, Unmute(live[k]))
  /\ UNCHANGED <<seq, making, dropping, workerVars, exitVars, base>>

(* SystemMuteGuard::new, once the input device is open.                     *)
MakesGuard(k) ==
  /\ ~Dead /\ k \in locked /\ making[k] = 0 /\ seq < MaxGuards  \* bound
  /\ seq' = seq + 1
  /\ making' = [making EXCEPT ![k] = seq + 1]
  /\ queue' = Append(queue, Mute(seq + 1))
  /\ UNCHANGED <<locked, live, dropping, workerVars, exitVars, base>>

StartOpens(k) ==
  /\ ~Dead /\ k \in locked /\ making[k] # 0
  /\ locked' = locked \ {k}
  /\ live' = [live EXCEPT ![k] = making[k]]
  /\ making' = [making EXCEPT ![k] = 0]
  /\ UNCHANGED <<seq, dropping, queue, workerVars, exitVars, base>>

(* No device, or the capture thread could not be spawned.                   *)
StartFails(k) ==
  /\ ~Dead /\ k \in locked
  /\ locked' = locked \ {k}
  /\ queue' = IF making[k] = 0 THEN queue ELSE Append(queue, Unmute(making[k]))
  /\ making' = [making EXCEPT ![k] = 0]
  /\ UNCHANGED <<seq, live, dropping, workerVars, exitVars, base>>

(* stop_* and cancel_*: the session leaves the state under the lock ...     *)
Takes(k) ==
  /\ ~Dead /\ k \notin locked /\ live[k] # 0
  /\ dropping' = dropping \cup {live[k]}
  /\ live' = [live EXCEPT ![k] = 0]
  /\ UNCHANGED <<seq, locked, making, queue, workerVars, exitVars, base>>

(* ... and its guard is dropped after the capture join.                     *)
Drops(g) ==
  /\ ~Dead /\ g \in dropping
  /\ dropping' = dropping \ {g}
  /\ queue' = Append(queue, Unmute(g))
  /\ UNCHANGED <<seq, locked, making, live, workerVars, exitVars, base>>

-----------------------------------------------------------------------------
(* The worker: MuteSlot::handle.                                            *)

Restored == muted \ mode

HandleMute(g) ==
  /\ mode' = Outputs \ Restored
  /\ muted' = Outputs
  /\ owner' = g

RestoreAll == muted' = Restored /\ mode' = {} /\ owner' = 0

(* Mutant: any Unmute restores.                                             *)
HandleUnmuteAny(g) == RestoreAll

HandleUnmute(g) ==
  IF g = owner THEN RestoreAll ELSE UNCHANGED workerVars

HandleFlush == RestoreAll

Worker ==
  /\ ~Dead /\ queue # <<>>
  /\ LET c == Head(queue) IN
       CASE c.op = "mute"   -> HandleMute(c.id)
         [] c.op = "unmute" -> HandleUnmute(c.id)
         [] OTHER           -> HandleFlush
  /\ queue' = Tail(queue)
  /\ UNCHANGED <<sessionVars, exitVars, base>>

(* The user changes an output while nothing of the worker's is applied.     *)
UserToggles(o) ==
  /\ ~Dead /\ mode = {} /\ owner = 0
  /\ base' = IF o \in base THEN base \ {o} ELSE base \cup {o}
  /\ muted' = IF o \in muted THEN muted \ {o} ELSE muted \cup {o}
  /\ UNCHANGED <<sessionVars, queue, owner, mode, exitVars>>

-----------------------------------------------------------------------------
(* cleanup_for_exit, up to three times.  Its drops join the capture thread, *)
(* then send the Unmute; taking a state waits for a start that holds it.    *)

ExitBegins ==
  /\ exit < Passes /\ ~Dead
  /\ exit = 0 \/ (step = "waits" /\ (flushed \/ wedged))
  /\ exit' = exit + 1 /\ step' = "takes" /\ dropped' = FALSE /\ flushed' = FALSE
  /\ UNCHANGED <<sessionVars, queue, workerVars, wedged, base>>

ExitTakes ==
  /\ exit > 0 /\ step = "takes" /\ Stream \notin locked
  /\ queue' = IF live[Stream] = 0 THEN queue ELSE Append(queue, Unmute(live[Stream]))
  /\ live' = [live EXCEPT ![Stream] = 0]
  /\ dropped' = (live[Stream] # 0)
  /\ step' = "drops"
  /\ UNCHANGED <<seq, locked, making, dropping, workerVars, exit, wedged,
                 flushed, base>>

ExitDrops ==
  /\ step = "drops" /\ Record \notin locked
  /\ queue' = IF live[Record] = 0 THEN queue ELSE Append(queue, Unmute(live[Record]))
  /\ live' = [live EXCEPT ![Record] = 0]
  /\ dropped' = (dropped \/ live[Record] # 0)
  /\ step' = "flushes"
  /\ UNCHANGED <<seq, locked, making, dropping, workerVars, exit, wedged,
                 flushed, base>>

(* Once a flush timed out, only a pass that took a session out tries again. *)
ExitFlushes ==
  /\ step = "flushes"
  /\ queue' = IF dropped \/ ~wedged THEN Append(queue, Flush(exit)) ELSE queue
  /\ step' = "waits"
  /\ UNCHANGED <<sessionVars, workerVars, exit, dropped, wedged, flushed, base>>

FlushPending == \E i \in DOMAIN queue : queue[i] = Flush(exit)

(* recv_timeout: the worker answered, or did not within 2 s.                *)
ExitAnswered ==
  /\ step = "waits" /\ ~flushed /\ ~FlushPending /\ (dropped \/ ~wedged)
  /\ flushed' = TRUE
  /\ UNCHANGED <<sessionVars, queue, workerVars, exit, step, dropped, wedged, base>>

ExitTimesOut ==
  /\ step = "waits" /\ FlushPending /\ ~wedged
  /\ wedged' = TRUE
  /\ UNCHANGED <<sessionVars, queue, workerVars, exit, step, dropped, flushed, base>>

(* The process ends; nothing runs any more.                                 *)
Dies ==
  /\ exit = Passes /\ step = "waits" /\ (flushed \/ wedged)
  /\ step' = "dead"
  /\ UNCHANGED <<sessionVars, queue, workerVars, exit, dropped, wedged, flushed, base>>

-----------------------------------------------------------------------------
SessionSteps ==
  \/ \E k \in Kinds : \/ StartBegin(k)
                      \/ MakesGuard(k)
                      \/ StartOpens(k)
                      \/ StartFails(k)
                      \/ Takes(k)
  \/ \E g \in Guards : Drops(g)

Exit ==
  \/ ExitBegins
  \/ ExitTakes
  \/ ExitDrops
  \/ ExitFlushes
  \/ ExitAnswered
  \/ ExitTimesOut
  \/ Dies

MuteNext ==
  \/ SessionSteps
  \/ Worker
  \/ \E o \in Outputs : UserToggles(o)
  \/ Exit

MuteSpec == MuteInit /\ [][MuteNext]_muteVars

-----------------------------------------------------------------------------
OpenGuards == {live[k] : k \in Kinds} \cup {making[k] : k \in Kinds} \cup dropping

(* However Mutes and late Unmutes cross: with no session left and the       *)
(* channel empty exactly what the user had muted is muted, and from its Mute *)
(* to its own drop, or the exit's flush, the newest session stays covered.   *)
(* When the last flush was answered the user's outputs are as they were at   *)
(* the end of the process, even if a stop was still joining its capture and  *)
(* its Unmute died with the worker.                                         *)
MuteFollowsTheSessions ==
  /\ (OpenGuards \subseteq {0} /\ queue = <<>>) \/ (Dead /\ flushed) => muted = base
  /\ \A g \in OpenGuards \ ({0} \cup dropping) :
       g = seq /\ Mute(g) \notin Range(queue) /\ exit = 0 => owner = g /\ muted = Outputs
=============================================================================
