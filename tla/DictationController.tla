------------------------ MODULE DictationController ------------------------
(***************************************************************************)
(* The window's dictation controller (src/lib/dictation/streaming.ts and   *)
(* dictation.ts) against the session slot in Rust.  The controller is one  *)
(* thread of turns; between turns, commands it sent take effect, Rust      *)
(* emits events, hotkey triggers arrive and the user acts.  A handler is    *)
(* an operator on the controller's state, so handlers that call each other *)
(* compose as the functions do.                                            *)
(***************************************************************************)
EXTENDS Integers, Sequences, SequencesExt

CONSTANTS
  Budgets,      \* the Backend's transport, the user's gestures, and how much
                \* may outlast a start's prologue (the last two are bounds)
  MaxSessions, MaxTriggers   \* bounds

ASSUME ConstantsAssumption ==
  /\ Budgets \subseteq [via : {"stream", "batch"}, gestures : Nat, late : Nat]
  /\ {MaxSessions, MaxTriggers} \subseteq Nat

VARIABLES
  ts,        \* the controller, see Idle
  chord,     \* the hotkey family's keys: "up", "down" (root), "handed"
  triggers,  \* triggers on their way to the window
  startCmd,  \* the start invoke: "none", "keyring", "ok", "err"
  replies,   \* continuations of commands that took effect
  slot,      \* Rust's session slot, 0 = None
  active,    \* the session ACTIVE_EPOCH belongs to, 0 = retired
  rs,        \* Rust's side of each session
  events,    \* stream:// events on their way to the window
  budget     \* what is left of the bounds: gestures, late

VARIABLES
  doomed,    \* history: sessions whose start a resume met over an error
  crossed    \* history: sessions that something late of an earlier one changed

rustVars == <<slot, active, rs>>
history == <<doomed, crossed>>
vars == <<ts, chord, triggers, startCmd, replies, rustVars, events, budget,
          history>>

Sessions == 1..MaxSessions

Idle(via) == [ via |-> via, status |-> "idle", pc |-> "none", n |-> 0,
          stopReq |-> FALSE, cancelDuring |-> FALSE,
          reclass |-> FALSE, restart |-> FALSE, startAct |-> "hold",
          cfg |-> 0, act |-> "hold", profile |-> "none",
          capturing |-> FALSE, endpoint |-> "none",
          watchdog |-> FALSE, errTimer |-> FALSE,
          pending |-> FALSE, check |-> "off",
          before |-> "none", tail |-> "none", ipc |-> <<>> ]

Busy(s)       == s.status \in {"listening", "transcribing", "translating", "injecting"}
Processing(s) == s.status \in {"transcribing", "translating", "injecting"}
Graceful(s)   == s.status = "listening" \/ (s.capturing /\ Processing(s))
Starting(s)   == s.pc # "none"

-----------------------------------------------------------------------------
(* streaming.ts: the pieces every handler is made of.                      *)

(* A command to the endpoint's slot; no endpoint reads as "stream".        *)
Send(s, cmd, next) ==
  [s EXCEPT !.ipc = Append(@, [ cmd |-> cmd, next |-> next, of |-> s.n,
     hits |-> (IF s.endpoint = "batch" THEN "batch" ELSE "stream") = s.via ])]

(* voidPendingHoldStart: the queued press, and a held-check in flight.     *)
VoidPending(s) == [s EXCEPT !.pending = FALSE, !.check = "off"]

FlashError(s) == [VoidPending(s) EXCEPT !.status = "error", !.errTimer = TRUE]

ArmWatchdog(s) == [s EXCEPT !.watchdog = (s.endpoint = "stream")]

(* What is left of the session once insertCfg changes.                     *)
Disown(s) == [s EXCEPT !.cfg = 0, !.tail = "none", !.before = "none",
                       !.watchdog = FALSE]

ConsumePending(s) ==
  IF s.pending THEN [s EXCEPT !.pending = FALSE, !.check = "asked"] ELSE s

Settle(s) ==
  ConsumePending([s EXCEPT !.status = "idle", !.profile = "none", !.tail = "none"])
SettleKeepingError(s) ==
  ConsumePending([s EXCEPT !.profile = "none", !.tail = "none"])
(* The session ended short with nothing kept: an error, the press stays.   *)
SettleShort(s) ==
  ConsumePending([FlashError(s) EXCEPT !.profile = "none", !.tail = "none",
                                       !.pending = s.pending])

StopLive(s) ==
  IF s.pc = "invoke"
    THEN [s EXCEPT !.stopReq = TRUE]
    ELSE Send(ArmWatchdog([s EXCEPT !.capturing = FALSE, !.status = "transcribing"]),
              "stop", "stop")

TornDown(s) ==
  [VoidPending(Disown(s)) EXCEPT
     !.status = "idle", !.profile = "none", !.endpoint = "none",
     !.capturing = FALSE, !.reclass = FALSE, !.restart = FALSE]

CancelLiveUnowed(s, next) ==   \* mutant: cancels at once during the invoke
  TornDown(Send(s, "cancel", next))

CancelLive(s, next) ==
  IF s.pc = "invoke"
    THEN [TornDown(s) EXCEPT !.cancelDuring = TRUE]
    ELSE TornDown(Send(s, "cancel", next))

(* stream://error's teardown and teardownAfterFatalInject.                 *)
Abandon(s) ==
  [Send(Send(FlashError(Disown(s)), "stop", "none"), "retire", "none")
     EXCEPT !.endpoint = "none", !.capturing = FALSE]

(* stopLive's catch: nothing to stop any more, and no check of whose.      *)
StopRejected(s) ==
  FlashError([Send(Disown(s), "retire", "none")
                EXCEPT !.endpoint = "none", !.capturing = FALSE])

-----------------------------------------------------------------------------
(* Starting; the chord family's upgrade and restart.                       *)

StartLive(s, activation, profile) ==
  IF Starting(s) THEN [s EXCEPT !.profile = profile]
  ELSE [s EXCEPT !.profile = profile, !.pc = "prologue", !.startAct = activation,
                 !.stopReq = FALSE, !.reclass = FALSE, !.restart = FALSE,
                 !.errTimer = FALSE]

LiveActivation(s) ==
  CASE ~Starting(s) -> IF s.cfg = 0 THEN "none" ELSE s.act
    [] Starting(s) /\ s.reclass -> "handsfree"
    [] OTHER -> IF s.capturing /\ s.cfg # 0 THEN s.act ELSE s.startAct

ApplyReclassify(s) == [s EXCEPT !.act = "handsfree", !.profile = "F"]

ReclassifyLive(s) ==
  IF Starting(s) THEN [s EXCEPT !.reclass = TRUE]
  ELSE IF s.cfg = 0 \/ ~s.capturing THEN s ELSE ApplyReclassify(s)

RestartLiveAs(s) ==
  LET t == [s EXCEPT !.reclass = FALSE]
  IN IF Starting(t) THEN [t EXCEPT !.restart = TRUE]
     ELSE IF ~t.capturing THEN t ELSE CancelLive(t, "restart")

RequestStopIfStarting(s) == [s EXCEPT !.stopReq = @ \/ Starting(s)]

-----------------------------------------------------------------------------
(* dictation.ts.  "H" is the push-to-talk root, "F" the hands-free one.    *)

StopOrCancelKeepsPress(s, hard) ==   \* mutant: a release keeps a held-check in flight
  IF Graceful(s) THEN StopLive(s)
  ELSE IF Processing(s)
    THEN VoidPending(IF hard THEN CancelLive(s, "none") ELSE s)
  ELSE RequestStopIfStarting(s)

StopOrCancel(s, hard) ==
  IF Graceful(s) THEN StopLive(s)
  ELSE IF Processing(s)
    THEN VoidPending(IF hard THEN CancelLive(s, "none") ELSE s)
  ELSE VoidPending(RequestStopIfStarting(s))

DictateStart(s) ==
  CASE Starting(s) /\ s.profile = "H" -> [s EXCEPT !.stopReq = FALSE]
    [] (Busy(s) \/ Starting(s)) /\ ~(Starting(s) /\ s.profile = "H") ->
         [s EXCEPT !.pending = @ \/ (Processing(s) /\ ~s.capturing)]
    [] OTHER -> StartLive(s, "hold", "H")

DictateToggle(s) ==
  IF Busy(s) THEN StopOrCancel(s, TRUE)
  ELSE IF Starting(s) THEN RequestStopIfStarting(s)
  ELSE StartLive(s, "handsfree", "F")

(* `same`: both Profiles resolve to one session shape.                     *)
DictateReclassify(s, same) ==
  IF ~Busy(s) /\ ~Starting(s) THEN StartLive(s, "handsfree", "F")
  ELSE IF s.profile = "F" THEN StopOrCancel(s, TRUE)
  ELSE IF ~s.capturing /\ ~Starting(s) THEN VoidPending(s)
  ELSE IF LiveActivation(s) # "hold" THEN StopOrCancel(s, TRUE)
  ELSE IF same THEN ReclassifyLive(s) ELSE RestartLiveAs(s)

(* The Home button: a stop, a cancel or a hands-free start.                *)
HomeToggle(s) ==
  IF Graceful(s) THEN StopLive(s)
  ELSE IF Processing(s) THEN CancelLive(s, "none")
  ELSE IF Starting(s) THEN RequestStopIfStarting(s)
  ELSE StartLive(s, "handsfree", "F")

SystemResumed(s) ==
  IF s.status # "idle" THEN CancelLive(s, "none") ELSE RequestStopIfStarting(s)

-----------------------------------------------------------------------------
(* startLive after startLiveInner: its `finally`.                          *)

Finally(s) ==
  LET t == [s EXCEPT !.pc = "none", !.restart = FALSE, !.reclass = FALSE]
  IN CASE s.restart -> IF s.capturing THEN CancelLive(t, "restart")
                       ELSE DictateToggle(t)
       [] ~s.restart /\ s.reclass -> ReclassifyLive(t)
       [] OTHER -> t

SessionUp(s) ==
  LET t == [Disown(s) EXCEPT
              !.n = @ + 1, !.cfg = s.n + 1, !.act = s.startAct,
              !.status = "listening", !.endpoint = s.via, !.capturing = TRUE,
              !.pc = "invoke", !.cancelDuring = FALSE, !.reclass = FALSE]
  IN IF s.reclass THEN ApplyReclassify(t) ELSE t

InvokeResolvedStopsAnyway(s) ==   \* mutant: stops a session already torn down
  LET t == [s EXCEPT !.pc = "owed", !.cancelDuring = FALSE, !.endpoint = s.via]
      u == [s EXCEPT !.pc = "none"]
  IN CASE s.cancelDuring ->
            [Send(t, "cancel", "owed") EXCEPT !.stopReq = FALSE, !.endpoint = s.endpoint]
       [] ~s.cancelDuring /\ s.stopReq /\ ~s.restart ->
            Finally(StopLive([u EXCEPT !.stopReq = FALSE]))
       [] OTHER -> Finally(u)

InvokeResolved(s) ==
  LET t == [s EXCEPT !.pc = "owed", !.cancelDuring = FALSE, !.endpoint = s.via]
      u == [s EXCEPT !.pc = "none"]
  IN CASE s.cancelDuring ->
            [Send(t, "cancel", "owed") EXCEPT !.stopReq = FALSE, !.endpoint = s.endpoint]
       [] ~s.cancelDuring /\ s.stopReq /\ ~s.restart ->
            LET v == [u EXCEPT !.stopReq = FALSE]
            IN Finally(IF s.capturing THEN StopLive(v) ELSE v)
       [] OTHER -> Finally(u)

InvokeRejected(s) ==
  LET t == [s EXCEPT !.endpoint = "none", !.capturing = FALSE, !.cancelDuring = FALSE]
  IN Finally(IF s.cancelDuring THEN t ELSE FlashError(t))

-----------------------------------------------------------------------------
(* Events.  A closed session either settles at once or leaves a tail: the   *)
(* stop-mode insert ("insert") or the queue still draining ("quiet").       *)

Ended(s) == [s EXCEPT !.capturing = FALSE, !.watchdog = FALSE]

ClosedKeepsSession(s, tail, short) ==   \* mutant: no release of a parked session
  LET t == [Ended(s) EXCEPT !.status = "transcribing"]
  IN CASE s.status \in {"error", "idle"} -> Ended(s)
       [] tail = "none" \/ s.cfg = 0 -> IF short THEN SettleShort(t) ELSE Settle(t)
       [] tail = "insert" -> [t EXCEPT !.status = "injecting", !.tail = "insert"]
       [] OTHER -> [t EXCEPT !.tail = "quiet"]

Closed(s, tail, short) ==
  LET t == [Send(Ended(s), "release", "none") EXCEPT !.status = "transcribing"]
  IN CASE s.status \in {"error", "idle"} -> Ended(s)
       [] ~(s.status \in {"error", "idle"}) /\ (tail = "none" \/ s.cfg = 0) ->
            IF short THEN SettleShort(t) ELSE Settle(t)
       [] ~(s.status \in {"error", "idle"}) /\ s.cfg # 0 /\ tail = "insert" ->
            [t EXCEPT !.status = "injecting", !.tail = "insert"]
       [] OTHER -> [t EXCEPT !.tail = "quiet"]

Errored(s) == IF Busy(s) THEN Abandon(s) ELSE s

-----------------------------------------------------------------------------
Init ==
  /\ \E b \in Budgets : ts = Idle(b.via) /\ budget = [gestures |-> b.gestures, late |-> b.late]
  /\ chord = "up" /\ triggers = <<>> /\ startCmd = "none"
  /\ replies = {} /\ slot = 0 /\ active = 0
  /\ rs = [e \in Sessions |-> "none"]
  /\ events = <<>> /\ doomed = {} /\ crossed = {}

(* One turn of the controller that sees nothing from outside.              *)
Turn(t) ==
  /\ ts' = t
  /\ UNCHANGED <<chord, triggers, startCmd, replies, rustVars, events, budget,
                 history>>

(* Something of session `of` changes the window's session, a later one.      *)
Crosses(of) ==
  crossed' = IF of < ts.n /\ ts' # ts THEN crossed \cup {ts.n} ELSE crossed

(* What was sent, and not yet taken note of.                                 *)
Outstanding == Len(ts.ipc) + Len(events) + Cardinality({r \in replies : r.next = "reject"})

(* The prologue awaits the listeners and the focused app, and nothing that    *)
(* was sent before: a command's lock or an event may come later than it does. *)
(* Only the held-check, a synchronous command asked before the focused app    *)
(* is, has answered by then.                                                *)
PrologueResolves ==
  /\ ts.pc = "prologue" /\ ts.n < MaxSessions /\ ts.check = "off"
  /\ Outstanding <= budget.late                            \* bound
  /\ ts' = SessionUp(ts) /\ startCmd' = "keyring"
  /\ UNCHANGED <<chord, triggers, replies, rustVars, events, budget, history>>

PrologueRejects ==
  /\ ts.pc = "prologue" /\ ts' = Finally(FlashError(ts))
  /\ doomed' = doomed \ {ts.n + 1}
  /\ UNCHANGED <<crossed, chord, triggers, startCmd, replies, rustVars, events, budget>>

InvokeReturns ==
  /\ startCmd \in {"ok", "err"} /\ startCmd' = "none"
  /\ ts' = IF startCmd = "ok" THEN InvokeResolved(ts) ELSE InvokeRejected(ts)
  /\ UNCHANGED <<chord, triggers, replies, rustVars, events, budget, history>>

ReplyArrives ==
  \E r \in replies :
    /\ replies' = replies \ {r}
    /\ \/ r.next = "owed" /\ ts' = Finally(ts)
       \/ r.next = "restart" /\ ts' = DictateToggle(ts)
       \/ r.next = "recover" /\ ts' = IF Starting(ts) \/ ts.cfg # 0 \/ Busy(ts)
                                      THEN ts ELSE FlashError(ts)
       \/ r.next = "reject" /\ ts' = StopRejected(ts)
    /\ IF r.next = "reject" THEN Crosses(r.of) ELSE UNCHANGED crossed
    /\ UNCHANGED <<chord, triggers, startCmd, rustVars, events, budget, doomed>>

EventArrives ==
  /\ events # <<>> /\ events' = Tail(events)
  /\ \/ Head(events).ev = "error" /\ ts' = Errored(ts)
     \/ /\ Head(events).ev = "closed"
        /\ \E tail \in {"none", "insert", "quiet"}, short \in BOOLEAN :
             \* what was dictated outlasts the start's own answer
             /\ tail # "none" => startCmd = "none"
             /\ ts' = Closed(ts, tail, short)
  /\ Crosses(Head(events).of)
  /\ UNCHANGED <<chord, triggers, startCmd, replies, rustVars, budget, doomed>>

TriggerArrives ==
  /\ triggers # <<>> /\ triggers' = Tail(triggers)
  /\ \/ Head(triggers) = "start" /\ ts' = DictateStart(ts)
     \/ Head(triggers) = "stop" /\ ts' = StopOrCancel(ts, FALSE)
     \/ Head(triggers) = "toggle" /\ ts' = DictateToggle(ts)
     \/ /\ Head(triggers) = "reclassify"
        /\ \E same \in BOOLEAN : ts' = DictateReclassify(ts, same)
  /\ UNCHANGED <<chord, startCmd, replies, rustVars, events, budget, history>>

(* consumePendingHoldStart's answer about the chord.                       *)
HeldCheckReads ==
  ts.check = "asked" /\ Turn([ts EXCEPT !.check = IF chord = "up" THEN "up" ELSE "held"])

HeldCheckAnswers ==
  /\ ts.check \in {"up", "held"}
  /\ LET t == [ts EXCEPT !.check = "off"]
     IN Turn(IF ts.check = "held" /\ ts.status \in {"idle", "error"}
             THEN DictateStart(t) ELSE t)

ErrorLingers ==
  /\ ts.errTimer
  /\ LET t == [ts EXCEPT !.errTimer = FALSE]
     IN Turn(IF ts.status = "error"
             THEN [t EXCEPT !.status = "idle", !.profile = "none"] ELSE t)

StuckWatchdog ==
  /\ ts.watchdog
  /\ LET t == [ts EXCEPT !.watchdog = FALSE]
     IN \/ ts.status = "translating" /\ ~ts.capturing /\ Turn(ArmWatchdog(t))
        \/ /\ ts.status = "transcribing"
           /\ \E next \in {"none"} \cup (IF ts.cfg # 0 THEN {"recover"} ELSE {}) :
                Turn(CancelLive(t, next))
        \/ /\ ts.status # "transcribing" /\ ~(ts.status = "translating" /\ ~ts.capturing)
           /\ Turn(t)

HandsFreeAutoStop ==
  ts.capturing /\ ts.act = "handsfree" /\ Turn(StopLive(ts))

(* A live phrase: a final of the window's session is in the inject queue.   *)
PhraseQueued ==
  ts.via = "stream" /\ ts.before = "none" /\ ts.cfg # 0 /\ rs[ts.cfg] # "none"

PhraseTranslates ==
  /\ PhraseQueued /\ ts.tail = "none" /\ rs[ts.cfg] # "over"
  /\ ts.status \in {"listening", "transcribing"}
  /\ Turn([ts EXCEPT !.before = ts.status, !.status = "translating"])

PhraseTranslated ==
  /\ ts.before # "none"
  /\ Turn([ts EXCEPT !.before = "none",
             !.status = IF @ = "translating" THEN ts.before ELSE @])

LivePhraseFails ==
  /\ PhraseQueued /\ Busy(ts) /\ Turn(Abandon(ts))

TailEnds ==
  /\ ts.tail # "none" /\ ts.before = "none"
  /\ Turn(CASE ts.tail = "insert" /\ ts.status = "injecting" -> Settle(ts)
            [] ts.tail = "quiet" /\ ts.status = "transcribing" -> Settle(ts)
            [] OTHER -> [ts EXCEPT !.tail = "none"])

(* The whole-session insert fails: flash, then the bookkeeping settle.      *)
InsertFails ==
  /\ ts.tail = "insert" /\ ts.status = "injecting"
  /\ Turn(SettleKeepingError(FlashError(ts)))

-----------------------------------------------------------------------------
(* Rust.  A start waits for the keyring, then replaces the slot's session.  *)

StartTakesEffect ==
  /\ startCmd = "keyring"
  /\ LET stopped == IF slot = 0 THEN rs ELSE [rs EXCEPT ![slot] = "over"]
     IN \/ /\ startCmd' = "ok" /\ slot' = ts.n /\ active' = ts.n
           /\ rs' = [stopped EXCEPT ![ts.n] = "live"]
        \/ /\ startCmd' = "err" /\ slot' = 0 /\ rs' = stopped /\ UNCHANGED active
  /\ UNCHANGED <<ts, chord, triggers, replies, events, budget, history>>

Released(to) ==
  /\ slot' = 0
  /\ rs' = IF slot = 0 THEN rs
           ELSE [rs EXCEPT ![slot] = IF to = "draining" /\ @ # "live" THEN @ ELSE to]

(* The sessions a command ends or silences that began after it was sent.     *)
Overtakes(c) ==
  {e \in (IF c.hits /\ c.cmd # "retire" THEN {slot} ELSE {})
         \cup (IF c.cmd # "stop" THEN {active} ELSE {}) : c.of < e}

(* A command takes the slot's lock, in any order with the others.          *)
CommandTakesEffect ==
  /\ \E i \in DOMAIN ts.ipc :
       LET c == ts.ipc[i] IN
       /\ ts' = [ts EXCEPT !.ipc = RemoveAt(@, i)]
       /\ crossed' = crossed \cup Overtakes(c)
       /\ \/ /\ c.cmd = "stop"
             /\ IF c.hits THEN Released("draining") ELSE UNCHANGED <<slot, rs>>
             /\ UNCHANGED active
             /\ \/ UNCHANGED replies
                \/ /\ c.next = "stop" /\ replies' = replies \cup {[next |-> "reject", of |-> c.of]}
          \/ /\ c.cmd \in {"cancel", "release"}
             /\ IF c.hits THEN Released("over") ELSE UNCHANGED <<slot, rs>>
             /\ active' = 0
             /\ replies' = replies \cup
                  (IF c.next = "none" THEN {} ELSE {[next |-> c.next, of |-> c.of]})
          \/ /\ c.cmd = "retire" /\ active' = 0
             /\ UNCHANGED <<slot, rs, replies>>
  /\ UNCHANGED <<chord, triggers, startCmd, events, budget, doomed>>

Emit(e, ev) == events' = IF active = e THEN Append(events, [ev |-> ev, of |-> e]) ELSE events

(* A server error while live, or a drain or transcription that fails.       *)
SessionErrors(e) ==
  /\ rs[e] = "draining" \/ (rs[e] = "live" /\ ts.via = "stream")
  /\ rs' = [rs EXCEPT ![e] = "errored"] /\ Emit(e, "error")
  /\ UNCHANGED <<ts, chord, triggers, startCmd, replies, slot, active, budget, history>>

(* A drain ends, or a live session ends by itself and stays parked.         *)
SessionCloses(e) ==
  /\ rs[e] \in {"live", "draining", "errored"}
  /\ rs' = [rs EXCEPT ![e] = "over"] /\ Emit(e, "closed")
  /\ UNCHANGED <<ts, chord, triggers, startCmd, replies, slot, active, budget, history>>

(* A drain whose socket died in a suspend: no close ever comes.             *)
DrainGoesSilent(e) ==
  /\ ts.via = "stream" /\ rs[e] = "draining"
  /\ rs' = [rs EXCEPT ![e] = "over"]
  /\ UNCHANGED <<ts, chord, triggers, startCmd, replies, slot, active, events,
                 budget, history>>

-----------------------------------------------------------------------------
(* The user.  The chord engine turns key edges into triggers.              *)

Key(from, to, fire) ==
  /\ chord = from /\ chord' = to
  /\ Len(triggers) + Len(fire) <= MaxTriggers            \* bound
  /\ triggers' = triggers \o fire
  /\ UNCHANGED <<ts, startCmd, replies, rustVars, events, history>>

Gesture == budget.gestures > 0 /\ budget' = [budget EXCEPT !.gestures = @ - 1]

PressRoot     == Gesture /\ Key("up", "down", <<"start">>)
PressFamily   == Gesture /\ Key("up", "handed", <<"toggle">>)
CompleteChord == Gesture /\ Key("down", "handed", <<"reclassify">>)
PressAgain    == Gesture /\ Key("handed", "handed", <<"toggle">>)
ReleaseRoot   == Key("down", "up", <<"stop">>) /\ UNCHANGED budget
ReleaseHanded == Key("handed", "up", <<>>) /\ UNCHANGED budget

HomeButton ==
  /\ Gesture /\ ts' = HomeToggle(ts)
  /\ UNCHANGED <<chord, triggers, startCmd, replies, rustVars, events, history>>

(* The listener's rebuild after a sleep lets a held chord go with its stop. *)
Resume ==
  /\ Gesture /\ chord = "up" /\ ts' = SystemResumed(ts)
  /\ doomed' = IF ts.pc = "prologue" /\ ts.status # "idle"
               THEN doomed \cup {ts.n + 1} ELSE doomed
  /\ UNCHANGED <<chord, triggers, startCmd, replies, rustVars, events, crossed>>

Controller ==
  \/ PrologueResolves \/ PrologueRejects \/ InvokeReturns \/ ReplyArrives
  \/ EventArrives \/ TriggerArrives \/ HeldCheckReads \/ HeldCheckAnswers
  \/ ErrorLingers \/ StuckWatchdog \/ HandsFreeAutoStop
  \/ PhraseTranslates \/ PhraseTranslated \/ LivePhraseFails \/ TailEnds \/ InsertFails
Rust ==
  \/ StartTakesEffect \/ CommandTakesEffect
  \/ \E e \in Sessions : SessionErrors(e) \/ SessionCloses(e) \/ DrainGoesSilent(e)
User ==
  \/ PressRoot \/ PressFamily \/ CompleteChord \/ PressAgain \/ ReleaseRoot
  \/ ReleaseHanded \/ HomeButton \/ Resume

Next == Controller \/ Rust \/ User

Spec == Init /\ [][Next]_vars

(* Every await answers, every event and command arrives, every drain or     *)
(* transcription ends; nobody has to press, stop or cancel.                 *)
Fairness ==
  /\ WF_vars(InvokeReturns) /\ WF_vars(ReplyArrives) /\ WF_vars(EventArrives)
  /\ WF_vars(StuckWatchdog) /\ WF_vars(PhraseTranslated) /\ WF_vars(TailEnds)
  /\ WF_vars(StartTakesEffect) /\ WF_vars(CommandTakesEffect)
  /\ \A e \in Sessions : WF_vars(rs[e] # "live" /\ SessionCloses(e))

FairSpec == Spec /\ Fairness

-----------------------------------------------------------------------------
(* Types of the controller's state, of Rust's and of what travels between.  *)
ControllerType ==
  /\ ts.via \in {"stream", "batch"}
  /\ ts.status \in {"idle", "error", "listening", "transcribing", "translating",
                    "injecting"}
  /\ ts.pc \in {"none", "prologue", "invoke", "owed"}
  /\ ts.n \in 0..MaxSessions /\ ts.cfg \in {0, ts.n}
  /\ ts.tail # "none" => ts.cfg # 0
RustType ==
  /\ slot \in 0..MaxSessions /\ active \in 0..MaxSessions
  /\ rs \in [Sessions -> {"none", "live", "draining", "errored", "over"}]
TravelType ==
  /\ startCmd \in {"none", "keyring", "ok", "err"}
  /\ startCmd # "none" => ts.pc = "invoke"
  /\ Len(triggers) <= MaxTriggers
TypeOK == ControllerType /\ RustType /\ TravelType

Quiet == ts.ipc = <<>> /\ events = <<>> /\ startCmd = "none" /\ ~Starting(ts)

(* With nothing on its way the chip tells the truth about the microphone: an  *)
(* idle or errored one means Rust holds no session, and the session the       *)
(* window records is the one Rust holds, running, and may still emit its      *)
(* close.  Not said of a session that a command, an event or a rejection of   *)
(* an earlier one reached late, which nothing in the code keeps from it (see  *)
(* RetireSparesSuccessors): it is named by `crossed`.                       *)
ChipMatchesTheMic ==
  Quiet /\ ts.n \notin crossed =>
    /\ ts.status \in {"idle", "error"} => slot = 0
    /\ ts.capturing => slot = ts.cfg /\ active = slot /\ rs[slot] # "over"

(* The start a resume met over an error, which it could not mark.           *)
Unmarked(s) == (IF s.pc = "prologue" THEN s.n + 1 ELSE s.n) \in doomed

(* Once the push-to-talk chord is up and its triggers were handled, no       *)
(* push-to-talk session records, and one still starting owes its stop,       *)
(* except one that ResumeEndsTheStart speaks of.                            *)
ReleasedChordStops ==
  chord # "down" /\ triggers = <<>> /\ ~Unmarked(ts) =>
    /\ ~Starting(ts) => ~(ts.capturing /\ ts.act = "hold")
    /\ Starting(ts) /\ LiveActivation(ts) = "hold" =>
         ts.stopReq \/ ts.restart \/ ts.cancelDuring \/ ts.pc = "owed"
         \/ (ts.pc = "invoke" /\ ~ts.capturing)

(* The chip leaves "finalizing" and "inserting" by itself, unless something   *)
(* late of an earlier session reached this one: a batch session silenced by   *)
(* an older cancel gets no close, and batch has no watchdog.                *)
FinalizeEnds ==
  (Busy(ts) /\ ~ts.capturing) ~> (~Busy(ts) \/ ts.capturing \/ ts.n \in crossed)

(* A cancel or an error retires the epoch of its own session, "before any     *)
(* successor claims one" (session.rs, retire_active_epoch): the window's      *)
(* commands are not awaited and may take the lock after the next start.     *)
RetireSparesSuccessors ==
  [][ active # 0 /\ active' = 0 =>
        \E i \in DOMAIN ts.ipc :
          ts.ipc[i].of >= active /\ ts'.ipc = RemoveAt(ts.ipc, i) ]_vars

(* "a superseded/cancelled session's late drain can't bleed into the next    *)
(* one" (session.rs): an event of another session changes nothing.           *)
LateEventNeverBleeds ==
  [][ events # <<>> /\ events' = Tail(events) /\ ts.cfg # 0 /\ Busy(ts)
      /\ Head(events).of # ts.cfg => ts' = ts ]_vars

(* "session-token checked like every other post-await write here"            *)
(* (streaming.ts, translatePhrase): a stop's late rejection changes nothing  *)
(* of the session that started meanwhile.                                   *)
StaleRejectIsIgnored ==
  [][ \A r \in replies \ replies' :
        r.next = "reject" /\ ts.cfg # 0 /\ r.of # ts.cfg => ts'.cfg = ts.cfg ]_vars

(* "mark it to tear down on go-live" (App.tsx): a start a resume from sleep   *)
(* met never records once it is up, not even one behind a lingering error.   *)
ResumeEndsTheStart ==
  ~Starting(ts) /\ ts.capturing => ts.cfg \notin doomed
=============================================================================
