--------------------------- MODULE HotkeyListener ---------------------------
(***************************************************************************)
(* The Linux hotkey backend around the chord engine                        *)
(* (src-tauri/src/hotkeys/evdev.rs, debounce.rs, held_keys.rs): the reader *)
(* task of each listener start, the teardown that replaces it, the shared  *)
(* registries both write, and the injection gate that reads them.  Aborting *)
(* a reader stops it only at its next await, so a reader inside a commit    *)
(* runs on beside the teardown and beside its successor.  One keyboard.    *)
(***************************************************************************)
EXTENDS ChordEngine, FiniteSets

CONSTANTS
  Keys, Mods,       \* the keys in use, and the shortcut modifiers among them
  Chords,           \* the registered chords
  MaxPresses, MaxGen, MaxLosses   \* bounds

ASSUME ListenerAssumption ==
  /\ IsFiniteSet(Keys) /\ Mods \subseteq Keys
  /\ Chords \in Seq([keys : (SUBSET Keys) \ {{}}, kind : ChordKinds])
  /\ MaxPresses \in Nat /\ MaxGen \in Nat /\ MaxLosses \in Nat

VARIABLES
  phys,        \* the keys physically down
  generation,  \* GENERATION
  alive,       \* the generation whose reader EvdevState owns, 0 = none
  reader,      \* the reader of each generation
  holds,       \* ACTIVE_HOLDS: profile -> generation of the reader, 0 = absent
  heldKeys,    \* HeldKeys: the keys counted down
  writers,     \* HeldKeys' own generation
  latch,       \* MODS_LOST_AT
  trig,        \* TRIGGER_MODS
  td,          \* the apply that holds APPLY_LOCK: its steps, the stops in its hand
  session,     \* the session running in the window
  presses, losses   \* bounds

VARIABLES
  intoChord    \* history: what was typed into the chord that cut it loose:
               \* "plain" or, a chord having fired since, "refired"

registries == <<holds, heldKeys, writers, latch, trig>>
bounds     == <<presses, losses>>
vars == <<phys, generation, alive, reader, registries, td, session, bounds, intoChord>>

Profiles == DOMAIN Chords
Gens     == 1..MaxGen
ModsOf(p) == Chords[p].keys \cap Mods

NoReader == [st |-> "none", w |-> 0, q |-> <<>>, held |-> {}, pend |-> <<>>,
             engine |-> NewEngine, ev |-> <<>>, todo |-> <<>>, fires |-> <<>>]
NoSession == [mode |-> "none", by |-> 0, down |-> {}, refired |-> FALSE]

Init ==
  /\ phys = {} /\ generation = 1 /\ alive = 1
  /\ reader = [g \in Gens |-> IF g = 1 THEN [NoReader EXCEPT !.st = "parked"] ELSE NoReader]
  /\ holds = [p \in Profiles |-> 0] /\ heldKeys = {} /\ writers = 0
  /\ latch = FALSE /\ trig = {}
  /\ td = [steps |-> <<>>, owed |-> <<>>]
  /\ session = NoSession
  /\ presses = 0 /\ losses = 0 /\ intoChord = {}

-----------------------------------------------------------------------------
(* The keyboard.  Every open reader gets every event; the kernel queues it. *)
Running(g) == reader[g].st \in {"busy", "post"}
Open(g)    == reader[g].st \in {"parked", "busy"} /\ <<"lost">> \notin ToSet(reader[g].q)

Deliver(ev) ==
  reader' = [g \in Gens |->
               IF Open(g) THEN [reader[g] EXCEPT !.q = Append(@, ev)] ELSE reader[g]]

(* An aborted reader's synchronous code is done before a key moves again;  *)
(* only the blocking device scan of a manufactured stop may outlast that.  *)
Scanning(g) == reader[g].fires # <<>> /\ Head(reader[g].fires)[1] = "manufacture"
MayMove == \A g \in Gens : Running(g) /\ g # alive => Scanning(g)

Press(k) ==
  /\ MayMove /\ presses < MaxPresses /\ k \notin phys
  /\ phys' = phys \cup {k} /\ presses' = presses + 1
  /\ Deliver(<<"down", k>>)
  /\ UNCHANGED <<generation, alive, registries, td, session, losses, intoChord>>

Release(k) ==
  /\ MayMove /\ k \in phys
  /\ phys' = phys \ {k}
  /\ Deliver(<<"up", k>>)
  \* a modifier let go is no longer a reason to hold a transcript back
  /\ session' = [session EXCEPT !.down = @ \ {k}]
  /\ UNCHANGED <<generation, alive, registries, td, bounds, intoChord>>

(* The stream ends: the keyboard is unplugged, or its read fails.          *)
StreamEnds ==
  /\ MayMove /\ losses < MaxLosses /\ alive # 0 /\ Open(alive)
  /\ losses' = losses + 1
  /\ Deliver(<<"lost">>)
  /\ \E keys \in {phys, {}} :
       /\ phys' = keys
       /\ session' = [session EXCEPT !.down = @ \cap keys]
  /\ UNCHANGED <<generation, alive, registries, td, presses, intoChord>>

-----------------------------------------------------------------------------
(* What the window makes of a trigger (dictation.ts, dictate).  A stopped   *)
(* session is busy until its transcript is injected; `down` are the chord's *)
(* modifiers a manufactured stop was cut under and not let go since,        *)
(* `refired` whether a chord fired since.                                  *)
RunSession(p, mode) == session' = [NoSession EXCEPT !.mode = mode, !.by = p]

IsCapturing == session.mode \in {"hold", "handsFree"}

StopSession(down) ==
  session' = IF IsCapturing
             THEN [NoSession EXCEPT !.mode = "finalizing", !.down = down] ELSE session

KeepSession == session' = [session EXCEPT !.refired = TRUE]

(* emit's snapshot_trigger_mods.                                           *)
Snapshot(p) == trig' = ModsOf(p) \cap heldKeys

(* A chord fired: the latch's premise is void (clear_chord_lost), and the  *)
(* chord's modifiers are snapshotted.                                      *)
Rises(p) == latch' = FALSE /\ Snapshot(p)

(* register_hold_then, under the ACTIVE_HOLDS lock: registered and emitted *)
(* only while the reader's generation is the live one.                     *)
DoStart(g, p) ==
  IF g = generation
  THEN /\ Rises(p) /\ holds' = [holds EXCEPT ![p] = g]
       /\ IF session = NoSession THEN RunSession(p, "hold") ELSE KeepSession
  ELSE UNCHANGED <<holds, latch, trig, session>>

(* A toggle over a busy session stops it, or discards what it finalizes.   *)
DoToggle(p) ==
  /\ Rises(p) /\ UNCHANGED holds
  /\ CASE session = NoSession -> RunSession(p, "handsFree")
       [] IsCapturing -> StopSession({})
       [] OTHER -> session' = NoSession

DoReclassify(p) ==
  /\ Rises(p) /\ UNCHANGED holds
  /\ CASE session.mode \in {"none", "hold"} -> RunSession(p, "handsFree")
       [] session.mode = "handsFree" -> StopSession({})
       [] OTHER -> KeepSession

-----------------------------------------------------------------------------
(* run_device.                                                             *)
HasWork(r) == r.fires # <<>> \/ r.todo # <<>> \/ r.ev # <<>>

(* The await returns: a deferred release is due, or an event, or both.  The *)
(* due releases are the oldest of the parked ones.                         *)
Wake(g) ==
  LET r == reader[g] IN
  /\ r.st \in {"parked", "busy"} /\ ~HasWork(r)
  /\ \E due \in 0..Len(r.pend), event \in {0, 1} :
       /\ due + event > 0 /\ event <= Len(r.q)
       \* expire() runs before the event that woke the reader, unless it ended
       /\ event = 1 /\ Head(r.q) = <<"lost">> => due = 0
       /\ reader' = [reader EXCEPT ![g] =
            [r EXCEPT !.st = "busy",
                      !.todo = [i \in 1..due |-> <<"up", r.pend[i]>>],
                      !.pend = SubSeq(@, due + 1, Len(@)),
                      !.ev = IF event = 1 THEN Head(r.q) ELSE <<>>,
                      !.q = IF event = 1 THEN Tail(@) ELSE @]]
  /\ UNCHANGED <<phys, generation, alive, registries, td, session, bounds, intoChord>>

(* Back at the await; an aborted reader is dropped there.                  *)
Park(g) ==
  /\ reader[g].st = "busy" /\ ~HasWork(reader[g])
  /\ reader' = [reader EXCEPT ![g] = IF g = alive THEN [@ EXCEPT !.st = "parked"]
                                     ELSE [NoReader EXCEPT !.st = "gone"]]
  /\ UNCHANGED <<phys, generation, alive, registries, td, session, bounds, intoChord>>

(* A key's one deferred release is withdrawn.                              *)
Withdraw(pend, k) == RemoveAt(pend, CHOOSE i \in DOMAIN pend : pend[i] = k)

(* Debouncer::on_event in front of the commit.                             *)
OnEvent(r) ==
  LET k == r.ev[2] IN
  IF r.ev[1] = "down"
  THEN IF k \in ToSet(r.pend)
       THEN [r EXCEPT !.pend = Withdraw(@, k)]
       ELSE [r EXCEPT !.todo = <<r.ev>>]
  ELSE IF k \notin r.held THEN [r EXCEPT !.todo = <<r.ev>>]
  ELSE [r EXCEPT !.pend = IF k \in ToSet(@) THEN @ ELSE Append(@, k)]

Debounce(g) ==
  LET r == reader[g] IN
  /\ r.st = "busy" /\ r.fires = <<>> /\ r.todo = <<>>
  /\ r.ev # <<>> /\ r.ev # <<"lost">>
  /\ reader' = [reader EXCEPT ![g] = [OnEvent(r) EXCEPT !.ev = <<>>]]
  /\ UNCHANGED <<phys, generation, alive, registries, td, session, bounds, intoChord>>

(* The stream ended: what was parked is drained in teardown mode.          *)
Drain(g) ==
  LET r == reader[g] IN
  /\ r.st = "busy" /\ r.fires = <<>> /\ r.todo = <<>> /\ r.ev = <<"lost">>
  /\ reader' = [reader EXCEPT ![g] =
       [r EXCEPT !.st = "post", !.ev = <<>>, !.pend = <<>>,
                 !.todo = [i \in DOMAIN r.pend |-> <<"up", r.pend[i]>>]]]
  /\ UNCHANGED <<phys, generation, alive, registries, td, session, bounds, intoChord>>

(* The bug: a retired writer still counts.                                 *)
SetHeldAlways(w, keys, down) ==
  heldKeys' = IF down THEN heldKeys \cup keys ELSE heldKeys \ keys

(* HeldKeysWriter::set: dropped once a clear() has retired the writer.     *)
SetHeld(w, keys, down) ==
  heldKeys' = IF w # writers THEN heldKeys
              ELSE IF down THEN heldKeys \cup keys ELSE heldKeys \ keys

(* commit: the held set, its mirror, one engine step.                      *)
Commit(g) ==
  LET r    == reader[g]
      down == Head(r.todo)[1] = "down"
      k    == Head(r.todo)[2]
      held == IF down THEN r.held \cup {k} ELSE r.held \ {k}
      e    == Step(Chords, r.engine, held)
  IN /\ Running(g) /\ r.fires = <<>> /\ r.todo # <<>>
     /\ IF held = r.held
        THEN /\ reader' = [reader EXCEPT ![g].todo = Tail(@)]
             /\ UNCHANGED heldKeys
        ELSE /\ reader' = [reader EXCEPT ![g] =
                  [r EXCEPT !.todo = Tail(@), !.held = held,
                            !.engine = EngineOf(e), !.fires = e.fires]]
             /\ SetHeld(r.w, {k}, down)
     /\ UNCHANGED <<phys, generation, alive, holds, writers, latch, trig, td, session,
                    bounds, intoChord>>

Fired(g) ==
  Running(g) /\ reader[g].fires # <<>>
NextFire(g, fires) == reader' = [reader EXCEPT ![g].fires = fires \o Tail(@)]

(* The rising fires.                                                       *)
DispatchRising(g) ==
  LET fire == Head(reader[g].fires) IN
  /\ Fired(g)
  /\ \/ fire[1] = "start" /\ DoStart(g, fire[2])
     \/ fire[1] = "toggle" /\ DoToggle(fire[2])
     \/ fire[1] = "reclassify" /\ DoReclassify(fire[2])
     \/ fire[1] = "quickAdd" /\ UNCHANGED <<holds, latch, trig, session>>
  /\ NextFire(g, <<>>)
  /\ UNCHANGED <<phys, generation, alive, heldKeys, writers, td, bounds, intoChord>>

(* A live stop is emitted, then forgotten; a handed-over hold is forgotten. *)
DispatchStop(g) ==
  LET p == Head(reader[g].fires)[2] IN
  /\ Fired(g) /\ Head(reader[g].fires)[1] = "stop" /\ reader[g].st = "busy"
  /\ Snapshot(p) /\ StopSession({})
  /\ NextFire(g, <<<<"release", p>>>>)
  /\ UNCHANGED <<phys, generation, alive, holds, heldKeys, writers, latch, td, bounds,
                 intoChord>>

ForgetHold(g) ==
  LET fire == Head(reader[g].fires) IN
  /\ Fired(g) /\ fire[1] = "release"
  /\ holds' = [holds EXCEPT ![fire[2]] = 0]
  /\ NextFire(g, <<>>)
  /\ UNCHANGED <<phys, generation, alive, heldKeys, writers, latch, trig, td, session,
                 bounds, intoChord>>

(* take_hold: a stop in teardown mode must be claimed.                     *)
Claimed(p) == holds[p] # 0

ClaimStop(g) ==
  LET p == Head(reader[g].fires)[2] IN
  /\ Fired(g) /\ Head(reader[g].fires)[1] = "stop" /\ reader[g].st = "post"
  /\ holds' = [holds EXCEPT ![p] = 0]
  /\ NextFire(g, IF Claimed(p) THEN <<<<"manufacture", p>>>> ELSE <<>>)
  /\ UNCHANGED <<phys, generation, alive, heldKeys, writers, latch, trig, td, session,
                 bounds, intoChord>>

(* manufactured_stop: arm the loss latch if the kernel says a modifier of   *)
(* the chord is still down, then emit.                                     *)
ArmsOnAll(p) == latch' = (latch \/ ModsOf(p) \subseteq phys)   \* the bug: all, not any
Arms(p) == latch' = (latch \/ ModsOf(p) \cap phys # {})

Manufacture(g) ==
  LET fire == Head(reader[g].fires) IN
  /\ Fired(g) /\ fire[1] = "manufacture"
  /\ Arms(fire[2])
  /\ StopSession(ModsOf(fire[2]) \cap phys)
  /\ NextFire(g, <<>>)
  /\ UNCHANGED <<phys, generation, alive, holds, heldKeys, writers, trig, td, bounds,
                 intoChord>>

(* The rest of the post-loop: the keys still held leave the mirror, and the *)
(* holds still active are claimed.                                         *)
PostLoop(g) ==
  LET r     == reader[g]
      owed  == ActiveHolds(Chords, r.engine)
      claim == {p \in owed : Claimed(p)}
  IN /\ r.st = "post" /\ ~HasWork(r)
     /\ reader' = [reader EXCEPT ![g] =
          IF claim = {} THEN [NoReader EXCEPT !.st = "gone"]
          ELSE [r EXCEPT !.held = {}, !.engine = NewEngine,
                         !.fires = SetToSeq({<<"manufacture", p>> : p \in claim})]]
     /\ holds' = [p \in Profiles |-> IF p \in owed THEN 0 ELSE holds[p]]
     /\ SetHeld(r.w, r.held, FALSE)
     /\ UNCHANGED <<phys, generation, alive, writers, latch, trig, td, session, bounds,
                    intoChord>>

-----------------------------------------------------------------------------
(* The applies: a restart (rebind, sync, resume, re-scan), a capture's     *)
(* suspend, and evdev switched off.                                        *)
AppliesNoTake == {<<"clear", "spawn">>, <<"clear">>}   \* the bug: no stops on teardown
Applies == {<<"take", "clear", "spawn">>, <<"clear", "take">>, <<"take", "clear">>}

(* The listener is dropped, its parked reader with it; GENERATION moves.   *)
Retire ==
  /\ td.steps = <<>> /\ generation < MaxGen
  /\ \E steps \in Applies : td' = [td EXCEPT !.steps = steps]
  /\ generation' = generation + 1 /\ alive' = 0
  /\ reader' = [g \in Gens |-> IF reader[g].st = "parked"
                               THEN [NoReader EXCEPT !.st = "gone"] ELSE reader[g]]
  /\ UNCHANGED <<phys, registries, session, bounds, intoChord>>

(* stop_held_sessions takes the registry, then emits what it took.         *)
Take ==
  /\ td.steps # <<>> /\ Head(td.steps) = "take" /\ td.owed = <<>>
  /\ td' = [steps |-> Tail(td.steps),
            owed |-> SetToSeq({p \in Profiles : holds[p] # 0})]
  /\ holds' = [p \in Profiles |-> 0]
  /\ UNCHANGED <<phys, generation, alive, reader, heldKeys, writers, latch, trig, session,
                 bounds, intoChord>>

TakeEmits ==
  LET owed == Head(td.owed) IN
  /\ td.owed # <<>>
  /\ Arms(owed)
  /\ StopSession(ModsOf(owed) \cap phys)
  /\ td' = [td EXCEPT !.owed = Tail(@)]
  /\ UNCHANGED <<phys, generation, alive, reader, holds, heldKeys, writers, trig, bounds,
                 intoChord>>

(* HeldKeys::clear: every writer so far is retired, the counts go.         *)
Clear ==
  /\ td.steps # <<>> /\ Head(td.steps) = "clear" /\ td.owed = <<>>
  /\ writers' = writers + 1 /\ heldKeys' = {}
  /\ td' = [td EXCEPT !.steps = Tail(@)]
  /\ UNCHANGED <<phys, generation, alive, reader, holds, latch, trig, session, bounds,
                 intoChord>>

Spawn ==
  /\ td.steps # <<>> /\ Head(td.steps) = "spawn" /\ td.owed = <<>>
  /\ reader' = [reader EXCEPT ![generation] =
                  [NoReader EXCEPT !.st = "parked", !.w = writers]]
  /\ alive' = generation
  /\ td' = [td EXCEPT !.steps = Tail(@)]
  /\ UNCHANGED <<phys, generation, registries, session, bounds, intoChord>>

-----------------------------------------------------------------------------
(* inject_text's held-chord gate: wait for the modifiers the mirror shows, *)
(* or give up after 500 ms; then the latch, consumed.  A transcript that is *)
(* not diverted is typed.                                                  *)
Inject ==
  LET stuck == trig \cap heldKeys # {}
  IN /\ session.mode = "finalizing"
     /\ latch' = FALSE
     /\ intoChord' = IF stuck \/ latch \/ session.down = {} THEN intoChord
                    ELSE intoChord \cup {IF session.refired THEN "refired" ELSE "plain"}
     /\ session' = NoSession
     /\ UNCHANGED <<phys, generation, alive, reader, holds, heldKeys, writers, trig, td,
                    bounds>>

ReaderStep(g) ==
  \/ Wake(g) \/ Debounce(g) \/ Drain(g) \/ Commit(g)
  \/ DispatchRising(g) \/ DispatchStop(g) \/ ForgetHold(g) \/ ClaimStop(g)
  \/ Manufacture(g) \/ PostLoop(g)

ApplyStep == Take \/ TakeEmits \/ Clear \/ Spawn

Next ==
  \/ \E k \in Keys : Press(k) \/ Release(k)
  \/ StreamEnds
  \/ \E g \in Gens : ReaderStep(g) \/ Park(g)
  \/ Retire \/ ApplyStep \/ Inject

Spec == Init /\ [][Next]_vars

Fairness ==
  /\ WF_vars(ApplyStep)
  /\ \A g \in Gens : WF_vars(ReaderStep(g)) /\ WF_vars(Park(g))
  /\ \A k \in Keys : WF_vars(Release(k))

FairSpec == Spec /\ Fairness

-----------------------------------------------------------------------------

Event  == {"down", "up"} \X Keys
Events == Event \cup {<<"lost">>}

TypeOK ==
  /\ phys \cup heldKeys \subseteq Keys /\ trig \subseteq Mods
  /\ generation \in Gens /\ alive \in {0, generation}
  /\ holds \in [Profiles -> 0..MaxGen] /\ writers \in 0..MaxGen
  /\ session \in [mode : {"none", "hold", "handsFree", "finalizing"}, 
                  by : Profiles \cup {0}, down : SUBSET Mods, refired : BOOLEAN]
  /\ \A g \in Gens :
       LET r == reader[g] IN
       /\ r.st \in {"none", "parked", "busy", "post", "gone"}
       /\ ToSet(r.q) \cup (IF r.ev = <<>> THEN {} ELSE {r.ev}) \subseteq Events
       /\ ToSet(r.todo) \subseteq Event
       \* a release is parked only for a key the reader counts as held, or
       \* one whose parked release is being committed
       /\ ToSet(r.pend) \subseteq r.held /\ IsInjective(r.pend)

Quiet ==
  /\ td.steps = <<>> /\ td.owed = <<>>
  /\ \A g \in Gens : ~Running(g) /\ reader[g].q = <<>> /\ reader[g].pend = <<>>

(* Once everything has settled, the injection gate counts no key that is   *)
(* not physically down: no leaked count sends every later phrase to the     *)
(* clipboard.                                                              *)
GateNeverWedges == Quiet => heldKeys \subseteq phys

(* A transcript cut loose by a manufactured stop is never typed while a     *)
(* modifier that was down at that stop has not been let go since, unless a  *)
(* chord fired in between: the mirror still shows it, or the loss latch     *)
(* stands in for it.                                                       *)
ChordTextDiverted == "plain" \notin intoChord

(* held_keys.rs on clearing the latch at a fresh edge: it "cannot produce a *)
(* false negative", so a chord that fires in between makes no difference.   *)
FreshEdgeHidesNoHeldChord == intoChord = {}

(* Every push-to-talk session ends once the user lets go, across every     *)
(* restart, suspend and unplug of the listener that saw it start.          *)
HoldEnds == (session.mode = "hold") ~> (session.mode # "hold")
=============================================================================
